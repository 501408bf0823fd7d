----------------------------- MODULE StepWrites -----------------------------
(***************************************************************************)
(* What a step of the runtime writes, file by file: the worktree it writes *)
(* to, the commit under it, the stash a gate check borrows, and the        *)
(* artifacts under .git that no commit or stash touches.  WorkItemLoop     *)
(* takes a step at once; here a step is the sequence of its writes: it     *)
(* leaves all of them, or the process is killed and a prefix of them is    *)
(* what the next run finds.                                                *)
(*                                                                         *)
(* Two work items: a feature, and the fix the runtime files for it.  The   *)
(* answers of agents and the Doctor's decision are any; WorkItemLoop has   *)
(* the rules that choose among them.  What a person does is limited to     *)
(* acknowledging a block and committing a worktree that a run refused.     *)
(***************************************************************************)
EXTENDS StateDocument, FiniteSetsExt, SequencesExt

CONSTANTS
  Requests,        \* task requests of the feature's outline
  MaxTasks,        \* bound: primary tasks planned for one item
  ArcSize,         \* bound: a primary task and its corrections, counted together
  MaxCorrections,  \* limits.max_review_iterations
  MaxEdits,        \* bound: changes implementers make
  MaxMishaps       \* bound: kills in the middle of a step, and diagnoses, counted together

ASSUME StepWritesAssumption ==
  /\ {Requests, MaxTasks, ArcSize} \subseteq Nat \ {0}
  /\ {MaxCorrections, MaxEdits, MaxMishaps} \subseteq Nat

Feature == "feature"
Fix     == "fix"
Items   == {Feature, Fix}

\* Task n of an item is n * ArcSize + 1, counted from zero; its corrections follow it.
TaskIds == 1 .. MaxTasks * ArcSize
primaryTaskAnchor(t) == t - ((t - 1) % ArcSize)
Primaries == {t \in TaskIds : primaryTaskAnchor(t) = t}

\* Where code lives: what an item's tasks may touch, and everything else.
Areas == Items \cup {"elsewhere"}

\* One change of an implementer: where, for which task, which attempt of all.
Edits == [area : Areas, item : Items, task : TaskIds, n : 1..MaxEdits]

\* The content of a checkout.  `project` is what PROJECT_STATE.md says of whom.
Trees == [state : [Items -> StateDocuments], docs : [Items -> SUBSET TaskIds],
          project : [item : Items, lc : Lifecycles], code : SUBSET Edits]

NoGates == [result |-> "none", code |-> {}]

\* Artifacts under .git/proto-compassrose.
Artifacts ==
  [allowed : [Items -> [TaskIds -> SUBSET Areas]],           \* tasks/<task>.json
   source  : [TaskIds -> 0..Requests],                       \* its source_task_request_id
   outline : [1..Requests -> {"not_started", "in_progress", "complete"}],
   diffs   : [Items -> [TaskIds -> SUBSET Edits]],
   gates   : [Items -> [TaskIds -> [result : {"none", "passed", "failed", "waived"},
                                    code : SUBSET Edits]]],
   reviews : [Items -> SUBSET TaskIds],                      \* those approved
   diagnosed : [Items -> Signatures \cup {NoBlocker}]]

VARIABLES
  disk,   \* tree, head, stash (leftovers below, the borrowed one on top) and artifacts
  proc,   \* the process: where it is, what its run set aside and what documents it wrote
  edits, mishaps
vars == <<disk, proc, edits, mishaps>>

Places == {"down", "idle", "implementing", "gating", "baseline"}

Idle(aside, authored) ==
  [at |-> "idle", item |-> Feature, attempt |-> 1, aside |-> aside, authored |-> authored]
Down == [Idle({}, {}) EXCEPT !.at = "down"]

Init ==
  LET tree == [state |-> [i \in Items |-> IF i = Feature THEN Validated(Formalized)
                                          ELSE Blank("absent")],
               docs |-> [i \in Items |-> {}],
               project |-> [item |-> Feature, lc |-> "formalized"],
               code |-> {}]
  IN  /\ disk = [tree |-> tree, head |-> tree, stash |-> <<>>,
                 arts |-> [allowed |-> [i \in Items |-> [t \in TaskIds |-> {}]],
                           source |-> [t \in TaskIds |-> 0],
                           outline |-> [n \in 1..Requests |-> "not_started"],
                           diffs |-> [i \in Items |-> [t \in TaskIds |-> {}]],
                           gates |-> [i \in Items |-> [t \in TaskIds |-> NoGates]],
                           reviews |-> [i \in Items |-> {}],
                           diagnosed |-> [i \in Items |-> NoBlocker]]]
      /\ proc = Down
      /\ edits = 0 /\ mishaps = 0

(***************************************************************************)
(* Git: what is dirty, what a commit takes, what a discard reverts.        *)
(***************************************************************************)
DirtyCode(d) == d.tree.code \ d.head.code

dirtyPaths(d) ==
  (IF d.tree.project # d.head.project THEN {<<"project">>} ELSE {})
    \cup {<<"state", i>> : i \in {j \in Items : d.tree.state[j] # d.head.state[j]}}
    \cup (UNION {{<<"doc", i, t>> : t \in SymDiff(d.tree.docs[i], d.head.docs[i])} : i \in Items})
    \cup {<<"code", e.area>> : e \in SymDiff(d.tree.code, d.head.code)}

Project == {<<"project">>}
Directory(i) == {<<"state", i>>} \cup {<<"doc", i, t>> : t \in TaskIds}
AllowedPaths(d, i, t) ==
  IF t \in d.tree.docs[i] THEN {<<"code", a>> : a \in d.arts.allowed[i][t]} ELSE {}

CommitAll(d) == [d EXCEPT !.head = d.tree]

\* git.commit of an explicit list of paths, none of them code.
CommitOnly(d, paths) ==
  [d EXCEPT !.head =
     [state |-> [i \in Items |-> (IF <<"state", i>> \in paths THEN d.tree ELSE d.head).state[i]],
      docs  |-> [i \in Items |-> {t \in TaskIds :
                   t \in (IF <<"doc", i, t>> \in paths THEN d.tree ELSE d.head).docs[i]}],
      project |-> (IF <<"project">> \in paths THEN d.tree ELSE d.head).project,
      code  |-> d.head.code]]

\* reconcileDirtyPathsForNewScope: the new scope is documents only.
Discard(d, i, t) ==
  [d EXCEPT !.tree.code =
     {e \in @ : e \in d.head.code \/ <<"code", e.area>> \notin AllowedPaths(d, i, t)}]

(***************************************************************************)
(* One write each: the disk after it.                                      *)
(***************************************************************************)
WithState(d, i, s) == [d EXCEPT !.tree.state[i] = s]
WithProject(d, i) == [d EXCEPT !.tree.project = [item |-> i, lc |-> d.tree.state[i].lc]]
WithDocument(d, i, t) == [d EXCEPT !.tree.docs[i] = @ \cup {t}]
WithTask(d, i, t, areas) == [d EXCEPT !.arts.allowed[i][t] = areas]
WithRequest(d, n, status) == IF n = 0 THEN d ELSE [d EXCEPT !.arts.outline[n] = status]
WithSource(d, t, n) == [d EXCEPT !.arts.source[t] = n]
WithGates(d, i, t, result) ==
  [d EXCEPT !.arts.gates[i][t] =
     [result |-> result, code |-> {e \in d.tree.code : e.item = i /\ e.task = t}]]
WithReview(d, i, t) == [d EXCEPT !.arts.reviews[i] = @ \cup {t}]
WithAttempt(d, i) == [d EXCEPT !.arts.diagnosed[i] = Signature(BlockerOf(d.tree.state[i]))]

\* persistImplementationAttemptArtifacts: an attempt without a diff keeps the last patch.
WithDiff(d, i, t) ==
  IF DirtyCode(d) = {} THEN d ELSE [d EXCEPT !.arts.diffs[i][t] = DirtyCode(d)]

\* The state document, then the project's.
Recorded(d, i, s) ==
  <<WithState(d, i, s), WithProject(WithState(d, i, s), i)>>

\* A sequence of disks followed by what f makes of the last one.
Then(ds, f(_)) == Append(ds, f(Last(ds)))

\* persistBlockedFeature, then one more field of the state document, then a commit.
Block(s, why, lc) ==
  ForBlocked(s, [kind |-> "other", recov |-> "agent", seen |-> s.lc, why |-> why,
                 task |-> NoTask], lc)
BlockedForHuman(d, i) ==
  LET s  == Block(d.tree.state[i], "diagnosed", "blocked")
      ds == Recorded(d, i, s)
      d1 == WithState(Last(ds), i, [s EXCEPT !.ack = TRUE])
  IN  ds \o <<d1, CommitAll(d1)>>

\* fileOrReuseBlockingFix, then the block of item i and the fix it waits on.  A new fix is
\* written as request.md, fix.md and state.md; its state document makes it a filed one.
\* The signature is found in request.md, so a fix of which only that exists is reused.
FixFiles(d) ==
  IF d.tree.state[Fix].lc # "absent" THEN <<>>
  ELSE <<WithState(d, Fix, Blank("request_pending")), WithState(d, Fix, Filed)>>
BlockedOnFix(d, i) ==
  LET files == FixFiles(d)
      d0 == Last(<<d>> \o files)
      s  == Block(d0.tree.state[i], "systemic", "blocked")
      ds == Recorded(d0, i, s)
  IN  files \o ds \o <<WithState(Last(ds), i, [s EXCEPT !.onFix = 1])>>

(***************************************************************************)
(* What runs next, and whether the worktree lets it.                       *)
(***************************************************************************)
Tier(d, i) ==
  CASE isContinuing(d.tree.state[i]) /\ i = Feature -> 0
    [] isContinuing(d.tree.state[i]) /\ i = Fix     -> 1
    [] isStartable(d.tree.state[i])  /\ i = Fix     -> 2
    [] isStartable(d.tree.state[i])  /\ i = Feature -> 3
    [] OTHER                                        -> 4

\* The item determineNextStep selects, if any.
Next1(d, aside) ==
  {i \in Items \ aside : /\ Tier(d, i) < 4
                         /\ \A j \in Items \ aside : Tier(d, i) <= Tier(d, j)}

\* The task_id of the step decision.
DecidedTask(s) == IF s.lc = "correction_pending" THEN s.corr ELSE s.task

\* Seeded fault: the active task's own paths are not looked up.
DisallowedOutsideDocuments(d) ==
  dirtyPaths(d) \ UNION {IF isStartable(d.tree.state[i]) THEN {} ELSE Project \cup Directory(i) :
                           i \in Next1(d, {})}

findDisallowedDirtyPaths(d) ==
  LET dirty == dirtyPaths(d)
      next  == Next1(d, {})
  IN  IF next = {} THEN dirty \ Project
      ELSE LET i == CHOOSE j \in next : TRUE
               s == d.tree.state[i]
           IN  IF isStartable(s) THEN dirty
               ELSE dirty \ (Project \cup Directory(i) \cup AllowedPaths(d, i, DecidedTask(s)))

\* Seeded fault: changed code does not count.
CleanOfDocuments(d, i) ==
  dirtyPaths(d) \subseteq Project \cup Directory(i) \cup {<<"code", a>> : a \in Areas}

\* ensureCleanWorktree, for a step on item i.
IsCleanFor(d, i) == dirtyPaths(d) \subseteq Project \cup Directory(i)

\* The process takes a step on item i, inspected as kind.
Selected(i, kind) ==
  /\ proc.at = "idle" /\ WorkItemInspectionKind(disk.tree.state[i]) = kind
  /\ i \in Next1(disk, proc.aside)

\* The writes of a step leave the disks ds one after the other, and the process goes on as p;
\* or it is killed between two of them.  Documents that are committed never differ again, so
\* the run need not remember that it wrote them.  A diagnosis on record is a mishap too.
Leave(ds, p) ==
  LET d == Last(ds)
      n == mishaps + Quantify(Items, LAMBDA i : d.arts.diagnosed[i] # disk.arts.diagnosed[i])
  IN  /\ UNCHANGED edits
      /\ \/ /\ n <= MaxMishaps /\ mishaps' = n
            /\ disk' = d
            /\ proc' = [p EXCEPT !.authored = @ \cap dirtyPaths(d)]
         \/ /\ n < MaxMishaps /\ mishaps' = n + 1
            /\ \E k \in 1 .. Len(ds) - 1 : disk' = ds[k]
            /\ proc' = Down

Enter(i, ds, place) == Leave(ds, [proc EXCEPT !.at = place, !.item = i, !.attempt = 1])
Done(ds) == Leave(ds, Idle(proc.aside, proc.authored))
Authoring(i, t, ds) == Leave(ds, Idle(proc.aside, proc.authored \cup {<<"doc", i, t>>}))
SettingAside(i, ds) == Leave(ds, Idle(proc.aside \cup {i}, proc.authored))

\* A step that throws before it writes ends the process.
Throw == proc' = Down /\ UNCHANGED <<disk, edits, mishaps>>

(***************************************************************************)
(* Planning and completion.                                                *)
(***************************************************************************)

\* Seeded fault: a request whose planning was interrupted is not offered again.
NextNotStarted(d) ==
  LET open == {n \in 1..Requests : d.arts.outline[n] = "not_started"}
  IN  IF open = {} THEN 0 ELSE Min(open)

selectNextTaskRequest(d) ==
  LET open == {n \in 1..Requests : d.arts.outline[n] # "complete"}
  IN  IF open = {} THEN 0 ELSE Min(open)

\* Seeded fault: the state document names the task before its document is there.
StateBeforeDocument(d, i, t, n) ==
  LET d1 == WithSource(WithTask(d, i, t, {i}), t, n)
      d2 == WithRequest(d1, n, "in_progress")
      ds == Recorded(d2, i, ForTaskPlan(d.tree.state[i], t))
  IN  <<d1, d2>> \o ds \o <<WithDocument(Last(ds), i, t)>>

\* finalizeTaskPlan: document, artifact, outline, state, project; nothing is committed.
finalizeTaskPlan(d, i, t, n) ==
  LET d1 == WithDocument(d, i, t)
      d2 == WithTask(d1, i, t, {i})
      d3 == IF n = 0 THEN d2 ELSE WithSource(d2, t, n)
      d4 == WithRequest(d3, n, "in_progress")
  IN  <<d1, d3, d4>> \o Recorded(d4, i, ForTaskPlan(d.tree.state[i], t))

\* A primary task id no document of the item has.
Unused(d, i) == Primaries \ {primaryTaskAnchor(t) : t \in d.tree.docs[i]}

PlanTask(i) ==
  /\ \E kind \in Planning : Selected(i, kind)
  /\ IF ~IsCleanFor(disk, i) THEN Throw
     ELSE /\ i = Feature => selectNextTaskRequest(disk) # 0
          /\ Unused(disk, i) # {}
          /\ LET t == Min(Unused(disk, i))
                 n == IF i = Feature THEN selectNextTaskRequest(disk) ELSE 0
             IN  Authoring(i, t, finalizeTaskPlan(disk, i, t, n))

\* Pointers left, or the last gate or review did not pass.
Unfinished(s) ==
  \/ s.task # NoTask \/ s.corr # NoTask
  \/ s.gates = "failed" \/ s.review \in {"blocked", "changes_required"}

\* attemptFeatureCompletion, once the outline is exhausted.
AttemptCompletion ==
  /\ \E kind \in Planning : Selected(Feature, kind)
  /\ IsCleanFor(disk, Feature) /\ selectNextTaskRequest(disk) = 0
  /\ LET s == disk.tree.state[Feature]
     IN  \/ /\ ~Unfinished(s)
            /\ Done(Then(Recorded(disk, Feature, AfterCompletion(s)), CommitAll))
         \/ SettingAside(Feature, Then(Recorded(disk, Feature, Block(s, "unfinished", "blocked")),
                                       CommitAll))

\* planSubtask, for a ready task or a pending correction.
PlanSubtask(i) ==
  /\ \E kind \in {"task_ready", "correction_pending"} : Selected(i, kind)
  /\ LET s == disk.tree.state[i]
         t == DecidedTask(s)
     IN  IF t \in disk.tree.docs[i] /\ IsCleanFor(disk, i)
         THEN Done(Recorded(disk, i, DuringImplementation(s, t)))
         ELSE Throw

(***************************************************************************)
(* Implementation and gates.                                               *)
(***************************************************************************)
Active(i) == disk.tree.state[i].task

\* The next steps of a task whose document is there; loadTask finds it (PointersResolve).
ImplementSubtask(i) ==
  /\ Selected(i, "implementation_running") /\ Active(i) \in disk.tree.docs[i]
  /\ Enter(i, Recorded(disk, i, DuringImplementation(disk.tree.state[i], Active(i))),
           "implementing")

\* The agent changes a file of the task, or one that is not the task's.
AgentEdits ==
  /\ proc.at = "implementing" /\ edits < MaxEdits
  /\ \E area \in {proc.item, "elsewhere"} :
       disk' = [disk EXCEPT !.tree.code =
                  @ \cup {[area |-> area, item |-> proc.item, task |-> Active(proc.item),
                           n |-> edits + 1]}]
  /\ edits' = edits + 1
  /\ UNCHANGED <<proc, mishaps>>

\* The two state documents are left out of an attempt's diff, and nothing else is.
HasDiff(d, i) == dirtyPaths(d) \ (Project \cup {<<"state", i>>}) # {}

\* Seeded fault: only a successful attempt is archived.
FailedWrites(d, i, t) == Recorded(d, i, AfterImplementationFailure(d.tree.state[i]))

\* A last attempt that failed: its diff, then the two documents; nothing is committed.
ImplementationFailed(d, i, t) ==
  LET d1 == WithDiff(d, i, t)
  IN  <<d1>> \o Recorded(d1, i, AfterImplementationFailure(d1.tree.state[i]))

\* The agent returns.  An attempt succeeds with a diff, or by saying that nothing was to
\* be done; a failed first one that left changes is retried on top of them.
AgentReturns ==
  LET i == proc.item
      t == Active(i)
  IN  /\ proc.at = "implementing"
      /\ \E ok, alreadyComplete \in BOOLEAN :
           IF ok /\ (HasDiff(disk, i) \/ alreadyComplete)
           THEN Enter(i, <<WithDiff(disk, i, t)>>, "gating")
           ELSE IF proc.attempt = 1 /\ HasDiff(disk, i)
           THEN Leave(<<WithDiff(disk, i, t)>>, [proc EXCEPT !.attempt = 2])
           ELSE Done(ImplementationFailed(disk, i, t))

\* blockOnUnrelatedFixFailure: the abandoned diff is discarded, the rest committed.
WaivedGate(d, i, t) ==
  LET d1 == WithGates(d, i, t, "waived")
      ds == <<d1>> \o BlockedOnFix(d1, i)
      d2 == Discard(Last(ds), i, t)
  IN  ds \o <<d2, CommitAll(d2)>>

FailedGate(d, i, t) ==
  LET d1 == WithGates(d, i, t, "failed")
  IN  <<d1>> \o Recorded(d1, i, AfterGatesFailed(d1.tree.state[i], "agent"))

\* Seeded fault: gate results an earlier attempt left are taken for this one's.
ReusedGates(d, i, t) ==
  IF d.arts.gates[i][t].result # "none" THEN d ELSE WithGates(d, i, t, "passed")

PassedGates(d, i, t) == WithGates(d, i, t, "passed")

RunQualityGates ==
  LET i == proc.item
      t == Active(i)
      d1 == PassedGates(disk, i, t)
  IN  /\ proc.at = "gating"
      /\ \/ Done(<<d1>> \o Recorded(d1, i, AfterGatesPassed(d1.tree.state[i])))
         \/ Done(FailedGate(disk, i, t))

\* A gate fails on files that are not the task's: everything is stashed, and the gate
\* runs again on what HEAD has.
StashForBaseline ==
  /\ proc.at = "gating" /\ dirtyPaths(disk) # {}
  /\ disk' = [disk EXCEPT !.stash = Append(@, disk.tree), !.tree = disk.head]
  /\ proc' = [proc EXCEPT !.at = "baseline"]
  /\ UNCHANGED <<edits, mishaps>>

\* The stash is popped, and the gate is waived if it failed without the change too.
PopBaseline ==
  LET d == [disk EXCEPT !.tree = Last(disk.stash), !.stash = Front(disk.stash)]
      i == proc.item
      t == d.tree.state[i].task
  IN  /\ proc.at = "baseline"
      /\ \/ Done(<<d>> \o FailedGate(d, i, t))
         \/ SettingAside(i, <<d>> \o WaivedGate(d, i, t))

(***************************************************************************)
(* Review.                                                                 *)
(***************************************************************************)
ensureQualityGateResults(d, i, t) ==
  IF d.arts.gates[i][t].result # "none" THEN d ELSE WithGates(d, i, t, "passed")

\* What the diff under review holds besides the runtime's own documents, as far as this
\* process knows which those are, and what of it the task was not allowed to touch.
reviewedPaths(i) == dirtyPaths(disk) \ (Project \cup {<<"state", i>>} \cup proc.authored)
OutOfScope(i) ==
  reviewedPaths(i) \ {<<"code", a>> : a \in disk.arts.allowed[i][Active(i)]}

\* Seeded fault: ids are taken past the end of the arc.
NextAnywhere(d, i, t) ==
  Max({k \in d.tree.docs[i] \cup {t} : primaryTaskAnchor(k) = primaryTaskAnchor(t)}) + 1

\* The next unused id in the arc of task t.
NextCorrection(d, i, t) ==
  LET a == primaryTaskAnchor(t)
  IN  IF a + ArcSize - 1 \in d.tree.docs[i] \cup {t} THEN NoTask
      ELSE Max({k \in d.tree.docs[i] \cup {t} : primaryTaskAnchor(k) = a}) + 1

\* buildStateCorrectionTaskId answers null.
AtCorrectionLimit(d, i, t) ==
  LET c == NextCorrection(d, i, t)
  IN  c = NoTask \/ c - primaryTaskAnchor(t) > MaxCorrections

\* A correction asked for by review or by the scope check: its document, its artifact,
\* the two state documents, and everything in the worktree committed.
RequestCorrection(d, i, c, areas) ==
  LET d1 == WithDocument(d, i, c)
      d2 == WithTask(d1, i, c, areas)
  IN  Then(<<d1, d2>> \o Recorded(d2, i, ForCorrection(d.tree.state[i], c)), CommitAll)

\* The reviewer approved: outline, state, project, commit.
ApproveReview(d, i, t) ==
  LET n  == d.arts.source[primaryTaskAnchor(t)]
      d1 == WithReview(d, i, t)
      d2 == IF i = Feature THEN WithRequest(d1, n, "complete") ELSE d1
  IN  Then(<<d1, d2>> \o Recorded(d2, i, AfterApprovedReview(d.tree.state[i])), CommitAll)

\* A review that answered failed, or blocked: the same writes, and the first is as good here.
RejectReview(d, i) ==
  Then(Recorded(d, i, Block(d.tree.state[i], "review", "review_failed")), CommitAll)

ReviewSubtask(i) ==
  LET t == Active(i)
      d == ensureQualityGateResults(disk, i, t)
      c == NextCorrection(disk, i, t)
  IN  /\ Selected(i, "review_pending")
      /\ t \in disk.tree.docs[i]
      /\ \/ /\ OutOfScope(i) # {} /\ ~AtCorrectionLimit(disk, i, t)
            /\ Authoring(i, c, RequestCorrection(d, i, c, d.arts.allowed[i][t]
                 \cup {p[2] : p \in {q \in OutOfScope(i) : q[1] = "code"}}))
         \* at the limit nothing is written
         \/ /\ OutOfScope(i) # {} /\ AtCorrectionLimit(disk, i, t)
            /\ SettingAside(i, <<disk>>)
         \/ OutOfScope(i) = {} /\ Done(ApproveReview(d, i, t))
         \/ /\ OutOfScope(i) = {} /\ c # NoTask
            /\ Authoring(i, c, RequestCorrection(d, i, c, d.arts.allowed[i][t]))
         \/ OutOfScope(i) = {} /\ Done(RejectReview(d, i))

(***************************************************************************)
(* Diagnosis.                                                              *)
(***************************************************************************)

\* correctState: the superseded attempt is discarded first; the commit names its paths.
CorrectState(d, i, c) ==
  LET s  == d.tree.state[i]
      d1 == Discard(d, i, s.task)
      d2 == WithDocument(d1, i, c)
      d3 == WithTask(d2, i, c, {})
      ds == <<d1, d2, d3>> \o Recorded(d3, i, AfterStateCorrection(s, s.task))
      paths == Project \cup {<<"doc", i, c>>, <<"state", i>>}
  IN  Append(ds, CommitOnly(Last(ds), paths))

FileBlockingFix(d, i) ==
  LET ds == BlockedOnFix(d, i)
  IN  Append(ds, CommitOnly(Last(ds), Project \cup {<<"state", i>>} \cup Directory(Fix)))

\* The block that diagnosis records when it stops is not committed.
StopWithDiagnostic(d, i) == Recorded(d, i, Block(d.tree.state[i], "stop", "blocked"))

Diagnosed(d, i) == d.arts.diagnosed[i] = Signature(BlockerOf(d.tree.state[i]))

DiagnoseAutocorrect(i) ==
  LET d == WithAttempt(disk, i)
      s == disk.tree.state[i]
      c == NextCorrection(disk, i, s.task)
  IN  /\ \E kind \in Failed \cup {"blocked"} : Selected(i, kind)
      /\ \/ Diagnosed(disk, i) /\ SettingAside(i, BlockedForHuman(disk, i))
         \/ /\ ~Diagnosed(disk, i) /\ s.task # NoTask /\ ~AtCorrectionLimit(disk, i, s.task)
            /\ Authoring(i, c, <<d>> \o CorrectState(d, i, c))
         \* a conversation, or a correction past the limit
         \/ ~Diagnosed(disk, i) /\ SettingAside(i, <<d>> \o BlockedForHuman(d, i))
         \/ ~Diagnosed(disk, i) /\ i = Feature /\ SettingAside(i, <<d>> \o FileBlockingFix(d, i))
         \/ ~Diagnosed(disk, i) /\ SettingAside(i, <<d>> \o StopWithDiagnostic(d, i))

(***************************************************************************)
(* The process, and the person between two of its runs.                    *)
(***************************************************************************)
StartRun ==
  /\ proc.at = "down" /\ findDisallowedDirtyPaths(disk) = {}
  /\ proc' = Idle({}, {})
  /\ UNCHANGED <<disk, edits, mishaps>>

EndRun == proc.at = "idle" /\ proc' = Down /\ UNCHANGED <<disk, edits, mishaps>>

Kill ==
  /\ proc.at \notin {"down", "idle"} /\ mishaps < MaxMishaps
  /\ proc' = Down /\ mishaps' = mishaps + 1
  /\ UNCHANGED <<disk, edits>>

acknowledgeBlocker(i) ==
  LET d == Last(Recorded(disk, i, AfterHumanAcknowledged(disk.tree.state[i])))
  IN  /\ proc.at = "down"
      /\ WorkItemInspectionKind(disk.tree.state[i]) = "blocked_on_human"
      /\ disk' = CommitOnly(d, Project \cup {<<"state", i>>})
      /\ UNCHANGED <<proc, edits, mishaps>>

\* A run refused the worktree, and the person commits it as it is.
CommitByHand ==
  /\ proc.at = "down" /\ findDisallowedDirtyPaths(disk) # {}
  /\ disk' = CommitAll(disk)
  /\ UNCHANGED <<proc, edits, mishaps>>

StepOf(i) ==
  \/ PlanTask(i) \/ PlanSubtask(i) \/ ImplementSubtask(i)
  \/ ReviewSubtask(i) \/ DiagnoseAutocorrect(i)

Next ==
  \/ \E i \in Items : StepOf(i) \/ acknowledgeBlocker(i)
  \/ AttemptCompletion
  \/ AgentEdits \/ AgentReturns
  \/ RunQualityGates \/ StashForBaseline \/ PopBaseline
  \/ StartRun \/ EndRun \/ Kill \/ CommitByHand

Spec == Init /\ [][Next]_vars

(***************************************************************************)
(* Properties.                                                             *)
(***************************************************************************)

\* Type invariant: what the two checkouts, the stash and the artifacts may hold.
TypeOk ==
  /\ {disk.tree, disk.head} \cup ToSet(disk.stash) \subseteq Trees
  /\ disk.arts \in Artifacts
  /\ proc.at \in Places /\ proc.item \in Items /\ proc.aside \subseteq Items
  /\ edits \in 0..MaxEdits /\ mishaps \in 0..MaxMishaps

Pointers(s) == {s.task, s.corr, s.from.task, s.from.corr} \ {NoTask}

\* Whatever write a kill falls behind, the task and the correction a state document names,
\* or suspends, have their document in the worktree and their artifact in the store: loadTask
\* finds them.  Only work left in a stash, by a kill in the middle of a baseline check, is
\* exempt.
PointersResolve ==
  disk.stash = <<>> =>
    \A i \in Items : \A t \in Pointers(disk.tree.state[i]) :
      t \in disk.tree.docs[i] /\ disk.arts.allowed[i][t] # {}

\* The item the process works on, if it works on one, and the worktree it works in, which is
\* on top of the stash while a gate runs on the baseline.
Worked == IF proc.at = "idle" THEN Next1(disk, proc.aside) ELSE {proc.item}
Worktree == IF proc.at = "baseline" THEN Last(disk.stash) ELSE disk.tree

\* What is submitted to the reviewer was written for the task under review: the commits
\* that end an arc, the discards, the clean-worktree preconditions and the refusal of a run
\* on a foreign worktree keep other changes of the item out, and those of the other item,
\* with two exceptions.  A diagnosis that stops or files a fix, and a scope violation at the
\* correction limit, leave the diff of an item this run set aside.  And the preflight goes by
\* paths: where a correction was allowed to follow a change out of scope, it does not tell
\* whose the change is.
ReviewedDiffIsOwn ==
  \A i \in Items : Selected(i, "review_pending") =>
    \A e \in DirtyCode(disk) :
      IF e.item = i THEN e.task = Active(i)
      ELSE e.item \in proc.aside \/ e.area \in disk.arts.allowed[i][Active(i)]

\* The gate results a review reuses were computed on all of the change it reviews, across
\* retries, kills, blocks and acknowledgements; what they were computed on besides was
\* discarded since, by a repair killed before it could say so, and is in the archived patch.
GatesJudgeThisDiff ==
  \A i \in Items : Selected(i, "review_pending") =>
    LET t        == Active(i)
        reviewed == {e \in disk.tree.code : e.item = i /\ e.task = t}
    IN  /\ disk.arts.gates[i][t].result = "passed"
        /\ reviewed \subseteq disk.arts.gates[i][t].code
        /\ disk.arts.gates[i][t].code \ reviewed \subseteq disk.arts.diffs[i][t]

\* A change of the item worked on that is thrown out of the worktree is in the archived patch
\* of the task it was made for, as the recovery that discards it says, unless a kill left the
\* whole worktree in the stash.  What discards take of the other item, where both were
\* allowed to change a path, is promised to nobody.
DiscardsAreArchived ==
  [][\A e \in Worktree.code \ Worktree'.code :
       \/ e.item \notin Worked
       \/ \E k \in DOMAIN disk'.stash : e \in disk'.stash[k].code
       \/ e \in disk'.arts.diffs[e.item][e.task]]_vars

\* While an implementer or its gates work inside the task's scope, in a run that set nothing
\* aside, the worktree is one the next run accepts: a kill then costs the attempt and not the
\* run after it.  The next run selects anew, so this says nothing while another item would
\* come first.
InterruptedAttemptIsAccepted ==
  /\ proc.at \in {"implementing", "gating"}
  /\ proc.aside = {} /\ proc.item \in Next1(disk, {})
  /\ \A e \in DirtyCode(disk) : e.item = proc.item /\ e.area # "elsewhere"
  => findDisallowedDirtyPaths(disk) = {}

\* A feature is only closed when every request of its outline was served by a task whose
\* review approved it and whose document is there, whatever was killed on the way.
CompletionLeavesNothing ==
  disk.stash = <<>> /\ disk.tree.state[Feature].lc = "completed" =>
    \A n \in 1..Requests :
      \E t \in disk.tree.docs[Feature] :
        disk.arts.source[t] = n
          /\ \E k \in disk.arts.reviews[Feature] : primaryTaskAnchor(k) = t
=============================================================================
