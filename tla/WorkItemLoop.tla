---------------------------- MODULE WorkItemLoop ----------------------------
(***************************************************************************)
(* The automated development loop: one run of the orchestrator picks a     *)
(* work item, executes exactly one step for it, records the outcome in the *)
(* item's state document and picks again.  Between runs a human specifies, *)
(* validates and unblocks items, and may close a fix by hand.              *)
(*                                                                         *)
(* Every answer of an agent, gate command or human is a nondeterministic   *)
(* choice; the CONSTANTS say which answers an instance considers.          *)
(***************************************************************************)
EXTENDS StateDocument, FiniteSets

CONSTANTS
  Features,          \* feature numbers, in listing order
  Fixes,             \* fix numbers, in listing order; each is a possible fix
  MaxReviewIterations, \* maxReviewIterations of the configuration
  MaxTasksPerRun,    \* maxTasksPerRun
  MaxAiCallsPerRun,  \* maxAiCallsPerRun
  MaxRequests,       \* bound: task requests in one outline
  MaxTaskDepth,      \* bound: deepest correction of a correction considered
  HumanFixes,        \* fixes requested by a human before anything runs
  LoopModes,         \* values of --loop
  RunTargets,        \* items a run may be restricted to; 0 is no restriction
  PlanResults, CompletionResults, ImplementationResults, ReviewResults,
  DoctorAnswers,     \* the answers considered, see the actions that use them
  FixSeverities,     \* severities a person gives a fix when specifying it
  Exits,             \* the exits a person takes from a menu: retry, correct, open_fix
  ReviewReasons,     \* which wordings of a rejection the reviewer uses
  TextKinds, TextRecoverabilities, \* readings of free text by the blocker classifier
  CanThrow, CanInterrupt           \* whether steps may throw or be interrupted

Items == Features \cup Fixes

ASSUME ItemsAssumption ==
  /\ Features \subseteq Nat \ {0} /\ Fixes \subseteq Nat \ {0}
  /\ Features \cap Fixes = {} /\ HumanFixes \subseteq Fixes

ASSUME BoundsAssumption ==
  /\ MaxReviewIterations \in Nat /\ MaxTasksPerRun \in Nat \ {0}
  /\ MaxAiCallsPerRun \in Nat \ {0} /\ MaxRequests \in Nat /\ MaxTaskDepth \in Nat \ {0}

ASSUME ChoicesAssumption ==
  /\ LoopModes \subseteq BOOLEAN /\ RunTargets \subseteq Items \cup {0}
  /\ ReviewReasons \subseteq {"review", "other_review"}
  /\ FixSeverities \subseteq {"critical", "high", "medium", "low"}
  /\ TextKinds \subseteq BlockerKinds /\ TextRecoverabilities \subseteq Recoverabilities

VARIABLES
  doc,    \* doc[i]: the state document of item i
  store,  \* store[i]: what the artifact store and tasks directory hold for item i
  fix,    \* fix[f]: severity and signature written when fix f was filed
  run     \* the run in progress, and how the last one ended

vars == <<doc, store, fix, run>>

(***************************************************************************)
(* Types.                                                                  *)
(***************************************************************************)
NoSignature == [kind |-> "none"]

\* open: task requests neither complete nor superseded; declared: the outline is not
\* empty; tasked: some task artifact exists; used: corrections already numbered under
\* the active task; diagnosed: the signature of diagnostic-attempts/<id>.json.
Stores == [open : 0..MaxRequests, declared : BOOLEAN, tasked : BOOLEAN, used : Nat,
           diagnosed : Signatures \cup {NoSignature}]

NewStore == [open |-> 0, declared |-> FALSE, tasked |-> FALSE, used |-> 0,
             diagnosed |-> NoSignature]

Severities == {"critical", "high", "medium", "low"}

\* What a fix was filed for: a failing gate, a systemic blocker of an item, a
\* conversation about an item, or a request of a human.
DefectSignatures == {"none", "gate", "systemic", "conversation", "request"} \X (Items \cup {0})

FixRecords == [sev : Severities, sig : DefectSignatures]

Runs == [on : BOOLEAN, loop : BOOLEAN, target : Items \cup {0}, aside : SUBSET Items,
         calls : 0..MaxAiCallsPerRun, approved : 0..MaxTasksPerRun,
         exit : {"none", "done", "needs_human", "failed", "stopped"}]

TypeOk ==
  /\ doc \in [Items -> StateDocuments]
  /\ store \in [Items -> Stores]
  /\ fix \in [Fixes -> FixRecords]
  /\ run \in Runs

Ended(exit) == [on |-> FALSE, loop |-> FALSE, target |-> 0, aside |-> {}, calls |-> 0,
                approved |-> 0, exit |-> exit]

Init ==
  /\ doc = [i \in Items |-> Blank(IF i \in Features \cup HumanFixes THEN "request_pending"
                                  ELSE "absent")]
  /\ store = [i \in Items |-> NewStore]
  /\ fix = [f \in Fixes |-> [sev |-> "critical", sig |-> <<"none", 0>>]]
  /\ run = Ended("none")

(***************************************************************************)
(* Inspection and selection.  `d` is always a value of doc: what the       *)
(* inspection of a pass has just left on disk.                             *)
(***************************************************************************)

\* Seeded fault: a fix between two tasks counts as resolved.
isFixIdle(d, f) == f \in Fixes /\ d[f].lc \in {"formalized", "completed"}

isFixResolved(d, f) == f \in Fixes /\ d[f].lc = "completed"

\* Inspecting an item blocked on a fix that is completed writes its resumption.
Inspect(d, i) ==
  IF d[i].lc = "blocked" /\ d[i].onFix # NoFix /\ isFixResolved(d, d[i].onFix)
  THEN AfterFixResolved(d[i])
  ELSE d[i]

InspectAll(d) == [i \in Items |-> Inspect(d, i)]

selectable(i) == i \notin run.aside /\ run.target \in {0, i}

\* Seeded fault: a pass inspects, and so resumes, what it may not select.
InspectedBeyondScope == InspectAll(doc)

\* The documents after determineNextStep inspected everything it may select.
Inspected == [i \in Items |-> IF selectable(i) THEN Inspect(doc, i) ELSE doc[i]]

\* Seeded fault: an urgent fix is started before the work in flight is continued.
TierUrgentFirst(d, i) ==
  CASE ~isContinuing(d[i]) /\ i \in Fixes /\ fix[i].sev \in {"critical", "high"} -> 0
    [] isContinuing(d[i]) /\ i \in Features                                     -> 1
    [] isContinuing(d[i]) /\ i \in Fixes                                        -> 2
    [] OTHER                                                                    -> 3

\* The tier an item is selected in; lower is earlier.
Tier(d, i) ==
  CASE isContinuing(d[i]) /\ i \in Features                                    -> 0
    [] isContinuing(d[i]) /\ i \in Fixes                                       -> 1
    [] ~isContinuing(d[i]) /\ i \in Fixes /\ fix[i].sev = "critical"           -> 2
    [] ~isContinuing(d[i]) /\ i \in Fixes /\ fix[i].sev = "high"               -> 3
    [] ~isContinuing(d[i]) /\ i \in Features                                   -> 4
    [] OTHER                                                                   -> 5

Candidate(d, i) == selectable(i) /\ (isContinuing(d[i]) \/ isStartable(d[i]))

IsNext(d, i) ==
  /\ Candidate(d, i)
  /\ \A j \in Items : Candidate(d, j) =>
       Tier(d, i) < Tier(d, j) \/ (Tier(d, i) = Tier(d, j) /\ i <= j)

aiBudgetReached == run.calls >= MaxAiCallsPerRun

primaryTaskLimitReached == run.approved >= MaxTasksPerRun

\* A step is being executed for item i, which was inspected as kind; d is Inspected.
Selected(d, i, kind) ==
  /\ run.on /\ ~aiBudgetReached
  /\ WorkItemInspectionKind(d[i]) = kind
  /\ IsNext(d, i)

(***************************************************************************)
(* What a step leaves behind: documents, and the outcome the loop reads.   *)
(***************************************************************************)
Spent(n) == IF run.calls + n > MaxAiCallsPerRun THEN MaxAiCallsPerRun ELSE run.calls + n

ExitCode(aside) == IF aside = {} THEN "done" ELSE "needs_human"

Advanced(n) ==
  run' = IF run.loop THEN [run EXCEPT !.calls = Spent(n)] ELSE Ended(ExitCode(run.aside))

AdvancedWithApproval(n) ==
  run' = IF run.loop
         THEN [run EXCEPT !.calls = Spent(n),
                          !.approved = IF primaryTaskLimitReached THEN @ ELSE @ + 1]
         ELSE Ended(ExitCode(run.aside))

SetAside(i, n) ==
  run' = IF run.loop THEN [run EXCEPT !.calls = Spent(n), !.aside = @ \cup {i}]
         ELSE Ended("needs_human")

\* Seeded fault: a block asks for a person at once, before any diagnosis.
BlockedAskingAtOnce(s, k, recov, why) ==
  [ForBlocked(s, Profile(s, k, recov, why), "blocked") EXCEPT !.ack = TRUE]

\* The block a step records when it cannot proceed: kind k, read as recov.
recordBlockedFeature(s, k, recov, why) == ForBlocked(s, Profile(s, k, recov, why), "blocked")

\* A fresh primary task restarts correction numbering, and a diagnosis of an earlier
\* task can no longer be asked for.
StoreForTask(t) ==
  [t EXCEPT !.tasked = TRUE, !.used = 0,
            !.diagnosed = IF @ # NoSignature /\ @.task # NoTask THEN NoSignature ELSE @]

(***************************************************************************)
(* Filing a fix, or reusing the one already filed for the same signature.  *)
(***************************************************************************)
FixesWith(d, sig) == {f \in Fixes : d[f].lc # "absent" /\ fix[f].sig = sig}

FreeFixes(d) == {f \in Fixes : d[f].lc = "absent"}

\* f is the fix fileOrReuseBlockingFix answers.
FileOrReuse(d, sig, f) ==
  IF FixesWith(d, sig) # {}
  THEN f \in FixesWith(d, sig) /\ \A g \in FixesWith(d, sig) : f <= g
  ELSE f \in FreeFixes(d) /\ \A g \in FreeFixes(d) : f <= g

\* Seeded fault: reusing a completed fix reopens it.
WaitOnReopenedFix(d, i, s, f) ==
  doc' = [j \in Items |->
            IF j = i THEN [s EXCEPT !.onFix = f]
            ELSE IF j = f /\ d[f].lc \in {"absent", "completed"} THEN Filed
            ELSE d[j]]

\* Seeded fault: the fix is named, and its documents are never written.
WaitOnUnfiledFix(d, i, s, f) == doc' = [d EXCEPT ![i] = [s EXCEPT !.onFix = f]]

\* Item i ends as s, waiting on fix f, which is filed unless it was there.
WaitOnFix(d, i, s, f) ==
  doc' = [j \in Items |->
            IF j = i THEN [s EXCEPT !.onFix = f]
            ELSE IF j = f /\ d[f].lc = "absent" THEN Filed
            ELSE d[j]]

RecordFix(d, f, sev, sig) ==
  fix' = IF d[f].lc = "absent" THEN [fix EXCEPT ![f] = [sev |-> sev, sig |-> sig]] ELSE fix

(***************************************************************************)
(* Planning and completion.                                                *)
(***************************************************************************)

\* planTask with a request left: elaborated into a task, or refused because the task
\* belongs elsewhere, exceeds the request's boundary or does not fit the context budget.
PlanTask(i) ==
  LET d == Inspected
  IN  \E kind \in Planning :
        /\ Selected(d, i, kind) /\ i \in Features /\ ~primaryTaskLimitReached
        /\ store[i].open > 0
        /\ \/ /\ "planned" \in PlanResults
              /\ doc' = [d EXCEPT ![i] = ForTaskPlan(d[i], 1)]
              /\ store' = [store EXCEPT ![i] = StoreForTask(store[i])]
              /\ Advanced(1)
           \/ /\ "refused" \in PlanResults
              /\ \E k \in TextKinds, recov \in TextRecoverabilities :
                   doc' = [d EXCEPT ![i] =
                             recordBlockedFeature(d[i], TextKind(d[i], k), recov, "plan")]
              /\ SetAside(i, 1)
              /\ UNCHANGED store
        /\ UNCHANGED fix

\* Seeded fault: the last review is not consulted.
RefusedOnPointers(s) == s.task # NoTask \/ s.corr # NoTask \/ s.gates = "failed"

\* The conditions attemptFeatureCompletion checks before it spends a call.
RefusedOnRecord(s) ==
  \/ s.task # NoTask \/ s.corr # NoTask
  \/ s.gates = "failed" \/ s.review \in {"blocked", "changes_required"}

\* planTask with no request left: an empty outline is blocked, an exhausted one is
\* closed if its record, its acceptance criteria and its start check allow it.
AttemptCompletion(i) ==
  LET d == Inspected
  IN  \E kind \in Planning :
        /\ Selected(d, i, kind) /\ i \in Features /\ ~primaryTaskLimitReached
        /\ store[i].open = 0
        /\ \/ /\ ~store[i].declared
              /\ \E recov \in TextRecoverabilities :
                   doc' = [d EXCEPT ![i] = recordBlockedFeature(d[i], "other", recov, "plan")]
              /\ SetAside(i, 0)
           \/ /\ store[i].declared /\ RefusedOnRecord(d[i])
              /\ \E recov \in TextRecoverabilities :
                   doc' = [d EXCEPT ![i] = recordBlockedFeature(d[i], "other", recov, "refused")]
              /\ SetAside(i, 0)
           \/ /\ store[i].declared /\ ~RefusedOnRecord(d[i])
              /\ "unmet" \in CompletionResults
              /\ \E recov \in TextRecoverabilities, n \in 0..1 :
                   /\ doc' = [d EXCEPT ![i] =
                                recordBlockedFeature(d[i], "other", recov, "unfinished")]
                   /\ SetAside(i, n)
           \/ /\ store[i].declared /\ ~RefusedOnRecord(d[i])
              /\ "met" \in CompletionResults
              /\ doc' = [d EXCEPT ![i] = AfterCompletion(d[i])]
              /\ Advanced(1)
        /\ UNCHANGED <<store, fix>>

\* planFixTask: a fix has no outline, so planning it always makes another task.
PlanFixTask(f) ==
  LET d == Inspected
  IN  \E kind \in Planning :
        /\ Selected(d, f, kind) /\ f \in Fixes /\ ~primaryTaskLimitReached
        /\ "planned" \in PlanResults
        /\ doc' = [d EXCEPT ![f] = ForTaskPlan(d[f], 1)]
        /\ store' = [store EXCEPT ![f] = StoreForTask(store[f])]
        /\ Advanced(1)
        /\ UNCHANGED fix

\* planSubtask, for a task that is ready or for the correction that is pending.
PlanSubtask(i) ==
  LET d == Inspected
  IN  /\ \/ /\ Selected(d, i, "task_ready")
            /\ doc' = [d EXCEPT ![i] = DuringImplementation(d[i], d[i].task)]
            /\ UNCHANGED store
         \/ /\ Selected(d, i, "correction_pending")
            /\ doc' = [d EXCEPT ![i] = DuringImplementation(d[i], d[i].corr)]
            /\ store' = [store EXCEPT ![i].used = 0]
      /\ Advanced(0)
      /\ UNCHANGED fix

(***************************************************************************)
(* Implementation: one attempt, one retry of a partial one, then gates.    *)
(***************************************************************************)
MaxImplementationAttempts == 2

ImplementSubtask(i) ==
  LET d == Inspected
      s == DuringImplementation(d[i], d[i].task)
  IN  /\ Selected(d, i, "implementation_running")
      /\ \E n \in 1..MaxImplementationAttempts :
           \/ /\ "failed" \in ImplementationResults
              /\ doc' = [d EXCEPT ![i] = AfterImplementationFailure(s)]
              /\ Advanced(n)
              /\ UNCHANGED fix
           \/ /\ "gates_passed" \in ImplementationResults
              /\ doc' = [d EXCEPT ![i] = AfterGatesPassed(s)]
              /\ Advanced(n)
              /\ UNCHANGED fix
           \/ /\ "gates_failed" \in ImplementationResults
              /\ \E recov \in TextRecoverabilities :
                   doc' = [d EXCEPT ![i] = AfterGatesFailed(s, recov)]
              /\ Advanced(n)
              /\ UNCHANGED fix
           \* blockOnUnrelatedFixFailure: a gate already fails without this task's change
           \/ /\ "gate_waived" \in ImplementationResults
              /\ \E f \in Fixes, k \in TextKinds, recov \in TextRecoverabilities :
                   /\ FileOrReuse(d, <<"gate", 0>>, f)
                   /\ RecordFix(d, f, "high", <<"gate", 0>>)
                   /\ WaitOnFix(d, i, recordBlockedFeature(s, TextKind(s, k), recov, "systemic"), f)
              /\ SetAside(i, n)
      /\ UNCHANGED store

\* A stop request that arrives while the implementer or the gates run is only seen
\* after them: the item stays implementation_running.
InterruptImplementation(i) ==
  LET d == Inspected
  IN  /\ CanInterrupt
      /\ Selected(d, i, "implementation_running")
      /\ doc' = [d EXCEPT ![i] = DuringImplementation(d[i], d[i].task)]
      /\ run' = Ended("stopped")
      /\ UNCHANGED <<store, fix>>

(***************************************************************************)
(* Diagnosis of a failed, blocked or malformed item.                       *)
(***************************************************************************)

\* limitStateCorrectionTaskId answers null for the active task of s.
CorrectionRefused(s, t) ==
  MaxReviewIterations = 0 \/ s.task > MaxReviewIterations \/ t.used >= MaxReviewIterations

\* Some task is named by the pointers, the suspended target or a task artifact.
Anchored(s, t) == s.task # NoTask \/ s.from.task # NoTask \/ t.tasked

\* The cases no deterministic rule decides go to the Doctor.
ConsultsDoctor(s, t) ==
  LET p == BlockerOf(s)
  IN  /\ p.kind # "state_corruption"
      /\ s.lc \in {"quality_failed", "review_failed", "blocked"}
      /\ p.recov = "human" \/ ~Anchored(s, t)

\* What runDiagnosticAutocorrection may decide.
Decisions(s, t) ==
  CASE ConsultsDoctor(s, t) -> DoctorAnswers
    [] BlockerOf(s).kind = "state_corruption" /\ s.lc = "blocked" ->
         {IF s.from.lc # "none" THEN "conversation" ELSE "stop"}
    [] BlockerOf(s).kind = "state_corruption" /\ s.lc # "blocked" ->
         {IF (s.task # NoTask \/ t.tasked) /\ CorrectionRefused(s, t) THEN "conversation"
          ELSE "correct_state"}
    [] BlockerOf(s).kind # "state_corruption" /\ s.lc = "implementation_failed" ->
         {IF s.task # NoTask \/ t.tasked THEN "conversation" ELSE "stop"}
    [] BlockerOf(s).kind # "state_corruption" /\ s.lc \in {"quality_failed", "review_failed", "blocked"}
         /\ ~ConsultsDoctor(s, t) -> {"conversation"}
    [] OTHER -> {"stop"}

\* The ensemble is two or three calls, and a payload or a single vote one more.
DiagnosisCalls(s, t) == IF ConsultsDoctor(s, t) THEN 2..4 ELSE {0}

\* The kind a conversation is blocked with: the blocker's, or the Doctor's own reading.
ConversationKinds(s, t) ==
  {BlockerOf(s).kind} \cup (IF ConsultsDoctor(s, t) THEN TextKinds ELSE {})

\* correctState on item i of d: the repair, its refusal at the correction limit, or an
\* error when nothing names a task to repair.
CorrectState(d, i, n) ==
  LET s == d[i]
      anchor == IF s.task # NoTask THEN s.task ELSE 1
  IN  \/ /\ s.task = NoTask /\ ~store[i].tasked
         /\ doc' = d
         /\ run' = Ended("failed")
         /\ store' = [store EXCEPT ![i].diagnosed = Signature(BlockerOf(s))]
      \/ /\ s.task # NoTask \/ store[i].tasked
         /\ CorrectionRefused(s, store[i])
         /\ doc' = [d EXCEPT ![i] =
                      [ForBlocked(s, [BlockerOf(s) EXCEPT !.recov = "human"], "blocked")
                         EXCEPT !.ack = TRUE]]
         /\ SetAside(i, n)
         /\ store' = [store EXCEPT ![i].diagnosed = Signature(BlockerOf(s))]
      \/ /\ s.task # NoTask \/ store[i].tasked
         /\ ~CorrectionRefused(s, store[i])
         /\ doc' = [d EXCEPT ![i] = AfterStateCorrection(s, anchor)]
         /\ Advanced(n)
         /\ store' = [store EXCEPT ![i].diagnosed = Signature(BlockerOf(s)), ![i].used = @ + 1]

\* diagnoseAndAutocorrect for item i, whose documents are d once n0 calls are spent.
DiagnoseFrom(d, i, n0) ==
  LET s == d[i]
      t == store[i]
      p == BlockerOf(s)
  IN  \/ /\ t.diagnosed = Signature(p)
         /\ \E recov \in TextRecoverabilities :
              doc' = [d EXCEPT ![i] =
                        [recordBlockedFeature(s, p.kind, recov, "diagnosed") EXCEPT !.ack = TRUE]]
         /\ SetAside(i, n0)
         /\ UNCHANGED <<store, fix>>
      \/ /\ t.diagnosed # Signature(p)
         /\ \E n \in DiagnosisCalls(s, t) :
              \/ /\ "correct_state" \in Decisions(s, t)
                 /\ CorrectState(d, i, n0 + n)
                 /\ UNCHANGED fix
              \/ /\ "conversation" \in Decisions(s, t)
                 /\ \E k \in ConversationKinds(s, t), recov \in TextRecoverabilities :
                      doc' = [d EXCEPT ![i] =
                                [recordBlockedFeature(s, k, recov, "conversation")
                                   EXCEPT !.ack = TRUE]]
                 /\ SetAside(i, n0 + n)
                 /\ store' = [store EXCEPT ![i].diagnosed = Signature(p)]
                 /\ UNCHANGED fix
              \/ /\ "file_blocking_fix" \in Decisions(s, t)
                 /\ \E f \in Fixes, k \in TextKinds, recov \in TextRecoverabilities :
                      /\ FileOrReuse(d, <<"systemic", i>>, f)
                      /\ RecordFix(d, f, "critical", <<"systemic", i>>)
                      /\ WaitOnFix(d, i, recordBlockedFeature(s, TextKind(s, k), recov, "systemic"), f)
                 /\ SetAside(i, n0 + n)
                 /\ store' = [store EXCEPT ![i].diagnosed = Signature(p)]
              \/ /\ "stop" \in Decisions(s, t)
                 /\ \E k \in TextKinds, recov \in TextRecoverabilities :
                      doc' = [d EXCEPT ![i] =
                                recordBlockedFeature(s, TextKind(s, k), recov, "stop")]
                 /\ SetAside(i, n0 + n)
                 /\ store' = [store EXCEPT ![i].diagnosed = Signature(p)]
                 /\ UNCHANGED fix

DiagnoseAutocorrect(i) ==
  \E kind \in Failed \cup {"blocked", "malformed"} :
    /\ Selected(Inspected, i, kind)
    /\ DiagnoseFrom(Inspected, i, 0)

(***************************************************************************)
(* Review.                                                                 *)
(***************************************************************************)

\* A rejection records the blocker; the loop diagnoses it as its next step, a single
\* step at once.
Rejected(d, i, lc, n) ==
  \E k \in TextKinds, recov \in TextRecoverabilities, why \in ReviewReasons :
    \E d2 \in {[d EXCEPT ![i] = ForBlocked(d[i], Profile(d[i], k, recov, why), lc)]} :
      IF run.loop
      THEN doc' = d2 /\ Advanced(n) /\ UNCHANGED <<store, fix>>
      ELSE DiagnoseFrom(d2, i, n)

ReviewSubtask(i) ==
  LET d == Inspected
      s == d[i]
  IN  /\ \E kind \in {"review_pending", "quality_gates_pending"} : Selected(d, i, kind)
      \* the diff leaves the task's scope: no reviewer, a correction while the limit allows
      /\ \/ /\ "out_of_scope" \in ReviewResults /\ CorrectionRefused(s, store[i])
            /\ doc' = d
            /\ SetAside(i, 0)
            /\ UNCHANGED <<store, fix>>
         \/ /\ "out_of_scope" \in ReviewResults /\ ~CorrectionRefused(s, store[i])
            /\ doc' = [d EXCEPT ![i] = ForCorrection(s, s.task + 1)]
            /\ store' = [store EXCEPT ![i].used = @ + 1]
            /\ Advanced(0)
            /\ UNCHANGED fix
         \/ /\ "approved" \in ReviewResults
            /\ doc' = [d EXCEPT ![i] = AfterApprovedReview(s)]
            /\ store' = [store EXCEPT ![i].open = IF @ > 0 THEN @ - 1 ELSE @]
            /\ AdvancedWithApproval(1)
            /\ UNCHANGED fix
         \* the reviewer names the correction, which no limit bounds
         \/ /\ "changes_required" \in ReviewResults /\ s.task < MaxTaskDepth
            /\ doc' = [d EXCEPT ![i] = ForCorrection(s, s.task + 1)]
            /\ store' = [store EXCEPT ![i].used = @ + 1]
            /\ Advanced(2)
            /\ UNCHANGED fix
         \/ /\ "blocked" \in ReviewResults
            /\ \E n \in {1, 4} : Rejected(d, i, "blocked", n)
         \/ /\ "failed" \in ReviewResults
            /\ \E n \in {1, 4} : Rejected(d, i, "review_failed", n)
         \/ /\ "unreadable" \in ReviewResults
            /\ doc' = d
            /\ run' = Ended("failed")
            /\ UNCHANGED <<store, fix>>

(***************************************************************************)
(* How a run ends.                                                         *)
(***************************************************************************)

\* A step that throws ends the run; what inspection wrote stays.
StepThrows(i) ==
  /\ CanThrow
  /\ \E kind \in Lifecycles : Selected(Inspected, i, kind)
  /\ doc' = Inspected
  /\ run' = Ended("failed")
  /\ UNCHANGED <<store, fix>>

\* The stop decisions: no call left, no primary task left, nothing to select.
StopStep ==
  /\ run.on
  /\ \/ aiBudgetReached /\ doc' = doc
     \/ /\ ~aiBudgetReached /\ primaryTaskLimitReached
        /\ \E i \in Items : IsNext(Inspected, i) /\ isStartable(Inspected[i])
        /\ doc' = Inspected
     \/ /\ ~aiBudgetReached
        /\ \A i \in Items : ~Candidate(Inspected, i)
        /\ doc' = Inspected
  /\ run' = Ended(ExitCode(run.aside))
  /\ UNCHANGED <<store, fix>>

\* throwIfControlledStopRequested between two steps.
ControlledStop ==
  /\ run.on /\ CanInterrupt
  /\ run' = Ended("stopped")
  /\ UNCHANGED <<doc, store, fix>>

(***************************************************************************)
(* Between runs.                                                           *)
(***************************************************************************)
StartRun(loop, target) ==
  /\ ~run.on
  /\ run' = [on |-> TRUE, loop |-> loop, target |-> target, aside |-> {}, calls |-> 0,
             approved |-> 0, exit |-> "none"]
  /\ UNCHANGED <<doc, store, fix>>

\* A status listing, or the start-up check of a dirty worktree, inspects every item.
InspectStatus ==
  /\ ~run.on
  /\ doc' = InspectAll(doc)
  /\ UNCHANGED <<store, fix, run>>

\* specifyExistingRequest: a request becomes a specification; a feature's declares n
\* task requests, a fix's assigns its severity.
Formalize(i, n) ==
  /\ ~run.on /\ doc[i].lc \in PendingSpecification
  /\ doc' = [InspectAll(doc) EXCEPT ![i] = Formalized]
  /\ IF i \in Features
     THEN /\ store' = [store EXCEPT ![i].open = n, ![i].declared = n > 0]
          /\ UNCHANGED fix
     ELSE /\ n = 0
          /\ \E sev \in FixSeverities : fix' = [fix EXCEPT ![i].sev = sev]
          /\ UNCHANGED store
  /\ UNCHANGED run

confirmFeatureValidation(i) ==
  /\ ~run.on
  /\ WorkItemInspectionKind(doc[i]) = "awaiting_validation"
  /\ doc' = [InspectAll(doc) EXCEPT ![i] = Validated(doc[i])]
  /\ UNCHANGED <<store, fix, run>>

BlockedOnHuman(i) == ~run.on /\ WorkItemInspectionKind(doc[i]) = "blocked_on_human"

\* What /desbloquear offers the exits on: once some item waits for a person, any item that
\* is blocked or whose review failed, one that waits on a fix included.
Offered(exit, i) ==
  /\ ~run.on /\ exit \in Exits
  /\ \E j \in Items : WorkItemInspectionKind(InspectAll(doc)[j]) = "blocked_on_human"
  /\ InspectAll(doc)[i].lc \in {"blocked", "review_failed"}

\* resolve_by_hand and acknowledge-blocker, the one exit that looks at the item again.
acknowledgeBlocker(i) ==
  /\ BlockedOnHuman(i)
  /\ doc' = [InspectAll(doc) EXCEPT ![i] = AfterHumanAcknowledged(doc[i])]
  /\ UNCHANGED <<store, fix, run>>

\* Back to where it was suspended.  A fix the item waits on stays named.
retryWithContext(i) ==
  /\ Offered("retry", i)
  /\ doc' = [InspectAll(doc) EXCEPT ![i] = AfterHumanAcknowledged(@)]
  /\ UNCHANGED <<store, fix, run>>

\* The item keeps its lifecycle state and its suspended target, and waits on a fix, which
\* replaces the one it waited on.
openFixFromConversation(i) ==
  LET d == InspectAll(doc)
  IN  /\ Offered("open_fix", i)
      /\ \E f \in Fixes :
           /\ FileOrReuse(d, <<"conversation", i>>, f)
           /\ RecordFix(d, f, "critical", <<"conversation", i>>)
           /\ WaitOnFix(d, i, [d[i] EXCEPT !.ack = FALSE], f)
      /\ UNCHANGED <<store, run>>

correctSpecification(i) ==
  /\ Offered("correct", i)
  /\ doc' = [InspectAll(doc) EXCEPT ![i] = SpecificationInvalidated(@)]
  /\ store' = [store EXCEPT ![i].open = 0]
  /\ UNCHANGED <<fix, run>>

\* Nothing in the runtime completes a fix: a person who sees its work is done edits the
\* state document, between two of its tasks.
CompleteFixByHand(f) ==
  /\ ~run.on /\ isStartable(doc[f])
  /\ doc' = [doc EXCEPT ![f] = AfterCompletion(doc[f])]
  /\ UNCHANGED <<store, fix, run>>

(***************************************************************************)
(* The specification.                                                      *)
(***************************************************************************)
StepOf(i) ==
  \/ PlanTask(i) \/ AttemptCompletion(i) \/ PlanFixTask(i) \/ PlanSubtask(i)
  \/ ImplementSubtask(i) \/ InterruptImplementation(i) \/ ReviewSubtask(i)
  \/ DiagnoseAutocorrect(i) \/ StepThrows(i)

RunStep == (\E i \in Items : StepOf(i)) \/ StopStep \/ ControlledStop

HumanExit(i) ==
  \/ acknowledgeBlocker(i) \/ retryWithContext(i)
  \/ openFixFromConversation(i) \/ correctSpecification(i)

BetweenRuns ==
  \/ \E loop \in LoopModes, target \in RunTargets : StartRun(loop, target)
  \/ InspectStatus
  \/ \E i \in Items : confirmFeatureValidation(i) \/ HumanExit(i)
  \/ \E i \in Items, n \in 0..MaxRequests : Formalize(i, n)
  \/ \E f \in Fixes : CompleteFixByHand(f)

Next == RunStep \/ BetweenRuns

\* A run is a sequential loop, and every agent and gate call in it returns.
Spec == Init /\ [][Next]_vars /\ WF_vars(RunStep)

(***************************************************************************)
(* Safety: what every state document on disk satisfies.                    *)
(***************************************************************************)

\* No work is done on a specification nobody confirmed, whichever way the item came to be
\* worked on: planned, corrected, restored from a block or resumed after a fix.
WorkIsValidated ==
  \A i \in Items : doc[i].lc \notin {"absent"} \cup PendingSpecification \cup Planning =>
    doc[i].val = "confirmed"

\* An item is never malformed, and neither is what resuming it would write: the execution
\* anchor survives failing, blocking, correcting and restoring in any order.
RestorationIsRunnable ==
  \A i \in Items :
    /\ ~MissingPointer(doc[i])
    /\ doc[i].lc \in Failed \cup {"blocked"} => ~MissingPointer(Restored(doc[i]))

\* An item between two tasks carries no pointer of the last one, so completion is never
\* refused for a task nobody will resume.
NoOrphanedTask ==
  \A i \in Items : doc[i].lc \in Planning \cup {"completed"} =>
    doc[i].task = NoTask /\ doc[i].corr = NoTask

\* A fix that is named exists, and what waits on one can be resumed: it is suspended at a
\* point that can be run again, whichever writes named the fix, moved the item on and blocked
\* it once more.
FixWaitIsResumable ==
  \A i \in Items : doc[i].onFix # NoFix =>
    /\ doc[i].onFix \in Fixes /\ doc[doc[i].onFix].lc # "absent"
    /\ doc[i].lc = "blocked" =>
         doc[i].from.lc \notin {"none", "blocked"} /\ ~MissingPointer(AfterFixResolved(doc[i]))

\* A rejected review is always answered by a correction that is still to be done.
ReviewConsistent ==
  \A i \in Items : doc[i].review = "changes_required" =>
    doc[i].lc = "correction_pending" /\ doc[i].corr = doc[i].task + 1

\* What failed or is blocked says why, and what it says survives until it is resumed.
BlockedIsRecorded ==
  \A i \in Items : doc[i].lc \in Failed \cup {"blocked"} => doc[i].by # NoBlocker

(***************************************************************************)
(* Safety: what a step of a run may do.                                    *)
(***************************************************************************)

\* human_ack_required is set by a run, and only once diagnosis was tried on a block that is
\* recorded; it is cleared by a person, and by no run that resumes, blocks or completes.
AckMarksExhaustedBlock ==
  [][\A i \in Items : doc'[i].ack # doc[i].ack =>
       IF doc'[i].ack
       THEN /\ run.on /\ doc'[i].lc = "blocked" /\ doc'[i].by # NoBlocker
            /\ store'[i].diagnosed # NoSignature
       ELSE ~run.on]_vars

\* What is blocked on a person is touched by nothing but a person, not by a run that
\* selects, plans around or resumes it -- unless it still names a fix, left from an earlier
\* wait, and that fix is completed.
HumanGate ==
  [][run.on => \A i \in Items : doc[i].lc = "blocked" /\ doc[i].ack /\ doc'[i] # doc[i] =>
       doc[i].onFix # NoFix /\ doc[doc[i].onFix].lc = "completed"]_vars

\* A run touches only what it may select: an item it set aside, or one it was not pointed
\* at, keeps its document until the run ends.  Filing a fix creates a document only.
RunScope ==
  [][run.on => \A i \in Items : ~selectable(i) /\ doc[i].lc # "absent" => doc'[i] = doc[i]]_vars

\* An item blocked on a fix moves when a person takes an exit for that very item, and
\* otherwise only when the fix is completed, and then from the point it was suspended at.
ResumeOnlyWhenFixCompleted ==
  [][\A i \in Items : doc[i].lc = "blocked" /\ doc[i].onFix # NoFix /\ doc'[i] # doc[i] =>
       \/ HumanExit(i)
       \/ /\ doc[doc[i].onFix].lc = "completed"
          /\ doc[i].from.lc # "none"
          /\ \/ doc'[i].lc = doc[i].from.lc /\ doc'[i].task = doc[i].from.task
             \/ run.on]_vars

\* No new task is planned while something selectable is in flight: one item's work is in
\* the worktree at a time.
StartsOnlyWhenNothingInFlight ==
  [][\A i, j \in Items :
       doc[i].lc \in Planning /\ doc'[i].lc = "task_ready" /\ j # i /\ selectable(j) =>
         doc'[j].lc \notin Executing \cup Failed \cup {"correction_pending"}]_vars

\* A run that ends by itself, with calls and tasks left, has left nothing selectable that
\* the pipeline could still advance, an item whose fix is completed included.
AtRest(i) ==
  \/ doc[i].lc \in {"absent", "completed"} \cup PendingSpecification
  \/ doc[i].lc \in Planning /\ doc[i].val # "confirmed"
  \/ doc[i].lc = "blocked" /\ doc[i].ack /\ doc[i].onFix = NoFix
  \/ doc[i].lc = "blocked" /\ doc[i].onFix # NoFix /\ doc[doc[i].onFix].lc # "completed"

QuiescentExit ==
  [][run.on /\ run.loop /\ run'.exit \in {"done", "needs_human"}
       /\ ~aiBudgetReached /\ ~primaryTaskLimitReached
     => \A i \in Items : selectable(i) => AtRest(i)]_vars

\* A feature the runtime closes has had every declared request approved, with its gates
\* passed; nothing that blocked it on the way is forgotten.
CompletionIsEarned ==
  [][run.on => \A i \in Features : doc[i].lc # "completed" /\ doc'[i].lc = "completed" =>
       /\ store[i].declared /\ store[i].open = 0
       /\ doc[i].review = "approved" /\ doc[i].gates = "passed"]_vars

\* No run reopens what is completed, whatever it files, reuses, resumes or plans.  A person
\* can, from a menu that was offered before.
CompletionIsFinal ==
  [][run.on => \A i \in Items : doc[i].lc = "completed" => doc'[i] = doc[i]]_vars

(***************************************************************************)
(* Liveness.                                                               *)
(***************************************************************************)

\* Every run ends: no cycle of correction, diagnosis, blocking and resuming keeps a loop
\* going once its calls are spent, and none of the steps that cost no call can cycle.
RunTerminates == run.on ~> ~run.on

(***************************************************************************)
(* What the code and its contracts say of the loop, and it does not do.    *)
(***************************************************************************)

\* "One diagnosis per blocker, and then a person" (orchestrator.ts, diagnosticAttemptsFor):
\* the block a diagnosis ended in is not diagnosed again.
OneDiagnosisPerBlocker ==
  [][\A i \in Items :
       doc[i].lc = "blocked" /\ doc[i].by # NoBlocker
         /\ store'[i].diagnosed \notin {store[i].diagnosed, NoSignature}
       => doc[i].by.why \notin {"stop", "conversation", "diagnosed"}]_vars

\* Completion is refused because "its last quality gate or review did not pass" only when
\* that is so: with every declared request approved, the last review did pass.
RefusalIsTrue ==
  \A i \in Features :
    doc[i].lc \in Planning /\ store[i].declared /\ store[i].open = 0 => ~RefusedOnRecord(doc[i])

\* "The runtime must not: update feature or project state as if work were accepted when
\* review or quality gates failed" (operation-loop.md).
AcceptedOnlyByReview ==
  \A i \in Items : doc[i].lc \in Failed => ~(doc[i].gates = "passed" /\ doc[i].review = "approved")

\* "When the fix completes, the item resumes by itself" (session/commands.ts): an item
\* waiting on a fix is resumed by the runtime alone.
FixUnblocks ==
  \A i \in Items : doc[i].onFix # NoFix ~> doc[i].onFix = NoFix

\* Everything the runtime and a cooperative human can be relied on for: runs are started,
\* specifications validated and blocks acknowledged again and again.
BestCaseSpec ==
  /\ Spec
  /\ WF_vars(StartRun(TRUE, 0))
  /\ \A i \in Items : WF_vars(confirmFeatureValidation(i)) /\ WF_vars(acknowledgeBlocker(i))
=============================================================================
