------------------------- MODULE WorkItemLoop_proofs -------------------------
(***************************************************************************)
(* Theorems about the loop, for any number of items, any configuration and *)
(* any set of answers.                                                     *)
(*                                                                         *)
(* IInv is the inductive invariant: every document is sound by itself      *)
(* (DocumentOk), an item that names a fix names one that exists, whatever  *)
(* it has been resumed to since, and a feature with no request left        *)
(* between two tasks has an approved review or a recorded refusal.         *)
(***************************************************************************)
EXTENDS WorkItemLoop, StateDocument_proofs

WaitOk(d, i) == d[i].onFix # NoFix => d[i].onFix \in Fixes /\ d[d[i].onFix].lc # "absent"

DocsOk(d) ==
  /\ d \in [Items -> StateDocuments]
  /\ \A i \in Items : DocumentOk(d[i]) /\ WaitOk(d, i)

\* Between two tasks of an exhausted outline, what the last task left is an approval or a
\* recorded block.
ClosingOk(s, t) ==
  s.lc \in Planning /\ t.declared /\ t.open = 0 =>
    s.review = "blocked" \/ (s.review = "approved" /\ s.gates = "passed")

Linked(s, t, i) == i \in Features => ClosingOk(s, t)

Sound(d, st) ==
  /\ DocsOk(d) /\ st \in [Items -> Stores]
  /\ \A i \in Items : Linked(d[i], st[i], i)

IInv == Sound(doc, store) /\ fix \in [Fixes -> FixRecords] /\ run \in Runs

\* Features and fixes are positive numbers, and no item is both.
LEMMA ItemsAreNumbers == Items \subseteq Nat \ {0} /\ Fixes \subseteq Items /\ Features \subseteq Items
BY ItemsAssumption DEF Items

\* Writing a sound document that is not `absent` and names no new fix keeps all sound.
LEMMA UpdateOk ==
  ASSUME NEW d, DocsOk(d), NEW i \in Items, NEW s, DocumentOk(s),
         s.lc # "absent", s.onFix \in {NoFix, d[i].onFix}
  PROVE  DocsOk([d EXCEPT ![i] = s])
<1> DEFINE e == [d EXCEPT ![i] = s]
<1>1. e \in [Items -> StateDocuments] /\ \A j \in Items : DocumentOk(e[j])
  BY DEF DocsOk, DocumentOk
<1>2. \A j \in Items : d[j].lc # "absent" => e[j].lc # "absent"
  BY DEF DocsOk
<1>3. \A j \in Items : e[j].onFix \in {NoFix, d[j].onFix}
  BY DEF DocsOk
<1> HIDE DEF e
<1>4. \A j \in Items : WaitOk(e, j)
  BY <1>2, <1>3, ItemsAreNumbers DEF DocsOk, WaitOk
<1> QED
  BY <1>1, <1>4 DEF DocsOk, e

\* Writing a sound document that is not `absent` and names no new fix, with a store that
\* agrees with it, keeps everything sound.
LEMMA SoundUpdate ==
  ASSUME NEW d, NEW st, Sound(d, st), NEW i \in Items, NEW s, DocumentOk(s),
         s.lc # "absent", s.onFix \in {NoFix, d[i].onFix}, NEW t \in Stores, Linked(s, t, i)
  PROVE  Sound([d EXCEPT ![i] = s], [st EXCEPT ![i] = t])
<1>1. DocsOk([d EXCEPT ![i] = s])
  BY UpdateOk DEF Sound
<1> QED
  BY <1>1 DEF Sound, DocsOk

\* The same, when only the document is written.
LEMMA SoundWrite ==
  ASSUME NEW d, NEW st, Sound(d, st), NEW i \in Items, NEW s, DocumentOk(s),
         s.lc # "absent", s.onFix \in {NoFix, d[i].onFix}, Linked(s, st[i], i)
  PROVE  Sound([d EXCEPT ![i] = s], st)
<1>1. st[i] \in Stores /\ st = [st EXCEPT ![i] = st[i]]
  BY DEF Sound
<1> QED
  BY <1>1, SoundUpdate

\* Inspection, of everything or of what a run may select, keeps all documents sound.
LEMMA InspectOk ==
  ASSUME NEW d, DocsOk(d), NEW S \in SUBSET Items
  PROVE  DocsOk([i \in Items |-> IF i \in S THEN Inspect(d, i) ELSE d[i]])
<1> DEFINE e == [i \in Items |-> IF i \in S THEN Inspect(d, i) ELSE d[i]]
<1>1. ASSUME NEW i \in Items
      PROVE  /\ DocumentOk(Inspect(d, i))
             /\ Inspect(d, i).lc = "absent" => d[i].lc = "absent"
             /\ Inspect(d, i) = d[i] \/ Inspect(d, i).onFix = NoFix
  <2>1. CASE Inspect(d, i) = d[i]
    BY <2>1 DEF DocsOk
  <2>2. CASE Inspect(d, i) # d[i]
    <3>1. d[i].lc = "blocked" /\ d[i].onFix # NoFix /\ Inspect(d, i) = AfterFixResolved(d[i])
      BY <2>2 DEF Inspect
    <3>2. DocumentOk(d[i]) /\ d[i] \in StateDocuments
      BY DEF DocsOk
    <3>3. DocumentOk(AfterFixResolved(d[i]))
      BY <3>1, <3>2, RestoredOk
    <3>4. AfterFixResolved(d[i]).onFix = NoFix
      BY <3>2 DEF AfterFixResolved, Restored, StateDocuments
    <3>5. AfterFixResolved(d[i]).lc # "absent"
      BY <3>1, <3>2, TargetOfOk DEF AfterFixResolved, Restored, StateDocuments, Untouched, PendingSpecification, Planning, Executing
    <3> QED
      BY <3>1, <3>3, <3>4, <3>5
  <2> QED
    BY <2>1, <2>2
<1>2. \A i \in Items : DocumentOk(e[i])
  BY <1>1 DEF DocsOk
<1>3. \A i \in Items : WaitOk(e, i)
  BY <1>1, ItemsAreNumbers DEF DocsOk, WaitOk
<1> QED
  BY <1>2, <1>3 DEF DocsOk, DocumentOk

\* The documents a pass works from are sound.
LEMMA InspectedOk ==
  ASSUME DocsOk(doc)
  PROVE  DocsOk(Inspected) /\ DocsOk(InspectAll(doc))
<1>1. DocsOk(Inspected)
  <2> DEFINE S == {i \in Items : selectable(i)}
  <2>1. Inspected = [i \in Items |-> IF i \in S THEN Inspect(doc, i) ELSE doc[i]]
    BY DEF Inspected
  <2> QED
    BY <2>1, InspectOk
<1>2. DocsOk(InspectAll(doc))
  <2>1. InspectAll(doc) = [i \in Items |-> IF i \in Items THEN Inspect(doc, i) ELSE doc[i]]
    BY DEF InspectAll
  <2> QED
    BY <2>1, InspectOk
<1> QED
  BY <1>1, <1>2

\* A restored item is back between two tasks only with the block that suspended it on its
\* record.
LEMMA RestoredLinked ==
  ASSUME NEW s, DocumentOk(s), s.lc \in Failed \cup {"blocked"}, NEW t, NEW i
  PROVE  Linked(AfterHumanAcknowledged(s), t, i) /\ Linked(AfterFixResolved(s), t, i)
<1> DEFINE a == AfterHumanAcknowledged(s)
           r == AfterFixResolved(s)
           target == preferredRestorationTarget(s)
<1>1. s \in StateDocuments
  BY DEF DocumentOk
<1>2. a.lc = target.lc /\ a.review = s.review
  BY <1>1 DEF AfterHumanAcknowledged, Restored, StateDocuments
<1>3. r.lc = target.lc /\ r.review = s.review
  BY <1>1 DEF AfterFixResolved, Restored, StateDocuments
<1>4. target.lc \in Planning => s.review = "blocked"
  BY DEF preferredRestorationTarget, forwardRestorationLifecycleState, DocumentOk, Planning,
         Failed
<1> HIDE DEF a, r, target
<1>5. Linked(a, t, i) /\ Linked(r, t, i)
  BY <1>2, <1>3, <1>4 DEF Linked, ClosingOk
<1> QED
  BY <1>5 DEF a, r

\* What an item resumes as still agrees with its store.
LEMMA InspectLinked ==
  ASSUME NEW d, DocsOk(d), NEW i \in Items, NEW t, Linked(d[i], t, i)
  PROVE  Linked(Inspect(d, i), t, i)
<1>1. CASE Inspect(d, i) = d[i]
  BY <1>1
<1>2. CASE Inspect(d, i) # d[i]
  <2>1. d[i].lc = "blocked" /\ d[i].onFix # NoFix /\ Inspect(d, i) = AfterFixResolved(d[i])
    BY <1>2 DEF Inspect
  <2>2. DocumentOk(d[i]) /\ d[i] \in StateDocuments
    BY <2>1 DEF DocsOk, DocumentOk
  <2> QED
    BY <2>1, <2>2, RestoredLinked
<1> QED
  BY <1>1, <1>2

\* Inspecting keeps everything sound, whether of all items or of the selectable ones.
LEMMA SoundInspected ==
  ASSUME Sound(doc, store)
  PROVE  Sound(Inspected, store) /\ Sound(InspectAll(doc), store)
<1>1. \A i \in Items : Linked(Inspect(doc, i), store[i], i)
  BY InspectLinked DEF Sound
<1> QED
  BY <1>1, InspectedOk DEF Sound, Inspected, InspectAll

\* Making an item wait on a fix, filed or reused, keeps all documents sound.
LEMMA WaitOnFixOk ==
  ASSUME NEW d, DocsOk(d), NEW i \in Items, NEW f \in Fixes, NEW s, DocumentOk(s),
         s.lc # "absent", WaitOnFix(d, i, s, f)
  PROVE  DocsOk(doc')
<1> DEFINE w == [s EXCEPT !.onFix = f]
<1>1. f \in Nat /\ f # NoFix /\ f \in Items
  BY ItemsAreNumbers DEF NoFix
<1>2. s \in StateDocuments
  BY DEF DocumentOk
<1>3. w = [s EXCEPT !.ack = s.ack, !.onFix = f] /\ s.ack \in BOOLEAN
  BY <1>2 DEF StateDocuments
<1>4. DocumentOk(w)
  BY <1>1, <1>3, WaitingOk
<1>5. w.lc # "absent" /\ w.onFix = f
  BY <1>2 DEF StateDocuments
<1>6. Filed.lc # "absent" /\ Filed.onFix = NoFix
  BY DEF Filed, Blank
<1> HIDE DEF w
<1>7. doc' = [j \in Items |-> IF j = i THEN w
                              ELSE IF j = f /\ d[f].lc = "absent" THEN Filed ELSE d[j]]
  BY DEF WaitOnFix, w
<1>8. \A j \in Items : DocumentOk(doc'[j])
  BY <1>4, <1>7, FiledOk DEF DocsOk
<1>9. \A j \in Items : d[j].lc # "absent" => doc'[j].lc # "absent"
  BY <1>5, <1>6, <1>7
<1>10. doc'[f].lc # "absent"
  BY <1>1, <1>5, <1>6, <1>7
<1>11. \A j \in Items : WaitOk(doc', j)
  BY <1>5, <1>6, <1>7, <1>9, <1>10, ItemsAreNumbers DEF DocsOk, WaitOk
<1> QED
  BY <1>7, <1>8, <1>11 DEF DocsOk, DocumentOk

\* Making an item wait on a fix keeps everything sound, stores included.
LEMMA SoundWait ==
  ASSUME NEW d, NEW st, Sound(d, st), NEW i \in Items, NEW f \in Fixes, NEW s, DocumentOk(s),
         s.lc \notin {"absent"} \cup Planning, WaitOnFix(d, i, s, f),
         NEW t \in Stores
  PROVE  Sound(doc', [st EXCEPT ![i] = t])
<1> DEFINE st2 == [st EXCEPT ![i] = t]
<1>1. DocsOk(doc')
  BY WaitOnFixOk DEF Sound
<1>2. Linked([s EXCEPT !.onFix = f], t, i)
  BY DEF DocumentOk, StateDocuments, Linked, ClosingOk, Planning
<1>3. \A j \in Fixes : j # i => Linked(Filed, st2[j], j)
  BY ItemsAssumption DEF Filed, Blank, Linked
<1>4. \A j \in Items : Linked(doc'[j], st2[j], j)
  BY <1>2, <1>3 DEF Sound, WaitOnFix
<1>5. st2 \in [Items -> Stores]
  BY DEF Sound
<1> QED
  BY <1>1, <1>4, <1>5 DEF Sound

(***************************************************************************)
(* What selection guarantees, and what a run records.                      *)
(***************************************************************************)

\* An item selected for a step is sound, confirmed where it is between two tasks, has the
\* lifecycle state it was inspected as, and if that is blocked waits for nobody.
LEMMA SelectedFacts ==
  ASSUME IInv, NEW i \in Items, NEW kind \in Lifecycles \cup {"malformed"},
         Selected(Inspected, i, kind)
  PROVE  /\ Inspected[i].lc = kind /\ DocumentOk(Inspected[i]) /\ kind # "malformed"
         /\ kind = "blocked" => Inspected[i].onFix = NoFix /\ ~Inspected[i].ack
         /\ kind \in Planning => Inspected[i].val = "confirmed"
         /\ Inspected[i] \in StateDocuments /\ store[i] \in Stores
         /\ Sound(Inspected, store) /\ Linked(Inspected[i], store[i], i)
<1> DEFINE s == Inspected[i]
<1>1. Sound(Inspected, store)
  BY SoundInspected DEF IInv
<1>2. DocumentOk(s) /\ s \in StateDocuments /\ store[i] \in Stores /\ Linked(s, store[i], i)
  BY <1>1 DEF Sound, DocsOk, DocumentOk
<1>3. WorkItemInspectionKind(s) = kind
  BY DEF Selected
<1> HIDE DEF s
<1>4. ~MissingPointer(s)
  BY <1>2 DEF DocumentOk, MissingPointer
<1>5. s.lc \in Lifecycles /\ s.ack \in BOOLEAN
  BY <1>2 DEF StateDocuments
<1>6. kind \notin {"awaiting_validation", "blocked_on_fix", "blocked_on_human"}
  BY DEF Lifecycles, PendingSpecification, Planning, Executing, Failed
<1>7. /\ ~(s.lc \in Planning /\ s.val # "confirmed")
      /\ ~(s.lc = "blocked" /\ s.onFix # NoFix)
      /\ ~(s.lc = "blocked" /\ s.onFix = NoFix /\ s.ack)
      /\ kind = s.lc
  BY <1>3, <1>4, <1>6 DEF WorkItemInspectionKind
<1>8. kind = "blocked" => s.onFix = NoFix /\ ~s.ack
  BY <1>7
<1>9. kind # "malformed"
  BY <1>5, <1>7 DEF Lifecycles, PendingSpecification, Planning, Executing, Failed
<1> QED
  BY <1>1, <1>2, <1>7, <1>8, <1>9 DEF s

\* What is left of a run after a step is a run.
LEMMA RunsOk ==
  ASSUME run \in Runs, NEW n \in Nat, NEW i \in Items
  PROVE  /\ Advanced(n) => run' \in Runs
         /\ AdvancedWithApproval(n) => run' \in Runs
         /\ SetAside(i, n) => run' \in Runs
         /\ \A exit \in {"none", "done", "needs_human", "failed", "stopped"} :
              Ended(exit) \in Runs
<1>1. Spent(n) \in 0..MaxAiCallsPerRun
  BY BoundsAssumption DEF Spent, Runs
<1>2. \A exit \in {"none", "done", "needs_human", "failed", "stopped"} : Ended(exit) \in Runs
  BY BoundsAssumption DEF Ended, Runs
<1>3. ExitCode(run.aside) \in {"done", "needs_human"}
  BY DEF ExitCode
<1>4. Advanced(n) => run' \in Runs
  BY <1>1, <1>2, <1>3 DEF Advanced, Runs
<1>5. AdvancedWithApproval(n) => run' \in Runs
  <2>1. \E m \in 0..MaxTasksPerRun :
          m = IF primaryTaskLimitReached THEN run.approved ELSE run.approved + 1
    BY BoundsAssumption DEF primaryTaskLimitReached, Runs
  <2>2. PICK m \in 0..MaxTasksPerRun :
          m = IF primaryTaskLimitReached THEN run.approved ELSE run.approved + 1
    BY <2>1
  <2>3. [run EXCEPT !.calls = Spent(n), !.approved = m] \in Runs
    BY <1>1 DEF Runs
  <2> QED
    BY <1>2, <1>3, <2>2, <2>3 DEF AdvancedWithApproval
<1>6. SetAside(i, n) => run' \in Runs
  <2>1. PICK S \in SUBSET Items : S = run.aside \cup {i}
    BY DEF Runs
  <2>2. [run EXCEPT !.calls = Spent(n), !.aside = S] \in Runs
    BY <1>1 DEF Runs
  <2> QED
    BY <1>2, <2>1, <2>2 DEF SetAside
<1> QED
  BY <1>2, <1>4, <1>5, <1>6

\* The block recorded for an item that cannot proceed, whatever is read from its text, is
\* sound and agrees with any store.
LEMMA RecordedOk ==
  ASSUME NEW s, DocumentOk(s), s.val = "confirmed",
         s.lc \notin Untouched \cup {"completed"},
         NEW k \in BlockerKinds, NEW recov \in Recoverabilities, NEW why \in Reasons,
         NEW t, NEW i
  PROVE  LET r == recordBlockedFeature(s, k, recov, why)
         IN  /\ DocumentOk(r) /\ r.lc = "blocked" /\ r.by # NoBlocker /\ r.val = "confirmed"
             /\ r.onFix = s.onFix /\ Linked(r, t, i)
<1> DEFINE b == Profile(s, k, recov, why)
           r == ForBlocked(s, b, "blocked")
<1>1. b \in Blockers /\ b # NoBlocker
  BY DEF Profile, Blockers, DocumentOk, StateDocuments, NoTask, NoBlocker, BlockerKinds
<1> HIDE DEF b
<1>2. /\ DocumentOk(r) /\ r.lc = "blocked" /\ r.by = b /\ r.val = "confirmed"
      /\ r.onFix = s.onFix
  BY <1>1, ForBlockedOk
<1>3. Linked(r, t, i)
  BY <1>2 DEF Linked, ClosingOk, Planning
<1> QED
  BY <1>1, <1>2, <1>3 DEF recordBlockedFeature, b

\* Recording a block for one item keeps everything sound, whatever is written to its store,
\* and so does marking it for a person.
LEMMA SoundBlocked ==
  ASSUME NEW d, NEW st, Sound(d, st), NEW i \in Items,
         d[i].val = "confirmed", d[i].lc \notin Untouched \cup {"completed"},
         NEW k \in BlockerKinds, NEW recov \in Recoverabilities, NEW why \in Reasons,
         NEW t \in Stores
  PROVE  LET r == recordBlockedFeature(d[i], k, recov, why)
             st2 == [st EXCEPT ![i] = t]
         IN  /\ Sound([d EXCEPT ![i] = r], st)
             /\ Sound([d EXCEPT ![i] = r], st2)
             /\ Sound([d EXCEPT ![i] = [r EXCEPT !.ack = TRUE]], st2)
<1> DEFINE r == recordBlockedFeature(d[i], k, recov, why)
           m == [r EXCEPT !.ack = TRUE]
<1>1. DocumentOk(d[i])
  BY DEF Sound, DocsOk
<1>2. /\ DocumentOk(r) /\ r.lc = "blocked" /\ r.onFix = d[i].onFix
      /\ Linked(r, t, i) /\ Linked(r, st[i], i)
  BY <1>1, RecordedOk
<1> HIDE DEF r
<1>3. Sound([d EXCEPT ![i] = r], st) /\ Sound([d EXCEPT ![i] = r], [st EXCEPT ![i] = t])
  BY <1>2, SoundWrite, SoundUpdate
<1>4. /\ m = [r EXCEPT !.ack = TRUE, !.onFix = r.onFix] /\ r.onFix \in Nat
      /\ m.lc = "blocked" /\ m.onFix = d[i].onFix
  BY <1>2 DEF DocumentOk, StateDocuments
<1>5. DocumentOk(m)
  BY <1>2, <1>4, WaitingOk
<1>6. Linked(m, t, i)
  BY <1>4 DEF Linked, ClosingOk, Planning
<1>7. Sound([d EXCEPT ![i] = m], [st EXCEPT ![i] = t])
  BY <1>4, <1>5, <1>6, SoundUpdate
<1> QED
  BY <1>3, <1>7 DEF r

(***************************************************************************)
(* Each action keeps the invariant.                                        *)
(***************************************************************************)
\* Planning a feature's next task, or refusing the plan, preserves the invariant.
LEMMA PlanTaskOk ==
  ASSUME IInv, NEW i \in Items, PlanTask(i)
  PROVE  IInv'
<1> DEFINE d == Inspected
           t == StoreForTask(store[i])
<1>1. PICK kind \in Planning :
        /\ Selected(d, i, kind)
        /\ \/ /\ doc' = [d EXCEPT ![i] = ForTaskPlan(d[i], 1)]
              /\ store' = [store EXCEPT ![i] = t]
              /\ Advanced(1)
           \/ /\ \E k \in TextKinds, recov \in TextRecoverabilities :
                   doc' = [d EXCEPT ![i] =
                             recordBlockedFeature(d[i], TextKind(d[i], k), recov, "plan")]
              /\ SetAside(i, 1)
              /\ UNCHANGED store
        /\ UNCHANGED fix
  BY DEF PlanTask
<1>2. /\ DocumentOk(d[i]) /\ d[i].lc = kind
      /\ d[i].val = "confirmed" /\ Sound(d, store) /\ d[i] \in StateDocuments
      /\ store[i] \in Stores
  BY <1>1, SelectedFacts DEF Lifecycles
<1>3. run' \in Runs
  BY <1>1, RunsOk DEF IInv
<1> HIDE DEF d, t
<1>4. CASE doc' = [d EXCEPT ![i] = ForTaskPlan(d[i], 1)] /\ store' = [store EXCEPT ![i] = t]
  <2>1. t \in Stores
    BY <1>2 DEF t, StoreForTask, Stores
  <2>2. DocumentOk(ForTaskPlan(d[i], 1))
    BY <1>2, ForTaskPlanOk DEF NoTask
  <2>3. /\ ForTaskPlan(d[i], 1).lc = "task_ready"
        /\ ForTaskPlan(d[i], 1).onFix = d[i].onFix
    BY <1>2 DEF ForTaskPlan, StateDocuments
  <2>4. Linked(ForTaskPlan(d[i], 1), t, i)
    BY <2>3 DEF Linked, ClosingOk, Planning
  <2> QED
    BY <1>1, <1>2, <1>3, <1>4, <2>1, <2>2, <2>3, <2>4, SoundUpdate DEF IInv
<1>5. CASE /\ \E k \in TextKinds, recov \in TextRecoverabilities :
                doc' = [d EXCEPT ![i] =
                          recordBlockedFeature(d[i], TextKind(d[i], k), recov, "plan")]
           /\ UNCHANGED store
  <2>1. PICK k \in TextKinds, recov \in TextRecoverabilities :
          doc' = [d EXCEPT ![i] = recordBlockedFeature(d[i], TextKind(d[i], k), recov, "plan")]
    BY <1>5
  <2>2. TextKind(d[i], k) \in BlockerKinds /\ recov \in Recoverabilities /\ "plan" \in Reasons
    BY ChoicesAssumption DEF TextKind, BlockerKinds, Reasons
  <2>3. d[i].lc \notin Untouched \cup {"completed"}
    BY <1>2 DEF Untouched, PendingSpecification, Planning
  <2>4. Sound(doc', store)
    BY <1>2, <2>1, <2>2, <2>3, SoundBlocked
  <2> QED
    BY <1>1, <1>3, <1>5, <2>4 DEF IInv
<1> QED
  BY <1>1, <1>4, <1>5

\* Closing a feature, or refusing to, preserves the invariant.
LEMMA AttemptCompletionOk ==
  ASSUME IInv, NEW i \in Items, AttemptCompletion(i)
  PROVE  IInv'
<1> DEFINE d == Inspected
<1>1. PICK kind \in Planning :
        /\ Selected(d, i, kind)
        /\ \/ \E recov \in TextRecoverabilities, why \in {"plan", "refused", "unfinished"},
                 n \in 0..1 :
                /\ doc' = [d EXCEPT ![i] = recordBlockedFeature(d[i], "other", recov, why)]
                /\ SetAside(i, n)
           \/ /\ ~RefusedOnRecord(d[i])
              /\ doc' = [d EXCEPT ![i] = AfterCompletion(d[i])]
              /\ Advanced(1)
        /\ UNCHANGED <<store, fix>>
  BY DEF AttemptCompletion
<1>2. /\ DocumentOk(d[i]) /\ d[i].lc = kind
      /\ d[i].val = "confirmed" /\ Sound(d, store) /\ d[i] \in StateDocuments
      /\ store[i] \in Stores
  BY <1>1, SelectedFacts DEF Lifecycles
<1> HIDE DEF d
<1>3. ASSUME NEW recov \in TextRecoverabilities, NEW why \in {"plan", "refused", "unfinished"},
             NEW n \in 0..1,
             doc' = [d EXCEPT ![i] = recordBlockedFeature(d[i], "other", recov, why)],
             SetAside(i, n)
      PROVE  IInv'
  <2>1. "other" \in BlockerKinds /\ recov \in Recoverabilities /\ why \in Reasons
    BY ChoicesAssumption DEF BlockerKinds, Reasons
  <2>2. d[i].lc \notin Untouched \cup {"completed"}
    BY <1>2 DEF Untouched, PendingSpecification, Planning
  <2>3. Sound(doc', store)
    BY <1>2, <1>3, <2>1, <2>2, SoundBlocked
  <2>4. run' \in Runs
    BY <1>3, RunsOk DEF IInv
  <2> QED
    BY <1>1, <2>3, <2>4 DEF IInv
<1>4. CASE doc' = [d EXCEPT ![i] = AfterCompletion(d[i])] /\ Advanced(1)
  <2>1. DocumentOk(AfterCompletion(d[i]))
    BY <1>2, AfterCompletionOk
  <2>2. /\ AfterCompletion(d[i]).lc = "completed"
        /\ AfterCompletion(d[i]).onFix = d[i].onFix
    BY <1>2 DEF AfterCompletion, StateDocuments
  <2>3. Linked(AfterCompletion(d[i]), store[i], i)
    BY <2>2 DEF Linked, ClosingOk, Planning
  <2>4. Sound(doc', store)
    BY <1>2, <1>4, <2>1, <2>2, <2>3, SoundWrite
  <2>5. run' \in Runs
    BY <1>4, RunsOk DEF IInv
  <2> QED
    BY <1>1, <2>4, <2>5 DEF IInv
<1> QED
  BY <1>1, <1>3, <1>4

\* Planning another task of a fix preserves the invariant.
LEMMA PlanFixTaskOk ==
  ASSUME IInv, NEW i \in Items, PlanFixTask(i)
  PROVE  IInv'
<1> DEFINE d == Inspected
           t == StoreForTask(store[i])
           r == ForTaskPlan(d[i], 1)
<1>1. PICK kind \in Planning :
        /\ Selected(d, i, kind)
        /\ doc' = [d EXCEPT ![i] = r] /\ store' = [store EXCEPT ![i] = t]
        /\ Advanced(1) /\ UNCHANGED fix
  BY DEF PlanFixTask
<1>2. /\ DocumentOk(d[i]) /\ d[i].lc = kind
      /\ d[i].val = "confirmed" /\ Sound(d, store) /\ d[i] \in StateDocuments
      /\ store[i] \in Stores
  BY <1>1, SelectedFacts DEF Lifecycles
<1> HIDE DEF d
<1>3. t \in Stores
  BY <1>2 DEF StoreForTask, Stores
<1>4. DocumentOk(r)
  BY <1>2, ForTaskPlanOk DEF NoTask
<1>5. r.lc = "task_ready" /\ r.onFix = d[i].onFix
  BY <1>2 DEF ForTaskPlan, StateDocuments
<1> HIDE DEF r, t
<1>6. Linked(r, t, i)
  BY <1>5 DEF Linked, ClosingOk, Planning
<1>7. Sound(doc', store')
  BY <1>1, <1>2, <1>3, <1>4, <1>5, <1>6, SoundUpdate
<1>8. run' \in Runs
  BY <1>1, RunsOk DEF IInv
<1> QED
  BY <1>1, <1>7, <1>8 DEF IInv

\* Handing the active task, or its correction, to the implementer.
LEMMA SoundHandover ==
  ASSUME NEW d, Sound(d, store), NEW i \in Items,
         d[i].lc \in Executing \cup {"correction_pending"},
         NEW task \in Nat, task # NoTask, NEW t \in Stores
  PROVE  LET r == DuringImplementation(d[i], task)
         IN  /\ DocumentOk(r) /\ r.lc = "implementation_running" /\ r.onFix = d[i].onFix
             /\ r.val = "confirmed" /\ r \in StateDocuments
             /\ Sound([d EXCEPT ![i] = r], [store EXCEPT ![i] = t])
             /\ Sound([d EXCEPT ![i] = r], store)
<1> DEFINE r == DuringImplementation(d[i], task)
<1>1. DocumentOk(d[i]) /\ d[i] \in StateDocuments
  BY DEF Sound, DocsOk, DocumentOk
<1>2. d[i].val = "confirmed"
  BY <1>1 DEF DocumentOk, Executing, Untouched, PendingSpecification, Planning
<1>3. DocumentOk(r)
  BY <1>1, DuringImplementationOk
<1>4. /\ r.lc = "implementation_running" /\ r.onFix = d[i].onFix
      /\ r.val = "confirmed"
  BY <1>1, <1>2 DEF DuringImplementation, StateDocuments
<1> HIDE DEF r
<1>5. Linked(r, t, i) /\ Linked(r, store[i], i) /\ r \in StateDocuments
  BY <1>3, <1>4 DEF Linked, ClosingOk, Planning, DocumentOk
<1>6. Sound([d EXCEPT ![i] = r], [store EXCEPT ![i] = t]) /\ Sound([d EXCEPT ![i] = r], store)
  BY <1>3, <1>4, <1>5, SoundUpdate, SoundWrite
<1> QED
  BY <1>3, <1>4, <1>5, <1>6 DEF r

\* Handing a task or its correction to the implementer preserves the invariant.
LEMMA PlanSubtaskOk ==
  ASSUME IInv, NEW i \in Items, PlanSubtask(i)
  PROVE  IInv'
<1> DEFINE d == Inspected
           t == [store[i] EXCEPT !.used = 0]
<1>1. run' \in Runs /\ UNCHANGED fix
  BY RunsOk DEF PlanSubtask, IInv
<1>2. CASE /\ Selected(d, i, "task_ready") /\ UNCHANGED store
           /\ doc' = [d EXCEPT ![i] = DuringImplementation(d[i], d[i].task)]
  <2>1. /\ DocumentOk(d[i]) /\ d[i].lc = "task_ready"
        /\ Sound(d, store) /\ d[i] \in StateDocuments /\ store[i] \in Stores
    BY <1>2, SelectedFacts DEF Lifecycles, Executing
  <2> HIDE DEF d
  <2>2. d[i].task \in Nat /\ d[i].task # NoTask /\ d[i].lc \in Executing
    BY <2>1 DEF DocumentOk, StateDocuments, Executing
  <2>3. Sound(doc', store)
    BY <1>2, <2>1, <2>2, SoundHandover
  <2> QED
    BY <1>1, <1>2, <2>3 DEF IInv
<1>3. CASE /\ Selected(d, i, "correction_pending") /\ store' = [store EXCEPT ![i].used = 0]
           /\ doc' = [d EXCEPT ![i] = DuringImplementation(d[i], d[i].corr)]
  <2>1. /\ DocumentOk(d[i]) /\ d[i].lc = "correction_pending"
        /\ Sound(d, store) /\ d[i] \in StateDocuments /\ store[i] \in Stores
    BY <1>3, SelectedFacts DEF Lifecycles
  <2> HIDE DEF d
  <2>2. d[i].corr \in Nat /\ d[i].corr # NoTask
    BY <2>1 DEF DocumentOk, StateDocuments
  <2>3. t \in Stores /\ store' = [store EXCEPT ![i] = t]
    BY <1>3, <2>1 DEF Stores
  <2> HIDE DEF t
  <2>4. Sound([d EXCEPT ![i] = DuringImplementation(d[i], d[i].corr)], [store EXCEPT ![i] = t])
    BY <2>1, <2>2, <2>3, SoundHandover
  <2>5. Sound(doc', store')
    BY <1>3, <2>3, <2>4
  <2> QED
    BY <1>1, <2>5 DEF IInv
<1> QED
  BY <1>2, <1>3 DEF PlanSubtask

\* An implementation abandoned for a stop request preserves the invariant.
LEMMA InterruptImplementationOk ==
  ASSUME IInv, NEW i \in Items, InterruptImplementation(i)
  PROVE  IInv'
<1> DEFINE d == Inspected
<1>1. /\ DocumentOk(d[i]) /\ d[i].lc = "implementation_running"
      /\ Sound(d, store) /\ d[i] \in StateDocuments /\ store[i] \in Stores
  BY SelectedFacts DEF InterruptImplementation, Lifecycles, Executing
<1>2. /\ doc' = [d EXCEPT ![i] = DuringImplementation(d[i], d[i].task)]
      /\ UNCHANGED <<store, fix>> /\ run' = Ended("stopped")
  BY DEF InterruptImplementation
<1> HIDE DEF d
<1>3. d[i].task \in Nat /\ d[i].task # NoTask /\ d[i].lc \in Executing
  BY <1>1 DEF DocumentOk, StateDocuments, Executing
<1>4. Sound(doc', store)
  BY <1>1, <1>2, <1>3, SoundHandover
<1>5. run' \in Runs
  BY <1>2, RunsOk DEF IInv
<1> QED
  BY <1>2, <1>4, <1>5 DEF IInv

\* Filing or reusing a fix for an item whose block is recorded, whatever is read from its
\* text, keeps everything sound.
LEMMA SoundWaitBlocked ==
  ASSUME NEW d, NEW st, Sound(d, st), NEW i \in Items, NEW s, DocumentOk(s),
         s.val = "confirmed", s.lc \notin Untouched \cup {"completed"},
         NEW k \in TextKinds, NEW recov \in TextRecoverabilities, NEW f \in Fixes,
         WaitOnFix(d, i, recordBlockedFeature(s, TextKind(s, k), recov, "systemic"), f),
         NEW t \in Stores
  PROVE  Sound(doc', [st EXCEPT ![i] = t])
<1> DEFINE r == recordBlockedFeature(s, TextKind(s, k), recov, "systemic")
<1>1. TextKind(s, k) \in BlockerKinds /\ recov \in Recoverabilities /\ "systemic" \in Reasons
  BY ChoicesAssumption DEF TextKind, BlockerKinds, Reasons
<1>2. DocumentOk(r) /\ r.lc \notin {"absent"} \cup Planning
  BY <1>1, RecordedOk DEF Planning
<1> HIDE DEF r
<1>3. WaitOnFix(d, i, r, f)
  BY DEF r
<1> QED
  BY <1>2, <1>3, SoundWait

\* What is recorded of a filed fix is a record of a fix.
LEMMA RecordFixOk ==
  ASSUME fix \in [Fixes -> FixRecords], NEW d, NEW f \in Fixes, NEW sev \in Severities,
         NEW sig \in DefectSignatures, RecordFix(d, f, sev, sig)
  PROVE  fix' \in [Fixes -> FixRecords]
BY DEF RecordFix, FixRecords

\* An implementation, its gates and the waiver of a gate preserve the invariant.
LEMMA ImplementSubtaskOk ==
  ASSUME IInv, NEW i \in Items, ImplementSubtask(i)
  PROVE  IInv'
<1> DEFINE d == Inspected
           s == DuringImplementation(d[i], d[i].task)
<1>1. /\ DocumentOk(d[i]) /\ d[i].lc = "implementation_running"
      /\ Sound(d, store) /\ d[i] \in StateDocuments /\ store[i] \in Stores
  BY SelectedFacts DEF ImplementSubtask, Lifecycles, Executing
<1>2. UNCHANGED store /\ run' \in Runs
  BY RunsOk DEF ImplementSubtask, MaxImplementationAttempts, IInv
<1>3. \/ UNCHANGED fix /\ doc' = [d EXCEPT ![i] = AfterImplementationFailure(s)]
      \/ UNCHANGED fix /\ doc' = [d EXCEPT ![i] = AfterGatesPassed(s)]
      \/ UNCHANGED fix /\ \E recov \in TextRecoverabilities :
                            doc' = [d EXCEPT ![i] = AfterGatesFailed(s, recov)]
      \/ \E f \in Fixes, k \in TextKinds, recov \in TextRecoverabilities :
           /\ RecordFix(d, f, "high", <<"gate", 0>>)
           /\ WaitOnFix(d, i, recordBlockedFeature(s, TextKind(s, k), recov, "systemic"), f)
  BY DEF ImplementSubtask
<1> HIDE DEF d
<1>4. d[i].task \in Nat /\ d[i].task # NoTask /\ d[i].lc \in Executing
  BY <1>1 DEF DocumentOk, StateDocuments, Executing
<1>5. /\ DocumentOk(s) /\ s.lc = "implementation_running" /\ s.onFix = d[i].onFix
      /\ s.val = "confirmed" /\ s \in StateDocuments
  BY <1>1, <1>4, SoundHandover
<1> HIDE DEF s
<1>6. s.lc \in Executing /\ s.lc \notin Untouched \cup {"completed"}
  BY <1>5 DEF Executing, Untouched, PendingSpecification
<1>7. ASSUME NEW r, DocumentOk(r), r.lc \notin {"absent"} \cup Planning, r.onFix = d[i].onFix,
             doc' = [d EXCEPT ![i] = r], UNCHANGED fix
      PROVE  IInv'
  <2>1. Linked(r, store[i], i)
    BY <1>7 DEF Linked, ClosingOk
  <2>2. Sound(doc', store)
    BY <1>1, <1>7, <2>1, SoundWrite
  <2> QED
    BY <1>2, <1>7, <2>2 DEF IInv
<1>8. CASE UNCHANGED fix /\ doc' = [d EXCEPT ![i] = AfterImplementationFailure(s)]
  <2> DEFINE r == AfterImplementationFailure(s)
  <2>1. DocumentOk(r)
    BY <1>5, <1>6, AfterImplementationFailureOk
  <2>2. r.lc = "implementation_failed" /\ r.onFix = d[i].onFix
    BY <1>5 DEF AfterImplementationFailure, StateDocuments
  <2> HIDE DEF r
  <2> QED
    BY <1>7, <1>8, <2>1, <2>2 DEF Planning, r
<1>9. CASE UNCHANGED fix /\ doc' = [d EXCEPT ![i] = AfterGatesPassed(s)]
  <2> DEFINE r == AfterGatesPassed(s)
  <2>1. DocumentOk(r)
    BY <1>5, <1>6, AfterGatesPassedOk
  <2>2. r.lc = "review_pending" /\ r.onFix = d[i].onFix
    BY <1>5 DEF AfterGatesPassed, StateDocuments
  <2> HIDE DEF r
  <2> QED
    BY <1>7, <1>9, <2>1, <2>2 DEF Planning, r
<1>10. ASSUME NEW recov \in TextRecoverabilities, UNCHANGED fix,
              doc' = [d EXCEPT ![i] = AfterGatesFailed(s, recov)]
       PROVE  IInv'
  <2> DEFINE r == AfterGatesFailed(s, recov)
  <2>1. DocumentOk(r)
    BY <1>5, <1>6, ChoicesAssumption, AfterGatesFailedOk
  <2>2. r.lc = "quality_failed" /\ r.onFix = d[i].onFix
    BY <1>5 DEF AfterGatesFailed, StateDocuments
  <2> HIDE DEF r
  <2> QED
    BY <1>7, <1>10, <2>1, <2>2 DEF Planning, r
<1>11. ASSUME NEW f \in Fixes, NEW k \in TextKinds, NEW recov \in TextRecoverabilities,
              RecordFix(d, f, "high", <<"gate", 0>>),
              WaitOnFix(d, i, recordBlockedFeature(s, TextKind(s, k), recov, "systemic"), f)
       PROVE  IInv'
  <2>1. "high" \in Severities /\ <<"gate", 0>> \in DefectSignatures
    BY DEF Severities, DefectSignatures
  <2>2. fix' \in [Fixes -> FixRecords]
    BY <1>11, <2>1, RecordFixOk DEF IInv
  <2>3. store = [store EXCEPT ![i] = store[i]]
    BY <1>1 DEF Sound
  <2>4. Sound(doc', [store EXCEPT ![i] = store[i]])
    BY <1>1, <1>5, <1>6, <1>11, SoundWaitBlocked
  <2> QED
    BY <1>2, <2>2, <2>3, <2>4 DEF IInv
<1> QED
  BY <1>3, <1>8, <1>9, <1>10, <1>11

\* The profile a diagnosis works from is a blocker, and its signature names one.
LEMMA BlockerOfOk ==
  ASSUME NEW s \in StateDocuments
  PROVE  /\ BlockerOf(s) \in Blockers
         /\ Signature(BlockerOf(s)) \in Signatures /\ Signature(BlockerOf(s)) # NoSignature
<1> DEFINE p == BlockerOf(s)
<1>1. p \in Blockers
  <2>1. CASE s.by # NoBlocker
    BY <2>1 DEF BlockerOf, StateDocuments
  <2>2. CASE s.by = NoBlocker
    BY <2>2 DEF BlockerOf, StateDocuments, Blockers, BlockerKinds, Recoverabilities, Reasons,
                NoTask
  <2> QED
    BY <2>1, <2>2
<1> HIDE DEF p
<1>2. Signature(p) \in Signatures /\ Signature(p).kind \in BlockerKinds
  BY <1>1 DEF Signature, Signatures, Blockers
<1>3. Signature(p) # NoSignature
  BY <1>2 DEF BlockerKinds, NoSignature
<1> QED
  BY <1>1, <1>2, <1>3 DEF p

\* The repair of the state document, its refusal, or the error it ends in.
LEMMA CorrectStateOk ==
  ASSUME IInv, NEW i \in Items, NEW d, Sound(d, store), NEW n \in Nat,
         d[i].lc \in Failed \cup {"blocked"}, CorrectState(d, i, n), UNCHANGED fix
  PROVE  IInv'
<1> DEFINE s == d[i]
           p == BlockerOf(s)
           b == [p EXCEPT !.recov = "human"]
           t == [store[i] EXCEPT !.diagnosed = Signature(p)]
           u == [t EXCEPT !.used = @ + 1]
           anchor == IF s.task # NoTask THEN s.task ELSE 1
           w == ForBlocked(s, b, "blocked")
           m == [w EXCEPT !.ack = TRUE]
           r == AfterStateCorrection(s, anchor)
<1>1. DocumentOk(s) /\ s \in StateDocuments /\ store[i] \in Stores
  BY DEF Sound, DocsOk, DocumentOk
<1>2. p \in Blockers /\ Signature(p) \in Signatures /\ Signature(p) # NoSignature
  BY <1>1, BlockerOfOk
<1>3. t \in Stores /\ t.diagnosed # NoSignature /\ u \in Stores
  <2>1. t \in Stores /\ t.diagnosed # NoSignature
    BY <1>1, <1>2 DEF Stores
  <2> HIDE DEF t
  <2>2. u \in Stores
    BY <2>1 DEF Stores
  <2> QED
    BY <2>1, <2>2
<1>4. s.lc \notin Untouched \cup {"completed"} /\ s.lc \notin Planning
  BY DEF Failed, Untouched, PendingSpecification, Planning
<1>5. s.val = "confirmed"
  BY <1>1, <1>4 DEF DocumentOk
<1>6. b \in Blockers /\ b # NoBlocker
  BY <1>2 DEF Blockers, Recoverabilities, NoBlocker, BlockerKinds
<1>7. anchor \in Nat /\ anchor # NoTask
  BY <1>1 DEF StateDocuments, NoTask
<1>8. [store EXCEPT ![i].diagnosed = Signature(p)] = [store EXCEPT ![i] = t]
  OBVIOUS
<1>9. [store EXCEPT ![i].diagnosed = Signature(p), ![i].used = @ + 1] = [store EXCEPT ![i] = u]
  BY <1>1 DEF Sound, Stores
<1>10. \/ doc' = d /\ run' = Ended("failed") /\ store' = [store EXCEPT ![i] = t]
       \/ doc' = [d EXCEPT ![i] = m] /\ SetAside(i, n) /\ store' = [store EXCEPT ![i] = t]
       \/ doc' = [d EXCEPT ![i] = r] /\ Advanced(n) /\ store' = [store EXCEPT ![i] = u]
  BY <1>8, <1>9 DEF CorrectState
<1>11. run' \in Runs
  BY <1>10, RunsOk DEF IInv
<1> HIDE DEF p, b, t, u, anchor
<1>12. Linked(s, t, i)
  BY <1>3, <1>4 DEF Linked, ClosingOk
<1>13. /\ DocumentOk(m) /\ m.lc = "blocked" /\ m.onFix = s.onFix /\ Linked(m, t, i)
  <2>1. DocumentOk(w) /\ w.lc = "blocked" /\ w.onFix = s.onFix
    BY <1>1, <1>4, <1>5, <1>6, ForBlockedOk
  <2> HIDE DEF w
  <2>2. /\ m = [w EXCEPT !.ack = TRUE, !.onFix = w.onFix] /\ w.onFix \in Nat
        /\ m.lc = "blocked" /\ m.onFix = s.onFix
    BY <2>1 DEF DocumentOk, StateDocuments
  <2>3. DocumentOk(m)
    BY <2>1, <2>2, WaitingOk
  <2> QED
    BY <2>2, <2>3 DEF Linked, ClosingOk, Planning
<1>14. DocumentOk(r) /\ r.lc = s.lc /\ r.onFix = s.onFix
  <2>1. DocumentOk(r)
    BY <1>1, <1>7, AfterStateCorrectionOk
  <2>2. r.lc = s.lc /\ r.onFix = s.onFix
    BY <1>1 DEF AfterStateCorrection, StateDocuments
  <2> QED
    BY <2>1, <2>2
<1> HIDE DEF m, r
<1>15. Linked(r, u, i) /\ r.lc # "absent" /\ s.lc # "absent"
  BY <1>4, <1>14 DEF Linked, ClosingOk, Untouched
<1>16. CASE doc' = d /\ store' = [store EXCEPT ![i] = t]
  <2>1. d = [d EXCEPT ![i] = s]
    BY DEF Sound, DocsOk
  <2>2. Sound([d EXCEPT ![i] = s], [store EXCEPT ![i] = t])
    BY <1>1, <1>3, <1>12, <1>15, SoundUpdate
  <2>3. Sound(doc', store')
    BY <1>16, <2>1, <2>2
  <2> QED
    BY <1>11, <2>3 DEF IInv
<1>17. CASE doc' = [d EXCEPT ![i] = m] /\ store' = [store EXCEPT ![i] = t]
  <2>1. Sound(doc', store')
    BY <1>3, <1>13, <1>17, SoundUpdate
  <2> QED
    BY <1>11, <2>1 DEF IInv
<1>18. CASE doc' = [d EXCEPT ![i] = r] /\ store' = [store EXCEPT ![i] = u]
  <2>1. Sound(doc', store')
    BY <1>3, <1>14, <1>15, <1>18, SoundUpdate
  <2> QED
    BY <1>11, <2>1 DEF IInv
<1> QED
  BY <1>10, <1>16, <1>17, <1>18

\* Diagnosis of an item that failed or is blocked, at whatever point of a step it is made.
LEMMA DiagnoseFromOk ==
  ASSUME IInv, NEW i \in Items, NEW d, Sound(d, store), NEW n0 \in Nat,
         d[i].lc \in Failed \cup {"blocked"}, DiagnoseFrom(d, i, n0)
  PROVE  IInv'
<1> DEFINE s == d[i]
           p == BlockerOf(s)
           t == [store[i] EXCEPT !.diagnosed = Signature(p)]
<1>1. DocumentOk(s) /\ s \in StateDocuments /\ store[i] \in Stores
  BY DEF Sound, DocsOk, DocumentOk
<1>2. p \in Blockers /\ Signature(p) \in Signatures /\ Signature(p) # NoSignature
  BY <1>1, BlockerOfOk
<1>3. t \in Stores /\ t.diagnosed # NoSignature
  BY <1>1, <1>2 DEF Stores
<1>4. p.kind \in BlockerKinds
  BY <1>2 DEF Blockers
<1>5. s.lc \notin Untouched \cup {"completed"} /\ s.lc \notin Planning
  BY DEF Failed, Untouched, PendingSpecification, Planning
<1>6. s.val = "confirmed"
  BY <1>1, <1>5 DEF DocumentOk
<1>7. {"diagnosed", "conversation", "stop"} \subseteq Reasons
  BY DEF Reasons
<1>8. TextRecoverabilities \subseteq Recoverabilities
      /\ \A k \in TextKinds : TextKind(s, k) \in BlockerKinds
  BY ChoicesAssumption DEF TextKind, BlockerKinds
<1>9. CASE store[i].diagnosed = Signature(p)
  <2>1. PICK recov \in TextRecoverabilities :
          doc' = [d EXCEPT ![i] =
                    [recordBlockedFeature(s, p.kind, recov, "diagnosed") EXCEPT !.ack = TRUE]]
    BY <1>9 DEF DiagnoseFrom
  <2>2. SetAside(i, n0) /\ UNCHANGED <<store, fix>>
    BY <1>9 DEF DiagnoseFrom
  <2>3. run' \in Runs
    BY <2>2, RunsOk DEF IInv
  <2>4. store = [store EXCEPT ![i] = store[i]]
    BY DEF Sound
  <2> HIDE DEF p
  <2>5. Sound([d EXCEPT ![i] =
                 [recordBlockedFeature(s, p.kind, recov, "diagnosed") EXCEPT !.ack = TRUE]],
              [store EXCEPT ![i] = store[i]])
    BY <1>1, <1>2, <1>4, <1>5, <1>6, <1>7, <1>8, <1>9, SoundBlocked
  <2>6. Sound(doc', store)
    BY <2>1, <2>4, <2>5
  <2> QED
    BY <2>2, <2>3, <2>6 DEF IInv
<1>10. CASE store[i].diagnosed # Signature(p)
  <2>1. PICK n \in DiagnosisCalls(s, store[i]) :
          \/ CorrectState(d, i, n0 + n) /\ UNCHANGED fix
          \/ /\ \E k \in ConversationKinds(s, store[i]), recov \in TextRecoverabilities :
                  doc' = [d EXCEPT ![i] =
                            [recordBlockedFeature(s, k, recov, "conversation")
                               EXCEPT !.ack = TRUE]]
             /\ SetAside(i, n0 + n)
             /\ store' = [store EXCEPT ![i].diagnosed = Signature(p)]
             /\ UNCHANGED fix
          \/ /\ \E f \in Fixes, k \in TextKinds, recov \in TextRecoverabilities :
                  /\ RecordFix(d, f, "critical", <<"systemic", i>>)
                  /\ WaitOnFix(d, i, recordBlockedFeature(s, TextKind(s, k), recov, "systemic"), f)
             /\ SetAside(i, n0 + n)
             /\ store' = [store EXCEPT ![i].diagnosed = Signature(p)]
          \/ /\ \E k \in TextKinds, recov \in TextRecoverabilities :
                  doc' = [d EXCEPT ![i] =
                            recordBlockedFeature(s, TextKind(s, k), recov, "stop")]
             /\ SetAside(i, n0 + n)
             /\ store' = [store EXCEPT ![i].diagnosed = Signature(p)]
             /\ UNCHANGED fix
    BY <1>10 DEF DiagnoseFrom
  <2>2. n0 + n \in Nat
    BY DEF DiagnosisCalls
  <2>3. SetAside(i, n0 + n) \/ Advanced(n0 + n) \/ run' = Ended("failed") => run' \in Runs
    BY <2>2, RunsOk DEF IInv
  <2>4. [store EXCEPT ![i].diagnosed = Signature(p)] = [store EXCEPT ![i] = t]
    OBVIOUS
  <2>5. CASE CorrectState(d, i, n0 + n) /\ UNCHANGED fix
    BY <2>2, <2>5, CorrectStateOk
  <2>6. ASSUME NEW k \in ConversationKinds(s, store[i]), NEW recov \in TextRecoverabilities,
               doc' = [d EXCEPT ![i] = [recordBlockedFeature(s, k, recov, "conversation")
                                          EXCEPT !.ack = TRUE]],
               SetAside(i, n0 + n),
               store' = [store EXCEPT ![i].diagnosed = Signature(p)],
               UNCHANGED fix
        PROVE  IInv'
    <3>1. k \in BlockerKinds
      BY <1>4, ChoicesAssumption DEF ConversationKinds
    <3> HIDE DEF t
    <3>2. Sound([d EXCEPT ![i] = [recordBlockedFeature(s, k, recov, "conversation")
                                    EXCEPT !.ack = TRUE]], [store EXCEPT ![i] = t])
      BY <1>1, <1>3, <1>5, <1>6, <1>7, <1>8, <3>1, SoundBlocked
    <3>3. Sound(doc', store')
      BY <2>4, <2>6, <3>2
    <3> QED
      BY <2>3, <2>6, <3>3 DEF IInv
  <2>7. ASSUME NEW f \in Fixes, NEW k \in TextKinds, NEW recov \in TextRecoverabilities,
               RecordFix(d, f, "critical", <<"systemic", i>>),
               WaitOnFix(d, i, recordBlockedFeature(s, TextKind(s, k), recov, "systemic"), f),
               SetAside(i, n0 + n),
               store' = [store EXCEPT ![i].diagnosed = Signature(p)]
        PROVE  IInv'
    <3>1. "critical" \in Severities /\ <<"systemic", i>> \in DefectSignatures
      BY DEF Severities, DefectSignatures
    <3>2. fix' \in [Fixes -> FixRecords]
      BY <2>7, <3>1, RecordFixOk DEF IInv
    <3>3. store' = [store EXCEPT ![i] = t]
      BY <2>4, <2>7
    <3> HIDE DEF t
    <3>4. Sound(doc', [store EXCEPT ![i] = t])
      BY <1>1, <1>3, <1>5, <1>6, <2>7, SoundWaitBlocked
    <3> QED
      BY <2>3, <2>7, <3>2, <3>3, <3>4 DEF IInv
  <2>8. ASSUME NEW k \in TextKinds, NEW recov \in TextRecoverabilities,
               doc' = [d EXCEPT ![i] = recordBlockedFeature(s, TextKind(s, k), recov, "stop")],
               SetAside(i, n0 + n),
               store' = [store EXCEPT ![i].diagnosed = Signature(p)],
               UNCHANGED fix
        PROVE  IInv'
    <3> HIDE DEF t
    <3>1. Sound([d EXCEPT ![i] = recordBlockedFeature(s, TextKind(s, k), recov, "stop")],
                [store EXCEPT ![i] = t])
      BY <1>1, <1>3, <1>5, <1>6, <1>7, <1>8, SoundBlocked
    <3>2. Sound(doc', store')
      BY <2>4, <2>8, <3>1
    <3> QED
      BY <2>3, <2>8, <3>2 DEF IInv
  <2> QED
    BY <2>1, <2>5, <2>6, <2>7, <2>8
<1> QED
  BY <1>9, <1>10

\* A rejection, left to the next step of the loop or diagnosed at once.
LEMMA RejectedOk ==
  ASSUME IInv, NEW i \in Items, NEW d, Sound(d, store), NEW n \in Nat,
         d[i].lc \in Executing,
         NEW lc \in {"blocked", "review_failed"}, Rejected(d, i, lc, n)
  PROVE  IInv'
<1> DEFINE s == d[i]
<1>1. PICK k \in TextKinds, recov \in TextRecoverabilities, why \in ReviewReasons :
        LET d2 == [d EXCEPT ![i] = ForBlocked(s, Profile(s, k, recov, why), lc)]
        IN  \/ doc' = d2 /\ Advanced(n) /\ UNCHANGED <<store, fix>>
            \/ DiagnoseFrom(d2, i, n)
  BY DEF Rejected
<1> DEFINE b == Profile(s, k, recov, why)
           r == ForBlocked(s, b, lc)
           d2 == [d EXCEPT ![i] = r]
<1>2. DocumentOk(s) /\ s \in StateDocuments /\ store[i] \in Stores /\ d \in [Items -> StateDocuments]
  BY DEF Sound, DocsOk, DocumentOk
<1>3. s.lc \notin Untouched \cup {"completed"} /\ s.lc \notin Planning
  BY DEF Executing, Untouched, PendingSpecification, Planning
<1>4. s.val = "confirmed"
  BY <1>2, <1>3 DEF DocumentOk
<1>5. b \in Blockers
  BY <1>2, ChoicesAssumption DEF Profile, Blockers, StateDocuments, Reasons, NoTask
<1> HIDE DEF b
<1>6. DocumentOk(r) /\ r.lc = lc /\ r.onFix = s.onFix
  BY <1>2, <1>3, <1>4, <1>5, ForBlockedOk
<1> HIDE DEF r
<1>7. Linked(r, store[i], i) /\ r.lc # "absent"
  BY <1>6 DEF Linked, ClosingOk, Planning
<1>8. Sound(d2, store) /\ d2[i] = r
  BY <1>2, <1>6, <1>7, SoundWrite
<1>9. \/ doc' = d2 /\ Advanced(n) /\ UNCHANGED <<store, fix>>
      \/ DiagnoseFrom(d2, i, n)
  BY <1>1 DEF r, b
<1> HIDE DEF d2
<1>10. CASE doc' = d2 /\ Advanced(n) /\ UNCHANGED <<store, fix>>
  BY <1>8, <1>10, RunsOk DEF IInv
<1>11. CASE DiagnoseFrom(d2, i, n)
  <2>1. d2[i].lc \in Failed \cup {"blocked"}
    BY <1>6, <1>8 DEF Failed
  <2> QED
    BY <1>8, <1>11, <2>1, DiagnoseFromOk
<1> QED
  BY <1>9, <1>10, <1>11

\* Diagnosing a failed or blocked item preserves the invariant.
LEMMA DiagnoseAutocorrectOk ==
  ASSUME IInv, NEW i \in Items, DiagnoseAutocorrect(i)
  PROVE  IInv'
<1> DEFINE d == Inspected
<1>1. PICK kind \in Failed \cup {"blocked", "malformed"} :
        Selected(d, i, kind) /\ DiagnoseFrom(d, i, 0)
  BY DEF DiagnoseAutocorrect
<1>2. /\ d[i].lc = kind /\ kind # "malformed"
      /\ Sound(d, store)
  BY <1>1, SelectedFacts DEF Lifecycles
<1> HIDE DEF d
<1> QED
  BY <1>1, <1>2, DiagnoseFromOk

\* A review, whatever its answer, preserves the invariant.
LEMMA ReviewSubtaskOk ==
  ASSUME IInv, NEW i \in Items, ReviewSubtask(i)
  PROVE  IInv'
<1> DEFINE d == Inspected
           s == d[i]
           a == AfterApprovedReview(s)
           c == ForCorrection(s, s.task + 1)
           t == [store[i] EXCEPT !.open = IF @ > 0 THEN @ - 1 ELSE @]
           u == [store[i] EXCEPT !.used = @ + 1]
<1>1. PICK kind \in {"review_pending", "quality_gates_pending"} : Selected(d, i, kind)
  BY DEF ReviewSubtask
<1>2. /\ DocumentOk(s) /\ s.lc \in Executing
      /\ Sound(d, store) /\ s \in StateDocuments /\ store[i] \in Stores
  BY <1>1, SelectedFacts DEF Lifecycles, Executing
<1>3. \/ doc' = d /\ (SetAside(i, 0) \/ run' = Ended("failed")) /\ UNCHANGED <<store, fix>>
      \/ /\ doc' = [d EXCEPT ![i] = c] /\ store' = [store EXCEPT ![i].used = @ + 1]
         /\ Advanced(0) \/ Advanced(2)
         /\ UNCHANGED fix
      \/ /\ doc' = [d EXCEPT ![i] = a]
         /\ store' = [store EXCEPT ![i].open = IF @ > 0 THEN @ - 1 ELSE @]
         /\ AdvancedWithApproval(1) /\ UNCHANGED fix
      \/ \E n \in {1, 4}, lc \in {"blocked", "review_failed"} : Rejected(d, i, lc, n)
  BY DEF ReviewSubtask
<1>4. /\ [store EXCEPT ![i].used = @ + 1] = [store EXCEPT ![i] = u]
      /\ [store EXCEPT ![i].open = IF @ > 0 THEN @ - 1 ELSE @] = [store EXCEPT ![i] = t]
  BY DEF IInv, Sound
<1>5. t \in Stores /\ u \in Stores
  BY <1>2, BoundsAssumption DEF Stores
<1> HIDE DEF d
<1>6. DocumentOk(c) /\ c.lc = "correction_pending" /\ c.onFix = s.onFix
  <2>1. s.task + 1 \in Nat
    BY <1>2 DEF StateDocuments
  <2>2. DocumentOk(c)
    BY <1>2, <2>1, ForCorrectionOk
  <2> QED
    BY <1>2, <2>2 DEF ForCorrection, StateDocuments
<1>7. /\ DocumentOk(a) /\ a.lc = "formalized" /\ a.onFix = s.onFix
      /\ a.review = "approved" /\ a.gates = "passed"
  <2>1. DocumentOk(a)
    BY <1>2, AfterApprovedReviewOk
  <2> QED
    BY <1>2, <2>1 DEF AfterApprovedReview, StateDocuments
<1> HIDE DEF a, c, t, u
<1>8. Linked(c, u, i) /\ Linked(a, t, i)
  BY <1>6, <1>7 DEF Linked, ClosingOk, Planning
<1>9. CASE doc' = d /\ (SetAside(i, 0) \/ run' = Ended("failed")) /\ UNCHANGED <<store, fix>>
  BY <1>2, <1>9, RunsOk DEF IInv
<1>10. CASE /\ doc' = [d EXCEPT ![i] = c] /\ store' = [store EXCEPT ![i].used = @ + 1]
            /\ Advanced(0) \/ Advanced(2)
            /\ UNCHANGED fix
  <2>1. Sound([d EXCEPT ![i] = c], [store EXCEPT ![i] = u])
    BY <1>2, <1>5, <1>6, <1>8, SoundUpdate
  <2>2. Sound(doc', store')
    BY <1>4, <1>10, <2>1
  <2> QED
    BY <1>10, <2>2, RunsOk DEF IInv
<1>11. CASE /\ doc' = [d EXCEPT ![i] = a]
            /\ store' = [store EXCEPT ![i].open = IF @ > 0 THEN @ - 1 ELSE @]
            /\ AdvancedWithApproval(1) /\ UNCHANGED fix
  <2>1. Sound([d EXCEPT ![i] = a], [store EXCEPT ![i] = t])
    BY <1>2, <1>5, <1>7, <1>8, SoundUpdate
  <2>2. Sound(doc', store')
    BY <1>4, <1>11, <2>1
  <2> QED
    BY <1>11, <2>2, RunsOk DEF IInv
<1>12. ASSUME NEW n \in {1, 4}, NEW lc \in {"blocked", "review_failed"}, Rejected(d, i, lc, n)
       PROVE  IInv'
  BY <1>2, <1>12, RejectedOk
<1> QED
  BY <1>3, <1>9, <1>10, <1>11, <1>12

\* The ways a run ends without writing a document of its own, and how one starts.
LEMMA RunBoundsOk ==
  ASSUME IInv,
         \/ \E i \in Items : StepThrows(i)
         \/ StopStep \/ ControlledStop
         \/ \E loop \in LoopModes, target \in RunTargets : StartRun(loop, target)
         \/ InspectStatus
  PROVE  IInv'
<1>1. Sound(doc, store) /\ Sound(Inspected, store) /\ Sound(InspectAll(doc), store)
  BY SoundInspected DEF IInv
<1>2. UNCHANGED <<store, fix>> /\ doc' \in {doc, Inspected, InspectAll(doc)}
  BY DEF StepThrows, StopStep, ControlledStop, StartRun, InspectStatus
<1>3. ExitCode(run.aside) \in {"done", "needs_human"}
  BY DEF ExitCode
<1>4. \A exit \in {"none", "done", "needs_human", "failed", "stopped"} : Ended(exit) \in Runs
  BY BoundsAssumption DEF Ended, Runs
<1>5. ASSUME NEW loop \in LoopModes, NEW target \in RunTargets, StartRun(loop, target)
      PROVE  run' \in Runs
  BY <1>5, BoundsAssumption, ChoicesAssumption DEF StartRun, Runs
<1>6. run' \in Runs
  BY <1>3, <1>4, <1>5 DEF StepThrows, StopStep, ControlledStop, InspectStatus, IInv
<1>7. Sound(doc', store')
  BY <1>1, <1>2
<1> QED
  BY <1>2, <1>6, <1>7 DEF IInv

\* Writing a document between two runs, when every other item is just inspected.
LEMMA SoundBetweenRuns ==
  ASSUME IInv, NEW i \in Items, NEW s, DocumentOk(s), s.lc # "absent",
         NEW t \in Stores, Linked(s, t, i)
  PROVE  /\ s.onFix \in {NoFix, InspectAll(doc)[i].onFix} =>
              Sound([InspectAll(doc) EXCEPT ![i] = s], [store EXCEPT ![i] = t])
         /\ s.onFix \in {NoFix, doc[i].onFix} =>
              Sound([doc EXCEPT ![i] = s], [store EXCEPT ![i] = t])
BY SoundInspected, SoundUpdate DEF IInv

\* Turning a request into a specification preserves the invariant.
LEMMA FormalizeOk ==
  ASSUME IInv, NEW i \in Items, NEW n \in 0..MaxRequests, Formalize(i, n)
  PROVE  IInv'
<1> DEFINE t == IF i \in Features THEN [store[i] EXCEPT !.open = n, !.declared = n > 0]
                ELSE store[i]
<1>1. store \in [Items -> Stores] /\ store[i] \in Stores
  BY DEF IInv, Sound
<1>2. t \in Stores /\ (i \in Features => (t.declared => t.open # 0))
  <2>1. \A b \in BOOLEAN : /\ [store[i] EXCEPT !.open = n, !.declared = b] \in Stores
                          /\ [store[i] EXCEPT !.open = n, !.declared = b].declared = b
                          /\ [store[i] EXCEPT !.open = n, !.declared = b].open = n
    BY <1>1 DEF Stores
  <2>2. (n > 0) \in BOOLEAN
    OBVIOUS
  <2>3. (n > 0) => n # 0
    BY BoundsAssumption
  <2> DEFINE b == n > 0
  <2> HIDE DEF b
  <2>4. b \in BOOLEAN /\ (b => n # 0)
    BY <2>2, <2>3 DEF b
  <2>5. t = IF i \in Features THEN [store[i] EXCEPT !.open = n, !.declared = b] ELSE store[i]
    BY Zenon DEF b
  <2> HIDE DEF t
  <2> QED
    BY <1>1, <2>1, <2>4, <2>5
<1>3. store' = [store EXCEPT ![i] = t]
  BY <1>1 DEF Formalize
<1>4. fix' \in [Fixes -> FixRecords]
  <2>1. fix \in [Fixes -> FixRecords] /\ FixSeverities \subseteq Severities
    BY ChoicesAssumption DEF IInv, Severities
  <2> QED
    BY <2>1 DEF Formalize, FixRecords
<1>5. DocumentOk(Formalized) /\ Formalized.lc = "formalized" /\ Formalized.onFix = NoFix
  BY BlankOk DEF Formalized, Blank
<1> HIDE DEF t
<1>7. Linked(Formalized, t, i)
  BY <1>2, <1>5 DEF Linked, ClosingOk
<1>8. Sound([InspectAll(doc) EXCEPT ![i] = Formalized], [store EXCEPT ![i] = t])
  BY <1>2, <1>5, <1>7, SoundBetweenRuns
<1> QED
  BY <1>3, <1>4, <1>8 DEF Formalize, IInv

\* Confirming a specification preserves the invariant.
LEMMA ConfirmOk ==
  ASSUME IInv, NEW i \in Items, confirmFeatureValidation(i)
  PROVE  IInv'
<1> DEFINE s == Validated(doc[i])
<1>1. /\ DocumentOk(doc[i]) /\ doc[i] \in StateDocuments /\ store[i] \in Stores
      /\ Linked(doc[i], store[i], i)
  BY DEF IInv, Sound, DocsOk, DocumentOk
<1>2. doc[i].lc \in Planning
  BY <1>1 DEF confirmFeatureValidation, WorkItemInspectionKind, StateDocuments, Lifecycles,
              PendingSpecification, Planning, Executing, Failed
<1>3. InspectAll(doc)[i] = doc[i] /\ doc[i].lc # "absent"
  BY <1>1, <1>2 DEF InspectAll, Inspect, Planning
<1>4. DocumentOk(s)
  BY <1>1, <1>2, ValidatedOk
<1>5. /\ s.lc = doc[i].lc /\ s.onFix = doc[i].onFix
      /\ s.review = doc[i].review /\ s.gates = doc[i].gates
  BY <1>1 DEF Validated, StateDocuments
<1> HIDE DEF s
<1>6. Linked(s, store[i], i)
  BY <1>1, <1>5 DEF Linked, ClosingOk
<1>7. Sound([InspectAll(doc) EXCEPT ![i] = s], [store EXCEPT ![i] = store[i]])
  BY <1>1, <1>3, <1>4, <1>5, <1>6, SoundBetweenRuns
<1>8. store = [store EXCEPT ![i] = store[i]]
  BY DEF IInv, Sound
<1> QED
  BY <1>7, <1>8 DEF confirmFeatureValidation, IInv, s

\* What an exit is taken from is blocked, or its review failed: what a person is asked about,
\* and what a menu offers.
LEMMA OfferedFacts ==
  ASSUME IInv, NEW i \in Items
  PROVE  /\ doc[i] \in StateDocuments /\ store[i] \in Stores
         /\ InspectAll(doc)[i] \in StateDocuments /\ DocumentOk(InspectAll(doc)[i])
         /\ Sound(InspectAll(doc), store)
         /\ BlockedOnHuman(i) => /\ ~run.on /\ InspectAll(doc)[i] = doc[i]
                                 /\ doc[i].lc = "blocked" /\ doc[i].ack
         /\ \A exit : Offered(exit, i) =>
              ~run.on /\ InspectAll(doc)[i].lc \in Failed \cup {"blocked"}
<1>1. doc[i] \in StateDocuments /\ store[i] \in Stores /\ Sound(InspectAll(doc), store)
  BY SoundInspected DEF IInv, Sound, DocsOk
<1>2. DocumentOk(InspectAll(doc)[i]) /\ InspectAll(doc)[i] \in StateDocuments
  BY <1>1 DEF Sound, DocsOk
<1>3. BlockedOnHuman(i) => /\ ~run.on /\ doc[i].lc = "blocked" /\ doc[i].onFix = NoFix
                           /\ doc[i].ack
  BY <1>1 DEF BlockedOnHuman, WorkItemInspectionKind, StateDocuments, Lifecycles,
              PendingSpecification, Planning, Executing, Failed
<1>4. doc[i].onFix = NoFix => InspectAll(doc)[i] = doc[i]
  BY DEF InspectAll, Inspect
<1>5. \A exit : Offered(exit, i) =>
        ~run.on /\ InspectAll(doc)[i].lc \in Failed \cup {"blocked"}
  BY DEF Offered, Failed
<1> QED
  BY <1>1, <1>2, <1>3, <1>4, <1>5

\* Restoring an item from a menu or a card preserves the invariant, whatever it waits on.
LEMMA RestoringOk ==
  ASSUME IInv, NEW i \in Items, acknowledgeBlocker(i) \/ retryWithContext(i)
  PROVE  IInv'
<1> DEFINE d == InspectAll(doc)
           s == AfterHumanAcknowledged(d[i])
<1>1. /\ DocumentOk(d[i]) /\ d[i] \in StateDocuments /\ store[i] \in Stores
      /\ d[i].lc \in Failed \cup {"blocked"}
  BY OfferedFacts DEF acknowledgeBlocker, retryWithContext
<1>2. DocumentOk(s) /\ Linked(s, store[i], i)
  BY <1>1, RestoredOk, RestoredLinked
<1>3. s.onFix = d[i].onFix /\ s.lc # "absent"
  BY <1>1, TargetOfOk DEF AfterHumanAcknowledged, Restored, StateDocuments, Untouched,
                          PendingSpecification, Planning, Executing, Failed
<1>4. doc' = [d EXCEPT ![i] = s] /\ UNCHANGED <<store, fix, run>>
  <2>1. CASE acknowledgeBlocker(i)
    BY <2>1, OfferedFacts DEF acknowledgeBlocker
  <2>2. CASE retryWithContext(i)
    BY <2>2 DEF retryWithContext, InspectAll
  <2> QED
    BY <2>1, <2>2
<1> HIDE DEF s
<1>5. Sound([d EXCEPT ![i] = s], [store EXCEPT ![i] = store[i]])
  BY <1>1, <1>2, <1>3, SoundBetweenRuns
<1>6. store = [store EXCEPT ![i] = store[i]]
  BY DEF IInv, Sound
<1> QED
  BY <1>4, <1>5, <1>6 DEF IInv

\* Opening a fix from a conversation preserves the invariant.
LEMMA OpenFixOk ==
  ASSUME IInv, NEW i \in Items, openFixFromConversation(i)
  PROVE  IInv'
<1> DEFINE d == InspectAll(doc)
           s == [d[i] EXCEPT !.ack = FALSE]
<1>1. /\ Sound(d, store) /\ DocumentOk(d[i]) /\ d[i] \in StateDocuments /\ store[i] \in Stores
      /\ d[i].lc \in Failed \cup {"blocked"}
  BY OfferedFacts DEF openFixFromConversation
<1>2. PICK f \in Fixes : /\ RecordFix(d, f, "critical", <<"conversation", i>>)
                         /\ WaitOnFix(d, i, s, f)
  BY DEF openFixFromConversation
<1>3. /\ s = [d[i] EXCEPT !.ack = FALSE, !.onFix = d[i].onFix] /\ d[i].onFix \in Nat
      /\ s.lc = d[i].lc
  BY <1>1 DEF StateDocuments
<1>4. DocumentOk(s) /\ s.lc \notin {"absent"} \cup Planning
  BY <1>1, <1>3, WaitingOk DEF Failed, Planning
<1> HIDE DEF s, d
<1>5. Sound(doc', [store EXCEPT ![i] = store[i]])
  BY <1>1, <1>2, <1>4, SoundWait
<1>6. "critical" \in Severities /\ <<"conversation", i>> \in DefectSignatures
  BY DEF Severities, DefectSignatures
<1>7. fix' \in [Fixes -> FixRecords]
  BY <1>2, <1>6, RecordFixOk DEF IInv
<1>8. store = [store EXCEPT ![i] = store[i]]
  BY DEF IInv, Sound
<1> QED
  BY <1>5, <1>7, <1>8 DEF openFixFromConversation, IInv

\* Sending an item back to specification preserves the invariant.
LEMMA CorrectSpecificationOk ==
  ASSUME IInv, NEW i \in Items, correctSpecification(i)
  PROVE  IInv'
<1> DEFINE d == InspectAll(doc)
           s == SpecificationInvalidated(d[i])
           t == [store[i] EXCEPT !.open = 0]
<1>1. /\ DocumentOk(d[i]) /\ d[i] \in StateDocuments /\ store[i] \in Stores
      /\ d[i].lc \in Failed \cup {"blocked"}
  BY OfferedFacts DEF correctSpecification
<1>2. DocumentOk(s)
  BY <1>1, SpecificationInvalidatedOk
<1>3. s.lc = "formalization_pending" /\ s.onFix = d[i].onFix
  BY <1>1 DEF SpecificationInvalidated, StateDocuments
<1>4. t \in Stores
  BY <1>1, BoundsAssumption DEF Stores
<1>5. doc' = [d EXCEPT ![i] = s] /\ store' = [store EXCEPT ![i] = t] /\ UNCHANGED <<fix, run>>
  BY DEF correctSpecification, InspectAll
<1> HIDE DEF s, t
<1>6. Linked(s, t, i)
  BY <1>3 DEF Linked, ClosingOk, Planning
<1>7. Sound([d EXCEPT ![i] = s], [store EXCEPT ![i] = t])
  BY <1>2, <1>3, <1>4, <1>6, SoundBetweenRuns
<1> QED
  BY <1>5, <1>7 DEF IInv

\* Completing a fix by hand preserves the invariant.
LEMMA CompleteByHandOk ==
  ASSUME IInv, NEW i \in Fixes, CompleteFixByHand(i)
  PROVE  IInv'
<1> DEFINE s == AfterCompletion(doc[i])
<1>1. i \in Items /\ DocumentOk(doc[i]) /\ doc[i] \in StateDocuments /\ store[i] \in Stores
  BY ItemsAreNumbers DEF IInv, Sound, DocsOk, DocumentOk
<1>2. doc[i].lc \in Planning /\ doc[i].val = "confirmed"
  BY <1>1 DEF CompleteFixByHand, isStartable, WorkItemInspectionKind, StateDocuments,
              Lifecycles, PendingSpecification, Planning, Executing, Failed
<1>4. DocumentOk(s)
  BY <1>1, <1>2, AfterCompletionOk
<1>5. s.lc = "completed" /\ s.onFix = doc[i].onFix
  BY <1>1 DEF AfterCompletion, StateDocuments
<1> HIDE DEF s
<1>6. Linked(s, store[i], i)
  BY <1>5 DEF Linked, ClosingOk, Planning
<1>7. Sound([doc EXCEPT ![i] = s], [store EXCEPT ![i] = store[i]])
  BY <1>1, <1>4, <1>5, <1>6, SoundBetweenRuns
<1>8. store = [store EXCEPT ![i] = store[i]]
  BY DEF IInv, Sound
<1> QED
  BY <1>7, <1>8 DEF CompleteFixByHand, IInv, s

(***************************************************************************)
(* The invariant.                                                          *)
(***************************************************************************)
\* The invariant holds initially.
LEMMA InitOk == Init => IInv
<1> SUFFICES ASSUME Init PROVE IInv
  OBVIOUS
<1>1. \A i \in Items : DocumentOk(doc[i]) /\ doc[i].onFix = NoFix
                       /\ doc[i].lc \notin Planning
  BY BlankOk DEF Init, Blank, Planning
<1>2. store \in [Items -> Stores] /\ fix \in [Fixes -> FixRecords]
  BY BoundsAssumption DEF Init, NewStore, Stores, NoSignature, FixRecords, Severities,
                          DefectSignatures
<1>3. run \in Runs
  BY BoundsAssumption DEF Init, Ended, Runs
<1>4. DocsOk(doc)
  BY <1>1 DEF Init, DocsOk, WaitOk, DocumentOk
<1>5. \A i \in Items : Linked(doc[i], store[i], i)
  BY <1>1 DEF Linked, ClosingOk
<1> QED
  BY <1>2, <1>3, <1>4, <1>5 DEF IInv, Sound

\* Every step preserves the invariant.
LEMMA NextOk == IInv /\ [Next]_vars => IInv'
<1> SUFFICES ASSUME IInv, [Next]_vars PROVE IInv'
  OBVIOUS
<1>1. ASSUME NEW i \in Items, StepOf(i) PROVE IInv'
  BY <1>1, PlanTaskOk, AttemptCompletionOk, PlanFixTaskOk, PlanSubtaskOk, ImplementSubtaskOk,
     InterruptImplementationOk, ReviewSubtaskOk, DiagnoseAutocorrectOk, RunBoundsOk DEF StepOf
<1>2. CASE RunStep
  BY <1>1, <1>2, RunBoundsOk DEF RunStep
<1>3. CASE BetweenRuns
  <2>1. ASSUME NEW i \in Items, confirmFeatureValidation(i) \/ HumanExit(i) PROVE IInv'
    BY <2>1, ConfirmOk, RestoringOk, OpenFixOk, CorrectSpecificationOk DEF HumanExit
  <2> QED
    BY <1>3, <2>1, RunBoundsOk, FormalizeOk, CompleteByHandOk DEF BetweenRuns
<1>4. CASE UNCHANGED vars
  BY <1>4 DEF vars, IInv
<1> QED
  BY <1>2, <1>3, <1>4 DEF Next

\* The inductive invariant holds of every reachable state.
THEOREM Invariant == Spec => []IInv
<1>1. Init => IInv
  BY InitOk
<1>2. IInv /\ [Next]_vars => IInv'
  BY NextOk
<1> QED
  BY <1>1, <1>2, PTL DEF Spec

\* Every document, store, fix record and run stays well typed: no writer of the loop or of
\* a human exit writes a state the next inspection could not read.
THEOREM TypeCorrectness == Spec => []TypeOk
<1>1. IInv => TypeOk
  BY DEF IInv, Sound, DocsOk, TypeOk
<1> QED
  BY <1>1, Invariant, PTL

\* A blocked or failed item, a correction and a review always have their anchor, and so has
\* whatever resuming the item writes, in any order of failures, blocks and restorations.
THEOREM Restoration == Spec => []RestorationIsRunnable
<1>1. ASSUME NEW s, DocumentOk(s) PROVE ~MissingPointer(s)
  BY <1>1 DEF DocumentOk, MissingPointer
<1>2. ASSUME NEW s, DocumentOk(s), s.lc \in Failed \cup {"blocked"}
      PROVE  ~MissingPointer(Restored(s))
  <2> DEFINE r == Restored(s)
             target == preferredRestorationTarget(s)
  <2>1. TargetOk(target) /\ target # NoTarget
    BY <1>2, TargetOfOk DEF Untouched, PendingSpecification, Failed
  <2>2. r.lc = target.lc /\ r.task = target.task /\ r.corr = target.corr
    BY <1>2 DEF Restored, DocumentOk, StateDocuments
  <2> HIDE DEF r, target
  <2>3. ~MissingPointer(r)
    BY <2>1, <2>2 DEF MissingPointer, TargetOk
  <2> QED
    BY <2>3 DEF r
<1>3. IInv => RestorationIsRunnable
  BY <1>1, <1>2 DEF IInv, Sound, DocsOk, RestorationIsRunnable
<1> QED
  BY <1>3, Invariant, PTL

\* Nothing is worked on without a confirmed specification, however it got there.
THEOREM Validation == Spec => []WorkIsValidated
<1>1. IInv => WorkIsValidated
  BY DEF IInv, Sound, DocsOk, DocumentOk, WorkIsValidated, Untouched
<1> QED
  BY <1>1, Invariant, PTL

\* Between two tasks no pointer of the last one is left.
THEOREM NoOrphans == Spec => []NoOrphanedTask
<1>1. IInv => NoOrphanedTask
  BY DEF IInv, Sound, DocsOk, DocumentOk, NoOrphanedTask
<1> QED
  BY <1>1, Invariant, PTL

\* A rejection on record always has its correction pending.
THEOREM ReviewConsistency == Spec => []ReviewConsistent
<1>1. IInv => ReviewConsistent
  BY DEF IInv, Sound, DocsOk, DocumentOk, ReviewConsistent
<1> QED
  BY <1>1, Invariant, PTL

(***************************************************************************)
(* What a step leaves alone.                                               *)
(***************************************************************************)

\* Item j is a fix that did not exist and has been filed.
NewFix(d, j) == d[j].lc = "absent" /\ doc'[j] = Filed

\* A diagnosis writes the item it diagnoses, and a fix that did not exist.
LEMMA DiagnoseFrame ==
  ASSUME NEW d, d = [j \in Items |-> d[j]], NEW i \in Items, NEW n0 \in Nat,
         DiagnoseFrom(d, i, n0)
  PROVE  \A j \in Items : j # i => doc'[j] = d[j] \/ NewFix(d, j)
BY DEF DiagnoseFrom, CorrectState, WaitOnFix, NewFix

\* A step writes the item it was selected for, and a fix that did not exist; everything else
\* is as inspection left it.
LEMMA StepFrame ==
  ASSUME IInv, NEW i \in Items, StepOf(i)
  PROVE  /\ run.on /\ ~aiBudgetReached
         /\ selectable(i) /\ IsNext(Inspected, i)
         /\ Inspected[i].lc \notin {"absent", "completed"} \cup PendingSpecification
         /\ Inspected[i].lc = "blocked" => Inspected[i].onFix = NoFix /\ ~Inspected[i].ack
         /\ \A j \in Items : j # i => doc'[j] = Inspected[j] \/ NewFix(Inspected, j)
<1> DEFINE d == Inspected
<1>1. PICK kind \in Lifecycles \cup {"malformed"} : Selected(d, i, kind)
  BY DEF StepOf, PlanTask, AttemptCompletion, PlanFixTask, PlanSubtask, ImplementSubtask,
         InterruptImplementation, ReviewSubtask, DiagnoseAutocorrect, StepThrows,
         Lifecycles, Executing
<1>2. /\ d[i].lc = kind /\ d \in [Items -> StateDocuments]
      /\ kind = "blocked" => d[i].onFix = NoFix /\ ~d[i].ack
  BY <1>1, SelectedFacts DEF Sound, DocsOk
<1>3. /\ run.on /\ ~aiBudgetReached /\ WorkItemInspectionKind(d[i]) = kind
      /\ selectable(i) /\ (isContinuing(d[i]) \/ isStartable(d[i])) /\ IsNext(d, i)
  BY <1>1 DEF Selected, IsNext, Candidate
<1>4. kind \notin {"absent", "completed"} \cup PendingSpecification
  BY <1>3 DEF isContinuing, isStartable, PendingSpecification, Planning
<1> HIDE DEF d
<1>5. ASSUME NEW n \in Nat, DiagnoseFrom(d, i, n)
      PROVE  \A j \in Items : j # i => doc'[j] = d[j] \/ NewFix(d, j)
  BY <1>2, <1>5, DiagnoseFrame
<1>6. ASSUME NEW lc, NEW n \in Nat, Rejected(d, i, lc, n)
      PROVE  \A j \in Items : j # i => doc'[j] = d[j] \/ NewFix(d, j)
  <2>1. PICK r : \/ doc' = [d EXCEPT ![i] = r]
                 \/ DiagnoseFrom([d EXCEPT ![i] = r], i, n)
    BY <1>6 DEF Rejected
  <2> DEFINE d2 == [d EXCEPT ![i] = r]
  <2>2. \A j \in Items : j # i => d2[j] = d[j]
    BY <1>2
  <2>3. CASE doc' = d2
    BY <2>2, <2>3
  <2>4. CASE DiagnoseFrom(d2, i, n)
    <3>1. d2 = [j \in Items |-> d2[j]]
      BY <1>2
    <3> HIDE DEF d2
    <3> QED
      BY <2>2, <2>4, <3>1, DiagnoseFrame DEF NewFix
  <2> QED
    BY <2>1, <2>3, <2>4
<1>7. \A j \in Items : j # i => doc'[j] = d[j] \/ NewFix(d, j)
  <2>1. CASE PlanTask(i) \/ AttemptCompletion(i) \/ PlanFixTask(i) \/ PlanSubtask(i)
    BY <1>2, <2>1 DEF PlanTask, AttemptCompletion, PlanFixTask, PlanSubtask, d
  <2>2. CASE ImplementSubtask(i) \/ InterruptImplementation(i)
    BY <1>2, <2>2 DEF ImplementSubtask, InterruptImplementation, WaitOnFix, NewFix, d
  <2>3. CASE ReviewSubtask(i)
    <3>1. \/ doc' = d
          \/ \E r : doc' = [d EXCEPT ![i] = r]
          \/ \E n \in {1, 4}, lc \in {"blocked", "review_failed"} : Rejected(d, i, lc, n)
      BY <2>3 DEF ReviewSubtask, d
    <3> QED
      BY <1>2, <1>6, <3>1
  <2>4. CASE DiagnoseAutocorrect(i)
    BY <1>5, <2>4 DEF DiagnoseAutocorrect, d
  <2>5. CASE StepThrows(i)
    BY <2>5 DEF StepThrows, d
  <2> QED
    BY <2>1, <2>2, <2>3, <2>4, <2>5 DEF StepOf
<1> QED
  BY <1>2, <1>3, <1>4, <1>7 DEF d

\* What inspection may change, and what comes of it.
LEMMA InspectFacts ==
  ASSUME IInv, NEW j \in Items
  PROVE  /\ Inspected[j] = doc[j] \/ (selectable(j) /\ Inspected[j] = Inspect(doc, j))
         /\ InspectAll(doc)[j] = Inspect(doc, j)
         /\ doc[j] \in StateDocuments
         /\ Inspect(doc, j) # doc[j] =>
              /\ doc[j].lc = "blocked" /\ doc[j].onFix # NoFix
              /\ doc[doc[j].onFix].lc = "completed"
              /\ doc[j].from.lc # "none" =>
                   /\ Inspect(doc, j).lc = doc[j].from.lc
                   /\ Inspect(doc, j).task = doc[j].from.task
              /\ Inspect(doc, j).lc \notin {"absent", "completed"}
         /\ Inspect(doc, j).ack = doc[j].ack /\ Inspected[j].ack = doc[j].ack
         /\ doc[j].lc # "absent" => Inspected[j].lc # "absent" /\ Inspect(doc, j).lc # "absent"
<1>1. Inspected[j] = doc[j] \/ (selectable(j) /\ Inspected[j] = Inspect(doc, j))
  BY DEF Inspected
<1>2. InspectAll(doc)[j] = Inspect(doc, j)
  BY DEF InspectAll
<1>3. DocumentOk(doc[j]) /\ doc[j] \in StateDocuments
  BY DEF IInv, Sound, DocsOk, DocumentOk
<1>4. ASSUME Inspect(doc, j) # doc[j]
      PROVE  /\ doc[j].lc = "blocked" /\ doc[j].onFix # NoFix
             /\ doc[doc[j].onFix].lc = "completed"
             /\ doc[j].from.lc # "none" =>
                  /\ Inspect(doc, j).lc = doc[j].from.lc
                  /\ Inspect(doc, j).task = doc[j].from.task
             /\ Inspect(doc, j).lc \notin {"absent", "completed"}
             /\ Inspect(doc, j).ack = doc[j].ack
  <2>1. /\ doc[j].lc = "blocked" /\ doc[j].onFix # NoFix /\ isFixResolved(doc, doc[j].onFix)
        /\ Inspect(doc, j) = AfterFixResolved(doc[j])
    BY <1>4 DEF Inspect
  <2>2. doc[j].from.lc # "none" => preferredRestorationTarget(doc[j]) = doc[j].from
    BY DEF preferredRestorationTarget
  <2>3. /\ AfterFixResolved(doc[j]).lc = preferredRestorationTarget(doc[j]).lc
        /\ AfterFixResolved(doc[j]).task = preferredRestorationTarget(doc[j]).task
        /\ AfterFixResolved(doc[j]).ack = doc[j].ack
    BY <1>3 DEF AfterFixResolved, Restored, StateDocuments
  <2>4. preferredRestorationTarget(doc[j]).lc \notin {"absent", "completed"}
    BY <1>3, <2>1, TargetOfOk DEF Untouched, PendingSpecification, Planning, Executing
  <2> QED
    BY <2>1, <2>2, <2>3, <2>4 DEF isFixResolved
<1>5. doc[j].lc # "absent" => Inspected[j].lc # "absent" /\ Inspect(doc, j).lc # "absent"
  BY <1>1, <1>4
<1> QED
  BY <1>1, <1>2, <1>3, <1>4, <1>5

\* The documents of a run's step: the selected item, what inspection resumed, a new fix.
LEMMA RunStepFrame ==
  ASSUME IInv, RunStep, NEW j \in Items, doc[j].lc # "absent", doc'[j] # doc[j]
  PROVE  /\ run.on /\ selectable(j)
         /\ \/ /\ doc[j].lc \notin {"absent", "completed"} \cup PendingSpecification
               /\ doc[j].lc = "blocked" => doc[j].onFix = NoFix /\ ~doc[j].ack
            \/ Inspect(doc, j) # doc[j]
<1>1. CASE \E i \in Items : StepOf(i)
  <2>1. PICK i \in Items : StepOf(i)
    BY <1>1
  <2>2. CASE i = j
    BY <2>1, <2>2, StepFrame, InspectFacts
  <2>3. CASE i # j
    BY <2>1, <2>3, StepFrame, InspectFacts DEF NewFix
  <2> QED
    BY <2>2, <2>3
<1>2. CASE StopStep
  BY <1>2, InspectFacts DEF StopStep
<1>3. CASE ControlledStop
  BY <1>3 DEF ControlledStop
<1> QED
  BY <1>1, <1>2, <1>3 DEF RunStep

\* What is written between two runs: the item a person specifies, validates or closes, the
\* one an exit is taken for, what inspection resumed, a new fix.
LEMMA BetweenRunsFrame ==
  ASSUME IInv, BetweenRuns, NEW j \in Items, doc[j].lc # "absent", doc'[j] # doc[j]
  PROVE  /\ ~run.on
         /\ \/ doc[j].lc \notin {"completed", "blocked"}
            \/ doc'[j] = Inspect(doc, j)
            \/ HumanExit(j)
<1> DEFINE Framed == /\ ~run.on
                     /\ \/ doc[j].lc \notin {"completed", "blocked"}
                        \/ doc'[j] = Inspect(doc, j)
                        \/ HumanExit(j)
<1>1. CASE \E loop \in LoopModes, target \in RunTargets : StartRun(loop, target)
  BY <1>1 DEF StartRun
<1>2. CASE InspectStatus
  BY <1>2, InspectFacts DEF InspectStatus
<1>3. CASE \E f \in Fixes : CompleteFixByHand(f)
  <2>1. PICK f \in Fixes : CompleteFixByHand(f)
    BY <1>3
  <2>2. ~run.on /\ isStartable(doc[f]) /\ doc' = [doc EXCEPT ![f] = AfterCompletion(doc[f])]
    BY <2>1 DEF CompleteFixByHand
  <2>3. f = j
    BY <2>2 DEF IInv, Sound, DocsOk
  <2>4. doc[j].lc \in Planning
    BY <2>2, <2>3 DEF isStartable, WorkItemInspectionKind, Planning
  <2> QED
    BY <2>2, <2>4 DEF Planning
<1>4. ASSUME NEW i \in Items, NEW n \in 0..MaxRequests, Formalize(i, n) PROVE Framed
  <2>1. /\ ~run.on /\ doc[i].lc \in PendingSpecification
        /\ doc' = [InspectAll(doc) EXCEPT ![i] = Formalized]
    BY <1>4 DEF Formalize
  <2> QED
    BY <2>1 DEF InspectAll, PendingSpecification
<1>5. ASSUME NEW i \in Items, confirmFeatureValidation(i) PROVE Framed
  <2>1. /\ ~run.on /\ WorkItemInspectionKind(doc[i]) = "awaiting_validation"
        /\ doc' = [InspectAll(doc) EXCEPT ![i] = Validated(doc[i])]
    BY <1>5 DEF confirmFeatureValidation
  <2>2. doc[i].lc \in Lifecycles
    BY DEF IInv, Sound, DocsOk, StateDocuments
  <2>3. doc[i].lc \in Planning
    BY <2>1, <2>2 DEF WorkItemInspectionKind, Lifecycles, PendingSpecification, Planning,
                      Executing, Failed
  <2> QED
    BY <2>1, <2>3 DEF InspectAll, Planning
<1>6. ASSUME NEW i \in Items, HumanExit(i) PROVE Framed
  <2>1. ~run.on
    BY <1>6, OfferedFacts DEF HumanExit, acknowledgeBlocker, retryWithContext,
                              openFixFromConversation, correctSpecification
  <2>2. j # i => doc'[j] = Inspect(doc, j) \/ Inspect(doc, j).lc = "absent"
    BY <1>6 DEF HumanExit, acknowledgeBlocker, retryWithContext, openFixFromConversation,
                correctSpecification, WaitOnFix, InspectAll
  <2> QED
    BY <1>6, <2>1, <2>2, InspectFacts
<1> QED
  BY <1>1, <1>2, <1>3, <1>4, <1>5, <1>6 DEF BetweenRuns

\* No step of a run touches an item that waits for a person, unless it still names a fix and
\* that fix is completed.
THEOREM HumansGate == Spec => HumanGate
<1>1. IInv /\ [Next]_vars =>
        [run.on => \A i \in Items : doc[i].lc = "blocked" /\ doc[i].ack /\ doc'[i] # doc[i] =>
           doc[i].onFix # NoFix /\ doc[doc[i].onFix].lc = "completed"]_vars
  <2> SUFFICES ASSUME IInv, Next, run.on, NEW i \in Items, doc[i].lc = "blocked", doc[i].ack,
                      doc'[i] # doc[i]
               PROVE  doc[i].onFix # NoFix /\ doc[doc[i].onFix].lc = "completed"
    BY DEF vars
  <2>1. RunStep
    BY BetweenRunsFrame DEF Next
  <2> QED
    BY <2>1, RunStepFrame, InspectFacts
<1> QED
  BY <1>1, Invariant, PTL DEF Spec, HumanGate

\* A run writes only what it may select, and never what it set aside.
THEOREM Scope == Spec => RunScope
<1>1. IInv /\ [Next]_vars =>
        [run.on => \A i \in Items : ~selectable(i) /\ doc[i].lc # "absent"
                                      => doc'[i] = doc[i]]_vars
  BY RunStepFrame, BetweenRunsFrame DEF Next, vars
<1> QED
  BY <1>1, Invariant, PTL DEF Spec, RunScope

\* Nothing a run does reopens a completed item.
THEOREM Finality == Spec => CompletionIsFinal
<1>1. IInv /\ [Next]_vars =>
        [run.on => \A i \in Items : doc[i].lc = "completed" => doc'[i] = doc[i]]_vars
  <2> SUFFICES ASSUME IInv, Next, run.on, NEW i \in Items, doc[i].lc = "completed",
                      doc'[i] # doc[i]
               PROVE  FALSE
    BY DEF vars
  <2> QED
    BY RunStepFrame, BetweenRunsFrame, InspectFacts DEF Next
<1> QED
  BY <1>1, Invariant, PTL DEF Spec, CompletionIsFinal

(***************************************************************************)
(* Completion and the start of new work.                                   *)
(***************************************************************************)

\* A block, marked or waiting or neither, is not a completion.
LEMMA BlockLifecycle ==
  ASSUME NEW s \in StateDocuments, NEW b, NEW lc, NEW k, NEW recov, NEW why, NEW f
  PROVE  /\ ForBlocked(s, b, lc).lc = lc
         /\ [ForBlocked(s, b, lc) EXCEPT !.ack = TRUE].lc = lc
         /\ recordBlockedFeature(s, k, recov, why).lc = "blocked"
         /\ [recordBlockedFeature(s, k, recov, why) EXCEPT !.ack = TRUE].lc = "blocked"
         /\ [recordBlockedFeature(s, k, recov, why) EXCEPT !.onFix = f].lc = "blocked"
BY DEF ForBlocked, recordBlockedFeature, StateDocuments

\* An item that starts to wait on a fix is blocked.
LEMMA WaitLifecycle ==
  ASSUME NEW d, NEW i \in Items, NEW s \in StateDocuments, NEW k, NEW recov, NEW why, NEW f,
         WaitOnFix(d, i, recordBlockedFeature(s, k, recov, why), f)
  PROVE  doc'[i].lc = "blocked"
<1>1. doc'[i] = [recordBlockedFeature(s, k, recov, why) EXCEPT !.onFix = f]
  BY DEF WaitOnFix
<1> QED
  BY <1>1, BlockLifecycle

\* What a diagnosis writes of the item, whatever it decides.
LEMMA DiagnoseWrites ==
  ASSUME NEW i, NEW d, NEW n0, DiagnoseFrom(d, i, n0)
  PROVE  \/ doc' = d
         \/ doc' = [d EXCEPT ![i] = [ForBlocked(d[i], [BlockerOf(d[i]) EXCEPT !.recov = "human"],
                                                "blocked") EXCEPT !.ack = TRUE]]
         \/ \E a : doc' = [d EXCEPT ![i] = AfterStateCorrection(d[i], a)]
         \/ \E k, recov, why :
              \/ doc' = [d EXCEPT ![i] = recordBlockedFeature(d[i], k, recov, why)]
              \/ doc' = [d EXCEPT ![i] = [recordBlockedFeature(d[i], k, recov, why)
                                            EXCEPT !.ack = TRUE]]
              \/ \E f : WaitOnFix(d, i, recordBlockedFeature(d[i], k, recov, why), f)
BY DEF DiagnoseFrom, CorrectState

\* A diagnosis leaves the item blocked or failed.
LEMMA DiagnoseLifecycle ==
  ASSUME NEW i \in Items, NEW d, d = [j \in Items |-> d[j]], d[i] \in StateDocuments,
         d[i].lc \in Failed \cup {"blocked"}, NEW n0 \in Nat, DiagnoseFrom(d, i, n0)
  PROVE  doc'[i].lc \in Failed \cup {"blocked"}
<1>1. \/ doc' = d
      \/ \E b : doc' = [d EXCEPT ![i] = [ForBlocked(d[i], b, "blocked") EXCEPT !.ack = TRUE]]
      \/ \E a : doc' = [d EXCEPT ![i] = AfterStateCorrection(d[i], a)]
      \/ \E k, recov, why :
           \/ doc' = [d EXCEPT ![i] = recordBlockedFeature(d[i], k, recov, why)]
           \/ doc' = [d EXCEPT ![i] = [recordBlockedFeature(d[i], k, recov, why)
                                         EXCEPT !.ack = TRUE]]
           \/ \E f : WaitOnFix(d, i, recordBlockedFeature(d[i], k, recov, why), f)
  BY DiagnoseWrites
<1>2. ASSUME NEW r, doc' = [d EXCEPT ![i] = r] PROVE doc'[i] = r
  BY <1>2
<1>3. CASE doc' = d
  BY <1>3
<1>4. CASE \E b : doc' = [d EXCEPT ![i] = [ForBlocked(d[i], b, "blocked") EXCEPT !.ack = TRUE]]
  <2>1. \A b : [ForBlocked(d[i], b, "blocked") EXCEPT !.ack = TRUE].lc = "blocked"
    BY BlockLifecycle
  <2> QED
    BY <1>2, <1>4, <2>1
<1>5. CASE \E a : doc' = [d EXCEPT ![i] = AfterStateCorrection(d[i], a)]
  <2>1. \A a : AfterStateCorrection(d[i], a).lc = d[i].lc
    BY DEF AfterStateCorrection, StateDocuments
  <2> QED
    BY <1>2, <1>5, <2>1
<1>6. ASSUME NEW k, NEW recov, NEW why,
             \/ doc' = [d EXCEPT ![i] = recordBlockedFeature(d[i], k, recov, why)]
             \/ doc' = [d EXCEPT ![i] = [recordBlockedFeature(d[i], k, recov, why)
                                           EXCEPT !.ack = TRUE]]
             \/ \E f : WaitOnFix(d, i, recordBlockedFeature(d[i], k, recov, why), f)
      PROVE  doc'[i].lc = "blocked"
  <2> DEFINE r == recordBlockedFeature(d[i], k, recov, why)
  <2>1. r.lc = "blocked" /\ [r EXCEPT !.ack = TRUE].lc = "blocked"
    BY BlockLifecycle
  <2>2. (\E f : WaitOnFix(d, i, r, f)) => doc'[i].lc = "blocked"
    BY WaitLifecycle
  <2> HIDE DEF r
  <2>3. \/ doc' = [d EXCEPT ![i] = r]
        \/ doc' = [d EXCEPT ![i] = [r EXCEPT !.ack = TRUE]]
        \/ \E f : WaitOnFix(d, i, r, f)
    BY <1>6 DEF r
  <2> QED
    BY <1>2, <2>1, <2>2, <2>3
<1> QED
  BY <1>1, <1>3, <1>4, <1>5, <1>6

\* Item i is given the state r, and may be diagnosed at once.
RejectedTo(d, i, n, r) ==
  LET d2 == [d EXCEPT ![i] = r]
  IN  /\ d2 = [j \in Items |-> d2[j]] /\ d2[i] = r
      /\ doc' = d2 \/ DiagnoseFrom(d2, i, n)

\* A rejection records a block, or a failed review, and may be diagnosed at once.
LEMMA RejectedFrom ==
  ASSUME NEW i \in Items, NEW d, Sound(d, store), NEW n \in Nat, d[i].lc \in Executing,
         NEW lc \in {"blocked", "review_failed"}, Rejected(d, i, lc, n)
  PROVE  \E r \in StateDocuments :
           r.lc = lc /\ r.ack = d[i].ack /\ RejectedTo(d, i, n, r)
<1> DEFINE s == d[i]
<1>1. PICK k \in TextKinds, recov \in TextRecoverabilities, why \in ReviewReasons :
        LET d2 == [d EXCEPT ![i] = ForBlocked(s, Profile(s, k, recov, why), lc)]
        IN  doc' = d2 \/ DiagnoseFrom(d2, i, n)
  BY DEF Rejected
<1> DEFINE b == Profile(s, k, recov, why)
           r == ForBlocked(s, b, lc)
           d2 == [d EXCEPT ![i] = r]
<1>2. DocumentOk(s) /\ s \in StateDocuments /\ d \in [Items -> StateDocuments]
  BY DEF Sound, DocsOk, DocumentOk
<1>3. s.lc \notin Untouched \cup {"completed"} /\ s.lc \notin Planning
  BY DEF Executing, Untouched, PendingSpecification, Planning
<1>4. s.val = "confirmed"
  BY <1>2, <1>3 DEF DocumentOk
<1>5. b \in Blockers
  BY <1>2, ChoicesAssumption DEF Profile, Blockers, StateDocuments, Reasons, NoTask
<1> HIDE DEF b
<1>6. DocumentOk(r) /\ r.lc = lc
  BY <1>2, <1>3, <1>4, <1>5, ForBlockedOk
<1>7. r.ack = s.ack
  BY <1>2 DEF ForBlocked, StateDocuments
<1> HIDE DEF r
<1>8. d2 = [j \in Items |-> d2[j]] /\ d2[i] = r /\ r \in StateDocuments
  BY <1>2, <1>6 DEF DocumentOk
<1>9. doc' = d2 \/ DiagnoseFrom(d2, i, n)
  BY <1>1 DEF r, b
<1>10. RejectedTo(d, i, n, r)
  BY <1>8, <1>9 DEF RejectedTo
<1> QED
  BY <1>6, <1>7, <1>8, <1>10

\* So a rejection, diagnosed at once or not, leaves the item blocked or failed.
LEMMA RejectedLifecycle ==
  ASSUME NEW i \in Items, NEW d, Sound(d, store), NEW n \in Nat, d[i].lc \in Executing,
         NEW lc \in {"blocked", "review_failed"}, Rejected(d, i, lc, n)
  PROVE  doc'[i].lc \in Failed \cup {"blocked"}
<1>1. PICK r \in StateDocuments : r.lc = lc /\ RejectedTo(d, i, n, r)
  BY RejectedFrom
<1> DEFINE d2 == [d EXCEPT ![i] = r]
<1>2. d2 = [j \in Items |-> d2[j]] /\ d2[i] = r /\ (doc' = d2 \/ DiagnoseFrom(d2, i, n))
  BY <1>1 DEF RejectedTo
<1> HIDE DEF d2
<1> QED
  BY <1>1, <1>2, DiagnoseLifecycle DEF Failed

(***************************************************************************)
(* Who asks for a person.                                                  *)
(***************************************************************************)

\* Item i asks for a person, with its block on record and a diagnosis tried.
Marked(i) ==
  /\ doc'[i].ack /\ doc'[i].lc = "blocked" /\ doc'[i].by # NoBlocker
  /\ store'[i].diagnosed # NoSignature

\* Blocking keeps the marker, and marking a block keeps what it records.
LEMMA BlockAck ==
  ASSUME NEW s \in StateDocuments, NEW b, NEW lc, NEW k, NEW recov, NEW why, NEW f
  PROVE  /\ ForBlocked(s, b, lc).ack = s.ack
         /\ LET m == [ForBlocked(s, b, lc) EXCEPT !.ack = TRUE]
            IN  m.ack /\ m.lc = lc /\ m.by = b
         /\ LET r == recordBlockedFeature(s, k, recov, why)
                m == [r EXCEPT !.ack = TRUE]
            IN  /\ r.ack = s.ack /\ [r EXCEPT !.onFix = f].ack = s.ack
                /\ m.ack /\ m.lc = "blocked" /\ m.by # NoBlocker
<1>1. Profile(s, k, recov, why) # NoBlocker
  BY DEF Profile, NoBlocker
<1> QED
  BY <1>1 DEF ForBlocked, recordBlockedFeature, StateDocuments

\* A diagnosis keeps the marker, or sets it once it is on record that it was tried.
LEMMA DiagnoseAck ==
  ASSUME NEW i \in Items, NEW d, d = [j \in Items |-> d[j]], d[i] \in StateDocuments,
         store \in [Items -> Stores], NEW n0 \in Nat, DiagnoseFrom(d, i, n0)
  PROVE  doc'[i].ack = d[i].ack \/ Marked(i)
<1> DEFINE s == d[i]
           p == BlockerOf(s)
           b == [p EXCEPT !.recov = "human"]
<1>1. p \in Blockers /\ Signature(p) # NoSignature /\ b # NoBlocker
  BY BlockerOfOk DEF Blockers, BlockerKinds, NoBlocker
<1>2. store'[i].diagnosed = Signature(p)
  BY DEF DiagnoseFrom, CorrectState, Stores
<1>3. store'[i].diagnosed # NoSignature
  BY <1>1, <1>2
<1>4. \/ doc' = d
      \/ doc' = [d EXCEPT ![i] = [ForBlocked(s, b, "blocked") EXCEPT !.ack = TRUE]]
      \/ \E a : doc' = [d EXCEPT ![i] = AfterStateCorrection(s, a)]
      \/ \E k, recov, why :
           \/ doc' = [d EXCEPT ![i] = recordBlockedFeature(s, k, recov, why)]
           \/ doc' = [d EXCEPT ![i] = [recordBlockedFeature(s, k, recov, why)
                                         EXCEPT !.ack = TRUE]]
           \/ \E f : WaitOnFix(d, i, recordBlockedFeature(s, k, recov, why), f)
  BY DiagnoseWrites
<1>5. ASSUME NEW r, doc' = [d EXCEPT ![i] = r] PROVE doc'[i] = r
  BY <1>5
<1> HIDE DEF b, p
<1>6. CASE doc' = [d EXCEPT ![i] = [ForBlocked(s, b, "blocked") EXCEPT !.ack = TRUE]]
  <2> DEFINE m == [ForBlocked(s, b, "blocked") EXCEPT !.ack = TRUE]
  <2>1. m.ack /\ m.lc = "blocked" /\ m.by = b
    BY BlockAck
  <2>2. doc'[i] = m
    BY <1>5, <1>6
  <2> HIDE DEF m
  <2> QED
    BY <1>1, <1>3, <2>1, <2>2 DEF Marked
<1>7. CASE \E a : doc' = [d EXCEPT ![i] = AfterStateCorrection(s, a)]
  <2>1. \A a : AfterStateCorrection(s, a).ack = s.ack
    BY DEF AfterStateCorrection, StateDocuments
  <2> QED
    BY <1>5, <1>7, <2>1
<1>8. ASSUME NEW k, NEW recov, NEW why,
             \/ doc' = [d EXCEPT ![i] = recordBlockedFeature(s, k, recov, why)]
             \/ doc' = [d EXCEPT ![i] = [recordBlockedFeature(s, k, recov, why)
                                           EXCEPT !.ack = TRUE]]
             \/ \E f : WaitOnFix(d, i, recordBlockedFeature(s, k, recov, why), f)
      PROVE  doc'[i].ack = s.ack \/ Marked(i)
  <2> DEFINE r == recordBlockedFeature(s, k, recov, why)
             m == [r EXCEPT !.ack = TRUE]
  <2>1. /\ r.ack = s.ack /\ \A f : [r EXCEPT !.onFix = f].ack = s.ack
        /\ m.ack /\ m.lc = "blocked" /\ m.by # NoBlocker
    BY BlockAck
  <2>2. \A f : WaitOnFix(d, i, r, f) => doc'[i] = [r EXCEPT !.onFix = f]
    BY DEF WaitOnFix
  <2>3. \/ doc' = [d EXCEPT ![i] = r]
        \/ doc' = [d EXCEPT ![i] = m]
        \/ \E f : WaitOnFix(d, i, r, f)
    BY <1>8
  <2> HIDE DEF r, m
  <2> QED
    BY <1>3, <1>5, <2>1, <2>2, <2>3 DEF Marked
<1> QED
  BY <1>4, <1>6, <1>7, <1>8

\* So does a rejection.
LEMMA RejectedAck ==
  ASSUME NEW i \in Items, NEW d, Sound(d, store), NEW n \in Nat, d[i].lc \in Executing,
         NEW lc \in {"blocked", "review_failed"}, Rejected(d, i, lc, n)
  PROVE  doc'[i].ack = d[i].ack \/ Marked(i)
<1>1. PICK r \in StateDocuments : r.ack = d[i].ack /\ RejectedTo(d, i, n, r)
  BY RejectedFrom
<1> DEFINE d2 == [d EXCEPT ![i] = r]
<1>2. d2 = [j \in Items |-> d2[j]] /\ d2[i] = r /\ (doc' = d2 \/ DiagnoseFrom(d2, i, n))
  BY <1>1 DEF RejectedTo
<1>3. store \in [Items -> Stores]
  BY DEF Sound
<1> HIDE DEF d2
<1> QED
  BY <1>1, <1>2, <1>3, DiagnoseAck

\* A step keeps the marker of the item it was selected for, or sets it so.
LEMMA StepAck ==
  ASSUME IInv, NEW i \in Items, StepOf(i)
  PROVE  doc'[i].ack = Inspected[i].ack \/ Marked(i)
<1> DEFINE d == Inspected
           s == DuringImplementation(d[i], d[i].task)
           Keeps(r) == r.ack = d[i].ack
<1>1. PICK kind \in Lifecycles \cup {"malformed"} : Selected(d, i, kind)
  BY DEF StepOf, PlanTask, AttemptCompletion, PlanFixTask, PlanSubtask, ImplementSubtask,
         InterruptImplementation, ReviewSubtask, DiagnoseAutocorrect, StepThrows,
         Lifecycles, Executing
<1>2. /\ d \in [Items -> StateDocuments] /\ d[i] \in StateDocuments /\ Sound(d, store)
      /\ d[i].lc = kind /\ d[i].task \in Nat
  BY <1>1, SelectedFacts DEF Sound, DocsOk, StateDocuments
<1>3. \A r : doc' = [d EXCEPT ![i] = r] => doc'[i] = r
  BY <1>2
<1>4. s \in StateDocuments /\ Keeps(s)
  BY <1>2 DEF DuringImplementation, StateDocuments, Lifecycles, Executing, NoTask,
              RestorationTargets, NoTarget
<1>5. /\ \A t : Keeps(ForTaskPlan(d[i], t)) /\ Keeps(DuringImplementation(d[i], t))
      /\ Keeps(AfterCompletion(d[i])) /\ Keeps(AfterApprovedReview(d[i]))
      /\ \A c : Keeps(ForCorrection(d[i], c))
      /\ \A k, recov, why : Keeps(recordBlockedFeature(d[i], k, recov, why))
  BY <1>2, BlockAck DEF ForTaskPlan, DuringImplementation, AfterCompletion,
                        AfterApprovedReview, ForCorrection, StateDocuments
<1>6. /\ Keeps(AfterImplementationFailure(s)) /\ Keeps(AfterGatesPassed(s))
      /\ \A recov : Keeps(AfterGatesFailed(s, recov))
      /\ \A k, recov, why, f : Keeps([recordBlockedFeature(s, k, recov, why) EXCEPT !.onFix = f])
  <2> HIDE DEF s
  <2> QED
    BY <1>4, BlockAck DEF AfterImplementationFailure, AfterGatesPassed, AfterGatesFailed,
                          StateDocuments
<1>7. CASE PlanTask(i) \/ AttemptCompletion(i) \/ PlanFixTask(i)
  <2>1. \/ doc' = [d EXCEPT ![i] = ForTaskPlan(d[i], 1)]
        \/ doc' = [d EXCEPT ![i] = AfterCompletion(d[i])]
        \/ \E k, recov, why : doc' = [d EXCEPT ![i] = recordBlockedFeature(d[i], k, recov, why)]
    BY <1>7 DEF PlanTask, AttemptCompletion, PlanFixTask
  <2> HIDE DEF d
  <2> QED
    BY <1>3, <1>5, <2>1 DEF d
<1>8. CASE PlanSubtask(i) \/ InterruptImplementation(i)
  <2>1. \E t : doc' = [d EXCEPT ![i] = DuringImplementation(d[i], t)]
    BY <1>8 DEF PlanSubtask, InterruptImplementation
  <2> QED
    BY <1>3, <1>5, <2>1
<1>9. CASE ImplementSubtask(i)
  <2>1. \/ doc' = [d EXCEPT ![i] = AfterImplementationFailure(s)]
        \/ doc' = [d EXCEPT ![i] = AfterGatesPassed(s)]
        \/ \E recov : doc' = [d EXCEPT ![i] = AfterGatesFailed(s, recov)]
        \/ \E k, recov, f : WaitOnFix(d, i, recordBlockedFeature(s, k, recov, "systemic"), f)
    BY <1>9 DEF ImplementSubtask
  <2>2. ASSUME NEW r, Keeps(r), doc' = [d EXCEPT ![i] = r] PROVE Keeps(doc'[i])
    BY <1>3, <2>2
  <2> HIDE DEF s
  <2>3. ASSUME NEW k, NEW recov, NEW f,
               WaitOnFix(d, i, recordBlockedFeature(s, k, recov, "systemic"), f)
        PROVE  Keeps(doc'[i])
    <3>1. doc'[i] = [recordBlockedFeature(s, k, recov, "systemic") EXCEPT !.onFix = f]
      BY <2>3 DEF WaitOnFix
    <3> QED
      BY <1>6, <3>1
  <2> HIDE DEF Keeps
  <2>4. Keeps(doc'[i])
    BY <1>6, <2>1, <2>2, <2>3
  <2> QED
    BY <2>4 DEF Keeps
<1>10. CASE ReviewSubtask(i)
  <2>1. \/ doc' = d
        \/ doc' = [d EXCEPT ![i] = AfterApprovedReview(d[i])]
        \/ \E c : doc' = [d EXCEPT ![i] = ForCorrection(d[i], c)]
        \/ \E n \in {1, 4}, lc \in {"blocked", "review_failed"} : Rejected(d, i, lc, n)
    BY <1>10 DEF ReviewSubtask
  <2>2. d[i].lc \in Executing
    BY <1>10, SelectedFacts DEF ReviewSubtask, Lifecycles, Executing
  <2>3. (\E n \in {1, 4}, lc \in {"blocked", "review_failed"} : Rejected(d, i, lc, n))
          => Keeps(doc'[i]) \/ Marked(i)
    BY <1>2, <2>2, RejectedAck
  <2> QED
    BY <1>3, <1>5, <2>1, <2>3
<1>11. CASE DiagnoseAutocorrect(i)
  <2>1. DiagnoseFrom(d, i, 0)
    BY <1>11 DEF DiagnoseAutocorrect
  <2>2. d = [j \in Items |-> d[j]] /\ store \in [Items -> Stores]
    BY <1>2 DEF Sound
  <2> HIDE DEF d
  <2> QED
    BY <1>2, <2>1, <2>2, DiagnoseAck DEF d
<1>12. CASE StepThrows(i)
  BY <1>12 DEF StepThrows
<1> QED
  BY <1>7, <1>8, <1>9, <1>10, <1>11, <1>12 DEF StepOf

\* Nobody but a run asks for a person.
LEMMA BetweenRunsNeverAsks ==
  ASSUME IInv, BetweenRuns, NEW j \in Items, doc'[j].ack # doc[j].ack
  PROVE  ~doc'[j].ack /\ ~run.on
<1>1. doc[j] \in StateDocuments /\ Inspect(doc, j).ack = doc[j].ack
  BY InspectFacts
<1>2. ~Formalized.ack /\ ~Filed.ack
  BY DEF Formalized, Filed, Blank
<1>3. InspectAll(doc) \in [Items -> StateDocuments]
  BY InspectedOk DEF IInv, Sound, DocsOk
<1>4. ASSUME NEW i \in Items, HumanExit(i) PROVE ~doc'[j].ack /\ ~run.on
  <2>1. ~run.on
    BY <1>4, OfferedFacts DEF HumanExit, acknowledgeBlocker, retryWithContext,
                              openFixFromConversation, correctSpecification
  <2>2. \A s \in StateDocuments : ~AfterHumanAcknowledged(s).ack
                                 /\ ~SpecificationInvalidated(s).ack
    BY DEF AfterHumanAcknowledged, Restored, SpecificationInvalidated, StateDocuments
  <2>3. CASE j # i
    <3>1. doc'[j] = Inspect(doc, j) \/ doc'[j] = Filed
      BY <1>4, <2>3 DEF HumanExit, acknowledgeBlocker, retryWithContext,
                        openFixFromConversation, correctSpecification, WaitOnFix, InspectAll
    <3> QED
      BY <1>1, <1>2, <2>1, <3>1
  <2>4. CASE j = i
    <3> DEFINE s == InspectAll(doc)[j]
    <3>1. \/ doc'[j] = AfterHumanAcknowledged(s)
          \/ doc'[j] = AfterHumanAcknowledged(doc[j])
          \/ doc'[j] = SpecificationInvalidated(s)
          \/ \E f : doc'[j] = [[s EXCEPT !.ack = FALSE] EXCEPT !.onFix = f]
      BY <1>4, <2>4 DEF HumanExit, acknowledgeBlocker, retryWithContext,
                        openFixFromConversation, correctSpecification, WaitOnFix, InspectAll
    <3>2. \A f : ~[[s EXCEPT !.ack = FALSE] EXCEPT !.onFix = f].ack
      BY <1>3 DEF StateDocuments
    <3> HIDE DEF s
    <3> QED
      BY <1>1, <1>3, <2>1, <2>2, <3>1, <3>2 DEF s
  <2> QED
    BY <2>3, <2>4
<1>5. ASSUME NEW i \in Items, confirmFeatureValidation(i) PROVE FALSE
  BY <1>1, <1>5 DEF confirmFeatureValidation, InspectAll, Validated, StateDocuments
<1>6. ASSUME NEW i \in Items, NEW n \in 0..MaxRequests, Formalize(i, n)
      PROVE  ~doc'[j].ack /\ ~run.on
  BY <1>1, <1>2, <1>6 DEF Formalize, InspectAll
<1>7. ASSUME NEW f \in Fixes, CompleteFixByHand(f) PROVE FALSE
  BY <1>1, <1>7 DEF CompleteFixByHand, AfterCompletion, StateDocuments, IInv, Sound, DocsOk
<1>8. ~InspectStatus
  BY <1>1 DEF InspectStatus, InspectAll
<1>9. ~ \E loop \in LoopModes, target \in RunTargets : StartRun(loop, target)
  BY DEF StartRun
<1> QED
  BY <1>4, <1>5, <1>6, <1>7, <1>8, <1>9 DEF BetweenRuns

\* A person is asked only about a recorded block that was diagnosed first, and stays asked
\* until a person acts, whatever runs do to the item.
THEOREM AckMarks == Spec => AckMarksExhaustedBlock
<1>1. IInv /\ [Next]_vars =>
        [\A i \in Items : doc'[i].ack # doc[i].ack =>
           IF doc'[i].ack
           THEN /\ run.on /\ doc'[i].lc = "blocked" /\ doc'[i].by # NoBlocker
                /\ store'[i].diagnosed # NoSignature
           ELSE ~run.on]_vars
  <2> SUFFICES ASSUME IInv, Next, NEW i \in Items, doc'[i].ack # doc[i].ack
               PROVE  IF doc'[i].ack
                      THEN /\ run.on /\ doc'[i].lc = "blocked" /\ doc'[i].by # NoBlocker
                           /\ store'[i].diagnosed # NoSignature
                      ELSE ~run.on
    BY DEF vars
  <2>1. CASE BetweenRuns
    BY <2>1, BetweenRunsNeverAsks
  <2>2. ~StopStep /\ ~ControlledStop
    BY InspectFacts DEF StopStep, ControlledStop
  <2>3. ASSUME NEW m \in Items, StepOf(m) PROVE run.on /\ Marked(i)
    <3>1. run.on
      BY <2>3, StepFrame
    <3>2. CASE m = i
      BY <2>3, <3>1, <3>2, StepAck, InspectFacts
    <3>3. CASE m # i
      <4>1. doc'[i] = Inspected[i] \/ NewFix(Inspected, i)
        BY <2>3, <3>3, StepFrame
      <4>2. NewFix(Inspected, i)
        BY <4>1, InspectFacts
      <4>3. doc[i].lc = "absent" /\ DocumentOk(doc[i])
        BY <4>2, InspectFacts DEF NewFix, IInv, Sound, DocsOk
      <4>4. doc[i].ack = FALSE /\ doc'[i].ack = FALSE
        BY <4>2, <4>3 DEF NewFix, DocumentOk, StateDocuments, Filed, Blank
      <4> QED
        BY <4>4
    <3> QED
      BY <3>2, <3>3
  <2> QED
    BY <2>1, <2>2, <2>3 DEF Next, RunStep, Marked
<1> QED
  BY <1>1, Invariant, PTL DEF Spec, AckMarksExhaustedBlock

\* No step but the completion attempt makes the item it was selected for a completed one.
LEMMA OnlyAttemptCompletes ==
  ASSUME IInv, NEW i \in Items, StepOf(i), ~AttemptCompletion(i)
  PROVE  doc'[i].lc # "completed"
<1> DEFINE d == Inspected
<1>1. PICK kind \in Lifecycles \cup {"malformed"} : Selected(d, i, kind)
  BY DEF StepOf, PlanTask, PlanFixTask, PlanSubtask, ImplementSubtask,
         InterruptImplementation, ReviewSubtask, DiagnoseAutocorrect, StepThrows,
         Lifecycles, Executing
<1>2. d[i].lc # "completed"
  BY StepFrame
<1>3. d \in [Items -> StateDocuments] /\ d[i] \in StateDocuments
  BY <1>1, SelectedFacts DEF Sound, DocsOk
<1>4. DiagnoseAutocorrect(i) =>
        \E n \in Nat : DiagnoseFrom(d, i, n) /\ d[i].lc \in Failed \cup {"blocked"}
  BY SelectedFacts DEF DiagnoseAutocorrect, Lifecycles
<1>5. ReviewSubtask(i) =>
        \/ doc' = d
        \/ doc' = [d EXCEPT ![i] = AfterApprovedReview(d[i])]
        \/ \E c : doc' = [d EXCEPT ![i] = ForCorrection(d[i], c)]
        \/ \E n \in {1, 4}, lc \in {"blocked", "review_failed"} : Rejected(d, i, lc, n)
  BY DEF ReviewSubtask
<1>6. PlanTask(i) \/ PlanFixTask(i) =>
        \/ doc' = [d EXCEPT ![i] = ForTaskPlan(d[i], 1)]
        \/ \E k, recov, why : doc' = [d EXCEPT ![i] = recordBlockedFeature(d[i], k, recov, why)]
  BY DEF PlanTask, PlanFixTask
<1>7. PlanSubtask(i) \/ InterruptImplementation(i) =>
        \E t : doc' = [d EXCEPT ![i] = DuringImplementation(d[i], t)]
  BY DEF PlanSubtask, InterruptImplementation
<1> DEFINE s == DuringImplementation(d[i], d[i].task)
<1>8. ImplementSubtask(i) =>
        \/ doc' = [d EXCEPT ![i] = AfterImplementationFailure(s)]
        \/ doc' = [d EXCEPT ![i] = AfterGatesPassed(s)]
        \/ \E recov : doc' = [d EXCEPT ![i] = AfterGatesFailed(s, recov)]
        \/ \E k, recov, f : WaitOnFix(d, i, recordBlockedFeature(s, k, recov, "systemic"), f)
  BY DEF ImplementSubtask
<1>9. StepThrows(i) => doc' = d
  BY DEF StepThrows
<1>10. ImplementSubtask(i) => s \in StateDocuments
  <2> SUFFICES ASSUME ImplementSubtask(i) PROVE s \in StateDocuments
    OBVIOUS
  <2>1. /\ DocumentOk(d[i]) /\ d[i].lc = "implementation_running"
    BY SelectedFacts DEF ImplementSubtask, Lifecycles, Executing
  <2>2. d[i].task \in Nat
    BY <1>3 DEF StateDocuments
  <2> QED
    BY <1>3, <2>2 DEF DuringImplementation, StateDocuments, Lifecycles, Executing, NoTask,
                      RestorationTargets, NoTarget
<1> HIDE DEF d
<1>11. CASE ReviewSubtask(i)
  <2>1. AfterApprovedReview(d[i]).lc = "formalized"
        /\ \A c : ForCorrection(d[i], c).lc = "correction_pending"
    BY <1>3 DEF AfterApprovedReview, ForCorrection, StateDocuments
  <2>2. d[i].lc \in Executing /\ Sound(d, store)
    BY <1>11, SelectedFacts DEF ReviewSubtask, Lifecycles, Executing, d
  <2>3. (\E n \in {1, 4}, lc \in {"blocked", "review_failed"} : Rejected(d, i, lc, n))
          => doc'[i].lc # "completed"
    BY <2>2, RejectedLifecycle DEF Failed
  <2> QED
    BY <1>2, <1>3, <1>5, <1>11, <2>1, <2>3
<1>12. CASE DiagnoseAutocorrect(i)
  <2>1. d = [j \in Items |-> d[j]]
    BY <1>3
  <2> QED
    BY <1>3, <1>4, <1>12, <2>1, DiagnoseLifecycle DEF Failed
<1>13. CASE PlanTask(i) \/ PlanFixTask(i)
  <2>1. ForTaskPlan(d[i], 1).lc = "task_ready"
    BY <1>3 DEF ForTaskPlan, StateDocuments
  <2>2. \A k, recov, why : recordBlockedFeature(d[i], k, recov, why).lc = "blocked"
    BY <1>3, BlockLifecycle
  <2> QED
    BY <1>3, <1>6, <1>13, <2>1, <2>2
<1>14. CASE PlanSubtask(i) \/ InterruptImplementation(i)
  BY <1>3, <1>7, <1>14 DEF DuringImplementation, StateDocuments
<1>15. CASE ImplementSubtask(i)
  <2> HIDE DEF s
  <2>1. /\ AfterImplementationFailure(s).lc = "implementation_failed"
        /\ AfterGatesPassed(s).lc = "review_pending"
        /\ \A recov : AfterGatesFailed(s, recov).lc = "quality_failed"
    BY <1>10, <1>15 DEF AfterImplementationFailure, AfterGatesPassed, AfterGatesFailed,
                        StateDocuments
  <2>2. CASE \E k, recov, f : WaitOnFix(d, i, recordBlockedFeature(s, k, recov, "systemic"), f)
    BY <1>10, <1>15, <2>2, WaitLifecycle
  <2> QED
    BY <1>3, <1>8, <1>15, <2>1, <2>2
<1> QED
  BY <1>2, <1>9, <1>11, <1>12, <1>13, <1>14, <1>15 DEF StepOf

\* What inspection resumes is not thereby completed.
LEMMA InspectNeverCompletes ==
  ASSUME IInv, NEW j \in Items, doc[j].lc # "completed"
  PROVE  Inspect(doc, j).lc # "completed" /\ Inspected[j].lc # "completed"
BY InspectFacts

\* A feature the runtime closes has every declared request approved and its gates passed: an
\* attempt on a record without an approval finds the block that suspended it there instead.
THEOREM EarnedCompletion == Spec => CompletionIsEarned
<1>1. IInv /\ [Next]_vars =>
        [run.on => \A i \in Features : doc[i].lc # "completed" /\ doc'[i].lc = "completed" =>
           /\ store[i].declared /\ store[i].open = 0
           /\ doc[i].review = "approved" /\ doc[i].gates = "passed"]_vars
  <2> SUFFICES ASSUME IInv, Next, run.on, NEW i \in Features, doc[i].lc # "completed",
                      doc'[i].lc = "completed"
               PROVE  /\ store[i].declared /\ store[i].open = 0
                      /\ doc[i].review = "approved" /\ doc[i].gates = "passed"
    BY DEF vars
  <2>1. i \in Items
    BY ItemsAreNumbers
  <2>2. Inspect(doc, i).lc # "completed" /\ Inspected[i].lc # "completed"
    BY <2>1, InspectNeverCompletes
  <2>3. DocumentOk(doc[i]) /\ doc[i] \in StateDocuments
    BY <2>1 DEF IInv, Sound, DocsOk, DocumentOk
  <2>4. RunStep
    <3>1. BetweenRuns => ~run.on
      BY DEF BetweenRuns, StartRun, InspectStatus, confirmFeatureValidation, HumanExit,
             acknowledgeBlocker, retryWithContext, openFixFromConversation,
             correctSpecification, BlockedOnHuman, Offered, Formalize, CompleteFixByHand
    <3> QED
      BY <3>1 DEF Next
  <2>5. ~StopStep /\ ~ControlledStop
    BY <2>2 DEF StopStep, ControlledStop
  <2>6. PICK m \in Items : StepOf(m)
    BY <2>4, <2>5 DEF RunStep
  <2>7. m = i
    <3> SUFFICES ASSUME m # i PROVE FALSE
      OBVIOUS
    <3>1. doc'[i] = Filed
      BY <2>1, <2>2, <2>6, StepFrame DEF NewFix
    <3> QED
      BY <3>1 DEF Filed, Blank
  <2>8. AttemptCompletion(i)
    BY <2>1, <2>6, <2>7, OnlyAttemptCompletes
  <2> DEFINE d == Inspected
  <2>9. PICK kind \in Planning :
          /\ Selected(d, i, kind) /\ store[i].open = 0
          /\ \/ \E recov, why : doc' = [d EXCEPT ![i] = recordBlockedFeature(d[i], "other", recov, why)]
             \/ store[i].declared /\ ~RefusedOnRecord(d[i])
    BY <2>8 DEF AttemptCompletion
  <2>10. /\ d[i] \in StateDocuments /\ d[i].lc \in Planning /\ d \in [Items -> StateDocuments]
         /\ DocumentOk(d[i]) /\ Linked(d[i], store[i], i)
    BY <2>1, <2>9, SelectedFacts DEF Lifecycles, Sound, DocsOk
  <2> HIDE DEF d
  <2>11. store[i].declared /\ ~RefusedOnRecord(d[i])
    <3>1. \A k, recov, why : recordBlockedFeature(d[i], k, recov, why).lc = "blocked"
      BY <2>10, BlockLifecycle
    <3>2. ASSUME NEW r, doc' = [d EXCEPT ![i] = r] PROVE doc'[i] = r
      BY <2>1, <2>10, <3>2
    <3>3. ~ \E recov, why : doc' = [d EXCEPT ![i] = recordBlockedFeature(d[i], "other", recov, why)]
      BY <3>1, <3>2
    <3> QED
      BY <2>9, <3>3
  <2>12. d[i].review = "approved" /\ d[i].gates = "passed"
    BY <2>9, <2>10, <2>11 DEF Linked, ClosingOk, RefusedOnRecord
  <2>13. d[i].review = doc[i].review /\ d[i].gates = doc[i].gates
    BY <2>1, <2>3 DEF Inspected, Inspect, AfterFixResolved, Restored, StateDocuments, d
  <2> QED
    BY <2>9, <2>11, <2>12, <2>13
<1> QED
  BY <1>1, Invariant, PTL DEF Spec, CompletionIsEarned

\* What is in flight is continued before anything is started.
LEMMA InFlightIsContinuing ==
  ASSUME NEW s, DocumentOk(s)
  PROVE  /\ s.lc \in Executing \cup Failed \cup {"correction_pending"} => isContinuing(s)
         /\ s.lc \in Planning => ~isContinuing(s)
<1>1. ~MissingPointer(s)
  BY DEF DocumentOk, MissingPointer
<1>2. s.lc \notin Planning \cup {"blocked"} => WorkItemInspectionKind(s) = s.lc
  BY <1>1 DEF WorkItemInspectionKind
<1>3. s.lc \in Planning => WorkItemInspectionKind(s) \in {"awaiting_validation", s.lc}
  BY <1>1 DEF WorkItemInspectionKind, Planning
<1> QED
  BY <1>2, <1>3 DEF isContinuing, Executing, Failed, Planning, PendingSpecification

\* Nothing but a run plans a task.
LEMMA BetweenRunsNeverPlans ==
  ASSUME IInv, BetweenRuns, NEW i \in Items, doc[i].lc \in Planning
  PROVE  doc'[i].lc # "task_ready"
<1>1. Inspect(doc, i) = doc[i] /\ doc[i] \in StateDocuments
  BY InspectFacts DEF Planning
<1>2. Formalized.lc = "formalized" /\ Filed.lc = "task_planning_pending"
  BY DEF Formalized, Filed, Blank
<1>3. Validated(doc[i]).lc = doc[i].lc /\ AfterCompletion(doc[i]).lc = "completed"
  BY <1>1 DEF Validated, AfterCompletion, StateDocuments
<1>4. ASSUME NEW j \in Items, HumanExit(j) PROVE doc'[i].lc # "task_ready"
  <2>1. InspectAll(doc)[j].lc \in Failed \cup {"blocked"}
    BY <1>4, OfferedFacts DEF HumanExit, acknowledgeBlocker, retryWithContext,
                              openFixFromConversation, correctSpecification
  <2>2. i # j
    BY <1>1, <2>1 DEF Planning, Failed, InspectAll
  <2>3. doc'[i] = Inspect(doc, i) \/ doc'[i] = Filed
    BY <1>4, <2>2 DEF HumanExit, acknowledgeBlocker, retryWithContext,
                      openFixFromConversation, correctSpecification, WaitOnFix, InspectAll
  <2> QED
    BY <1>1, <1>2, <2>3 DEF Planning
<1>5. ASSUME NEW j \in Items, confirmFeatureValidation(j) PROVE doc'[i].lc # "task_ready"
  BY <1>1, <1>3, <1>5 DEF confirmFeatureValidation, InspectAll, Planning
<1>6. ASSUME NEW j \in Items, NEW n \in 0..MaxRequests, Formalize(j, n)
      PROVE  doc'[i].lc # "task_ready"
  BY <1>1, <1>2, <1>6 DEF Formalize, InspectAll, Planning
<1>7. ASSUME NEW f \in Fixes, CompleteFixByHand(f) PROVE doc'[i].lc # "task_ready"
  BY <1>1, <1>3, <1>7 DEF CompleteFixByHand, Planning, IInv, Sound, DocsOk
<1>8. InspectStatus => doc'[i].lc # "task_ready"
  BY <1>1 DEF InspectStatus, InspectAll, Planning
<1>9. (\E loop \in LoopModes, target \in RunTargets : StartRun(loop, target))
        => doc'[i].lc # "task_ready"
  BY DEF StartRun, Planning
<1> QED
  BY <1>4, <1>5, <1>6, <1>7, <1>8, <1>9 DEF BetweenRuns

\* A task is planned only when nothing selectable is in flight: one item's work is in the
\* worktree at a time, whatever the number of items and their severities.
THEOREM OneItemInFlight == Spec => StartsOnlyWhenNothingInFlight
<1>1. IInv /\ [Next]_vars =>
        [\A i, j \in Items :
           doc[i].lc \in Planning /\ doc'[i].lc = "task_ready" /\ j # i /\ selectable(j) =>
             doc'[j].lc \notin Executing \cup Failed \cup {"correction_pending"}]_vars
  <2> SUFFICES ASSUME IInv, Next, NEW i \in Items, NEW j \in Items, doc[i].lc \in Planning,
                      doc'[i].lc = "task_ready", j # i, selectable(j)
               PROVE  doc'[j].lc \notin Executing \cup Failed \cup {"correction_pending"}
    BY DEF vars
  <2>1. RunStep
    BY BetweenRunsNeverPlans DEF Next
  <2>2. Inspected[i] = doc[i] /\ doc[i].lc # "task_ready" /\ doc[i].lc # "absent"
    BY InspectFacts DEF Planning
  <2>3. ~StopStep /\ ~ControlledStop
    BY <2>2 DEF StopStep, ControlledStop
  <2>4. PICK m \in Items : StepOf(m)
    BY <2>1, <2>3 DEF RunStep
  <2>5. m = i
    BY <2>2, <2>4, StepFrame DEF NewFix
  <2>6. DocsOk(Inspected)
    BY InspectedOk DEF IInv, Sound
  <2>7. ~isContinuing(Inspected[i])
    BY <2>2, <2>6, InFlightIsContinuing DEF DocsOk
  <2>8. ~isContinuing(Inspected[j])
    <3> SUFFICES ASSUME isContinuing(Inspected[j]) PROVE FALSE
      OBVIOUS
    <3>1. IsNext(Inspected, i)
      BY <2>4, <2>5, StepFrame
    <3>2. Candidate(Inspected, j)
      BY DEF Candidate
    <3>3. Tier(Inspected, j) \in {0, 1}
      BY DEF Tier, Items
    <3>4. Tier(Inspected, i) \in {2, 3, 4, 5}
      BY <2>7 DEF Tier
    <3> QED
      BY <3>1, <3>2, <3>3, <3>4 DEF IsNext
  <2>9. Inspected[j].lc \notin Executing \cup Failed \cup {"correction_pending"}
    BY <2>6, <2>8, InFlightIsContinuing DEF DocsOk
  <2>10. doc'[j] = Inspected[j] \/ doc'[j] = Filed
    BY <2>4, <2>5, StepFrame DEF NewFix
  <2> QED
    BY <2>9, <2>10 DEF Filed, Blank, Executing, Failed
<1> QED
  BY <1>1, Invariant, PTL DEF Spec, StartsOnlyWhenNothingInFlight
=============================================================================
