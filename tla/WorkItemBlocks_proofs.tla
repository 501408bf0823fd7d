------------------------ MODULE WorkItemBlocks_proofs ------------------------
(***************************************************************************)
(* Results that need more than IInv, and a Doctor that keeps to the        *)
(* answers its prompt offers: answering correct_state for a blocked item,  *)
(* which its schema lets through, clears the suspended target, and         *)
(* restoring that item leaves it blocked with nothing on record.  What     *)
(* failed or is blocked says why; what waits on a fix can be resumed, and  *)
(* is resumed from where it was suspended; and a loop that ends by itself  *)
(* has left nothing it could still advance.                                *)
(***************************************************************************)
EXTENDS WorkItemLoop_proofs

(***************************************************************************)
(* Every block is recorded.                                                *)
(***************************************************************************)

\* BlockedIsRecorded of one document, and why blocking and restoring keep it: a blocked
\* item knows what it was suspended from, and that was never a block.
Recorded(s) ==
  /\ s.lc \in Failed \cup {"blocked"} => s.by # NoBlocker
  /\ s.lc = "blocked" => s.from.lc # "none"
  /\ s.from.lc # "blocked"

AllRecorded(d) == \A i \in Items : Recorded(d[i])

\* The Doctor answers what its prompt offers it.
DoctorAsTold == "correct_state" \notin DoctorAnswers

\* Blocking, or failing a review, with a blocker to show records it.
LEMMA BlockRecorded ==
  ASSUME NEW s \in StateDocuments, Recorded(s), NEW b, b # NoBlocker,
         NEW lc \in {"blocked", "review_failed"}, NEW f
  PROVE  /\ Recorded(ForBlocked(s, b, lc))
         /\ Recorded([ForBlocked(s, b, lc) EXCEPT !.ack = TRUE])
         /\ Recorded([ForBlocked(s, b, lc) EXCEPT !.onFix = f])
<1> DEFINE target == preferredRestorationTarget(s)
           r == ForBlocked(s, b, lc)
<1>1. target.lc # "none" /\ target.lc # "blocked"
  BY DEF Recorded, preferredRestorationTarget, forwardRestorationLifecycleState, Failed,
         StateDocuments, Lifecycles, PendingSpecification, Planning, Executing
<1>2. \A u \in {r, [r EXCEPT !.ack = TRUE], [r EXCEPT !.onFix = f]} :
        u.lc = lc /\ u.by = b /\ u.from = target
  BY DEF ForBlocked, StateDocuments
<1> HIDE DEF target, r
<1> QED
  BY <1>1, <1>2 DEF Recorded, r

\* The profile a step blocks with is one.
LEMMA ProfileIsOne ==
  ASSUME NEW s, NEW k, NEW recov, NEW why
  PROVE  Profile(s, k, recov, why) # NoBlocker
BY DEF Profile, NoBlocker

LEMMA StepBlockRecorded ==
  ASSUME NEW s \in StateDocuments, Recorded(s), NEW k, NEW recov, NEW why, NEW f
  PROVE  LET r == recordBlockedFeature(s, k, recov, why)
         IN  Recorded(r) /\ Recorded([r EXCEPT !.ack = TRUE]) /\ Recorded([r EXCEPT !.onFix = f])
BY BlockRecorded, ProfileIsOne DEF recordBlockedFeature

\* Restoring what is blocked or failed leaves it neither failed nor blocked.
LEMMA RestoredRecorded ==
  ASSUME NEW s, DocumentOk(s), Recorded(s), s.lc \in Failed \cup {"blocked"}
  PROVE  Recorded(AfterHumanAcknowledged(s)) /\ Recorded(AfterFixResolved(s))
<1> DEFINE target == preferredRestorationTarget(s)
<1>1. s \in StateDocuments /\ TargetOk(s.from) /\ s.lc \in Lifecycles
  BY DEF DocumentOk, StateDocuments
<1>2. target.lc \in Planning \cup Executing \cup {"correction_pending"}
  <2>1. CASE s.from.lc = "none"
    BY <1>1, <2>1 DEF Recorded, preferredRestorationTarget, forwardRestorationLifecycleState,
                      Failed, Executing
  <2>2. CASE s.from.lc # "none"
    <3>1. target = s.from
      BY <2>2 DEF preferredRestorationTarget
    <3> QED
      BY <1>1, <2>2, <3>1 DEF Recorded, TargetOk, NoTarget
  <2> QED
    BY <2>1, <2>2
<1> DEFINE u == AfterHumanAcknowledged(s)
           v == AfterFixResolved(s)
<1>3. u.lc = target.lc /\ u.from = NoTarget /\ v.lc = target.lc /\ v.from = NoTarget
  BY <1>1, <1>2 DEF AfterHumanAcknowledged, AfterFixResolved, Restored, StateDocuments
<1> HIDE DEF u, v, target
<1> QED
  BY <1>2, <1>3 DEF u, v, Recorded, NoTarget, Planning, Executing, Failed

\* The writers of the work on a task either leave the item neither failed nor blocked, or
\* record why it failed.
LEMMA WorkRecorded ==
  ASSUME NEW s \in StateDocuments, Recorded(s), NEW t, NEW recov
  PROVE  /\ Recorded(ForTaskPlan(s, t)) /\ Recorded(DuringImplementation(s, t))
         /\ Recorded(AfterImplementationFailure(s)) /\ Recorded(AfterGatesPassed(s))
         /\ Recorded(AfterGatesFailed(s, recov)) /\ Recorded(AfterApprovedReview(s))
         /\ Recorded(ForCorrection(s, t)) /\ Recorded(AfterCompletion(s))
<1>1. /\ Recorded(ForTaskPlan(s, t)) /\ Recorded(DuringImplementation(s, t))
      /\ Recorded(AfterGatesPassed(s)) /\ Recorded(AfterApprovedReview(s))
      /\ Recorded(ForCorrection(s, t))
  BY DEF Recorded, ForTaskPlan, DuringImplementation, AfterGatesPassed, AfterApprovedReview,
         ForCorrection, StateDocuments, NoTarget, Failed
<1>2. Recorded(AfterCompletion(s))
  BY DEF Recorded, AfterCompletion, StateDocuments, Failed
<1>3. Recorded(AfterImplementationFailure(s))
  BY DEF Recorded, AfterImplementationFailure, StateDocuments, NoBlocker
<1>4. Recorded(AfterGatesFailed(s, recov))
  BY DEF Recorded, AfterGatesFailed, StateDocuments, NoBlocker
<1> QED
  BY <1>1, <1>2, <1>3, <1>4

\* The documents of specification and filing wait for nothing.
LEMMA FreshRecorded ==
  /\ Recorded(Formalized) /\ Recorded(Filed)
  /\ \A lc \in Lifecycles \ (Failed \cup {"blocked"}) : Recorded(Blank(lc))
  /\ \A s \in StateDocuments : Recorded(s) =>
       /\ Recorded(Validated(s)) /\ Recorded(SpecificationInvalidated(s))
       /\ \A f : Recorded([s EXCEPT !.ack = FALSE, !.onFix = f])
<1>1. \A lc \in Lifecycles \ (Failed \cup {"blocked"}) : Recorded(Blank(lc))
  BY DEF Blank, Recorded, NoTarget
<1>2. Recorded(Formalized) /\ Recorded(Filed)
  BY DEF Formalized, Filed, Blank, Recorded, NoTarget, Failed
<1>3. ASSUME NEW s \in StateDocuments, Recorded(s)
      PROVE  /\ Recorded(Validated(s)) /\ Recorded(SpecificationInvalidated(s))
             /\ \A f : Recorded([s EXCEPT !.ack = FALSE, !.onFix = f])
  BY <1>3 DEF Recorded, Validated, SpecificationInvalidated, StateDocuments, NoTarget, Failed
<1> QED
  BY <1>1, <1>2, <1>3

\* Writing one document, and blocking an item on a fix, keep every document recorded.
LEMMA WriteRecorded ==
  ASSUME NEW d \in [Items -> StateDocuments], AllRecorded(d), NEW i \in Items, NEW r, Recorded(r)
  PROVE  AllRecorded([d EXCEPT ![i] = r])
BY DEF AllRecorded

LEMMA WaitRecorded ==
  ASSUME NEW d \in [Items -> StateDocuments], AllRecorded(d), NEW i \in Items, NEW s, NEW f,
         Recorded([s EXCEPT !.onFix = f]), WaitOnFix(d, i, s, f)
  PROVE  AllRecorded(doc')
BY FreshRecorded DEF AllRecorded, WaitOnFix

\* So does a pass of inspection.
LEMMA InspectedRecorded ==
  ASSUME IInv, AllRecorded(doc)
  PROVE  AllRecorded(Inspected) /\ AllRecorded(InspectAll(doc))
<1>1. ASSUME NEW i \in Items PROVE Recorded(Inspect(doc, i)) /\ Recorded(doc[i])
  <2>1. DocumentOk(doc[i]) /\ Recorded(doc[i])
    BY DEF IInv, Sound, DocsOk, AllRecorded
  <2> QED
    BY <2>1, RestoredRecorded DEF Inspect
<1>2. \A i \in Items : Inspected[i] \in {Inspect(doc, i), doc[i]}
  BY DEF Inspected
<1>3. \A i \in Items : InspectAll(doc)[i] = Inspect(doc, i)
  BY DEF InspectAll
<1> QED
  BY <1>1, <1>2, <1>3 DEF AllRecorded

\* The state repair is ordered for failed items only, as long as the Doctor does as told.
LEMMA RepairOfFailed ==
  ASSUME DoctorAsTold, NEW s, s.lc \in Failed \cup {"blocked"}, NEW t,
         "correct_state" \in Decisions(s, t)
  PROVE  s.lc \in Failed
BY DEF Decisions, DoctorAsTold, Failed

\* A diagnosis, whatever it decides, keeps every document recorded.
LEMMA DiagnoseRecorded ==
  ASSUME DoctorAsTold, NEW d \in [Items -> StateDocuments], AllRecorded(d), NEW i \in Items,
         d[i].lc \in Failed \cup {"blocked"}, NEW n, DiagnoseFrom(d, i, n)
  PROVE  AllRecorded(doc')
<1> DEFINE s == d[i]
<1>1. s \in StateDocuments /\ Recorded(s)
  BY DEF AllRecorded
<1>2. [BlockerOf(s) EXCEPT !.recov = "human"] # NoBlocker
  <2>1. BlockerOf(s) \in Blockers
    BY <1>1, BlockerOfOk
  <2> QED
    BY <2>1 DEF Blockers, BlockerKinds, NoBlocker
<1>3. \/ doc' = d
      \/ doc' = [d EXCEPT ![i] = [ForBlocked(s, [BlockerOf(s) EXCEPT !.recov = "human"], "blocked")
                                    EXCEPT !.ack = TRUE]]
      \/ s.lc \in Failed /\ \E a : doc' = [d EXCEPT ![i] = AfterStateCorrection(s, a)]
      \/ \E k, recov, why :
           \/ doc' = [d EXCEPT ![i] = recordBlockedFeature(s, k, recov, why)]
           \/ doc' = [d EXCEPT ![i] = [recordBlockedFeature(s, k, recov, why) EXCEPT !.ack = TRUE]]
           \/ \E f : WaitOnFix(d, i, recordBlockedFeature(s, k, recov, why), f)
  BY RepairOfFailed DEF DiagnoseFrom, CorrectState
<1>4. \A a : s.lc \in Failed => Recorded(AfterStateCorrection(s, a))
  BY <1>1 DEF Recorded, AfterStateCorrection, StateDocuments, NoTarget, Failed
<1>5. Recorded([ForBlocked(s, [BlockerOf(s) EXCEPT !.recov = "human"], "blocked") EXCEPT !.ack = TRUE])
  BY <1>1, <1>2, BlockRecorded
<1>6. ASSUME NEW k, NEW recov, NEW why,
             \/ doc' = [d EXCEPT ![i] = recordBlockedFeature(s, k, recov, why)]
             \/ doc' = [d EXCEPT ![i] = [recordBlockedFeature(s, k, recov, why) EXCEPT !.ack = TRUE]]
             \/ \E f : WaitOnFix(d, i, recordBlockedFeature(s, k, recov, why), f)
      PROVE  AllRecorded(doc')
  <2> DEFINE r == recordBlockedFeature(s, k, recov, why)
  <2>1. \A f : Recorded(r) /\ Recorded([r EXCEPT !.ack = TRUE]) /\ Recorded([r EXCEPT !.onFix = f])
    BY <1>1, StepBlockRecorded
  <2>2. \/ doc' = [d EXCEPT ![i] = r]
        \/ doc' = [d EXCEPT ![i] = [r EXCEPT !.ack = TRUE]]
        \/ \E f : WaitOnFix(d, i, r, f)
    BY <1>6
  <2> HIDE DEF r
  <2> QED
    <3>1. AllRecorded([d EXCEPT ![i] = r]) /\ AllRecorded([d EXCEPT ![i] = [r EXCEPT !.ack = TRUE]])
      BY <2>1, WriteRecorded
    <3>2. (\E f : WaitOnFix(d, i, r, f)) => AllRecorded(doc')
      BY <2>1, WaitRecorded
    <3> QED
      BY <2>2, <3>1, <3>2
<1>7. CASE s.lc \in Failed /\ \E a : doc' = [d EXCEPT ![i] = AfterStateCorrection(s, a)]
  BY <1>4, <1>7, WriteRecorded
<1>8. CASE doc' = [d EXCEPT ![i] =
                     [ForBlocked(s, [BlockerOf(s) EXCEPT !.recov = "human"], "blocked")
                        EXCEPT !.ack = TRUE]]
  BY <1>5, <1>8, WriteRecorded
<1> QED
  BY <1>3, <1>6, <1>7, <1>8

\* A rejected review records it first, and diagnoses it at once in a single step.
LEMMA RejectedRecorded ==
  ASSUME DoctorAsTold, NEW d, Sound(d, store), AllRecorded(d), NEW i \in Items, NEW n,
         d[i].lc \in Executing,
         NEW lc \in {"blocked", "review_failed"}, Rejected(d, i, lc, n)
  PROVE  AllRecorded(doc')
<1> DEFINE s == d[i]
<1>1. PICK k \in TextKinds, recov \in TextRecoverabilities, why \in ReviewReasons :
        LET d2 == [d EXCEPT ![i] = ForBlocked(s, Profile(s, k, recov, why), lc)]
        IN  doc' = d2 \/ DiagnoseFrom(d2, i, n)
  BY DEF Rejected
<1> DEFINE b == Profile(s, k, recov, why)
           r == ForBlocked(s, b, lc)
           d2 == [d EXCEPT ![i] = r]
<1>2. DocumentOk(s) /\ s \in StateDocuments /\ d \in [Items -> StateDocuments] /\ Recorded(s)
  BY DEF Sound, DocsOk, DocumentOk, AllRecorded
<1>3. s.val = "confirmed" /\ s.lc \notin Untouched \cup {"completed"}
  BY <1>2 DEF DocumentOk, Executing, Untouched, PendingSpecification, Planning
<1>4. b \in Blockers /\ b # NoBlocker
  BY <1>2, ChoicesAssumption, ProfileIsOne
     DEF Profile, Blockers, StateDocuments, Reasons, NoTask
<1> HIDE DEF b
<1>5. DocumentOk(r) /\ r.lc = lc /\ Recorded(r)
  <2>1. DocumentOk(r) /\ r.lc = lc
    BY <1>2, <1>3, <1>4, ForBlockedOk
  <2>2. Recorded(r)
    BY <1>2, <1>4, BlockRecorded
  <2> QED
    BY <2>1, <2>2
<1> HIDE DEF r
<1>6. d2 \in [Items -> StateDocuments] /\ d2[i] = r /\ AllRecorded(d2)
  BY <1>2, <1>5, WriteRecorded DEF DocumentOk
<1>7. doc' = d2 \/ DiagnoseFrom(d2, i, n)
  BY <1>1 DEF r, b
<1> HIDE DEF d2
<1> QED
  BY <1>5, <1>6, <1>7, DiagnoseRecorded DEF Failed

\* A step of a run, for the item it was selected for, keeps every document recorded.
LEMMA StepRecorded ==
  ASSUME DoctorAsTold, IInv, AllRecorded(doc), NEW i \in Items, StepOf(i)
  PROVE  AllRecorded(doc')
<1> DEFINE d == Inspected
           s == DuringImplementation(d[i], d[i].task)
<1>1. PICK kind \in Lifecycles \cup {"malformed"} : Selected(d, i, kind)
  BY DEF StepOf, PlanTask, AttemptCompletion, PlanFixTask, PlanSubtask, ImplementSubtask,
         InterruptImplementation, ReviewSubtask, DiagnoseAutocorrect, StepThrows,
         Lifecycles, Executing
<1>2. d \in [Items -> StateDocuments] /\ d[i] \in StateDocuments /\ Sound(d, store)
  BY <1>1, SelectedFacts DEF Sound, DocsOk
<1>3. AllRecorded(d) /\ Recorded(d[i])
  BY InspectedRecorded DEF AllRecorded
<1>4. PlanTask(i) \/ AttemptCompletion(i) \/ PlanFixTask(i) =>
        \/ doc' = [d EXCEPT ![i] = ForTaskPlan(d[i], 1)]
        \/ doc' = [d EXCEPT ![i] = AfterCompletion(d[i])]
        \/ \E k, recov, why : doc' = [d EXCEPT ![i] = recordBlockedFeature(d[i], k, recov, why)]
  BY DEF PlanTask, AttemptCompletion, PlanFixTask
<1>5. PlanSubtask(i) \/ InterruptImplementation(i) =>
        \E t : doc' = [d EXCEPT ![i] = DuringImplementation(d[i], t)]
  BY DEF PlanSubtask, InterruptImplementation
<1>6. ImplementSubtask(i) =>
        \/ doc' = [d EXCEPT ![i] = AfterImplementationFailure(s)]
        \/ doc' = [d EXCEPT ![i] = AfterGatesPassed(s)]
        \/ \E recov : doc' = [d EXCEPT ![i] = AfterGatesFailed(s, recov)]
        \/ \E k, recov, f : WaitOnFix(d, i, recordBlockedFeature(s, k, recov, "systemic"), f)
  BY DEF ImplementSubtask
<1>7. ReviewSubtask(i) =>
        \/ doc' = d
        \/ doc' = [d EXCEPT ![i] = AfterApprovedReview(d[i])]
        \/ \E c : doc' = [d EXCEPT ![i] = ForCorrection(d[i], c)]
        \/ \E n \in {1, 4}, lc \in {"blocked", "review_failed"} : Rejected(d, i, lc, n)
  BY DEF ReviewSubtask
<1>8. ReviewSubtask(i) => d[i].lc \in Executing
  BY SelectedFacts DEF ReviewSubtask, Lifecycles, Executing
<1>9. DiagnoseAutocorrect(i) =>
        \E n \in Nat : DiagnoseFrom(d, i, n) /\ d[i].lc \in Failed \cup {"blocked"}
  BY SelectedFacts DEF DiagnoseAutocorrect, Lifecycles
<1>10. StepThrows(i) => doc' = d
  BY DEF StepThrows
<1>11. ImplementSubtask(i) => s \in StateDocuments /\ Recorded(s)
  <2> SUFFICES ASSUME ImplementSubtask(i) PROVE s \in StateDocuments /\ Recorded(s)
    OBVIOUS
  <2>1. d[i].task \in Nat
    BY <1>2 DEF StateDocuments
  <2>2. s \in StateDocuments
    BY <1>2, <2>1 DEF DuringImplementation, StateDocuments, Lifecycles, Executing, NoTask,
                      RestorationTargets, NoTarget
  <2> QED
    BY <1>2, <1>3, <2>2, WorkRecorded
<1> HIDE DEF d
<1>12. CASE PlanTask(i) \/ AttemptCompletion(i) \/ PlanFixTask(i)
  <2>1. Recorded(ForTaskPlan(d[i], 1)) /\ Recorded(AfterCompletion(d[i]))
    BY <1>2, <1>3, WorkRecorded
  <2>2. \A k, recov, why : Recorded(recordBlockedFeature(d[i], k, recov, why))
    BY <1>2, <1>3, StepBlockRecorded
  <2> QED
    BY <1>2, <1>3, <1>4, <1>12, <2>1, <2>2, WriteRecorded
<1>13. CASE PlanSubtask(i) \/ InterruptImplementation(i)
  <2>1. \A t : Recorded(DuringImplementation(d[i], t))
    BY <1>2, <1>3, WorkRecorded
  <2> QED
    BY <1>2, <1>3, <1>5, <1>13, <2>1, WriteRecorded
<1>14. CASE ImplementSubtask(i)
  <2> HIDE DEF s
  <2>1. /\ Recorded(AfterImplementationFailure(s)) /\ Recorded(AfterGatesPassed(s))
        /\ \A recov : Recorded(AfterGatesFailed(s, recov))
    BY <1>11, <1>14, WorkRecorded
  <2>2. \A k, recov, f : Recorded([recordBlockedFeature(s, k, recov, "systemic") EXCEPT !.onFix = f])
    BY <1>11, <1>14, StepBlockRecorded
  <2>3. (\E k, recov, f : WaitOnFix(d, i, recordBlockedFeature(s, k, recov, "systemic"), f))
          => AllRecorded(doc')
    BY <1>2, <1>3, <2>2, WaitRecorded
  <2>4. \A r : doc' = [d EXCEPT ![i] = r] /\ Recorded(r) => AllRecorded(doc')
    BY <1>2, <1>3, WriteRecorded
  <2> QED
    BY <1>6, <1>14, <2>1, <2>3, <2>4
<1>15. CASE ReviewSubtask(i)
  <2>1. Recorded(AfterApprovedReview(d[i])) /\ \A c : Recorded(ForCorrection(d[i], c))
    BY <1>2, <1>3, WorkRecorded
  <2>2. (\E n \in {1, 4}, lc \in {"blocked", "review_failed"} : Rejected(d, i, lc, n))
          => AllRecorded(doc')
    BY <1>2, <1>3, <1>8, <1>15, RejectedRecorded
  <2>3. \A r : doc' = [d EXCEPT ![i] = r] /\ Recorded(r) => AllRecorded(doc')
    BY <1>2, <1>3, WriteRecorded
  <2> QED
    BY <1>3, <1>7, <1>15, <2>1, <2>2, <2>3 DEF AllRecorded
<1>16. CASE DiagnoseAutocorrect(i)
  BY <1>2, <1>3, <1>9, <1>16, DiagnoseRecorded
<1>17. CASE StepThrows(i)
  <2>1. doc' = d
    BY <1>10, <1>17
  <2> QED
    BY <1>3, <2>1 DEF AllRecorded
<1> QED
  BY <1>12, <1>13, <1>14, <1>15, <1>16, <1>17 DEF StepOf

\* So does what people do between runs.
LEMMA BetweenRunsRecorded ==
  ASSUME IInv, AllRecorded(doc), BetweenRuns
  PROVE  AllRecorded(doc')
<1>1. doc \in [Items -> StateDocuments] /\ \A i \in Items : DocumentOk(doc[i]) /\ Recorded(doc[i])
  BY DEF IInv, Sound, DocsOk, AllRecorded
<1>2. InspectAll(doc) \in [Items -> StateDocuments] /\ AllRecorded(InspectAll(doc))
  BY InspectedOk, InspectedRecorded DEF IInv, Sound, DocsOk
<1>3. ASSUME NEW i \in Items, NEW r, Recorded(r), doc' = [InspectAll(doc) EXCEPT ![i] = r]
      PROVE  AllRecorded(doc')
  BY <1>2, <1>3, WriteRecorded
<1>4. ASSUME NEW i \in Items, HumanExit(i) PROVE AllRecorded(doc')
  <2> DEFINE d == InspectAll(doc)
  <2>1. d[i] \in StateDocuments /\ DocumentOk(d[i]) /\ Recorded(d[i])
    BY <1>2, OfferedFacts DEF AllRecorded
  <2>2. CASE acknowledgeBlocker(i) \/ retryWithContext(i)
    <3>1. d[i].lc \in Failed \cup {"blocked"}
      BY <2>2, OfferedFacts DEF acknowledgeBlocker, retryWithContext
    <3>2. doc' = [d EXCEPT ![i] = AfterHumanAcknowledged(d[i])]
      BY <2>2, OfferedFacts DEF acknowledgeBlocker, retryWithContext
    <3> QED
      BY <1>3, <2>1, <3>1, <3>2, RestoredRecorded
  <2>3. CASE openFixFromConversation(i)
    <3>1. PICK f \in Fixes : WaitOnFix(d, i, [d[i] EXCEPT !.ack = FALSE], f)
      BY <2>3 DEF openFixFromConversation
    <3>2. [[d[i] EXCEPT !.ack = FALSE] EXCEPT !.onFix = f] = [d[i] EXCEPT !.ack = FALSE, !.onFix = f]
      OBVIOUS
    <3>3. Recorded([[d[i] EXCEPT !.ack = FALSE] EXCEPT !.onFix = f])
      BY <2>1, <3>2, FreshRecorded
    <3> HIDE DEF d
    <3> QED
      BY <1>2, <3>1, <3>3, WaitRecorded DEF d
  <2>4. CASE correctSpecification(i)
    <3>1. doc' = [d EXCEPT ![i] = SpecificationInvalidated(d[i])]
      BY <2>4 DEF correctSpecification
    <3> QED
      BY <1>3, <2>1, <3>1, FreshRecorded
  <2> QED
    BY <1>4, <2>2, <2>3, <2>4 DEF HumanExit
<1>5. ASSUME NEW i \in Items, confirmFeatureValidation(i) PROVE AllRecorded(doc')
  BY <1>1, <1>3, <1>5, FreshRecorded DEF confirmFeatureValidation
<1>6. ASSUME NEW i \in Items, NEW n \in 0..MaxRequests, Formalize(i, n) PROVE AllRecorded(doc')
  BY <1>3, <1>6, FreshRecorded DEF Formalize
<1>7. ASSUME NEW f \in Fixes, CompleteFixByHand(f) PROVE AllRecorded(doc')
  <2>1. f \in Items /\ Recorded(AfterCompletion(doc[f]))
    BY <1>1, ItemsAreNumbers, WorkRecorded DEF DocumentOk
  <2> QED
    BY <1>1, <1>7, <2>1, WriteRecorded DEF CompleteFixByHand
<1>8. InspectStatus => AllRecorded(doc')
  <2> SUFFICES ASSUME InspectStatus PROVE AllRecorded(doc')
    OBVIOUS
  <2>1. doc' = InspectAll(doc)
    BY DEF InspectStatus
  <2> QED
    BY <1>2, <2>1 DEF AllRecorded
<1>9. (\E loop \in LoopModes, target \in RunTargets : StartRun(loop, target)) => AllRecorded(doc')
  BY DEF StartRun, AllRecorded
<1> QED
  BY <1>4, <1>5, <1>6, <1>7, <1>8, <1>9 DEF BetweenRuns

\* Every block is recorded and knows what it suspended, in any order of failures, blocks,
\* diagnoses, repairs and restorations, for a Doctor that answers what its prompt offers.
THEOREM Recording == DoctorAsTold => (Spec => []AllRecorded(doc))
<1> SUFFICES ASSUME DoctorAsTold PROVE Spec => []AllRecorded(doc)
  OBVIOUS
<1>1. Init => AllRecorded(doc)
  <2>1. Recorded(Blank("request_pending")) /\ Recorded(Blank("absent"))
    BY FreshRecorded DEF Lifecycles, PendingSpecification, Failed
  <2>2. Init => \A i \in Items : doc[i] \in {Blank("request_pending"), Blank("absent")}
    BY DEF Init
  <2> QED
    BY <2>1, <2>2 DEF AllRecorded
<1>2. IInv /\ AllRecorded(doc) /\ [Next]_vars => AllRecorded(doc)'
  <2> SUFFICES ASSUME IInv, AllRecorded(doc), [Next]_vars PROVE AllRecorded(doc')
    BY DEF AllRecorded
  <2>1. CASE UNCHANGED vars
    BY <2>1 DEF vars, AllRecorded
  <2>2. CASE BetweenRuns
    BY <2>2, BetweenRunsRecorded
  <2>3. CASE \E i \in Items : StepOf(i)
    BY <2>3, StepRecorded
  <2>4. CASE StopStep \/ ControlledStop
    <3>1. doc' = doc \/ doc' = Inspected
      BY <2>4 DEF StopStep, ControlledStop
    <3> QED
      BY <3>1, InspectedRecorded DEF AllRecorded
  <2> QED
    BY <2>1, <2>2, <2>3, <2>4 DEF Next, RunStep
<1> QED
  BY <1>1, <1>2, Invariant, PTL DEF Spec

\* What failed or is blocked says why until it is resumed.
THEOREM BlocksAreRecorded == DoctorAsTold => (Spec => []BlockedIsRecorded)
<1> SUFFICES ASSUME DoctorAsTold PROVE Spec => []BlockedIsRecorded
  OBVIOUS
<1>1. AllRecorded(doc) => BlockedIsRecorded
  BY DEF AllRecorded, Recorded, BlockedIsRecorded
<1> QED
  BY <1>1, Recording, PTL

(***************************************************************************)
(* What waits on a fix.                                                    *)
(***************************************************************************)

\* A blocked item knows what it was suspended from, and resuming it takes it there.
LEMMA ResumedFrom ==
  ASSUME NEW s, DocumentOk(s), Recorded(s), s.lc = "blocked"
  PROVE  /\ s.from.lc \notin {"none", "blocked"}
         /\ AfterFixResolved(s).lc = s.from.lc /\ AfterFixResolved(s).task = s.from.task
         /\ ~MissingPointer(AfterFixResolved(s))
<1>1. s \in StateDocuments /\ s.from.lc \notin {"none", "blocked"}
  BY DEF DocumentOk, Recorded
<1>2. preferredRestorationTarget(s) = s.from
  BY <1>1 DEF preferredRestorationTarget
<1>3. AfterFixResolved(s).lc = s.from.lc /\ AfterFixResolved(s).task = s.from.task
  BY <1>1, <1>2 DEF AfterFixResolved, Restored, StateDocuments
<1>4. DocumentOk(AfterFixResolved(s))
  BY RestoredOk DEF Failed
<1> QED
  BY <1>1, <1>3, <1>4 DEF DocumentOk, MissingPointer

\* What waits on a fix can be resumed, whichever writes named the fix, moved the item on and
\* blocked it again.
THEOREM FixWait == DoctorAsTold => (Spec => []FixWaitIsResumable)
<1> SUFFICES ASSUME DoctorAsTold PROVE Spec => []FixWaitIsResumable
  OBVIOUS
<1>1. IInv /\ AllRecorded(doc) => FixWaitIsResumable
  <2> SUFFICES ASSUME IInv, AllRecorded(doc), NEW i \in Items, doc[i].onFix # NoFix
               PROVE  /\ doc[i].onFix \in Fixes /\ doc[doc[i].onFix].lc # "absent"
                      /\ doc[i].lc = "blocked" =>
                           /\ doc[i].from.lc \notin {"none", "blocked"}
                           /\ ~MissingPointer(AfterFixResolved(doc[i]))
    BY DEF FixWaitIsResumable
  <2>1. DocumentOk(doc[i]) /\ Recorded(doc[i]) /\ WaitOk(doc, i)
    BY DEF IInv, Sound, DocsOk, AllRecorded
  <2> QED
    BY <2>1, ResumedFrom DEF WaitOk
<1> QED
  BY <1>1, Invariant, Recording, PTL

\* An item blocked on a fix is moved by a person who takes an exit for it, or is resumed from
\* where it was suspended once the fix is completed.
THEOREM Resumption == DoctorAsTold => (Spec => ResumeOnlyWhenFixCompleted)
<1> SUFFICES ASSUME DoctorAsTold PROVE Spec => ResumeOnlyWhenFixCompleted
  OBVIOUS
<1>1. IInv /\ AllRecorded(doc) /\ [Next]_vars =>
        [\A i \in Items : doc[i].lc = "blocked" /\ doc[i].onFix # NoFix /\ doc'[i] # doc[i] =>
           \/ HumanExit(i)
           \/ /\ doc[doc[i].onFix].lc = "completed"
              /\ doc[i].from.lc # "none"
              /\ \/ doc'[i].lc = doc[i].from.lc /\ doc'[i].task = doc[i].from.task
                 \/ run.on]_vars
  <2> SUFFICES ASSUME IInv, AllRecorded(doc), Next, NEW i \in Items,
                      doc[i].lc = "blocked", doc[i].onFix # NoFix, doc'[i] # doc[i],
                      ~HumanExit(i)
               PROVE  /\ doc[doc[i].onFix].lc = "completed"
                      /\ doc[i].from.lc # "none"
                      /\ \/ doc'[i].lc = doc[i].from.lc /\ doc'[i].task = doc[i].from.task
                         \/ run.on
    BY DEF vars
  <2>1. doc[i].from.lc # "none"
    BY DEF AllRecorded, Recorded
  <2>2. CASE RunStep
    <3>1. run.on /\ Inspect(doc, i) # doc[i]
      BY <2>2, RunStepFrame
    <3> QED
      BY <2>1, <3>1, InspectFacts
  <2>3. CASE BetweenRuns
    <3>1. doc'[i] = Inspect(doc, i)
      BY <2>3, BetweenRunsFrame
    <3>2. Inspect(doc, i) # doc[i]
      BY <3>1
    <3> QED
      BY <2>1, <3>1, <3>2, InspectFacts
  <2> QED
    BY <2>2, <2>3 DEF Next
<1> QED
  BY <1>1, Invariant, Recording, PTL DEF Spec, ResumeOnlyWhenFixCompleted

(***************************************************************************)
(* A loop that ends by itself.                                             *)
(***************************************************************************)

\* What neither pass selects, once inspected, cannot be advanced by the pipeline, and an
\* item inspection resumes is always selected by one of them.
LEMMA PassedOverIsAtRest ==
  ASSUME IInv, AllRecorded(doc), NEW i \in Items,
         ~isContinuing(Inspect(doc, i)), ~isStartable(Inspect(doc, i))
  PROVE  AtRest(i)
<1> DEFINE s == doc[i]
           r == Inspect(doc, i)
<1>1. DocumentOk(s) /\ s \in StateDocuments /\ WaitOk(doc, i)
  BY DEF IInv, Sound, DocsOk, DocumentOk
<1>2. CASE r = s
  <2>1. WorkItemInspectionKind(s) \in
          {"absent", "completed", "blocked_on_fix", "awaiting_validation", "blocked_on_human"}
            \cup PendingSpecification
    BY <1>2 DEF isContinuing, isStartable
  <2>2. ~MissingPointer(s)
    BY <1>1 DEF DocumentOk, MissingPointer
  <2>3. s.lc = "blocked" /\ s.onFix # NoFix => doc[s.onFix].lc # "completed"
    <3> SUFFICES ASSUME s.lc = "blocked", s.onFix # NoFix, doc[s.onFix].lc = "completed"
                 PROVE  FALSE
      OBVIOUS
    <3>1. r = AfterFixResolved(s)
      BY <1>1 DEF Inspect, isFixResolved, WaitOk
    <3>2. AfterFixResolved(s).onFix = NoFix
      BY <1>1 DEF AfterFixResolved, Restored, StateDocuments
    <3> QED
      BY <1>2, <3>1, <3>2
  <2> QED
    BY <1>1, <2>1, <2>2, <2>3 DEF AtRest, WorkItemInspectionKind, StateDocuments, Lifecycles,
       PendingSpecification, Planning, Executing, Failed
<1>3. CASE r # s
  <2>1. s.lc = "blocked" /\ s.onFix # NoFix /\ r = AfterFixResolved(s)
    BY <1>3 DEF Inspect
  <2>2. /\ s.from.lc \in Planning \cup Executing \cup {"correction_pending"}
        /\ s.val = "confirmed" /\ DocumentOk(r)
    <3>1. s.val = "confirmed" /\ TargetOk(s.from) /\ Recorded(s)
      BY <1>1, <2>1 DEF DocumentOk, AllRecorded, Untouched, PendingSpecification, Planning
    <3>2. DocumentOk(r)
      BY <1>1, <2>1, RestoredOk
    <3> QED
      BY <2>1, <3>1, <3>2 DEF TargetOk, NoTarget, Recorded
  <2>3. r.lc = s.from.lc /\ r.onFix = NoFix /\ r.val = "confirmed"
    BY <1>1, <2>1, <2>2 DEF AfterFixResolved, Restored, preferredRestorationTarget,
                            StateDocuments, Planning, Executing
  <2>4. ~MissingPointer(r)
    BY <2>2 DEF DocumentOk, MissingPointer
  <2>5. WorkItemInspectionKind(r) = r.lc
    BY <2>2, <2>3, <2>4 DEF WorkItemInspectionKind, Planning, Executing
  <2>6. isContinuing(r) \/ isStartable(r)
    BY <2>2, <2>3, <2>5 DEF isContinuing, isStartable, Planning, Executing, PendingSpecification
  <2> QED
    BY <2>6
<1> QED
  BY <1>2, <1>3

\* The exit a run has in its record while it is on is none of those it ends with.
Running == run.on => run.exit = "none"

\* How a step leaves the run.
LEMMA StepEnds ==
  ASSUME NEW i, StepOf(i)
  PROVE  \/ \E n : Advanced(n) \/ AdvancedWithApproval(n) \/ SetAside(i, n)
         \/ run' = Ended("failed") \/ run' = Ended("stopped")
<1> DEFINE Ends == \/ \E n : Advanced(n) \/ AdvancedWithApproval(n) \/ SetAside(i, n)
                   \/ run' = Ended("failed") \/ run' = Ended("stopped")
<1>1. ASSUME NEW d, NEW n, DiagnoseFrom(d, i, n) PROVE Ends
  <2>1. ASSUME NEW m, CorrectState(d, i, m) PROVE Ends
    BY <2>1 DEF CorrectState
  <2> QED
    BY <1>1, <2>1 DEF DiagnoseFrom
<1>2. DiagnoseAutocorrect(i) => Ends
  BY <1>1 DEF DiagnoseAutocorrect
<1>3. ASSUME NEW d, NEW lc, NEW n, Rejected(d, i, lc, n) PROVE Ends
  BY <1>1, <1>3 DEF Rejected
<1>4. ReviewSubtask(i) => Ends
  BY <1>3 DEF ReviewSubtask
<1>5. PlanTask(i) \/ AttemptCompletion(i) \/ PlanFixTask(i) \/ PlanSubtask(i) => Ends
  BY DEF PlanTask, AttemptCompletion, PlanFixTask, PlanSubtask
<1>6. ImplementSubtask(i) \/ InterruptImplementation(i) \/ StepThrows(i) => Ends
  BY DEF ImplementSubtask, InterruptImplementation, StepThrows
<1> QED
  BY <1>2, <1>4, <1>5, <1>6 DEF StepOf

\* Within a loop only a stop decision, an error or a request ends the run.
LEMMA LoopSteps ==
  ASSUME IInv, NEW i \in Items, StepOf(i), run.on, run.loop
  PROVE  run'.exit \in {run.exit, "failed", "stopped"} /\ (run'.on => run'.exit = run.exit)
<1>1. \A n : /\ Advanced(n) => run'.exit = run.exit
             /\ AdvancedWithApproval(n) => run'.exit = run.exit
             /\ SetAside(i, n) => run'.exit = run.exit
  BY DEF IInv, Runs, Advanced, AdvancedWithApproval, SetAside
<1>2. Ended("failed").exit = "failed" /\ Ended("stopped").exit = "stopped"
      /\ ~Ended("failed").on /\ ~Ended("stopped").on
  BY DEF Ended
<1> QED
  BY <1>1, <1>2, StepEnds

LEMMA RunningKept ==
  ASSUME IInv, Running, [Next]_vars
  PROVE  Running'
<1>1. ASSUME NEW i \in Items, StepOf(i) PROVE Running'
  <2>1. run.on
    BY <1>1, StepFrame DEF Selected
  <2>2. CASE run.loop
    BY <1>1, <2>1, <2>2, LoopSteps DEF Running
  <2>3. CASE ~run.loop
    <3>1. \A exit : ~Ended(exit).on
      BY DEF Ended
    <3>2. \E exit : run' = Ended(exit)
      BY <1>1, <2>3, StepEnds DEF Advanced, AdvancedWithApproval, SetAside
    <3> QED
      BY <3>1, <3>2 DEF Running
  <2> QED
    BY <2>2, <2>3
<1>2. StopStep \/ ControlledStop => Running'
  BY DEF StopStep, ControlledStop, Ended, Running
<1>3. (\E loop \in LoopModes, target \in RunTargets : StartRun(loop, target)) => Running'
  BY DEF StartRun, Running
<1>4. CASE run' = run
  BY <1>4 DEF Running
<1>5. BetweenRuns => \/ run' = run
                     \/ \E loop \in LoopModes, target \in RunTargets : StartRun(loop, target)
  BY DEF BetweenRuns, InspectStatus, confirmFeatureValidation, HumanExit, acknowledgeBlocker,
         retryWithContext, openFixFromConversation, correctSpecification, Formalize,
         CompleteFixByHand
<1> QED
  BY <1>1, <1>2, <1>3, <1>4, <1>5 DEF Next, RunStep, vars

\* A loop that ends by itself, with calls and tasks left, leaves nothing it may select that
\* the pipeline could still advance, an item whose fix is completed included.
THEOREM ExitIsQuiescent == DoctorAsTold => (Spec => QuiescentExit)
<1> SUFFICES ASSUME DoctorAsTold PROVE Spec => QuiescentExit
  OBVIOUS
<1>1. Init => Running
  BY DEF Init, Ended, Running
<1>2. IInv /\ Running /\ [Next]_vars => Running'
  BY RunningKept
<1>3. IInv /\ AllRecorded(doc) /\ Running /\ [Next]_vars =>
        [run.on /\ run.loop /\ run'.exit \in {"done", "needs_human"}
           /\ ~aiBudgetReached /\ ~primaryTaskLimitReached
         => \A i \in Items : selectable(i) => AtRest(i)]_vars
  <2> SUFFICES ASSUME IInv, AllRecorded(doc), Running, Next, run.on, run.loop,
                      run'.exit \in {"done", "needs_human"},
                      ~aiBudgetReached, ~primaryTaskLimitReached,
                      NEW i \in Items, selectable(i)
               PROVE  AtRest(i)
    BY DEF vars
  <2>1. ~BetweenRuns
    BY DEF BetweenRuns, StartRun, InspectStatus, confirmFeatureValidation, HumanExit,
           acknowledgeBlocker, retryWithContext, openFixFromConversation, correctSpecification,
           BlockedOnHuman, Offered, Formalize, CompleteFixByHand
  <2>2. \A j \in Items : ~StepOf(j)
    BY LoopSteps DEF Running
  <2>3. ~ControlledStop
    BY DEF ControlledStop, Ended
  <2>4. StopStep
    BY <2>1, <2>2, <2>3 DEF Next, RunStep
  <2>5. ~Candidate(Inspected, i)
    BY <2>4 DEF StopStep
  <2>6. Inspected[i] = Inspect(doc, i)
    BY DEF Inspected
  <2> QED
    BY <2>5, <2>6, PassedOverIsAtRest DEF Candidate
<1> QED
  BY <1>1, <1>2, <1>3, Invariant, Recording, PTL DEF Spec, QuiescentExit
=============================================================================
