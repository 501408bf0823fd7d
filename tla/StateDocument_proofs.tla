------------------------ MODULE StateDocument_proofs ------------------------
(***************************************************************************)
(* What each writer of the state document preserves.  DocumentOk is the    *)
(* inductive form of what a single document must satisfy: it adds to the   *)
(* properties of WorkItemLoop the shape of the suspended target, without   *)
(* which restoring an item could not be shown to leave it runnable.        *)
(***************************************************************************)
EXTENDS StateDocument, TLAPS

\* A suspended target can be resumed: its anchor is there if its state needs one, and
\* there is none if it does not.
TargetOk(t) ==
  \/ t = NoTarget
  \/ /\ t.lc \in Planning \cup Executing \cup {"correction_pending", "blocked"}
     /\ t.lc \in Executing => t.task # NoTask
     /\ t.lc = "correction_pending" => t.corr # NoTask
     /\ t.lc \in Planning => t.task = NoTask /\ t.corr = NoTask

Untouched == {"absent"} \cup PendingSpecification

DocumentOk(s) ==
  /\ s \in StateDocuments
  /\ s.lc \in Executing \cup Failed => s.task # NoTask
  /\ s.lc = "correction_pending" => s.corr # NoTask
  /\ s.lc \in Planning \cup {"completed"} => s.task = NoTask /\ s.corr = NoTask
  /\ s.lc \notin Untouched \cup Planning => s.val = "confirmed"
  /\ s.lc \notin Failed \cup {"blocked"} => s.from = NoTarget
  /\ TargetOk(s.from)
  /\ s.lc \in Failed => s.from.lc \notin Planning
  /\ s.lc = "blocked" /\ s.from.lc \in Planning => s.review = "blocked"
  /\ s.review = "changes_required" => s.lc = "correction_pending" /\ s.corr = s.task + 1
  /\ s.lc = "absent" => ~s.ack

\* Items nobody touched, and fresh specifications, are sound documents.
LEMMA BlankOk ==
  ASSUME NEW lc \in {"absent", "request_pending", "formalized"}
  PROVE  DocumentOk(Blank(lc))
BY DEF Blank, DocumentOk, StateDocuments, TargetOk, NoTarget, NoTask, NoFix, NoBlocker,
       RestorationTargets, Lifecycles, PendingSpecification, Planning, Executing, Failed,
       Untouched

\* The document a fix is filed with is sound.
LEMMA FiledOk == DocumentOk(Filed)
BY DEF Filed, Blank, DocumentOk, StateDocuments, TargetOk, NoTarget, NoTask, NoFix, NoBlocker,
       RestorationTargets, Lifecycles, PendingSpecification, Planning, Executing, Failed,
       Untouched

\* Confirming a specification keeps the document sound (confirmFeatureValidation).
LEMMA ValidatedOk ==
  ASSUME NEW s, DocumentOk(s), s.lc \in Planning
  PROVE  DocumentOk(Validated(s))
<1> DEFINE r == Validated(s)
<1>1. s \in StateDocuments
  BY DEF DocumentOk
<1>2. r \in StateDocuments
  BY <1>1 DEF Validated, StateDocuments, RestorationTargets, Lifecycles, PendingSpecification,
              Planning, Executing, Failed, NoTask, NoFix, NoTarget
<1>3. /\ r.lc = s.lc /\ r.task = s.task /\ r.corr = s.corr /\ r.from = s.from
      /\ r.review = s.review /\ r.onFix = s.onFix /\ r.ack = s.ack
  BY <1>1 DEF Validated, StateDocuments
<1> HIDE DEF r
<1>4. DocumentOk(r)
  BY <1>2, <1>3 DEF DocumentOk, TargetOk, NoTarget, NoTask, NoFix, PendingSpecification, Planning,
                  Executing, Failed, Untouched
<1> QED
  BY <1>4 DEF r

\* Sending a blocked or failed item back to specification keeps it sound
\* (correctSpecification).
LEMMA SpecificationInvalidatedOk ==
  ASSUME NEW s, DocumentOk(s), s.lc \in Failed \cup {"blocked"}
  PROVE  DocumentOk(SpecificationInvalidated(s))
<1> DEFINE r == SpecificationInvalidated(s)
<1>1. s \in StateDocuments
  BY DEF DocumentOk
<1>2. r \in StateDocuments
  BY <1>1 DEF SpecificationInvalidated, StateDocuments, RestorationTargets, Lifecycles, PendingSpecification,
              Planning, Executing, Failed, NoTask, NoFix, NoTarget
<1>3. /\ r.lc = "formalization_pending" /\ r.from = NoTarget
      /\ r.review = s.review /\ r.onFix = s.onFix /\ r.ack = FALSE
  BY <1>1 DEF SpecificationInvalidated, StateDocuments
<1> HIDE DEF r
<1>4. DocumentOk(r)
  BY <1>2, <1>3 DEF DocumentOk, TargetOk, NoTarget, NoTask, NoFix, PendingSpecification, Planning,
                  Executing, Failed, Untouched
<1> QED
  BY <1>4 DEF r

\* Planning a task for a validated item gives it the anchor its new state needs.
LEMMA ForTaskPlanOk ==
  ASSUME NEW s, DocumentOk(s), s.lc \in Planning, s.val = "confirmed",
         NEW t \in Nat, t # NoTask
  PROVE  DocumentOk(ForTaskPlan(s, t))
<1> DEFINE r == ForTaskPlan(s, t)
<1>1. s \in StateDocuments
  BY DEF DocumentOk
<1>2. r \in StateDocuments
  BY <1>1 DEF ForTaskPlan, StateDocuments, RestorationTargets, Lifecycles, PendingSpecification,
              Planning, Executing, Failed, NoTask, NoFix, NoTarget
<1>3. /\ r.lc = "task_ready" /\ r.task = t /\ r.from = NoTarget /\ r.val = s.val
      /\ r.review = s.review /\ r.onFix = s.onFix /\ r.ack = s.ack
  BY <1>1 DEF ForTaskPlan, StateDocuments
<1> HIDE DEF r
<1>4. DocumentOk(r)
  BY <1>2, <1>3 DEF DocumentOk, TargetOk, NoTarget, NoTask, NoFix, PendingSpecification, Planning,
                  Executing, Failed, Untouched
<1> QED
  BY <1>4 DEF r

\* Handing a task or a correction to the implementer keeps its anchor.
LEMMA DuringImplementationOk ==
  ASSUME NEW s, DocumentOk(s), NEW t \in Nat, t # NoTask,
         s.lc \in Executing \cup {"correction_pending"}
  PROVE  DocumentOk(DuringImplementation(s, t))
<1> DEFINE r == DuringImplementation(s, t)
<1>1. s \in StateDocuments
  BY DEF DocumentOk
<1>2. r \in StateDocuments
  BY <1>1 DEF DuringImplementation, StateDocuments, RestorationTargets, Lifecycles, PendingSpecification,
              Planning, Executing, Failed, NoTask, NoFix, NoTarget
<1>3. /\ r.lc = "implementation_running" /\ r.task = t /\ r.from = NoTarget
      /\ r.val = s.val /\ r.review = "not_run" /\ r.onFix = s.onFix /\ r.ack = s.ack
  BY <1>1 DEF DuringImplementation, StateDocuments
<1> HIDE DEF r
<1>4. DocumentOk(r)
  BY <1>2, <1>3 DEF DocumentOk, TargetOk, NoTarget, NoTask, NoFix, PendingSpecification, Planning,
                  Executing, Failed, Untouched
<1> QED
  BY <1>4 DEF r

\* A failed implementation suspends the item at a task that is there to resume.
LEMMA AfterImplementationFailureOk ==
  ASSUME NEW s, DocumentOk(s), s.lc \in Executing
  PROVE  DocumentOk(AfterImplementationFailure(s))
<1> DEFINE r == AfterImplementationFailure(s)
<1>1. s \in StateDocuments
  BY DEF DocumentOk
<1> DEFINE b == [kind |-> "other", recov |-> "agent", seen |-> "implementation_failed",
                 why |-> "implementation", task |-> s.task]
           target == [lc |-> "task_ready", task |-> s.task, corr |-> NoTask]
<1>b. b \in Blockers /\ target \in RestorationTargets
  BY <1>1 DEF StateDocuments, Blockers, BlockerKinds, Recoverabilities, Reasons, Lifecycles,
              Executing, Failed, RestorationTargets, NoTask
<1> HIDE DEF b, target
<1>2. r \in StateDocuments
  BY <1>1, <1>b DEF AfterImplementationFailure, StateDocuments, Lifecycles, Failed, NoTask, b, target
<1>3. /\ r.lc = "implementation_failed" /\ r.task = s.task /\ r.val = s.val
      /\ r.from = [lc |-> "task_ready", task |-> s.task, corr |-> NoTask]
      /\ r.review = "not_run" /\ r.onFix = s.onFix /\ r.ack = s.ack
  BY <1>1 DEF AfterImplementationFailure, StateDocuments
<1> HIDE DEF r
<1>4. DocumentOk(r)
  BY <1>2, <1>3 DEF DocumentOk, TargetOk, NoTarget, NoTask, NoFix, PendingSpecification, Planning,
                  Executing, Failed, Untouched
<1> QED
  BY <1>4 DEF r

\* Passing the quality gates keeps the anchor for the review.
LEMMA AfterGatesPassedOk ==
  ASSUME NEW s, DocumentOk(s), s.lc \in Executing
  PROVE  DocumentOk(AfterGatesPassed(s))
<1> DEFINE r == AfterGatesPassed(s)
<1>1. s \in StateDocuments
  BY DEF DocumentOk
<1>2. r \in StateDocuments
  BY <1>1 DEF AfterGatesPassed, StateDocuments, RestorationTargets, Lifecycles, PendingSpecification,
              Planning, Executing, Failed, NoTask, NoFix, NoTarget
<1>3. /\ r.lc = "review_pending" /\ r.task = s.task /\ r.val = s.val /\ r.from = NoTarget
      /\ r.review = "not_run" /\ r.onFix = s.onFix /\ r.ack = s.ack
  BY <1>1 DEF AfterGatesPassed, StateDocuments
<1> HIDE DEF r
<1>4. DocumentOk(r)
  BY <1>2, <1>3 DEF DocumentOk, TargetOk, NoTarget, NoTask, NoFix, PendingSpecification, Planning,
                  Executing, Failed, Untouched
<1> QED
  BY <1>4 DEF r

\* A failed quality gate suspends the item at a task that is there to resume.
LEMMA AfterGatesFailedOk ==
  ASSUME NEW s, DocumentOk(s), s.lc \in Executing, NEW recov \in Recoverabilities
  PROVE  DocumentOk(AfterGatesFailed(s, recov))
<1> DEFINE r == AfterGatesFailed(s, recov)
<1>1. s \in StateDocuments
  BY DEF DocumentOk
<1> DEFINE b == [kind |-> "other", recov |-> recov, seen |-> "implementation_running",
                 why |-> "gates", task |-> s.task]
           target == [lc |-> "implementation_running", task |-> s.task, corr |-> NoTask]
<1>b. b \in Blockers /\ target \in RestorationTargets
  BY <1>1 DEF StateDocuments, Blockers, BlockerKinds, Recoverabilities, Reasons, Lifecycles,
              Executing, Failed, RestorationTargets, NoTask
<1> HIDE DEF b, target
<1>2. r \in StateDocuments
  BY <1>1, <1>b DEF AfterGatesFailed, StateDocuments, Lifecycles, Failed, NoTask, b, target
<1>3. /\ r.lc = "quality_failed" /\ r.task = s.task /\ r.val = s.val
      /\ r.from = [lc |-> "implementation_running", task |-> s.task, corr |-> NoTask]
      /\ r.review = "not_run" /\ r.onFix = s.onFix /\ r.ack = s.ack
  BY <1>1 DEF AfterGatesFailed, StateDocuments
<1> HIDE DEF r
<1>4. DocumentOk(r)
  BY <1>2, <1>3 DEF DocumentOk, TargetOk, NoTarget, NoTask, NoFix, PendingSpecification, Planning,
                  Executing, Failed, Untouched
<1> QED
  BY <1>4 DEF r

\* An approved review leaves no pointer to the task it approved.
LEMMA AfterApprovedReviewOk ==
  ASSUME NEW s, DocumentOk(s), s.lc \in Executing
  PROVE  DocumentOk(AfterApprovedReview(s))
<1> DEFINE r == AfterApprovedReview(s)
<1>1. s \in StateDocuments
  BY DEF DocumentOk
<1>2. r \in StateDocuments
  BY <1>1 DEF AfterApprovedReview, StateDocuments, RestorationTargets, Lifecycles, PendingSpecification,
              Planning, Executing, Failed, NoTask, NoFix, NoTarget
<1>3. /\ r.lc = "formalized" /\ r.task = NoTask /\ r.corr = NoTask /\ r.from = NoTarget
      /\ r.review = "approved" /\ r.onFix = s.onFix /\ r.ack = s.ack
  BY <1>1 DEF AfterApprovedReview, StateDocuments
<1> HIDE DEF r
<1>4. DocumentOk(r)
  BY <1>2, <1>3 DEF DocumentOk, TargetOk, NoTarget, NoTask, NoFix, PendingSpecification, Planning,
                  Executing, Failed, Untouched
<1> QED
  BY <1>4 DEF r

\* A correction is recorded together with the rejection that asks for it.
LEMMA ForCorrectionOk ==
  ASSUME NEW s, DocumentOk(s), s.lc \in Executing, NEW c \in Nat, c = s.task + 1
  PROVE  DocumentOk(ForCorrection(s, c))
<1> DEFINE r == ForCorrection(s, c)
<1>1. s \in StateDocuments
  BY DEF DocumentOk
<1>2. r \in StateDocuments
  BY <1>1 DEF ForCorrection, StateDocuments, RestorationTargets, Lifecycles, PendingSpecification,
              Planning, Executing, Failed, NoTask, NoFix, NoTarget
<1>3. /\ r.lc = "correction_pending" /\ r.corr = c /\ r.task = s.task
      /\ r.from = NoTarget /\ r.val = s.val /\ s.task \in Nat
      /\ r.onFix = s.onFix /\ r.ack = s.ack
  BY <1>1 DEF ForCorrection, StateDocuments
<1> HIDE DEF r
<1>4. DocumentOk(r)
  BY <1>2, <1>3 DEF DocumentOk, TargetOk, NoTarget, NoTask, NoFix, PendingSpecification, Planning,
                  Executing, Failed, Untouched
<1> QED
  BY <1>4 DEF r

\* Completing an item between two tasks keeps its document sound.
LEMMA AfterCompletionOk ==
  ASSUME NEW s, DocumentOk(s), s.lc \in Planning, s.val = "confirmed"
  PROVE  DocumentOk(AfterCompletion(s))
<1> DEFINE r == AfterCompletion(s)
<1>1. s \in StateDocuments
  BY DEF DocumentOk
<1>2. r \in StateDocuments
  BY <1>1 DEF AfterCompletion, StateDocuments, RestorationTargets, Lifecycles, PendingSpecification,
              Planning, Executing, Failed, NoTask, NoFix, NoTarget
<1>3. /\ r.lc = "completed" /\ r.task = NoTask /\ r.corr = NoTask /\ r.from = s.from
      /\ r.val = s.val /\ r.review = s.review /\ r.onFix = s.onFix /\ r.ack = s.ack
  BY <1>1 DEF AfterCompletion, StateDocuments
<1> HIDE DEF r
<1>4. DocumentOk(r)
  BY <1>2, <1>3 DEF DocumentOk, TargetOk, NoTarget, NoTask, NoFix, PendingSpecification, Planning,
                  Executing, Failed, Untouched
<1> QED
  BY <1>4 DEF r

\* The repair of a failed or blocked item keeps an anchor, though no suspended target.
LEMMA AfterStateCorrectionOk ==
  ASSUME NEW s, DocumentOk(s), s.lc \in Failed \cup {"blocked"},
         NEW anchor \in Nat, anchor # NoTask
  PROVE  DocumentOk(AfterStateCorrection(s, anchor))
<1> DEFINE r == AfterStateCorrection(s, anchor)
<1>1. s \in StateDocuments
  BY DEF DocumentOk
<1>2. r \in StateDocuments
  BY <1>1 DEF AfterStateCorrection, StateDocuments, RestorationTargets, Lifecycles, PendingSpecification,
              Planning, Executing, Failed, NoTask, NoFix, NoTarget
<1>3. /\ r.lc = s.lc /\ r.task = anchor /\ r.from = NoTarget /\ r.val = s.val
      /\ r.review = "approved" /\ r.onFix = s.onFix /\ r.ack = s.ack
  BY <1>1 DEF AfterStateCorrection, StateDocuments
<1> HIDE DEF r
<1>4. DocumentOk(r)
  BY <1>2, <1>3 DEF DocumentOk, TargetOk, NoTarget, NoTask, NoFix, PendingSpecification, Planning,
                  Executing, Failed, Untouched
<1> QED
  BY <1>4 DEF r

\* Asking for a person, or no longer, and naming a fix keep the document sound.
LEMMA WaitingOk ==
  ASSUME NEW s, DocumentOk(s), s.lc # "absent", NEW b \in BOOLEAN, NEW f \in Nat
  PROVE  DocumentOk([s EXCEPT !.ack = b, !.onFix = f])
<1> DEFINE r == [s EXCEPT !.ack = b, !.onFix = f]
<1>1. s \in StateDocuments
  BY DEF DocumentOk
<1>2. r \in StateDocuments
  BY <1>1 DEF StateDocuments
<1>3. /\ r.lc = s.lc /\ r.task = s.task /\ r.corr = s.corr /\ r.from = s.from /\ r.val = s.val
      /\ r.review = s.review
  BY <1>1 DEF StateDocuments
<1> HIDE DEF r
<1>4. DocumentOk(r)
  BY <1>2, <1>3 DEF DocumentOk
<1> QED
  BY <1>4 DEF r

\* A suspended item's target is one it can be restored to.
LEMMA TargetOfOk ==
  ASSUME NEW s, DocumentOk(s), s.lc \notin Untouched \cup {"completed"}
  PROVE  /\ preferredRestorationTarget(s) \in RestorationTargets
         /\ TargetOk(preferredRestorationTarget(s))
         /\ preferredRestorationTarget(s) # NoTarget
         /\ preferredRestorationTarget(s).lc
              \in Planning \cup Executing \cup {"correction_pending", "blocked"}
<1>1. s \in StateDocuments
  BY DEF DocumentOk
<1> QED
  BY <1>1 DEF preferredRestorationTarget, forwardRestorationLifecycleState, DocumentOk,
              StateDocuments, TargetOk, NoTarget, NoTask, RestorationTargets, Lifecycles,
              PendingSpecification, Planning, Executing, Failed, Untouched

\* A block, or a failed review, recorded for an item that is being worked on.
LEMMA ForBlockedOk ==
  ASSUME NEW s, DocumentOk(s), s.val = "confirmed",
         s.lc \notin Untouched \cup {"completed"},
         NEW b \in Blockers,
         NEW lc \in {"blocked", "review_failed"},
         lc = "review_failed" => s.lc \in Executing
  PROVE  /\ DocumentOk(ForBlocked(s, b, lc))
         /\ ForBlocked(s, b, lc).lc = lc /\ ForBlocked(s, b, lc).by = b
         /\ ForBlocked(s, b, lc).val = "confirmed"
         /\ ForBlocked(s, b, lc).onFix = s.onFix
         /\ ForBlocked(s, b, lc).from.lc # "none"
<1> DEFINE r == ForBlocked(s, b, lc)
           target == preferredRestorationTarget(s)
<1>1. s \in StateDocuments
  BY DEF DocumentOk
<1>2. target \in RestorationTargets /\ TargetOk(target) /\ target # NoTarget
      /\ target.lc # "none"
  BY TargetOfOk DEF Planning, Executing
<1>3. r \in StateDocuments
  BY <1>1, <1>2 DEF ForBlocked, StateDocuments, RestorationTargets, Lifecycles, Failed
<1>4. /\ r.lc = lc /\ r.task = target.task /\ r.corr = target.corr /\ r.from = target
      /\ r.val = s.val /\ r.review = IF lc = "review_failed" THEN "failed" ELSE "blocked"
      /\ r.onFix = s.onFix /\ r.ack = s.ack /\ r.by = b
  BY <1>1 DEF ForBlocked, StateDocuments
<1>5. lc = "review_failed" => target.task # NoTask /\ target.lc \notin Planning
  BY <1>1 DEF DocumentOk, preferredRestorationTarget, forwardRestorationLifecycleState,
              Executing, Failed, NoTarget, Planning
<1> HIDE DEF r, target
<1>6. DocumentOk(r)
  BY <1>2, <1>3, <1>4, <1>5 DEF DocumentOk, NoTask, NoFix, PendingSpecification, Planning,
                                Executing, Failed, Untouched
<1> QED
  BY <1>2, <1>4, <1>6 DEF r

\* An item restored by a person, or by the completion of the fix it waited on.
LEMMA RestoredOk ==
  ASSUME NEW s, DocumentOk(s), s.lc \in Failed \cup {"blocked"}
  PROVE  DocumentOk(AfterHumanAcknowledged(s)) /\ DocumentOk(AfterFixResolved(s))
<1> DEFINE a == AfterHumanAcknowledged(s)
           r == AfterFixResolved(s)
           target == preferredRestorationTarget(s)
<1>1. s \in StateDocuments /\ s.review # "changes_required" /\ s.val = "confirmed"
  BY DEF DocumentOk, Untouched, Planning, PendingSpecification, Failed
<1>2. /\ target \in RestorationTargets /\ TargetOk(target) /\ target # NoTarget
      /\ target.lc \in Planning \cup Executing \cup {"correction_pending", "blocked"}
  BY TargetOfOk DEF Untouched, PendingSpecification, Failed
<1>3. a \in StateDocuments /\ r \in StateDocuments
  BY <1>1, <1>2 DEF AfterHumanAcknowledged, AfterFixResolved, Restored, StateDocuments,
                    RestorationTargets, Lifecycles, Planning, Executing, NoTarget, NoTask, NoFix
<1>4. ASSUME NEW u \in {a, r}
      PROVE  /\ u.lc = target.lc /\ u.task = target.task /\ u.corr = target.corr
             /\ u.from = NoTarget /\ u.val = s.val /\ u.review = s.review
  BY <1>1, <1>4 DEF AfterHumanAcknowledged, AfterFixResolved, Restored, StateDocuments
<1> HIDE DEF a, r, target
<1>5. ASSUME NEW u \in {a, r} PROVE DocumentOk(u)
  <2>1. ~(u.lc = "blocked" /\ u.from.lc \in Planning) /\ u.review # "changes_required"
    BY <1>1, <1>4, <1>5 DEF NoTarget, Planning
  <2> QED
    BY <1>1, <1>2, <1>3, <1>4, <1>5, <2>1 DEF DocumentOk, TargetOk, NoTarget, NoTask,
                PendingSpecification, Planning, Executing, Failed, Untouched
<1> QED
  BY <1>5 DEF a, r
=============================================================================
