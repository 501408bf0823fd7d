--------------------------- MODULE StateDocument ---------------------------
(***************************************************************************)
(* The state document of one work item (a feature or a fix): the `state.md`*)
(* the runtime reads to decide what to do and rewrites after doing it.     *)
(* Each operator below is one of the updateFeatureState... writers of      *)
(* orchestrator.ts: it takes a document and returns the document written   *)
(* back.  Only the sections that steer the loop are kept; narrative        *)
(* sections (Current Reality, hints, deliverables) are left out.           *)
(*                                                                         *)
(* A task id is a number: 0 is `none`, 1 a task as planned, and k + 1 the  *)
(* correction `<task k>-C<n>`, so k - 1 is the depth of its -C suffixes.   *)
(* Ids of a new primary task are never reused, so 1 always is the current  *)
(* primary task.                                                           *)
(***************************************************************************)
EXTENDS Naturals

NoTask == 0
NoFix  == 0

\* Lifecycle states.  `absent` is an item with no directory at all.
PendingSpecification == {"request_pending", "formalization_pending"}
Planning   == {"formalized", "task_planning_pending"}
Executing  == {"task_ready", "implementation_running", "quality_gates_pending",
               "review_pending"}
Failed     == {"implementation_failed", "quality_failed", "review_failed"}
Lifecycles == {"absent", "correction_pending", "blocked", "completed"}
                \cup PendingSpecification \cup Planning \cup Executing \cup Failed

\* `## Blocked From`: where a suspended item resumes.
RestorationTargets == [lc : Lifecycles \cup {"none"}, task : Nat, corr : Nat]
NoTarget == [lc |-> "none", task |-> NoTask, corr |-> NoTask]

\* `## Blocked By`.  `kind` keeps the one distinction diagnosis makes, `recov`
\* merges `human` with `terminal` and `agent` with `auto`; `seen`, `why` and `task`
\* stand for the lifecycle, the prose and the task id the signature is built from.
BlockerKinds      == {"state_corruption", "other"}
Recoverabilities  == {"agent", "human"}
Reasons == {"implementation", "gates", "review", "other_review", "plan", "unfinished",
            "refused", "conversation", "systemic", "stop", "diagnosed", "inspection"}
Blockers == [kind : BlockerKinds, recov : Recoverabilities,
             seen : Lifecycles, why : Reasons, task : Nat]
NoBlocker == [kind |-> "none"]
Signatures  == [kind : BlockerKinds, seen : Lifecycles, why : Reasons, task : Nat]
Signature(b) == [kind |-> b.kind, seen |-> b.seen, why |-> b.why, task |-> b.task]

StateDocuments ==
  [lc : Lifecycles, task : Nat, corr : Nat, val : {"not_started", "confirmed"},
   from : RestorationTargets, by : Blockers \cup {NoBlocker}, onFix : Nat, ack : BOOLEAN,
   gates : {"unknown", "passed", "failed"},
   review : {"not_run", "approved", "changes_required", "blocked", "failed"}]

\* A document with nothing in it but its lifecycle state.
Blank(lc) == [lc |-> lc, task |-> NoTask, corr |-> NoTask, val |-> "not_started",
              from |-> NoTarget, by |-> NoBlocker, onFix |-> NoFix, ack |-> FALSE,
              gates |-> "unknown", review |-> "not_run"]

(***************************************************************************)
(* What a document is inspected as.                                        *)
(***************************************************************************)

\* The execution anchor its lifecycle state needs is missing.
MissingPointer(s) ==
  \/ s.lc \in Executing /\ s.task = NoTask
  \/ s.lc = "correction_pending" /\ s.corr = NoTask

\* Seeded fault: a specification nobody validated is inspected by its lifecycle alone.
KindWithoutValidation(s) ==
  CASE MissingPointer(s)                            -> "malformed"
    [] s.lc = "blocked" /\ s.onFix # NoFix          -> "blocked_on_fix"
    [] s.lc = "blocked" /\ s.onFix = NoFix /\ s.ack -> "blocked_on_human"
    [] OTHER                                        -> s.lc

\* Seeded fault: human_ack_required is not consulted.
KindIgnoringAck(s) ==
  CASE s.lc \in Planning /\ s.val # "confirmed" -> "awaiting_validation"
    [] MissingPointer(s)                        -> "malformed"
    [] s.lc = "blocked" /\ s.onFix # NoFix      -> "blocked_on_fix"
    [] OTHER                                    -> s.lc

WorkItemInspectionKind(s) ==
  CASE s.lc \in Planning /\ s.val # "confirmed"     -> "awaiting_validation"
    [] MissingPointer(s)                            -> "malformed"
    [] s.lc = "blocked" /\ s.onFix # NoFix          -> "blocked_on_fix"
    [] s.lc = "blocked" /\ s.onFix = NoFix /\ s.ack -> "blocked_on_human"
    [] OTHER                                        -> s.lc

isStartable(s) == WorkItemInspectionKind(s) \in Planning

\* Seeded fault: an item waiting for review is forgotten by both passes.
ContinuingWithoutReview(s) ==
  WorkItemInspectionKind(s) \notin
    {"absent", "completed", "blocked_on_fix", "awaiting_validation", "blocked_on_human",
     "review_pending"} \cup PendingSpecification \cup Planning

isContinuing(s) ==
  WorkItemInspectionKind(s) \notin
    {"absent", "completed", "blocked_on_fix", "awaiting_validation", "blocked_on_human"}
      \cup PendingSpecification \cup Planning

(***************************************************************************)
(* Formalization and validation, both done by a human in a session.        *)
(***************************************************************************)
Formalized == Blank("formalized")

Validated(s) == [s EXCEPT !.val = "confirmed"]

\* A fix the runtime files for itself starts without a validation key, which reads
\* as confirmed.
Filed == [Blank("task_planning_pending") EXCEPT !.val = "confirmed"]

SpecificationInvalidated(s) ==
  [s EXCEPT !.lc = "formalization_pending", !.task = NoTask, !.corr = NoTask,
            !.val = "not_started", !.ack = FALSE, !.by = NoBlocker, !.from = NoTarget]

(***************************************************************************)
(* The work on one task.                                                   *)
(***************************************************************************)
ForTaskPlan(s, t) ==
  [s EXCEPT !.lc = "task_ready", !.task = t, !.corr = NoTask, !.from = NoTarget]

\* Seeded fault: the hand-over does not record that the implementation runs.
DuringImplementationUnrecorded(s, t) ==
  [s EXCEPT !.task = t, !.corr = NoTask, !.gates = "unknown", !.review = "not_run",
            !.from = NoTarget]

\* Seeded fault: the rejection that asked for a correction outlives it.
DuringImplementationKeepingReview(s, t) ==
  [s EXCEPT !.lc = "implementation_running", !.task = t, !.corr = NoTask,
            !.gates = "unknown", !.from = NoTarget]

DuringImplementation(s, t) ==
  [s EXCEPT !.lc = "implementation_running", !.task = t, !.corr = NoTask,
            !.gates = "unknown", !.review = "not_run", !.from = NoTarget]

AfterImplementationFailure(s) ==
  [s EXCEPT !.lc = "implementation_failed", !.corr = NoTask,
            !.gates = "unknown", !.review = "not_run",
            !.by = [kind |-> "other", recov |-> "agent", seen |-> "implementation_failed",
                    why |-> "implementation", task |-> s.task],
            !.from = [lc |-> "task_ready", task |-> s.task, corr |-> NoTask]]

AfterGatesPassed(s) ==
  [s EXCEPT !.lc = "review_pending", !.corr = NoTask, !.gates = "passed",
            !.review = "not_run", !.from = NoTarget]

\* Seeded fault: Blocked By is not rewritten when a gate fails.
AfterGatesFailedUnexplained(s, recov) ==
  [s EXCEPT !.lc = "quality_failed", !.corr = NoTask, !.gates = "failed",
            !.review = "not_run",
            !.from = [lc |-> "implementation_running", task |-> s.task, corr |-> NoTask]]

AfterGatesFailed(s, recov) ==
  [s EXCEPT !.lc = "quality_failed", !.corr = NoTask, !.gates = "failed",
            !.review = "not_run",
            !.by = [kind |-> "other", recov |-> recov, seen |-> "implementation_running",
                    why |-> "gates", task |-> s.task],
            !.from = [lc |-> "implementation_running", task |-> s.task, corr |-> NoTask]]

\* Seeded fault: the approved task stays the active one.
AfterApprovedReviewKeepingTask(s) ==
  [s EXCEPT !.lc = "formalized", !.corr = NoTask,
            !.gates = "passed", !.review = "approved", !.from = NoTarget]

AfterApprovedReview(s) ==
  [s EXCEPT !.lc = "formalized", !.task = NoTask, !.corr = NoTask,
            !.gates = "passed", !.review = "approved", !.from = NoTarget]

ForCorrection(s, c) ==
  [s EXCEPT !.lc = "correction_pending", !.corr = c,
            !.review = "changes_required", !.from = NoTarget]

AfterCompletion(s) ==
  [s EXCEPT !.lc = "completed", !.task = NoTask, !.corr = NoTask, !.by = NoBlocker]

\* The repair keeps the lifecycle state it found and records the work as accepted.
AfterStateCorrection(s, anchor) ==
  [s EXCEPT !.task = anchor, !.corr = NoTask, !.gates = "passed",
            !.review = "approved", !.from = NoTarget]

(***************************************************************************)
(* Blocking, and the two ways out of a block that restore the item.        *)
(***************************************************************************)
forwardRestorationLifecycleState(lc) ==
  IF lc \in Failed THEN "implementation_running" ELSE lc

\* Seeded fault: the suspended target forgets the active task.
RestorationTargetWithoutTask(s) ==
  IF s.from.lc # "none" THEN s.from
  ELSE [lc |-> forwardRestorationLifecycleState(s.lc), task |-> NoTask, corr |-> s.corr]

\* Seeded fault: a document without Blocked From has nothing to be restored to.
RecordedTargetOnly(s) == s.from

preferredRestorationTarget(s) ==
  IF s.from.lc # "none" THEN s.from
  ELSE [lc |-> forwardRestorationLifecycleState(s.lc), task |-> s.task, corr |-> s.corr]

\* lc is `blocked` or `review_failed`; the suspended target is recorded as the new
\* pointers too.
ForBlocked(s, b, lc) ==
  LET target == preferredRestorationTarget(s)
  IN  [s EXCEPT !.lc = lc, !.task = target.task, !.corr = target.corr,
                !.review = IF lc = "review_failed" THEN "failed" ELSE "blocked",
                !.by = b, !.from = target]

Restored(s) ==
  LET target == preferredRestorationTarget(s)
  IN  [s EXCEPT !.lc = target.lc, !.task = target.task, !.corr = target.corr,
                !.by = NoBlocker, !.from = NoTarget]

AfterHumanAcknowledged(s) == [Restored(s) EXCEPT !.ack = FALSE]

AfterFixResolved(s) == [Restored(s) EXCEPT !.onFix = NoFix]

(***************************************************************************)
(* Blocker profiles.                                                       *)
(***************************************************************************)

\* The profile diagnosis works from: the recorded one, else one built from the
\* inspection's own wording.
BlockerOf(s) ==
  IF s.by # NoBlocker THEN s.by
  ELSE [kind |-> "other", recov |-> "agent", seen |-> s.lc, why |-> "inspection",
        task |-> NoTask]

\* A kind read off free text.  The text includes the recorded Blocked By lines, which
\* name a lifecycle, and that alone reads as state corruption.
TextKind(s, k) == IF s.by # NoBlocker THEN "state_corruption" ELSE k

Profile(s, k, recov, why) ==
  [kind |-> k, recov |-> recov, seen |-> s.lc, why |-> why, task |-> NoTask]
=============================================================================
