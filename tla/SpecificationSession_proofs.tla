--------------------- MODULE SpecificationSession_proofs ---------------------
(***************************************************************************)
(* What the prompts keep, for any number of items, terminals, dimensions   *)
(* and answers: what was said and decided stays with the item it was said  *)
(* of, and no item is worked on that nobody confirmed as it stands.        *)
(***************************************************************************)
EXTENDS SpecificationSession, Collections_proofs

(***************************************************************************)
(* The invariant.                                                          *)
(***************************************************************************)
AboutAnItem == {"cover", "validate", "exits", "retry", "correct", "reason", "title",
                "description", "resolve"}
Prompts == [p : AboutAnItem \cup {"main", "nobody", "decision", "dimension", "why", "facts",
                               "running"},
            i : Items \cup {0}, names : SUBSET (Names \cup Fields), round : Nat,
            retry : BOOLEAN]

\* A question, about an item when it is of the kind that is.
Asked(a) == a \in Prompts /\ (a.p \in AboutAnItem => a.i \in Items)

Talks == [turns : SUBSET Nat, segment : SUBSET Nat, decisions : SUBSET Nat, owns : BOOLEAN,
          drafted : Nat, queue : SUBSET Items]
Specifications == [turns : SUBSET Nat, defined : BOOLEAN, decisions : SUBSET Nat,
                   seen : BOOLEAN]
Diagnoses == [sig : Signatures \cup {NoSignature}, retries : Nat]

\* The types of what the argument reads.
ShapeOk ==
  /\ doc \in [Items -> StateDocuments] /\ spec \in [Items -> Specifications]
  /\ diag \in [Items -> Diagnoses] /\ filed \in [Fixes -> Items \cup {0}]
  /\ talk \in Talks /\ said \in Nat /\ Asked(at)

\* A document that is there, and stays there when it is restored.
Present(s) == s.lc # "absent" /\ s.from.lc # "absent"

Reported(i) == i \in Fixes /\ filed[i] # 0

ItemOk(i) ==
  /\ Sound(doc[i])
  /\ i \notin overtaken => Idle(doc[i])
  /\ ~Reported(i) /\ doc[i].val = "confirmed" => spec[i].seen
  /\ doc[i].onFix # NoFix => doc[i].onFix \in Fixes /\ filed[doc[i].onFix] = i
  /\ Reported(i) \/ spec[i].turns # {} => Present(doc[i])
ItemsOk == \A i \in Items : ItemOk(i)

\* A decision is a turn, recorded once or still carried; a turn is written or discussed.
TalkOk ==
  /\ talk.decisions \subseteq 1..said
  /\ \A i \in Items : spec[i].decisions \subseteq 1..said
  /\ \A i \in Items : spec[i].decisions \cap talk.decisions = {}
  /\ \A i, j \in Items : i # j => spec[i].decisions \cap spec[j].decisions = {}
  /\ \A t \in talk.turns : t \in talk.segment \/ \E i \in Items : t \in spec[i].turns

\* The retry exit is on offer only while a retry is left.
RetryOk ==
  /\ at.p = "retry" \/ (at.p = "exits" /\ at.retry)
  /\ ~Can("elsewhere") /\ SameProblem(at.i)
  => diag[at.i].retries < MAX_RECOVERY_RETRIES

\* A step in flight keeps the item and the task it was begun with; without another terminal
\* the session waits for it.
FlightOk ==
  /\ overtaken \subseteq Items
  /\ flight = NoFlight \/ flight \in [i : Items, step : Steps, task : Nat]
  /\ flight.step \in {"plan", "implement", "review"} => flight.task # NoTask
  /\ flight # NoFlight => at.p = "running" \/ Can("elsewhere")
  /\ at.p = "running" => front = "session"

IInv == ShapeOk /\ ItemsOk /\ TalkOk /\ RetryOk /\ FlightOk

\* Steps that write no document, definition, diagnosis or turn.
Quiet ==
  \/ Leave \/ CloseInput \/ LeaveAtEof \/ ConsiderDimension \/ Cover \/ RoundFails
  \/ OfferExits \/ Cancel \/ Proceed \/ Descartar \/ KeepInScope \/ Discard \/ Reabrir
  \/ Proyecto \/ inferProjectGaps \/ Confirmar \/ ConfirmFacts
  \/ DecidedElsewhere \/ RefreshedElsewhere \/ ManifestsChange \/ UNCHANGED vars

\* Steps that change only what is held in memory.
Talked == Converse \/ TakeDecision \/ NextRound

\* Steps that rewrite documents and no definition.
Rewriting ==
  \/ StartSession \/ StartOtherFront \/ Listo \/ Desbloquear \/ retryWithContext
  \/ acknowledgeBlocker \/ StepBegins \/ AcknowledgedElsewhere

Defining ==
  \/ CreateFromRequest \/ CreateFromIdea \/ ConfirmValidation \/ openFixFromConversation
  \/ correctSpecification

\* Every step is of one of the four kinds, or the return of a step in flight.
LEMMA Kinds == ASSUME [Next]_vars PROVE Quiet \/ Talked \/ Rewriting \/ Defining \/ StepReturns
BY DEF Next, Answered, Quiet, Talked, Rewriting, Defining

\* What a quiet step leaves alone.
LEMMA QuietStep ==
  ASSUME Quiet
  PROVE  UNCHANGED <<doc, spec, diag, filed, talk, said, uses, front, flight, overtaken>>
BY DEF Quiet, Leave, CloseInput, LeaveAtEof, ConsiderDimension, Cover, RoundFails, OfferExits,
  Cancel, Proceed, Descartar, KeepInScope, Discard, Reabrir, Proyecto, inferProjectGaps,
  Confirmar, ConfirmFacts, DecidedElsewhere, RefreshedElsewhere, ManifestsChange, DecideOn,
  Ask, vars, items, others

(***************************************************************************)
(* Questions.                                                              *)
(***************************************************************************)
\* A question that offers no retry and waits for no run.
Other(a) == Asked(a) /\ a.p \notin {"exits", "retry", "running"}

LEMMA Asking ==
  /\ Other(Main) /\ Other(Nobody) /\ Other(Thrown)
  /\ \A p \in AboutAnItem \ {"exits", "retry"}, i \in Items : Other(Prompt(p, i))
  /\ \A p \in {"decision", "dimension", "why", "facts"}, names \in SUBSET (Names \cup Fields) :
       Other(Offering(p, 0, names))
  /\ \A i \in Items, names \in SUBSET (Names \cup Fields) : Other(Offering("cover", i, names))
  /\ \A names \in SUBSET (Names \cup Fields) : Other(AfterTurn(names))
<1> USE DEF Other, Asked, Prompts, AboutAnItem, Prompt
<1>1. Other(Main) /\ Other(Nobody) BY DEF Main, Nobody
<1>2. Other(Thrown) BY <1>1 DEF Thrown
<1>3. \A p \in AboutAnItem \ {"exits", "retry"}, i \in Items : Other(Prompt(p, i))
  OBVIOUS
<1>4. \A p \in {"decision", "dimension", "why", "facts"}, names \in SUBSET (Names \cup Fields) :
        Other(Offering(p, 0, names))
  BY DEF Offering
<1>5. \A i \in Items, names \in SUBSET (Names \cup Fields) : Other(Offering("cover", i, names))
  BY DEF Offering
<1>6. \A names \in SUBSET (Names \cup Fields) : Other(AfterTurn(names))
  <2> HIDE DEF Other, Asked, Prompts, AboutAnItem, Prompt
  <2> QED BY <1>1, <1>4 DEF AfterTurn
<1> HIDE DEF Other, Asked, Prompts, AboutAnItem, Prompt
<1> QED BY <1>1, <1>2, <1>3, <1>4, <1>5, <1>6

\* The next item in the queue is an item.
LEMMA OnwardAsks == ASSUME NEW tk, tk.queue \subseteq Items PROVE Other(Onward(tk))
<1>1. CASE tk.queue # {}
  <2>1. tk.queue \in SUBSET Nat /\ IsFiniteSet(tk.queue)
    BY FS_Subset, SessionAssumption
  <2>2. Min(tk.queue) \in Items BY <2>1, <1>1, MinAndMax
  <2> QED BY <2>2, <1>1, Asking DEF Onward, AboutAnItem
<1>2. CASE tk.queue = {} BY <1>2, Asking DEF Onward
<1> QED BY <1>1, <1>2

\* A quiet step asks something else, or goes on asking the same, or takes the retry offered.
LEMMA QuietAsks ==
  ASSUME Asked(at), Quiet
  PROVE  \/ Other(at') \/ at' = at
         \/ /\ Asked(at') /\ at.p = "exits" /\ at'.i = at.i /\ at'.p # "exits"
            /\ at'.p # "running" /\ (at'.p = "retry" => at.retry)
<1> USE DEF Ask, items, lists, others
<1>1. CASE Leave BY <1>1, Asking DEF Leave
<1>2. CASE CloseInput BY <1>2 DEF CloseInput
<1>3. CASE LeaveAtEof BY <1>3, Asking DEF LeaveAtEof
<1>4. CASE ConsiderDimension BY <1>4, Asking DEF ConsiderDimension
<1>5. CASE Cover
  <2>1. at.i \in Items BY <1>5 DEF Cover, AtPrompt, Asked, AboutAnItem
  <2> QED BY <2>1, <1>5, Asking DEF Cover, AboutAnItem
<1>6. CASE RoundFails BY <1>6, Asking DEF RoundFails
<1>7. CASE OfferExits
  <2>1. at.i \in Items /\ at.p = "exits" BY <1>7 DEF OfferExits, AtPrompt, Asked, AboutAnItem
  <2>2. CASE at' = Main BY <2>2, Asking
  <2>3. ASSUME NEW exit \in {"retry", "correct", "title", "resolve"}, exit = "retry" => at.retry,
               at' = Prompt(exit, at.i)
        PROVE  /\ Asked(at') /\ at'.i = at.i /\ at'.p # "exits" /\ at'.p # "running"
               /\ at'.p = "retry" => at.retry
    BY <2>1, <2>3 DEF Asked, Prompts, AboutAnItem, Prompt
  <2> QED BY <2>1, <2>2, <2>3, <1>7 DEF OfferExits
<1>8. CASE Cancel BY <1>8, Asking DEF Cancel
<1>9. CASE Proceed
  <2>1. at.i \in Items BY <1>9 DEF Proceed, Typed, AtPrompt, Asked, AboutAnItem
  <2> QED BY <2>1, <1>9, Asking DEF Proceed, AboutAnItem
<1>10. CASE Descartar BY <1>10, Asking DEF Descartar
<1>11. CASE KeepInScope BY <1>11, Asking DEF KeepInScope
<1>12. CASE Discard BY <1>12, Asking DEF Discard
<1>13. CASE Reabrir BY <1>13 DEF Reabrir
<1>14. CASE Proyecto \/ inferProjectGaps BY <1>14 DEF Proyecto, inferProjectGaps
<1>15. CASE Confirmar BY <1>15, Asking DEF Confirmar, unconfirmedProjectFacts
<1>16. CASE ConfirmFacts BY <1>16, Asking DEF ConfirmFacts
<1>17. CASE DecidedElsewhere \/ RefreshedElsewhere \/ ManifestsChange
  BY <1>17 DEF DecidedElsewhere, RefreshedElsewhere, ManifestsChange
<1>18. CASE UNCHANGED vars BY <1>18 DEF vars
<1> QED BY <1>1, <1>2, <1>3, <1>4, <1>5, <1>6, <1>7, <1>8, <1>9, <1>10, <1>11, <1>12, <1>13,
           <1>14, <1>15, <1>16, <1>17, <1>18 DEF Quiet

(***************************************************************************)
(* Documents.                                                              *)
(***************************************************************************)

\* What a writer may do to a document of an item nobody confirms anew.
Moved(s, r) ==
  /\ Sound(r)
  /\ Idle(s) => Idle(r)
  /\ r.val = "confirmed" => s.val = "confirmed"
  /\ r.onFix \in {s.onFix, NoFix}
  /\ Present(s) => Present(r)

\* What a step may do to a document it returns to.
Landed(s, r) ==
  /\ Sound(r) /\ r.val = s.val /\ r.onFix = s.onFix
  /\ Present(s) => Present(r)

\* No item goes away.
ItemsStay == \A i \in Items : Present(doc[i]) => Present(doc'[i])

\* Nothing is a move.
LEMMA MovedNot == ASSUME NEW s, Sound(s) PROVE Moved(s, s)
BY DEF Moved

\* Restoring a document is a move, by a person or by the completion of a fix.
LEMMA RestoredMoved ==
  ASSUME NEW s, Sound(s)
  PROVE  Moved(s, AfterHumanAcknowledged(s)) /\ Moved(s, AfterFixResolved(s))
<1> DEFINE target == preferredRestorationTarget(s)
<1>1. s \in StateDocuments BY DEF Sound
<1>2. target \in RestorationTargets /\ target.lc # "none" /\ Anchored(target)
  BY <1>1 DEF Sound, preferredRestorationTarget, forwardRestorationLifecycleState,
              StateDocuments, RestorationTargets, Lifecycles, Executing,
              Failed, Planning, PendingSpecification
<1>3. Idle(s) /\ s.val # "confirmed" =>
        target.lc \in {"absent"} \cup PendingSpecification \cup Planning
  BY <1>1 DEF Idle, preferredRestorationTarget, forwardRestorationLifecycleState, NoTarget,
              Failed, Planning, PendingSpecification
<1>4. Present(s) => target.lc # "absent"
  BY <1>1 DEF Present, preferredRestorationTarget, forwardRestorationLifecycleState
<1> HIDE DEF target
<1>5. ASSUME NEW r \in StateDocuments, r.lc = target.lc, r.task = target.task,
             r.corr = target.corr, r.val = s.val, r.from = NoTarget,
             r.onFix \in {s.onFix, NoFix}
      PROVE  Moved(s, r)
  <2>1. ~MissingPointer(r) BY <1>2, <1>5 DEF MissingPointer, Anchored
  <2>2. Anchored(preferredRestorationTarget(r))
    BY <1>2, <1>5 DEF Anchored, preferredRestorationTarget, forwardRestorationLifecycleState,
                      NoTarget, Failed, Executing
  <2>3. Present(s) => Present(r) BY <1>4, <1>5 DEF Present, NoTarget
  <2>4. Sound(r) BY <2>1, <2>2, <1>5 DEF Sound
  <2>5. Idle(s) => Idle(r) BY <1>3, <1>5 DEF Idle
  <2> QED BY <2>3, <2>4, <2>5, <1>5 DEF Moved
<1>6. NoTarget \in RestorationTargets /\ NoFix \in Nat
  BY DEF NoTarget, RestorationTargets, NoTask, NoFix
<1>7. target.lc \in Lifecycles BY <1>2 DEF RestorationTargets
<1>8. /\ AfterHumanAcknowledged(s) \in StateDocuments /\ AfterFixResolved(s) \in StateDocuments
  BY <1>1, <1>2, <1>6, <1>7 DEF AfterHumanAcknowledged, AfterFixResolved, Restored, target,
                                StateDocuments, RestorationTargets
<1>9. \A r \in {AfterHumanAcknowledged(s), AfterFixResolved(s)} :
        /\ r.lc = target.lc /\ r.task = target.task /\ r.corr = target.corr
        /\ r.val = s.val /\ r.from = NoTarget /\ r.onFix \in {s.onFix, NoFix}
  BY <1>1 DEF AfterHumanAcknowledged, AfterFixResolved, Restored, target, StateDocuments
<1> QED BY <1>5, <1>8, <1>9

\* So is writing a specification anew, or only its request.
LEMMA FreshMoved ==
  ASSUME NEW s, NEW lc \in {"formalized", "request_pending"}
  PROVE  Moved(s, Blank(lc)) /\ Idle(Blank(lc))
BY DEF Moved, Idle, Sound, Present, Blank, StateDocuments, RestorationTargets, Lifecycles, Planning,
       PendingSpecification, Executing, Failed, MissingPointer, Anchored, NoTarget, NoTask,
       NoFix, NoBlocker, preferredRestorationTarget, forwardRestorationLifecycleState

\* And so is taking a specification back.
LEMMA InvalidatedMoved ==
  ASSUME NEW s, Sound(s)
  PROVE  Moved(s, SpecificationInvalidated(s)) /\ Idle(SpecificationInvalidated(s))
<1> DEFINE r == SpecificationInvalidated(s)
<1>1. s \in StateDocuments BY DEF Sound
<1>2. r \in StateDocuments
  BY <1>1 DEF SpecificationInvalidated, StateDocuments, RestorationTargets, Lifecycles,
              PendingSpecification, NoTarget, NoTask
<1>3. /\ r.lc = "formalization_pending" /\ r.val = "not_started" /\ r.from = NoTarget
      /\ r.onFix = s.onFix
  BY <1>1 DEF SpecificationInvalidated, StateDocuments
<1> HIDE DEF r
<1>4. Sound(r) /\ Present(r) /\ Idle(r)
  BY <1>2, <1>3 DEF Sound, Present, Idle, MissingPointer, Anchored, preferredRestorationTarget,
        forwardRestorationLifecycleState, NoTarget, Executing, Failed, PendingSpecification
<1> QED BY <1>3, <1>4 DEF Moved, r

\* Inspecting an item is a move.
LEMMA InspectMoved ==
  ASSUME NEW i \in Items, Sound(doc[i])
  PROVE  Moved(doc[i], Inspect(doc, i))
BY MovedNot, RestoredMoved DEF Inspect
\* Moves add up.
LEMMA MovedTwice ==
  ASSUME NEW s, NEW r, NEW q, Moved(s, r), Moved(r, q) PROVE Moved(s, q)
BY DEF Moved

\* Looking at every item is a move of each.
LEMMA InspectedMoved ==
  ASSUME ItemsOk
  PROVE  /\ DOMAIN Inspected = Items /\ \A i \in Items : Moved(doc[i], Inspected[i])
         /\ \A i \in Items : Sound(Inspected[i])
<1>1. \A i \in Items : Inspected[i] = Inspect(doc, i) BY DEF Inspected
<1>2. \A i \in Items : Moved(doc[i], Inspect(doc, i)) BY InspectMoved DEF ItemsOk, ItemOk
<1> QED BY <1>1, <1>2 DEF Moved, Inspected

\* What is startable or underway was confirmed, unless a step in flight put it there.
LEMMA ConfirmedOnly ==
  ASSUME NEW s, Sound(s), Idle(s), isStartable(s) \/ isContinuing(s)
  PROVE  s.val = "confirmed"
BY DEF Sound, Idle, isStartable, isContinuing, WorkItemInspectionKind, PendingSpecification, Planning,
       StateDocuments

\* A step is begun with a task where it needs one, and handing an item over is a move.
LEMMA BegunMoved ==
  ASSUME NEW s, Sound(s), isStartable(s) \/ isContinuing(s), NEW i \in Items, NEW w \in Due(s, i)
  PROVE  /\ w.i = i /\ w \in [i : Items, step : Steps, task : Nat]
         /\ w.step \in {"plan", "implement", "review"} => w.task # NoTask
         /\ Moved(s, HandedOver(s, w))
<1>1. s \in StateDocuments /\ ~MissingPointer(s) /\ s.task \in Nat /\ s.corr \in Nat
  BY DEF Sound, StateDocuments
<1>2. \E name \in Steps, t \in Nat :
        /\ w = [i |-> i, step |-> name, task |-> t]
        /\ name \in {"plan", "implement", "review"} => t # NoTask
  <2> DEFINE kind == WorkItemInspectionKind(s)
  <2>1. /\ kind \in Executing => s.task # NoTask
        /\ kind = "correction_pending" => s.corr # NoTask
    BY <1>1 DEF WorkItemInspectionKind, MissingPointer, Executing, Planning
  <2> HIDE DEF kind
  <2>2. CASE kind \in Planning
    <3> DEFINE plan == [i |-> i, step |-> "plan", task |-> 1]
               complete == [i |-> i, step |-> "complete", task |-> NoTask]
    <3>1. w = plan \/ w = complete
      <4>1. CASE i \in Features
        <5>1. Due(s, i) = {plan, complete} BY <2>2, <4>1 DEF Due, kind, Planning
        <5> HIDE DEF plan, complete
        <5> QED BY <5>1
      <4>2. CASE i \notin Features
        <5>1. Due(s, i) = {plan} BY <2>2, <4>2 DEF Due, kind, Planning
        <5> HIDE DEF plan, complete
        <5> QED BY <5>1
      <4> QED BY <4>1, <4>2
    <3> QED BY <3>1 DEF Steps, NoTask
  <2>3. CASE kind \in {"task_ready", "implementation_running"}
    <3>1. w = [i |-> i, step |-> "implement", task |-> s.task] BY <2>3 DEF Due, kind, Planning
    <3> QED BY <1>1, <2>1, <2>3, <3>1 DEF Steps, Executing
  <2>4. CASE kind = "correction_pending"
    <3>1. w = [i |-> i, step |-> "implement", task |-> s.corr] BY <2>4 DEF Due, kind, Planning
    <3> QED BY <1>1, <2>1, <2>4, <3>1 DEF Steps
  <2>5. CASE kind \in {"review_pending", "quality_gates_pending"}
    <3>1. w = [i |-> i, step |-> "review", task |-> s.task] BY <2>5 DEF Due, kind, Planning
    <3> QED BY <1>1, <2>1, <2>5, <3>1 DEF Steps, Executing
  <2>6. CASE kind \notin Planning \cup {"task_ready", "implementation_running", "correction_pending",
                                        "review_pending", "quality_gates_pending"}
    <3>1. w = [i |-> i, step |-> "diagnose", task |-> NoTask] BY <2>6 DEF Due, kind
    <3> QED BY <3>1 DEF Steps, NoTask
  <2> QED BY <2>2, <2>3, <2>4, <2>5, <2>6
<1>3. CASE w.step # "implement" BY <1>2, <1>3, MovedNot DEF HandedOver
<1>4. CASE w.step = "implement"
  <2> DEFINE r == DuringImplementation(s, w.task)
  <2>1. HandedOver(s, w) = r /\ w.task \in Nat \ {0} BY <1>2, <1>4 DEF HandedOver, NoTask
  <2>2. NoTarget \in RestorationTargets BY DEF NoTarget, RestorationTargets, NoTask
  <2>3. /\ r \in StateDocuments /\ r.lc = "implementation_running" /\ r.task = w.task
        /\ r.corr = NoTask /\ r.val = s.val /\ r.from = NoTarget /\ r.onFix = s.onFix
    BY <1>1, <2>1, <2>2 DEF DuringImplementation, StateDocuments, Lifecycles, Executing, NoTask
  <2> HIDE DEF r
  <2>4. Sound(r) /\ Present(r)
    BY <2>1, <2>3 DEF Sound, Present, MissingPointer, Anchored, preferredRestorationTarget, NoTarget,
         forwardRestorationLifecycleState, Executing, Failed, NoTask
  <2>5. Idle(s) => Idle(r) BY <2>3, ConfirmedOnly DEF Idle
  <2> QED BY <1>2, <2>1, <2>3, <2>4, <2>5 DEF Moved
<1> QED BY <1>2, <1>3, <1>4

\* A block records what the item is restored to, whatever it was.
LEMMA BlockLands ==
  ASSUME NEW s, Sound(s), NEW recov \in Recoverabilities, NEW why \in Reasons,
         NEW lc \in {"blocked", "review_failed"}, NEW asked \in BOOLEAN
  PROVE  Landed(s, [ForBlocked(s, Profile(s, "other", recov, why), lc) EXCEPT !.ack = asked])
<1> DEFINE target == preferredRestorationTarget(s)
           b == Profile(s, "other", recov, why)
           review == IF lc = "review_failed" THEN "failed" ELSE "blocked"
           r == [ForBlocked(s, b, lc) EXCEPT !.ack = asked]
<1>1. s \in StateDocuments BY DEF Sound
<1>2. target \in RestorationTargets /\ target.lc # "none" /\ Anchored(target)
  BY <1>1 DEF Sound, preferredRestorationTarget, forwardRestorationLifecycleState,
              StateDocuments, RestorationTargets, Lifecycles, Executing, Failed, Planning,
              PendingSpecification
<1>3. Present(s) => target.lc # "absent"
  BY <1>1 DEF Present, preferredRestorationTarget, forwardRestorationLifecycleState
<1>4. b \in Blockers
  BY <1>1 DEF Profile, Blockers, BlockerKinds, StateDocuments, NoTask
<1>5. review \in {"failed", "blocked"} OBVIOUS
<1>6. ForBlocked(s, b, lc)
        = [s EXCEPT !.lc = lc, !.task = target.task, !.corr = target.corr,
                    !.review = review, !.by = b, !.from = target]
  <2> HIDE DEF b
  <2> QED BY DEF ForBlocked
<1> HIDE DEF target, b, review
<1>7. r = [s EXCEPT !.lc = lc, !.task = target.task, !.corr = target.corr,
                    !.review = review, !.by = b, !.from = target, !.ack = asked]
  BY <1>1, <1>6 DEF StateDocuments
<1> HIDE DEF r
<1>8. /\ r \in StateDocuments /\ r.lc = lc /\ r.from = target /\ r.val = s.val /\ r.onFix = s.onFix
  BY <1>1, <1>2, <1>4, <1>5, <1>7 DEF StateDocuments, RestorationTargets, Lifecycles, Failed
<1>9. Sound(r) BY <1>2, <1>8 DEF Sound, MissingPointer, preferredRestorationTarget, Executing
<1> QED BY <1>3, <1>8, <1>9 DEF Landed, Present, r, b

\* A document with its pointer and nothing suspended is sound.
LEMMA PlainLands ==
  ASSUME NEW s, NEW r \in StateDocuments, r.lc \notin Failed \cup {"absent"}, r.from = NoTarget,
         r.lc \in Executing => r.task # NoTask, r.lc = "correction_pending" => r.corr # NoTask,
         r.val = s.val, r.onFix = s.onFix
  PROVE  Landed(s, r)
BY DEF Landed, Sound, Present, MissingPointer, Anchored, preferredRestorationTarget, NoTarget,
       forwardRestorationLifecycleState

\* A failed attempt is suspended where it can be tried again.
LEMMA FailureLands ==
  ASSUME NEW s, NEW r \in StateDocuments, r.lc \in Failed,
         r.from.lc \in {"task_ready", "implementation_running"}, r.from.task # NoTask,
         r.val = s.val, r.onFix = s.onFix
  PROVE  Landed(s, r)
BY DEF Landed, Sound, Present, MissingPointer, Anchored, preferredRestorationTarget,
       Executing, Failed

\* Whatever a step writes when it returns leaves a document sound, and confirmed or not.
LEMMA ResultLands ==
  ASSUME NEW s, Sound(s), NEW w \in [i : Items, step : Steps, task : Nat],
         w.step \in {"plan", "implement", "review"} => w.task # NoTask, NEW r \in Results(s, w)
  PROVE  Landed(s, r)
<1> USE DEF NoTask
<1>1. s \in StateDocuments /\ w.task \in Nat /\ NoTarget \in RestorationTargets /\ s.ack \in BOOLEAN
  BY DEF Sound, StateDocuments, NoTarget, RestorationTargets
<1> DEFINE x == WithTask(s, w)
<1>2. /\ x \in StateDocuments /\ x.task = w.task /\ x.val = s.val /\ x.onFix = s.onFix
      /\ x.from = s.from /\ x.lc = s.lc
  BY <1>1 DEF WithTask, StateDocuments
<1>3. ASSUME NEW why \in Reasons PROVE Landed(s, BlockedBy(s, w, why))
  <2> DEFINE asked == s.ack \/ w.step = "diagnose"
             y == ForBlocked(s, Profile(s, "other", "human", why), "blocked")
  <2>1. asked \in BOOLEAN BY <1>1
  <2>2. y.ack = s.ack BY <1>1 DEF ForBlocked, StateDocuments
  <2>3. BlockedBy(s, w, why) = [y EXCEPT !.ack = asked]
    <3> HIDE DEF y
    <3>1. BlockedBy(s, w, why) = [y EXCEPT !.ack = @ \/ w.step = "diagnose"] BY DEF BlockedBy, y
    <3> QED BY <2>2, <3>1
  <2> HIDE DEF asked
  <2> QED BY <2>1, <2>3, BlockLands DEF Recoverabilities
<1>4. CASE w.step = "plan"
  <2>1. r \in {ForTaskPlan(s, w.task), BlockedBy(s, w, "plan")} BY <1>4 DEF Results
  <2>2. CASE r = ForTaskPlan(s, w.task)
    <3>1. /\ r \in StateDocuments /\ r.lc = "task_ready" /\ r.task = w.task /\ r.val = s.val
          /\ r.onFix = s.onFix /\ r.from = NoTarget
      BY <1>1, <2>2 DEF ForTaskPlan, StateDocuments, Lifecycles, Executing
    <3> QED BY <1>4, <3>1, PlainLands DEF Failed
  <2> QED BY <1>3, <2>1, <2>2 DEF Reasons
<1>5. CASE w.step = "complete"
  <2>1. r \in {AfterCompletion(s), BlockedBy(s, w, "unfinished")} BY <1>5 DEF Results
  <2>2. CASE r = AfterCompletion(s)
    <3>1. /\ r \in StateDocuments /\ r.lc = "completed" /\ r.val = s.val /\ r.onFix = s.onFix
          /\ r.from = s.from
      BY <1>1, <2>2 DEF AfterCompletion, StateDocuments, Lifecycles
    <3>2. Sound(r)
      BY <3>1 DEF Sound, MissingPointer, Anchored, preferredRestorationTarget,
                  forwardRestorationLifecycleState, Executing, Failed
    <3> QED BY <3>1, <3>2 DEF Landed, Present
  <2> QED BY <1>3, <2>1, <2>2 DEF Reasons
<1>6. CASE w.step = "implement"
  <2>1. r \in {AfterImplementationFailure(x), AfterGatesPassed(x), AfterGatesFailed(x, "agent")}
    BY <1>6 DEF Results
  <2> HIDE DEF x
  <2>2. w.task # 0 BY <1>6
  <2>3. \A t \in {"task_ready", "implementation_running"} :
          [lc |-> t, task |-> w.task, corr |-> NoTask] \in RestorationTargets
    BY <1>1 DEF RestorationTargets, Lifecycles, Executing
  <2>4. CASE r = AfterGatesPassed(x)
    <3>1. /\ r \in StateDocuments /\ r.lc = "review_pending" /\ r.task = w.task /\ r.val = s.val
          /\ r.onFix = s.onFix /\ r.from = NoTarget
      BY <1>1, <1>2, <2>4 DEF AfterGatesPassed, StateDocuments, Lifecycles, Executing
    <3> QED BY <2>2, <3>1, PlainLands DEF Failed
  <2>5. CASE r = AfterImplementationFailure(x)
    <3>1. [kind |-> "other", recov |-> "agent", seen |-> "implementation_failed",
           why |-> "implementation", task |-> w.task] \in Blockers
      BY <1>1 DEF Blockers, BlockerKinds, Recoverabilities, Reasons, Lifecycles, Failed
    <3>2. /\ r \in StateDocuments /\ r.lc = "implementation_failed" /\ r.val = s.val
          /\ r.onFix = s.onFix /\ r.from = [lc |-> "task_ready", task |-> w.task, corr |-> NoTask]
      BY <1>1, <1>2, <2>3, <2>5, <3>1
      DEF AfterImplementationFailure, StateDocuments, Lifecycles, Failed
    <3> QED BY <2>2, <3>2, FailureLands DEF Failed
  <2>6. CASE r = AfterGatesFailed(x, "agent")
    <3>1. [kind |-> "other", recov |-> "agent", seen |-> "implementation_running",
           why |-> "gates", task |-> w.task] \in Blockers
      BY <1>1 DEF Blockers, BlockerKinds, Recoverabilities, Reasons, Lifecycles, Executing
    <3>2. /\ r \in StateDocuments /\ r.lc = "quality_failed" /\ r.val = s.val
          /\ r.onFix = s.onFix
          /\ r.from = [lc |-> "implementation_running", task |-> w.task, corr |-> NoTask]
      BY <1>1, <1>2, <2>3, <2>6, <3>1 DEF AfterGatesFailed, StateDocuments, Lifecycles, Failed
    <3> QED BY <2>2, <3>2, FailureLands DEF Failed
  <2> QED BY <2>1, <2>4, <2>5, <2>6
<1>7. CASE w.step = "review"
  <2> DEFINE failed == ForBlocked(s, Profile(s, "other", "agent", "review"), "review_failed")
  <2>1. r \in {AfterApprovedReview(s), BlockedBy(s, w, "review"), failed,
               ForCorrection(x, w.task + 1)}
    BY <1>7 DEF Results
  <2>2. CASE r = AfterApprovedReview(s)
    <3>1. /\ r \in StateDocuments /\ r.lc = "formalized" /\ r.val = s.val
          /\ r.onFix = s.onFix /\ r.from = NoTarget
      BY <1>1, <2>2 DEF AfterApprovedReview, StateDocuments, Lifecycles, Planning
    <3> QED BY <3>1, PlainLands DEF Failed, Executing
  <2>3. CASE r = failed
    <3>1. failed = [failed EXCEPT !.ack = s.ack] BY <1>1 DEF ForBlocked, StateDocuments
    <3>2. Landed(s, [failed EXCEPT !.ack = s.ack])
      BY <1>1, BlockLands DEF Recoverabilities, Reasons
    <3> HIDE DEF failed
    <3> QED BY <2>3, <3>1, <3>2
  <2>4. CASE r = ForCorrection(x, w.task + 1)
    <3> HIDE DEF x
    <3>1. w.task + 1 \in Nat \ {0} BY <1>1
    <3>2. /\ r \in StateDocuments /\ r.lc = "correction_pending" /\ r.corr = w.task + 1
          /\ r.val = s.val /\ r.onFix = s.onFix /\ r.from = NoTarget
      BY <1>1, <1>2, <2>4, <3>1 DEF ForCorrection, StateDocuments, Lifecycles
    <3> QED BY <3>1, <3>2, PlainLands DEF Failed, Executing
  <2> QED BY <1>3, <2>1, <2>2, <2>3, <2>4 DEF Reasons
<1>8. CASE w.step = "diagnose"
  <2>1. r = BlockedBy(s, w, "conversation") BY <1>8 DEF Results
  <2> QED BY <1>3, <2>1 DEF Reasons
<1> QED BY <1>4, <1>5, <1>6, <1>7, <1>8 DEF Steps

\* What a person acknowledges is restored or left alone.
LEMMA AcknowledgedMoved ==
  ASSUME NEW i \in Items, Sound(doc[i]) PROVE Moved(doc[i], Acknowledged(doc, i))
BY InspectMoved, RestoredMoved DEF Acknowledged

(***************************************************************************)
(* Items.                                                                  *)
(***************************************************************************)

\* Items stay in order when documents move, definitions are at most unseen, a request is only
\* written for a document that is there, and an item stops being overtaken only at rest.
LEMMA ItemsMove ==
  ASSUME ItemsOk, \A i \in Items : Moved(doc[i], doc'[i]), filed' = filed,
         \A i \in Items : doc'[i].val = "confirmed" => spec'[i].seen = spec[i].seen,
         \A i \in Items : spec'[i].turns = spec[i].turns \/ Present(doc'[i]),
         \A i \in Items \ overtaken' : i \notin overtaken \/ Idle(doc'[i])
  PROVE  ItemsOk'
<1> SUFFICES ASSUME NEW i \in Items PROVE ItemOk(i)' BY DEF ItemsOk
<1>1. ItemOk(i) BY DEF ItemsOk
<1>2. Reported(i)' = Reported(i) BY DEF Reported
<1> QED BY <1>1, <1>2 DEF ItemOk, Moved

\* Rewriting documents moves every one of them.
LEMMA RewritingMoves ==
  ASSUME ShapeOk, ItemsOk, Rewriting
  PROVE  /\ DOMAIN doc' = Items /\ \A i \in Items : Moved(doc[i], doc'[i])
         /\ doc' = [i \in Items |-> doc'[i]]
         /\ UNCHANGED <<spec, filed, said, uses, overtaken>>
<1>1. \A i \in Items : Moved(doc[i], Inspected[i]) /\ Sound(Inspected[i]) /\ Sound(doc[i])
  BY InspectedMoved DEF ItemsOk, ItemOk
<1>2. \A i \in Items : Moved(doc[i], doc[i]) BY <1>1, MovedNot
<1>3. Inspected = [i \in Items |-> Inspected[i]] /\ doc = [i \in Items |-> doc[i]]
  BY DEF Inspected, ShapeOk
<1>4. CASE doc' = Inspected /\ UNCHANGED <<spec, filed, said, uses, overtaken>> BY <1>4, <1>1, <1>3
<1>5. ASSUME NEW i \in Items, NEW r, Moved(doc[i], r), doc' = [doc EXCEPT ![i] = r],
             UNCHANGED <<spec, filed, said, uses, overtaken>>
      PROVE  /\ DOMAIN doc' = Items /\ \A j \in Items : Moved(doc[j], doc'[j])
             /\ doc' = [j \in Items |-> doc'[j]]
  BY <1>2, <1>3, <1>5
<1>6. ASSUME NEW i \in Items, NEW r, Moved(doc[i], r), doc' = [Inspected EXCEPT ![i] = r],
             UNCHANGED <<spec, filed, said, uses, overtaken>>
      PROVE  /\ DOMAIN doc' = Items /\ \A j \in Items : Moved(doc[j], doc'[j])
             /\ doc' = [j \in Items |-> doc'[j]]
  BY <1>1, <1>3, <1>6
<1>7. CASE StartSession \/ StartOtherFront \/ Listo \/ Desbloquear
  BY <1>7, <1>4 DEF StartSession, StartOtherFront, Listo, Desbloquear, lists, others
<1>8. CASE retryWithContext
  <2>1. at.i \in Items BY <1>8 DEF retryWithContext, AtPrompt, ShapeOk, Asked, AboutAnItem
  <2>2. Moved(doc[at.i], AfterHumanAcknowledged(doc[at.i])) BY <2>1, <1>1, RestoredMoved
  <2> QED BY <1>5, <1>8, <2>1, <2>2 DEF retryWithContext, lists, others
<1>10. CASE acknowledgeBlocker
  <2>1. at.i \in Items
    BY <1>10 DEF acknowledgeBlocker, Typed, AtPrompt, ShapeOk, Asked, AboutAnItem
  <2>2. Moved(doc[at.i], Acknowledged(doc, at.i)) BY <2>1, <1>1, AcknowledgedMoved
  <2> QED BY <1>5, <1>10, <2>1, <2>2 DEF acknowledgeBlocker, lists, others
<1>11. CASE StepBegins
  <2>1. PICK i \in Items : /\ isStartable(Inspected[i]) \/ isContinuing(Inspected[i])
                           /\ flight' \in Due(Inspected[i], i)
                           /\ doc' = [Inspected EXCEPT ![i] = HandedOver(@, flight')]
    BY <1>11 DEF StepBegins
  <2>2. doc' = [Inspected EXCEPT ![i] = HandedOver(Inspected[i], flight')] BY <2>1
  <2>3. Moved(Inspected[i], HandedOver(Inspected[i], flight')) BY <2>1, <1>1, BegunMoved
  <2>4. Moved(doc[i], HandedOver(Inspected[i], flight')) BY <2>3, <1>1, MovedTwice
  <2> QED BY <1>6, <1>11, <2>2, <2>4 DEF StepBegins, lists, others
<1>12. CASE AcknowledgedElsewhere
  <2>1. PICK i \in Items : doc' = [Inspected EXCEPT ![i] = Acknowledged(doc, i)]
    BY <1>12 DEF AcknowledgedElsewhere, listHumanBlockedWorkItems, OfKind
  <2>2. Moved(doc[i], Acknowledged(doc, i)) BY <1>1, AcknowledgedMoved
  <2> QED BY <1>6, <1>12, <2>1, <2>2 DEF AcknowledgedElsewhere, lists, others
<1> QED BY <1>7, <1>8, <1>10, <1>11, <1>12 DEF Rewriting

\* Zero and some items make a finite set of numbers.
LEMMA WithZero ==
  ASSUME NEW T \in SUBSET Items
  PROVE  {0} \cup T \in SUBSET Nat /\ IsFiniteSet({0} \cup T)
<1>1. IsFiniteSet(T) /\ T \in SUBSET Nat BY SessionAssumption, FS_Subset
<1>2. IsFiniteSet(T \cup {0}) BY <1>1, FS_AddElement
<1>3. T \cup {0} = {0} \cup T OBVIOUS
<1> QED BY <1>1, <1>2, <1>3

(***************************************************************************)
(* Writing definitions.                                                    *)
(***************************************************************************)

\* What recording the provenance of item i writes; either the decisions carried stay carried
\* and none is recorded, or all are recorded and none is carried on.
LEMMA ProvenanceRecorded ==
  ASSUME NEW i \in Items, NEW sp \in [Items -> Specifications], sp[i].decisions = {},
         NEW tk \in Talks, RecordProvenance(i, sp, tk)
  PROVE  /\ spec' \in [Items -> Specifications] /\ talk' \in Talks /\ Other(at')
         /\ \A j \in Items \ {i} : spec'[j] = sp[j]
         /\ spec'[i].turns = sp[i].turns /\ spec'[i].seen = sp[i].seen
         /\ talk'.turns = tk.turns /\ talk'.segment = tk.segment /\ talk'.drafted = tk.drafted
         /\ \/ spec'[i].decisions = {} /\ talk'.decisions = tk.decisions
            \/ spec'[i].decisions = tk.decisions /\ talk'.decisions = {}
<1>1. CASE spec' = sp /\ talk' = tk /\ at' = Thrown BY <1>1, Asking
<1>2. CASE /\ spec' = [sp EXCEPT ![i].decisions = tk.decisions]
           /\ talk' = DecisionsWritten(tk)
           /\ at' = IF uncovered(Readable) = {} THEN Prompt("validate", i)
                    ELSE Offering("cover", i, uncovered(Readable))
  <2>1. Other(at') BY <1>2, Asking DEF uncovered, AboutAnItem
  <2>2. spec' \in [Items -> Specifications] /\ talk' \in Talks
    BY <1>2 DEF Specifications, Talks, DecisionsWritten
  <2> QED BY <2>1, <2>2, <1>2 DEF Specifications, Talks, DecisionsWritten
<1> QED BY <1>1, <1>2 DEF RecordProvenance

\* What /crear writes for a request already there.
LEMMA FromRequest ==
  ASSUME ShapeOk, ItemsOk, CreateFromRequest
  PROVE  /\ ItemsOk' /\ ItemsStay /\ doc' \in [Items -> StateDocuments]
         /\ spec' \in [Items -> Specifications] /\ talk' \in Talks /\ Other(at')
         /\ talk'.turns = talk.turns /\ talk'.segment = talk.segment /\ talk'.drafted = talk.drafted
         /\ \A j \in Items : spec'[j].turns = spec[j].turns
         /\ \/ UNCHANGED <<spec, talk>>
            \/ \E i \in Items :
                 /\ \A j \in Items \ {i} : spec'[j].decisions = spec[j].decisions
                 /\ \/ spec'[i].decisions = {} /\ talk'.decisions = talk.decisions
                    \/ spec'[i].decisions = talk.decisions /\ talk'.decisions = {}
         /\ UNCHANGED <<diag, filed, said, uses>>
<1>1. UNCHANGED <<diag, filed, said, uses>> BY DEF CreateFromRequest
<1>2. /\ Inspected \in [Items -> StateDocuments]
      /\ \A i \in Items : Moved(doc[i], Inspected[i])
  BY InspectedMoved DEF Inspected, Sound
<1>3. CASE doc' = Inspected /\ at' = Main /\ UNCHANGED <<spec, talk, overtaken>>
  <2>1. ItemsOk' BY <1>3, <1>2, <1>1, ItemsMove
  <2>2. ItemsStay BY <1>2, <1>3 DEF ItemsStay, Moved
  <2> QED BY <2>1, <2>2, <1>1, <1>2, <1>3, Asking DEF ShapeOk
<1>4. ASSUME NEW i \in Items, doc' = [Inspected EXCEPT ![i] = planned(@)],
             RecordProvenance(i, [spec EXCEPT ![i] = Redefined(@)], talk),
             overtaken' = overtaken \ {i}
      PROVE  /\ ItemsOk' /\ ItemsStay /\ doc' \in [Items -> StateDocuments]
             /\ spec' \in [Items -> Specifications] /\ talk' \in Talks /\ Other(at')
             /\ talk'.turns = talk.turns /\ talk'.segment = talk.segment
             /\ talk'.drafted = talk.drafted
             /\ \A j \in Items : spec'[j].turns = spec[j].turns
             /\ \A j \in Items \ {i} : spec'[j].decisions = spec[j].decisions
             /\ \/ spec'[i].decisions = {} /\ talk'.decisions = talk.decisions
                \/ spec'[i].decisions = talk.decisions /\ talk'.decisions = {}
  <2> DEFINE sp == [spec EXCEPT ![i] = Redefined(@)]
  <2>1. /\ sp \in [Items -> Specifications] /\ sp[i].decisions = {}
        /\ sp[i].turns = spec[i].turns /\ \A j \in Items \ {i} : sp[j] = spec[j]
    BY DEF ShapeOk, Specifications, Redefined
  <2> HIDE DEF sp
  <2>2. /\ spec' \in [Items -> Specifications] /\ talk' \in Talks /\ Other(at')
        /\ \A j \in Items \ {i} : spec'[j] = sp[j]
        /\ spec'[i].turns = sp[i].turns
        /\ talk'.turns = talk.turns /\ talk'.segment = talk.segment /\ talk'.drafted = talk.drafted
        /\ \/ spec'[i].decisions = {} /\ talk'.decisions = talk.decisions
           \/ spec'[i].decisions = talk.decisions /\ talk'.decisions = {}
    <3>1. RecordProvenance(i, sp, talk) BY <1>4 DEF sp
    <3>2. talk \in Talks BY DEF ShapeOk
    <3> QED BY <2>1, <3>1, <3>2, ProvenanceRecorded
  <2>3. planned(Inspected[i]) = Blank("formalized") BY DEF planned, Formalized
  <2>4. /\ Moved(doc[i], Blank("formalized")) /\ Idle(Blank("formalized"))
        /\ Blank("formalized").val # "confirmed"
    BY FreshMoved DEF Blank
  <2>5. /\ \A j \in Items : Moved(doc[j], doc'[j])
        /\ \A j \in Items \ overtaken' : j \notin overtaken \/ Idle(doc'[j])
        /\ doc'[i].val # "confirmed" /\ \A j \in Items \ {i} : spec'[j] = spec[j]
    BY <1>2, <1>4, <2>1, <2>2, <2>3, <2>4
  <2>6. ItemsOk' BY <2>1, <2>2, <2>5, <1>1, ItemsMove
  <2>7. doc' \in [Items -> StateDocuments] BY <1>2, <1>4, <2>3, <2>4 DEF Moved, Sound
  <2>8. ItemsStay BY <2>5 DEF ItemsStay, Moved
  <2> QED BY <2>1, <2>2, <2>5, <2>6, <2>7, <2>8
<1>5. CASE \E i \in Items :
        /\ doc' = [Inspected EXCEPT ![i] = planned(@)]
        /\ RecordProvenance(i, [spec EXCEPT ![i] = Redefined(@)], talk)
        /\ overtaken' = overtaken \ {i}
  BY <1>1, <1>4, <1>5
<1> QED BY <1>3, <1>5
     DEF CreateFromRequest, listWorkItemsPendingSpecification, OfKind

\* What writing an idea down does: the item is new, and takes the turns out of the discussion
\* when it takes the idea out of it.
LEMMA FromIdea ==
  ASSUME ShapeOk, ItemsOk, CreateFromIdea
  PROVE  /\ ItemsOk' /\ ItemsStay /\ doc' \in [Items -> StateDocuments]
         /\ spec' \in [Items -> Specifications] /\ talk' \in Talks /\ Other(at')
         /\ talk'.turns = talk.turns
         /\ \E f \in Items :
              /\ \A j \in Items \ {f} : spec'[j] = spec[j]
              /\ spec[f].turns = {} /\ spec'[f].turns \in {talk.turns, talk.segment}
              /\ \/ talk'.segment = talk.segment /\ talk'.drafted = talk.drafted
                 \/ /\ talk'.segment = {} /\ talk'.drafted = talk.drafted + 1
                    /\ f \in Features /\ ~Present(doc[f]) /\ Present(doc'[f])
              /\ \/ spec'[f].decisions = {} /\ talk'.decisions = talk.decisions
                 \/ spec'[f].decisions = talk.decisions /\ talk'.decisions = {}
         /\ UNCHANGED <<diag, filed, said, uses>>
<1> DEFINE d == IF front = "session" THEN Inspected ELSE doc
           f == nextFeatureId(d)
           fresh == [NothingWritten EXCEPT !.turns = TurnsToWrite(talk)]
           written == [spec EXCEPT ![f] = fresh]
           sp == [written EXCEPT ![f] = Redefined(@)]
           tk == [talk EXCEPT !.segment = {}, !.drafted = @ + 1]
<1>1. UNCHANGED <<diag, filed, said, uses, overtaken>> BY DEF CreateFromIdea, others
<1>2. /\ f \in Features
      /\ \/ /\ doc' = [d EXCEPT ![f] = Blank("request_pending")]
            /\ spec' = written /\ at' = Thrown /\ UNCHANGED talk
         \/ /\ doc' = [d EXCEPT ![f] = planned(Blank("request_pending"))]
            /\ RecordProvenance(f, sp, tk)
  BY DEF CreateFromIdea
<1>3. /\ d \in [Items -> StateDocuments] /\ \A i \in Items : Moved(doc[i], d[i])
  BY InspectedMoved, MovedNot DEF Inspected, Sound, ShapeOk, ItemsOk, ItemOk
<1>4. f \notin Existing(d)
  <2> DEFINE S == {0} \cup (Features \cap Existing(d))
  <2>1. S \in SUBSET Nat /\ IsFiniteSet(S)
    BY WithZero DEF Items
  <2>2. Max(S) \in Nat /\ \A y \in S : y <= Max(S)
    <3>1. S # {} OBVIOUS
    <3> HIDE DEF S
    <3> QED BY <2>1, <3>1, MinAndMax
  <2>3. f = 1 + Max(S) BY DEF nextFeatureId
  <2> HIDE DEF S, f
  <2>4. f \notin S BY <2>2, <2>3
  <2> QED BY <2>4, <1>2 DEF S
<1>5. f \in Items BY <1>2 DEF Items
<1> HIDE DEF f, d
<1>6. spec[f].turns = {} /\ ~Present(doc[f])
  <2>1. d[f].lc = "absent" BY <1>4, <1>5 DEF Existing
  <2>2. ~Present(doc[f]) BY <2>1, <1>3, <1>5 DEF Moved, Present
  <2> QED BY <2>2, <1>5 DEF ItemsOk, ItemOk
<1>7. TurnsToWrite(talk) \in {talk.turns, talk.segment} /\ TurnsToWrite(talk) \in SUBSET Nat
  BY DEF TurnsToWrite, ShapeOk, Talks
<1>8. /\ fresh \in Specifications /\ fresh.turns = TurnsToWrite(talk) /\ fresh.decisions = {}
      /\ Redefined(fresh) \in Specifications /\ Redefined(fresh).turns = TurnsToWrite(talk)
      /\ Redefined(fresh).decisions = {}
  BY <1>7 DEF Specifications, NothingWritten, Redefined
<1> HIDE DEF fresh
<1>9. /\ written \in [Items -> Specifications] /\ written[f] = fresh
      /\ \A j \in Items \ {f} : written[j] = spec[j]
      /\ sp \in [Items -> Specifications] /\ sp[f] = Redefined(fresh)
      /\ \A j \in Items \ {f} : sp[j] = spec[j]
  BY <1>5, <1>8 DEF ShapeOk
<1>10. /\ tk \in Talks /\ tk.turns = talk.turns /\ tk.segment = {}
       /\ tk.decisions = talk.decisions /\ tk.drafted = talk.drafted + 1
  <2>1. talk \in Talks BY DEF ShapeOk
  <2>2. talk.drafted + 1 \in Nat BY <2>1 DEF Talks
  <2>3. ASSUME NEW n \in Nat
        PROVE  LET other == [talk EXCEPT !.segment = {}, !.drafted = n]
               IN  /\ other \in Talks /\ other.turns = talk.turns /\ other.segment = {}
                   /\ other.decisions = talk.decisions /\ other.drafted = n
    BY <2>1 DEF Talks
  <2> QED BY <2>2, <2>3
<1> HIDE DEF written, sp, tk
<1>11. ASSUME NEW lc \in {"formalized", "request_pending"}, doc' = [d EXCEPT ![f] = Blank(lc)],
              \A j \in Items \ {f} : spec'[j] = spec[j]
       PROVE  /\ ItemsOk' /\ doc' \in [Items -> StateDocuments]
              /\ ItemsStay /\ Present(doc'[f])
  <2>1. Moved(doc[f], Blank(lc)) /\ Blank(lc).val # "confirmed" /\ Present(Blank(lc))
    BY FreshMoved DEF Blank, Present, NoTarget
  <2>2. /\ \A j \in Items : Moved(doc[j], doc'[j])
        /\ doc'[f].val # "confirmed" /\ Present(doc'[f])
    BY <1>3, <1>5, <1>11, <2>1
  <2>3. ItemsOk' BY <2>2, <1>11, <1>1, ItemsMove
  <2>4. doc' \in [Items -> StateDocuments] BY <1>3, <1>5, <1>11, <2>1 DEF Moved, Sound
  <2>5. ItemsStay BY <2>2 DEF ItemsStay, Moved
  <2> QED BY <2>2, <2>3, <2>4, <2>5
<1>12. CASE /\ doc' = [d EXCEPT ![f] = Blank("request_pending")]
            /\ spec' = written /\ at' = Thrown /\ UNCHANGED talk
  <2>1. ItemsOk' /\ doc' \in [Items -> StateDocuments] /\ ItemsStay BY <1>12, <1>11, <1>9
  <2>2. talk' \in Talks BY <1>12 DEF ShapeOk
  <2> QED BY <2>1, <2>2, <1>1, <1>5, <1>6, <1>7, <1>8, <1>9, <1>12, Asking
<1>13. CASE /\ doc' = [d EXCEPT ![f] = planned(Blank("request_pending"))]
            /\ RecordProvenance(f, sp, tk)
  <2>1. /\ spec' \in [Items -> Specifications] /\ talk' \in Talks /\ Other(at')
        /\ \A j \in Items \ {f} : spec'[j] = sp[j]
        /\ spec'[f].turns = sp[f].turns /\ talk'.turns = tk.turns
        /\ talk'.segment = tk.segment /\ talk'.drafted = tk.drafted
        /\ \/ spec'[f].decisions = {} /\ talk'.decisions = tk.decisions
           \/ spec'[f].decisions = tk.decisions /\ talk'.decisions = {}
    BY <1>5, <1>8, <1>9, <1>10, <1>13, ProvenanceRecorded
  <2>2. doc' = [d EXCEPT ![f] = Blank("formalized")] BY <1>13 DEF planned, Formalized
  <2>3. /\ ItemsOk' /\ doc' \in [Items -> StateDocuments]
        /\ ItemsStay /\ Present(doc'[f])
    BY <2>1, <2>2, <1>9, <1>11
  <2> QED BY <2>1, <2>3, <1>1, <1>2, <1>5, <1>6, <1>7, <1>8, <1>9, <1>10
<1> QED BY <1>2, <1>12, <1>13

\* Confirming is seeing: nothing else about the item changes but its validation.
LEMMA Confirming ==
  ASSUME ShapeOk, ItemsOk, ConfirmValidation
  PROVE  /\ ItemsOk' /\ ItemsStay /\ doc' \in [Items -> StateDocuments]
         /\ spec' \in [Items -> Specifications] /\ talk' \in Talks /\ Other(at')
         /\ talk'.turns = talk.turns /\ talk'.segment = talk.segment
         /\ talk'.decisions = talk.decisions /\ talk'.drafted = talk.drafted
         /\ \A j \in Items : spec'[j].turns = spec[j].turns /\ spec'[j].decisions = spec[j].decisions
         /\ UNCHANGED <<diag, filed, said, uses>>
<1>1. at.i \in Items
  BY DEF ConfirmValidation, Typed, AtPrompt, ShapeOk, Asked, AboutAnItem
<1>2. UNCHANGED <<diag, filed, said, uses>> BY DEF ConfirmValidation
<1>3. CASE at' = Thrown /\ UNCHANGED <<doc, spec, talk, overtaken>>
  BY <1>2, <1>3, Asking DEF ShapeOk, ItemsOk, ItemOk, Reported, ItemsStay
<1>4. CASE /\ doc' = [doc EXCEPT ![at.i] = Validated(@)]
           /\ spec' = [spec EXCEPT ![at.i].seen = TRUE]
           /\ overtaken' = overtaken \ {at.i}
           /\ talk' = Dequeued(talk) /\ at' = Onward(talk')
  <2>1. /\ spec' \in [Items -> Specifications] /\ spec'[at.i].seen
        /\ \A j \in Items \ {at.i} : spec'[j] = spec[j]
        /\ \A j \in Items :
             spec'[j].turns = spec[j].turns /\ spec'[j].decisions = spec[j].decisions
    BY <1>1, <1>4 DEF ShapeOk, Specifications
  <2>2. /\ talk' \in Talks /\ talk'.turns = talk.turns /\ talk'.segment = talk.segment
        /\ talk'.decisions = talk.decisions /\ talk'.drafted = talk.drafted
        /\ talk'.queue \subseteq Items
    BY <1>4 DEF ShapeOk, Talks, Dequeued
  <2>3. Other(at') BY <1>4, <2>2, OnwardAsks
  <2>4. /\ Sound(Validated(doc[at.i])) /\ Idle(Validated(doc[at.i]))
        /\ Validated(doc[at.i]).onFix = doc[at.i].onFix
        /\ Present(doc[at.i]) <=> Present(Validated(doc[at.i]))
    <3>1. Sound(doc[at.i]) BY <1>1 DEF ItemsOk, ItemOk
    <3>2. /\ Validated(doc[at.i]) \in StateDocuments
          /\ \A field \in {"lc", "task", "corr", "from", "onFix"} :
               Validated(doc[at.i])[field] = doc[at.i][field]
          /\ Validated(doc[at.i]).val = "confirmed"
      BY <3>1 DEF Sound, Validated, StateDocuments
    <3> HIDE DEF Validated
    <3>3. preferredRestorationTarget(Validated(doc[at.i])) = preferredRestorationTarget(doc[at.i])
      BY <3>2 DEF preferredRestorationTarget
    <3> QED BY <3>1, <3>2, <3>3 DEF Sound, Idle, MissingPointer, Present
  <2>5. doc'[at.i] = Validated(doc[at.i]) /\ \A j \in Items \ {at.i} : doc'[j] = doc[j]
    BY <1>1, <1>4 DEF ShapeOk
  <2>6. \A j \in Items : Reported(j)' = Reported(j) BY <1>2 DEF Reported
  <2>7. ItemsOk'
    <3> SUFFICES ASSUME NEW j \in Items PROVE ItemOk(j)' BY DEF ItemsOk
    <3>1. ItemOk(j) BY DEF ItemsOk
    <3>2. CASE j = at.i BY <3>1, <3>2, <2>1, <2>4, <2>5, <2>6, <1>2 DEF ItemOk
    <3>3. CASE j # at.i BY <3>1, <3>3, <2>1, <2>5, <2>6, <1>2, <1>4 DEF ItemOk
    <3> QED BY <3>2, <3>3
  <2>8. doc' \in [Items -> StateDocuments] BY <1>1, <1>4, <2>4 DEF ShapeOk, Sound
  <2>9. ItemsStay BY <2>4, <2>5 DEF ItemsStay
  <2> QED BY <2>1, <2>2, <2>3, <2>7, <2>8, <2>9, <1>2
<1> QED BY <1>3, <1>4 DEF ConfirmValidation

\* A fix opened from a conversation is this item's: one already filed for it, or a new one.
LEMMA OpeningFix ==
  ASSUME ShapeOk, ItemsOk, openFixFromConversation
  PROVE  /\ ItemsOk' /\ ItemsStay /\ doc' \in [Items -> StateDocuments]
         /\ spec' \in [Items -> Specifications] /\ filed' \in [Fixes -> Items \cup {0}]
         /\ at' = Main
         /\ \A j \in Items : spec'[j].turns = spec[j].turns /\ spec'[j].decisions = spec[j].decisions
         /\ UNCHANGED <<diag, talk, said, uses>>
<1>1. at.i \in Items
  BY DEF openFixFromConversation, AtPrompt, ShapeOk, Asked, AboutAnItem
<1>2. at' = Main /\ UNCHANGED <<diag, talk, said, uses, overtaken>>
  BY DEF openFixFromConversation, others
<1>3. PICK f \in FixFiledFor(at.i) \cup nextFixId :
        /\ doc' = [[doc EXCEPT ![f] = IF @.lc = "absent" THEN Filed ELSE @]
                      EXCEPT ![at.i] = [@ EXCEPT !.onFix = f, !.ack = FALSE]]
        /\ IF doc[f].lc = "absent"
           THEN filed' = [filed EXCEPT ![f] = at.i] /\ spec' = [spec EXCEPT ![f].defined = TRUE]
           ELSE UNCHANGED <<filed, spec>>
  BY DEF openFixFromConversation
<1>4. f \in Fixes /\ f \in Items /\ f \in Nat \ {0} /\ at.i # 0
  BY <1>1, <1>3, SessionAssumption DEF FixFiledFor, nextFixId, Items
<1>5. filed[f] = at.i \/ doc[f].lc = "absent"
  <2>1. CASE f \in FixFiledFor(at.i) BY <2>1 DEF FixFiledFor
  <2>2. CASE f \in nextFixId
    <3> DEFINE S == {0} \cup Features \cup (Fixes \cap Existing(doc))
    <3>1. S \in SUBSET Nat /\ IsFiniteSet(S)
      <4>1. S = {0} \cup (Features \cup (Fixes \cap Existing(doc))) OBVIOUS
      <4> HIDE DEF S
      <4> QED BY <4>1, WithZero DEF Items
    <3>2. Max(S) \in Nat /\ \A y \in S : y <= Max(S)
      <4>1. S # {} OBVIOUS
      <4> HIDE DEF S
      <4> QED BY <3>1, <4>1, MinAndMax
    <3>3. f = 1 + Max(S) BY <2>2 DEF nextFixId
    <3> HIDE DEF S
    <3>4. f \notin S BY <3>2, <3>3
    <3> QED BY <3>4, <1>4 DEF S, Existing
  <2> QED BY <1>3, <2>1, <2>2
<1>6. /\ filed' \in [Fixes -> Items \cup {0}] /\ filed'[f] = at.i
      /\ \A g \in Fixes \ {f} : filed'[g] = filed[g]
  BY <1>1, <1>3, <1>4, <1>5 DEF ShapeOk
<1>7. /\ spec' \in [Items -> Specifications]
      /\ \A j \in Items : /\ spec'[j].turns = spec[j].turns /\ spec'[j].seen = spec[j].seen
                          /\ spec'[j].decisions = spec[j].decisions
  <2>1. spec \in [Items -> Specifications] BY DEF ShapeOk
  <2>2. CASE spec' = spec BY <2>1, <2>2
  <2>3. CASE spec' = [spec EXCEPT ![f].defined = TRUE] BY <2>1, <2>3, <1>4 DEF Specifications
  <2> QED BY <1>3, <2>2, <2>3
<1> DEFINE filedDoc(s) == IF s.lc = "absent" THEN Filed ELSE s
           waiting(s) == [s EXCEPT !.onFix = f, !.ack = FALSE]
<1>8. /\ Sound(Filed) /\ Idle(Filed) /\ Present(Filed) /\ Filed.onFix = NoFix
  BY DEF Filed, Sound, Idle, Present, Blank, StateDocuments, RestorationTargets, Lifecycles, Planning,
       Executing, Failed, MissingPointer, Anchored, NoTarget, NoTask, NoFix, NoBlocker,
       preferredRestorationTarget, forwardRestorationLifecycleState
<1>9. ASSUME NEW s, Sound(s)
      PROVE  /\ Sound(waiting(s)) /\ (Idle(s) => Idle(waiting(s))) /\ waiting(s).onFix = f
             /\ waiting(s).val = s.val /\ (Present(waiting(s)) <=> Present(s))
  <2>1. s \in StateDocuments BY <1>9 DEF Sound
  <2>2. /\ waiting(s) \in StateDocuments
        /\ \A field \in {"lc", "task", "corr", "from", "val"} : waiting(s)[field] = s[field]
        /\ waiting(s).onFix = f
    BY <1>4, <2>1 DEF StateDocuments
  <2> HIDE DEF waiting
  <2>3. preferredRestorationTarget(waiting(s)) = preferredRestorationTarget(s)
    BY <2>2 DEF preferredRestorationTarget
  <2> QED BY <1>9, <2>2, <2>3 DEF Sound, Idle, MissingPointer, Present
<1>10. /\ doc' \in [Items -> StateDocuments]
       /\ \A j \in Items : LET s == IF j = f THEN filedDoc(doc[j]) ELSE doc[j]
                           IN  doc'[j] = IF j = at.i THEN waiting(s) ELSE s
  <2>1. \A j \in Items : LET s == IF j = f THEN filedDoc(doc[j]) ELSE doc[j]
                         IN  doc'[j] = IF j = at.i THEN waiting(s) ELSE s
    <3>1. doc \in [Items -> StateDocuments] BY DEF ShapeOk
    <3>2. doc' = [[doc EXCEPT ![f] = filedDoc(@)] EXCEPT ![at.i] = waiting(@)]
      BY <1>3
    <3>3. doc' = [j \in Items |->
            LET s == IF j = f THEN filedDoc(doc[j]) ELSE doc[j]
            IN  IF j = at.i THEN waiting(s) ELSE s]
      <4> HIDE DEF waiting, filedDoc
      <4> QED BY <1>1, <1>4, <3>1, <3>2
    <3> QED BY <3>3
  <2>2. \A j \in Items : Sound(doc[j]) BY DEF ItemsOk, ItemOk
  <2>3. \A j \in Items : Sound(doc'[j])
    <3> HIDE DEF waiting
    <3> QED BY <2>1, <2>2, <1>8, <1>9
  <2>4. doc' = [j \in Items |-> doc'[j]] BY <1>3 DEF ShapeOk
  <2> QED BY <2>1, <2>3, <2>4 DEF Sound
<1> HIDE DEF waiting
<1>11. ItemsOk'
  <2> SUFFICES ASSUME NEW j \in Items PROVE ItemOk(j)' BY DEF ItemsOk
  <2> DEFINE s == IF j = f THEN filedDoc(doc[j]) ELSE doc[j]
  <2>1. ItemOk(j) /\ ItemOk(f) BY <1>4 DEF ItemsOk
  <2>2. /\ Sound(s) /\ (j \notin overtaken => Idle(s))
        /\ s.onFix \in {doc[j].onFix, NoFix} /\ (Present(doc[j]) => Present(s))
        /\ j = f => s = Filed \/ s = doc[j]
        /\ j # f => s = doc[j]
    BY <2>1, <1>8 DEF ItemOk
  <2>3. doc'[j] = IF j = at.i THEN waiting(s) ELSE s BY <1>10
  <2>4. Reported(j)' = (Reported(j) \/ j = f)
    BY <1>1, <1>4, <1>6, SessionAssumption DEF Reported
  <2>5. Sound(doc'[j]) /\ (j \notin overtaken' => Idle(doc'[j])) BY <2>2, <2>3, <1>2, <1>9
  <2>6. ~Reported(j)' /\ doc'[j].val = "confirmed" => spec'[j].seen
    BY <2>1, <2>2, <2>3, <2>4, <1>7, <1>9 DEF ItemOk
  <2>7. doc'[j].onFix # NoFix => doc'[j].onFix \in Fixes /\ filed'[doc'[j].onFix] = j
    <3>1. CASE j = at.i BY <3>1, <2>2, <2>3, <1>4, <1>6, <1>9
    <3>2. CASE j # at.i
      <4>1. doc'[j] = s BY <3>2, <2>3
      <4>2. ASSUME s.onFix # NoFix PROVE s.onFix \in Fixes /\ filed'[s.onFix] = j
        <5>1. s.onFix = doc[j].onFix /\ s.onFix \in Fixes /\ filed[s.onFix] = j
          BY <2>1, <2>2, <4>2 DEF ItemOk
        <5>2. CASE s.onFix # f BY <5>1, <5>2, <1>6
        <5>3. CASE s.onFix = f
          <6>1. filed[f] = j /\ j # 0 BY <5>1, <5>3, SessionAssumption
          <6>2. Reported(f) BY <6>1, <1>4 DEF Reported
          <6>3. doc[f].lc # "absent" BY <6>2, <2>1 DEF ItemOk, Present
          <6> QED BY <6>1, <6>3, <1>5, <3>2
        <5> QED BY <5>2, <5>3
      <4> QED BY <4>1, <4>2
    <3> QED BY <3>1, <3>2
  <2>8. Reported(j)' \/ spec'[j].turns # {} => Present(doc'[j])
    <3>1. Reported(j)' \/ spec'[j].turns # {} => Present(s)
      <4>1. CASE j # f BY <4>1, <2>1, <2>2, <2>4, <1>7 DEF ItemOk
      <4>2. CASE j = f /\ doc[f].lc = "absent" BY <4>2, <1>8
      <4>3. CASE j = f /\ doc[f].lc # "absent"
        <5>1. Reported(f) BY <4>3, <1>1, <1>4, <1>5 DEF Reported
        <5> QED BY <5>1, <4>3, <2>1, <2>2 DEF ItemOk
      <4> QED BY <4>1, <4>2, <4>3
    <3> QED BY <3>1, <2>2, <2>3, <1>9
  <2> QED BY <2>5, <2>6, <2>7, <2>8 DEF ItemOk
<1>12. ItemsStay
  <2> SUFFICES ASSUME NEW j \in Items, Present(doc[j]) PROVE Present(doc'[j]) BY DEF ItemsStay
  <2> DEFINE s == IF j = f THEN filedDoc(doc[j]) ELSE doc[j]
  <2>1. s = doc[j] BY DEF Present
  <2>2. Sound(doc[j]) BY DEF ItemsOk, ItemOk
  <2>3. doc'[j] = IF j = at.i THEN waiting(doc[j]) ELSE doc[j] BY <1>10, <2>1
  <2> QED BY <1>9, <2>2, <2>3
<1> QED BY <1>2, <1>6, <1>7, <1>10, <1>11, <1>12

\* Taking a specification back leaves the item at rest, and its definition unseen.
LEMMA Correcting ==
  ASSUME ShapeOk, ItemsOk, correctSpecification
  PROVE  /\ ItemsOk' /\ ItemsStay /\ doc' \in [Items -> StateDocuments]
         /\ spec' \in [Items -> Specifications] /\ diag' \in [Items -> Diagnoses]
         /\ at' = Main
         /\ \A j \in Items : spec'[j].turns = spec[j].turns /\ spec'[j].decisions = spec[j].decisions
         /\ UNCHANGED <<filed, talk, said, uses>>
<1>1. at.i \in Items BY DEF correctSpecification, AtPrompt, ShapeOk, Asked, AboutAnItem
<1>2. /\ doc' = [doc EXCEPT ![at.i] = SpecificationInvalidated(doc[at.i])]
      /\ spec' = [spec EXCEPT ![at.i].seen = FALSE] /\ diag' = [diag EXCEPT ![at.i] = NoDiagnosis]
      /\ overtaken' = overtaken \ {at.i} /\ at' = Main /\ UNCHANGED <<filed, talk, said, uses>>
  BY DEF correctSpecification
<1>3. \A i \in Items : Sound(doc[i]) BY DEF ItemsOk, ItemOk
<1>4. /\ Moved(doc[at.i], SpecificationInvalidated(doc[at.i]))
      /\ Idle(SpecificationInvalidated(doc[at.i]))
      /\ SpecificationInvalidated(doc[at.i]).val # "confirmed"
  <2>1. SpecificationInvalidated(doc[at.i]).val = "not_started"
    BY <1>1, <1>3 DEF SpecificationInvalidated, Sound, StateDocuments
  <2> QED BY <2>1, <1>1, <1>3, InvalidatedMoved
<1>5. /\ doc'[at.i] = SpecificationInvalidated(doc[at.i])
      /\ \A j \in Items \ {at.i} : doc'[j] = doc[j]
  BY <1>1, <1>2 DEF ShapeOk
<1>6. /\ spec' \in [Items -> Specifications] /\ \A j \in Items \ {at.i} : spec'[j] = spec[j]
      /\ \A j \in Items : spec'[j].turns = spec[j].turns /\ spec'[j].decisions = spec[j].decisions
  BY <1>1, <1>2 DEF ShapeOk, Specifications
<1>7. \A j \in Items : Moved(doc[j], doc'[j]) BY <1>3, <1>4, <1>5, MovedNot
<1>8. ItemsOk'
  <2>1. \A j \in Items : doc'[j].val = "confirmed" => spec'[j].seen = spec[j].seen
    BY <1>4, <1>5, <1>6
  <2>2. \A j \in Items \ overtaken' : j \notin overtaken \/ Idle(doc'[j]) BY <1>2, <1>4, <1>5
  <2> QED BY <1>2, <1>6, <1>7, <2>1, <2>2, ItemsMove
<1>9. doc' \in [Items -> StateDocuments]
  <2>1. SpecificationInvalidated(doc[at.i]) \in StateDocuments BY <1>4 DEF Moved, Sound
  <2> QED BY <1>1, <1>2, <2>1 DEF ShapeOk
<1>10. diag' \in [Items -> Diagnoses] BY <1>2 DEF ShapeOk, NoDiagnosis, Diagnoses
<1>11. ItemsStay BY <1>7 DEF ItemsStay, Moved
<1> QED BY <1>2, <1>6, <1>8, <1>9, <1>10, <1>11

\* A step that returns puts its item back to work, overtaken if nobody confirms it any more.
LEMMA Returning ==
  ASSUME ShapeOk, ItemsOk, FlightOk, StepReturns
  PROVE  /\ ItemsOk' /\ ItemsStay /\ doc' \in [Items -> StateDocuments] /\ overtaken' \subseteq Items
         /\ flight' = NoFlight /\ at' = IF at.p = "running" THEN Main ELSE at
         /\ UNCHANGED <<spec, diag, filed, talk, said, uses, front>>
<1> DEFINE i == flight.i
<1>1. /\ flight \in [i : Items, step : Steps, task : Nat] /\ i \in Items
      /\ flight.step \in {"plan", "implement", "review"} => flight.task # NoTask
  BY DEF StepReturns, FlightOk
<1>2. /\ flight' = NoFlight /\ at' = IF at.p = "running" THEN Main ELSE at
      /\ UNCHANGED <<spec, diag, filed, talk, said, uses, front>>
  BY DEF StepReturns, AtPrompt
<1>3. \A j \in Items : Sound(doc[j]) BY DEF ItemsOk, ItemOk
<1>4. \A j \in Items : Reported(j)' = Reported(j) BY <1>2 DEF Reported
<1>5. CASE UNCHANGED <<doc, overtaken>>
  <2>1. ItemsOk' BY <1>2, <1>4, <1>5 DEF ItemsOk, ItemOk
  <2>2. ItemsStay BY <1>5 DEF ItemsStay
  <2> QED BY <1>2, <1>5, <2>1, <2>2 DEF ShapeOk, FlightOk
<1>6. CASE /\ \E s \in Results(doc[i], flight) : doc' = [doc EXCEPT ![i] = s]
           /\ overtaken' = IF doc[i].val = "confirmed" THEN overtaken ELSE overtaken \cup {i}
  <2>1. PICK s \in Results(doc[i], flight) : doc' = [doc EXCEPT ![i] = s] BY <1>6
  <2>2. Landed(doc[i], s) BY <1>1, <1>3, <2>1, ResultLands
  <2>3. doc'[i] = s /\ \A j \in Items \ {i} : doc'[j] = doc[j] BY <1>1, <2>1 DEF ShapeOk
  <2>4. doc' \in [Items -> StateDocuments] BY <1>1, <2>1, <2>2 DEF ShapeOk, Landed, Sound
  <2>5. ItemsOk'
    <3> SUFFICES ASSUME NEW j \in Items PROVE ItemOk(j)' BY DEF ItemsOk
    <3>1. ItemOk(j) BY DEF ItemsOk
    <3>2. CASE j # i BY <3>1, <3>2, <1>2, <1>4, <1>6, <2>3 DEF ItemOk
    <3>3. CASE j = i
      <4>1. j \notin overtaken' => Idle(doc'[j]) BY <3>3, <1>6, <2>2, <2>3 DEF Idle, Landed
      <4> QED BY <3>1, <3>3, <4>1, <1>2, <1>4, <2>2, <2>3 DEF ItemOk, Landed
    <3> QED BY <3>2, <3>3
  <2>6. ItemsStay BY <2>2, <2>3 DEF ItemsStay, Landed
  <2>7. overtaken' \subseteq Items BY <1>1, <1>6 DEF FlightOk
  <2> QED BY <1>2, <2>4, <2>5, <2>6, <2>7
<1> QED BY <1>5, <1>6 DEF StepReturns

(***************************************************************************)
(* Turns, decisions and retries.                                           *)
(***************************************************************************)

\* A turn is kept and stays in the idea; a decision is a new turn.
LEMMA TalkedStep ==
  ASSUME ShapeOk, TalkOk, Talked
  PROVE  /\ talk' \in Talks /\ said' \in Nat /\ Other(at') /\ TalkOk'
         /\ UNCHANGED <<doc, spec, diag, filed, uses>>
<1>1. talk \in Talks /\ said \in Nat /\ Asked(at) BY DEF ShapeOk
<1>2. ASSUME NEW tk \in Talks, NEW n \in Nat
      PROVE  /\ [tk EXCEPT !.turns = @ \cup {n}, !.segment = @ \cup {n}] \in Talks
             /\ [tk EXCEPT !.turns = @ \cup {n}, !.segment = @ \cup {n}].turns = tk.turns \cup {n}
             /\ [tk EXCEPT !.turns = @ \cup {n}, !.segment = @ \cup {n}].segment
                  = tk.segment \cup {n}
             /\ [tk EXCEPT !.turns = @ \cup {n}, !.segment = @ \cup {n}].decisions = tk.decisions
  BY DEF Talks
<1>3. /\ Spoken(talk) \in Talks /\ Spoken(talk).turns = talk.turns \cup {said + 1}
      /\ Spoken(talk).segment = talk.segment \cup {said + 1}
      /\ Spoken(talk).decisions = talk.decisions
  <2>1. said + 1 \in Nat BY <1>1
  <2> QED BY <1>1, <1>2, <2>1 DEF Spoken
<1>4. 1..said \subseteq 1..(said + 1) /\ said + 1 \in 1..(said + 1) /\ said + 1 \notin 1..said
  BY <1>1
<1>5. CASE Converse
  <2>1. /\ talk' = Spoken(talk) /\ said' = said + 1
        /\ UNCHANGED <<doc, spec, diag, filed, uses>>
    BY <1>5 DEF Converse, items
  <2>2. Other(at')
    <3>1. CASE at' = Main BY <3>1, Asking
    <3>2. ASSUME NEW names \in SUBSET Names,
                 at' \in {Nobody, AfterTurn(names), Offering("decision", 0, names)}
          PROVE  Other(at')
      BY <3>2, Asking
    <3>3. at' = Main \/ \E names \in {{}} \cup {{n} : n \in Names} :
                          at' \in {Nobody, AfterTurn(names), Offering("decision", 0, names)}
      BY <1>5 DEF Converse
    <3> QED BY <3>1, <3>2, <3>3
  <2>3. TalkOk'
    <3> HIDE DEF Spoken
    <3> QED BY <1>3, <1>4, <2>1 DEF TalkOk
  <2> QED BY <1>1, <1>3, <2>1, <2>2, <2>3
<1>6. CASE TakeDecision
  <2>1. UNCHANGED <<doc, spec, diag, filed, uses>> BY <1>6 DEF TakeDecision, items
  <2>2. Other(at')
    <3>1. at.names \in SUBSET (Names \cup Fields) BY <1>1 DEF Asked, Prompts
    <3> QED BY <3>1, <1>6, Asking DEF TakeDecision
  <2>3. CASE UNCHANGED <<talk, said>> BY <1>1, <2>1, <2>2, <2>3 DEF TalkOk
  <2>4. CASE /\ talk' = [Spoken(talk) EXCEPT !.decisions = @ \cup {said + 1}]
             /\ said' = said + 1
    <3>1. ASSUME NEW tk \in Talks, NEW n \in Nat
          PROVE  LET other == [tk EXCEPT !.decisions = @ \cup {n}]
                 IN  /\ other \in Talks /\ other.turns = tk.turns /\ other.segment = tk.segment
                     /\ other.decisions = tk.decisions \cup {n}
      BY DEF Talks
    <3>2. /\ talk' \in Talks /\ talk'.turns = talk.turns \cup {said + 1}
          /\ talk'.segment = talk.segment \cup {said + 1}
          /\ talk'.decisions = talk.decisions \cup {said + 1}
      <4> HIDE DEF Spoken
      <4> QED BY <1>1, <1>3, <2>4, <3>1
    <3>3. TalkOk' BY <1>4, <2>1, <2>4, <3>2 DEF TalkOk
    <3> QED BY <1>1, <2>1, <2>2, <2>4, <3>2, <3>3
  <2> QED BY <1>6, <2>3, <2>4 DEF TakeDecision
<1>7. CASE NextRound
  <2>1. UNCHANGED <<doc, spec, diag, filed, said, uses>> BY <1>7 DEF NextRound, items, others
  <2>2. CASE at' = [at EXCEPT !.round = @ + 1] /\ UNCHANGED talk
    <3>1. Other(at)
      BY <1>1, <1>7 DEF NextRound, AtPrompt, Other
    <3>2. ASSUME NEW n \in Nat PROVE Other([at EXCEPT !.round = n])
      BY <3>1 DEF Other, Asked, Prompts
    <3>3. at.round + 1 \in Nat BY <1>1 DEF Asked, Prompts
    <3> QED BY <1>1, <2>1, <2>2, <3>2, <3>3 DEF TalkOk
  <2>3. CASE talk' = Dequeued(talk) /\ at' = Onward(talk')
    <3>1. /\ talk' \in Talks /\ talk'.queue \subseteq Items /\ talk'.turns = talk.turns
          /\ talk'.segment = talk.segment /\ talk'.decisions = talk.decisions
      BY <1>1, <2>3 DEF Talks, Dequeued
    <3>2. Other(at') BY <2>3, <3>1, OnwardAsks
    <3> QED BY <1>1, <2>1, <3>1, <3>2 DEF TalkOk
  <2> QED BY <1>7, <2>2, <2>3 DEF NextRound
<1> QED BY <1>5, <1>6, <1>7 DEF Talked

\* A step begun, and a person who unblocks, say nothing and offer no retry beyond the last.
LEMMA RewritingAsks ==
  ASSUME IInv, Rewriting
  PROVE  /\ diag' \in [Items -> Diagnoses] /\ talk' \in Talks /\ Asked(at') /\ RetryOk'
         /\ \/ talk' = talk
            \/ /\ talk'.turns = {} /\ talk'.segment = {}
               /\ talk'.decisions = {} /\ talk'.drafted = 0
<1> USE DEF items, lists, others
<1>1. /\ talk \in Talks /\ Asked(at) /\ diag \in [Items -> Diagnoses] /\ RetryOk
      /\ \A i \in Items : doc[i] \in StateDocuments
  BY DEF IInv, ShapeOk
<1>2. Other(at') => Asked(at') /\ RetryOk' BY DEF Other, RetryOk
<1>3. CASE StartSession
  <2>1. diag' = diag /\ at' = Main BY <1>3 DEF StartSession
  <2>2. PICK owns \in BOOLEAN : talk' = [Silence EXCEPT !.owns = owns]
    BY <1>3 DEF StartSession
  <2>3. /\ talk' \in Talks /\ talk'.turns = {} /\ talk'.segment = {}
        /\ talk'.decisions = {} /\ talk'.drafted = 0
    BY <2>2 DEF Silence, Talks
  <2> QED BY <1>1, <1>2, <2>1, <2>3, Asking
<1>4. CASE StartOtherFront
  <2> DEFINE pending == listFeaturesAwaitingValidation(doc')
  <2>1. pending \in SUBSET Items BY DEF listFeaturesAwaitingValidation, OfKind
  <2>2. /\ diag' = diag /\ talk' = [Silence EXCEPT !.queue = pending]
        /\ at' = IF pending # {} THEN Prompt("validate", Min(pending))
                 ELSE IF front' = "brainstorm" THEN Main ELSE Nobody
    BY <1>4 DEF StartOtherFront
  <2> HIDE DEF pending
  <2>3. /\ talk' \in Talks /\ talk'.turns = {} /\ talk'.segment = {}
        /\ talk'.decisions = {} /\ talk'.drafted = 0
    BY <2>1, <2>2 DEF Silence, Talks
  <2>4. pending # {} => Min(pending) \in Items
    <3>1. IsFiniteSet(pending) /\ pending \in SUBSET Nat
      BY <2>1, SessionAssumption, FS_Subset
    <3> QED BY <2>1, <3>1, MinAndMax
  <2>5. Other(at') BY <2>2, <2>4, Asking DEF AboutAnItem
  <2> QED BY <1>1, <1>2, <2>2, <2>3, <2>5
<1>5. CASE Listo
  <2>1. diag' = diag /\ talk' = talk BY <1>5 DEF Listo
  <2>2. Other(at')
    <3>1. at' = Main \/ \E i \in Items : at' = Prompt("validate", i)
      BY <1>5 DEF Listo, Existing
    <3> QED BY <3>1, Asking DEF AboutAnItem
  <2> QED BY <1>1, <1>2, <2>1, <2>2
<1>6. CASE Desbloquear
  <2>1. talk' = talk /\ uses' = uses BY <1>6 DEF Desbloquear
  <2>2. CASE at' = Main /\ UNCHANGED diag BY <1>1, <1>2, <2>1, <2>2, Asking
  <2>3. ASSUME NEW i \in Items, NEW kept \in Diagnosed(i, doc'[i]), doc' = Inspected,
               diag' = [diag EXCEPT ![i] = kept],
               at' = [Prompt("exits", i) EXCEPT
                        !.retry = availableRetry(recoveryRetriesTaken(i, diag', doc'[i]))]
        PROVE  diag' \in [Items -> Diagnoses] /\ Asked(at') /\ RetryOk'
    <3>1. doc'[i] \in StateDocuments
      BY <2>3, InspectedMoved DEF IInv, Sound
    <3>2. kept \in Diagnoses
      <4>1. CASE kept = diag[i] BY <4>1, <1>1
      <4>2. CASE /\ doc'[i].by # NoBlocker
                 /\ kept = [sig |-> Signature(doc'[i].by), retries |-> 0]
        <5>1. doc'[i].by \in Blockers BY <3>1, <4>2 DEF StateDocuments
        <5>2. Signature(doc'[i].by) \in Signatures
          BY <5>1 DEF Signature, Signatures, Blockers
        <5> HIDE DEF Signature, Signatures
        <5> QED BY <4>2, <5>2 DEF Diagnoses
      <4> QED BY <2>3, <4>1, <4>2 DEF Diagnosed
    <3>3. diag' \in [Items -> Diagnoses] /\ diag'[i] = kept BY <1>1, <2>3, <3>2
    <3> DEFINE retry == availableRetry(recoveryRetriesTaken(i, diag', doc'[i]))
    <3>4. retry \in BOOLEAN BY DEF availableRetry
    <3>5. SameProblem(i)' /\ retry => diag'[i].retries < MAX_RECOVERY_RETRIES
      BY DEF SameProblem, availableRetry, recoveryRetriesTaken
    <3>6. at' = [p |-> "exits", i |-> i, names |-> {}, round |-> 1, retry |-> retry]
      <4> HIDE DEF retry
      <4>1. at' = [Prompt("exits", i) EXCEPT !.retry = retry] BY <2>3 DEF retry
      <4> QED BY <4>1 DEF Prompt
    <3> HIDE DEF retry
    <3>7. Asked(at') BY <3>4, <3>6 DEF Asked, Prompts, AboutAnItem
    <3>8. at'.p = "exits" /\ at'.i = i /\ at'.retry = retry BY <3>6
    <3>9. RetryOk' BY <3>5, <3>8 DEF RetryOk, SameProblem
    <3> QED BY <3>3, <3>7, <3>9
  <2>4. \/ at' = Main /\ UNCHANGED diag
        \/ \E i \in Items : \E kept \in Diagnosed(i, doc'[i]) :
             /\ diag' = [diag EXCEPT ![i] = kept]
             /\ at' = [Prompt("exits", i) EXCEPT
                         !.retry = availableRetry(recoveryRetriesTaken(i, diag', doc'[i]))]
    BY <1>6 DEF Desbloquear, listBlockedWorkItems
  <2>5. doc' = Inspected BY <1>6 DEF Desbloquear
  <2> QED BY <1>1, <2>1, <2>2, <2>3, <2>4, <2>5
<1>7. CASE retryWithContext
  <2>1. at.i \in Items BY <1>1, <1>7 DEF retryWithContext, AtPrompt, Asked, AboutAnItem
  <2>2. talk' = talk /\ at' = Main BY <1>7 DEF retryWithContext
  <2>3. diag' = diag \/ diag' = [diag EXCEPT ![at.i].retries = @ + 1]
    BY <1>7 DEF retryWithContext
  <2>4. diag' \in [Items -> Diagnoses] BY <1>1, <2>1, <2>3 DEF Diagnoses
  <2> QED BY <1>1, <1>2, <2>2, <2>4, Asking
<1>9. CASE acknowledgeBlocker
  <2>1. talk' = talk /\ at' = Main /\ diag' = diag BY <1>9 DEF acknowledgeBlocker
  <2> QED BY <1>1, <1>2, <2>1, Asking
<1>10. CASE StepBegins
  <2>1. UNCHANGED <<talk, diag, uses>> BY <1>10 DEF StepBegins
  <2>2. at' = Prompt("running", 0) \/ (at' = at /\ Can("elsewhere"))
    BY <1>10 DEF StepBegins
  <2>3. CASE at' = Prompt("running", 0)
    BY <1>1, <2>1, <2>3 DEF Prompt, Asked, Prompts, AboutAnItem, RetryOk
  <2>4. CASE at' = at /\ Can("elsewhere") BY <1>1, <2>1, <2>4 DEF RetryOk, Can
  <2> QED BY <2>2, <2>3, <2>4
<1>11. CASE AcknowledgedElsewhere
  <2>1. UNCHANGED <<talk, at, diag, uses>> /\ Can("elsewhere")
    BY <1>11 DEF AcknowledgedElsewhere
  <2>2. RetryOk' BY <2>1 DEF RetryOk, Can
  <2> QED BY <1>1, <2>1, <2>2
<1> QED BY <1>3, <1>4, <1>5, <1>6, <1>7, <1>9, <1>10, <1>11 DEF Rewriting

(***************************************************************************)
(* The invariant holds.                                                    *)
(***************************************************************************)

LEMMA InitInv == ASSUME Init PROVE IInv
<1>1. PICK situation \in Situations : doc = situation.docs BY DEF Init
<1>2. /\ doc \in [Items -> StateDocuments]
      /\ \A i \in Items : /\ Sound(doc[i]) /\ Idle(doc[i]) /\ doc[i].onFix = NoFix
                          /\ doc[i].lc \in {"absent", "request_pending"} =>
                               doc[i].val # "confirmed"
  BY <1>1, SessionAssumption
<1>3. /\ talk = Silence /\ at = Nobody /\ said = 0
      /\ diag = [i \in Items |-> NoDiagnosis] /\ filed = [f \in Fixes |-> 0]
      /\ spec = [i \in Items |->
           IF doc[i].lc \in {"absent", "request_pending"} THEN NothingWritten
           ELSE [NothingWritten EXCEPT !.defined = TRUE, !.seen = doc[i].val = "confirmed"]]
  BY DEF Init
<1>4. \A i \in Items : /\ spec[i] \in Specifications /\ spec[i].turns = {}
                       /\ spec[i].decisions = {}
                       /\ doc[i].val = "confirmed" => spec[i].seen
  <2>1. TAKE i \in Items
  <2>2. CASE doc[i].lc \in {"absent", "request_pending"}
    <3>1. spec[i] = NothingWritten BY <1>3, <2>2
    <3> QED BY <3>1, <2>2, <1>2 DEF NothingWritten, Specifications
  <2>3. CASE doc[i].lc \notin {"absent", "request_pending"}
    <3> DEFINE seen == doc[i].val = "confirmed"
    <3>1. spec[i] = [NothingWritten EXCEPT !.defined = TRUE, !.seen = seen] BY <1>3, <2>3
    <3>2. seen \in BOOLEAN /\ (doc[i].val = "confirmed" => seen) OBVIOUS
    <3> HIDE DEF seen
    <3>3. spec[i] = [turns |-> {}, defined |-> TRUE, decisions |-> {}, seen |-> seen]
      BY <3>1 DEF NothingWritten
    <3> QED BY <3>2, <3>3 DEF Specifications
  <2> QED BY <2>2, <2>3
<1>5. NoDiagnosis \in Diagnoses BY DEF NoDiagnosis, Diagnoses
<1>6. Silence \in Talks /\ Silence.turns = {} /\ Silence.decisions = {} BY DEF Silence, Talks
<1>7. Other(at) BY <1>3, Asking
<1>8. ShapeOk
  <2>1. spec \in [Items -> Specifications] BY <1>3, <1>4
  <2>2. diag \in [Items -> Diagnoses] /\ filed \in [Fixes -> Items \cup {0}] BY <1>3, <1>5
  <2> QED BY <1>2, <1>3, <1>6, <1>7, <2>1, <2>2 DEF ShapeOk, Other
<1>9. ItemsOk
  <2>1. \A i \in Items : ~Reported(i) BY <1>3 DEF Reported
  <2> QED BY <2>1, <1>2, <1>4 DEF ItemsOk, ItemOk
<1>10. TalkOk BY <1>3, <1>4, <1>6 DEF TalkOk
<1>11. RetryOk BY <1>7 DEF RetryOk, Other
<1>12. FlightOk BY <1>7 DEF Init, FlightOk, NoFlight, Other
<1> QED BY <1>8, <1>9, <1>10, <1>11, <1>12 DEF IInv

\* A session waits for its run until the step returns.
LEMMA Waiting ==
  ASSUME at.p = "running", front = "session", [Next]_vars
  PROVE  at' = at \/ StepReturns
<1>1. at # Nobody /\ at.p \notin AboutAnItem \cup {"main", "nobody", "decision", "dimension", "why",
                                                "facts"}
  BY DEF Nobody, Prompt, AboutAnItem
<1> USE <1>1 DEF AtPrompt, Typed, Command, AboutAnItem
<1>2. CASE Quiet
  BY <1>2 DEF Quiet, Leave, CloseInput, LeaveAtEof, ConsiderDimension, Cover, RoundFails, OfferExits,
    Cancel, Proceed, Descartar, KeepInScope, Discard, Reabrir, Proyecto, inferProjectGaps, Confirmar,
    ConfirmFacts, DecidedElsewhere, RefreshedElsewhere, ManifestsChange, vars
<1>3. CASE Talked BY <1>3 DEF Talked, Converse, TakeDecision, NextRound
<1>4. CASE Rewriting
  BY <1>4 DEF Rewriting, StartSession, StartOtherFront, Listo, Desbloquear, retryWithContext,
    acknowledgeBlocker, StepBegins, AcknowledgedElsewhere
<1>5. CASE Defining
  BY <1>5 DEF Defining, CreateFromRequest, CreateFromIdea, ConfirmValidation,
    openFixFromConversation, correctSpecification
<1> QED BY <1>2, <1>3, <1>4, <1>5, Kinds

\* One step is in flight at a time, with what it needs to return.
LEMMA FlightStep == ASSUME IInv, [Next]_vars PROVE FlightOk'
<1>1. ShapeOk /\ ItemsOk /\ FlightOk /\ Asked(at) BY DEF IInv, ShapeOk
<1>2. uses' = uses /\ overtaken' \subseteq Items
  <2>1. CASE Quiet BY <2>1, <1>1, QuietStep DEF FlightOk
  <2>2. CASE Talked
    BY <2>2, <1>1 DEF Talked, Converse, TakeDecision, NextRound, others, FlightOk
  <2>3. CASE Rewriting BY <2>3, <1>1, RewritingMoves DEF FlightOk
  <2>4. CASE CreateFromRequest
    BY <2>4, <1>1 DEF CreateFromRequest, FlightOk
  <2>5. CASE \/ CreateFromIdea \/ ConfirmValidation \/ openFixFromConversation
             \/ correctSpecification
    BY <2>5, <1>1 DEF CreateFromIdea, ConfirmValidation, openFixFromConversation,
      correctSpecification, others, FlightOk
  <2>6. CASE StepReturns BY <2>6, <1>1, Returning
  <2> QED BY <2>1, <2>2, <2>3, <2>4, <2>5, <2>6, Kinds DEF Defining
<1>3. flight' = flight \/ StepBegins \/ StepReturns
  <2>1. CASE Quiet BY <2>1, QuietStep
  <2>2. CASE Talked BY <2>2 DEF Talked, Converse, TakeDecision, NextRound, others
  <2>3. CASE Rewriting
    BY <2>3 DEF Rewriting, StartSession, StartOtherFront, Listo, Desbloquear, retryWithContext,
      acknowledgeBlocker, AcknowledgedElsewhere, others
  <2>4. CASE Defining
    BY <2>4 DEF Defining, CreateFromRequest, CreateFromIdea, ConfirmValidation,
      openFixFromConversation, correctSpecification, others
  <2> QED BY <2>1, <2>2, <2>3, <2>4, Kinds
<1>4. at'.p = "running" => front' = "session"
  <2>1. CASE Quiet
    <3>1. front' = front BY <2>1, QuietStep
    <3>2. at'.p = "running" => at' = at BY <1>1, <2>1, QuietAsks DEF Other
    <3> QED BY <1>1, <3>1, <3>2 DEF FlightOk
  <2>2. CASE Talked
    <3>1. Other(at') BY <2>2, TalkedStep DEF IInv
    <3> QED BY <3>1 DEF Other
  <2>3. CASE Rewriting
    <3>1. CASE StartSession BY <3>1 DEF StartSession
    <3>2. CASE StartOtherFront BY <3>2 DEF StartOtherFront, Prompt, Main, Nobody
    <3>3. CASE Listo BY <3>3 DEF Listo, Prompt, Main
    <3>4. CASE Desbloquear
      <4>1. ASSUME NEW i, NEW retry, at' = [Prompt("exits", i) EXCEPT !.retry = retry]
            PROVE  at'.p # "running"
        BY <4>1 DEF Prompt
      <4>2. Main.p # "running" BY DEF Main, Prompt
      <4>3. \/ at' = Main
            \/ \E i, retry : at' = [Prompt("exits", i) EXCEPT !.retry = retry]
        BY <3>4 DEF Desbloquear, listBlockedWorkItems
      <4> QED BY <4>1, <4>2, <4>3
    <3>5. CASE retryWithContext \/ acknowledgeBlocker
      BY <3>5 DEF retryWithContext, acknowledgeBlocker, Prompt, Main
    <3>6. CASE StepBegins
      BY <3>6, <1>1 DEF StepBegins, Command, FlightOk
    <3>7. CASE AcknowledgedElsewhere BY <3>7, <1>1 DEF AcknowledgedElsewhere, FlightOk, others
    <3> QED BY <2>3, <3>1, <3>2, <3>3, <3>4, <3>5, <3>6, <3>7 DEF Rewriting
  <2>4. CASE Defining
    <3>1. Other(at')
      BY <2>4, <1>1, FromRequest, FromIdea, Confirming, OpeningFix, Correcting, Asking DEF Defining
    <3> QED BY <3>1 DEF Other
  <2>5. CASE StepReturns
    <3>1. at'.p = "running" => at' = Main BY <2>5, <1>1, Returning
    <3> QED BY <3>1 DEF Main, Prompt
  <2> QED BY <2>1, <2>2, <2>3, <2>4, <2>5, Kinds
<1>5. CASE StepReturns
  <2>1. flight' = NoFlight BY <1>1, <1>5, Returning
  <2> QED BY <1>2, <1>4, <2>1 DEF FlightOk, NoFlight
<1>6. CASE StepBegins
  <2>1. PICK i \in Items : /\ isStartable(Inspected[i]) \/ isContinuing(Inspected[i])
                           /\ flight' \in Due(Inspected[i], i)
    BY <1>6 DEF StepBegins
  <2>2. Sound(Inspected[i]) BY <1>1, InspectedMoved
  <2>3. /\ flight' \in [i : Items, step : Steps, task : Nat]
        /\ flight'.step \in {"plan", "implement", "review"} => flight'.task # NoTask
    BY <2>1, <2>2, BegunMoved
  <2>4. at'.p = "running" \/ Can("elsewhere")' BY <1>2, <1>6 DEF StepBegins, Prompt, Can
  <2> QED BY <1>2, <1>4, <2>3, <2>4 DEF FlightOk
<1>7. CASE flight' = flight /\ ~StepReturns
  <2>1. at.p = "running" => at' = at BY <1>1, <1>7, Waiting DEF FlightOk
  <2> QED BY <1>1, <1>2, <1>4, <1>7, <2>1 DEF FlightOk, Can
<1> QED BY <1>3, <1>5, <1>6, <1>7

LEMMA NextInv == ASSUME IInv, [Next]_vars PROVE IInv'
<1>1. ShapeOk /\ ItemsOk /\ TalkOk /\ RetryOk /\ FlightOk BY DEF IInv
<1> USE FlightStep
<1>2. Other(at') => Asked(at') /\ RetryOk' BY DEF Other, RetryOk
<1>3. CASE Quiet
  <2>1. UNCHANGED <<doc, spec, diag, filed, talk, said, uses, overtaken>> BY <1>3, QuietStep
  <2>2. ItemsOk' /\ TalkOk' BY <1>1, <2>1 DEF ItemsOk, ItemOk, Reported, TalkOk
  <2>3. Asked(at') /\ RetryOk'
    <3>1. Asked(at) BY <1>1 DEF ShapeOk
    <3>2. CASE at' = at BY <3>1, <3>2, <1>1, <2>1 DEF RetryOk, Can, SameProblem
    <3>3. CASE /\ Asked(at') /\ at.p = "exits" /\ at'.i = at.i /\ at'.p # "exits"
               /\ at'.p = "retry" => at.retry
      BY <3>3, <1>1, <2>1 DEF RetryOk, Can, SameProblem
    <3> QED BY <3>1, <3>2, <3>3, <1>2, <1>3, QuietAsks
  <2> QED BY <1>1, <2>1, <2>2, <2>3 DEF IInv, ShapeOk
<1>4. CASE Talked
  <2>1. /\ talk' \in Talks /\ said' \in Nat /\ Other(at') /\ TalkOk'
        /\ UNCHANGED <<doc, spec, diag, filed, uses>>
    BY <1>1, <1>4, TalkedStep
  <2>2. overtaken' = overtaken
    BY <1>4 DEF Talked, Converse, TakeDecision, NextRound, others
  <2>3. ItemsOk' BY <1>1, <2>1, <2>2 DEF ItemsOk, ItemOk, Reported
  <2> QED BY <1>1, <1>2, <2>1, <2>3 DEF IInv, ShapeOk
<1>5. CASE Rewriting
  <2>1. /\ DOMAIN doc' = Items /\ \A i \in Items : Moved(doc[i], doc'[i])
        /\ doc' = [i \in Items |-> doc'[i]]
        /\ UNCHANGED <<spec, filed, said, uses, overtaken>>
    BY <1>1, <1>5, RewritingMoves
  <2>2. /\ diag' \in [Items -> Diagnoses] /\ talk' \in Talks /\ Asked(at') /\ RetryOk'
        /\ talk' = talk \/ (talk'.turns = {} /\ talk'.decisions = {})
    BY <1>5, RewritingAsks
  <2>3. ItemsOk' BY <1>1, <2>1, ItemsMove
  <2>4. TalkOk' BY <1>1, <2>1, <2>2 DEF TalkOk
  <2>5. doc' \in [Items -> StateDocuments] BY <2>1 DEF Moved, Sound
  <2> QED BY <1>1, <2>1, <2>2, <2>3, <2>4, <2>5 DEF IInv, ShapeOk
<1>6. CASE CreateFromRequest
  <2>1. /\ ItemsOk' /\ doc' \in [Items -> StateDocuments]
        /\ spec' \in [Items -> Specifications] /\ talk' \in Talks /\ Other(at')
        /\ talk'.turns = talk.turns /\ talk'.segment = talk.segment
        /\ \A j \in Items : spec'[j].turns = spec[j].turns
        /\ UNCHANGED <<diag, filed, said, uses>>
    BY <1>1, <1>6, FromRequest
  <2>2. CASE UNCHANGED <<spec, talk>> BY <1>1, <1>2, <2>1, <2>2 DEF IInv, ShapeOk, TalkOk
  <2>3. ASSUME NEW i \in Items, \A j \in Items \ {i} : spec'[j].decisions = spec[j].decisions,
               \/ spec'[i].decisions = {} /\ talk'.decisions = talk.decisions
               \/ spec'[i].decisions = talk.decisions /\ talk'.decisions = {}
        PROVE  TalkOk'
    BY <1>1, <2>1, <2>3 DEF TalkOk
  <2>4. TalkOk'
    <3>1. \/ UNCHANGED <<spec, talk>>
          \/ \E i \in Items :
               /\ \A j \in Items \ {i} : spec'[j].decisions = spec[j].decisions
               /\ \/ spec'[i].decisions = {} /\ talk'.decisions = talk.decisions
                  \/ spec'[i].decisions = talk.decisions /\ talk'.decisions = {}
      BY <1>1, <1>6, FromRequest
    <3>2. CASE UNCHANGED <<spec, talk>> BY <3>2, <1>1, <2>1 DEF TalkOk
    <3> QED BY <3>1, <3>2, <2>3
  <2> QED BY <1>1, <1>2, <2>1, <2>4 DEF IInv, ShapeOk
<1>7. CASE CreateFromIdea
  <2>1. /\ ItemsOk' /\ doc' \in [Items -> StateDocuments]
        /\ spec' \in [Items -> Specifications] /\ talk' \in Talks /\ Other(at')
        /\ talk'.turns = talk.turns /\ UNCHANGED <<diag, filed, said, uses>>
    BY <1>1, <1>7, FromIdea
  <2>2. PICK f \in Items :
          /\ \A j \in Items \ {f} : spec'[j] = spec[j]
          /\ spec[f].turns = {}
          /\ \/ talk'.segment = talk.segment
             \/ spec'[f].turns = talk.turns \/ spec'[f].turns = talk.segment
          /\ \/ spec'[f].decisions = {} /\ talk'.decisions = talk.decisions
             \/ spec'[f].decisions = talk.decisions /\ talk'.decisions = {}
    BY <1>1, <1>7, FromIdea
  <2>3. TalkOk'
    <3>1. /\ talk'.decisions \subseteq 1..said'
          /\ \A i \in Items : spec'[i].decisions \subseteq 1..said'
          /\ \A i \in Items : spec'[i].decisions \cap talk'.decisions = {}
          /\ \A i, j \in Items : i # j => spec'[i].decisions \cap spec'[j].decisions = {}
      BY <1>1, <2>1, <2>2 DEF TalkOk
    <3>2. ASSUME NEW t \in talk'.turns
          PROVE  t \in talk'.segment \/ \E i \in Items : t \in spec'[i].turns
      <4>1. t \in talk.turns BY <2>1
      <4>2. t \in talk.segment \/ \E i \in Items : t \in spec[i].turns BY <1>1, <4>1 DEF TalkOk
      <4>3. CASE t \in talk.segment BY <4>1, <4>3, <2>2
      <4>4. CASE \E i \in Items : t \in spec[i].turns
        <5>1. PICK i \in Items : t \in spec[i].turns BY <4>4
        <5>2. i # f BY <5>1, <2>2
        <5> QED BY <5>1, <5>2, <2>2
      <4> QED BY <4>2, <4>3, <4>4
    <3> QED BY <3>1, <3>2 DEF TalkOk
  <2> QED BY <1>1, <1>2, <2>1, <2>3 DEF IInv, ShapeOk
<1>8. CASE ConfirmValidation
  <2>1. /\ ItemsOk' /\ doc' \in [Items -> StateDocuments]
        /\ spec' \in [Items -> Specifications] /\ talk' \in Talks /\ Other(at')
        /\ talk'.turns = talk.turns /\ talk'.segment = talk.segment
        /\ talk'.decisions = talk.decisions
        /\ \A j \in Items :
             spec'[j].turns = spec[j].turns /\ spec'[j].decisions = spec[j].decisions
        /\ UNCHANGED <<diag, filed, said, uses>>
    BY <1>1, <1>8, Confirming
  <2>2. TalkOk' BY <1>1, <2>1 DEF TalkOk
  <2> QED BY <1>1, <1>2, <2>1, <2>2 DEF IInv, ShapeOk
<1>9. CASE openFixFromConversation
  <2>1. /\ ItemsOk' /\ doc' \in [Items -> StateDocuments]
        /\ spec' \in [Items -> Specifications] /\ filed' \in [Fixes -> Items \cup {0}]
        /\ at' = Main
        /\ \A j \in Items :
             spec'[j].turns = spec[j].turns /\ spec'[j].decisions = spec[j].decisions
        /\ UNCHANGED <<diag, talk, said, uses>>
    BY <1>1, <1>9, OpeningFix
  <2>2. Other(at') BY <2>1, Asking
  <2>3. TalkOk' BY <1>1, <2>1 DEF TalkOk
  <2> QED BY <1>1, <1>2, <2>1, <2>2, <2>3 DEF IInv, ShapeOk
<1>10. CASE correctSpecification
  <2>1. /\ ItemsOk' /\ doc' \in [Items -> StateDocuments]
        /\ spec' \in [Items -> Specifications] /\ diag' \in [Items -> Diagnoses]
        /\ at' = Main
        /\ \A j \in Items :
             spec'[j].turns = spec[j].turns /\ spec'[j].decisions = spec[j].decisions
        /\ UNCHANGED <<filed, talk, said, uses>>
    BY <1>1, <1>10, Correcting
  <2>2. Other(at') BY <2>1, Asking
  <2>3. TalkOk' BY <1>1, <2>1 DEF TalkOk
  <2> QED BY <1>1, <1>2, <2>1, <2>2, <2>3 DEF IInv, ShapeOk
<1>11. CASE StepReturns
  <2>1. /\ ItemsOk' /\ doc' \in [Items -> StateDocuments]
        /\ at' = IF at.p = "running" THEN Main ELSE at
        /\ UNCHANGED <<spec, diag, filed, talk, said, uses>>
    BY <1>1, <1>11, Returning
  <2>2. TalkOk' BY <1>1, <2>1 DEF TalkOk
  <2>3. Asked(at') /\ RetryOk'
    <3>1. CASE at.p = "running" BY <1>2, <2>1, <3>1, Asking
    <3>2. CASE at.p # "running"
      <4>1. Can("elsewhere") BY <1>1, <1>11, <3>2 DEF FlightOk, StepReturns
      <4> QED BY <1>1, <2>1, <3>2, <4>1 DEF RetryOk, Can, ShapeOk
    <3> QED BY <3>1, <3>2
  <2> QED BY <1>1, <2>1, <2>2, <2>3 DEF IInv, ShapeOk
<1> QED BY <1>3, <1>4, <1>5, <1>6, <1>7, <1>8, <1>9, <1>10, <1>11, Kinds DEF Defining

\* What the prompts keep to, in every behaviour.
THEOREM SessionInvariant == Spec => []IInv
BY InitInv, NextInv, PTL DEF Spec

(***************************************************************************)
(* What follows from it.                                                   *)
(***************************************************************************)

\* No requested item is worked on under a definition nobody confirmed as it stands, whoever
\* specified, invalidated, specified again, blocked and resumed it meanwhile, in whatever
\* terminals -- but for a step that was in flight when the confirmation was taken back.
THEOREM OnlyConfirmedWork == Spec => []WorkedOnWasConfirmed
<1>1. IInv => WorkedOnWasConfirmed
  <2> SUFFICES ASSUME IInv, NEW i \in Items \ overtaken, i \in Fixes => filed[i] = 0,
                      Underway(doc[i])
               PROVE  spec[i].seen
    BY DEF WorkedOnWasConfirmed
  <2>1. ItemOk(i) BY DEF IInv, ItemsOk
  <2>2. ~Reported(i) BY DEF Reported
  <2>3. doc[i].val = "confirmed"
    BY <2>1 DEF ItemOk, Sound, Idle, Underway, WorkItemInspectionKind, Planning, Executing, Failed,
                PendingSpecification
  <2> QED BY <2>1, <2>2, <2>3 DEF ItemOk
<1> QED BY <1>1, SessionInvariant, PTL

\* Whatever fails between a conversation and its specification, no turn is lost.
THEOREM EveryTurnKept == Spec => []TurnsAreKept
<1>1. IInv => TurnsAreKept BY DEF IInv, TalkOk, TurnsAreKept
<1> QED BY <1>1, SessionInvariant, PTL

\* A decision is recorded in one specification at most.
THEOREM OneHomePerDecision == Spec => []DecisionsHaveOneHome
<1>1. IInv => DecisionsHaveOneHome BY DEF IInv, TalkOk, DecisionsHaveOneHome
<1> QED BY <1>1, SessionInvariant, PTL

\* No exit, and no answer to a question gone stale, leaves a document malformed.
THEOREM NeverMalformed == Spec => []NothingMalformed
<1>1. IInv => NothingMalformed
  <2> SUFFICES ASSUME IInv, NEW i \in Items PROVE WorkItemInspectionKind(doc[i]) # "malformed"
    BY DEF NothingMalformed
  <2>1. Sound(doc[i]) BY DEF IInv, ItemsOk, ItemOk
  <2> QED BY <2>1 DEF Sound, WorkItemInspectionKind, StateDocuments, Lifecycles, Planning,
                Executing, Failed, PendingSpecification
<1> QED BY <1>1, SessionInvariant, PTL

\* No two items wait on one fix opened from a conversation.
THEOREM OwnFixOnly == Spec => []WaitsOnOwnFix
<1>1. IInv => WaitsOnOwnFix BY DEF IInv, ItemsOk, ItemOk, WaitsOnOwnFix
<1> QED BY <1>1, SessionInvariant, PTL

\* In one terminal, the problem a diagnosis is kept for is not retried past the ceiling.
THEOREM RetriesAreBounded == Spec => NoFourthRetry
<1> DEFINE Bounded ==
      \A i \in Items :
        (~Can("elsewhere") /\ SameProblem(i) /\ diag'[i].retries > diag[i].retries)
          => diag[i].retries < MAX_RECOVERY_RETRIES
<1>1. ASSUME IInv, [Next]_vars PROVE [Bounded]_vars
  <2> SUFFICES ASSUME NEW i \in Items, ~Can("elsewhere"), SameProblem(i),
                      diag'[i].retries > diag[i].retries
               PROVE  diag[i].retries < MAX_RECOVERY_RETRIES
    OBVIOUS
  <2>1. diag \in [Items -> Diagnoses] /\ diag[i].retries \in Nat
    BY <1>1 DEF IInv, ShapeOk, Diagnoses
  <2>2. diag' # diag BY <2>1
  <2>3. Rewriting \/ correctSpecification
    <3>1. Quiet => diag' = diag BY QuietStep
    <3>2. Talked => diag' = diag
      BY DEF Talked, Converse, TakeDecision, NextRound, items
    <3>3. Defining => diag' = diag \/ correctSpecification
      BY DEF Defining, CreateFromRequest, CreateFromIdea, ConfirmValidation,
             openFixFromConversation
    <3>4. StepReturns => diag' = diag BY DEF StepReturns
    <3> QED BY <1>1, <2>2, <3>1, <3>2, <3>3, <3>4, Kinds
  <2>4. CASE Desbloquear
    <3>1. PICK j \in Items : \E kept \in Diagnosed(j, doc'[j]) : diag' = [diag EXCEPT ![j] = kept]
      BY <2>2, <2>4 DEF Desbloquear, listBlockedWorkItems
    <3>2. PICK kept \in Diagnosed(j, doc'[j]) : diag' = [diag EXCEPT ![j] = kept] BY <3>1
    <3>3. kept = diag[j] \/ kept.retries = 0 BY DEF Diagnosed
    <3> QED BY <2>1, <3>2, <3>3
  <2>5. CASE correctSpecification
    <3>1. diag' = [diag EXCEPT ![at.i] = NoDiagnosis] BY <2>5 DEF correctSpecification
    <3> QED BY <2>1, <3>1 DEF NoDiagnosis
  <2>6. CASE retryWithContext
    <3>1. diag' = [diag EXCEPT ![at.i].retries = @ + 1] BY <2>2, <2>6 DEF retryWithContext
    <3>2. i = at.i BY <2>1, <3>1
    <3>3. at.p = "retry" BY <2>6 DEF retryWithContext, AtPrompt
    <3> QED BY <1>1, <3>2, <3>3 DEF IInv, RetryOk
  <2> QED BY <2>2, <2>3, <2>4, <2>5, <2>6
       DEF Rewriting, StartSession, StartOtherFront, Listo, acknowledgeBlocker, StepBegins,
           AcknowledgedElsewhere
<1> QED BY <1>1, SessionInvariant, PTL DEF Spec, NoFourthRetry

(***************************************************************************)
(* What is known about the project.                                        *)
(***************************************************************************)
FactKinds == {"none", "inferred", "detected", "confirmed"}
FactOk(fact) ==
  /\ fact.kind \in FactKinds /\ fact.whole \in BOOLEAN
  /\ fact = [kind |-> fact.kind, value |-> fact.value, whole |-> fact.whole]

\* A confirmed fact was read before it was confirmed, so reading it again changes nothing.
Settled(fact) ==
  fact.kind = "confirmed" =>
    fact.value \notin Unreadable /\ (fact.whole = FALSE \/ fact.value \notin Broken)

FactsOk == DOMAIN facts = Fields /\ \A f \in Fields : FactOk(facts[f]) /\ Settled(facts[f])

\* Something of field f is lost in writing and reading.
Loses(f) == {facts[f].value, detectProjectFacts(tree)[f].value} \cap Unreadable # {}

\* What a fact may become.
Gains(f, new) ==
  /\ FactOk(new) /\ Settled(new)
  /\ facts[f].kind = "confirmed" => new = facts[f]
  /\ Rank(new.kind) >= Rank(facts[f].kind) \/ Loses(f)

\* The four standings in their order.
LEMMA Ranks ==
  /\ Rank("none") = 0 /\ Rank("inferred") = 1 /\ Rank("detected") = 2 /\ Rank("confirmed") = 3
  /\ \A kind \in FactKinds : Rank(kind) \in Nat /\ Rank(kind) <= 3
BY DEF Rank, FactKinds

\* What is read back of a fact: nothing, or its kind and value.
LEMMA ReadFact ==
  ASSUME NEW recorded, NEW f \in Fields, FactOk(recorded[f])
  PROVE  LET old == recorded[f]
             new == parseProjectFactsDocument(recorded)[f]
         IN  /\ FactOk(new) /\ new.value \notin Unreadable
             /\ new.whole = FALSE \/ new.value \notin Broken
             /\ old.value \in Unreadable => new = NotEstablished
             /\ old.value \notin Unreadable => new.kind = old.kind /\ new.value = old.value
             /\ Settled(old) /\ old.kind = "confirmed" => new = old
             /\ DOMAIN parseProjectFactsDocument(recorded) = Fields
<1> DEFINE old == recorded[f]
           new == parseProjectFactsDocument(recorded)[f]
<1>1. new = IF old.value \in Unreadable THEN NotEstablished
            ELSE [old EXCEPT !.whole = @ /\ old.value \notin Broken]
  BY DEF parseProjectFactsDocument
<1>2. DOMAIN parseProjectFactsDocument(recorded) = Fields BY DEF parseProjectFactsDocument
<1>3. {} \notin Unreadable /\ {} \notin Broken BY FactsAssumption
<1> HIDE DEF old, new
<1>4. FactOk(old) BY DEF old
<1>5. CASE old.value \in Unreadable
  <2>1. new = [kind |-> "none", value |-> {}, whole |-> TRUE] BY <1>1, <1>5 DEF NotEstablished
  <2> QED BY <1>2, <1>3, <1>5, <2>1 DEF FactOk, FactKinds, Settled, NotEstablished, old, new
<1>6. CASE old.value \notin Unreadable
  <2>1. ASSUME NEW b \in BOOLEAN, new = [kind |-> old.kind, value |-> old.value, whole |-> b],
               b = FALSE \/ old.value \notin Broken,
               Settled(old) /\ old.kind = "confirmed" => b = old.whole
        PROVE  /\ new.whole = FALSE \/ new.value \notin Broken
               /\ new.kind = old.kind /\ new.value = old.value
               /\ FactOk(new)
               /\ Settled(old) /\ old.kind = "confirmed" => new = old
    BY <1>4, <2>1 DEF FactOk
  <2>2. CASE old.whole = FALSE \/ old.value \in Broken
    <3>1. (old.whole /\ old.value \notin Broken) = FALSE BY <2>2
    <3>2. new = [kind |-> old.kind, value |-> old.value, whole |-> FALSE]
      BY <1>1, <1>4, <1>6, <3>1 DEF FactOk
    <3>3. Settled(old) /\ old.kind = "confirmed" => FALSE = old.whole BY <2>2 DEF Settled
    <3> QED BY <1>2, <1>6, <2>1, <3>2, <3>3 DEF old, new
  <2>3. CASE old.whole = TRUE /\ old.value \notin Broken
    <3>1. (old.whole /\ old.value \notin Broken) = TRUE BY <2>3
    <3>2. new = [kind |-> old.kind, value |-> old.value, whole |-> TRUE]
      BY <1>1, <1>4, <1>6, <3>1 DEF FactOk
    <3> QED BY <1>2, <1>6, <2>1, <2>3, <3>2 DEF old, new
  <2> QED BY <1>4, <2>2, <2>3 DEF FactOk
<1> QED BY <1>5, <1>6

\* What detection finds, nobody has confirmed.
LEMMA DetectedFacts ==
  ASSUME NEW t, NEW f \in Fields
  PROVE  FactOk(detectProjectFacts(t)[f]) /\ detectProjectFacts(t)[f].kind # "confirmed"
<1>1. \A v : FactOk(detectedFact(v)) /\ detectedFact(v).kind # "confirmed"
  BY DEF FactOk, detectedFact, FactKinds
<1>2. FactOk(NotEstablished) /\ NotEstablished.kind # "confirmed"
  BY DEF FactOk, NotEstablished, FactKinds
<1> DEFINE ks == Declaring(t, f)
<1>3. detectProjectFacts(t)[f] =
        CASE ks # {} /\ f \in Gathered    -> detectedFact({Reading(t, k) : k \in ks})
          [] ks # {} /\ f \notin Gathered -> detectedFact({Reading(t, First(ks))})
          [] ks = {} /\ (f = "name" \/ (f \in Layout /\ t.layout))
                                          -> detectedFact({<<"directory", 0>>})
          [] OTHER                        -> NotEstablished
  BY DEF detectProjectFacts
<1> HIDE DEF ks
<1>4. CASE ks # {} /\ f \in Gathered BY <1>1, <1>3, <1>4
<1>5. CASE ks # {} /\ f \notin Gathered BY <1>1, <1>3, <1>5
<1>6. CASE ks = {} /\ (f = "name" \/ (f \in Layout /\ t.layout)) BY <1>1, <1>3, <1>6
<1>7. CASE ks = {} /\ ~(f = "name" \/ (f \in Layout /\ t.layout)) BY <1>2, <1>3, <1>7
<1> QED BY <1>4, <1>5, <1>6, <1>7

\* What is read back of the document.
LEMMA RecordedGains ==
  ASSUME FactsOk
  PROVE  /\ DOMAIN RecordedFacts = Fields
         /\ \A f \in Fields : /\ Gains(f, RecordedFacts[f])
                              /\ RecordedFacts[f].value \notin Unreadable
                              /\ \/ RecordedFacts[f].whole = FALSE
                                 \/ RecordedFacts[f].value \notin Broken
<1>1. DOMAIN RecordedFacts = Fields BY DEF RecordedFacts, parseProjectFactsDocument
<1>2. ASSUME NEW f \in Fields
      PROVE  /\ Gains(f, RecordedFacts[f]) /\ RecordedFacts[f].value \notin Unreadable
             /\ RecordedFacts[f].whole = FALSE \/ RecordedFacts[f].value \notin Broken
  <2> DEFINE old == facts[f]
             new == RecordedFacts[f]
  <2>1. FactOk(old) /\ Settled(old) BY DEF FactsOk
  <2>2. /\ FactOk(new) /\ new.value \notin Unreadable
        /\ new.whole = FALSE \/ new.value \notin Broken
        /\ old.value \notin Unreadable => new.kind = old.kind
        /\ old.kind = "confirmed" => new = old
    BY <2>1, ReadFact DEF RecordedFacts
  <2>3. Settled(new) BY <2>2 DEF Settled
  <2>4. Rank(new.kind) >= Rank(old.kind) \/ Loses(f)
    <3>1. CASE old.value \in Unreadable BY <3>1 DEF Loses
    <3>2. CASE old.value \notin Unreadable
      <4>1. new.kind = old.kind /\ new.kind \in FactKinds BY <2>2, <3>2 DEF FactOk
      <4> HIDE DEF new, old
      <4> QED BY <4>1, Ranks
    <3> QED BY <3>1, <3>2
  <2> QED BY <2>2, <2>3, <2>4 DEF Gains
<1> QED BY <1>1, <1>2

\* Reading the repository again loses nothing anyone vouched for.
LEMMA RefreshGains ==
  ASSUME FactsOk
  PROVE  /\ DOMAIN refreshProjectFacts = Fields
         /\ \A f \in Fields : /\ Gains(f, refreshProjectFacts[f])
                              /\ refreshProjectFacts[f].value \in Unreadable => Loses(f)
<1>1. DOMAIN refreshProjectFacts = Fields BY DEF refreshProjectFacts, mergeDetectedFacts
<1>2. ASSUME NEW f \in Fields
      PROVE  /\ Gains(f, refreshProjectFacts[f])
             /\ refreshProjectFacts[f].value \in Unreadable => Loses(f)
  <2> DEFINE old == RecordedFacts[f]
             new == detectProjectFacts(tree)[f]
  <2>1. Gains(f, old) /\ old.value \notin Unreadable BY RecordedGains
  <2>2. FactOk(new) /\ new.kind # "confirmed" BY DetectedFacts
  <2>3. refreshProjectFacts[f] =
          IF \/ new.kind = "none" \/ old.kind = "confirmed"
             \/ ~outranks(new.kind, old.kind) /\ new.kind # old.kind
          THEN old ELSE new
    BY DEF refreshProjectFacts, mergeDetectedFacts
  <2>4. new.value \in Unreadable => Loses(f) BY DEF Loses
  <2>5. facts[f].kind \in FactKinds BY DEF FactsOk, FactOk
  <2> HIDE DEF old, new
  <2>6. Rank(old.kind) \in Nat /\ Rank(new.kind) \in Nat /\ Rank(facts[f].kind) \in Nat
    BY <2>1, <2>2, <2>5, Ranks DEF FactOk, Gains
  <2>7. CASE refreshProjectFacts[f] = old BY <2>1, <2>7
  <2>8. CASE /\ refreshProjectFacts[f] = new /\ old.kind # "confirmed"
             /\ outranks(new.kind, old.kind) \/ new.kind = old.kind
    <3>1. Settled(new) BY <2>2 DEF Settled
    <3>2. facts[f].kind # "confirmed" BY <2>1, <2>8 DEF Gains
    <3>3. Rank(new.kind) >= Rank(old.kind) BY <2>6, <2>8 DEF outranks
    <3>4. Rank(new.kind) >= Rank(facts[f].kind) \/ Loses(f) BY <2>1, <2>6, <3>3 DEF Gains
    <3> QED BY <2>2, <2>4, <2>8, <3>1, <3>2, <3>4 DEF Gains
  <2> QED BY <2>3, <2>7, <2>8
<1> QED BY <1>1, <1>2

\* A guess is written over what a refresh left, where nothing better is read back of it.
LEMMA InferenceGains ==
  ASSUME FactsOk, NEW guess, TakesInference(parseProjectFactsDocument(refreshProjectFacts)),
         facts' = WithInferredPurpose(parseProjectFactsDocument(refreshProjectFacts), guess)
  PROVE  DOMAIN facts' = Fields /\ \A f \in Fields : Gains(f, facts'[f])
<1> DEFINE base == refreshProjectFacts
           read == parseProjectFactsDocument(base)
           inferred == [kind |-> "inferred", value |-> {guess}, whole |-> TRUE]
<1>1. ASSUME NEW f \in Fields PROVE Gains(f, read[f])
  <2> DEFINE old == base[f]
             new == read[f]
  <2>1. Gains(f, old) /\ (old.value \in Unreadable => Loses(f)) BY RefreshGains
  <2>2. FactOk(old) /\ Settled(old) BY <2>1 DEF Gains
  <2>3. /\ FactOk(new) /\ new.value \notin Unreadable
        /\ new.whole = FALSE \/ new.value \notin Broken
        /\ old.value \notin Unreadable => new.kind = old.kind
        /\ old.kind = "confirmed" => new = old
    <3> HIDE DEF base
    <3> QED BY <2>2, ReadFact
  <2>4. Settled(new) BY <2>3 DEF Settled
  <2> HIDE DEF old, new
  <2>5. facts[f].kind = "confirmed" => new = facts[f] BY <2>1, <2>3 DEF Gains
  <2>6. Rank(new.kind) >= Rank(facts[f].kind) \/ Loses(f) BY <2>1, <2>3 DEF Gains
  <2> QED BY <2>3, <2>4, <2>5, <2>6 DEF Gains, new
<1>2. DOMAIN read = Fields BY DEF parseProjectFactsDocument
<1>3. FactOk(inferred) /\ Settled(inferred) /\ inferred.kind = "inferred" /\ "purpose" \in Fields
  BY FactsAssumption DEF FactOk, FactKinds, Settled
<1>4. facts' = [read EXCEPT !["purpose"] = inferred] BY DEF WithInferredPurpose
<1>5. read["purpose"].kind \in {"none", "inferred"} BY DEF TakesInference
<1> HIDE DEF read, inferred
<1>6. /\ DOMAIN facts' = Fields /\ facts'["purpose"] = inferred
      /\ \A f \in Fields \ {"purpose"} : facts'[f] = read[f]
  BY <1>2, <1>3, <1>4
<1>7. Gains("purpose", inferred)
  <2>1. Gains("purpose", read["purpose"]) BY <1>1, <1>3
  <2>2. facts["purpose"].kind \in FactKinds BY <1>3 DEF FactsOk, FactOk
  <2>3. facts["purpose"].kind # "confirmed" BY <1>5, <2>1 DEF Gains
  <2>4. Rank(inferred.kind) >= Rank(read["purpose"].kind) BY <1>3, <1>5, Ranks
  <2>5. Rank(inferred.kind) >= Rank(facts["purpose"].kind) \/ Loses("purpose")
    <3>1. /\ Rank(inferred.kind) \in Nat /\ Rank(read["purpose"].kind) \in Nat
          /\ Rank(facts["purpose"].kind) \in Nat
      BY <1>3, <1>5, <2>2, Ranks
    <3> QED BY <2>1, <2>4, <3>1 DEF Gains
  <2> QED BY <1>3, <2>3, <2>5 DEF Gains
<1> QED BY <1>1, <1>6, <1>7

\* Confirming writes what was read, some of it as a person's word.
LEMMA ConfirmGains ==
  ASSUME FactsOk, NEW f \in Fields
  PROVE  Gains(f, confirmFact(RecordedFacts, f)[f])
<1> DEFINE old == RecordedFacts[f]
           new == confirmFact(RecordedFacts, f)[f]
<1>1. /\ Gains(f, old) /\ old.value \notin Unreadable
      /\ old.whole = FALSE \/ old.value \notin Broken
      /\ DOMAIN RecordedFacts = Fields
  BY RecordedGains
<1>2. FactOk(old) BY <1>1 DEF Gains
<1>3. CASE old.kind = "none" BY <1>1, <1>3 DEF confirmFact
<1>4. CASE old.kind # "none"
  <2>1. new = [old EXCEPT !.kind = "confirmed"] BY <1>1, <1>4 DEF confirmFact
  <2> HIDE DEF old, new
  <2>2. new = [kind |-> "confirmed", value |-> old.value, whole |-> old.whole]
    BY <1>2, <2>1 DEF FactOk
  <2>3. FactOk(new) /\ Settled(new) BY <1>1, <1>2, <2>2 DEF FactOk, FactKinds, Settled
  <2>4. facts[f].kind = "confirmed" => new = facts[f]
    <3>1. SUFFICES ASSUME facts[f].kind = "confirmed" PROVE new = facts[f] OBVIOUS
    <3>2. old = facts[f] /\ old.kind = "confirmed" BY <1>1, <3>1 DEF Gains
    <3> QED BY <1>2, <2>2, <3>2 DEF FactOk
  <2>5. facts[f].kind \in FactKinds BY DEF FactsOk, FactOk
  <2>6. new.kind = "confirmed" BY <2>2
  <2>7. Rank(new.kind) >= Rank(facts[f].kind) BY <2>5, <2>6, Ranks
  <2> QED BY <2>3, <2>4, <2>7 DEF Gains, new
<1> QED BY <1>3, <1>4

LEMMA FactsGain ==
  ASSUME FactsOk, [Next]_vars
  PROVE  DOMAIN facts' = Fields /\ \A f \in Fields : Gains(f, facts'[f])
<1>1. ASSUME NEW f \in Fields PROVE Gains(f, facts[f])
  <2>1. FactOk(facts[f]) /\ Settled(facts[f]) BY DEF FactsOk
  <2>2. Rank(facts[f].kind) \in Nat BY <2>1, Ranks DEF FactOk
  <2> QED BY <2>1, <2>2 DEF Gains
<1>2. CASE facts' = facts BY <1>1, <1>2 DEF FactsOk
<1>3. CASE facts' = refreshProjectFacts BY <1>3, RefreshGains
<1>4. CASE inferProjectGaps BY <1>3, <1>4, InferenceGains DEF inferProjectGaps
<1>5. CASE ConfirmFacts
  <2>1. CASE facts' = facts BY <1>2, <2>1
  <2>2. ASSUME NEW chosen,
               facts' = [f \in Fields |-> IF f \in chosen THEN confirmFact(RecordedFacts, f)[f]
                                          ELSE RecordedFacts[f]]
        PROVE  DOMAIN facts' = Fields /\ \A f \in Fields : Gains(f, facts'[f])
    BY <2>2, RecordedGains, ConfirmGains
  <2> QED BY <1>5, <2>1, <2>2 DEF ConfirmFacts
<1>6. facts' = facts \/ facts' = refreshProjectFacts \/ inferProjectGaps \/ ConfirmFacts
  BY DEF Next, Answered, vars, lists, items, others, Ask, RecordProvenance, StartSession,
    StartOtherFront, Leave, CloseInput, LeaveAtEof, Converse, TakeDecision, ConsiderDimension,
    CreateFromRequest, CreateFromIdea, Cover, Listo, ConfirmValidation, NextRound, RoundFails,
    Desbloquear, OfferExits, Cancel, Proceed, retryWithContext, correctSpecification,
    openFixFromConversation, acknowledgeBlocker, Descartar, KeepInScope, Discard, Reabrir,
    DecideOn, Proyecto, Confirmar, StepBegins, StepReturns, AcknowledgedElsewhere,
    DecidedElsewhere, RefreshedElsewhere, ManifestsChange
<1> QED BY <1>2, <1>3, <1>4, <1>5, <1>6

\* Nothing is established at first.
LEMMA InitFacts == ASSUME Init PROVE FactsOk
<1>1. FactOk(NotEstablished) /\ Settled(NotEstablished)
  BY DEF FactOk, FactKinds, NotEstablished, Settled
<1>2. facts = [f \in Fields |-> NotEstablished] BY DEF Init, EMPTY_PROJECT_FACTS
<1> QED BY <1>1, <1>2 DEF FactsOk

\* No fact a person confirmed changes, and no other loses standing unless it cannot be read
\* back, whatever is read, guessed or confirmed, in whichever terminal, and whenever the
\* repository changes.
THEOREM StandingIsKept == Spec => FactsOnlyGainStanding
<1> DEFINE Gained ==
      \A f \in Fields :
        /\ facts[f].kind = "confirmed" => facts'[f] = facts[f]
        /\ \/ Rank(facts'[f].kind) >= Rank(facts[f].kind)
           \/ {facts[f].value, detectProjectFacts(tree)[f].value} \cap Unreadable # {}
<1>1. Init => FactsOk BY InitFacts
<1>2. ASSUME FactsOk, [Next]_vars PROVE FactsOk' /\ [Gained]_vars
  BY <1>2, FactsGain DEF Gains, FactsOk, Loses
<1> QED BY <1>1, <1>2, PTL DEF Spec, FactsOnlyGainStanding

(***************************************************************************)
(* What the checklist remembers.                                           *)
(***************************************************************************)
Entries == [state : DimensionStates, item : Items \cup {0}, by : Authors, oneLine : BOOLEAN]
DimensionRecords == [state : DimensionStates, coveredBy : SUBSET Items, decisions : Seq(Entries)]

\* The function Legible computes line by line.
Recalls(log, n, f) ==
  f = [k \in 0..n |-> IF k = 0 THEN <<>>
                      ELSE IF ReadBack(log[k]) THEN Append(f[k - 1], log[k]) ELSE f[k - 1]]

LEMMA LegibleUnfolds ==
  ASSUME NEW log, Len(log) \in Nat
  PROVE  \E f : Recalls(log, Len(log), f) /\ Legible(log) = f[Len(log)]
<1> DEFINE n == Len(log)
           keep == [k \in 0..n |-> ReadBack(log[k])]
           val  == [k \in 0..n |-> log[k]]
           f == CHOOSE g : g = [k \in 0..Len(log) |-> IF k = 0 THEN <<>>
                                 ELSE IF ReadBack(log[k]) THEN Append(g[k - 1], log[k])
                                 ELSE g[k - 1]]
<1>1. \E g : Recalls(log, n, g)
  <2>1. \A k \in 0..n : keep[k] = ReadBack(log[k]) /\ val[k] = log[k] OBVIOUS
  <2> HIDE DEF keep, val
  <2>2. PICK g : Filters(keep, val, n, g) BY FilterExists
  <2>3. Recalls(log, n, g) BY <2>1, <2>2 DEF Filters, Recalls
  <2> QED BY <2>3
<1>2. Recalls(log, Len(log), f) BY <1>1, Zenon DEF Recalls
<1>3. Legible(log) = f[Len(log)] BY Zenon DEF Legible
<1> QED BY <1>2, <1>3

\* The lines read back are lines of the log, and no more of them.
LEMMA LegibleType ==
  ASSUME NEW E, NEW log \in Seq(E)
  PROVE  Legible(log) \in Seq(E) /\ Len(Legible(log)) <= Len(log)
<1>1. Len(log) \in Nat BY LenProperties
<1>2. PICK f : Recalls(log, Len(log), f) /\ Legible(log) = f[Len(log)] BY <1>1, LegibleUnfolds
<1> DEFINE T == {n \in Nat : n <= Len(log) => f[n] \in Seq(E) /\ Len(f[n]) <= n}
<1>3. 0 \in T BY <1>1, <1>2 DEF Recalls
<1>4. ASSUME NEW n \in T PROVE n + 1 \in T
  <2>1. SUFFICES ASSUME n + 1 <= Len(log) PROVE f[n + 1] \in Seq(E) /\ Len(f[n + 1]) <= n + 1
    OBVIOUS
  <2>2. /\ f[n] \in Seq(E) /\ Len(f[n]) <= n /\ Len(f[n]) \in Nat
        /\ n + 1 \in 0..Len(log) /\ n + 1 # 0 /\ (n + 1) - 1 = n
    BY <1>1, <2>1, LenProperties
  <2>3. f[n + 1] = IF ReadBack(log[n + 1]) THEN Append(f[n], log[n + 1]) ELSE f[n]
    BY <1>2, <2>2 DEF Recalls
  <2>4. log[n + 1] \in E BY <1>1, <2>1, ElementOfSeq
  <2> QED BY <2>2, <2>3, <2>4, AppendProperties
<1>5. T = Nat
  <2> HIDE DEF T
  <2>1. T \in SUBSET Nat BY DEF T
  <2> QED BY <1>3, <1>4, <2>1, NatSetInduction
<1> QED BY <1>1, <1>2, <1>5

LEMMA LegibleEmpty == Legible(<<>>) = <<>>
<1>1. Len(<<>>) = 0 OBVIOUS
<1>2. PICK f : Recalls(<<>>, 0, f) /\ Legible(<<>>) = f[0] BY <1>1, LegibleUnfolds
<1>3. f[0] = <<>> BY <1>2 DEF Recalls
<1> QED BY <1>2, <1>3

\* A line more is read back if it can be, and the others as before.
LEMMA LegibleAppend ==
  ASSUME NEW E, NEW log \in Seq(E), NEW e \in E
  PROVE  Legible(Append(log, e)) =
           IF ReadBack(e) THEN Append(Legible(log), e) ELSE Legible(log)
<1> DEFINE more == Append(log, e)
<1>1. /\ Len(log) \in Nat /\ Len(more) = Len(log) + 1 /\ Len(more) \in Nat
      /\ more[Len(log) + 1] = e /\ \A k \in 1..Len(log) : more[k] = log[k]
  BY AppendProperties, LenProperties
<1> HIDE DEF more
<1>2. PICK f : Recalls(log, Len(log), f) /\ Legible(log) = f[Len(log)] BY <1>1, LegibleUnfolds
<1>3. PICK g : Recalls(more, Len(more), g) /\ Legible(more) = g[Len(more)]
  BY <1>1, LegibleUnfolds
<1> DEFINE T == {n \in Nat : n <= Len(log) => f[n] = g[n]}
<1>4. 0 \in T BY <1>1, <1>2, <1>3 DEF Recalls
<1>5. ASSUME NEW n \in T PROVE n + 1 \in T
  <2>1. SUFFICES ASSUME n + 1 <= Len(log) PROVE f[n + 1] = g[n + 1] OBVIOUS
  <2>2. /\ f[n] = g[n] /\ n + 1 \in 0..Len(log) /\ n + 1 \in 0..Len(more) /\ n + 1 # 0
        /\ (n + 1) - 1 = n
    BY <1>1, <2>1
  <2>3. f[n + 1] = IF ReadBack(log[n + 1]) THEN Append(f[n], log[n + 1]) ELSE f[n]
    BY <1>2, <2>2 DEF Recalls
  <2>4. g[n + 1] = IF ReadBack(more[n + 1]) THEN Append(g[n], more[n + 1]) ELSE g[n]
    BY <1>3, <2>2 DEF Recalls
  <2>5. more[n + 1] = log[n + 1] BY <1>1, <2>2
  <2> QED BY <2>2, <2>3, <2>4, <2>5
<1>6. T = Nat
  <2> HIDE DEF T
  <2>1. T \in SUBSET Nat BY DEF T
  <2> QED BY <1>4, <1>5, <2>1, NatSetInduction
<1>7. f[Len(log)] = g[Len(log)] BY <1>1, <1>6
<1>8. g[Len(more)] = IF ReadBack(e) THEN Append(g[Len(log)], e) ELSE g[Len(log)]
  <2>1. Len(more) \in 0..Len(more) /\ Len(more) # 0 /\ Len(more) - 1 = Len(log) BY <1>1
  <2>2. g[Len(more)] = IF ReadBack(more[Len(more)])
                       THEN Append(g[Len(more) - 1], more[Len(more)]) ELSE g[Len(more) - 1]
    BY <1>3, <2>1 DEF Recalls
  <2> QED BY <1>1, <2>1, <2>2
<1>9. Legible(more) = IF ReadBack(e) THEN Append(Legible(log), e) ELSE Legible(log)
  BY <1>2, <1>3, <1>7, <1>8
<1> QED BY <1>9 DEF more

\* What was read back once is read back again: writing and reading lose nothing more.
LEMMA LegibleTwice ==
  ASSUME NEW E, NEW log \in Seq(E)
  PROVE  Legible(Legible(log)) = Legible(log)
<1>1. Len(log) \in Nat BY LenProperties
<1>2. PICK f : Recalls(log, Len(log), f) /\ Legible(log) = f[Len(log)] BY <1>1, LegibleUnfolds
<1> DEFINE T == {n \in Nat : n <= Len(log) => f[n] \in Seq(E) /\ Legible(f[n]) = f[n]}
<1>3. 0 \in T
  <2>1. f[0] = <<>> BY <1>1, <1>2 DEF Recalls
  <2>2. <<>> \in Seq(E) BY EmptySeq
  <2>3. Legible(f[0]) = f[0] /\ f[0] \in Seq(E) BY <2>1, <2>2, LegibleEmpty
  <2> QED BY <2>3
<1>4. ASSUME NEW n \in T PROVE n + 1 \in T
  <2>1. SUFFICES ASSUME n + 1 <= Len(log)
                 PROVE  f[n + 1] \in Seq(E) /\ Legible(f[n + 1]) = f[n + 1]
    OBVIOUS
  <2>2. /\ f[n] \in Seq(E) /\ Legible(f[n]) = f[n]
        /\ n + 1 \in 0..Len(log) /\ n + 1 # 0 /\ (n + 1) - 1 = n
    BY <1>1, <2>1
  <2>3. f[n + 1] = IF ReadBack(log[n + 1]) THEN Append(f[n], log[n + 1]) ELSE f[n]
    BY <1>2, <2>2 DEF Recalls
  <2>4. log[n + 1] \in E BY <1>1, <2>1, ElementOfSeq
  <2>5. Legible(Append(f[n], log[n + 1])) =
          IF ReadBack(log[n + 1]) THEN Append(f[n], log[n + 1]) ELSE f[n]
    BY <2>2, <2>4, LegibleAppend
  <2>6. Append(f[n], log[n + 1]) \in Seq(E) BY <2>2, <2>4, AppendProperties
  <2> QED BY <2>2, <2>3, <2>5, <2>6
<1>5. T = Nat
  <2> HIDE DEF T
  <2>1. T \in SUBSET Nat BY DEF T
  <2> QED BY <1>3, <1>4, <2>1, NatSetInduction
<1> QED BY <1>1, <1>2, <1>5

\* A log is a prefix of itself, with an entry more or without.
LEMMA PrefixOfMore ==
  ASSUME NEW E, NEW log \in Seq(E), NEW e \in E
  PROVE  IsPrefix(log, log) /\ IsPrefix(log, Append(log, e))
<1> DEFINE more == Append(log, e)
<1>1. /\ Len(log) \in Nat /\ Len(more) = Len(log) + 1
      /\ \A k \in 1..Len(log) : more[k] = log[k] /\ more[k] \in E /\ log[k] \in E
  BY AppendProperties, LenProperties, ElementOfSeq
<1> HIDE DEF more
<1>2. ASSUME NEW s \in {log, more}
      PROVE  /\ SubSeq(s, 1, Len(log)) \in Seq(E) /\ Len(SubSeq(s, 1, Len(log))) = Len(log)
             /\ \A k \in 1..Len(log) : SubSeq(s, 1, Len(log))[k] = log[k]
  <2>1. \A k \in 1..Len(log) : s[k] = log[k] /\ s[k] \in E BY <1>1
  <2>2. /\ SubSeq(s, 1, Len(log)) \in Seq(E)
        /\ Len(SubSeq(s, 1, Len(log))) = IF 1 <= Len(log) THEN Len(log) - 1 + 1 ELSE 0
        /\ \A k \in 1 .. Len(log) - 1 + 1 : SubSeq(s, 1, Len(log))[k] = s[1 + k - 1]
    BY <1>1, <2>1, SubSeqProperties
  <2> QED BY <1>1, <2>1, <2>2
<1>3. SubSeq(log, 1, Len(log)) = SubSeq(more, 1, Len(log))
  BY <1>2, SeqEqual
<1> QED BY <1>1, <1>3 DEF IsPrefix, more

\* What a dimension of the checklist may become: a log read back and perhaps longer.
Continues(old, new) ==
  /\ new.state = "unlisted" => old.state = "unlisted" /\ new.decisions = <<>>
  /\ \/ new = old
     \/ new.decisions = Legible(old.decisions)
     \/ \E e \in Entries : new.decisions = Append(Legible(old.decisions), e)

\* The checklist: a name nobody listed has no decisions, and a log stays within its bound.
DimsOk ==
  /\ dims \in [Names -> DimensionRecords]
  /\ \A n \in Names : /\ dims[n].state = "unlisted" => dims[n].decisions = <<>>
                      /\ Len(dims[n].decisions) <= MaxLog

\* How a command leaves a dimension it read.
LEMMA ReadableContinues ==
  ASSUME DimsOk, NEW n \in Names
  PROVE  LET old == dims[n]
             new == Readable[n]
         IN  /\ new = [old EXCEPT !.decisions = Legible(old.decisions)]
             /\ new \in DimensionRecords /\ Continues(old, new)
             /\ Len(new.decisions) <= Len(old.decisions)
             /\ Readable \in [Names -> DimensionRecords]
<1> DEFINE read(m) == [dims[m] EXCEPT !.decisions = Legible(dims[m].decisions)]
<1>1. ASSUME NEW m \in Names
      PROVE  /\ Readable[m] = read(m) /\ read(m) \in DimensionRecords
             /\ Len(read(m).decisions) <= Len(dims[m].decisions)
             /\ read(m).decisions = Legible(dims[m].decisions) /\ read(m).state = dims[m].state
  <2>1. Readable[m] = read(m) BY DEF Readable, parseDimensionsDocument
  <2>2. dims[m] \in DimensionRecords /\ dims[m].decisions \in Seq(Entries)
    BY DEF DimsOk, DimensionRecords
  <2>3. /\ Legible(dims[m].decisions) \in Seq(Entries)
        /\ Len(Legible(dims[m].decisions)) <= Len(dims[m].decisions)
    BY <2>2, LegibleType
  <2> QED BY <2>1, <2>2, <2>3 DEF DimensionRecords
<1>2. Readable \in [Names -> DimensionRecords]
  <2>1. Readable = [m \in Names |-> Readable[m]] BY DEF Readable, parseDimensionsDocument
  <2> QED BY <1>1, <2>1
<1>3. dims[n].state = "unlisted" => Legible(dims[n].decisions) = <<>>
  BY LegibleEmpty DEF DimsOk
<1> QED BY <1>1, <1>2, <1>3 DEF Continues

\* How a decision, a covering and a proposal leave it.
LEMMA DecisionContinues ==
  ASSUME DimsOk, NEW n \in Names, NEW by \in Authors, NEW new,
         \/ \E m : \E state \in {"uncovered", "out_of_scope"} :
              new = decideDimension(Readable, m, state, by)[n]
         \/ \E m : \E oneLine \in BOOLEAN : new = proposeDimension(Readable, m, by, oneLine)[n]
         \/ \E i \in Items : new = markCovered(Readable, n, i, by)[n]
  PROVE  new \in DimensionRecords /\ Continues(dims[n], new)
<1> DEFINE r == Readable[n]
<1>1. /\ r \in DimensionRecords /\ Continues(dims[n], r) /\ r.decisions = Legible(dims[n].decisions)
      /\ r.state = dims[n].state /\ Readable \in [Names -> DimensionRecords]
  <2>1. r = [dims[n] EXCEPT !.decisions = Legible(dims[n].decisions)] /\ dims[n] \in DimensionRecords
        /\ r \in DimensionRecords /\ Continues(dims[n], r) /\ Readable \in [Names -> DimensionRecords]
    BY ReadableContinues DEF DimsOk
  <2> QED BY <2>1 DEF DimensionRecords
<1>2. ASSUME NEW s \in DimensionStates \ {"unlisted"}, NEW j \in Items \cup {0}
      PROVE  LET e == Decision(s, j, by)
             IN  /\ e \in Entries /\ Append(r.decisions, e) \in Seq(Entries)
                 /\ <<e>> \in Seq(Entries)
  <2>1. Decision(s, j, by) \in Entries BY DEF Decision, Entries
  <2>2. r.decisions \in Seq(Entries) BY <1>1 DEF DimensionRecords
  <2> QED BY <2>1, <2>2, AppendProperties
<1> HIDE DEF r
<1>3. ASSUME NEW q \in DimensionRecords, q.state # "unlisted",
             \E e \in Entries : q.decisions = Append(r.decisions, e)
      PROVE  Continues(dims[n], q)
  BY <1>1, <1>3 DEF Continues
<1>4. ASSUME NEW m, NEW state \in {"uncovered", "out_of_scope"},
             new = decideDimension(Readable, m, state, by)[n]
      PROVE  new \in DimensionRecords /\ Continues(dims[n], new)
  <2> DEFINE e == Decision(state, 0, by)
  <2>1. e \in Entries /\ Append(r.decisions, e) \in Seq(Entries) BY <1>2 DEF DimensionStates
  <2>2. CASE m # n
    BY <1>1, <1>4, <2>2 DEF decideDimension, r
  <2>3. CASE m = n
    <3>1. new = [r EXCEPT !.state = state, !.decisions = Append(r.decisions, e)]
      BY <1>1, <1>4, <2>3 DEF decideDimension, DimensionRecords, r
    <3>2. new \in DimensionRecords /\ new.state = state /\ new.decisions = Append(r.decisions, e)
      BY <1>1, <2>1, <3>1 DEF DimensionRecords, DimensionStates
    <3> QED BY <1>3, <2>1, <3>2
  <2> QED BY <2>2, <2>3
<1>5. ASSUME NEW i \in Items, new = markCovered(Readable, n, i, by)[n]
      PROVE  new \in DimensionRecords /\ Continues(dims[n], new)
  <2> DEFINE e == Decision("covered", i, by)
  <2>1. e \in Entries /\ Append(r.decisions, e) \in Seq(Entries) BY <1>2 DEF DimensionStates
  <2>2. CASE i \in Readable[n].coveredBy
    BY <1>1, <1>5, <2>2 DEF markCovered, r
  <2>3. CASE i \notin Readable[n].coveredBy
    <3>1. new = [state |-> "covered", coveredBy |-> r.coveredBy \cup {i},
                 decisions |-> Append(r.decisions, e)]
      BY <1>1, <1>5, <2>3 DEF markCovered, r
    <3>2. new \in DimensionRecords /\ new.state = "covered"
          /\ new.decisions = Append(r.decisions, e)
      BY <1>1, <2>1, <3>1 DEF DimensionRecords, DimensionStates
    <3> QED BY <1>3, <2>1, <3>2
  <2> QED BY <2>2, <2>3
<1>6. ASSUME NEW m, NEW oneLine \in BOOLEAN, new = proposeDimension(Readable, m, by, oneLine)[n]
      PROVE  new \in DimensionRecords /\ Continues(dims[n], new)
  <2> DEFINE e == [Decision("uncovered", 0, by) EXCEPT !.oneLine = oneLine]
  <2>1. e \in Entries /\ <<e>> \in Seq(Entries) /\ Append(r.decisions, e) \in Seq(Entries)
    <3>1. e \in Entries BY DEF Decision, Entries, DimensionStates
    <3>2. r.decisions \in Seq(Entries) BY <1>1 DEF DimensionRecords
    <3> QED BY <3>1, <3>2, AppendProperties
  <2>2. CASE m # n \/ \E k \in listed(Readable) : Folded[k] = Folded[m]
    BY <1>1, <1>6, <2>2 DEF proposeDimension, r
  <2>3. CASE m = n /\ ~ \E k \in listed(Readable) : Folded[k] = Folded[m]
    <3>1. r.decisions = <<>> BY <1>1, <2>3, LegibleEmpty DEF listed, DimsOk, r
    <3>2. <<e>> = Append(r.decisions, e) BY <3>1
    <3>3. new = [state |-> "uncovered", coveredBy |-> {}, decisions |-> <<e>>]
      BY <1>1, <1>6, <2>3 DEF proposeDimension, r
    <3>4. new \in DimensionRecords /\ new.state = "uncovered"
          /\ new.decisions = Append(r.decisions, e)
      BY <2>1, <3>2, <3>3 DEF DimensionRecords, DimensionStates
    <3> QED BY <1>3, <2>1, <3>4
  <2> QED BY <2>2, <2>3
<1> QED BY <1>4, <1>5, <1>6

\* The checklist is rewritten by a decision, a proposal or a covering, and by nothing else.
LEMMA DimsChange ==
  ASSUME [Next]_vars, Asked(at)
  PROVE  \/ dims' = dims
         \/ \E n : \E by \in Authors, oneLine \in BOOLEAN :
              dims' = proposeDimension(Readable, n, by, oneLine)
         \/ \E n : \E by \in Authors, state \in {"uncovered", "out_of_scope"} :
              RoomFor(n) /\ dims' = decideDimension(Readable, n, state, by)
         \/ \E ns : \E by \in Authors, i \in Items :
              (\A n \in ns : RoomFor(n)) /\ dims' = MarkAllCovered(Readable, ns, i, by)
<1>1. CASE ConsiderDimension BY <1>1 DEF ConsiderDimension
<1>2. CASE Cover
  <2>1. at.i \in Items BY <1>2 DEF Cover, AtPrompt, Asked, AboutAnItem
  <2> QED BY <1>2, <2>1 DEF Cover
<1>3. CASE Discard BY <1>3 DEF Discard, DecideOn
<1>4. CASE Reabrir BY <1>4 DEF Reabrir, DecideOn
<1>5. CASE DecidedElsewhere BY <1>5 DEF DecidedElsewhere, DecideOn
<1>6. CASE UNCHANGED vars BY <1>6 DEF vars
<1>7. CASE \/ Leave \/ CloseInput \/ LeaveAtEof \/ RoundFails \/ OfferExits \/ Cancel
           \/ Proceed \/ Descartar \/ KeepInScope \/ Proyecto \/ inferProjectGaps
           \/ Confirmar \/ ConfirmFacts \/ RefreshedElsewhere \/ ManifestsChange
  BY <1>7 DEF Leave, CloseInput, LeaveAtEof, RoundFails, OfferExits, Cancel, Proceed, Descartar,
    KeepInScope, Proyecto, inferProjectGaps, Confirmar, ConfirmFacts, RefreshedElsewhere,
    ManifestsChange, Ask, lists
<1>8. CASE Talked \/ Rewriting
  BY <1>8 DEF Talked, Rewriting, Converse, TakeDecision, NextRound, StartSession,
    StartOtherFront, Listo, Desbloquear, retryWithContext,
    acknowledgeBlocker, StepBegins, AcknowledgedElsewhere, lists
<1>9. CASE Defining
  BY <1>9 DEF Defining, CreateFromRequest, CreateFromIdea, ConfirmValidation,
    openFixFromConversation, correctSpecification, lists
<1>10. CASE StepReturns BY <1>10 DEF StepReturns, lists
<1> QED
  BY <1>1, <1>2, <1>3, <1>4, <1>5, <1>6, <1>7, <1>8, <1>9, <1>10, Kinds DEF Quiet

\* A log with room for one more entry keeps within its bound.
LEMMA StaysBounded ==
  ASSUME DimsOk, NEW n \in Names, RoomFor(n), NEW new \in DimensionRecords,
         Continues(dims[n], new)
  PROVE  Len(new.decisions) <= MaxLog
<1> DEFINE log == dims[n].decisions
<1>1. log \in Seq(Entries) /\ Len(log) < MaxLog BY DEF DimsOk, DimensionRecords, RoomFor
<1>2. /\ Legible(log) \in Seq(Entries) /\ Len(Legible(log)) <= Len(log)
      /\ Len(log) \in Nat /\ Len(Legible(log)) \in Nat
  BY <1>1, LegibleType, LenProperties
<1>3. \A e \in Entries : Len(Append(Legible(log), e)) = Len(Legible(log)) + 1
  BY <1>2, AppendProperties
<1>4. MaxLog \in Nat BY SessionAssumption
<1> QED BY <1>1, <1>2, <1>3, <1>4 DEF Continues

\* Every dimension continues what it was.
LEMMA DimsStep ==
  ASSUME DimsOk, [Next]_vars, Asked(at)
  PROVE  DimsOk' /\ \A n \in Names : Continues(dims[n], dims'[n])
<1> DEFINE Kept(n) == /\ dims'[n] \in DimensionRecords /\ Continues(dims[n], dims'[n])
                      /\ Len(dims'[n].decisions) <= MaxLog
<1>1. SUFFICES ASSUME dims' # dims
               PROVE  dims' = [n \in Names |-> dims'[n]] /\ \A n \in Names : Kept(n)
  <2>1. CASE dims' = dims BY <2>1 DEF DimsOk, Continues, DimensionRecords
  <2>2. CASE dims' = [n \in Names |-> dims'[n]] /\ \A n \in Names : Kept(n)
    <3>1. dims' \in [Names -> DimensionRecords] BY <2>2
    <3>2. ASSUME NEW n \in Names
          PROVE  dims'[n].state = "unlisted" => dims'[n].decisions = <<>>
      BY <2>2 DEF Continues
    <3> QED BY <2>2, <3>1, <3>2 DEF DimsOk
  <2> QED BY <2>1, <2>2
<1>2. /\ Readable \in [Names -> DimensionRecords]
      /\ \A n \in Names : /\ Readable[n] \in DimensionRecords /\ Continues(dims[n], Readable[n])
                          /\ Len(Readable[n].decisions) <= Len(dims[n].decisions)
                          /\ Readable[n].decisions = Legible(dims[n].decisions)
                          /\ Len(dims[n].decisions) <= MaxLog
  <2>1. CASE Names = {} BY <2>1 DEF Readable, parseDimensionsDocument
  <2>2. ASSUME NEW n \in Names
        PROVE  /\ Readable[n] = [dims[n] EXCEPT !.decisions = Legible(dims[n].decisions)]
               /\ Readable[n] \in DimensionRecords /\ Continues(dims[n], Readable[n])
               /\ Len(Readable[n].decisions) <= Len(dims[n].decisions)
               /\ Readable \in [Names -> DimensionRecords]
    BY ReadableContinues
  <2>3. \A n \in Names : dims[n] \in DimensionRecords /\ Len(dims[n].decisions) <= MaxLog
    BY DEF DimsOk
  <2> QED BY <2>1, <2>2, <2>3 DEF DimensionRecords
<1>3. ASSUME NEW n \in Names PROVE Len(Readable[n].decisions) <= MaxLog
  <2>1. Legible(dims[n].decisions) \in Seq(Entries) /\ dims[n].decisions \in Seq(Entries)
    BY LegibleType DEF DimsOk, DimensionRecords
  <2> QED BY <1>2, <2>1, SessionAssumption, LenProperties
<1> DEFINE Goal == dims' = [n \in Names |-> dims'[n]] /\ \A n \in Names : Kept(n)
<1>4. ASSUME NEW m, NEW by \in Authors, NEW oneLine \in BOOLEAN,
             dims' = proposeDimension(Readable, m, by, oneLine)
      PROVE  Goal
  <2>1. dims' = proposeDimension(Readable, m, by, oneLine) BY <1>4
  <2>2. dims' = [n \in Names |-> dims'[n]] BY <1>2, <2>1 DEF proposeDimension
  <2>3. ASSUME NEW n \in Names PROVE Kept(n)
    <3>1. dims'[n] \in DimensionRecords /\ Continues(dims[n], dims'[n])
      BY <2>1, DecisionContinues
    <3>2. dims'[n] = Readable[n] \/ \E e : dims'[n].decisions = <<e>>
      BY <1>2, <2>1 DEF proposeDimension
    <3>3. (\A e : Len(<<e>>) = 1) /\ 1 <= MaxLog BY SessionAssumption
    <3> QED BY <1>3, <3>1, <3>2, <3>3
  <2> QED BY <2>2, <2>3
<1>5. ASSUME NEW m, NEW by \in Authors, NEW state \in {"uncovered", "out_of_scope"},
             RoomFor(m), dims' = decideDimension(Readable, m, state, by)
      PROVE  Goal
  <2>1. RoomFor(m) /\ dims' = decideDimension(Readable, m, state, by) BY <1>5
  <2>2. dims' = [n \in Names |-> dims'[n]] BY <1>2, <2>1 DEF decideDimension
  <2>3. ASSUME NEW n \in Names PROVE Kept(n)
    <3>1. dims'[n] \in DimensionRecords /\ Continues(dims[n], dims'[n])
      BY <2>1, DecisionContinues
    <3>2. CASE n = m BY <2>1, <3>1, <3>2, StaysBounded
    <3>3. CASE n # m
      <4>1. dims'[n] = Readable[n] BY <1>2, <2>1, <3>3 DEF decideDimension
      <4> QED BY <1>3, <3>1, <4>1
    <3> QED BY <3>2, <3>3
  <2> QED BY <2>2, <2>3
<1>6. ASSUME NEW ns, NEW by \in Authors, NEW i \in Items, \A n \in ns : RoomFor(n),
             dims' = MarkAllCovered(Readable, ns, i, by)
      PROVE  Goal
  <2>1. (\A n \in ns : RoomFor(n)) /\ dims' = MarkAllCovered(Readable, ns, i, by) BY <1>6
  <2>2. dims' = [n \in Names |-> dims'[n]] BY <2>1 DEF MarkAllCovered
  <2>3. ASSUME NEW n \in Names PROVE Kept(n)
    <3>1. dims'[n] = IF n \in ns THEN markCovered(Readable, n, i, by)[n] ELSE Readable[n]
      BY <2>1 DEF MarkAllCovered
    <3>2. CASE n \in ns
      <4>1. dims'[n] = markCovered(Readable, n, i, by)[n] BY <3>1, <3>2
      <4>2. dims'[n] \in DimensionRecords /\ Continues(dims[n], dims'[n])
        BY <4>1, DecisionContinues
      <4> QED BY <2>1, <3>2, <4>2, StaysBounded
    <3>3. CASE n \notin ns BY <1>2, <1>3, <3>1, <3>3
    <3> QED BY <3>2, <3>3
  <2> QED BY <2>2, <2>3
<1>7. Goal => dims' = [n \in Names |-> dims'[n]] /\ \A n \in Names : Kept(n) OBVIOUS
<1> HIDE DEF Kept, Goal
<1>8. Goal BY <1>1, <1>4, <1>5, <1>6, DimsChange
<1> QED BY <1>7, <1>8

\* The lines that can be read stay the first ones that can.
LEMMA ContinuedIsPrefix ==
  ASSUME DimsOk, NEW n \in Names, NEW new, Continues(dims[n], new)
  PROVE  IsPrefix(Legible(dims[n].decisions), Legible(new.decisions))
<1> DEFINE log == dims[n].decisions
<1>1. log \in Seq(Entries) BY DEF DimsOk, DimensionRecords
<1> HIDE DEF log
<1>2. Legible(log) \in Seq(Entries) BY <1>1, LegibleType
<1>3. Legible(Legible(log)) = Legible(log) BY <1>1, LegibleTwice
<1>4. CASE new.decisions \in {log, Legible(log)}
  <2>1. CASE Entries = {}
    <3>1. log = <<>> BY <1>1, <2>1, EmptySeq, LenProperties, ElementOfSeq
    <3>2. <<>> \in Seq({0}) BY EmptySeq
    <3>3. IsPrefix(<<>>, <<>>) BY <3>2, PrefixOfMore
    <3> QED BY <1>3, <1>4, <3>1, <3>3, LegibleEmpty DEF log
  <2>2. ASSUME NEW e \in Entries PROVE IsPrefix(Legible(log), Legible(log))
    BY <1>2, PrefixOfMore
  <2> QED BY <1>3, <1>4, <2>1, <2>2 DEF log
<1>5. ASSUME NEW e \in Entries, new.decisions = Append(Legible(log), e)
      PROVE  IsPrefix(Legible(log), Legible(new.decisions))
  <2>1. Legible(Append(Legible(log), e)) =
          IF ReadBack(e) THEN Append(Legible(log), e) ELSE Legible(log)
    BY <1>2, <1>3, LegibleAppend
  <2>2. IsPrefix(Legible(log), Legible(log)) /\ IsPrefix(Legible(log), Append(Legible(log), e))
    BY <1>2, PrefixOfMore
  <2> QED BY <1>5, <2>1, <2>2
<1> QED BY <1>4, <1>5 DEF Continues, log

\* The checklist starts with what STARTER_DIMENSIONS lists, undecided.
LEMMA InitDims == ASSUME Init PROVE DimsOk
<1>1. <<>> \in Seq(Entries) /\ Len(<<>>) = 0 /\ 0 <= MaxLog
  BY EmptySeq, SessionAssumption
<1>2. dims = [n \in Names |-> [Unlisted EXCEPT !.state =
                                IF n \in Starter THEN "uncovered" ELSE "unlisted"]]
  BY DEF Init, StarterDimensions, Unlisted
<1>3. \A n \in Names : /\ dims[n] \in DimensionRecords /\ dims[n].decisions = <<>>
  BY <1>1, <1>2 DEF Unlisted, DimensionRecords, DimensionStates
<1> QED BY <1>1, <1>2, <1>3 DEF DimsOk

\* No decision that can be read back is dropped or rewritten, whatever is proposed, covered,
\* discarded or reopened, in however many terminals.
THEOREM LegibleDecisionsStay == Spec => DecisionsAreKept
<1> DEFINE Kept == \A n \in Names :
                     IsPrefix(Legible(dims[n].decisions), Legible(dims'[n].decisions))
<1>1. Init => DimsOk BY InitDims
<1>2. IInv => Asked(at) BY DEF IInv, ShapeOk
<1>3. ASSUME DimsOk, Asked(at), [Next]_vars PROVE DimsOk' /\ [Kept]_vars
  <2>1. DimsOk' /\ \A n \in Names : Continues(dims[n], dims'[n]) BY <1>3, DimsStep
  <2>2. ASSUME NEW n \in Names
        PROVE  IsPrefix(Legible(dims[n].decisions), Legible(dims'[n].decisions))
    BY <1>3, <2>1, ContinuedIsPrefix
  <2> QED BY <2>1, <2>2
<1> QED BY <1>1, <1>2, <1>3, SessionInvariant, PTL DEF Spec, DecisionsAreKept

(***************************************************************************)
(* Types, and what a behaviour stays within.                               *)
(***************************************************************************)

\* The features a session may have drafted: they are there, and nothing takes one away.
Drafted == {f \in Features : Present(doc[f])}

RoundOk(a) == a.round \in 1..MAX_ROUNDS_PER_ITEM

\* What is said, asked, retried and drafted, as far as it goes.
InBounds ==
  /\ said <= MaxTurns
  /\ talk.turns \subseteq 1..said /\ talk.segment \subseteq 1..said
  /\ \A i \in Items : spec[i].turns \subseteq 1..said
  /\ \A i \in Items : diag[i].retries <= MaxRetries
  /\ talk.drafted <= Cardinality(Drafted)
  /\ RoundOk(at)

\* The surroundings: the person, the repository, and the commands used.
SurroundingsOk ==
  /\ front \in Fronts \cup {"none"} /\ closed \in BOOLEAN /\ tree \in Trees
  /\ \E situation \in Situations : uses = situation.uses

\* Every question starts at its first round.
LEMMA FirstRound ==
  /\ RoundOk(Main) /\ RoundOk(Nobody) /\ RoundOk(Thrown)
  /\ \A p, i : RoundOk(Prompt(p, i))
  /\ \A p, i, names : RoundOk(Offering(p, i, names))
  /\ \A names : RoundOk(AfterTurn(names)) /\ \A tk : RoundOk(Onward(tk))
<1>1. 1 \in 1..MAX_ROUNDS_PER_ITEM BY SessionAssumption
<1>2. \A p, i : RoundOk(Prompt(p, i)) BY <1>1 DEF RoundOk, Prompt
<1>3. \A p, i, names : RoundOk(Offering(p, i, names)) BY <1>1 DEF RoundOk, Prompt, Offering
<1> QED BY <1>2, <1>3 DEF Main, Nobody, Thrown, AfterTurn, Onward

\* Rounds count up to the ceiling and no further.
LEMMA RoundsStep ==
  ASSUME Asked(at), RoundOk(at), [Next]_vars PROVE RoundOk(at')
<1> USE FirstRound
<1>1. CASE NextRound
  <2>1. CASE at' = Onward(talk') BY <2>1
  <2>2. CASE AnotherRound(at.round) /\ at' = [at EXCEPT !.round = @ + 1]
    <3>1. at.round \in Nat /\ at'.round = at.round + 1 BY <2>2 DEF Asked, Prompts
    <3> QED BY <2>2, <3>1, SessionAssumption DEF AnotherRound, RoundOk
  <2> QED BY <1>1, <2>1, <2>2 DEF NextRound
<1>2. CASE Desbloquear
  <2>1. ASSUME NEW i, NEW retry, at' = [Prompt("exits", i) EXCEPT !.retry = retry]
        PROVE  RoundOk(at')
    <3>1. RoundOk(Prompt("exits", i)) OBVIOUS
    <3> QED BY <2>1, <3>1 DEF RoundOk, Prompt
  <2> QED BY <1>2, <2>1 DEF Desbloquear
<1>3. CASE CreateFromRequest \/ CreateFromIdea
  BY <1>3 DEF CreateFromRequest, CreateFromIdea, RecordProvenance
<1>4. CASE Converse \/ TakeDecision
  BY <1>4 DEF Converse, TakeDecision
<1>5. CASE Quiet
  BY <1>5 DEF Quiet, Leave, CloseInput, LeaveAtEof, ConsiderDimension, Cover, RoundFails,
    OfferExits, Cancel, Proceed, Descartar, KeepInScope, Discard, Reabrir, Proyecto,
    inferProjectGaps, Confirmar, ConfirmFacts, DecidedElsewhere, RefreshedElsewhere,
    ManifestsChange, Ask, vars
<1>6. CASE StartSession \/ StartOtherFront \/ Listo
  BY <1>6 DEF StartSession, StartOtherFront, Listo
<1>7. CASE \/ retryWithContext \/ correctSpecification \/ acknowledgeBlocker \/ StepBegins
           \/ StepReturns \/ AcknowledgedElsewhere
  BY <1>7 DEF retryWithContext, correctSpecification, acknowledgeBlocker, StepBegins, StepReturns,
    AcknowledgedElsewhere
<1>8. CASE ConfirmValidation \/ openFixFromConversation
  BY <1>8 DEF ConfirmValidation, openFixFromConversation
<1> QED BY <1>1, <1>2, <1>3, <1>4, <1>5, <1>6, <1>7, <1>8, Kinds DEF Talked, Rewriting, Defining

\* The retry counter moves by one, within its bound.
LEMMA RetriesStep ==
  ASSUME ShapeOk, \A i \in Items : diag[i].retries <= MaxRetries, [Next]_vars
  PROVE  \A i \in Items : diag'[i].retries <= MaxRetries
<1>1. diag \in [Items -> Diagnoses] /\ MaxRetries \in Nat BY SessionAssumption DEF ShapeOk
<1>2. CASE diag' = diag BY <1>2
<1>3. ASSUME NEW j \in Items, NEW kept, kept.retries <= MaxRetries, diag' = [diag EXCEPT ![j] = kept]
      PROVE  \A i \in Items : diag'[i].retries <= MaxRetries
  BY <1>1, <1>3
<1>4. CASE Desbloquear
  <2>1. ASSUME NEW j \in Items, NEW kept \in Diagnosed(j, doc'[j]), diag' = [diag EXCEPT ![j] = kept]
        PROVE  \A i \in Items : diag'[i].retries <= MaxRetries
    <3>1. kept = diag[j] \/ kept.retries = 0 BY DEF Diagnosed
    <3> QED BY <1>1, <1>3, <2>1, <3>1
  <2> QED BY <1>2, <1>4, <2>1 DEF Desbloquear, listBlockedWorkItems
<1>5. CASE correctSpecification
  <2>1. at.i \in Items BY <1>5 DEF correctSpecification, AtPrompt, ShapeOk, Asked, AboutAnItem
  <2>2. NoDiagnosis.retries <= MaxRetries BY <1>1 DEF NoDiagnosis
  <2> QED BY <1>3, <1>5, <2>1, <2>2 DEF correctSpecification
<1>6. CASE retryWithContext
  <2>1. diag' = diag \/ diag' = [diag EXCEPT ![at.i].retries = @ + 1]
    BY <1>6 DEF retryWithContext
  <2>2. diag'[at.i].retries <= MaxRetries BY <1>6 DEF retryWithContext
  <2> QED BY <1>1, <2>1, <2>2
<1>7. Rewriting \/ correctSpecification \/ diag' = diag
  <2>1. Quiet => diag' = diag BY QuietStep
  <2>2. Talked => diag' = diag BY DEF Talked, Converse, TakeDecision, NextRound, items
  <2>3. Defining => diag' = diag \/ correctSpecification
    BY DEF Defining, CreateFromRequest, CreateFromIdea, ConfirmValidation,
           openFixFromConversation
  <2>4. StepReturns => diag' = diag BY DEF StepReturns
  <2> QED BY <2>1, <2>2, <2>3, <2>4, Kinds
<1> QED BY <1>2, <1>4, <1>5, <1>6, <1>7
     DEF Rewriting, StartSession, StartOtherFront, Listo, acknowledgeBlocker, StepBegins,
         AcknowledgedElsewhere

\* There are finitely many features.
LEMMA FeatureSets ==
  /\ Cardinality(Features) \in Nat
  /\ \A T \in SUBSET Features : /\ IsFiniteSet(T) /\ Cardinality(T) \in Nat
                                /\ Cardinality(T) <= Cardinality(Features)
<1>1. IsFiniteSet(Features) BY SessionAssumption, FS_Subset DEF Items
<1> QED BY <1>1, FS_Subset, FS_CardinalityType

\* A new feature is one more than were there.
LEMMA DraftedGrows ==
  ASSUME ItemsStay
  PROVE  /\ Cardinality(Drafted) \in Nat /\ Cardinality(Drafted) <= Cardinality(Drafted')
         /\ \A f \in Features : ~Present(doc[f]) /\ Present(doc'[f])
              => Cardinality(Drafted) + 1 <= Cardinality(Drafted')
<1>1. /\ IsFiniteSet(Drafted) /\ IsFiniteSet(Drafted')
      /\ Cardinality(Drafted) \in Nat /\ Cardinality(Drafted') \in Nat
  BY FeatureSets DEF Drafted
<1>2. Drafted \in SUBSET Drafted' BY DEF Drafted, ItemsStay, Items
<1>3. Cardinality(Drafted) <= Cardinality(Drafted') BY <1>1, <1>2, FS_Subset
<1>4. ASSUME NEW f \in Features, ~Present(doc[f]), Present(doc'[f])
      PROVE  Cardinality(Drafted) + 1 <= Cardinality(Drafted')
  <2>1. f \notin Drafted /\ f \in Drafted' BY <1>4 DEF Drafted
  <2>2. /\ IsFiniteSet(Drafted \cup {f})
        /\ Cardinality(Drafted \cup {f}) = Cardinality(Drafted) + 1
    BY <1>1, <2>1, FS_AddElement
  <2>3. Drafted \cup {f} \in SUBSET Drafted' BY <1>2, <2>1
  <2>4. Cardinality(Drafted \cup {f}) <= Cardinality(Drafted') BY <1>1, <2>3, FS_Subset
  <2> QED BY <2>2, <2>4
<1> QED BY <1>1, <1>3, <1>4

\* What is said stays within its bound, and so does what is written of it and drafted.
LEMMA TurnsStep ==
  ASSUME IInv, InBounds, [Next]_vars
  PROVE  /\ said' <= MaxTurns
         /\ talk'.turns \subseteq 1..said' /\ talk'.segment \subseteq 1..said'
         /\ \A i \in Items : spec'[i].turns \subseteq 1..said'
         /\ talk'.drafted <= Cardinality(Drafted)'
<1> DEFINE Turns == /\ said' <= MaxTurns
                    /\ talk'.turns \subseteq 1..said' /\ talk'.segment \subseteq 1..said'
                    /\ \A i \in Items : spec'[i].turns \subseteq 1..said'
           Counted == talk'.drafted <= Cardinality(Drafted)'
<1>1. /\ ShapeOk /\ ItemsOk /\ TalkOk /\ said \in Nat /\ MaxTurns \in Nat
      /\ talk \in Talks /\ talk.drafted \in Nat
      /\ said <= MaxTurns /\ talk.turns \subseteq 1..said /\ talk.segment \subseteq 1..said
      /\ \A i \in Items : spec[i].turns \subseteq 1..said
      /\ talk.drafted <= Cardinality(Drafted)
  BY SessionAssumption DEF IInv, InBounds, ShapeOk, Talks
<1>2. ASSUME ItemsStay, talk'.drafted \in {talk.drafted, 0} PROVE Counted
  <2>1. Cardinality(Drafted) \in Nat /\ Cardinality(Drafted) <= Cardinality(Drafted)'
    BY <1>2, DraftedGrows
  <2>2. Cardinality(Drafted)' \in Nat BY FeatureSets DEF Drafted
  <2> QED BY <1>1, <1>2, <2>1, <2>2
<1>3. CASE Quiet
  <2>1. UNCHANGED <<doc, spec, talk, said>> BY <1>3, QuietStep
  <2>2. ItemsStay BY <2>1 DEF ItemsStay
  <2> QED BY <1>1, <1>2, <2>1, <2>2
<1>4. CASE Talked
  <2>1. UNCHANGED <<doc, spec>> BY <1>1, <1>4, TalkedStep
  <2>2. ItemsStay BY <2>1 DEF ItemsStay
  <2>3. ASSUME NEW n \in Nat
        PROVE  LET spoken == [talk EXCEPT !.turns = @ \cup {n}, !.segment = @ \cup {n}]
               IN  /\ spoken.turns = talk.turns \cup {n} /\ spoken.segment = talk.segment \cup {n}
                   /\ spoken.drafted = talk.drafted /\ spoken \in Talks
    BY <1>1 DEF Talks
  <2>4. /\ Spoken(talk).turns = talk.turns \cup {said + 1}
        /\ Spoken(talk).segment = talk.segment \cup {said + 1}
        /\ Spoken(talk).drafted = talk.drafted /\ Spoken(talk) \in Talks
    <3>1. said + 1 \in Nat BY <1>1
    <3> QED BY <2>3, <3>1 DEF Spoken
  <2>5. \/ /\ talk'.turns = talk.turns /\ talk'.segment = talk.segment
           /\ talk'.drafted = talk.drafted /\ said' = said
        \/ /\ talk'.turns = talk.turns \cup {said + 1}
           /\ talk'.segment = talk.segment \cup {said + 1}
           /\ talk'.drafted = talk.drafted /\ said' = said + 1 /\ said < MaxTurns
    <3> HIDE DEF Spoken
    <3>1. CASE Converse BY <2>4, <3>1 DEF Converse
    <3>2. CASE TakeDecision
      <4>1. ASSUME NEW D
            PROVE  LET kept == [Spoken(talk) EXCEPT !.decisions = D]
                   IN  /\ kept.turns = Spoken(talk).turns /\ kept.segment = Spoken(talk).segment
                       /\ kept.drafted = Spoken(talk).drafted
        BY <2>4 DEF Talks
      <4> QED BY <2>4, <3>2, <4>1 DEF TakeDecision
    <3>3. CASE NextRound
      <4>1. talk' = talk \/ talk' = Dequeued(talk) BY <3>3 DEF NextRound
      <4>2. said' = said BY <3>3 DEF NextRound, others
      <4> QED BY <1>1, <4>1, <4>2 DEF Dequeued, Talks
    <3> QED BY <1>4, <3>1, <3>2, <3>3 DEF Talked
  <2>6. Turns BY <1>1, <2>1, <2>5
  <2> QED BY <1>2, <2>2, <2>5, <2>6
<1>5. CASE Rewriting
  <2>1. /\ \A i \in Items : Moved(doc[i], doc'[i])
        /\ UNCHANGED <<spec, said>>
    BY <1>1, <1>5, RewritingMoves
  <2>2. \/ talk' = talk
        \/ /\ talk'.turns = {} /\ talk'.segment = {}
           /\ talk'.decisions = {} /\ talk'.drafted = 0
    BY <1>5, RewritingAsks
  <2>3. ItemsStay BY <2>1 DEF ItemsStay, Moved
  <2> QED BY <1>1, <1>2, <2>1, <2>2, <2>3
<1>6. CASE CreateFromRequest
  <2>1. /\ ItemsStay /\ said' = said /\ talk'.turns = talk.turns
        /\ talk'.segment = talk.segment /\ talk'.drafted = talk.drafted
        /\ \A j \in Items : spec'[j].turns = spec[j].turns
    BY <1>1, <1>6, FromRequest
  <2> QED BY <1>1, <1>2, <2>1
<1>7. CASE CreateFromIdea
  <2>1. ItemsStay /\ said' = said /\ talk'.turns = talk.turns BY <1>1, <1>7, FromIdea
  <2>2. PICK f \in Items :
          /\ \A j \in Items \ {f} : spec'[j] = spec[j]
          /\ spec'[f].turns \in {talk.turns, talk.segment}
          /\ \/ talk'.segment = talk.segment /\ talk'.drafted = talk.drafted
             \/ /\ talk'.segment = {} /\ talk'.drafted = talk.drafted + 1
                /\ f \in Features /\ ~Present(doc[f]) /\ Present(doc'[f])
    BY <1>1, <1>7, FromIdea
  <2>3. Turns BY <1>1, <2>1, <2>2
  <2>4. CASE talk'.drafted = talk.drafted BY <1>2, <2>1, <2>3, <2>4
  <2>5. CASE /\ talk'.drafted = talk.drafted + 1
             /\ f \in Features /\ ~Present(doc[f]) /\ Present(doc'[f])
    <3>1. Cardinality(Drafted) \in Nat /\ Cardinality(Drafted) + 1 <= Cardinality(Drafted)'
      BY <2>1, <2>5, DraftedGrows
    <3>2. Cardinality(Drafted)' \in Nat BY FeatureSets DEF Drafted
    <3> QED BY <1>1, <2>3, <2>5, <3>1, <3>2
  <2> QED BY <2>2, <2>4, <2>5
<1>8. CASE ConfirmValidation
  <2>1. /\ ItemsStay /\ said' = said /\ talk'.turns = talk.turns
        /\ talk'.segment = talk.segment /\ talk'.drafted = talk.drafted
        /\ \A j \in Items : spec'[j].turns = spec[j].turns
    BY <1>1, <1>8, Confirming
  <2> QED BY <1>1, <1>2, <2>1
<1>9. CASE openFixFromConversation
  <2>1. /\ ItemsStay /\ UNCHANGED <<talk, said>>
        /\ \A j \in Items : spec'[j].turns = spec[j].turns
    BY <1>1, <1>9, OpeningFix
  <2> QED BY <1>1, <1>2, <2>1
<1>10. CASE correctSpecification
  <2>1. /\ ItemsStay /\ UNCHANGED <<talk, said>>
        /\ \A j \in Items : spec'[j].turns = spec[j].turns
    BY <1>1, <1>10, Correcting
  <2> QED BY <1>1, <1>2, <2>1
<1>11. CASE StepReturns
  <2>1. ItemsStay /\ UNCHANGED <<spec, talk, said>>
    <3>1. FlightOk BY DEF IInv
    <3> QED BY <1>1, <1>11, <3>1, Returning
  <2> QED BY <1>1, <1>2, <2>1
<1> QED BY <1>3, <1>4, <1>5, <1>6, <1>7, <1>8, <1>9, <1>10, <1>11, Kinds DEF Defining

\* Who is there, what the repository holds and which commands are used.
LEMMA SurroundingsStep ==
  ASSUME SurroundingsOk, [Next]_vars PROVE SurroundingsOk'
<1>1. uses' = uses /\ tree' \in {tree} \cup Trees
  BY DEF Next, Answered, vars, lists, items, others, Ask, RecordProvenance, StartSession,
    StartOtherFront, Leave, CloseInput, LeaveAtEof, Converse, TakeDecision, ConsiderDimension,
    CreateFromRequest, CreateFromIdea, Cover, Listo, ConfirmValidation, NextRound, RoundFails,
    Desbloquear, OfferExits, Cancel, Proceed, retryWithContext, correctSpecification,
    openFixFromConversation, acknowledgeBlocker, Descartar, KeepInScope, Discard, Reabrir,
    DecideOn, Proyecto, inferProjectGaps, Confirmar, ConfirmFacts, StepBegins, StepReturns,
    AcknowledgedElsewhere, DecidedElsewhere, RefreshedElsewhere, ManifestsChange
<1>2. front' \in {front} \cup Fronts /\ closed' \in {closed, TRUE, FALSE}
  BY DEF Next, Answered, vars, lists, items, others, Ask, RecordProvenance, StartSession,
    StartOtherFront, Leave, CloseInput, LeaveAtEof, Converse, TakeDecision, ConsiderDimension,
    CreateFromRequest, CreateFromIdea, Cover, Listo, ConfirmValidation, NextRound, RoundFails,
    Desbloquear, OfferExits, Cancel, Proceed, retryWithContext, correctSpecification,
    openFixFromConversation, acknowledgeBlocker, Descartar, KeepInScope, Discard, Reabrir,
    DecideOn, Proyecto, inferProjectGaps, Confirmar, ConfirmFacts, StepBegins, StepReturns,
    AcknowledgedElsewhere, DecidedElsewhere, RefreshedElsewhere, ManifestsChange
<1> QED BY <1>1, <1>2 DEF SurroundingsOk

\* Every variable has its type, and what the model counts stays within what it counts to.
THEOREM SessionTypes == Spec => []TypeOk
<1> DEFINE All == IInv /\ InBounds /\ DimsOk /\ FactsOk /\ SurroundingsOk
<1>1. Init => All
  <2> SUFFICES ASSUME Init PROVE All OBVIOUS
  <2>1. InBounds
    <3>1. /\ said = 0 /\ talk = Silence /\ at = Nobody
          /\ diag = [i \in Items |-> NoDiagnosis]
          /\ \A i \in Items : spec[i].turns = {}
      BY DEF Init, NothingWritten
    <3>2. Cardinality(Drafted) \in Nat BY FeatureSets DEF Drafted
    <3> QED BY <3>1, <3>2, FirstRound, SessionAssumption DEF InBounds, Silence, NoDiagnosis
  <2>2. SurroundingsOk BY DEF Init, SurroundingsOk, Trees
  <2> QED BY <2>1, <2>2, InitInv, InitDims, InitFacts
<1>2. ASSUME All, [Next]_vars PROVE All'
  <2>1. ShapeOk /\ Asked(at) BY <1>2 DEF IInv, ShapeOk
  <2>2. InBounds'
    <3>1. RoundOk(at') BY <1>2, <2>1, RoundsStep DEF InBounds
    <3>2. \A i \in Items : diag'[i].retries <= MaxRetries BY <1>2, <2>1, RetriesStep DEF InBounds
    <3> QED BY <1>2, <3>1, <3>2, TurnsStep DEF InBounds
  <2>3. DimsOk' BY <1>2, <2>1, DimsStep
  <2>4. FactsOk' BY <1>2, FactsGain DEF Gains, FactsOk
  <2> QED BY <1>2, <2>2, <2>3, <2>4, NextInv, SurroundingsStep
<1>3. All => TypeOk
  <2> SUFFICES ASSUME All PROVE TypeOk OBVIOUS
  <2>1. /\ said \in Nat /\ MaxTurns \in Nat /\ said <= MaxTurns /\ 1..said \subseteq 1..MaxTurns
    BY SessionAssumption DEF IInv, ShapeOk, InBounds
  <2>2. spec \in [Items -> [turns : SUBSET (1..MaxTurns), defined : BOOLEAN,
                            decisions : SUBSET (1..MaxTurns), seen : BOOLEAN]]
    BY <2>1 DEF IInv, ShapeOk, Specifications, InBounds, TalkOk
  <2>3. diag \in [Items -> [sig : Signatures \cup {NoSignature}, retries : 0..MaxRetries]]
    BY SessionAssumption DEF IInv, ShapeOk, Diagnoses, InBounds
  <2>4. talk.drafted \in 0..Cardinality(Features)
    <3>1. /\ Cardinality(Features) \in Nat /\ Cardinality(Drafted) \in Nat
          /\ Cardinality(Drafted) <= Cardinality(Features)
      BY FeatureSets DEF Drafted
    <3> QED BY <3>1 DEF IInv, ShapeOk, Talks, InBounds
  <2>5. talk \in [turns : SUBSET (1..MaxTurns), segment : SUBSET (1..MaxTurns),
                  decisions : SUBSET (1..MaxTurns), owns : BOOLEAN,
                  drafted : 0..Cardinality(Features), queue : SUBSET Items]
    BY <2>1, <2>4 DEF IInv, ShapeOk, Talks, InBounds, TalkOk
  <2>6. \A n \in Names : /\ dims[n].state \in DimensionStates /\ dims[n].coveredBy \subseteq Items
                         /\ Len(dims[n].decisions) <= MaxLog
    BY DEF DimsOk, DimensionRecords
  <2>7. \A f \in Fields : facts[f].kind \in {"none", "inferred", "detected", "confirmed"}
    BY DEF FactsOk, FactOk, FactKinds
  <2>8. at.i \in Items \cup {0} /\ at.round \in 1..MAX_ROUNDS_PER_ITEM
    BY DEF IInv, ShapeOk, Asked, Prompts, InBounds, RoundOk
  <2>9. doc \in [Items -> StateDocuments] /\ filed \in [Fixes -> Items \cup {0}]
    BY DEF IInv, ShapeOk
  <2>10. flight \in [i : Items, step : Steps, task : Nat] \cup {NoFlight} /\ overtaken \subseteq Items
    BY DEF IInv, FlightOk
  <2> QED BY <2>1, <2>2, <2>3, <2>5, <2>6, <2>7, <2>8, <2>9, <2>10 DEF TypeOk, SurroundingsOk
<1> QED BY <1>1, <1>2, <1>3, PTL DEF Spec
=============================================================================
