------------------------ MODULE SpecificationSession ------------------------
(***************************************************************************)
(* A person at a prompt: the interactive session (session/session.ts and   *)
(* the commands of session/commands.ts), `compassrose brainstorm` and      *)
(* `compassrose feature-validation`, with what each writes to the state    *)
(* documents, definitions, coverage checklist, project facts and recovery  *)
(* diagnoses.  Every answer is one step, so what other terminals do falls  *)
(* between a question and its answer.                                      *)
(*                                                                         *)
(* A turn is the number of a human message.  Assistant replies, titles,    *)
(* wording and commits are left out.  Any id may be typed, so `the item in *)
(* focus' and `the only candidate', which stand in for a missing id, add   *)
(* nothing.  Features are numbered before fixes, as listings give them.    *)
(***************************************************************************)
EXTENDS StateDocument, Dimensions, ProjectFacts, FiniteSets, FiniteSetsExt

CONSTANTS
  Features, Fixes,              \* item numbers
  Fronts,                       \* entry points a person starts
  Situations,                   \* commands used in one behaviour, documents it starts with
  MAX_ROUNDS_PER_ITEM,          \* validation rounds, 25
  MAX_TURNS_PER_FEATURE_IDEA,   \* turns the brainstorm front answers per idea, 25
  MAX_FEATURES_PER_SESSION,     \* ideas it drafts, 25
  MAX_RECOVERY_RETRIES,         \* 3
  MaxTurns,                     \* bound: human messages in one behaviour
  MaxLog,                       \* bound: decisions about one dimension
  MaxRetries,                   \* bound: the retry counter of a diagnosis
  MaxTaskDepth,                 \* bound: task numbers, corrections of corrections
  Takes,                        \* bound: the steps a run takes, each with its item
  Guesses                       \* purposes the analyst may infer

Items == Features \cup Fixes

\* What a run is in the middle of with an item.
Steps == {"plan", "complete", "implement", "review", "diagnose"}

Anchored(t) ==
  /\ t.lc \in Executing \cup Failed => t.task # NoTask
  /\ t.lc = "correction_pending" => t.corr # NoTask

\* A document the loop leaves behind: it has the anchor its state needs, and so has what it
\* is restored to.
Sound(s) ==
  s \in StateDocuments /\ ~MissingPointer(s) /\ Anchored(preferredRestorationTarget(s))

\* What nobody confirmed is neither underway nor suspended.
Idle(s) ==
  s.val # "confirmed" =>
    s.lc \in {"absent"} \cup PendingSpecification \cup Planning /\ s.from = NoTarget

ASSUME SessionAssumption ==
  /\ IsFiniteSet(Items) /\ Items \subseteq Nat \ {0} /\ Features \cap Fixes = {}
  /\ Fronts \subseteq {"session", "brainstorm", "feature-validation"}
  /\ \A situation \in Situations :
       /\ situation.uses \subseteq {"talk", "specify", "validate", "recover", "report",
                                  "loop", "elsewhere", "checklist", "facts"}
       /\ situation.docs \in [Items -> StateDocuments]
       /\ \A i \in Items :
            /\ Sound(situation.docs[i]) /\ Idle(situation.docs[i])
            /\ situation.docs[i].onFix = NoFix
            /\ situation.docs[i].lc \in {"absent", "request_pending"} =>
                 situation.docs[i].val # "confirmed"
  /\ Takes \subseteq Items \X Steps
  /\ {MAX_ROUNDS_PER_ITEM, MAX_TURNS_PER_FEATURE_IDEA, MAX_FEATURES_PER_SESSION,
      MAX_RECOVERY_RETRIES, MaxTurns, MaxLog, MaxRetries, MaxTaskDepth} \subseteq Nat \ {0}

VARIABLES
  doc,    \* state documents
  spec,   \* request and definition of each item
  diag,   \* recovery-diagnoses/<id>.json
  filed,  \* the item a conversation filed each fix for: the fix's signature
  dims,   \* DIMENSIONS.md
  facts,  \* PROJECT_FACTS.md
  tree,   \* the repository's own files
  front,  \* which entry point runs, `none` when nobody is there
  talk,   \* what it holds in memory and writes nowhere until asked to
  at,     \* the prompt it waits at
  closed, \* its standard input has ended
  said,   \* human messages so far
  uses,   \* the commands used in this behaviour
  flight, \* the step a run is taking: its item, what it does, the task it has in mind
  overtaken \* the items a step returned to after their confirmation had been taken back

vars == <<doc, spec, diag, filed, dims, facts, tree, front, talk, at, closed, said, uses,
          flight, overtaken>>
items == <<doc, spec, diag, filed>>
lists == <<dims, facts, tree>>
others == <<front, closed, said, uses, flight, overtaken>>

NoSignature == [kind |-> "none"]
NoDiagnosis == [sig |-> NoSignature, retries |-> 0]

\* request.md holds human turns; the definition holds its provenance.  `seen` says a person
\* confirmed the definition as it stands.
NothingWritten == [turns |-> {}, defined |-> FALSE, decisions |-> {}, seen |-> FALSE]

NoFlight == [i |-> 0, step |-> "none", task |-> NoTask]

Silence == [turns |-> {}, segment |-> {}, decisions |-> {}, owns |-> TRUE,
            drafted |-> 0, queue |-> {}]

\* The question asked: which, about which item, offering which names, in which validation
\* round, with the retry exit or without.
Prompt(p, i) == [p |-> p, i |-> i, names |-> {}, round |-> 1, retry |-> FALSE]
Main   == Prompt("main", 0)
Nobody == Prompt("nobody", 0)
Offering(p, i, names) == [Prompt(p, i) EXCEPT !.names = names]

Init ==
  /\ \E situation \in Situations : doc = situation.docs /\ uses = situation.uses
  /\ spec = [i \in Items |->
       IF doc[i].lc \in {"absent", "request_pending"} THEN NothingWritten
       ELSE [NothingWritten EXCEPT !.defined = TRUE, !.seen = doc[i].val = "confirmed"]]
  /\ diag = [i \in Items |-> NoDiagnosis]
  /\ filed = [f \in Fixes |-> 0]
  /\ dims = StarterDimensions
  /\ tree = [files |-> [f \in Files |-> 0], layout |-> FALSE]
  /\ facts = EMPTY_PROJECT_FACTS
  /\ front = "none" /\ talk = Silence /\ at = Nobody /\ closed = FALSE /\ said = 0
  /\ flight = NoFlight /\ overtaken = {}

(***************************************************************************)
(* What the session reads of the work items.                               *)
(***************************************************************************)

\* Inspecting an item that waits on a completed fix writes its resumption.
Inspect(d, i) ==
  IF /\ d[i].lc = "blocked" /\ d[i].onFix # NoFix
     /\ d[i].onFix \in Fixes /\ d[d[i].onFix].lc = "completed"
  THEN AfterFixResolved(d[i]) ELSE d[i]

\* Every listing inspects, and so may resume, every item.
Inspected == [i \in Items |-> Inspect(doc, i)]

OfKind(d, kinds) == {i \in Items : WorkItemInspectionKind(d[i]) \in kinds}

listWorkItemsPendingSpecification(d) == OfKind(d, PendingSpecification)
listFeaturesAwaitingValidation(d)    == OfKind(d, {"awaiting_validation"})
listHumanBlockedWorkItems(d)         == OfKind(d, {"blocked_on_human"})
listBlockedWorkItems(d) == {i \in Items : d[i].lc \in {"blocked", "review_failed"}}

Existing(d) == {i \in Items : d[i].lc # "absent"}

(***************************************************************************)
(* Where an answer leads.                                                  *)
(***************************************************************************)
AtPrompt(p) == at.p = p
Can(use)    == use \in uses
Typed(p)    == AtPrompt(p) /\ ~closed

\* A command typed at the session's own prompt.
Command(use) == Typed("main") /\ front = "session" /\ Can(use)

\* What is asked once an item is done with: the next one queued, or the conversation; the
\* brainstorm front stops at its ceiling, feature-validation when its queue is empty.
Onward(tk) ==
  IF tk.queue # {} THEN Prompt("validate", Min(tk.queue))
  ELSE IF \/ front = "feature-validation"
          \/ front = "brainstorm" /\ tk.drafted >= MAX_FEATURES_PER_SESSION
       THEN Nobody ELSE Main

\* The session prints a command's error and asks again; the other fronts exit with it.
Thrown == IF front = "session" THEN Main ELSE Nobody

Ask(prompt) == at' = prompt /\ UNCHANGED <<items, lists, talk, others>>

(***************************************************************************)
(* Starting and leaving.                                                   *)
(***************************************************************************)

\* Declaring who owns what is asked when something is pending; only whether the person owns
\* any axis at all matters later.  End of input keeps the default, which owns product.
StartSession ==
  /\ at = Nobody /\ "session" \in Fronts
  /\ doc' = Inspected
  /\ \E owns \in BOOLEAN :
       /\ \/ owns
          \/ listWorkItemsPendingSpecification(doc') # {}
          \/ listFeaturesAwaitingValidation(doc') # {}
       /\ talk' = [Silence EXCEPT !.owns = owns]
  /\ front' = "session" /\ closed' = FALSE /\ at' = Main
  /\ UNCHANGED <<spec, diag, filed, lists, said, uses, flight, overtaken>>

\* The other two fronts first go through everything awaiting validation.
StartOtherFront ==
  /\ at = Nobody
  /\ front' \in Fronts \ {"session"}
  /\ doc' = Inspected
  /\ LET pending == listFeaturesAwaitingValidation(doc')
     IN  /\ talk' = [Silence EXCEPT !.queue = pending]
         /\ at' = IF pending # {} THEN Prompt("validate", Min(pending))
                  ELSE IF front' = "brainstorm" THEN Main ELSE Nobody
  /\ closed' = FALSE
  /\ UNCHANGED <<spec, diag, filed, lists, said, uses, flight, overtaken>>

\* /salir, `terminado`.
Leave == Typed("main") /\ Ask(Nobody)

CloseInput == at # Nobody /\ ~closed /\ closed' = TRUE
              /\ UNCHANGED <<items, lists, talk, at, front, said, uses, flight, overtaken>>

\* Seeded fault: the prompt loop takes the end of input for an empty line.
KeepAskingAtEof ==
  /\ closed /\ at # Nobody /\ (front = "session" => AtPrompt("main"))
  /\ Ask(IF front = "session" THEN Main ELSE Nobody)

\* At its main prompt the session takes end of input as the person leaving.  The other
\* fronts wait for an answer that cannot come, and the process exits with nothing to do.
LeaveAtEof ==
  /\ closed /\ at # Nobody /\ (front = "session" => AtPrompt("main"))
  /\ Ask(Nobody)

(***************************************************************************)
(* Conversation.                                                           *)
(***************************************************************************)

\* One more human turn, in the transcript and in the idea under discussion.
Spoken(tk) == [tk EXCEPT !.turns = @ \cup {said + 1}, !.segment = @ \cup {said + 1}]

\* What follows a model's turn: a dimension it noticed, or the next line.
AfterTurn(names) == IF names = {} THEN Main ELSE Offering("dimension", 0, names)

\* The turn is kept before the model is asked.  Over the ceiling it is not asked; a failed
\* call leaves the process; a reply may bring a decision, a dimension, or both.
Converse ==
  /\ Typed("main") /\ front # "feature-validation" /\ Can("talk") /\ said < MaxTurns
  /\ talk' = Spoken(talk) /\ said' = said + 1
  /\ IF front = "brainstorm" /\ Cardinality(talk'.segment) > MAX_TURNS_PER_FEATURE_IDEA
     THEN at' = Main
     ELSE \E names \in {{}} \cup {{n} : n \in Names} :
            at' \in {Nobody, AfterTurn(names), Offering("decision", 0, names)}
  /\ UNCHANGED <<items, lists, front, closed, uses, flight, overtaken>>

\* A number picks an option; anything else, end of input included, picks the agent's.
\* Either way it becomes a human turn and a decision to record -- unless the agent
\* recommended an option it did not list.
TakeDecision ==
  /\ AtPrompt("decision") /\ (closed => front = "session")
  /\ \/ /\ said < MaxTurns
        /\ talk' = [Spoken(talk) EXCEPT !.decisions = @ \cup {said + 1}]
        /\ said' = said + 1
     \/ UNCHANGED <<talk, said>>
  /\ at' = AfterTurn(at.names)
  /\ UNCHANGED <<items, lists, front, closed, uses, flight, overtaken>>

\* The checklist as the next reading finds it.
Readable == parseDimensionsDocument(dims)

RoomFor(n) == Len(dims[n].decisions) < MaxLog

ConsiderDimension ==
  /\ AtPrompt("dimension") /\ (closed => front = "session")
  /\ \E n \in at.names :
       \/ UNCHANGED dims
       \/ ~closed /\ \E by \in Authors, oneLine \in BOOLEAN :
            dims' = proposeDimension(Readable, n, by, oneLine)
  /\ at' = Main
  /\ UNCHANGED <<items, facts, tree, talk, others>>

(***************************************************************************)
(* From an idea, or a request already there, to a specification.           *)
(***************************************************************************)

\* Seeded fault: re-specifying keeps the validation the earlier version had.
FormalizedKeepingValidation(s) == [Formalized EXCEPT !.val = s.val]

\* planFeature and planFixRequest: definition and state document written anew.
planned(s) == Formalized

\* The definition is rewritten, and with it the provenance it carried.
Redefined(sp) == [sp EXCEPT !.defined = TRUE, !.decisions = {}, !.seen = FALSE]

\* Seeded fault: decisions stay for the next specification too.
DecisionsKept(tk) == tk

DecisionsWritten(tk) == [tk EXCEPT !.decisions = {}]

\* The audit is asked for only when the person owns an axis, and may fail: the decisions
\* are then neither recorded nor forgotten.  Recording them replaces the section.  What the
\* checklist still lists is asked about before the item is validated.
RecordProvenance(i, sp, tk) ==
  \/ /\ tk.owns
     /\ spec' = sp /\ talk' = tk /\ at' = Thrown
  \/ /\ spec' = [sp EXCEPT ![i].decisions = tk.decisions]
     /\ talk' = DecisionsWritten(tk)
     /\ at' = IF uncovered(Readable) = {} THEN Prompt("validate", i)
              ELSE Offering("cover", i, uncovered(Readable))

\* /crear with a request nobody has specified.  The conversation stays the idea under
\* discussion.
CreateFromRequest ==
  /\ Command("specify")
  /\ \E i \in listWorkItemsPendingSpecification(Inspected) :
       \/ /\ doc' = Inspected /\ at' = Main /\ UNCHANGED <<spec, talk, overtaken>>
       \/ /\ doc' = [Inspected EXCEPT ![i] = planned(@)]
          /\ RecordProvenance(i, [spec EXCEPT ![i] = Redefined(@)], talk)
          /\ overtaken' = overtaken \ {i}
  /\ UNCHANGED <<diag, filed, lists, front, closed, said, uses, flight>>

nextFeatureId(d) == 1 + Max({0} \cup (Features \cap Existing(d)))

\* Seeded fault: the idea is reset before it is written down.
TurnsBeforeThisIdea(tk) == tk.turns \ tk.segment

\* What request.md is made of: everything said in the session, or, in the brainstorm front,
\* the idea alone.
TurnsToWrite(tk) == IF front = "session" THEN tk.turns ELSE tk.segment

\* /crear, or `crear`, with something said: the request is written first, then formalized.
\* When that fails the request stays behind and the idea stays under discussion.
CreateFromIdea ==
  /\ Typed("main") /\ front # "feature-validation" /\ Can("talk") /\ talk.segment # {}
  /\ LET d == IF front = "session" THEN Inspected ELSE doc
         f == nextFeatureId(d)
         written == [spec EXCEPT ![f] = [NothingWritten EXCEPT !.turns = TurnsToWrite(talk)]]
     IN  /\ f \in Features
         /\ \/ /\ doc' = [d EXCEPT ![f] = Blank("request_pending")]
               /\ spec' = written /\ at' = Thrown /\ UNCHANGED talk
            \/ /\ doc' = [d EXCEPT ![f] = planned(Blank("request_pending"))]
               /\ RecordProvenance(f, [written EXCEPT ![f] = Redefined(@)],
                                   [talk EXCEPT !.segment = {}, !.drafted = @ + 1])
  /\ UNCHANGED <<diag, filed, lists, others>>

\* Which of the dimensions listed before the question the item covers.
Cover ==
  /\ AtPrompt("cover") /\ (closed => front = "session")
  /\ \E ns \in IF closed THEN {{}} ELSE SUBSET at.names : \E by \in Authors :
       /\ \A n \in ns : RoomFor(n)
       /\ dims' = IF ns = {} THEN dims ELSE MarkAllCovered(Readable, ns, at.i, by)
  /\ at' = Prompt("validate", at.i)
  /\ UNCHANGED <<items, facts, tree, talk, others>>

(***************************************************************************)
(* Validation.                                                             *)
(***************************************************************************)

\* /listo: any item may be named once one is awaiting validation.
Listo ==
  /\ Command("validate")
  /\ doc' = Inspected
  /\ \/ at' = Main
     \/ /\ listFeaturesAwaitingValidation(doc') # {}
        /\ \E i \in Existing(doc') : at' = Prompt("validate", i)
  /\ UNCHANGED <<spec, diag, filed, lists, talk, others>>

Dequeued(tk) == [tk EXCEPT !.queue = @ \ {at.i}]

\* "listo" confirms whatever the item is by now; without a definition nothing is written.
ConfirmValidation ==
  /\ Typed("validate")
  /\ IF spec[at.i].defined
     THEN /\ doc' = [doc EXCEPT ![at.i] = Validated(@)]
          /\ spec' = [spec EXCEPT ![at.i].seen = TRUE]
          /\ overtaken' = overtaken \ {at.i}
          /\ talk' = Dequeued(talk) /\ at' = Onward(talk')
     ELSE at' = Thrown /\ UNCHANGED <<doc, spec, talk, overtaken>>
  /\ UNCHANGED <<diag, filed, lists, front, closed, said, uses, flight>>

\* Seeded fault: one round more than the ceiling.
OneMoreRound(round) == round <= MAX_ROUNDS_PER_ITEM

AnotherRound(round) == round < MAX_ROUNDS_PER_ITEM

\* Every point of a round answered otherwise: the next round, or the end of the loop.
NextRound ==
  /\ AtPrompt("validate") /\ (closed => front = "session")
  /\ IF AnotherRound(at.round)
     THEN at' = [at EXCEPT !.round = @ + 1] /\ UNCHANGED talk
     ELSE talk' = Dequeued(talk) /\ at' = Onward(talk')
  /\ UNCHANGED <<items, lists, others>>

\* The validator cannot be asked.
RoundFails == AtPrompt("validate") /\ Ask(Thrown)

(***************************************************************************)
(* A blocked item.                                                         *)
(***************************************************************************)

\* Retries of the problem the item is blocked on now; another problem starts at zero.
recoveryRetriesTaken(i, dg, s) ==
  IF s.by # NoBlocker /\ dg[i].sig = Signature(s.by) THEN dg[i].retries ELSE 0

\* Seeded fault: one more than the ceiling.
OneMoreRetry(taken) == taken <= MAX_RECOVERY_RETRIES

availableRetry(taken) == taken < MAX_RECOVERY_RETRIES

\* The diagnosis kept for this problem, or a fresh one; none when the agent cannot be asked
\* or no blocker is on record, and the exits are offered all the same.
Diagnosed(i, s) ==
  IF s.by = NoBlocker THEN {diag[i]}
  ELSE IF diag[i].sig = Signature(s.by) THEN {diag[i]}
  ELSE {diag[i], [sig |-> Signature(s.by), retries |-> 0]}

\* /desbloquear: any blocked item may be named once one waits for a person.
Desbloquear ==
  /\ Command("recover")
  /\ doc' = Inspected
  /\ \/ at' = Main /\ UNCHANGED diag
     \/ /\ listHumanBlockedWorkItems(doc') # {}
        /\ \E i \in listBlockedWorkItems(doc') : \E kept \in Diagnosed(i, doc'[i]) :
             /\ diag' = [diag EXCEPT ![i] = kept]
             /\ at' = [Prompt("exits", i) EXCEPT
                         !.retry = availableRetry(recoveryRetriesTaken(i, diag', doc'[i]))]
  /\ UNCHANGED <<spec, filed, lists, talk, others>>

\* The exit a person picks by number; anything else, or end of input, leaves it blocked.
OfferExits ==
  /\ AtPrompt("exits")
  /\ \/ Ask(Main)
     \/ /\ ~closed
        /\ \E exit \in {"retry", "correct", "title", "resolve"} :
             /\ exit = "retry" => at.retry
             /\ exit = "title" => Can("report")
             /\ Ask(Prompt(exit, at.i))

\* What a later question needs typed; otherwise the exit is cancelled.  Free text may be
\* the end-of-input sentinel: only an empty answer cancels those.
Cancel == at.p \in {"retry", "correct", "reason", "title", "description", "resolve"} /\ Ask(Main)

Proceed ==
  \/ Typed("correct")  /\ Ask(Prompt("reason", at.i))
  \/ AtPrompt("title") /\ Ask(Prompt("description", at.i))

\* retry: back to where it was suspended, and one more retry on whatever diagnosis is kept.
retryWithContext ==
  /\ AtPrompt("retry")
  /\ doc' = [doc EXCEPT ![at.i] = AfterHumanAcknowledged(@)]
  /\ diag' = IF diag[at.i].sig = NoSignature THEN diag
             ELSE [diag EXCEPT ![at.i].retries = @ + 1]
  /\ diag'[at.i].retries <= MaxRetries
  /\ at' = Main /\ UNCHANGED <<spec, filed, lists, talk, others>>

\* correct_specification: back to a person, whatever the item is by now, without its
\* diagnosis.  The definition stays in place until the item is specified again, and is no
\* longer confirmed.
correctSpecification ==
  /\ AtPrompt("reason")
  /\ doc' = [doc EXCEPT ![at.i] = SpecificationInvalidated(@)]
  /\ spec' = [spec EXCEPT ![at.i].seen = FALSE]
  /\ diag' = [diag EXCEPT ![at.i] = NoDiagnosis]
  /\ overtaken' = overtaken \ {at.i}
  /\ at' = Main
  /\ UNCHANGED <<filed, lists, talk, front, closed, said, uses, flight>>

\* Seeded fault: the fix is signed by what is broken, not by who reported it.
FixReportedByAnyone(i) == {f \in Fixes : filed[f] # 0}

\* A fix this item already has under the same title; its own state does not matter.
FixFiledFor(i) == {f \in Fixes : filed[f] = i}

nextFixId == {1 + Max({0} \cup Features \cup (Fixes \cap Existing(doc)))} \cap Fixes

\* open_fix: the fix found or filed, already startable, becomes what the item waits on.
openFixFromConversation ==
  /\ AtPrompt("description")
  /\ \E f \in FixFiledFor(at.i) \cup nextFixId :
       /\ doc' = [[doc EXCEPT ![f] = IF @.lc = "absent" THEN Filed ELSE @]
                    EXCEPT ![at.i] = [@ EXCEPT !.onFix = f, !.ack = FALSE]]
       /\ IF doc[f].lc = "absent"
          THEN /\ filed' = [filed EXCEPT ![f] = at.i]
               /\ spec' = [spec EXCEPT ![f].defined = TRUE]
          ELSE UNCHANGED <<filed, spec>>
  /\ at' = Main /\ UNCHANGED <<diag, lists, talk, others>>

\* Resumed when a person still has to acknowledge it; otherwise an error, once inspected.
Acknowledged(d, i) ==
  IF WorkItemInspectionKind(d[i]) = "blocked_on_human"
  THEN AfterHumanAcknowledged(d[i]) ELSE Inspect(d, i)

\* resolve_by_hand.
acknowledgeBlocker ==
  /\ Typed("resolve")
  /\ doc' = [doc EXCEPT ![at.i] = Acknowledged(doc, at.i)]
  /\ at' = Main /\ UNCHANGED <<spec, diag, filed, lists, talk, others>>

(***************************************************************************)
(* The loop, run from the session or from another terminal, and what else  *)
(* another terminal does.                                                  *)
(***************************************************************************)

\* What a run does next with an item inspected as s: the step and the task it keeps in mind.
Due(s, i) ==
  LET kind == WorkItemInspectionKind(s)
      step(name, t) == [i |-> i, step |-> name, task |-> t]
  IN  CASE kind \in Planning ->
             {step("plan", 1)} \cup IF i \in Features THEN {step("complete", NoTask)} ELSE {}
        [] kind \in {"task_ready", "implementation_running"}   -> {step("implement", s.task)}
        [] kind = "correction_pending"                         -> {step("implement", s.corr)}
        [] kind \in {"review_pending", "quality_gates_pending"} -> {step("review", s.task)}
        [] OTHER                                               -> {step("diagnose", NoTask)}

\* Only an implementation is recorded before it is done.
HandedOver(s, w) == IF w.step = "implement" THEN DuringImplementation(s, w.task) ELSE s

\* Seeded fault: the task is read off the document again when the step returns.
WithTaskAsRead(s, w) == s

\* A writer reads the document again, and names the task it was called with.
WithTask(s, w) == [s EXCEPT !.task = w.task]

\* The block recorded when step w cannot go on; a diagnosis asks for a person.
BlockedBy(s, w, why) ==
  [ForBlocked(s, Profile(s, "other", "human", why), "blocked")
     EXCEPT !.ack = @ \/ w.step = "diagnose"]

\* What step w writes over document s when it returns.  What else it may leave -- a waived
\* gate, a fix filed by the runtime, a repaired state -- WorkItemLoop has.
Results(s, w) ==
  CASE w.step = "plan"      -> {ForTaskPlan(s, w.task), BlockedBy(s, w, "plan")}
    [] w.step = "complete"  -> {AfterCompletion(s), BlockedBy(s, w, "unfinished")}
    [] w.step = "implement" -> {AfterImplementationFailure(WithTask(s, w)),
                                AfterGatesPassed(WithTask(s, w)),
                                AfterGatesFailed(WithTask(s, w), "agent")}
    [] w.step = "review"    ->
         {AfterApprovedReview(s), BlockedBy(s, w, "review"),
          ForBlocked(s, Profile(s, "other", "agent", "review"), "review_failed")}
           \cup IF w.task < MaxTaskDepth
                THEN {ForCorrection(WithTask(s, w), w.task + 1)} ELSE {}
    [] OTHER                -> {BlockedBy(s, w, "conversation")}

\* A run takes a step: /run in the session, which waits for it, or another terminal's,
\* which goes on while this one is at a prompt.
StepBegins ==
  /\ Can("loop") /\ flight = NoFlight
  /\ \/ Command("loop") /\ at' = Prompt("running", 0)
     \/ Can("elsewhere") /\ UNCHANGED at
  /\ \E i \in {j \in Items : isStartable(Inspected[j]) \/ isContinuing(Inspected[j])} :
       /\ flight' \in {w \in Due(Inspected[i], i) : <<w.i, w.step>> \in Takes}
       /\ doc' = [Inspected EXCEPT ![i] = HandedOver(@, flight')]
  /\ UNCHANGED <<spec, diag, filed, lists, talk, front, closed, said, uses, overtaken>>

\* The step returns: its result is written over whatever the item has become, or nothing is
\* when it was stopped.
StepReturns ==
  LET i == flight.i
  IN  /\ flight # NoFlight
      /\ \/ UNCHANGED <<doc, overtaken>>
         \/ /\ \E s \in Results(doc[i], flight) : doc' = [doc EXCEPT ![i] = s]
            /\ overtaken' =
                 IF doc[i].val = "confirmed" THEN overtaken ELSE overtaken \cup {i}
      /\ flight' = NoFlight
      /\ at' = IF AtPrompt("running") THEN Main ELSE at
      /\ UNCHANGED <<spec, diag, filed, lists, talk, front, closed, said, uses>>

\* acknowledge-blocker, its question answered "listo".
AcknowledgedElsewhere ==
  /\ Can("recover") /\ Can("elsewhere")
  /\ \E i \in listHumanBlockedWorkItems(doc) :
       doc' = [Inspected EXCEPT ![i] = Acknowledged(doc, i)]
  /\ UNCHANGED <<spec, diag, filed, lists, talk, at, others>>

(***************************************************************************)
(* The coverage checklist and the project's facts.                         *)
(***************************************************************************)

\* /descartar with a reason -- any text, the end-of-input sentinel included -- and /reabrir.
\* A name is compared exactly and need not be listed.
DecideOn(n, state, by) ==
  /\ RoomFor(n)
  /\ dims' = decideDimension(Readable, n, state, by)
  /\ UNCHANGED <<items, facts, tree, talk, others>>

Descartar ==
  /\ Command("checklist")
  /\ \E n \in Names : Ask(Offering("why", 0, {n}))

\* No reason given.
KeepInScope == AtPrompt("why") /\ Ask(Main)

Discard ==
  /\ AtPrompt("why")
  /\ \E n \in at.names : \E by \in Authors : DecideOn(n, "out_of_scope", by)
  /\ at' = Main

Reabrir ==
  /\ Command("checklist")
  /\ \E n \in Names : \E by \in Authors : DecideOn(n, "uncovered", by)
  /\ UNCHANGED at

\* Somebody else's session decides while this one is at a question.
DecidedElsewhere ==
  /\ Can("checklist") /\ Can("elsewhere")
  /\ \E n \in Names : \E by \in Authors : DecideOn(n, "out_of_scope", by)
  /\ UNCHANGED at

\* Somebody edits, adds or removes a manifest.
ManifestsChange ==
  /\ Can("facts") /\ tree' \in Trees
  /\ UNCHANGED <<items, dims, facts, talk, at, others>>

\* Every operation on the facts reads the document, and writes it whole.
RecordedFacts == parseProjectFactsDocument(facts)

refreshProjectFacts == mergeDetectedFacts(RecordedFacts, detectProjectFacts(tree))

Proyecto ==
  /\ Command("facts")
  /\ facts' = refreshProjectFacts
  /\ UNCHANGED <<items, dims, tree, talk, at, others>>

\* /proyecto inferir refreshes first, and reads that again to write a guess into; the analyst
\* may fail or have none.
inferProjectGaps ==
  /\ Command("facts")
  /\ LET read == parseProjectFactsDocument(refreshProjectFacts)
     IN  \/ facts' = refreshProjectFacts
         \/ /\ TakesInference(read)
            /\ \E guess \in Guesses : facts' = WithInferredPurpose(read, guess)
  /\ UNCHANGED <<items, dims, tree, talk, at, others>>

\* /proyecto confirmar lists what nobody vouched for ...
Confirmar ==
  /\ Command("facts") /\ unconfirmedProjectFacts(RecordedFacts) # {}
  /\ Ask(Offering("facts", 0, unconfirmedProjectFacts(RecordedFacts)))

\* ... and promotes those a person picks, with whatever value is read by then; one that is
\* no longer recorded ends it.
ConfirmFacts ==
  /\ AtPrompt("facts")
  /\ \/ UNCHANGED facts
     \/ ~closed /\ \E chosen \in (SUBSET at.names) \ {{}} :
          facts' = [f \in Fields |->
                      IF f \in chosen THEN confirmFact(RecordedFacts, f)[f] ELSE RecordedFacts[f]]
  /\ at' = Main
  /\ UNCHANGED <<items, dims, tree, talk, others>>

RefreshedElsewhere ==
  /\ Can("facts") /\ Can("elsewhere")
  /\ facts' = refreshProjectFacts
  /\ UNCHANGED <<items, dims, tree, talk, at, others>>

(***************************************************************************)
(* The specification.                                                      *)
(***************************************************************************)

\* What the process itself does next, as against what is typed, run or edited meanwhile.
Answered ==
  \/ LeaveAtEof \/ Converse \/ TakeDecision \/ ConsiderDimension
  \/ CreateFromRequest \/ CreateFromIdea \/ Cover
  \/ Listo \/ ConfirmValidation \/ NextRound \/ RoundFails
  \/ Desbloquear \/ OfferExits \/ Cancel \/ Proceed
  \/ retryWithContext \/ correctSpecification \/ openFixFromConversation \/ acknowledgeBlocker
  \/ Descartar \/ KeepInScope \/ Discard \/ Reabrir
  \/ Proyecto \/ inferProjectGaps \/ Confirmar \/ ConfirmFacts
  \/ (AtPrompt("running") /\ StepReturns)

Next ==
  \/ StartSession \/ StartOtherFront \/ Leave \/ CloseInput
  \/ Answered
  \/ StepBegins \/ StepReturns \/ AcknowledgedElsewhere \/ DecidedElsewhere \/ RefreshedElsewhere
  \/ ManifestsChange

\* A person may leave a question unanswered for ever; end of input answers every question.
Spec == Init /\ [][Next]_vars /\ WF_vars(closed /\ Answered)

(***************************************************************************)
(* Properties.                                                             *)
(***************************************************************************)

\* Every variable has its type.
TypeOk ==
  /\ doc \in [Items -> StateDocuments]
  /\ spec \in [Items -> [turns : SUBSET (1..MaxTurns), defined : BOOLEAN,
                         decisions : SUBSET (1..MaxTurns), seen : BOOLEAN]]
  /\ diag \in [Items -> [sig : Signatures \cup {NoSignature}, retries : 0..MaxRetries]]
  /\ filed \in [Fixes -> Items \cup {0}]
  /\ \A n \in Names : /\ dims[n].state \in DimensionStates
                      /\ dims[n].coveredBy \subseteq Items
                      /\ Len(dims[n].decisions) <= MaxLog
  /\ \A f \in Fields : facts[f].kind \in {"none", "inferred", "detected", "confirmed"}
  /\ tree \in Trees
  /\ front \in Fronts \cup {"none"} /\ closed \in BOOLEAN /\ said \in 0..MaxTurns
  /\ \E situation \in Situations : uses = situation.uses
  /\ talk \in [turns : SUBSET (1..MaxTurns), segment : SUBSET (1..MaxTurns),
               decisions : SUBSET (1..MaxTurns), owns : BOOLEAN,
               drafted : 0..Cardinality(Features), queue : SUBSET Items]
  /\ at.i \in Items \cup {0} /\ at.round \in 1..MAX_ROUNDS_PER_ITEM
  /\ flight \in [i : Items, step : Steps, task : Nat] \cup {NoFlight}
  /\ overtaken \subseteq Items

Underway(s) ==
  WorkItemInspectionKind(s) \in Planning \cup Executing \cup Failed \cup {"correction_pending"}

\* No requested item is planned or worked on under a definition no person confirmed as it
\* stands, however it was specified, invalidated, specified again, blocked and resumed
\* between the two -- until a step that was in flight when the confirmation was taken back
\* returns and puts the item back to work.  From then on only a new specification or a new
\* confirmation makes it good.  A fix filed from a conversation is exempt.
WorkedOnWasConfirmed ==
  \A i \in Items \ overtaken :
    (i \in Fixes => filed[i] = 0) /\ Underway(doc[i]) => spec[i].seen

\* While a person is there, everything they said is in some request.md or still under
\* discussion: no failure of planning, audit or validation loses a turn.
TurnsAreKept ==
  at # Nobody =>
    talk.turns \subseteq talk.segment \cup UNION {spec[i].turns : i \in Items}

\* A decision a person or the agent took is recorded in the provenance of at most one
\* specification, and no longer carried to the next once it is.
DecisionsHaveOneHome ==
  \A i \in Items :
    /\ at # Nobody => spec[i].decisions \cap talk.decisions = {}
    /\ \A j \in Items \ {i} : spec[i].decisions \cap spec[j].decisions = {}

\* Whatever exit is taken, and whatever happened to the item while the question stood, no
\* item is left in a state that needs a task it does not name.
NothingMalformed == \A i \in Items : WorkItemInspectionKind(doc[i]) # "malformed"

\* Two items never wait on one fix opened from a conversation: the same words about two
\* items are two reports.
WaitsOnOwnFix ==
  \A i, j \in Items : doc[i].onFix # NoFix /\ doc[i].onFix = doc[j].onFix => i = j

SameProblem(i) ==
  doc[i].by # NoBlocker /\ diag[i].sig = Signature(doc[i].by)

\* In one terminal, a retry of the problem a diagnosis is kept for is never the fourth,
\* across sessions, blocks and resumptions.
NoFourthRetry ==
  [][\A i \in Items :
       (~Can("elsewhere") /\ SameProblem(i) /\ diag'[i].retries > diag[i].retries)
         => diag[i].retries < MAX_RECOVERY_RETRIES]_vars

\* No decision about a dimension that the document can be read back with is ever rewritten or
\* dropped, whoever decides next, in whichever session.
DecisionsAreKept ==
  [][\A n \in Names : IsPrefix(Legible(dims[n].decisions), Legible(dims'[n].decisions))]_vars

\* A fact a person confirmed keeps its value, whatever the repository says afterwards.  Any
\* other never loses standing, unless its value, or the one detected now, cannot be read back.
FactsOnlyGainStanding ==
  [][\A f \in Fields :
       /\ facts[f].kind = "confirmed" => facts'[f] = facts[f]
       /\ \/ Rank(facts'[f].kind) >= Rank(facts[f].kind)
          \/ {facts[f].value, detectProjectFacts(tree)[f].value} \cap Unreadable # {}]_vars

\* A session whose input has ended comes to an end, whatever it was asking.
EndOfInputEndsIt == closed ~> at = Nobody
=============================================================================
