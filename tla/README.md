# A TLA+ model of the CompassRose development loop

CompassRose runs AI agents over a repository: a person specifies *features* and *fixes* in
conversation, and an automated loop plans one task at a time, has it implemented, runs quality
gates, has it reviewed, corrects, blocks, diagnoses and resumes. Everything it knows about a work
item is one Markdown file, `state.md`, that every step reads and rewrites. This directory models
that state machine, the files and commits a step leaves behind, the session a person specifies and
recovers work in, and the supervision of a run. It checks them with TLC, and proves with TLAPS every
safety property that a passing run checks (four of them for a Doctor that keeps to its prompt, see the proofs).

Unless a path is given, line numbers below are those of `src/src/orchestrator/orchestrator.ts`.

## Inventory

| Component | State it keeps | Operations | What must be true of it |
|---|---|---|---|
| Run loop and scheduler (538-643, 1664-1918) | set-aside items, run target, call count, approved primary tasks | `run`, `determineNextStep`, `executeStep`, controlled stop | a run touches only what it may select; what is in flight goes before what is new; it ends, and ends only when nothing is left to advance |
| State documents (7198-7896, `state/restorationTarget.ts`) | lifecycle state, task and correction pointers, validation, Blocked By, Blocked From, `blocked_on_fix`, `human_ack_required`, last gate and review result | one writer per step | the pointers fit the lifecycle state; what is suspended can be resumed |
| Planning and completion (2834-3080, 3301-3691) | outline of task requests, task artifacts | `planTask`, `planFixTask`, `attemptFeatureCompletion` | only validated work is planned; a feature is closed only when it is done, and then can be |
| Implementation and gates (4556-4595, 5334-5819) | attempts, gate results | `executeImplementation`, `runQualityGates`, waiver of a gate that fails anyway | a failure or an interruption leaves the task resumable |
| Review and corrections (4633-5027) | review results, correction documents | `reviewTask`, `blockOnDeterministicScopeViolation` | a rejection is answered by a pending correction; corrections are bounded |
| Diagnosis (3717-4519, 6573-6770, `state/blockerClassification.ts`) | diagnostic attempts | `diagnoseAndAutocorrect`, `correctState`, the Doctor | one diagnosis per blocker, then a person |
| Blocking fixes (5746-6135) | filed fixes and their signatures | file or reuse, wait, resume | the item waits on a fix that exists, resumes when it is completed, where it was |
| Human exits (1345, 6156-6512, `session/commands.ts` 139-300) | recovery diagnoses with their retries | validate, acknowledge, retry, open a fix, correct the specification | a blocked item leaves its block consistent, whatever happened to it while the question stood; retries are bounded |
| Interactive session, brainstorming, validation (`session/session.ts`, `session/commands.ts`, `cli/brainstorm.ts`, `cli/specificationTurn.ts`, `cli/validationLoop.ts`, `cli/featureValidation.ts`) | the conversation, in memory; requests and definitions; the question being asked | converse, `/crear`, `/listo`, `/desbloquear`, `/descartar`, `/reabrir`, `/proyecto`, `/confirmar`, leave; end of input | nothing a person said or decided is lost or recorded twice; no work on a definition nobody confirmed; a session whose input ended comes to an end |
| Dimensions and project facts (`state/dimensions.ts`, `project/`) | the checklist with its decision log; facts with their provenance | decide, propose, mark covered; detect, merge, infer, confirm | a decision stays on record; a confirmed fact survives every later reading |
| Worktree, commits, artifacts (2509-2631, 3239-3299, `git/gitClient.ts`, `artifacts/`) | the worktree, the last commit, a borrowed stash, files under `.git` | clean-worktree check, preflight, commits, discards, baseline check of a gate | a process killed between two writes leaves something the next one can resume; a review sees its own task's change, with its gates |
| Run supervision (`session/runSupervisor.ts`, `runtime/runChannel.ts`, checkpoints and contract restart 1584-1652) | event file, stop file, child process and its restarts, events counted | start, tail, ask to stop, terminate, restart, exit code | every event delivered once and in order; a stop reaches the run it was meant for, promptly, and ends it; the exit code tells what is left |
| Task documents, gate policy, contract registry, smoke gates, configuration, agent adapters, doctor command, recovery lessons, prompts and rendering | prose, processes, settings | - | see `components` in `PROJECT.json` |

**How they interact.** A session (or the command line) starts a run as a child process with one
orchestrator. A run is one sequential loop: inspect every selectable item, select one, execute one
step for it, look at the outcome (`advanced`, `blocked`, `failed`), repeat. Components share state
only through files; agents, gate commands and git are synchronous child processes. Inspection itself
writes: an item blocked on a fix that has been completed is resumed by the inspection that
notices it. The session waits while its own run works, but nothing locks a file: another terminal may
acknowledge a block, decide about a dimension or start a run while a session waits at a question, and
a process may be killed between any two writes of a step.

**What is hard here** is not concurrency inside a run. It is long sequences of legal steps: a task
fails, is blocked, diagnosed, acknowledged, restored, corrected, blocked again, waits for a fix, and
at every point a document written by one handler is trusted by another. Bookkeeping that looks
redundant (the restoration target, the last review result, the exhausted marker, the diagnosis
signature) is what these sequences break. Three things add to it: a step is up to a dozen writes to
three places (the worktree, the commit under it, the artifacts under `.git`), and a kill keeps a prefix
of them; a session holds in memory what a person said until a command that may fail writes it; and the
channel between a session and its run is a file that one appends to while the other reads. The hazards in `PROJECT.json` are listed at the lines
where they bite.

## Modules

| Module | What it is |
|---|---|
| `StateDocument` | the state document as a record, `WorkItemInspectionKind`, and one operator per writer of `state.md`, each from a document to a document |
| `WorkItemLoop` | the loop and what happens between runs: `doc`, `store`, `fix`, `run`; one action per step kind and per human exit; all properties |
| `MCWorkItemLoop` | the sets of answers the instances use, by name |
| `StepWrites` | what each step writes, write by write, with a kill between any two: `disk` (worktree, commit, stash, artifacts) and `proc` |
| `MCStepWrites` | its instance |
| `SpecificationSession` | a person at the prompts of the three fronts, with other terminals in between: conversations, specifications, validation, recovery, checklist, facts |
| `Dimensions`, `ProjectFacts` | the coverage checklist with its decision log; detection and merge of project facts. Pure operators |
| `MCSpecificationSession` | items, dimensions, manifests and situations of its instance |
| `RunSupervision` | a session's supervised runs and the channel between them: `log`, `stopFile`, `child`, `sup`, `emitted`, `shown` |
| `EventFeed` | the ordered feed a supervised run promises; `RunSupervision` is checked to implement it |
| `MCRunSupervision` | the platforms its instances consider |
| `StateDocument_proofs` | one lemma per writer: it preserves `DocumentOk` |
| `WorkItemLoop_proofs` | the inductive invariant of the loop, one lemma per action, and the theorems |
| `WorkItemBlocks_proofs` | what needs more than the invariant of the loop, and a Doctor that keeps to its prompt: every block is on record, what waits on a fix can be and is resumed, a loop that ends leaves nothing |
| `StepWrites_proofs` | the invariant of the disk after every single write, and the theorems |
| `SpecificationSession_proofs` | the inductive invariant of the prompts, and the theorems |
| `RunSupervision_proofs` | the inductive invariant of the stop request and the exit code, and the theorems |
| `RunNarration_proofs` | the inductive invariant of the channel, and the refinement of `EventFeed` |
| `Collections_proofs` | facts about finite sets of numbers and sequences the others cite |

`StateDocument` is what the others share: `WorkItemLoop`, `StepWrites` and `SpecificationSession` extend it
and write documents by its operators only. They look at the same code from three sides.
`WorkItemLoop` has the rules that choose a step and its outcome, and takes a step at once. `StepWrites`
takes the outcome as given (an agent's answer, a Doctor's decision) and splits the step into its
writes. `SpecificationSession` splits the human exits into question and answer, and a run's step into its beginning
and its return: what a person does at the prompts falls between the two, and the result is written over whatever
the item has become (`Results`). Both `WorkItemLoop` and `SpecificationSession` offer the exits as
`/desbloquear` does, on any item that is blocked or failed its review, once one waits for a person. `RunSupervision` keeps of a step only
how it ended, as `WorkItemLoop` keeps of a stop request only that one may come at any time; what joins
them is the loop of `run`: `Checkpoint`, `Decide` and `StepReturns` are the frame around what is one
action in `WorkItemLoop`.

### State of the loop

* `doc[i]` is `state.md` of item `i`. Its fields are the sections that decide a step; narrative
  sections are left out. `absent` is an item without a directory.
* `store[i]` is what the artifact store and the tasks directory say of `i` that steers the loop: how
  many requests of the outline are neither complete nor superseded, whether the outline declares any,
  whether a task artifact exists, how many corrections of the active task are numbered, and the
  signature in `diagnostic-attempts/<id>.json`.
* `fix[f]` is the severity and the signature fix `f` was filed with.
* `run` is the run in progress (looping or not, target, set-aside items, calls spent, primary tasks
  approved) or, when none is, how the last one ended.

A task id is a number: 1 is the current primary task and `k + 1` the correction `-C<n>` of `k`. New
primary tasks have fresh ids in the code, so nothing compares an old one with the current one.

The state of `RunSupervision`:

* `child` is the deepest process of a run (the ones above it only wait): its place, how many times
  the run restarted, its last event, the outcome of the step in flight, whether it set anything
  aside, whether its own files changed, its exit code. `sup` is the supervisor.
* `log` is `run-events.jsonl` line by line. A line is *partial* or *whole*, *open* until its newline is
  written, and *spoiled* when another event was appended to an open one. Events are numbered in the
  order they happen, `2k - 1` for the start of step `k` and `2k` for its end. `past` records what
  happened for the properties, and no action reads it, except that `MaxFailures` bounds its failures.

The state of `StepWrites`:

* `disk.tree` and `disk.head` are the worktree and the commit under it: the two state documents, the
  task documents, whom `PROJECT_STATE.md` speaks of, and the changes of implementers. A change (`Edits`)
  says in which area it is and for which task it was made. Dirty is what differs between the two.
* `disk.stash` is what `git stash` holds, `disk.arts` the artifacts that steer a step: which areas a task
  may touch, which request it serves, the outline, archived patches, gate results with the change they
  judged, approvals, diagnoses.
* `proc` is the process: where in an implementation it is, what its run set aside, and which documents
  it remembers to have written. `Down` is no process: everything in it is lost by a kill.

The state of `SpecificationSession`:

* `doc` as above; `spec[i]` is `request.md` and the definition: which turns it was drafted from, which
  decisions its provenance records, and whether a person confirmed it *as it stands* (`seen`, which no
  action reads). `diag[i]` is `recovery-diagnoses/<id>.json`, `filed[f]` the item a fix was reported on.
* `dims` is `DIMENSIONS.md`, `facts` is `PROJECT_FACTS.md`, `tree` what detection reads of the repository. Both
  documents are rewritten whole from what is read back of them (`parseDimensionsDocument`,
  `parseProjectFactsDocument`), and what is read back is not all that was written.
* `flight` is the step a run is in the middle of: its item, what it does, the task it keeps in mind.
  `overtaken` holds the items such a step returned to after their confirmation had been taken back, until they
  are specified or confirmed again; only the properties read it.
* `front` is the entry point that runs, `at` the question it waits at (about which item, offering what,
  in which round), `talk` what it holds in memory: turns, the ones since the last specification,
  decisions not yet recorded, items queued for validation. `closed`: its standard input has ended.
* `said` numbers human messages; `uses` are the commands a behaviour uses, a bound on the instance.

### Actions and code

`WorkItemLoop`:

| Action | Code |
|---|---|
| `PlanTask`, `AttemptCompletion` | `planTask` 2834, `attemptFeatureCompletion` 2888: request left; empty outline; refused on record; criteria, start check |
| `PlanFixTask` | `planFixTask` 3585 |
| `PlanSubtask` | `planSubtask` 3693, for a ready task and for a pending correction |
| `ImplementSubtask`, `InterruptImplementation` | `implementTask` 4556, `executeImplementation` 5334, gates 5639, waiver 5699 and 5746 |
| `ReviewSubtask` | `reviewTask` 4633, `blockOnDeterministicScopeViolation` 4963 |
| `DiagnoseAutocorrect` | `diagnoseAndAutocorrect` 3741, `runDiagnosticAutocorrection` 3889, `correctState` 6573 |
| `StepThrows`, `ControlledStop`, `StopStep` | the ends of `run` 538-643, `determineNextStep` 1781 |
| `StartRun`, `InspectStatus` | a run per process; `describeWorkItems` 670 and the dirty-worktree preflight 2546 |
| `Formalize`, `confirmFeatureValidation` | `specifyExistingRequest` 941, `confirmFeatureValidation` 1345 |
| `acknowledgeBlocker` | 6470, the one exit that looks at the item again |
| `retryWithContext`, `openFixFromConversation`, `correctSpecification` | 6271, 6343, 6420, on what `/desbloquear` offers (`Offered`: `commands.ts` 75-83, 139-170, `blockerCard.ts` 153-180) |
| `CompleteFixByHand` | external: nothing in the runtime completes a fix, a person edits its lifecycle state |

`RunSupervision`:

| Action | Code |
|---|---|
| `Boot` | `cli/main.ts` 108-172: preflight, orchestrator, target |
| `Checkpoint`, `EndRun` | `throwIfControlledStopRequested` 1584, at the head of the loop and after it |
| `Refresh`, `EditRuntime` | `refreshContractsAtCheckpoint`, `restartProcess` 1607-1652, `contractRegistry.ts` 120 |
| `Decide`, `StepReturns`, `RunThrows` | `run` 556-571 and 576-640 |
| `AgentReturns`, `GatesReturn` | the checkpoints inside an implementation, 5382 and 5458 |
| `OpenLine`, `FillLine`, `CloseLine`, `AppendFails` | `appendRunEvent`, `runChannel.ts` 86-94, as another process may observe it |
| `StartRun`, `Tick`, `PressEsc`, `PressCtrlC`, `ChildCloses` | `superviseRun`, `runSupervisor.ts` 139-234; each reading is `drainEvents` 152 over `readRunEvents` (`runChannel.ts` 96) |
| `Terminate`, `Reached` | `requestStop` 169-182 and `terminateTree` 114-133 |

`StepWrites`, where `Leave` turns a handler's sequence of writes into the step that makes all of them and
the kills that leave a prefix:

| Action | Code |
|---|---|
| `PlanTask`, `AttemptCompletion`, `PlanSubtask` | `finalizeTaskPlan` 3301: document, artifact, outline, state, project; `attemptFeatureCompletion` 2888; `planSubtask` 3693 |
| `ImplementSubtask`, `AgentEdits`, `AgentReturns` | `reconcileDirtyPathsForNewScope` 2593, `executeImplementation` 5334-5448, the attempt's artifacts 5514-5576 |
| `RunQualityGates`, `StashForBaseline`, `PopBaseline` | 5449-5512 and 5639-5733; `runAgainstCleanBaseline`, `gitClient.ts` 64-90 |
| `ReviewSubtask` | `reviewTask` 4633: scope check over dirty paths, reuse of gate results, approval, correction, rejection, each with its commit (3239) |
| `DiagnoseAutocorrect` | 3741-3887: state repair, a fix filed one file at a time (5831), a stop, an exhausted block (2422) |
| `StartRun`, `CommitByHand` | the dirty-worktree preflight, `cli/main.ts` 142-168, and what a person does about it |
| `Kill`, `EndRun`, `acknowledgeBlocker` | a process that dies, or ends, between steps or inside an implementation; 6470 |

`SpecificationSession`:

| Action | Code |
|---|---|
| `StartSession`, `StartOtherFront`, `Leave`, `CloseInput`, `LeaveAtEof` | `session.ts` 112-224, `brainstorm.ts` 72-146, `featureValidation.ts` 50 |
| `Converse`, `TakeDecision` | `session.ts` 306-344, `brainstorm.ts` 212-258, `specificationTurn.ts` 45-121 |
| `CreateFromRequest`, `CreateFromIdea`, `Listo`, `Cover` | `commands.ts` 389-482, `planFeature` 2633, `planFixRequest` 2752, provenance 806-939, `specificationTurn.ts` 148-191 |
| `ConfirmValidation`, `NextRound`, `RoundFails` | `validationLoop.ts` 14-96, `commands.ts` 628; 1218-1345 |
| `Desbloquear`, `OfferExits`, `Proceed`, `Cancel` | `commands.ts` 139-300; `diagnoseBlockage` 6156 |
| `retryWithContext`, `openFixFromConversation`, `correctSpecification`, `acknowledgeBlocker` | 6264, 6327, 6394, 6470 |
| `Descartar`, `KeepInScope`, `Discard`, `Reabrir` | `commands.ts` 561-613, `decideDimension` 1149 |
| `Proyecto`, `Confirmar`, `ConfirmFacts` | `commands.ts` 345-387, 484-549; 964-1119 |
| `StepBegins`, `StepReturns` | `/run`, `session.ts` 346, or a run of another terminal: `selectStepForFeature` 1823, and what the step writes when it returns (5351, 5473, 7585-7852, 6868-6958) |
| `AcknowledgedElsewhere`, `DecidedElsewhere`, `RefreshedElsewhere` | the same operations from another terminal |
| `ManifestsChange` | external: a person edits the repository |

Every answer is one action, so what happens elsewhere falls between a question and its answer, which
is where the code reads a document before asking and writes it after. `/run` is such a question, answered when its step
returns; the step of another terminal's run is in flight while this session asks and writes.

Every run step of `WorkItemLoop` starts from `Inspected`, the documents as the inspection of that pass leaves them, so
that resuming an item is part of the step that noticed it, as in the code.

Every answer of an agent, gate command or human is nondeterministic. The `...Results`,
`DoctorAnswers`, `TextKinds`, `TextRecoverabilities` and `ReviewReasons` constants say which answers
an instance considers; an instance that leaves one out is a smaller system, never a different one.
`TextKind` models the classifier on its one consequential behaviour: its pattern for state
corruption matches the lifecycle names of a recorded Blocked By section, so free text about an item
that is already blocked always reads as state corruption.

### Abstractions worth knowing

* The Doctor's title for a systemic blocker of one item is always the same, so a second one reuses
  the first fix. All waived gates share one signature, the worst case for reuse.
* With no active task, the repair of the state document takes its anchor from prose; the model uses
  the item's primary task.
* Filing a fix needs a free number in `Fixes`: when all are taken, the branch is not available.
* A recorded diagnosis of an older task is dropped when a new one is planned. Its signature names a
  task no document names any more; this only merges equivalent states.
* In `WorkItemLoop` steps are atomic and human exits happen between runs. What that hides is what the
  other modules are for: kills inside a step in `StepWrites`; an exit whose item moves while its question
  stands, and a step whose item moves while its agent works, in `SpecificationSession`.
* A write of `StepWrites` is one `writeFileSync`, seen whole or not at all; so is one `git commit`.
* A task of `StepWrites` may touch the area of its item. "Elsewhere" is everything it may not touch, so a
  change there is what the scope check of a review is about.
* The text of a definition is the set of turns it was drafted from. Specifying an item again makes a
  definition nobody has seen; nothing else about the text matters to the properties.
* A decision line is read back by its pattern (`state/dimensions.ts` 115). An author "Doe, Jo" is split at the
  comma and written back as it was; "Doe,Jo" is not matched, and such names are the constant `Illegible`. A reason with a
  line break leaves two lines and neither is matched (`oneLine`). `decideDimension` compares names as they
  are, `proposeDimension` in lower case (`Folded`).
* A fact is read back by lines (`project/projectFacts.ts` 209-239). A value that is empty or has a line that begins with
  `_` hides its provenance, and the section is dropped (`Unreadable`); of a value of several lines the first is
  kept, and a list's entry with a comma becomes two (`Broken`, after which the record is not `whole`).
* One step of a run is in flight at a time in `SpecificationSession`. `Results` keeps of a step what its writers leave:
  a plan or a completion, an attempt that failed or whose gates passed or failed, an approval, a correction, a
  rejection, a block. Waived gates, fixes the runtime files for itself and the repair of a state document are in
  `WorkItemLoop`.
* A SIGTERM reaches what `terminateTree` addresses it to. The child is spawned without `detached`, so
  it leads no process group and `kill(-pid)` fails; the fallback signals the child alone. Once `run`
  installed its handlers (1556) the default action is gone, and a handler needs a turn of the event
  loop, which `run` never yields. Before that, the signal kills. `taskkill /t` kills everything.

## Runs

The runs of the loop use `MCWorkItemLoop`, with deadlock checking on: a run can always be started. So
does `session`: a front can always be started. Deadlock checking is off in `step_writes`, where kills
and changes are used up and the person may commit nothing, and in the three runs of
`MCRunSupervision`, where the session may be left at its prompt and runs are used up.

| Run | Instance | Checks |
|---|---|---|
| `recovery` | one feature, one fix; every plan, completion and review answer, implementations that fail, pass or fail their gates, stop requests; the Doctor's three prompted answers; wording that reads as state corruption; every exit a person may take, on any item the menu lists; 2.1 million states | types; what is suspended can be resumed (`RestorationIsRunnable`), a block is on record (`BlockedIsRecorded`), waits on a fix that exists and can be resumed from it (`FixWaitIsResumable`) or on a person who was asked, after diagnosis (`AckMarksExhaustedBlock`, `HumanGate`); it moves by an exit of its own or when that fix is completed (`ResumeOnlyWhenFixCompleted`); pointers and results fit (`NoOrphanedTask`, `ReviewConsistent`); only validated work, only earned completion, which no run takes back (`WorkIsValidated`, `CompletionIsEarned`, `CompletionIsFinal`) |
| `scheduling` | two features, a requested and a filed fix of any severity, gates waived for a fix, steps that throw; open runs and runs pointed at one item | `FixWaitIsResumable` of waived gates; `RunScope`, `StartsOnlyWhenNothingInFlight`, `QuiescentExit` |
| `termination` | one feature and one fix, looping and single-step, answers that lead back to where they started | `RunTerminates` |
| `one_diagnosis`, `refused_completion`, `accepted_repair`, `fix_never_completes` | one feature, one fix, the few answers needed | one statement of the repository each, which TLC refutes; see the findings |
| `step_writes` | a feature and its fix, two kills or diagnoses, one change of an implementer, anywhere; 2.3 million states | types; after any kill `PointersResolve` and `CompletionLeavesNothing`; a review judges its own change, all of which passed the gates (`ReviewedDiffIsOwn`, `GatesJudgeThisDiff`); an attempt killed inside its scope can be resumed (`InterruptedAttemptIsAccepted`); what is thrown away was archived (`DiscardsAreArchived`) |
| `session` | two features and two fixes, the three fronts, failing agents, end of input at any question, other terminals, steps in flight; 0.93 million states | types; `WorkedOnWasConfirmed`, `TurnsAreKept`, `DecisionsHaveOneHome`, `NothingMalformed`, `WaitsOnOwnFix`, `NoFourthRetry`, `DecisionsAreKept`, `FactsOnlyGainStanding`, and that `EndOfInputEndsIt` |
| `supervision` | two runs of one session, two steps each, one failing append, both keys, both platforms | `TypeOk`, `NarrationArrives`, `StoppedOnlyByRequest`, `SoftStopIsPrompt`, `ExitTellsBlocked`, and that `EventFeed` is implemented |
| `killed_run`, `interrupted_step` | one run of one step | one statement each, refuted; see the findings |

**Bounds.** In the loop, `MaxRequests = 1`: the second of two requests meets the document the first left
between tasks, which is the same document every round. `MaxTaskDepth = 2` admits a task and its
correction, and `MaxReviewIterations = 1` puts the limit between them, so both sides of it are reached. A
budget of one call (two in `termination`, three in `scheduling`) ends runs in the middle of an item's work, so that every
intermediate state is also the start of a run; sequences longer than a run are sequences of runs. Each step of
`recovery` is thus a run of its own or follows steps that cost nothing; several items in one run, and what
a run sets aside, are the subject of `scheduling`. Severity decides only between items, so the one fix of `recovery` has
one severity, and `scheduling`, with all of them and with waived gates, leaves out the exit that corrects a specification: the item it returns
to is one that was never specified.
`MaxTasksPerRun = 1` makes the task limit bite. One fix suffices for waiting, reuse and a fix that
fails by its own gate; `scheduling` has two, and two features, for the tiers.

In `step_writes`, `MaxTasks = 2` lets a task meet what an earlier one left, and a kill during planning
use up an id; `ArcSize = 2` with `MaxCorrections = 1` is a task and its one correction, and the limit. One
change is enough to be in the wrong scope, of the wrong item, stale, unjudged or discarded: the
properties are about one change each. Two mishaps are a kill after a diagnosis, or a kill during the
recovery from a kill. Some exceptions that the properties make need four to six mishaps to be met; they
were found by proving, and then by TLC on larger instances (see the findings). The proofs cover all sizes.

In `session`, the ceilings are small so that they are met: two validation rounds instead of 25, one turn
and one feature per idea instead of 25, two retries instead of three; `MaxRetries = 3` leaves room for
the retry that must not happen. Two messages are one that was written and one still under
discussion. `Takes` lets a run take every step with a feature and plan a fix; `MaxTaskDepth = 2` is a task and its
correction. Two fixes let two blocked items report one each. The names, authors and values of the checklist and the
facts are one that is read back as it was and one of each kind that is not. `MCSituations` bounds a behaviour to one group of commands (conversation and validation;
recovery with runs, in one terminal and with others; recovery, runs and specification with other terminals, so that
an item is invalidated, specified and confirmed again while a step is in flight; two blocked items; the checklist; the facts): the groups share
only `doc`, and recovery starts from what conversation can leave. What holds across them is proved: no safety property is
left to these groups.

In `supervision`, `MaxRuns = 2` lets one run's leftovers (log, stop file) meet the next; `MaxSteps = 2`
admits a step begun after a request and one that must not be, and four events around one spoiled
line; `MaxFailures = 1` is the fault that tears a line. Restarts are bounded by the code.

**Fairness.** `Spec` of `WorkItemLoop` has weak fairness of `RunStep` only: a run is a sequential loop and
every call it makes is a synchronous child process that returns. Nothing is assumed of people.
In `termination` no step throws and no stop is asked for: otherwise fairness would be met by those, and hide a step that
changes nothing and is taken for ever.
`BestCaseSpec` adds that runs are started, specifications validated and blocks acknowledged again and
again; it is used only by `fix_never_completes`, where more fairness makes the counterexample stronger.
`SpecificationSession` has weak fairness of `closed /\ Answered`: a person may leave a question
unanswered for ever, but once standard input has ended every question is answered at once, by
`END_OF_INPUT` (`session.ts` 62-67, 125-135). `StepWrites` and `RunSupervision` have no fairness: all their
properties are safety. `RunTerminates` is about a finite call budget. The configuration's default budget
may be infinite, and then nothing bounds a reviewer that always asks for changes; what the run shows
is that no cycle of steps that cost nothing exists.

## Findings

* **A stop decided by diagnosis is diagnosed again** (`one_diagnosis`). The block recorded at
  3868-3887 has a signature of its own and no marker, so the next run starts over, against
  "One diagnosis per blocker, and then a person" (3717).
* **Completion refused for a review that passed** (`refused_completion`). Blocking writes
  `last_review_result: blocked` (7198-7227), acknowledging does not reset it (6495-6512), and the next
  completion attempt reads it as the review's verdict (2928). With no request left nothing rewrites
  it: the feature cannot be closed by the runtime.
* **State repair records acceptance** (`accepted_repair`). 7874-7896 writes gates passed and review
  approved on an item whose review failed; `operation-loop.md:401` forbids it.
* **Fixes never complete** (`fix_never_completes`). `planFixTask` has no end, so an item waiting on a
  fix waits until a person edits the fix's state, whatever `session/commands.ts:285` promises.
* **A terminated run goes on** (`killed_run`). Where there is no `taskkill`, the second press reaches
  only a process that cannot react (see the abstractions); Ctrl-C does not even write the stop file.
  The run goes on to its end and is then reported as stopped, against "terminates the process tree,
  agent CLI included. Immediate" (`compassrose/features/023-terminal-session/state.md:63`).
* **A step in flight is cut short** (`interrupted_step`). `runChannel.ts:107` promises that "a step in
  flight is allowed to finish". `executeImplementation` throws at its own checkpoints (5382, 5458):
  the attempt is not captured and its changes stay in the worktree.

`ExitTellsBlocked` is stated for runs that did not restart. A process that replaces another counts
blocked items afresh, so after a contract restart a run that blocked an item may exit with 0. That is against the
comment at 612-614 ("0 means nothing left to do, 3 means something needs a human"); `Refresh` reaches it, and it has
no run of its own.

The following were seen in the models and have no run; unless one is quoted, no document of the repository promises
the opposite in so many words. The properties say where they except them.

* **A retried item keeps its fix.** `/desbloquear` offers the exits on any blocked item once one waits for a person
  (`commands.ts` 139-170), and `retryWithContext` (6271-6311) moves one that waits on a fix back to its work without
  clearing `blocked_on_fix` (6495-6512). It is then under way and names an unfinished fix; `ResumeOnlyWhenFixCompleted`
  excepts the exits. When it is blocked again, on something else, it is taken to wait for that fix, is not
  diagnosed while the fix is open, and is resumed when it completes. If its new block was exhausted in the run that
  retried it, it carries `human_ack_required` as well; the resumption (6118) clears the fix only, so the item moves on though
  nobody acknowledged anything (`HumanGate` excepts it), and a marker that outlives the resumption makes the next block
  wait for a person without a diagnosis. The comment at 6157-6160 calls the field "irrelevant to this path".
* **A step in flight lands on a withdrawn definition.** While an implementer works, a person in another terminal may take
  the confirmation back (6420) and specify the item again (`/crear`). When the agent returns, `executeImplementation` writes
  `review_pending` and its task over that document (5473-5488, 7651-7709): work is under way on a definition nobody
  confirmed, or, if it was confirmed in the meantime, on another than the task was planned for. `WorkedOnWasConfirmed`
  excepts the items of `overtaken`, from that return until they are specified or confirmed again, and nothing else.
  The document it leaves is well formed (`NothingMalformed`), because every writer names the task it was called with.
* **The checklist loses decisions it cannot read back** (`dimensions.ts` 115): those whose reason has a line break, as the
  agent's reason for a dimension may (755-787 only trims it), and those of an author with a comma and no space after it.
* **The facts lose what they cannot read back** (`projectFacts.ts` 209-239). Every operation writes all sections
  again, so confirming one fact drops another whose value begins with `_`, and cuts one of several lines.

* A fix can be made to wait on itself when its own gate fails with the signature it was filed for
  (6039).
* A scope violation at the correction limit is reported as blocked without anything being written
  (4970); it and a diagnosis that stops or files a fix (3816-3887) leave the diff in the worktree, where the
  item selected next finds it. `ReviewedDiffIsOwn` excepts the changes of items set aside.
* The preflight and the discards go by path. Where a task was allowed to follow a change out of its
  scope, the preflight does not tell whose the change is: a review may be shown a change of the other item
  there (`ReviewedDiffIsOwn` excepts it), and a discard for one item may take the other's unarchived change
  (`DiscardsAreArchived` speaks of the item worked on).
* A superseded attempt is discarded before the state says so. A kill in between leaves gate results that
  judged more than is left to review; `GatesJudgeThisDiff` says that all of what is reviewed passed, and that
  the rest is archived.
* A run that sets an item aside may leave its documents uncommitted. An attempt at another item that is
  then killed meets a preflight that refuses it; `InterruptedAttemptIsAccepted` is about runs that set nothing aside.
* The scope check of a review knows which task documents the runtime wrote only within one process
  (4638-4661): a document planned by an earlier one counts as the implementer's, and a correction is
  ordered for it. For the same reason an untracked document makes an attempt that changed nothing look
  like one that did (5529).
* A kill while a gate is judged against a clean baseline leaves the task's work in a stash nobody looks for
  (`gitClient.ts` 72-90). `PointersResolve` and `CompletionLeavesNothing` except it.
* A kill between the state document and the commit of an approval or a correction leaves a worktree that
  the preflight of the next run refuses; a person commits it.
* `END_OF_INPUT` is text, and the free-text questions (the reason of `/descartar`, the title of a fix) take it
  for an answer. `EndOfInputEndsIt` says that the session still ends.
* The exit that corrects a specification does not look at the item again (6394): a menu left open while
  another terminal closed the item reopens it. `CompletionIsFinal` is about what runs do; in `WorkItemLoop` a menu and its
  answer are one step, so there the exits find only what is blocked.
* When the audit of a specification fails, the decisions taken for it are carried to the next item specified
  (`DecisionsHaveOneHome` says once, not where).

## Proofs

`WorkItemLoop_proofs` proves, for every set of items, every limit and every set of answers:
`TypeOk`, `RestorationIsRunnable`, `WorkIsValidated`, `NoOrphanedTask`, `ReviewConsistent`,
`AckMarksExhaustedBlock`, `HumanGate`, `RunScope`, `CompletionIsFinal`, `CompletionIsEarned` and
`StartsOnlyWhenNothingInFlight`. The assumptions are `ItemsAssumption`, `BoundsAssumption` and `ChoicesAssumption` of
`WorkItemLoop`: items are positive numbers, limits are numbers, answers are answers.

None of these is inductive by itself. `RestorationIsRunnable` needs to know what a *suspended
target* looks like, since restoring copies it into the document; and a failed item may be suspended
at a state that is itself a target. `CompletionIsEarned` needs a fact about items that are *not*
being completed: a feature between two tasks whose outline is exhausted has an approved review with
passed gates, or the mark of a block that will refuse it. So `IInv` is

* `DocumentOk` of every document: pointers fit the lifecycle state, the suspended target can be
  resumed (`TargetOk`), a rejection has its correction;
* `WaitOk`: a fix that is waited on exists;
* `Linked`: `ClosingOk` as above, of every feature;
* the types of `fix` and `run`.

`StateDocument_proofs` shows that each writer preserves `DocumentOk` from what its callers
guarantee, `WorkItemLoop_proofs` that each action does (one lemma per action), and the theorems
follow from the invariant. The action properties use *frame* lemmas instead: what a step of a run,
and what a human exit, may change besides the item it is about.

Nothing in `IInv` says that an item which names a fix, or carries a marker, is blocked: a retry moves it on and keeps the
fix, and a resumption keeps the marker. What is left of the rules about them are action properties, proved from what
each writer does: who sets and clears a marker (`AckMarksExhaustedBlock`), and what moves a marked item (`HumanGate`).

`WorkItemBlocks_proofs` has the results that hold under a hypothesis, `DoctorAsTold`: the Doctor never
answers `correct_state`. It is needed. The prompt calls that answer invalid (4250) and the schema lets
it through; given for a blocked item, it clears the suspended target, and the item is later restored to
`blocked` with nothing on record. The results are `BlockedIsRecorded`, `FixWaitIsResumable`,
`ResumeOnlyWhenFixCompleted` and `QuiescentExit`. The invariant, `Recorded` of every document (theorem `Recording`), adds to
the first what makes it last: a blocked item knows what it was suspended from, and that was no block. So whatever an item
that waits on a fix was blocked on, by whatever writer, the resumption has a target to write, and one that
can be run.
`QuiescentExit` is an action property about how a loop ends: what neither pass of the selection takes is at rest
(`PassedOverIsAtRest`), an item that the inspection of that pass resumes is taken by one of them, and no other
step ends a run that way.

`RunSupervision_proofs` proves `StoppedOnlyByRequest`, `SoftStopIsPrompt` and `ExitTellsBlocked` for any
number of runs, steps and failing appends, from `PlatformsAssumption` and `BoundsAssumption`. The
invariant `SInv` is: the types of the processes; only a watched run has a live process (`Watched`);
whatever leads to exit code 130 was asked for in that run (`Asked`); a step begun after a request has
a checkpoint ahead of the next choice (`Prompt`), which is what bounds the steps by one; and the
record of blocked steps agrees with `blockedThisRun`, except while a blocked step's end is being
narrated (`Counted`, with `Parity` telling starts from ends). The contents of the log play no part.

`RunNarration_proofs` is about those contents: `TypeOk`, `NarrationArrives`, and that `RunSupervision` implements
`EventFeed` under the refinement mapping of the run, initial state by initial state and step by step.
`readRunEvents` is a recursive function over lines. `FilterExists` of `Collections_proofs` shows that there is
such a function for every log; appending a line, filling or spoiling the last one then changes its last
value only. The invariant `NInv` is `SInv` and: the types of the channel (`ChannelOk`); the events that can be
read and those shown are in order, and what is still to be shown comes after what was (`Ordered`); the event being
appended is later than all of them, and cannot be read before its line is whole (`Fresh`); what was shown or
can be read, with two events for each failing append, is as much as the child narrated, but for what an open last line
may still cost (`Accounted`); and a result is returned only after all of the log was read (`Drained`).

`StepWrites_proofs` proves all seven properties of `StepWrites`, for any number of requests, tasks, corrections,
changes and mishaps, from `StepWritesAssumption`. The argument is about one write at a time. `DiskOk` says what a disk
must be for a run to be started on it. A write keeps it under a condition that the order of the handler's
writes provides, so a step is a sequence of disks that are all `DiskOk` (`Leave`), and a kill anywhere leaves
one. While a gate runs on the baseline, the disk meant is the one that popping the stash restores (`Live`).
The parts of `DiskOk`, none of which is inductive without the others:

* `CodeOk`, `Resolved`, `Scoped`: what is committed is in the worktree; the tasks either checkout names have
  documents, and artifacts that admit their item;
* `Superseded`: the commit is not ahead of the worktree, so a fresh task id is new to both;
* `Judged`, of the worktree and of the commit: a task that waits for review, or suspends that wait, passed its
  gates on all its changes; `Unreviewed`: a task about to be implemented is not one the commit would have reviewed,
  which matters when a kill brings the commit's document back;
* `Archived`, `Current`: an uncommitted change is archived or of the attempt under way, and of its item's task;
* `Served`: closed requests have an approved task with its document.

`ProcOk` is what a process knows beyond its disk: it works on the item that would be selected next, and has
made sure of the worktree it works in (`Familiar`), up to what it set aside. Arcs of task ids (a primary task
and its corrections, modulo `ArcSize`) need division and remainder, which is done by hand.

`SpecificationSession_proofs` proves `WorkedOnWasConfirmed`, `TurnsAreKept`, `DecisionsHaveOneHome`,
`NothingMalformed`, `WaitsOnOwnFix`, `NoFourthRetry`, `FactsOnlyGainStanding`, `DecisionsAreKept` and `TypeOk` for any finite set of items,
any fronts and situations, any ceilings, and any number of messages, names and manifests: in particular
for behaviours that mix all the commands, which the run keeps apart. The assumptions are
`SessionAssumption` (a situation is documents the loop leaves behind: `Sound` and `Idle`, confirmed only if defined),
`FactsAssumption` and `DimensionsAssumption`. The invariant `IInv` is: `ShapeOk`, the types that matter; `ItemsOk`, of
every item: its document is `Sound`; unless a step in flight returned to it after its confirmation had been taken back
(`overtaken`), what nobody confirmed is neither under way nor suspended (`Idle`); what it says was confirmed was seen as
it stands; and it waits only on a fix that was filed for it and exists; `TalkOk`: a turn is written or under discussion, a decision is recorded
once or still carried, and the next one will be new; `RetryOk`: a menu that offers the retry exit was
offered below the ceiling; `FlightOk`: a step in flight kept the task it needs to write its result. `ItemsOk` is where the argument is: a document changes by few writers
(`Moved`), each of which keeps it sound from what its caller read *before* asking, whatever the document
is by then. The results of a step are among them (`ResultLands`): each is a sound document over *any* sound document,
since it names its task itself, but `Idle` only over a confirmed one. That is why the exemption of
`WorkedOnWasConfirmed` is what it is. That a new fix has a number of its own needs the maximum of a finite set, which is proved
from the well-foundedness of strict inclusion. `FactsOnlyGainStanding` follows from an invariant of its own
(`FactsOk`) and the order of `Rank`: a confirmed fact was read back before it was confirmed, so reading it again changes
nothing (`Settled`); every other one gains, or was not read back.

`DecisionsAreKept` is about the text form of the checklist. `Legible`, what can be read back of a log, is a
recursive function; it exists for every log (`FilterExists`), reads back what it wrote (`LegibleTwice`), and commutes
with appending (`LegibleAppend`). So whatever is read, decided and written whole again continues the log that
was there (`Continues`). `TypeOk` needs bounds, some of them on what the code does not count: the
turns kept are among those said; no more features were drafted than there are present, since no item goes
away; rounds and retries are below their ceilings (`InBounds`).

Two devices replace induction over data, which is outside the prover. A set of numbers that contains 0 and the
successor of each of its members is `Nat` (`NatSetInduction`): facts about a recursive function are stated as such a
set. And the maximum of a finite set exists by the well-foundedness of strict inclusion (`FiniteSetHasEnds`).

Only model-checked are `RunTerminates` and `EndOfInputEndsIt`, which are liveness under fairness and outside the
prover, and the six refuted statements.

## Not modelled

* Agents that commit by themselves (`headBefore`/`headAfter` and the diff that is then taken), errors of
  git, and the wording of the commit trail.
* `--no-commit`, with which no handler commits, and the wider `allowed_paths` a correction of a scope violation is given
  (4993): the correction of `StepWrites` may touch what its task may.
* Backfill of a lost outline, supersession of a request, the vote of the classifier ensembles.
* A second session on the same repository, a session that dies before its child, the reload of schemas.
* Task text validation, gate command policy and smoke gates: pure functions of wording, or one
  synchronous process with one answer.
* Prompts, prose and terminal output; the parsing of Markdown, JSON and configuration; the agents'
  command lines; the Doctor command; recovery lessons.

The components and the reasons are listed in `PROJECT.json`.

## Plan

The models are complete as far as the plan went, and every safety property of a passing run is proved.
What is left:

1. Theorems that span runs: that what a run sets aside it leaves alone to its end, and that no correction is
   numbered past the limit.
2. `Lifecycle`: the graph of `contracts/state/feature-state.md` as an abstract specification of one item, and
   `WorkItemLoop` shown to implement it, as far as it does.
3. A second session sharing the channel, for which the repository would first have to say what should
   happen.
4. The state repair, waived gates and fixes filed by the runtime as results of a step in flight.
5. `TaskOutline` (supersession, backfill) and `GateCommandPolicy` as functions against reference definitions.
