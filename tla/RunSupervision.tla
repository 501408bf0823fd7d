---------------------------- MODULE RunSupervision ----------------------------
(***************************************************************************)
(* A supervised run: the session starts the loop as a child process, polls *)
(* the log the child narrates itself to, reads keys, and asks the child to *)
(* stop through a file or terminates it.  The child notices the file only  *)
(* at its checkpoints and may replace itself by a fresh process, up to     *)
(* three deep, when the runtime's own files change.                        *)
(*                                                                         *)
(* What a step does to work items is WorkItemLoop's; here a step is an     *)
(* outcome.  Events of a run are numbered: 2k-1 is the start of its k-th   *)
(* step and 2k the end of it.                                              *)
(***************************************************************************)
EXTENDS Integers, SequencesExt

CONSTANTS
  Platforms,    \* the platforms considered: "posix" and "win32" differ in what a kill reaches
  MaxRuns,      \* bound: supervised runs of one session
  MaxSteps,     \* bound: steps of one run before the scheduler has nothing left
  MaxFailures   \* bound: appends to the log that fail in one run

ASSUME PlatformsAssumption == Platforms \subseteq {"posix", "win32"}
ASSUME BoundsAssumption == MaxRuns \in Nat /\ MaxSteps \in Nat /\ MaxFailures \in Nat

VARIABLES
  platform,
  log,        \* the lines of run-events.jsonl
  stopFile,   \* whether stop-requested exists
  child,      \* the deepest process of the run: the ones above only wait for it
  sup,        \* the supervisor: the run it watches, or the result of the last one
  emitted,    \* how many events of the log it has counted
  shown,      \* the events handed to the session in this run, in order
  past        \* what happened in this run, for the properties only

vars == <<platform, log, stopFile, child, sup, emitted, shown, past>>

MaxRestarts == 3

Kinds == {"implement", "other", "stop"}
Running == {"checkpoint", "refresh", "decide", "narrate", "writing", "agent", "gates", "wrapup", "final"}
Gone == {"unspawned", "exited", "killed"}
Places == Running \cup Gone \cup {"none", "boot"}

\* event: the last event of the run; blocked: blockedThisRun is not empty; outcome: of
\* the step in flight; stale: a runtime-critical file changed since the process loaded.
Children ==
  [pc: Places, depth: 0..MaxRestarts, event: Nat, kind: Kinds,
   outcome: {"advanced", "blocked", "failed"}, blocked: BOOLEAN, stale: BOOLEAN,
   code: {0, 1, 3, 130}]

Supervisors ==
  [runs: 0..MaxRuns, watching: BOOLEAN, stopRequested: BOOLEAN, terminated: BOOLEAN,
   exitCode: {0, 1, 3, 130}]

Pasts == [afterRequest: Nat, afterKill: Nat, blocked: BOOLEAN, failures: Nat]

NewChild == [pc |-> "boot", depth |-> 0, event |-> 0, kind |-> "other", outcome |-> "advanced",
             blocked |-> FALSE, stale |-> FALSE, code |-> 1]

\* A line holds one event; it is open until its newline is written, and spoiled when
\* another event was appended to an open line.
Lines == [event: Nat, text: {"partial", "whole", "spoiled"}, open: BOOLEAN]

NewPast == [afterRequest |-> 0, afterKill |-> 0, blocked |-> FALSE, failures |-> 0]

Init ==
  /\ platform \in Platforms
  /\ log = <<>> /\ stopFile = FALSE
  /\ child = [NewChild EXCEPT !.pc = "none"]
  /\ sup = [runs |-> 0, watching |-> FALSE, stopRequested |-> FALSE, terminated |-> FALSE,
            exitCode |-> 0]
  /\ emitted = 0 /\ shown = <<>> /\ past = NewPast

(***************************************************************************)
(* The run channel.                                                        *)
(***************************************************************************)

\* Seeded fault: the reader gives up at the first line it cannot parse.
ReadUntilSpoiled(lines) ==
  LET spoiled == SelectInSeq(lines, LAMBDA l : l.text # "whole")
  IN [i \in 1..(IF spoiled = 0 THEN Len(lines) ELSE spoiled - 1) |-> lines[i].event]

\* readRunEvents, decodeRunEvents: whatever parses, newline or not; the rest is skipped.
readRunEvents(lines) ==
  LET read[n \in 0..Len(lines)] ==
        IF n = 0 THEN <<>>
        ELSE IF lines[n].text = "whole" THEN Append(read[n - 1], lines[n].event) ELSE read[n - 1]
  IN read[Len(lines)]

\* appendFileSync appends to whatever the last write left: a new line, or an open one.
Opened(lines, event) ==
  IF lines # <<>> /\ lines[Len(lines)].open
  THEN [lines EXCEPT ![Len(lines)].text = "spoiled"]
  ELSE Append(lines, [event |-> event, text |-> "partial", open |-> TRUE])

\* Seeded fault: only the event log is cleared.
KeptStop(requested) == requested

\* A stop request survives until the next run clears the channel.
ClearedStop(requested) == FALSE

\* Seeded fault: a restarted process is not told where the stop file is.
StopNoticedByFirst(requested, depth) == requested /\ depth = 0

\* externalStopFile: every process of the run inherits the path of the stop file.
StopNoticed(requested, depth) == requested

(***************************************************************************)
(* The child.                                                              *)
(***************************************************************************)
Exited(c, code) == [c EXCEPT !.pc = "exited", !.code = code]

\* 130 for a controlled stop, wherever the run notices it.
Stopped(c) == Exited(c, 130)

\* The exit code of a run that came to its end.
EndCode(c) == IF c.blocked THEN 3 ELSE 0

\* Seeded fault: the depth is checked after one restart too many.
MayRestartOnceMore(c) == c.depth <= MaxRestarts

\* restartProcess: PROTO_COMPASSROSE_RESTART_DEPTH.
MayRestart(c) == c.depth < MaxRestarts

\* A preflight refusal, a constructor that throws or an unknown target: exit code 1.
Boot ==
  /\ child.pc = "boot"
  /\ \/ child' = [child EXCEPT !.pc = "checkpoint"]
     \/ child' = Exited(child, 1)
  /\ UNCHANGED <<platform, log, stopFile, sup, emitted, shown, past>>

\* The first line of the loop.
Checkpoint ==
  /\ child.pc = "checkpoint"
  /\ child' = IF StopNoticed(stopFile, child.depth) THEN Stopped(child)
              ELSE [child EXCEPT !.pc = "refresh"]
  /\ UNCHANGED <<platform, log, stopFile, sup, emitted, shown, past>>

\* refreshContractsAtCheckpoint; the new process starts with empty counters, and the
\* processes above it end with its exit code.  A restart too many throws.
Refresh ==
  /\ child.pc = "refresh"
  /\ \/ ~child.stale /\ child' = [child EXCEPT !.pc = "decide"]
     \/ /\ child.stale /\ MayRestart(child)
        /\ child' = [child EXCEPT !.pc = "boot", !.depth = @ + 1, !.blocked = FALSE, !.stale = FALSE]
     \/ child.stale /\ ~MayRestart(child) /\ child' = Exited(child, 1)
  /\ UNCHANGED <<platform, log, stopFile, sup, emitted, shown, past>>

\* Someone, or the step in flight, changes the runtime's own files.
EditRuntime ==
  /\ child.pc \in Running /\ ~child.stale
  /\ child' = [child EXCEPT !.stale = TRUE]
  /\ UNCHANGED <<platform, log, stopFile, sup, emitted, shown, past>>

\* determineNextStep and onStepStart; `stop` is a step too, and the only one left at the bound.
Decide ==
  /\ child.pc = "decide"
  /\ \E kind \in Kinds :
       /\ kind # "stop" => child.event < 2 * MaxSteps
       /\ child' = [child EXCEPT !.pc = "narrate", !.kind = kind, !.event = @ + 1]
  /\ past' = [past EXCEPT !.afterRequest = @ + (IF stopFile THEN 1 ELSE 0),
                          !.afterKill = @ + (IF sup.terminated THEN 1 ELSE 0)]
  /\ UNCHANGED <<platform, log, stopFile, sup, emitted, shown>>

AfterStart(c) == [c EXCEPT !.pc = IF c.kind = "implement" THEN "agent" ELSE "wrapup"]

\* The loop goes on with `blocked` as the record of what was set aside.
AfterEnd(c, blocked) ==
  IF c.outcome = "failed" THEN Exited(c, 1)
  ELSE [c EXCEPT !.pc = IF c.kind = "stop" THEN "final" ELSE "checkpoint", !.blocked = blocked]

\* Seeded fault: a step that advances forgets what earlier steps set aside.
AfterEventForgetting(c) ==
  IF c.event % 2 = 1 THEN AfterStart(c) ELSE AfterEnd(c, c.outcome = "blocked")

\* Where the child goes once an event was appended, or could not be.
AfterEvent(c) ==
  IF c.event % 2 = 1 THEN AfterStart(c) ELSE AfterEnd(c, c.blocked \/ c.outcome = "blocked")

\* appendRunEvent, in the steps another process may observe.
OpenLine ==
  /\ child.pc = "narrate"
  /\ log' = Opened(log, child.event)
  /\ child' = [child EXCEPT !.pc = "writing"]
  /\ UNCHANGED <<platform, stopFile, sup, emitted, shown, past>>

FillLine ==
  /\ child.pc = "writing" /\ log[Len(log)].text = "partial"
  /\ log' = [log EXCEPT ![Len(log)].text = "whole"]
  /\ UNCHANGED <<platform, stopFile, child, sup, emitted, shown, past>>

CloseLine ==
  /\ child.pc = "writing" /\ log[Len(log)].text # "partial"
  /\ log' = [log EXCEPT ![Len(log)].open = FALSE]
  /\ child' = AfterEvent(child)
  /\ UNCHANGED <<platform, stopFile, sup, emitted, shown, past>>

\* The error is swallowed, whatever part of the line was written.
AppendFails ==
  /\ child.pc \in {"narrate", "writing"} /\ past.failures < MaxFailures
  /\ past' = [past EXCEPT !.failures = @ + 1]
  /\ child' = AfterEvent(child)
  /\ UNCHANGED <<platform, log, stopFile, sup, emitted, shown>>

\* The implementer returns: a checkpoint inside the step, then gates if it succeeded.
AgentReturns ==
  /\ child.pc = "agent"
  /\ \/ StopNoticed(stopFile, child.depth) /\ child' = Stopped(child)
     \/ /\ ~StopNoticed(stopFile, child.depth)
        /\ \E pc \in {"gates", "wrapup"} : child' = [child EXCEPT !.pc = pc]
  /\ UNCHANGED <<platform, log, stopFile, sup, emitted, shown, past>>

\* The gates return: the second checkpoint inside the step.
GatesReturn ==
  /\ child.pc = "gates"
  /\ child' = IF StopNoticed(stopFile, child.depth) THEN Stopped(child)
              ELSE [child EXCEPT !.pc = "wrapup"]
  /\ UNCHANGED <<platform, log, stopFile, sup, emitted, shown, past>>

\* executeStep returns, and onStepEnd follows.
StepReturns ==
  /\ child.pc = "wrapup"
  /\ \E outcome \in {"advanced", "blocked", "failed"} :
       /\ child.kind = "stop" => outcome = "advanced"
       /\ child' = [child EXCEPT !.pc = "narrate", !.event = @ + 1, !.outcome = outcome]
       /\ past' = [past EXCEPT !.blocked = @ \/ outcome = "blocked"]
  /\ UNCHANGED <<platform, log, stopFile, sup, emitted, shown>>

\* An error escaping a step, the choice of one or the contracts ends the run with 1.
RunThrows ==
  /\ child.pc \in {"refresh", "decide", "agent", "gates", "wrapup"}
  /\ child' = Exited(child, 1)
  /\ UNCHANGED <<platform, log, stopFile, sup, emitted, shown, past>>

\* After the loop.
EndRun ==
  /\ child.pc = "final"
  /\ child' = IF StopNoticed(stopFile, child.depth) THEN Stopped(child)
              ELSE Exited(child, EndCode(child))
  /\ UNCHANGED <<platform, log, stopFile, sup, emitted, shown, past>>

ChildStep ==
  \/ Boot \/ Checkpoint \/ Refresh \/ EditRuntime \/ Decide \/ OpenLine \/ FillLine \/ CloseLine
  \/ AppendFails \/ AgentReturns \/ GatesReturn \/ StepReturns \/ RunThrows \/ EndRun

(***************************************************************************)
(* The supervisor.                                                         *)
(***************************************************************************)

\* superviseRun clears the channel and spawns the child, which may fail.
StartRun ==
  /\ ~sup.watching /\ sup.runs < MaxRuns
  /\ log' = <<>> /\ stopFile' = ClearedStop(stopFile)
  /\ \E pc \in {"boot", "unspawned"} : child' = [NewChild EXCEPT !.pc = pc]
  /\ sup' = [runs |-> sup.runs + 1, watching |-> TRUE, stopRequested |-> FALSE,
             terminated |-> FALSE, exitCode |-> 0]
  /\ emitted' = 0 /\ shown' = <<>> /\ past' = NewPast
  /\ UNCHANGED platform

\* Seeded fault: the slice starts one event too early.
UnseenAndLast(events, counted) == SubSeq(events, IF counted = 0 THEN 1 ELSE counted, Len(events))

\* drainEvents: what the log holds beyond the events already counted.
Unseen(events, counted) == SubSeq(events, counted + 1, Len(events))

Drain ==
  /\ shown' = shown \o Unseen(readRunEvents(log), emitted)
  /\ emitted' = Len(readRunEvents(log))

\* The poll timer.
Tick ==
  /\ sup.watching /\ Drain
  /\ UNCHANGED <<platform, log, stopFile, child, sup, past>>

\* What terminateTree reaches.  taskkill takes the whole tree.  Elsewhere the child leads
\* no process group, so the signal goes to the first process of the run alone, which has a
\* handler for it from the moment the loop starts and no event loop to call it.
Reached(c) ==
  IF platform = "win32" THEN c.pc \in Running \cup {"boot"} ELSE c.pc = "boot" /\ c.depth = 0

\* A kill in the middle of an append loses that event.
Terminate ==
  /\ ~sup.terminated /\ child.pc # "unspawned"
  /\ sup' = [sup EXCEPT !.stopRequested = TRUE, !.terminated = TRUE]
  /\ IF Reached(child)
     THEN /\ child' = [child EXCEPT !.pc = "killed"]
          /\ past' = [past EXCEPT !.failures = @ + (IF child.pc \in {"narrate", "writing"} THEN 1 ELSE 0)]
     ELSE UNCHANGED <<child, past>>
  /\ UNCHANGED <<platform, log, stopFile, emitted, shown>>

\* The first press asks through the file, the second one terminates.
PressEsc ==
  /\ sup.watching
  /\ IF sup.stopRequested THEN Terminate
     ELSE /\ sup' = [sup EXCEPT !.stopRequested = TRUE]
          /\ stopFile' = TRUE
          /\ UNCHANGED <<platform, log, child, emitted, shown, past>>

\* Ctrl-C skips the first half: nothing is written to the stop file.
PressCtrlC ==
  /\ sup.watching
  /\ \/ Terminate
     \/ /\ sup.terminated \/ child.pc = "unspawned"
        /\ sup' = [sup EXCEPT !.stopRequested = TRUE]
        /\ UNCHANGED <<platform, log, stopFile, child, emitted, shown, past>>

\* The child's close or error event, and the last drain.
ChildCloses ==
  /\ sup.watching /\ child.pc \in Gone /\ Drain
  /\ sup' = [sup EXCEPT !.watching = FALSE,
                        !.exitCode = IF sup.terminated \/ child.pc = "killed" THEN 130 ELSE child.code]
  /\ UNCHANGED <<platform, log, stopFile, child, past>>

Next == ChildStep \/ StartRun \/ Tick \/ PressEsc \/ PressCtrlC \/ ChildCloses

Spec == Init /\ [][Next]_vars

(***************************************************************************)
(* Properties.                                                             *)
(***************************************************************************)

Returned == sup.runs > 0 /\ ~sup.watching

ProcessesOk ==
  /\ stopFile \in BOOLEAN /\ child \in Children /\ sup \in Supervisors /\ past \in Pasts

\* A run never goes deeper than three restarts (restartProcess), and everything else the
\* processes and the channel hold is of its kind.
TypeOk ==
  platform \in Platforms /\ log \in Seq(Lines) /\ emitted \in Nat /\ shown \in Seq(Nat) /\ ProcessesOk

Feed == INSTANCE EventFeed WITH narrated <- child.event, heard <- shown

\* The session sees a run's events as an ordered feed: each at most once, in the order they
\* happened, none taken back and none of an earlier run, although it re-reads the whole of a
\* file that is being written and whose lines may become unreadable after they were read
\* (superviseRun's drainEvents).
ImplementsFeed == Feed!Spec

\* Nothing is lost between the last tick and the child's end, and an append that fails costs
\* the session at most two events: its own, and the next one spoiled by or counted as it.
NarrationArrives == Returned => Len(shown) >= child.event - 2 * past.failures

\* A run reports a controlled stop only when a person asked for one in that very run: the
\* request made too late in the last run does not stop the next one (clearRunChannel).
StoppedOnlyByRequest == Returned /\ sup.exitCode = 130 => sup.stopRequested

\* After a stop request the run begins at most one more step, the one whose checkpoint was
\* already behind it, across contract restarts too (throwIfControlledStopRequested).
SoftStopIsPrompt == past.afterRequest <= 1

\* The exit code tells a caller whether something needs a human: 3 exactly when a step of the
\* run ended blocked.  Only a run that did not restart: the new process counts afresh.
ExitTellsBlocked ==
  Returned /\ sup.exitCode \in {0, 3} /\ child.depth = 0 => (sup.exitCode = 3 <=> past.blocked)

\* Refuted: terminating a run ends it; at most the step being decided begins after it.
TerminatedRunStops == past.afterKill <= 1

\* Refuted: a run asked to stop, and not terminated, lets the step in flight finish.
StepInFlightFinishes ==
  Returned /\ sup.exitCode = 130 /\ ~sup.terminated => child.event % 2 = 0
=============================================================================
