------------------------ MODULE RunSupervision_proofs ------------------------
(***************************************************************************)
(* What a stop request and an exit code mean, for any number of runs,      *)
(* steps and failing appends.  None of it depends on what the log holds.   *)
(***************************************************************************)
EXTENDS RunSupervision, TLAPS

\* Only a watched run has a live process.
Watched == ~sup.watching => child.pc \in Gone \cup {"none"}

\* Everything that ends a run with 130 was asked for in that run.
Asked ==
  /\ sup.terminated => sup.stopRequested
  /\ sup.watching /\ stopFile => sup.stopRequested
  /\ sup.watching /\ child.pc = "killed" => sup.stopRequested
  /\ sup.watching /\ child.pc = "exited" /\ child.code = 130 => sup.stopRequested
  /\ Returned /\ sup.exitCode = 130 => sup.stopRequested

\* A step begun after the request is followed by a checkpoint before the next choice.
Prompt ==
  \/ past.afterRequest = 0
  \/ past.afterRequest = 1 /\ stopFile /\ child.pc \notin {"refresh", "decide"}

\* Between two steps an even number of events was narrated, inside a step an odd one.
Parity ==
  /\ child.pc \in {"boot", "checkpoint", "refresh", "decide", "final"} => child.event % 2 = 0
  /\ child.pc \in {"agent", "gates", "wrapup"} => child.event % 2 = 1

\* A blocked step whose end is being narrated has not reached the loop's own record yet.
Pending == child.pc \in {"narrate", "writing"} /\ child.event % 2 = 0 /\ child.outcome = "blocked"

Counted ==
  /\ child.pc \in Running \cup {"boot"} /\ child.depth = 0
       => (past.blocked <=> child.blocked \/ Pending)
  /\ child.pc = "exited" /\ child.code \in {0, 3} /\ child.depth = 0
       => (child.code = 3 <=> past.blocked)
  /\ child.pc = "unspawned" => child.code = 1
  /\ Returned /\ sup.exitCode \in {0, 3} => child.pc = "exited" /\ child.code = sup.exitCode

SInv == ProcessesOk /\ Watched /\ Asked /\ Prompt /\ Parity /\ Counted

\* The states a process is put into.
LEMMA PlacesAre ==
  \A pc \in {"checkpoint", "refresh", "decide", "narrate", "writing", "agent", "gates", "wrapup",
             "final", "unspawned", "exited", "killed", "none", "boot"} : pc \in Places
BY DEF Places, Running, Gone

\* A process goes from one state to another, or exits with one of the codes.
LEMMA SetPc ==
  ASSUME NEW c \in Children
  PROVE  /\ \A pc \in Places : [c EXCEPT !.pc = pc] \in Children
         /\ \A code \in {0, 1, 3, 130} : Exited(c, code) \in Children
<1>1. "exited" \in Places BY PlacesAre
<1> QED BY <1>1 DEF Children, Exited

\* So it does once an event was appended, or could not be.
LEMMA AfterEventOk == ASSUME NEW c \in Children PROVE AfterEvent(c) \in Children
<1>2. AfterStart(c) \in Children BY PlacesAre, SetPc DEF AfterStart
<1>3. ASSUME NEW blocked \in BOOLEAN PROVE AfterEnd(c, blocked) \in Children
  <2>1. CASE c.outcome = "failed" BY <2>1, SetPc DEF AfterEnd
  <2>2. CASE c.outcome # "failed" BY <2>2, PlacesAre DEF AfterEnd, Children
  <2> QED BY <2>1, <2>2
<1>4. (c.blocked \/ c.outcome = "blocked") \in BOOLEAN OBVIOUS
<1> QED BY <1>2, <1>3, <1>4 DEF AfterEvent

\* A fresh process is one.
LEMMA FreshChild ==
  ASSUME NEW pc \in {"none", "boot", "unspawned"}
  PROVE  [NewChild EXCEPT !.pc = pc] \in Children
<1>1. NewChild \in Children BY DEF NewChild, Children, Kinds, MaxRestarts, Places
<1>2. pc \in Places BY PlacesAre
<1> QED BY <1>1, <1>2, SetPc

\* The invariant holds before the first run.
LEMMA InitSInv == ASSUME Init PROVE SInv
<1>1. ProcessesOk
  <2>1. child \in Children BY FreshChild DEF Init
  <2>2. 0 \in 0..MaxRuns BY BoundsAssumption
  <2> QED BY <2>1, <2>2 DEF Init, NewPast, ProcessesOk, Supervisors, Pasts
<1> USE DEF Init, NewChild, NewPast
<1>2. Watched BY DEF Watched, Gone
<1>3. Asked BY DEF Asked, Returned
<1>4. Prompt BY DEF Prompt
<1>5. Parity BY DEF Parity
<1>6. Counted BY DEF Counted, Returned, Running
<1> QED BY <1>1, <1>2, <1>3, <1>4, <1>5, <1>6 DEF SInv

\* The successors of a number are even and odd by turns.
LEMMA NextParity ==
  ASSUME NEW n \in Nat
  PROVE  /\ n % 2 \in {0, 1}
         /\ n % 2 = 0 => (n + 1) % 2 = 1
         /\ n % 2 = 1 => (n + 1) % 2 = 0
OBVIOUS

\* Booting, checkpoints, restarts and the end of a run preserve the invariant.
LEMMA LoopSInv ==
  ASSUME SInv,
         Boot \/ Checkpoint \/ Refresh \/ EditRuntime \/ RunThrows \/ EndRun
  PROVE  SInv'
<1>1. CASE Boot /\ child' = [child EXCEPT !.pc = "checkpoint"]
  <2>1. ProcessesOk'
    <3>1. child' \in Children BY <1>1, SetPc, PlacesAre DEF SInv, ProcessesOk, Boot
    <3> QED BY <1>1, <3>1 DEF SInv, ProcessesOk, Boot
  <2>2. Watched' BY <1>1 DEF SInv, ProcessesOk, Children, Supervisors, Watched, Running, Gone, Boot
  <2>3. Asked'
    BY <1>1 DEF SInv, ProcessesOk, Children, Supervisors, Asked, Watched, Returned, Running, Gone,
       Boot
  <2>4. Prompt'
    BY <1>1 DEF SInv, ProcessesOk, Children, Supervisors, Pasts, Prompt, Watched, Running, Gone,
       Boot
  <2>5. Parity' BY <1>1 DEF SInv, ProcessesOk, Children, Parity, Running, Boot
  <2>6. Counted'
    BY <1>1 DEF SInv, ProcessesOk, Children, Supervisors, Pasts, Counted, Parity, Pending,
       Watched, Returned, Running, Gone, Boot
  <2> QED BY <2>1, <2>2, <2>3, <2>4, <2>5, <2>6 DEF SInv
<1>2. CASE Boot /\ child' = Exited(child, 1)
  <2>1. ProcessesOk'
    <3>1. child' \in Children BY <1>2, SetPc, PlacesAre DEF SInv, ProcessesOk, Boot, Exited
    <3> QED BY <1>2, <3>1 DEF SInv, ProcessesOk, Boot, Exited
  <2>2. Watched'
    BY <1>2 DEF SInv, ProcessesOk, Children, Supervisors, Watched, Running, Gone, Boot, Exited
  <2>3. Asked'
    BY <1>2 DEF SInv, ProcessesOk, Children, Supervisors, Asked, Watched, Returned, Running, Gone,
       Boot, Exited
  <2>4. Prompt'
    BY <1>2 DEF SInv, ProcessesOk, Children, Supervisors, Pasts, Prompt, Watched, Running, Gone,
       Boot, Exited
  <2>5. Parity' BY <1>2 DEF SInv, ProcessesOk, Children, Parity, Running, Boot, Exited
  <2>6. Counted'
    BY <1>2 DEF SInv, ProcessesOk, Children, Supervisors, Pasts, Counted, Parity, Pending,
       Watched, Returned, Running, Gone, Boot, Exited
  <2> QED BY <2>1, <2>2, <2>3, <2>4, <2>5, <2>6 DEF SInv
<1>3. CASE Checkpoint
  <2>1. ProcessesOk'
    <3>1. child' \in Children
      BY <1>3, SetPc, PlacesAre DEF SInv, ProcessesOk, Checkpoint, StopNoticed, Stopped, Exited
    <3> QED BY <1>3, <3>1 DEF SInv, ProcessesOk, Checkpoint, StopNoticed, Stopped, Exited
  <2>2. Watched'
    BY <1>3 DEF SInv, ProcessesOk, Children, Supervisors, Watched, Running, Gone, Checkpoint,
       StopNoticed, Stopped, Exited
  <2>3. Asked'
    BY <1>3 DEF SInv, ProcessesOk, Children, Supervisors, Asked, Watched, Returned, Running, Gone,
       Checkpoint, StopNoticed, Stopped, Exited
  <2>4. Prompt'
    BY <1>3 DEF SInv, ProcessesOk, Children, Supervisors, Pasts, Prompt, Watched, Running, Gone,
       Checkpoint, StopNoticed, Stopped, Exited
  <2>5. Parity'
    BY <1>3 DEF SInv, ProcessesOk, Children, Parity, Running, Checkpoint, StopNoticed, Stopped,
       Exited
  <2>6. Counted'
    BY <1>3 DEF SInv, ProcessesOk, Children, Supervisors, Pasts, Counted, Parity, Pending,
       Watched, Returned, Running, Gone, Checkpoint, StopNoticed, Stopped, Exited
  <2> QED BY <2>1, <2>2, <2>3, <2>4, <2>5, <2>6 DEF SInv
<1>4. CASE Refresh /\ child' = [child EXCEPT !.pc = "decide"]
  <2>1. ProcessesOk'
    <3>1. child' \in Children BY <1>4, SetPc, PlacesAre DEF SInv, ProcessesOk, Refresh
    <3> QED BY <1>4, <3>1 DEF SInv, ProcessesOk, Refresh
  <2>2. Watched'
    BY <1>4 DEF SInv, ProcessesOk, Children, Supervisors, Watched, Running, Gone, Refresh
  <2>3. Asked'
    BY <1>4 DEF SInv, ProcessesOk, Children, Supervisors, Asked, Watched, Returned, Running, Gone,
       Refresh
  <2>4. Prompt'
    BY <1>4 DEF SInv, ProcessesOk, Children, Supervisors, Pasts, Prompt, Watched, Running, Gone,
       Refresh
  <2>5. Parity' BY <1>4 DEF SInv, ProcessesOk, Children, Parity, Running, Refresh
  <2>6. Counted'
    BY <1>4 DEF SInv, ProcessesOk, Children, Supervisors, Pasts, Counted, Parity, Pending,
       Watched, Returned, Running, Gone, Refresh
  <2> QED BY <2>1, <2>2, <2>3, <2>4, <2>5, <2>6 DEF SInv
<1>5. CASE /\ Refresh /\ MayRestart(child)
           /\ child' = [child EXCEPT !.pc = "boot", !.depth = @ + 1, !.blocked = FALSE,
                                     !.stale = FALSE]
  <2>1. ProcessesOk'
    <3>1. child' \in Children
      <4>1. child.depth + 1 \in 0..MaxRestarts
        BY <1>5 DEF MayRestart, MaxRestarts, SInv, ProcessesOk, Children
      <4>2. "boot" \in Places BY PlacesAre
      <4> QED BY <1>5, <4>1, <4>2 DEF SInv, ProcessesOk, Children
    <3> QED BY <1>5, <3>1 DEF SInv, ProcessesOk, Refresh, MayRestart, MaxRestarts
  <2>2. Watched'
    BY <1>5 DEF SInv, ProcessesOk, Children, Supervisors, Watched, Running, Gone, Refresh,
       MayRestart, MaxRestarts
  <2>3. Asked'
    BY <1>5 DEF SInv, ProcessesOk, Children, Supervisors, Asked, Watched, Returned, Running, Gone,
       Refresh, MayRestart, MaxRestarts
  <2>4. Prompt'
    BY <1>5 DEF SInv, ProcessesOk, Children, Supervisors, Pasts, Prompt, Watched, Running, Gone,
       Refresh, MayRestart, MaxRestarts
  <2>5. Parity'
    BY <1>5 DEF SInv, ProcessesOk, Children, Parity, Running, Refresh, MayRestart, MaxRestarts
  <2>6. Counted'
    BY <1>5 DEF SInv, ProcessesOk, Children, Supervisors, Pasts, Counted, Parity, Pending,
       Watched, Returned, Running, Gone, Refresh, MayRestart, MaxRestarts
  <2> QED BY <2>1, <2>2, <2>3, <2>4, <2>5, <2>6 DEF SInv
<1>6. CASE Refresh /\ child' = Exited(child, 1)
  <2>1. ProcessesOk'
    <3>1. child' \in Children BY <1>6, SetPc, PlacesAre DEF SInv, ProcessesOk, Refresh, Exited
    <3> QED BY <1>6, <3>1 DEF SInv, ProcessesOk, Refresh, Exited
  <2>2. Watched'
    BY <1>6 DEF SInv, ProcessesOk, Children, Supervisors, Watched, Running, Gone, Refresh, Exited
  <2>3. Asked'
    BY <1>6 DEF SInv, ProcessesOk, Children, Supervisors, Asked, Watched, Returned, Running, Gone,
       Refresh, Exited
  <2>4. Prompt'
    BY <1>6 DEF SInv, ProcessesOk, Children, Supervisors, Pasts, Prompt, Watched, Running, Gone,
       Refresh, Exited
  <2>5. Parity' BY <1>6 DEF SInv, ProcessesOk, Children, Parity, Running, Refresh, Exited
  <2>6. Counted'
    BY <1>6 DEF SInv, ProcessesOk, Children, Supervisors, Pasts, Counted, Parity, Pending,
       Watched, Returned, Running, Gone, Refresh, Exited
  <2> QED BY <2>1, <2>2, <2>3, <2>4, <2>5, <2>6 DEF SInv
<1>7. CASE EditRuntime
  <2>1. ProcessesOk'
    <3>1. child' \in Children BY <1>7, SetPc, PlacesAre DEF SInv, ProcessesOk, EditRuntime, Children
    <3> QED BY <1>7, <3>1 DEF SInv, ProcessesOk, EditRuntime
  <2>2. Watched'
    BY <1>7 DEF SInv, ProcessesOk, Children, Supervisors, Watched, Running, Gone, EditRuntime
  <2>3. Asked'
    BY <1>7 DEF SInv, ProcessesOk, Children, Supervisors, Asked, Watched, Returned, Running, Gone,
       EditRuntime
  <2>4. Prompt'
    BY <1>7 DEF SInv, ProcessesOk, Children, Supervisors, Pasts, Prompt, Watched, Running, Gone,
       EditRuntime
  <2>5. Parity' BY <1>7 DEF SInv, ProcessesOk, Children, Parity, Running, EditRuntime
  <2>6. Counted'
    BY <1>7 DEF SInv, ProcessesOk, Children, Supervisors, Pasts, Counted, Parity, Pending,
       Watched, Returned, Running, Gone, EditRuntime
  <2> QED BY <2>1, <2>2, <2>3, <2>4, <2>5, <2>6 DEF SInv
<1>8. CASE RunThrows
  <2>1. ProcessesOk'
    <3>1. child' \in Children BY <1>8, SetPc, PlacesAre DEF SInv, ProcessesOk, RunThrows, Exited
    <3> QED BY <1>8, <3>1 DEF SInv, ProcessesOk, RunThrows, Exited
  <2>2. Watched'
    BY <1>8 DEF SInv, ProcessesOk, Children, Supervisors, Watched, Running, Gone, RunThrows,
       Exited
  <2>3. Asked'
    BY <1>8 DEF SInv, ProcessesOk, Children, Supervisors, Asked, Watched, Returned, Running, Gone,
       RunThrows, Exited
  <2>4. Prompt'
    BY <1>8 DEF SInv, ProcessesOk, Children, Supervisors, Pasts, Prompt, Watched, Running, Gone,
       RunThrows, Exited
  <2>5. Parity' BY <1>8 DEF SInv, ProcessesOk, Children, Parity, Running, RunThrows, Exited
  <2>6. Counted'
    BY <1>8 DEF SInv, ProcessesOk, Children, Supervisors, Pasts, Counted, Parity, Pending,
       Watched, Returned, Running, Gone, RunThrows, Exited
  <2> QED BY <2>1, <2>2, <2>3, <2>4, <2>5, <2>6 DEF SInv
<1>9. CASE EndRun
  <2>1. ProcessesOk'
    <3>1. child' \in Children
      BY <1>9, SetPc, PlacesAre DEF SInv, ProcessesOk, EndRun, EndCode, StopNoticed, Stopped
    <3> QED BY <1>9, <3>1 DEF SInv, ProcessesOk, EndRun, EndCode, StopNoticed, Stopped, Exited
  <2>2. Watched'
    BY <1>9 DEF SInv, ProcessesOk, Children, Supervisors, Watched, Running, Gone, EndRun, EndCode,
       StopNoticed, Stopped, Exited
  <2>3. Asked'
    BY <1>9 DEF SInv, ProcessesOk, Children, Supervisors, Asked, Watched, Returned, Running, Gone,
       EndRun, EndCode, StopNoticed, Stopped, Exited
  <2>4. Prompt'
    BY <1>9 DEF SInv, ProcessesOk, Children, Supervisors, Pasts, Prompt, Watched, Running, Gone,
       EndRun, EndCode, StopNoticed, Stopped, Exited
  <2>5. Parity'
    BY <1>9 DEF SInv, ProcessesOk, Children, Parity, Running, EndRun, EndCode, StopNoticed,
       Stopped, Exited
  <2>6. Counted'
    BY <1>9 DEF SInv, ProcessesOk, Children, Supervisors, Pasts, Counted, Parity, Pending,
       Watched, Returned, Running, Gone, EndRun, EndCode, StopNoticed, Stopped, Exited
  <2> QED BY <2>1, <2>2, <2>3, <2>4, <2>5, <2>6 DEF SInv
<1> QED BY <1>1, <1>2, <1>3, <1>4, <1>5, <1>6, <1>7, <1>8, <1>9 DEF Boot, Refresh

\* The steps of a step preserve the invariant.
LEMMA StepSInv ==
  ASSUME SInv,
         Decide \/ AgentReturns \/ GatesReturn \/ StepReturns
  PROVE  SInv'
<1>1. CASE Decide
  <2>1. ProcessesOk'
    <3>1. child' \in Children
      <4>1. child.event + 1 \in Nat /\ "narrate" \in Places
        BY PlacesAre DEF SInv, ProcessesOk, Children
      <4>2. PICK kind \in Kinds :
              child' = [child EXCEPT !.pc = "narrate", !.kind = kind, !.event = @ + 1]
        BY <1>1 DEF Decide
      <4> QED BY <4>1, <4>2 DEF SInv, ProcessesOk, Children
    <3>2. past' \in Pasts
      <4>1. (IF stopFile THEN 1 ELSE 0) \in Nat /\ (IF sup.terminated THEN 1 ELSE 0) \in Nat OBVIOUS
      <4>2. /\ past.afterRequest + (IF stopFile THEN 1 ELSE 0) \in Nat
            /\ past.afterKill + (IF sup.terminated THEN 1 ELSE 0) \in Nat
        BY <4>1 DEF SInv, ProcessesOk, Pasts
      <4> QED BY <1>1, <4>2 DEF Decide, SInv, ProcessesOk, Pasts
    <3> QED BY <1>1, <3>1, <3>2 DEF SInv, ProcessesOk, Decide
  <2>2. Watched'
    BY <1>1, NextParity DEF SInv, ProcessesOk, Children, Supervisors, Watched, Running, Gone,
       Decide, Kinds
  <2>3. Asked'
    BY <1>1, NextParity DEF SInv, ProcessesOk, Children, Supervisors, Asked, Watched, Returned,
       Running, Gone, Decide, Kinds
  <2>4. Prompt'
    BY <1>1, NextParity DEF SInv, ProcessesOk, Children, Supervisors, Pasts, Prompt, Watched,
       Running, Gone, Decide, Kinds
  <2>5. Parity' BY <1>1, NextParity DEF SInv, ProcessesOk, Children, Parity, Running, Decide, Kinds
  <2>6. Counted'
    BY <1>1, NextParity DEF SInv, ProcessesOk, Children, Supervisors, Pasts, Counted, Parity,
       Pending, Watched, Returned, Running, Gone, Decide, Kinds
  <2> QED BY <2>1, <2>2, <2>3, <2>4, <2>5, <2>6 DEF SInv
<1>2. CASE AgentReturns /\ child' = Stopped(child)
  <2>1. ProcessesOk'
    <3>1. child' \in Children BY <1>2, SetPc, PlacesAre DEF SInv, ProcessesOk, Stopped
    <3> QED BY <1>2, <3>1 DEF SInv, ProcessesOk, AgentReturns, StopNoticed, Stopped, Exited
  <2>2. Watched'
    BY <1>2 DEF SInv, ProcessesOk, Children, Supervisors, Watched, Running, Gone, AgentReturns,
       StopNoticed, Stopped, Exited
  <2>3. Asked'
    BY <1>2 DEF SInv, ProcessesOk, Children, Supervisors, Asked, Watched, Returned, Running, Gone,
       AgentReturns, StopNoticed, Stopped, Exited
  <2>4. Prompt'
    BY <1>2 DEF SInv, ProcessesOk, Children, Supervisors, Pasts, Prompt, Watched, Running, Gone,
       AgentReturns, StopNoticed, Stopped, Exited
  <2>5. Parity'
    BY <1>2 DEF SInv, ProcessesOk, Children, Parity, Running, AgentReturns, StopNoticed, Stopped,
       Exited
  <2>6. Counted'
    BY <1>2 DEF SInv, ProcessesOk, Children, Supervisors, Pasts, Counted, Parity, Pending,
       Watched, Returned, Running, Gone, AgentReturns, StopNoticed, Stopped, Exited
  <2> QED BY <2>1, <2>2, <2>3, <2>4, <2>5, <2>6 DEF SInv
<1>3. CASE AgentReturns /\ child' = [child EXCEPT !.pc = "gates"]
  <2>1. ProcessesOk'
    <3>1. child' \in Children BY <1>3, SetPc, PlacesAre DEF SInv, ProcessesOk, AgentReturns
    <3> QED BY <1>3, <3>1 DEF SInv, ProcessesOk, AgentReturns
  <2>2. Watched'
    BY <1>3 DEF SInv, ProcessesOk, Children, Supervisors, Watched, Running, Gone, AgentReturns
  <2>3. Asked'
    BY <1>3 DEF SInv, ProcessesOk, Children, Supervisors, Asked, Watched, Returned, Running, Gone,
       AgentReturns
  <2>4. Prompt'
    BY <1>3 DEF SInv, ProcessesOk, Children, Supervisors, Pasts, Prompt, Watched, Running, Gone,
       AgentReturns
  <2>5. Parity' BY <1>3 DEF SInv, ProcessesOk, Children, Parity, Running, AgentReturns
  <2>6. Counted'
    BY <1>3 DEF SInv, ProcessesOk, Children, Supervisors, Pasts, Counted, Parity, Pending,
       Watched, Returned, Running, Gone, AgentReturns
  <2> QED BY <2>1, <2>2, <2>3, <2>4, <2>5, <2>6 DEF SInv
<1>4. CASE AgentReturns /\ child' = [child EXCEPT !.pc = "wrapup"]
  <2>1. ProcessesOk'
    <3>1. child' \in Children BY <1>4, SetPc, PlacesAre DEF SInv, ProcessesOk, AgentReturns
    <3> QED BY <1>4, <3>1 DEF SInv, ProcessesOk, AgentReturns
  <2>2. Watched'
    BY <1>4 DEF SInv, ProcessesOk, Children, Supervisors, Watched, Running, Gone, AgentReturns
  <2>3. Asked'
    BY <1>4 DEF SInv, ProcessesOk, Children, Supervisors, Asked, Watched, Returned, Running, Gone,
       AgentReturns
  <2>4. Prompt'
    BY <1>4 DEF SInv, ProcessesOk, Children, Supervisors, Pasts, Prompt, Watched, Running, Gone,
       AgentReturns
  <2>5. Parity' BY <1>4 DEF SInv, ProcessesOk, Children, Parity, Running, AgentReturns
  <2>6. Counted'
    BY <1>4 DEF SInv, ProcessesOk, Children, Supervisors, Pasts, Counted, Parity, Pending,
       Watched, Returned, Running, Gone, AgentReturns
  <2> QED BY <2>1, <2>2, <2>3, <2>4, <2>5, <2>6 DEF SInv
<1>5. CASE GatesReturn
  <2>1. ProcessesOk'
    <3>1. child' \in Children
      BY <1>5, SetPc, PlacesAre DEF SInv, ProcessesOk, GatesReturn, StopNoticed, Stopped
    <3> QED BY <1>5, <3>1 DEF SInv, ProcessesOk, GatesReturn, StopNoticed, Stopped, Exited
  <2>2. Watched'
    BY <1>5 DEF SInv, ProcessesOk, Children, Supervisors, Watched, Running, Gone, GatesReturn,
       StopNoticed, Stopped, Exited
  <2>3. Asked'
    BY <1>5 DEF SInv, ProcessesOk, Children, Supervisors, Asked, Watched, Returned, Running, Gone,
       GatesReturn, StopNoticed, Stopped, Exited
  <2>4. Prompt'
    BY <1>5 DEF SInv, ProcessesOk, Children, Supervisors, Pasts, Prompt, Watched, Running, Gone,
       GatesReturn, StopNoticed, Stopped, Exited
  <2>5. Parity'
    BY <1>5 DEF SInv, ProcessesOk, Children, Parity, Running, GatesReturn, StopNoticed, Stopped,
       Exited
  <2>6. Counted'
    BY <1>5 DEF SInv, ProcessesOk, Children, Supervisors, Pasts, Counted, Parity, Pending,
       Watched, Returned, Running, Gone, GatesReturn, StopNoticed, Stopped, Exited
  <2> QED BY <2>1, <2>2, <2>3, <2>4, <2>5, <2>6 DEF SInv
<1>6. CASE StepReturns
  <2>1. ProcessesOk'
    <3>1. child' \in Children
      <4>1. child.event + 1 \in Nat /\ "narrate" \in Places
        BY PlacesAre DEF SInv, ProcessesOk, Children
      <4>2. PICK outcome \in {"advanced", "blocked", "failed"} :
              child' = [child EXCEPT !.pc = "narrate", !.event = @ + 1, !.outcome = outcome]
        BY <1>6 DEF StepReturns
      <4> QED BY <4>1, <4>2 DEF SInv, ProcessesOk, Children
    <3>2. past' \in Pasts BY <1>6 DEF SInv, ProcessesOk, Pasts, StepReturns
    <3> QED BY <1>6, <3>1, <3>2 DEF SInv, ProcessesOk, StepReturns
  <2>2. Watched'
    BY <1>6, NextParity DEF SInv, ProcessesOk, Children, Supervisors, Watched, Running, Gone,
       StepReturns
  <2>3. Asked'
    BY <1>6, NextParity DEF SInv, ProcessesOk, Children, Supervisors, Asked, Watched, Returned,
       Running, Gone, StepReturns
  <2>4. Prompt'
    BY <1>6, NextParity DEF SInv, ProcessesOk, Children, Supervisors, Pasts, Prompt, Watched,
       Running, Gone, StepReturns
  <2>5. Parity' BY <1>6, NextParity DEF SInv, ProcessesOk, Children, Parity, Running, StepReturns
  <2>6. Counted'
    BY <1>6, NextParity DEF SInv, ProcessesOk, Children, Supervisors, Pasts, Counted, Parity,
       Pending, Watched, Returned, Running, Gone, StepReturns
  <2> QED BY <2>1, <2>2, <2>3, <2>4, <2>5, <2>6 DEF SInv
<1> QED BY <1>1, <1>2, <1>3, <1>4, <1>5, <1>6 DEF AgentReturns

\* Narration, whether it reaches the log or not, preserves the invariant.
LEMMA NarrationSInv ==
  ASSUME SInv, OpenLine \/ FillLine \/ CloseLine \/ AppendFails
  PROVE  SInv'
<1>1. CASE OpenLine
  <2>1. ProcessesOk'
    <3>1. child' \in Children BY <1>1, SetPc, PlacesAre DEF SInv, ProcessesOk, OpenLine
    <3> QED BY <1>1, <3>1 DEF SInv, ProcessesOk, OpenLine
  <2>2. Watched'
    BY <1>1 DEF SInv, ProcessesOk, Children, Supervisors, Watched, Running, Gone, OpenLine
  <2>3. Asked'
    BY <1>1 DEF SInv, ProcessesOk, Children, Supervisors, Asked, Watched, Returned, Running, Gone,
       OpenLine
  <2>4. Prompt'
    BY <1>1 DEF SInv, ProcessesOk, Children, Supervisors, Pasts, Prompt, Watched, Running, Gone,
       OpenLine
  <2>5. Parity' BY <1>1 DEF SInv, ProcessesOk, Children, Parity, Running, OpenLine
  <2>6. Counted'
    BY <1>1 DEF SInv, ProcessesOk, Children, Supervisors, Pasts, Counted, Parity, Pending,
       Watched, Returned, Running, Gone, OpenLine
  <2> QED BY <2>1, <2>2, <2>3, <2>4, <2>5, <2>6 DEF SInv
<1>2. CASE FillLine
  <2>1. ProcessesOk'
    <3>1. child' \in Children BY <1>2, SetPc, PlacesAre DEF SInv, ProcessesOk, FillLine
    <3> QED BY <1>2, <3>1 DEF SInv, ProcessesOk, FillLine
  <2>2. Watched'
    BY <1>2 DEF SInv, ProcessesOk, Children, Supervisors, Watched, Running, Gone, FillLine
  <2>3. Asked'
    BY <1>2 DEF SInv, ProcessesOk, Children, Supervisors, Asked, Watched, Returned, Running, Gone,
       FillLine
  <2>4. Prompt'
    BY <1>2 DEF SInv, ProcessesOk, Children, Supervisors, Pasts, Prompt, Watched, Running, Gone,
       FillLine
  <2>5. Parity' BY <1>2 DEF SInv, ProcessesOk, Children, Parity, Running, FillLine
  <2>6. Counted'
    BY <1>2 DEF SInv, ProcessesOk, Children, Supervisors, Pasts, Counted, Parity, Pending,
       Watched, Returned, Running, Gone, FillLine
  <2> QED BY <2>1, <2>2, <2>3, <2>4, <2>5, <2>6 DEF SInv
<1>3. CASE CloseLine
  <2>1. ProcessesOk'
    <3>1. child' \in Children BY <1>3, AfterEventOk DEF SInv, ProcessesOk, CloseLine
    <3> QED BY <1>3, <3>1 DEF SInv, ProcessesOk, CloseLine
  <2>2. Watched'
    BY <1>3, NextParity DEF SInv, ProcessesOk, Children, Supervisors, Watched, Running, Gone,
       CloseLine, AfterEvent, AfterStart, AfterEnd, Exited
  <2>3. Asked'
    BY <1>3, NextParity DEF SInv, ProcessesOk, Children, Supervisors, Asked, Watched, Returned,
       Running, Gone, CloseLine, AfterEvent, AfterStart, AfterEnd, Exited
  <2>4. Prompt'
    BY <1>3, NextParity DEF SInv, ProcessesOk, Children, Supervisors, Pasts, Prompt, Watched,
       Running, Gone, CloseLine, AfterEvent, AfterStart, AfterEnd, Exited
  <2>5. Parity'
    BY <1>3, NextParity DEF SInv, ProcessesOk, Children, Parity, Running, CloseLine, AfterEvent,
       AfterStart, AfterEnd, Exited
  <2>6. Counted'
    BY <1>3, NextParity DEF SInv, ProcessesOk, Children, Supervisors, Pasts, Counted, Parity,
       Pending, Watched, Returned, Running, Gone, CloseLine, AfterEvent, AfterStart, AfterEnd,
       Exited
  <2> QED BY <2>1, <2>2, <2>3, <2>4, <2>5, <2>6 DEF SInv
<1>4. CASE AppendFails
  <2>1. ProcessesOk'
    <3>1. child' \in Children BY <1>4, AfterEventOk DEF SInv, ProcessesOk, AppendFails
    <3>2. past' \in Pasts BY <1>4 DEF SInv, ProcessesOk, Pasts, AppendFails
    <3> QED BY <1>4, <3>1, <3>2 DEF SInv, ProcessesOk, AppendFails
  <2>2. Watched'
    BY <1>4, NextParity DEF SInv, ProcessesOk, Children, Supervisors, Watched, Running, Gone,
       AppendFails, AfterEvent, AfterStart, AfterEnd, Exited
  <2>3. Asked'
    BY <1>4, NextParity DEF SInv, ProcessesOk, Children, Supervisors, Asked, Watched, Returned,
       Running, Gone, AppendFails, AfterEvent, AfterStart, AfterEnd, Exited
  <2>4. Prompt'
    BY <1>4, NextParity DEF SInv, ProcessesOk, Children, Supervisors, Pasts, Prompt, Watched,
       Running, Gone, AppendFails, AfterEvent, AfterStart, AfterEnd, Exited
  <2>5. Parity'
    BY <1>4, NextParity DEF SInv, ProcessesOk, Children, Parity, Running, AppendFails, AfterEvent,
       AfterStart, AfterEnd, Exited
  <2>6. Counted'
    BY <1>4, NextParity DEF SInv, ProcessesOk, Children, Supervisors, Pasts, Counted, Parity,
       Pending, Watched, Returned, Running, Gone, AppendFails, AfterEvent, AfterStart, AfterEnd,
       Exited
  <2> QED BY <2>1, <2>2, <2>3, <2>4, <2>5, <2>6 DEF SInv
<1> QED BY <1>1, <1>2, <1>3, <1>4

\* The supervisor's handlers preserve the invariant.
LEMMA SupervisorSInv ==
  ASSUME SInv,
         StartRun \/ Tick \/ PressEsc \/ PressCtrlC \/ ChildCloses
  PROVE  SInv'
<1>1. CASE StartRun
  <2>1. ProcessesOk' 
    <3>1. child' \in Children BY <1>1, FreshChild DEF StartRun
    <3>2. sup.runs + 1 \in 0..MaxRuns
      BY <1>1, BoundsAssumption DEF StartRun, SInv, ProcessesOk, Supervisors
    <3> QED BY <1>1, <3>1, <3>2 DEF StartRun, ClearedStop, NewPast, ProcessesOk, Supervisors, Pasts
  <2>2. Watched'
    BY <1>1 DEF SInv, ProcessesOk, Children, Supervisors, Watched, Running, Gone, StartRun,
       ClearedStop, NewChild, NewPast
  <2>3. Asked'
    BY <1>1 DEF SInv, ProcessesOk, Children, Supervisors, Asked, Watched, Returned, Running, Gone,
       StartRun, ClearedStop, NewChild, NewPast
  <2>4. Prompt'
    BY <1>1 DEF SInv, ProcessesOk, Children, Supervisors, Pasts, Prompt, Watched, Running, Gone,
       StartRun, ClearedStop, NewChild, NewPast
  <2>5. Parity'
    BY <1>1 DEF SInv, ProcessesOk, Children, Parity, Running, StartRun, ClearedStop, NewChild,
       NewPast
  <2>6. Counted'
    BY <1>1 DEF SInv, ProcessesOk, Children, Supervisors, Pasts, Counted, Parity, Pending,
       Watched, Returned, Running, Gone, StartRun, ClearedStop, NewChild, NewPast
  <2> QED BY <2>1, <2>2, <2>3, <2>4, <2>5, <2>6 DEF SInv
<1>2. CASE Tick
  <2>1. ProcessesOk'
    <3>1. child' \in Children BY <1>2, SetPc, PlacesAre DEF SInv, ProcessesOk, Tick
    <3>2. sup' \in Supervisors BY <1>2 DEF SInv, ProcessesOk, Supervisors, Tick
    <3> QED BY <1>2, <3>1, <3>2 DEF SInv, ProcessesOk, Tick
  <2>2. Watched' BY <1>2 DEF SInv, ProcessesOk, Children, Supervisors, Watched, Running, Gone, Tick
  <2>3. Asked'
    BY <1>2 DEF SInv, ProcessesOk, Children, Supervisors, Asked, Watched, Returned, Running, Gone,
       Tick
  <2>4. Prompt'
    BY <1>2 DEF SInv, ProcessesOk, Children, Supervisors, Pasts, Prompt, Watched, Running, Gone,
       Tick
  <2>5. Parity' BY <1>2 DEF SInv, ProcessesOk, Children, Parity, Running, Tick
  <2>6. Counted'
    BY <1>2 DEF SInv, ProcessesOk, Children, Supervisors, Pasts, Counted, Parity, Pending,
       Watched, Returned, Running, Gone, Tick
  <2> QED BY <2>1, <2>2, <2>3, <2>4, <2>5, <2>6 DEF SInv
<1>3. ASSUME Terminate, sup.watching PROVE SInv'
  <2>1. ProcessesOk'
    <3>1. child' \in Children BY <1>3, SetPc, PlacesAre DEF SInv, ProcessesOk, Terminate, Reached
    <3>2. sup' \in Supervisors BY <1>3 DEF SInv, ProcessesOk, Supervisors, Terminate
    <3>3. past' \in Pasts BY <1>3 DEF SInv, ProcessesOk, Pasts, Terminate
    <3> QED BY <1>3, <3>1, <3>2, <3>3 DEF SInv, ProcessesOk, Terminate
  <2>2. Watched'
    BY <1>3 DEF SInv, ProcessesOk, Children, Supervisors, Watched, Running, Gone, Terminate,
       Reached
  <2>3. Asked'
    BY <1>3 DEF SInv, ProcessesOk, Children, Supervisors, Asked, Watched, Returned, Running, Gone,
       Terminate, Reached
  <2>4. Prompt'
    BY <1>3 DEF SInv, ProcessesOk, Children, Supervisors, Pasts, Prompt, Watched, Running, Gone,
       Terminate, Reached
  <2>5. Parity' BY <1>3 DEF SInv, ProcessesOk, Children, Parity, Running, Terminate, Reached
  <2>6. Counted'
    BY <1>3 DEF SInv, ProcessesOk, Children, Supervisors, Pasts, Counted, Parity, Pending,
       Watched, Returned, Running, Gone, Terminate, Reached
  <2> QED BY <2>1, <2>2, <2>3, <2>4, <2>5, <2>6 DEF SInv
<1>4. CASE PressEsc /\ ~sup.stopRequested
  <2>1. ProcessesOk'
    <3>1. child' \in Children BY <1>4, SetPc, PlacesAre DEF SInv, ProcessesOk, PressEsc
    <3>2. sup' \in Supervisors
      <4>1. sup' = [sup EXCEPT !.stopRequested = TRUE] BY <1>4 DEF PressEsc
      <4> QED BY <4>1 DEF SInv, ProcessesOk, Supervisors
    <3> QED BY <1>4, <3>1, <3>2 DEF SInv, ProcessesOk, PressEsc
  <2>2. Watched'
    BY <1>4 DEF SInv, ProcessesOk, Children, Supervisors, Watched, Running, Gone, PressEsc
  <2>3. Asked'
    BY <1>4 DEF SInv, ProcessesOk, Children, Supervisors, Asked, Watched, Returned, Running, Gone,
       PressEsc
  <2>4. Prompt'
    BY <1>4 DEF SInv, ProcessesOk, Children, Supervisors, Pasts, Prompt, Watched, Running, Gone,
       PressEsc
  <2>5. Parity' BY <1>4 DEF SInv, ProcessesOk, Children, Parity, Running, PressEsc
  <2>6. Counted'
    BY <1>4 DEF SInv, ProcessesOk, Children, Supervisors, Pasts, Counted, Parity, Pending,
       Watched, Returned, Running, Gone, PressEsc
  <2> QED BY <2>1, <2>2, <2>3, <2>4, <2>5, <2>6 DEF SInv
<1>5. CASE PressCtrlC /\ ~Terminate
  <2>1. ProcessesOk'
    <3>1. child' \in Children BY <1>5, SetPc, PlacesAre DEF SInv, ProcessesOk, PressCtrlC
    <3>2. sup' \in Supervisors BY <1>5 DEF SInv, ProcessesOk, Supervisors, PressCtrlC
    <3> QED BY <1>5, <3>1, <3>2 DEF SInv, ProcessesOk, PressCtrlC
  <2>2. Watched'
    BY <1>5 DEF SInv, ProcessesOk, Children, Supervisors, Watched, Running, Gone, PressCtrlC
  <2>3. Asked'
    BY <1>5 DEF SInv, ProcessesOk, Children, Supervisors, Asked, Watched, Returned, Running, Gone,
       PressCtrlC
  <2>4. Prompt'
    BY <1>5 DEF SInv, ProcessesOk, Children, Supervisors, Pasts, Prompt, Watched, Running, Gone,
       PressCtrlC
  <2>5. Parity' BY <1>5 DEF SInv, ProcessesOk, Children, Parity, Running, PressCtrlC
  <2>6. Counted'
    BY <1>5 DEF SInv, ProcessesOk, Children, Supervisors, Pasts, Counted, Parity, Pending,
       Watched, Returned, Running, Gone, PressCtrlC
  <2> QED BY <2>1, <2>2, <2>3, <2>4, <2>5, <2>6 DEF SInv
<1>6. CASE ChildCloses
  <2>1. ProcessesOk'
    <3>1. child' \in Children BY <1>6, SetPc, PlacesAre DEF SInv, ProcessesOk, ChildCloses
    <3>2. sup' \in Supervisors BY <1>6 DEF SInv, ProcessesOk, Supervisors, Children, ChildCloses
    <3> QED BY <1>6, <3>1, <3>2 DEF SInv, ProcessesOk, ChildCloses
  <2>2. Watched'
    BY <1>6 DEF SInv, ProcessesOk, Children, Supervisors, Watched, Running, Gone, ChildCloses
  <2>3. Asked'
    <3>1. sup \in Supervisors /\ sup.watching /\ child.pc \in Gone /\ Asked
      BY <1>6 DEF ChildCloses, SInv, ProcessesOk
    <3>2. /\ sup'.watching = FALSE /\ sup'.stopRequested = sup.stopRequested
          /\ sup'.terminated = sup.terminated
          /\ sup'.exitCode = IF sup.terminated \/ child.pc = "killed" THEN 130 ELSE child.code
      BY <1>6, <3>1 DEF ChildCloses, Supervisors
    <3>3. child.pc = "unspawned" => child.code = 1 BY DEF SInv, Counted
    <3>4. sup'.exitCode = 130 => sup.stopRequested BY <3>1, <3>2, <3>3 DEF Asked, Gone
    <3> QED BY <3>1, <3>2, <3>4 DEF Asked
  <2>4. Prompt'
    BY <1>6 DEF SInv, ProcessesOk, Children, Supervisors, Pasts, Prompt, Watched, Running, Gone,
       ChildCloses
  <2>5. Parity' BY <1>6 DEF SInv, ProcessesOk, Children, Parity, Running, ChildCloses
  <2>6. Counted'
    BY <1>6 DEF SInv, ProcessesOk, Children, Supervisors, Pasts, Counted, Parity, Pending,
       Watched, Returned, Running, Gone, ChildCloses
  <2> QED BY <2>1, <2>2, <2>3, <2>4, <2>5, <2>6 DEF SInv
<1>7. CASE PressEsc BY <1>3, <1>4, <1>7 DEF PressEsc
<1>8. CASE PressCtrlC BY <1>3, <1>5, <1>8 DEF PressCtrlC
<1> QED BY <1>1, <1>2, <1>6, <1>7, <1>8

\* A step that changes nothing preserves the invariant.
LEMMA StutterSInv == ASSUME SInv, UNCHANGED vars PROVE SInv'
<1> USE DEF vars
<1>1. ProcessesOk' BY DEF SInv, ProcessesOk
<1>2. Watched' BY DEF SInv, Watched
<1>3. Asked' BY DEF SInv, Asked, Returned
<1>4. Prompt' BY DEF SInv, Prompt
<1>5. Parity' BY DEF SInv, Parity
<1>6. Counted' BY DEF SInv, Counted, Pending, Returned
<1> QED BY <1>1, <1>2, <1>3, <1>4, <1>5, <1>6 DEF SInv

\* The invariant holds in every state of every session.
THEOREM Invariance == Spec => []SInv
<1>1. SInv /\ [Next]_vars => SInv'
  <2> SUFFICES ASSUME SInv, [Next]_vars PROVE SInv' OBVIOUS
  <2>1. CASE Boot \/ Checkpoint \/ Refresh \/ EditRuntime \/ RunThrows \/ EndRun
    BY <2>1, LoopSInv
  <2>2. CASE Decide \/ AgentReturns \/ GatesReturn \/ StepReturns
    BY <2>2, StepSInv
  <2>3. CASE OpenLine \/ FillLine \/ CloseLine \/ AppendFails
    BY <2>3, NarrationSInv
  <2>4. CASE StartRun \/ Tick \/ PressEsc \/ PressCtrlC \/ ChildCloses
    BY <2>4, SupervisorSInv
  <2>5. CASE UNCHANGED vars BY <2>5, StutterSInv
  <2> QED BY <2>1, <2>2, <2>3, <2>4, <2>5 DEF Next, ChildStep
<1> QED BY InitSInv, <1>1, PTL DEF Spec

\* A run reports a controlled stop only when a person asked for one in that run.
THEOREM StopIsAskedFor == Spec => []StoppedOnlyByRequest
<1>1. SInv => StoppedOnlyByRequest BY DEF SInv, Asked, StoppedOnlyByRequest
<1> QED BY <1>1, Invariance, PTL

\* After a stop request at most one more step begins, restarts included.
THEOREM StopIsPrompt == Spec => []SoftStopIsPrompt
<1>1. SInv => SoftStopIsPrompt BY DEF SInv, Prompt, SoftStopIsPrompt
<1> QED BY <1>1, Invariance, PTL

\* A run that did not restart exits with 3 exactly when one of its steps ended blocked.
THEOREM ExitCodeIsTrue == Spec => []ExitTellsBlocked
<1>1. SInv => ExitTellsBlocked
  <2>1. Counted => ExitTellsBlocked BY DEF Counted, ExitTellsBlocked
  <2> QED BY <2>1 DEF SInv
<1> QED BY <1>1, Invariance, PTL
=============================================================================
