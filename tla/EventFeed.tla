------------------------------ MODULE EventFeed ------------------------------
(***************************************************************************)
(* What a supervised run promises whoever watches it: the numbered events  *)
(* of the run are heard in the order they were narrated, each at most once, *)
(* possibly late, possibly not all of them; nothing heard is taken back,   *)
(* and a new run starts a new feed.                                        *)
(***************************************************************************)
EXTENDS Naturals, SequencesExt

VARIABLES
  narrated,  \* the number of events of the run so far
  heard      \* the ones its watcher was told of

vars == <<narrated, heard>>

Init == narrated = 0 /\ heard = <<>>

\* A step of the run begins or ends.
Emit == narrated' = narrated + 1 /\ UNCHANGED heard

\* The watcher is told of some later events.
Hear ==
  /\ IsPrefix(heard, heard')
  /\ \A i \in 1..Len(heard') :
       /\ heard'[i] \in 1..narrated
       /\ \A j \in 1..(i - 1) : heard'[j] < heard'[i]
  /\ UNCHANGED narrated

\* The next run.
NewRun == narrated' = 0 /\ heard' = <<>>

Next == Emit \/ Hear \/ NewRun

Spec == Init /\ [][Next]_vars
=============================================================================
