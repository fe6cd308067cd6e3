----------------------------- MODULE MonitorSpec -----------------------------
(***************************************************************************)
(* What a monitor promises (ndsl/monitor/protocol.py): the states it is    *)
(* given are appended, in order, to what is on disk; it may wait before it *)
(* writes, but nothing written is lost, and in the end everything is there *)
(* ("Append the model state dictionary to the stored data").               *)
(***************************************************************************)
EXTENDS Sequences, Naturals

VARIABLES
  stored,  \* the states given to the monitor
  written  \* the states that are in its files

vars == <<stored, written>>

Init == stored = <<>> /\ written = <<>>

\* A state is accepted; what has been accepted may be written at once.
Store ==
  /\ Len(stored') = Len(stored) + 1
  /\ SubSeq(stored', 1, Len(stored)) = stored
  /\ written' \in {written, stored'}

\* What has been accepted is written.
Write ==
  /\ written' = stored
  /\ UNCHANGED stored

Next == Store \/ Write

Spec == Init /\ [][Next]_vars /\ <>[](written = stored)
=============================================================================
