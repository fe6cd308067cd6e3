------------------------------ MODULE MCComms ------------------------------
(***************************************************************************)
(* The two communicators that stand in for MPI, side by side: LocalComm,   *)
(* for ranks run one after the other, and the writer and reader of a       *)
(* recorded communication (CachingComm).  A behaviour is one of one of     *)
(* them; the other stays in its initial state.                             *)
(***************************************************************************)
EXTENDS LocalComm, CachingComm

CONSTANT Communicators  \* subset of {"local", "recorded"}

VARIABLE communicator

MCInit == Init /\ RecordingInit /\ communicator \in Communicators

MCNext ==
  \/ communicator = "local" /\ Next /\ UNCHANGED <<communicator, recording>>
  \/ communicator = "recorded" /\ RecordingNext /\ UNCHANGED <<communicator, vars>>

MCSpec == MCInit /\ [][MCNext]_<<vars, communicator, recording>>

-----------------------------------------------------------------------------

\* Three ranks: ranks 0 and 2 on one tile, rank 1 on another; ranks 0 and 1
\* exchange messages.
ThreeRanks == 0 .. 2
TwoTiles   == [r \in 0 .. 2 |-> r % 2]
Pairs      == {<<0, 1>>, <<1, 0>>}
AllOps     == {"bcast", "scatter", "gather", "Send", "Recv", "Irecv"}
AllRules   == {"split_in_order", "wait_in_order", "gather_in_rounds"}

\* Every program of calls on a communicator and one Split from it.
AllCalls == {"bcast", "Scatter", "GatherRoot", "GatherOther", "Recv", "Irecv",
             "allreduce", "Split"}
=============================================================================
