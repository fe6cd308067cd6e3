----------------------------- MODULE MetricSpec -----------------------------
(***************************************************************************)
(* What MetricTerms promises its callers: that its terms could as well     *)
(* have been computed once, when the object was made.  Whatever was read   *)
(* before, on this rank or on another, a read of a term answers with the   *)
(* same array, and it does answer.                                         *)
(*                                                                         *)
(* Of an array only its regions are kept that hold the term: the compute   *)
(* domain "in", the halo beyond one edge of the tile "edge", and the halo  *)
(* beyond a corner of the tile "corner".                                   *)
(***************************************************************************)
EXTENDS Sequences, Naturals

CONSTANT Ranks

VARIABLES
  gridType,  \* how the grid is made, the same on every rank
  program,   \* the terms that every rank reads, in this order
  returned   \* returned[r]: what the reads of rank r have answered

vars == <<gridType, program, returned>>

Everywhere == {"in", "edge", "corner"}

\* Terms that are complete in the compute domain only: the vectors and
\* angles at cell corners, corrections, edge factors and reductions.
Inner ==
  {"l2c_v", "l2c_u", "ee1", "ee2", "cosa", "sina", "rsina", "edge_w", "edge_e",
   "edge_s", "edge_n", "edge_vect_w_1d", "edge_vect_e_1d", "edge_vect_w", "edge_vect_e",
   "edge_vect_s", "edge_vect_n", "da_min", "da_max", "da_min_c", "da_max_c"}

\* Terms that are filled beyond the corners too.
Filled ==
  {"grid", "lon", "lat", "dx", "dy", "dxa", "dya", "dxc", "dyc", "area_c", "rarea_c",
   "rdx", "rdy", "rdxa", "rdya", "rdxc", "rdyc", "ak", "bk"}

\* On a doubly periodic plane everything is constant, but for the positions
\* of the cell corners and for terms that make no sense there.
NotOnPlane ==
  {"l2c_v", "l2c_u", "ee1", "ee2", "vlon", "vlat", "z11", "z12", "z21", "z22",
   "a11", "a12", "a21", "a22", "edge_w", "edge_e", "edge_s", "edge_n",
   "edge_vect_w_1d", "edge_vect_e_1d", "edge_vect_w", "edge_vect_e", "edge_vect_s", "edge_vect_n"}

Holds(term) ==
  IF gridType = "cartesian"
  THEN CASE term \in NotOnPlane -> {}
         [] term \in {"grid", "lon", "lat", "da_min", "da_max", "da_min_c", "da_max_c"} -> {"in"}
         [] OTHER -> Everywhere
  ELSE CASE term \in Inner -> {"in"}
         [] term \in Filled -> Everywhere
         [] OTHER -> {"in", "edge"}

Init ==
  /\ gridType \in {"cubed", "external", "cartesian"}
  /\ program \in Seq(STRING)
  /\ returned = [r \in Ranks |-> <<>>]

Read(r) ==
  /\ Len(returned[r]) < Len(program)
  /\ returned' = [returned EXCEPT ![r] =
                    Append(@, Holds(program[Len(@) + 1]))]
  /\ UNCHANGED <<gridType, program>>

Next == \E r \in Ranks : Read(r)

Spec == Init /\ [][Next]_vars /\ \A r \in Ranks : WF_vars(Read(r))
=============================================================================
