---------------------------- MODULE MCExchanges ----------------------------
(***************************************************************************)
(* The two exchanges of arrays, of halos (HaloRegions) and of shared edges *)
(* (SharedEdges), side by side: a behaviour is one of one of them, and the *)
(* variables of the other keep None.                                       *)
(***************************************************************************)
EXTENDS Integers

CONSTANTS
  Layouts,          \* the layouts of the cubed spheres and of the periodic tiles
  CellCounts,       \* the numbers of cells per rank in each direction
  EdgeCellCounts,   \* the same, for the exchange of edges
  HaloWidths        \* the numbers of halo points

ASSUME LayoutAssumption == Layouts \subseteq (Nat \ {0}) \X (Nat \ {0})

VARIABLES
  exchange,                            \* "halos" or "edges"
  grid,                                \* of both
  rank, field, phase, todo, data,      \* of HaloRegions
  pair, waiting, edges                 \* of SharedEdges

Halos == INSTANCE HaloRegions
Edges == INSTANCE SharedEdges WITH CellCounts <- EdgeCellCounts

None == <<>>

vars == <<exchange, grid, rank, field, phase, todo, data, pair, waiting, edges>>

Init ==
  \/ /\ exchange = "halos" /\ Halos!Init
     /\ pair = None /\ waiting = None /\ edges = None
  \/ /\ exchange = "edges" /\ Edges!Init
     /\ rank = None /\ field = None /\ phase = None /\ todo = None /\ data = None

Next ==
  \/ exchange = "halos" /\ Halos!Next /\ UNCHANGED <<exchange, pair, waiting, edges>>
  \/ exchange = "edges" /\ Edges!Next /\ UNCHANGED <<exchange, rank, field, phase, todo, data>>

Spec == Init /\ [][Next]_vars

-----------------------------------------------------------------------------

\* Every point of the halo gets what its owner sent (HaloRegions).
EveryPointInPlace == exchange = "halos" => Halos!EveryPointInPlace

\* The same of an updater on any layout (HaloRegions).
UpdatersPointsInPlace == exchange = "halos" => Halos!UpdatersPointsInPlace

\* After the exchange no point of the halo is left out (HaloRegions).
HaloComplete == exchange = "halos" => Halos!HaloComplete

\* Each boundary is the other side's boundary once (HaloRegions).
OneBoundaryEachWay == exchange = "halos" => Halos!OneBoundaryEachWay

\* A received edge is in its place, turned as the tile is (SharedEdges).
EdgesInPlace == exchange = "edges" => Edges!EdgesInPlace

\* Both ranks end with the same values on their edge (SharedEdges).
SharedEdgesAgree == exchange = "edges" => Edges!SharedEdgesAgree

\* What one rank waits for, the other sends (SharedEdges).
EverySendHasAReceiver == exchange = "edges" => Edges!EverySendHasAReceiver

-----------------------------------------------------------------------------

\* Cubed spheres of one, four and nine ranks per tile, and periodic tiles of
\* the same and of a layout that is not square: with three ranks along an edge
\* there are ranks at a corner, on an edge and in the middle of a tile.
MCLayouts == {<<1, 1>>, <<2, 2>>, <<3, 3>>, <<3, 4>>}

\* A periodic tile that start_halo_update refuses.
SmallTile == {<<2, 2>>}
=============================================================================
