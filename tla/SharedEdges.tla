----------------------------- MODULE SharedEdges -----------------------------
(***************************************************************************)
(* The data of synchronize_vector_interfaces: both ranks at an edge have   *)
(* computed the vector components that lie on it; the rank to the north or *)
(* to the east of the edge sends its values and the other rank overwrites  *)
(* its own (VectorInterfaceHaloUpdater in ndsl/halo/updater.py).           *)
(*                                                                         *)
(* Two ranks of one grid are followed while they receive.  Only the north  *)
(* and east edges of a rank are received, and only its south and west      *)
(* edges sent, when the call starts: what is sent does not depend on what  *)
(* other ranks have received.                                              *)
(***************************************************************************)
EXTENDS GridArrays, TLC

CONSTANTS
  Layouts,    \* the layouts of the cubed spheres and of the periodic tiles
  CellCounts  \* the numbers of cells per rank in each direction

VARIABLES
  grid,     \* the grid, see GridArrays
  pair,     \* the two ranks that are followed
  waiting,  \* waiting[k]: the receives that pair[k] has not waited on
  edges     \* edges[k]: the arrays of pair[k], by component and index

vars == <<grid, pair, waiting, edges>>

\* The components: x on the y interfaces, y on the x interfaces.
X == Component("x", 1, 0)
Y == Component("y", 0, 1)
Components == [x |-> X, y |-> Y]

Grids ==
  {g \in [cube : BOOLEAN, lay : Layouts, nx : CellCounts] :
     (g.cube => g.lay[1] = g.lay[2]) /\ layout_supported(g)}

\* What a rank computed: its own value of a component at a point.
Computed(g, r, c, j, i) == [owner |-> r] @@ Value(g, r, c, j, i)

Elements(g) ==
  UNION {{c} \X (0..(Extent(g, Components[c].yi) - 1))
             \X (0..(Extent(g, Components[c].xi) - 1)) : c \in {"x", "y"}}

Arrays(g, r) ==
  [e \in Elements(g) |-> Computed(g, r, Components[e[1]], e[2], e[3])]

Neighbours(g, r) == {boundary(g, r)[b].to : b \in {WEST, EAST, NORTH, SOUTH}}

Init ==
  /\ grid \in Grids
  /\ \E r \in 0..(NumRanks(grid) - 1) : \E s \in Neighbours(grid, r) : pair = <<r, s>>
  /\ waiting = [k \in 1..2 |-> <<NORTH, EAST>>]
  /\ edges = [k \in 1..2 |-> Arrays(grid, pair[k])]

-----------------------------------------------------------------------------
\* rotate_scalar_data on an array with only an x, or only a y, dimension.
rotate_row(row, axis, rotations) ==
  LET Flipped == [k \in DOMAIN row |-> row[Len(row) + 1 - k]]
  IN  CASE rotations % 4 = 0 -> row
        [] rotations % 4 = 1 -> IF axis = "x" THEN Flipped ELSE row
        [] rotations % 4 = 2 -> Flipped
        [] rotations % 4 = 3 -> IF axis = "y" THEN Flipped ELSE row

Negate(row, when) == IF when THEN [k \in DOMAIN row |-> Negated(row[k])] ELSE row

SouthEdge(g, r) == [k \in 1..g.nx |-> Computed(g, r, X, 0, k - 1)]
WestEdge(g, r)  == [k \in 1..g.nx |-> Computed(g, r, Y, k - 1, 0)]

\* Faulty variant: the sign of the west edge is that of the south edge.
Bug_Sends(g, r) ==
  LET south == boundary(g, r)[SOUTH]
      west  == boundary(g, r)[WEST]
  IN  <<[to |-> south.to,
         row |-> Negate(rotate_row(SouthEdge(g, r), "x", - south.rot), south.rot \in {2, 3})],
        [to |-> west.to,
         row |-> Negate(rotate_row(WestEdge(g, r), "y", - west.rot), west.rot \in {2, 3})]>>

\* _Isend_vector_shared_boundary: what r sends, in order and with one tag.
Sends(g, r) ==
  LET south == boundary(g, r)[SOUTH]
      west  == boundary(g, r)[WEST]
  IN  <<[to |-> south.to,
         row |-> Negate(rotate_row(SouthEdge(g, r), "x", - south.rot), south.rot \in {2, 3})],
        [to |-> west.to,
         row |-> Negate(rotate_row(WestEdge(g, r), "y", - west.rot), west.rot \in {1, 2})]>>

\* Faulty variant: the edges are exchanged the other way.
Bug_Source(g, r, side) ==
  boundary(g, r)[IF side = NORTH THEN SOUTH ELSE WEST].to

\* _Irecv_vector_shared_boundary: whom r receives an edge from.
Source(g, r, side) == boundary(g, r)[side].to

\* The messages that r is sent by rank s, in the order MPI delivers them.
Messages(g, s, r) == SelectSeq(Sends(g, s), LAMBDA m : m.to = r)

\* The message a receive of r gets: the n-th receive from a rank, its n-th.
Received(g, r, side) ==
  LET n == IF side = EAST /\ Source(g, r, EAST) = Source(g, r, NORTH) THEN 2 ELSE 1
  IN  Messages(g, Source(g, r, side), r)[n].row

\* Faulty variant: one interface too far.
Bug_Edge(g, side, k) ==
  IF side = NORTH THEN <<"x", g.nx + 1, k - 1>> ELSE <<"y", k - 1, g.nx + 1>>

\* The elements of the edge that a receive is copied to.
Edge(g, side, k) ==
  IF side = NORTH THEN <<"x", g.nx, k - 1>> ELSE <<"y", k - 1, g.nx>>

\* HaloUpdateRequest.wait: the next receive is complete and is copied out.
Wait(k) ==
  /\ waiting[k] # <<>>
  /\ LET side == Head(waiting[k])
     IN  \E row \in {Received(grid, pair[k], side)} :
           edges' = [edges EXCEPT ![k] =
                       [e \in {Edge(grid, side, n) : n \in 1..grid.nx} |->
                          row[CHOOSE n \in 1..grid.nx : Edge(grid, side, n) = e]] @@ @]
  /\ waiting' = [waiting EXCEPT ![k] = Tail(@)]
  /\ UNCHANGED <<grid, pair>>

Next == \E k \in 1..2 : Wait(k)

Spec == Init /\ [][Next]_vars

-----------------------------------------------------------------------------
(* Properties.                                                             *)

TypeOK ==
  /\ grid \in Grids
  /\ pair \in (0..(NumRanks(grid) - 1)) \X (0..(NumRanks(grid) - 1))
  /\ waiting \in [1..2 -> {<<NORTH, EAST>>, <<EAST>>, <<>>}]
  /\ \A k \in 1..2 : DOMAIN edges[k] = Elements(grid)

(***************************************************************************)
(* An element always holds a value of its own place on the sphere, along   *)
(* its own local axis and with the right sign, whichever rank computed it: *)
(* along a turning edge an x component of one rank is a y component of the *)
(* other, read in the opposite order and with the opposite sign.           *)
(***************************************************************************)
EdgesInPlace ==
  \A k \in 1..2 : \A e \in Elements(grid) :
    LET here == Value(grid, pair[k], Components[e[1]], e[2], e[3])
    IN  edges[k][e].pt = here.pt /\ edges[k][e].dir = here.dir

(***************************************************************************)
(* When two ranks have received their edges, every point they share holds  *)
(* on both the value that one of the two computed.  (A rank is never its   *)
(* own neighbour.)                                                         *)
(***************************************************************************)
SharedEdgesAgree ==
  waiting = [k \in 1..2 |-> <<>>] =>
    \A e, f \in Elements(grid) :
      LET mine   == edges[1][e]
          theirs == edges[2][f]
          parallel == mine.dir \in {theirs.dir, Negated(theirs).dir}
      IN  mine.pt = theirs.pt /\ parallel => mine.owner = theirs.owner

(***************************************************************************)
(* What the exchange protocol takes for granted (TopologyAssumption of     *)
(* HaloExchange): a rank sends its two edges to different ranks, receives  *)
(* its two edges from different ranks, and whoever sends it something is   *)
(* one that it receives from.                                              *)
(***************************************************************************)
EverySendHasAReceiver ==
  \A k \in 1..2 :
    LET r == pair[k]
        ReceivesFrom(s, t) == \E side \in {NORTH, EAST} : Source(grid, s, side) = t
        SendsTo(s, t) == \E n \in 1..2 : Sends(grid, s)[n].to = t
    IN  /\ Sends(grid, r)[1].to # Sends(grid, r)[2].to
        /\ Source(grid, r, NORTH) # Source(grid, r, EAST)
        /\ \A s \in Neighbours(grid, r) : SendsTo(s, r) <=> ReceivesFrom(r, s)
=============================================================================
