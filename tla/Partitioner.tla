----------------------------- MODULE Partitioner -----------------------------
(***************************************************************************)
(* Which rank lies beyond each boundary of a rank, and how much its axes   *)
(* are rotated: TilePartitioner, a doubly periodic tile of any layout, and *)
(* CubedSpherePartitioner, six square tiles (ndsl/comm/partitioner.py).    *)
(*                                                                         *)
(* A layout lay is <<rows, columns>>; ranks are numbered by rows within a  *)
(* tile, and tile after tile.  Everything here is a pure function of the   *)
(* layout and the rank, as in the code, where the results are cached.      *)
(***************************************************************************)
EXTENDS Integers, Sequences

WEST == "west"             EAST == "east"
NORTH == "north"           SOUTH == "south"
NORTHWEST == "northwest"   NORTHEAST == "northeast"
SOUTHWEST == "southwest"   SOUTHEAST == "southeast"

BOUNDARY_TYPES == <<NORTH, SOUTH, WEST, EAST,
                    NORTHWEST, NORTHEAST, SOUTHWEST, SOUTHEAST>>

\* A boundary: the rank beyond it, and n_clockwise_rotations.
Boundary(to, rot) == [to |-> to, rot |-> rot]
\* None: no edge of the code has a negative rotation.
NoBoundary == Boundary(-1, -1)

tile_ranks(lay) == lay[1] * lay[2]

subtile_index(lay, rank) ==
  LET within == rank % tile_ranks(lay)
  IN  [j |-> within \div lay[2], i |-> within % lay[2]]

on_tile_left(lay, rank)   == subtile_index(lay, rank).i = 0
on_tile_right(lay, rank)  == subtile_index(lay, rank).i = lay[2] - 1
on_tile_top(lay, rank)    == subtile_index(lay, rank).j = lay[1] - 1
on_tile_bottom(lay, rank) == subtile_index(lay, rank).j = 0

\* _get_corner: cross the first edge, then the second edge of that rank.
Corner(edge_1, edge_2) == Boundary(edge_2.to, edge_1.rot + edge_2.rot)

-----------------------------------------------------------------------------
(* TilePartitioner: edges wrap around.                                     *)

tile_left(lay, rank) ==
  Boundary(IF on_tile_left(lay, rank) THEN rank + lay[2] - 1 ELSE rank - 1, 0)

tile_right(lay, rank) ==
  Boundary(IF on_tile_right(lay, rank) THEN rank - lay[2] + 1 ELSE rank + 1, 0)

tile_top(lay, rank) ==
  Boundary(IF on_tile_top(lay, rank) THEN rank - (lay[1] - 1) * lay[2]
                                     ELSE rank + lay[2], 0)

tile_bottom(lay, rank) ==
  Boundary(IF on_tile_bottom(lay, rank) THEN rank + (lay[1] - 1) * lay[2]
                                        ELSE rank - lay[2], 0)

tile_boundary(lay, rank) ==
  LET w == tile_left(lay, rank)
      e == tile_right(lay, rank)
  IN  [west |-> w, east |-> e,
       north |-> tile_top(lay, rank), south |-> tile_bottom(lay, rank),
       northwest |-> Corner(w, tile_top(lay, w.to)),
       northeast |-> Corner(e, tile_top(lay, e.to)),
       southwest |-> Corner(w, tile_bottom(lay, w.to)),
       southeast |-> Corner(e, tile_bottom(lay, e.to))]

-----------------------------------------------------------------------------
(* CubedSpherePartitioner.  An even tile meets the tile two before it on   *)
(* its left and two after it on its top, an odd one the reverse; there the *)
(* axes turn, and the row of ranks along the edge meets a column.          *)

tile_index(lay, rank) == rank \div tile_ranks(lay)
tile_root_rank(lay, rank) == tile_ranks(lay) * (rank \div tile_ranks(lay))
is_even(value) == value % 2 = 0
EvenTile(lay, rank) == is_even(tile_index(lay, rank))

\* Where a rank of a tile goes when the tile is turned a quarter.
rotate_subtile_rank(lay, rank) ==
  LET at == subtile_index(lay, rank)
  IN  lay[2] * (lay[2] - 1 - at.i) + at.j

\* Where it goes when the tile is flipped left to right.
fliplr_subtile_rank(lay, rank) ==
  LET at == subtile_index(lay, rank)
  IN  lay[2] * at.j + lay[2] - 1 - at.i

\* The place, within the other tile, of the rank across a turning edge.
Turned(lay, rank) ==
  fliplr_subtile_rank(lay, rotate_subtile_rank(lay, rank % tile_ranks(lay)))

Moved(edge, by) == Boundary(edge.to + by, edge.rot)

left_edge(lay, rank) ==
  IF on_tile_left(lay, rank)
  THEN IF EvenTile(lay, rank)
       THEN Boundary(tile_root_rank(lay, rank - 2 * tile_ranks(lay)) + Turned(lay, rank), 1)
       ELSE Moved(tile_left(lay, rank), - tile_ranks(lay))
  ELSE tile_left(lay, rank)

right_edge(lay, rank) ==
  IF on_tile_right(lay, rank)
  THEN IF ~ EvenTile(lay, rank)
       THEN Boundary(tile_root_rank(lay, rank + 2 * tile_ranks(lay)) + Turned(lay, rank), 1)
       ELSE Moved(tile_right(lay, rank), tile_ranks(lay))
  ELSE tile_right(lay, rank)

top_edge(lay, rank) ==
  IF on_tile_top(lay, rank)
  THEN IF EvenTile(lay, rank)
       THEN Boundary((tile_index(lay, rank) + 2) * tile_ranks(lay) + Turned(lay, rank), 3)
       ELSE Moved(tile_top(lay, rank), tile_ranks(lay))
  ELSE tile_top(lay, rank)

bottom_edge(lay, rank) ==
  IF on_tile_bottom(lay, rank)
  THEN IF ~ EvenTile(lay, rank)
       THEN Boundary((tile_index(lay, rank) - 2) * tile_ranks(lay) + Turned(lay, rank), 3)
       ELSE Moved(tile_bottom(lay, rank), - tile_ranks(lay))
  ELSE tile_bottom(lay, rank)

(***************************************************************************)
(* The corners.  There is none across a vertex of the cube; along an edge  *)
(* where the axes turn, the second edge is the one that points the same    *)
(* way in the axes of the rank reached by the first.                       *)
(***************************************************************************)
top_left_corner(lay, rank) ==
  LET first == left_edge(lay, rank)
  IN  IF on_tile_top(lay, rank) /\ on_tile_left(lay, rank) THEN NoBoundary
      ELSE IF EvenTile(lay, rank) /\ on_tile_left(lay, rank)
           THEN Corner(first, left_edge(lay, first.to))
           ELSE Corner(first, top_edge(lay, first.to))

\* Faulty variant: the second edge ignores that the axes turn.
Bug_top_right_corner(lay, rank) ==
  LET first == top_edge(lay, rank)
  IN  IF on_tile_top(lay, rank) /\ on_tile_right(lay, rank) THEN NoBoundary
      ELSE Corner(first, right_edge(lay, first.to))

top_right_corner(lay, rank) ==
  LET first == top_edge(lay, rank)
  IN  IF on_tile_top(lay, rank) /\ on_tile_right(lay, rank) THEN NoBoundary
      ELSE IF EvenTile(lay, rank) /\ on_tile_top(lay, rank)
           THEN Corner(first, bottom_edge(lay, first.to))
           ELSE Corner(first, right_edge(lay, first.to))

bottom_left_corner(lay, rank) ==
  LET first == bottom_edge(lay, rank)
  IN  IF on_tile_bottom(lay, rank) /\ on_tile_left(lay, rank) THEN NoBoundary
      ELSE IF ~ EvenTile(lay, rank) /\ on_tile_bottom(lay, rank)
           THEN Corner(first, top_edge(lay, first.to))
           ELSE Corner(first, left_edge(lay, first.to))

bottom_right_corner(lay, rank) ==
  LET first == bottom_edge(lay, rank)
  IN  IF on_tile_bottom(lay, rank) /\ on_tile_right(lay, rank) THEN NoBoundary
      ELSE IF ~ EvenTile(lay, rank) /\ on_tile_bottom(lay, rank)
           THEN Corner(first, bottom_edge(lay, first.to))
           ELSE Corner(first, right_edge(lay, first.to))

cube_boundary(lay, rank) ==
  LET OnCube(b) == IF b = NoBoundary THEN b ELSE [b EXCEPT !.to = @ % (6 * tile_ranks(lay))]
  IN  [west |-> OnCube(left_edge(lay, rank)), east |-> OnCube(right_edge(lay, rank)),
       north |-> OnCube(top_edge(lay, rank)), south |-> OnCube(bottom_edge(lay, rank)),
       northwest |-> OnCube(top_left_corner(lay, rank)),
       northeast |-> OnCube(top_right_corner(lay, rank)),
       southwest |-> OnCube(bottom_left_corner(lay, rank)),
       southeast |-> OnCube(bottom_right_corner(lay, rank))]
=============================================================================
