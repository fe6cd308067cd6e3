----------------------------- MODULE GridArrays ------------------------------
(***************************************************************************)
(* The arrays of a rank and the points of the sphere they stand for.       *)
(*                                                                         *)
(* An array is indexed by its row j and column i relative to the origin of *)
(* the compute domain, so its halo has negative indices or indices past    *)
(* the extent.  yi (xi) is 1 when the y (x) dimension of the array is an   *)
(* interface dimension and 0 when it is one of centres.                    *)
(* A grid g is [cube, lay, nx, h]: cubed sphere or doubly periodic tile,   *)
(* layout, cells per rank in each direction, halo points.                  *)
(***************************************************************************)
EXTENDS Partitioner

NumRanks(g) == IF g.cube THEN 6 * tile_ranks(g.lay) ELSE tile_ranks(g.lay)

boundary(g, r) == IF g.cube THEN cube_boundary(g.lay, r) ELSE tile_boundary(g.lay, r)

\* TileCommunicator.start_halo_update, start_vector_halo_update and
\* start_synchronize_vector_interfaces refuse a smaller layout.
layout_supported(g) == g.cube \/ (g.lay[1] >= 3 /\ g.lay[2] >= 3)

-----------------------------------------------------------------------------
(* Blocks of values in C order, and their rotation (ndsl/halo/rotate.py).  *)

Block(rows, cols, Elem(_, _)) ==
  [rows |-> rows, cols |-> cols,
   flat |-> [k \in 1..(rows * cols) |-> Elem((k - 1) \div cols, (k - 1) % cols)]]

At(block, j, i) == block.flat[j * block.cols + i + 1]

\* rotate_scalar_data on an array with a y and an x dimension.
rotate_scalar_data(block, rotations) ==
  LET R == block.rows
      C == block.cols
      Quarter(j, i)      == At(block, i, C - 1 - j)
      Half(j, i)         == At(block, R - 1 - j, C - 1 - i)
      ThreeQuarter(j, i) == At(block, R - 1 - i, j)
  IN  CASE rotations % 4 = 0 -> block
        [] rotations % 4 = 1 -> Block(C, R, Quarter)
        [] rotations % 4 = 2 -> Block(R, C, Half)
        [] rotations % 4 = 3 -> Block(C, R, ThreeQuarter)

\* A value is a point of the sphere, and the direction of a vector component.
Negated(value) == [value EXCEPT !.dir = [k \in 1..3 |-> - @[k]]]
NegatedBlock(block) == [block EXCEPT !.flat = [k \in DOMAIN @ |-> Negated(@[k])]]

\* Faulty variant: the sign is put on the component it is taken from.
Bug_rotate_vector_data(x, y, rotations) ==
  LET rx == rotate_scalar_data(x, rotations)
      ry == rotate_scalar_data(y, rotations)
  IN  CASE rotations % 4 = 0 -> <<rx, ry>>
        [] rotations % 4 = 1 -> <<NegatedBlock(ry), rx>>
        [] rotations % 4 = 2 -> <<NegatedBlock(rx), NegatedBlock(ry)>>
        [] rotations % 4 = 3 -> <<ry, NegatedBlock(rx)>>

rotate_vector_data(x, y, rotations) ==
  LET rx == rotate_scalar_data(x, rotations)
      ry == rotate_scalar_data(y, rotations)
  IN  CASE rotations % 4 = 0 -> <<rx, ry>>
        [] rotations % 4 = 1 -> <<ry, NegatedBlock(rx)>>
        [] rotations % 4 = 2 -> <<NegatedBlock(rx), NegatedBlock(ry)>>
        [] rotations % 4 = 3 -> <<NegatedBlock(ry), rx>>

-----------------------------------------------------------------------------
(* Which indices a boundary sends and receives                             *)
(* (ndsl/comm/_boundary_utils.py).                                         *)

\* BOUNDARY_AT_START_OF_DIM_MAPPING, for each dimension.
AtStart == [x |-> {WEST, NORTHWEST, SOUTHWEST}, y |-> {SOUTH, SOUTHWEST, SOUTHEAST}]
AtEnd   == [x |-> {EAST, NORTHEAST, SOUTHEAST}, y |-> {NORTH, NORTHWEST, NORTHEAST}]

Extent(g, interface) == g.nx + interface

\* The arrays exchanged are components of a quantity: a scalar has one.
Component(axis, yi, xi) == [axis |-> axis, yi |-> yi, xi |-> xi]

InDomain(g, c, j, i) ==
  j \in 0..(Extent(g, c.yi) - 1) /\ i \in 0..(Extent(g, c.xi) - 1)

\* The first index of a dimension to send: a shared point is not sent.
SendFrom(g, b, dim, interface) ==
  CASE b \in AtStart[dim] -> interface
    [] b \in AtEnd[dim]   -> Extent(g, interface) - interface - g.h
    [] OTHER              -> 0

\* Faulty variant: one point too far.
Bug_RecvFrom(g, b, dim, interface) ==
  CASE b \in AtStart[dim] -> - g.h
    [] b \in AtEnd[dim]   -> Extent(g, interface) + 1
    [] OTHER              -> 0

\* The first index of a dimension to receive.
RecvFrom(g, b, dim, interface) ==
  CASE b \in AtStart[dim] -> - g.h
    [] b \in AtEnd[dim]   -> Extent(g, interface)
    [] OTHER              -> 0

\* The number of indices sent or received.
SliceLen(g, b, dim, interface) ==
  IF b \in AtStart[dim] \union AtEnd[dim] THEN g.h ELSE Extent(g, interface)

-----------------------------------------------------------------------------
(* The points of the sphere.  A tile of the cube is the square             *)
(* [-L, L] x [-L, L] of coordinates (u, v), in steps of half a cell.  The  *)
(* first tile is the face x = L of a cube; mirror_grid turns it onto the   *)
(* other faces (ndsl/grid/mirror.py), whose z axis points south.  Beyond   *)
(* the edge of a face the grid goes on around the edge of the cube.        *)

HalfWidth(g) == g.lay[1] * g.nx

FacePoint(L, u, v) ==
  CASE u > L   -> <<2 * L - u, L, - v>>
    [] u < - L -> <<2 * L + u, - L, - v>>
    [] v > L   -> <<2 * L - v, u, - L>>
    [] v < - L -> <<2 * L + v, u, L>>
    [] OTHER   -> <<L, u, - v>>

\* The direction in which x (y) grows at a point of the first face.
FaceDirection(L, u, v, axis) ==
  CASE axis = "none"            -> <<0, 0, 0>>
    [] axis = "x" /\ u > L      -> <<-1, 0, 0>>
    [] axis = "x" /\ u < - L    -> <<1, 0, 0>>
    [] axis = "x" /\ u \in (- L)..L -> <<0, 1, 0>>
    [] axis = "y" /\ v > L      -> <<-1, 0, 0>>
    [] axis = "y" /\ v < - L    -> <<1, 0, 0>>
    [] axis = "y" /\ v \in (- L)..L -> <<0, 0, -1>>

\* _rot_3d, by a number of quarter turns.
Quarters(n) == [cos |-> CASE n % 4 = 0 -> 1 [] n % 4 = 2 -> -1 [] OTHER -> 0,
                sin |-> CASE n % 4 = 1 -> 1 [] n % 4 = 3 -> -1 [] OTHER -> 0]

_rot_3d(axis, p, n) ==
  LET c == Quarters(n).cos
      s == Quarters(n).sin
  IN  CASE axis = 1 -> <<p[1], c * p[2] + s * p[3], c * p[3] - s * p[2]>>
        [] axis = 2 -> <<c * p[1] - s * p[3], p[2], s * p[1] + c * p[3]>>
        [] axis = 3 -> <<c * p[1] + s * p[2], c * p[2] - s * p[1], p[3]>>

mirror_grid(tile, p) ==
  CASE tile = 0 -> p
    [] tile = 1 -> _rot_3d(3, p, -1)
    [] tile = 2 -> _rot_3d(1, _rot_3d(3, p, -1), 1)
    [] tile = 3 -> _rot_3d(1, _rot_3d(3, p, -2), 1)
    [] tile = 4 -> _rot_3d(2, _rot_3d(3, p, 1), 1)
    [] tile = 5 -> _rot_3d(2, p, 1)

\* Points of a doubly periodic tile: coordinates wrap around.
PeriodicPoint(g, u, v) == <<u % (2 * g.lay[2] * g.nx), v % (2 * g.lay[1] * g.nx), 0>>
PeriodicDirection == [none |-> <<0, 0, 0>>, x |-> <<1, 0, 0>>, y |-> <<0, 1, 0>>]

(***************************************************************************)
(* The value that belongs at index (j, i) of an array of a rank: the point *)
(* that the grid has there, and the direction of its x or y component.     *)
(***************************************************************************)
Value(g, rank, c, j, i) ==
  LET at == subtile_index(g.lay, rank)
      u  == 2 * (at.i * g.nx + i) + 1 - c.xi
      v  == 2 * (at.j * g.nx + j) + 1 - c.yi
      L  == HalfWidth(g)
      On(p) == mirror_grid(tile_index(g.lay, rank), p)
  IN  IF g.cube
      THEN [pt  |-> On(FacePoint(L, u - L, v - L)),
            dir |-> On(FaceDirection(L, u - L, v - L, c.axis))]
      ELSE [pt |-> PeriodicPoint(g, u, v), dir |-> PeriodicDirection[c.axis]]
=============================================================================
