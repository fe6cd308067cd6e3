----------------------------- MODULE HaloRegions -----------------------------
(***************************************************************************)
(* The data of a halo update: which points of its neighbours a rank        *)
(* receives, in which place, with which sign.  HaloUpdater sorts the       *)
(* boundaries by target rank; a HaloDataTransformer for each target cuts   *)
(* the slices, rotates them and packs them in one buffer, and unpacks the  *)
(* buffer of that rank into the halo (ndsl/halo/updater.py,                *)
(* ndsl/halo/data_transformer.py).  How the buffers travel is the subject  *)
(* of module HaloExchange.                                                 *)
(*                                                                         *)
(* One rank of one grid is followed; what the others send depends on their *)
(* compute domain only, so they take no steps.                             *)
(***************************************************************************)
EXTENDS GridArrays, SequencesExt

CONSTANTS
  Layouts,     \* the layouts of the cubed spheres and of the periodic tiles
  CellCounts,  \* the numbers of cells per rank in each direction
  HaloWidths   \* the numbers of halo points

VARIABLES
  grid,    \* the grid, see GridArrays
  rank,    \* the rank that is followed
  field,   \* the components of the quantity or quantities exchanged
  phase,   \* "new", "exchange"
  todo,    \* the boundaries that are still to be unpacked
  data     \* data[c, j, i]: index (j, i) of the array of component c

vars == <<grid, rank, field, phase, todo, data>>

\* Scalars at centres and at corners, vectors on the four Arakawa grids.
Fields ==
  {<<Component("none", k, k)>> : k \in {0, 1}} \union
  {<<Component("x", k, l), Component("y", l, k)>> : k, l \in {0, 1}}

\* An array element that was never written.
Unset == [pt |-> <<>>, dir |-> <<0, 0, 0>>]

Cells(g, f) ==
  UNION {{k} \X (- g.h..(Extent(g, f[k].yi) + g.h - 1))
             \X (- g.h..(Extent(g, f[k].xi) + g.h - 1)) : k \in DOMAIN f}

\* The arrays of a rank before the exchange.
Fresh(g, r, f, cell) ==
  IF InDomain(g, f[cell[1]], cell[2], cell[3])
  THEN Value(g, r, f[cell[1]], cell[2], cell[3]) ELSE Unset

Grids ==
  {g \in [cube : BOOLEAN, lay : Layouts, nx : CellCounts, h : HaloWidths] :
     g.cube => g.lay[1] = g.lay[2]}

Init ==
  /\ grid \in Grids
  /\ rank \in 0..(NumRanks(grid) - 1)
  /\ field \in Fields
  /\ phase = "new"
  /\ todo = <<>>
  /\ data = [cell \in Cells(grid, field) |-> Fresh(grid, rank, field, cell)]

-----------------------------------------------------------------------------
\* Communicator.boundaries, in the order of the dictionary.
boundaries(g, r) ==
  LET bound == boundary(g, r)
  IN  SelectSeq(BOUNDARY_TYPES, LAMBDA b : bound[b] # NoBoundary)

\* The boundaries of r that one of its transformers is for.
Towards(g, r, to) ==
  LET bound == boundary(g, r)
  IN  SelectSeq(BOUNDARY_TYPES, LAMBDA b : bound[b] # NoBoundary /\ bound[b].to = to)

SendSlice(g, r, c, b) ==
  LET Elem(j, i) ==
        LET sj == SendFrom(g, b, "y", c.yi) + j
            si == SendFrom(g, b, "x", c.xi) + i
        IN  IF InDomain(g, c, sj, si) THEN Value(g, r, c, sj, si) ELSE Unset
  IN  Block(SliceLen(g, b, "y", c.yi), SliceLen(g, b, "x", c.xi), Elem)

\* _pack_scalar, _pack_vector: the slices that go across boundary b.
Packed(g, r, f, b) ==
  LET rot == - boundary(g, r)[b].rot
  IN  IF Len(f) = 1
      THEN <<rotate_scalar_data(SendSlice(g, r, f[1], b), rot)>>
      ELSE rotate_vector_data(SendSlice(g, r, f[1], b), SendSlice(g, r, f[2], b), rot)

\* The pack buffer of r for rank to.
Message(g, r, to, f) ==
  LET bs == Towards(g, r, to)
      Flat(b) == FlattenSeq([k \in DOMAIN f |-> Packed(g, r, f, b)[k].flat])
  IN  FlattenSeq([k \in DOMAIN bs |-> Flat(bs[k])])

\* The array elements that boundary b receives for component k, in C order.
RecvSlice(g, f, k, b) ==
  LET Elem(j, i) == <<k, RecvFrom(g, b, "y", f[k].yi) + j, RecvFrom(g, b, "x", f[k].xi) + i>>
  IN  Block(SliceLen(g, b, "y", f[k].yi), SliceLen(g, b, "x", f[k].xi), Elem)

\* The array elements that the unpack buffer for rank from is written to.
Targets(g, r, from, f) ==
  LET bs == Towards(g, r, from)
      Flat(b) == FlattenSeq([k \in DOMAIN f |-> RecvSlice(g, f, k, b).flat])
  IN  FlattenSeq([k \in DOMAIN bs |-> Flat(bs[k])])

-----------------------------------------------------------------------------
\* Faulty variant: the sizes are not checked.
Bug_sizes_supported(g) == TRUE

\* SubtileGridSizer.from_tile_params refuses a compute domain this small.
sizes_supported(g) == g.nx > g.h

\* HaloUpdater.start.
Started ==
  /\ phase = "new"
  /\ sizes_supported(grid)
  /\ phase' = "exchange"
  /\ todo' = boundaries(grid, rank)
  /\ UNCHANGED <<grid, rank, field, data>>

\* start_halo_update, start_vector_halo_update: they refuse small layouts.
StartUpdate == layout_supported(grid) /\ Started

\* The start of an updater that get_scalar_halo_updater or
\* get_vector_halo_updater returned: neither looks at the layout.
StartUpdater == Started

\* wait: async_unpack of the next transformer, all its boundaries at once.
Unpack ==
  /\ todo # <<>>
  /\ \E from \in {boundary(grid, rank)[Head(todo)].to} :
       /\ \E message \in {Message(grid, from, rank, field)},
             targets \in {Targets(grid, rank, from, field)} :
            data' = [cell \in ToSet(targets) |->
                       message[CHOOSE k \in DOMAIN targets : targets[k] = cell]] @@ data
       /\ todo' = SelectSeq(todo, LAMBDA b : boundary(grid, rank)[b].to # from)
  /\ UNCHANGED <<grid, rank, field, phase>>

Next == StartUpdate \/ StartUpdater \/ Unpack

Spec == Init /\ [][Next]_vars

-----------------------------------------------------------------------------
(* Properties.                                                             *)

TypeOK ==
  /\ grid \in Grids
  /\ rank \in 0..(NumRanks(grid) - 1)
  /\ field \in Fields
  /\ phase \in {"new", "exchange"}
  /\ ToSet(todo) \subseteq ToSet(boundaries(grid, rank))
  /\ DOMAIN data = Cells(grid, field)

\* Every element that holds something holds what belongs there.
InPlace ==
  \A cell \in DOMAIN data :
    data[cell] # Unset =>
      data[cell] = Value(grid, rank, field[cell[1]], cell[2], cell[3])

(***************************************************************************)
(* On a layout that start_halo_update supports, every element that holds   *)
(* something holds the value of its own place on the sphere: the point     *)
(* that mirror_grid gives to that index when the grid goes on around the   *)
(* edge of the cube, and the component of a vector along the local axis,   *)
(* with its sign.  In particular no element of the compute domain is       *)
(* overwritten.                                                            *)
(***************************************************************************)
EveryPointInPlace == layout_supported(grid) => InPlace

(***************************************************************************)
(* The same of whatever exchange the program starts, be it refused by      *)
(* start_halo_update or not ("Exchange halo information between ranks",    *)
(* HaloUpdater).  On a small periodic tile two boundaries lead to one      *)
(* rank, whose message has its slices in the order of its own boundaries:  *)
(* the west halo receives what was sent across the west boundary.          *)
(***************************************************************************)
UpdatersPointsInPlace == InPlace

\* The elements diagonally beyond a vertex of the cube.
BeyondVertex(g, r, c, j, i) ==
  LET at == subtile_index(g.lay, r)
      Beyond(n, extent, first, last) == (n < 0 /\ first) \/ (n >= extent /\ last)
  IN  /\ g.cube
      /\ Beyond(i, Extent(g, c.xi), at.i = 0, at.i = g.lay[2] - 1)
      /\ Beyond(j, Extent(g, c.yi), at.j = 0, at.j = g.lay[1] - 1)

(***************************************************************************)
(* When every transformer has unpacked, the whole halo has been received,  *)
(* except the elements beyond a vertex of the cube, which no rank owns.    *)
(***************************************************************************)
HaloComplete ==
  phase = "exchange" /\ todo = <<>> =>
    \A cell \in DOMAIN data :
      data[cell] = Unset <=> BeyondVertex(grid, rank, field[cell[1]], cell[2], cell[3])

\* The boundaries of a rank that are there.
Across(g, r) ==
  LET bound == boundary(g, r)
  IN  {b \in DOMAIN bound : bound[b] # NoBoundary}

(***************************************************************************)
(* What the exchange takes for granted ("the assumption that any pair of   *)
(* ranks only share one boundary", start_halo_update), and HaloExchange in *)
(* its TopologyAssumption, holds on every layout that is not refused:      *)
(* beyond two boundaries of a rank lie two different ranks, neither of     *)
(* them itself, and each has exactly one boundary back, which turns the    *)
(* axes the other way.                                                     *)
(***************************************************************************)
OneBoundaryEachWay ==
  phase = "exchange" /\ layout_supported(grid) =>
    LET here   == boundary(grid, rank)
        across == Across(grid, rank)
    IN  \A b \in across :
          LET there == boundary(grid, here[b].to)
              Back  == {c \in Across(grid, here[b].to) : there[c].to = rank}
          IN  /\ here[b].to # rank
              /\ \A c \in across : here[c].to = here[b].to => c = b
              /\ \E c \in Back : Back = {c} /\ (here[b].rot + there[c].rot) % 4 = 0
=============================================================================
