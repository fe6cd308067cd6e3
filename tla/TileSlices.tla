----------------------------- MODULE TileSlices -----------------------------
(***************************************************************************)
(* Which part of a tile each rank has (ndsl/comm/partitioner.py), and the  *)
(* chunks that the Zarr monitor stores a tile in (ndsl/monitor).           *)
(*                                                                         *)
(* A dimension is a record of its axis "j", "i" or "k" and of whether it   *)
(* has a point more than cells (an interface dimension).  Arrays have one  *)
(* extent per dimension.  The ratio of the cells of ranks on the tile's    *)
(* edges to those inside is a fraction <<numerator, denominator>>.         *)
(***************************************************************************)
EXTENDS Integers, Sequences, FiniteSets

Horizontal(dim) == dim.axis \in {"j", "i"}
Extra(dim)      == IF dim.interface THEN 1 ELSE 0

\* list_by_dims(dims, layout, 1), for one dimension.
n_ranks(dim, layout) ==
  CASE dim.axis = "j" -> layout[1] [] dim.axis = "i" -> layout[2] [] OTHER -> 1

Index(dim, subtile) == IF dim.axis = "j" THEN subtile.j ELSE subtile.i

\* tile_extent_from_rank_metadata, extent_from_metadata: all ranks as large as one.
tile_extent_from_rank_metadata(dims, rank_extent, layout) ==
  [d \in DOMAIN dims |->
     (rank_extent[d] - Extra(dims[d])) * n_ranks(dims[d], layout) + Extra(dims[d])]

\* round() of a fraction: to the nearest, and from the middle to the even one.
Round(num, den) ==
  LET below == num \div den
      twice == 2 * (num % den)
  IN  IF twice > den \/ (twice = den /\ below % 2 = 1) THEN below + 1 ELSE below

(***************************************************************************)
(* The cells of edge ranks are tried from the wished size down to 1, then  *)
(* upwards from it; taken is the first that leaves the ranks inside equal. *)
(* (The code divides edge_size by its ratio to the ranks inside, in        *)
(* floating point, and truncates; the quotient is the cells of those, as   *)
(* the model has it, in all rows of up to 34 cells on up to five ranks     *)
(* with ratios 1, 1/2, 2 and 3/4.  In some longer rows the truncation      *)
(* loses one: of 35 cells on three ranks with ratio 3/4 the code gives the *)
(* ranks on the edges 11, not 10.)                                         *)
(***************************************************************************)
InnerCells(cells, count, edge) == (cells - 2 * edge) \div (count - 2)

Largest(cells, count) == (cells - count + 2) \div 2

\* The search takes as many steps as there are sizes, and one more.  It turns
\* upwards whenever it is at 1: with the wish for 1 it stays there.
ValidEdges(cells, count, wished) ==
  {edge \in 1..Largest(cells, count) :
     /\ wished >= 1 /\ wished - edge <= Largest(cells, count)
     /\ wished = 1 => edge = 1
     /\ 2 * edge + (count - 2) * InnerCells(cells, count, edge) = cells}

FirstTried(edges, wished) ==
  LET below == {e \in edges : e <= wished}
  IN  IF below # {} THEN CHOOSE e \in below : \A o \in below : o <= e
                    ELSE CHOOSE e \in edges : \A o \in edges : e <= o

NoDecomposition == [interior |-> 0, edge |-> 0]

\* For a dimension; NoDecomposition where the code raises.
_subtile_extents_from_tile_metadata(dim, extent, layout, ratio) ==
  LET count  == n_ranks(dim, layout)
      cells  == extent - Extra(dim)
      wished == Round(cells * ratio[1], 2 * ratio[1] + (count - 2) * ratio[2])
      edges  == ValidEdges(cells, count, wished)
      edge   == FirstTried(edges, wished)
  IN  CASE count % 2 = 0 /\ cells % 2 = 1 -> NoDecomposition
        [] count >= 3 /\ Horizontal(dim) ->
             IF edges = {} THEN NoDecomposition
             ELSE [interior |-> InnerCells(cells, count, edge), edge |-> edge]
        [] OTHER -> [interior |-> cells \div count, edge |-> cells \div count]

Slice(start, stop) == [start |-> start, stop |-> stop]
Width(slice)       == slice.stop - slice.start
PointsOf(slice)    == slice.start..(slice.stop - 1)

\* subtile_slice, rank_slice_from_tile_metadata, for a dimension: the ranks
\* follow one another, and the last, or with overlap each, has the extra point.
subtile_slice(dim, extent, layout, subtile, ratio, overlap) ==
  LET cells == _subtile_extents_from_tile_metadata(dim, extent, layout, ratio)
      count == n_ranks(dim, layout)
      index == Index(dim, subtile)
      RankCells(i) == IF i = 0 \/ i = count - 1 THEN cells.edge ELSE cells.interior
      start == IF index = 0 THEN 0 ELSE cells.edge + (index - 1) * cells.interior
      extra == IF overlap \/ index = count - 1 THEN Extra(dim) ELSE 0
  IN  IF Horizontal(dim) THEN Slice(start, start + RankCells(index) + extra)
                         ELSE Slice(0, cells.interior + Extra(dim))

\* The slices of a rank in all dimensions, and its extent: subtile_extent.
subtile_slices(dims, extent, layout, subtile, ratio, overlap) ==
  [d \in DOMAIN dims |-> subtile_slice(dims[d], extent[d], layout, subtile, ratio, overlap)]

subtile_extent(dims, extent, layout, subtile, ratio) ==
  LET slices == subtile_slices(dims, extent, layout, subtile, ratio, TRUE)
  IN  [d \in DOMAIN dims |-> Width(slices[d])]

\* Faulty variant: a chunk is as long as the array of a rank.
Bug_array_chunks(dim, extent, layout) ==
  (extent - Extra(dim)) \div n_ranks(dim, layout) + Extra(dim)

\* array_chunks: the length of a chunk, for a dimension.
array_chunks(dim, extent, layout) == (extent - Extra(dim)) \div n_ranks(dim, layout)
=============================================================================
