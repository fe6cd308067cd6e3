---------------------------- MODULE GridIndexing ----------------------------
(***************************************************************************)
(* The index arithmetic of a rank's arrays: GridIndexing, and the origin,  *)
(* domain and axis offsets that StencilFactory hands to a stencil          *)
(* (ndsl/dsl/stencil.py).  Python indices: arrays start at 0.              *)
(*                                                                         *)
(* A grid indexing gi is a record of its constructor's arguments, where    *)
(* edges is the set of the tile's edges that the rank lies on.  A          *)
(* dimension is <<axis, interface>>, interface 1 for an interface          *)
(* dimension and 0 for a centre one.                                       *)
(***************************************************************************)
EXTENDS Integers, Sequences

I_DIM == <<1, 0>>   I_INTERFACE_DIM == <<1, 1>>
J_DIM == <<2, 0>>   J_INTERFACE_DIM == <<2, 1>>
K_DIM == <<3, 0>>   K_INTERFACE_DIM == <<3, 1>>

GI(domain, n_halo, edges, k_start) ==
  [domain |-> domain, n_halo |-> n_halo, edges |-> edges,
   origin |-> <<n_halo, n_halo, k_start>>]

\* First and last index of the compute domain, and of the full domain.
isc(gi) == gi.origin[1]
iec(gi) == gi.origin[1] + gi.domain[1] - 1
jsc(gi) == gi.origin[2]
jec(gi) == gi.origin[2] + gi.domain[2] - 1
isd(gi) == gi.origin[1] - gi.n_halo
ied(gi) == isd(gi) + gi.domain[1] + 2 * gi.n_halo - 1
jsd(gi) == gi.origin[2] - gi.n_halo
jed(gi) == jsd(gi) + gi.domain[2] + 2 * gi.n_halo - 1

\* Whether the rank holds the tile's corner at these two edges.
HasCorner(gi, corner) == corner \subseteq gi.edges

origin_full(gi, add) ==
  <<isd(gi) + add[1], jsd(gi) + add[2], gi.origin[3] + add[3]>>

domain_full(gi, add) ==
  <<ied(gi) + 1 - isd(gi) + add[1], jed(gi) + 1 - jsd(gi) + add[2],
    gi.domain[3] + add[3]>>

origin_compute(gi, add) ==
  <<isc(gi) + add[1], jsc(gi) + add[2], gi.origin[3] + add[3]>>

domain_compute(gi, add) ==
  <<iec(gi) + 1 - isc(gi) + add[1], jec(gi) + 1 - jsc(gi) + add[2],
    gi.domain[3] + add[3]>>

\* Faulty variant: the levels below the vertical origin are forgotten.
Bug_max_shape(gi) == domain_full(gi, <<1, 1, 1>>)

max_shape(gi) == domain_full(gi, <<1, 1, 1 + gi.origin[3]>>)

_origin_from_dims(gi, dims) == [d \in DOMAIN dims |-> gi.origin[dims[d][1]]]

_domain_from_dims(gi, dims) ==
  [d \in DOMAIN dims |-> gi.domain[dims[d][1]] + dims[d][2]]

\* halos may be shorter than dims: the other dimensions have no halo.
get_origin_domain(gi, dims, halos) ==
  LET n == [d \in DOMAIN dims |-> IF d \in DOMAIN halos THEN halos[d] ELSE 0]
  IN  [origin |-> [d \in DOMAIN dims |-> _origin_from_dims(gi, dims)[d] - n[d]],
       domain |-> [d \in DOMAIN dims |-> _domain_from_dims(gi, dims)[d] + 2 * n[d]]]

\* Faulty variant: the points before the domain are forgotten.
Bug_get_shape(gi, dims, halos) ==
  [d \in DOMAIN dims |->
     _domain_from_dims(gi, dims)[d] + (IF d \in DOMAIN halos THEN halos[d] ELSE 0)]

\* Points before the domain are there along x and y, whether read or not; the
\* levels before a vertical origin are not.
get_shape(gi, dims, halos) ==
  [d \in DOMAIN dims |->
     _domain_from_dims(gi, dims)[d]
     + (IF dims[d][1] \in {1, 2} THEN gi.n_halo ELSE 0)
     + (IF d \in DOMAIN halos THEN halos[d] ELSE 0)]

\* Defined for 0 <= k_start and 0 <= nk <= domain[3] - k_start; else it raises.
restrict_vertical(gi, k_start, nk) ==
  GI(<<gi.domain[1], gi.domain[2], nk>>, gi.n_halo, gi.edges, gi.origin[3] + k_start)

-----------------------------------------------------------------------------
(* gt4py counts the points of a stencil's domain from its first or its     *)
(* last point: I[0] + n is point n, I[-1] + n the point n after the last.  *)

FromFirst(n) == [from |-> 0, plus |-> n]
FromLast(n)  == [from |-> -1, plus |-> n]

\* np.iinfo(np.int16).max: a point that no stencil reaches.
FarAway == 32767

\* The offset counts from the origin and domain of the stencil, not of gi.
axis_offsets(gi, origin, domain) ==
  LET start(axis, edge) ==
        IF edge \in gi.edges THEN FromFirst(gi.origin[axis] - origin[axis])
                             ELSE FromFirst(- FarAway)
      end(axis, edge) ==
        IF edge \in gi.edges
        THEN FromLast((gi.origin[axis] + gi.domain[axis]) - (origin[axis] + domain[axis]))
        ELSE FromLast(FarAway)
  IN  [i_start |-> start(1, "w"), i_end |-> end(1, "e"),
       j_start |-> start(2, "s"), j_end |-> end(2, "n")]

\* The array index of a point: what gt4py makes of an offset when it runs.
ArrayIndex(offset, origin, domain, axis) ==
  origin[axis] + offset.plus + (IF offset.from = 0 THEN 0 ELSE domain[axis] - 1)

\* StencilFactory.from_dims_halo: a stencil with its origin, domain, offsets.
from_dims_halo(gi, dims, halos) ==
  LET at == get_origin_domain(gi, dims, halos)
  IN  [origin |-> at.origin, domain |-> at.domain,
       offsets |-> axis_offsets(gi, at.origin, at.domain)]

InStencil(stencil, i, j) ==
  /\ i \in stencil.origin[1]..(stencil.origin[1] + stencil.domain[1] - 1)
  /\ j \in stencil.origin[2]..(stencil.origin[2] + stencil.domain[2] - 1)
=============================================================================
