------------------------------ MODULE Corners ------------------------------
(***************************************************************************)
(* Filling the halo beyond a corner of a tile, where three tiles meet and  *)
(* no rank owns the points: fill_corners_* of ndsl/stencils/corners.py,    *)
(* written once as loops over arrays and once as stencils whose regions    *)
(* are counted from the axis offsets of module GridIndexing.               *)
(*                                                                         *)
(* The loops visit the points one by one and write in place.  A stencil    *)
(* is compiled to parallel code, often with the same array as its input    *)
(* and its output: the corners are filled in any order.                    *)
(***************************************************************************)
EXTENDS GridIndexing, SequencesExt, TLC

CONSTANTS
  Fills,       \* the fills that are called: loops and stencils
  Domains,     \* the compute domains <<cells along x, cells along y, levels>>
  HaloWidths,  \* the numbers of halo points of the loops that admit any
  Levels       \* the vertical restrictions of a stencil: pairs <<k_start, nk>>

VARIABLES
  call,    \* the fill that runs, and the rank it runs on
  filled,  \* filled[a]: the elements of array a that were written, with values
  done     \* loops: the number of points visited; stencils: the corners filled

vars == <<call, filled, done>>

SW == {"s", "w"}   SE == {"s", "e"}   NW == {"n", "w"}   NE == {"n", "e"}
CornerOrder == <<SW, NW, SE, NE>>

\* The value an array had at an element before the fill, and its sign.
Value(a, at) == [of |-> a, at |-> at, sign |-> 1]

Times(sign, value) == [value EXCEPT !.sign = sign * @]

\* One assignment: elements "to" of array "into" become sign * from[at].
Assign(into, to, from, at, sign) ==
  [into |-> into, to |-> to, from |-> from, at |-> at, sign |-> sign]

-----------------------------------------------------------------------------
(* The loops.  For each corner, what one visit of (i, j) assigns.          *)

\* Faulty variant: the row of the north west corner counts from the cells.
Bug_fill_corners_2d_bgrid(gi, corner, direction, i, j) ==
  LET Q(to, at) == Assign("q", {to}, "q", at, 1)
      ie == iec(gi) + 1
      je == jec(gi)
  IN  CASE corner = SW -> Q(<<isc(gi) - i, jsc(gi) - j>>, <<isc(gi) - j, jsc(gi) + i>>)
        [] corner = NW -> Q(<<isc(gi) - i, je + j>>, <<isc(gi) - j, je - i>>)
        [] corner = SE -> Q(<<ie + i, jsc(gi) - j>>, <<ie + j, jsc(gi) + i>>)
        [] corner = NE -> Q(<<ie + i, je + j>>, <<ie + j, je - i>>)

\* fill_*_corner_2d_bgrid.  The index "jec + 1 + j :" of the north east
\* corner is a slice: it writes the rest of the column.
fill_corners_2d_bgrid(gi, corner, direction, i, j) ==
  LET is == isc(gi)   ie == iec(gi) + 1
      js == jsc(gi)   je == jec(gi) + 1
      Q(to, at) == Assign("q", {to}, "q", at, 1)
      Rest(at)  == Assign("q", {ie + i} \X ((je + j)..(jed(gi) + 1)), "q", at, 1)
  IN  IF direction = "i"
      THEN CASE corner = SW -> Q(<<is - i, js - j>>, <<is - j, js + i>>)
             [] corner = NW -> Q(<<is - i, je + j>>, <<is - j, je - i>>)
             [] corner = SE -> Q(<<ie + i, js - j>>, <<ie + j, js + i>>)
             [] corner = NE -> Rest(<<ie + j, je - i>>)
      ELSE CASE corner = SW -> Q(<<is - j, js - i>>, <<is + i, js - j>>)
             [] corner = NW -> Q(<<is - j, je + i>>, <<is + i, je + j>>)
             [] corner = SE -> Q(<<ie + j, js - i>>, <<ie - i, js - j>>)
             [] corner = NE -> Rest(<<ie - i, je + j>>)

\* fill_*_corner_2d_agrid; the south east corner counts rows from isc = jsc.
fill_corners_2d_agrid(gi, corner, direction, i, j) ==
  LET is == isc(gi)   ie == iec(gi)
      js == jsc(gi)   je == jec(gi)
      Q(to, at) == Assign("q", {to}, "q", at, 1)
  IN  IF direction = "i"
      THEN CASE corner = SW -> Q(<<is - i, js - j>>, <<is - j, js + i - 1>>)
             [] corner = NW -> Q(<<is - i, je + j>>, <<is - j, je - i + 1>>)
             [] corner = SE -> Q(<<ie + i, js - j>>, <<ie + j, is + i - 1>>)
             [] corner = NE -> Q(<<ie + i, je + j>>, <<ie + j, je - i + 1>>)
      ELSE CASE corner = SW -> Q(<<is - j, js - i>>, <<is + i - 1, js - j>>)
             [] corner = NW -> Q(<<is - j, je + i>>, <<is + i - 1, je + j>>)
             [] corner = SE -> Q(<<ie + j, js - i>>, <<ie - i + 1, js - j>>)
             [] corner = NE -> Q(<<ie + j, je + i>>, <<ie - i + 1, je + j>>)

\* fill_corners_agrid: first x, then y.
fill_corners_agrid(gi, corner, mysign, i, j) ==
  LET n == gi.n_halo   ie == iec(gi)   je == jec(gi)
      X(to, at, sign) == Assign("x", {to}, "y", at, sign)
      Y(to, at, sign) == Assign("y", {to}, "x", at, sign)
  IN  CASE corner = SW -> <<X(<<n - i, n - j>>, <<n - j, n - 1 + i>>, mysign),
                            Y(<<n - j, n - i>>, <<n - 1 + i, n - j>>, mysign)>>
        [] corner = NW -> <<X(<<n - i, je + j>>, <<n - j, je - i + 1>>, 1),
                            Y(<<n - j, je + i>>, <<n - 1 + i, je + j>>, 1)>>
        [] corner = SE -> <<X(<<ie + i, n - j>>, <<ie + j, n - 1 + i>>, 1),
                            Y(<<ie + j, n - i>>, <<ie - i + 1, n - j>>, 1)>>
        [] corner = NE -> <<X(<<ie + i, je + j>>, <<ie + j, je - i + 1>>, mysign),
                            Y(<<ie + j, je + i>>, <<ie - i + 1, je + j>>, mysign)>>

\* fill_*_corner_vector_dgrid: "i + 2" is isc + i - 1 for a halo of 3 only.
fill_corners_dgrid(gi, corner, mysign, i, j) ==
  LET is == isc(gi)   ie == iec(gi)   js == jsc(gi)   je == jec(gi)
      X(to, at, sign) == Assign("x", {to}, "y", at, sign)
      Y(to, at, sign) == Assign("y", {to}, "x", at, sign)
  IN  CASE corner = SW -> <<X(<<is - i, js - j>>, <<is - j, i + 2>>, mysign),
                            Y(<<is - i, js - j>>, <<j + 2, js - i>>, mysign)>>
        [] corner = NW -> <<X(<<is - i, je + 1 + j>>, <<is - j, je + 1 - i>>, 1),
                            Y(<<is - i, je + j>>, <<j + 2, je + 1 + i>>, 1)>>
        [] corner = SE -> <<X(<<ie + i, js - j>>, <<ie + 1 + j, i + 2>>, 1),
                            Y(<<ie + 1 + i, js - j>>, <<ie - j + 1, js - i>>, 1)>>
        [] corner = NE -> <<X(<<ie + i, je + 1 + j>>, <<ie + 1 + j, je - i + 1>>, mysign),
                            Y(<<ie + 1 + i, je + j>>, <<ie - j + 1, je + 1 + i>>, mysign)>>

fill_corners_cgrid(gi, corner, mysign, i, j) ==
  LET is == isc(gi)   ie == iec(gi)   js == jsc(gi)   je == jec(gi)
      X(to, at, sign) == Assign("x", {to}, "y", at, sign)
      Y(to, at, sign) == Assign("y", {to}, "x", at, sign)
  IN  CASE corner = SW -> <<X(<<is - i, js - j>>, <<j + 2, js - i>>, 1),
                            Y(<<is - i, js - j>>, <<is - j, i + 2>>, 1)>>
        [] corner = NW -> <<X(<<is - i, je + j>>, <<j + 2, je + 1 + i>>, mysign),
                            Y(<<is - i, je + 1 + j>>, <<is - j, je + 1 - i>>, mysign)>>
        [] corner = SE -> <<X(<<ie + 1 + i, js - j>>, <<ie + 1 - j, js - i>>, mysign),
                            Y(<<ie + i, js - j>>, <<ie + 1 + j, i + 2>>, mysign)>>
        [] corner = NE -> <<X(<<ie + 1 + i, je + j>>, <<ie + 1 - j, je + 1 + i>>, 1),
                            Y(<<ie + i, je + 1 + j>>, <<ie + 1 + j, je + 1 - i>>, 1)>>

-----------------------------------------------------------------------------
(* The stencils: for each corner the points <<di, dj, oi, oj>>, where the  *)
(* region is di, dj off i_start or i_end and j_start or j_end, and the     *)
(* value is read at offset oi, oj from the point.                          *)

fill_corners_2cells_mult_x(corner) ==
  CASE corner = SW -> {<<-1, -1, 0, 1>>, <<-2, -1, 1, 2>>}
    [] corner = SE -> {<<1, -1, 0, 1>>, <<2, -1, -1, 2>>}
    [] corner = NW -> {<<-1, 1, 0, -1>>, <<-2, 1, 1, -2>>}
    [] corner = NE -> {<<1, 1, 0, -1>>, <<2, 1, -1, -2>>}

fill_corners_3cells_mult_x(corner) ==
  fill_corners_2cells_mult_x(corner) \union
  CASE corner = SW -> {<<-3, -1, 2, 3>>}
    [] corner = SE -> {<<3, -1, -2, 3>>}
    [] corner = NW -> {<<-3, 1, 2, -3>>}
    [] corner = NE -> {<<3, 1, -2, -3>>}

fill_corners_2cells_mult_y(corner) ==
  CASE corner = SW -> {<<-1, -1, 1, 0>>, <<-1, -2, 2, 1>>}
    [] corner = SE -> {<<1, -1, -1, 0>>, <<1, -2, -2, 1>>}
    [] corner = NW -> {<<-1, 1, 1, 0>>, <<-1, 2, 2, -1>>}
    [] corner = NE -> {<<1, 1, -1, 0>>, <<1, 2, -2, -1>>}

fill_corners_3cells_mult_y(corner) ==
  fill_corners_2cells_mult_y(corner) \union
  CASE corner = SW -> {<<-1, -3, 3, 2>>}
    [] corner = SE -> {<<1, -3, -3, 2>>}
    [] corner = NW -> {<<-1, 3, 3, -2>>}
    [] corner = NE -> {<<1, 3, -3, -2>>}

copy_corners_x(corner) ==
  CASE corner = SW -> {<<-3, -3, 0, 5>>, <<-2, -3, -1, 4>>, <<-1, -3, -2, 3>>,
                       <<-3, -2, 1, 4>>, <<-2, -2, 0, 3>>, <<-1, -2, -1, 2>>,
                       <<-3, -1, 2, 3>>, <<-2, -1, 1, 2>>, <<-1, -1, 0, 1>>}
    [] corner = SE -> {<<3, -3, 0, 5>>, <<3, -2, -1, 4>>, <<3, -1, -2, 3>>,
                       <<2, -3, 1, 4>>, <<2, -2, 0, 3>>, <<2, -1, -1, 2>>,
                       <<1, -3, 2, 3>>, <<1, -2, 1, 2>>, <<1, -1, 0, 1>>}
    [] corner = NW -> {<<-3, 1, 2, -3>>, <<-2, 1, 1, -2>>, <<-1, 1, 0, -1>>,
                       <<-3, 2, 1, -4>>, <<-2, 2, 0, -3>>, <<-1, 2, -1, -2>>,
                       <<-3, 3, 0, -5>>, <<-2, 3, -1, -4>>, <<-1, 3, -2, -3>>}
    [] corner = NE -> {<<1, 3, 2, -3>>, <<1, 2, 1, -2>>, <<1, 1, 0, -1>>,
                       <<2, 3, 1, -4>>, <<2, 2, 0, -3>>, <<2, 1, -1, -2>>,
                       <<3, 3, 0, -5>>, <<3, 2, -1, -4>>, <<3, 1, -2, -3>>}

copy_corners_y(corner) ==
  CASE corner = SW -> {<<-3, -3, 5, 0>>, <<-2, -3, 4, 1>>, <<-1, -3, 3, 2>>,
                       <<-3, -2, 4, -1>>, <<-2, -2, 3, 0>>, <<-1, -2, 2, 1>>,
                       <<-3, -1, 3, -2>>, <<-2, -1, 2, -1>>, <<-1, -1, 1, 0>>}
    [] corner = SE -> {<<1, -3, -3, 2>>, <<2, -3, -4, 1>>, <<3, -3, -5, 0>>,
                       <<1, -2, -2, 1>>, <<2, -2, -3, 0>>, <<3, -2, -4, -1>>,
                       <<1, -1, -1, 0>>, <<2, -1, -2, -1>>, <<3, -1, -3, -2>>}
    [] corner = NW -> {<<-3, 3, 5, 0>>, <<-3, 2, 4, 1>>, <<-3, 1, 3, 2>>,
                       <<-2, 3, 4, -1>>, <<-2, 2, 3, 0>>, <<-2, 1, 2, 1>>,
                       <<-1, 3, 3, -2>>, <<-1, 2, 2, -1>>, <<-1, 1, 1, 0>>}
    [] corner = NE -> {<<3, 1, -3, 2>>, <<3, 2, -4, 1>>, <<3, 3, -5, 0>>,
                       <<2, 1, -2, 1>>, <<2, 2, -3, 0>>, <<2, 3, -4, -1>>,
                       <<1, 1, -1, 0>>, <<1, 2, -2, -1>>, <<1, 3, -3, -2>>}

fill_corners_bgrid_x_defn(corner) ==
  CASE corner = SW -> {<<-1, -1, 0, 2>>, <<-1, -2, -1, 3>>, <<-1, -3, -2, 4>>,
                       <<-2, -1, 1, 3>>, <<-2, -2, 0, 4>>, <<-2, -3, -1, 5>>,
                       <<-3, -1, 2, 4>>, <<-3, -2, 1, 5>>, <<-3, -3, 0, 6>>}
    [] corner = SE -> {<<2, -1, 0, 2>>, <<3, -1, -1, 3>>, <<4, -1, -2, 4>>,
                       <<2, -2, 1, 3>>, <<3, -2, 0, 4>>, <<4, -2, -1, 5>>,
                       <<2, -3, 2, 4>>, <<3, -3, 1, 5>>, <<4, -3, 0, 6>>}
    [] corner = NW -> {<<-1, 2, 0, -2>>, <<-1, 3, -1, -3>>, <<-1, 4, -2, -4>>,
                       <<-2, 2, 1, -3>>, <<-2, 3, 0, -4>>, <<-2, 4, -1, -5>>,
                       <<-3, 2, 2, -4>>, <<-3, 3, 1, -5>>, <<-3, 4, 0, -6>>}
    [] corner = NE -> {<<2, 2, 0, -2>>, <<3, 2, -1, -3>>, <<4, 2, -2, -4>>,
                       <<2, 3, 1, -3>>, <<3, 3, 0, -4>>, <<4, 3, -1, -5>>,
                       <<2, 4, 2, -4>>, <<3, 4, 1, -5>>, <<4, 4, 0, -6>>}

fill_corners_bgrid_y_defn(corner) ==
  CASE corner = SW -> {<<-1, -1, 2, 0>>, <<-1, -2, 3, 1>>, <<-1, -3, 4, 2>>,
                       <<-2, -1, 3, -1>>, <<-2, -2, 4, 0>>, <<-2, -3, 5, 1>>,
                       <<-3, -1, 4, -2>>, <<-3, -2, 5, -1>>, <<-3, -3, 6, 0>>}
    [] corner = SE -> {<<2, -1, -2, 0>>, <<2, -2, -3, 1>>, <<2, -3, -4, 2>>,
                       <<3, -1, -3, -1>>, <<3, -2, -4, 0>>, <<3, -3, -5, 1>>,
                       <<4, -1, -4, -2>>, <<4, -2, -5, -1>>, <<4, -3, -6, 0>>}
    [] corner = NW -> {<<-1, 2, 2, 0>>, <<-2, 2, 3, 1>>, <<-3, 2, 4, 2>>,
                       <<-1, 3, 3, -1>>, <<-2, 3, 4, 0>>, <<-3, 3, 5, 1>>,
                       <<-1, 4, 4, -2>>, <<-2, 4, 5, -1>>, <<-3, 4, 6, 0>>}
    [] corner = NE -> {<<2, 2, -2, 0>>, <<3, 2, -3, 1>>, <<4, 2, -4, 2>>,
                       <<2, 3, -3, -1>>, <<3, 3, -4, 0>>, <<4, 3, -5, 1>>,
                       <<2, 4, -4, -2>>, <<3, 4, -5, -1>>, <<4, 4, -6, 0>>}

dgrid_x(corner) ==
  CASE corner = SW -> {<<-1, -1, 0, 1>>, <<-1, -2, -1, 2>>, <<-1, -3, -2, 3>>,
                       <<-2, -1, 1, 2>>, <<-2, -2, 0, 3>>, <<-2, -3, -1, 4>>,
                       <<-3, -1, 2, 3>>, <<-3, -2, 1, 4>>, <<-3, -3, 0, 5>>}
    [] corner = SE -> {<<1, -1, 1, 1>>, <<2, -1, 0, 2>>, <<1, -2, 2, 2>>,
                       <<2, -2, 1, 3>>, <<1, -3, 3, 3>>, <<2, -3, 2, 4>>,
                       <<3, -1, -1, 3>>, <<3, -2, 0, 4>>, <<3, -3, 1, 5>>}
    [] corner = NW -> {<<-1, 2, 0, -2>>, <<-1, 3, -1, -3>>, <<-1, 4, -2, -4>>,
                       <<-2, 2, 1, -3>>, <<-2, 3, 0, -4>>, <<-2, 4, -1, -5>>,
                       <<-3, 2, 2, -4>>, <<-3, 3, 1, -5>>, <<-3, 4, 0, -6>>}
    [] corner = NE -> {<<1, 2, 1, -2>>, <<1, 3, 2, -3>>, <<2, 2, 0, -3>>,
                       <<1, 4, 3, -4>>, <<2, 3, 1, -4>>, <<3, 2, -1, -4>>,
                       <<2, 4, 2, -5>>, <<3, 3, 0, -5>>, <<3, 4, 1, -6>>}

dgrid_y(corner) ==
  CASE corner = SW -> {<<-1, -1, 1, 0>>, <<-1, -2, 2, 1>>, <<-1, -3, 3, 2>>,
                       <<-2, -1, 2, -1>>, <<-2, -2, 3, 0>>, <<-2, -3, 4, 1>>,
                       <<-3, -1, 3, -2>>, <<-3, -2, 4, -1>>, <<-3, -3, 5, 0>>}
    [] corner = SE -> {<<2, -1, -2, 0>>, <<2, -2, -3, 1>>, <<2, -3, -4, 2>>,
                       <<3, -1, -3, -1>>, <<3, -2, -4, 0>>, <<3, -3, -5, 1>>,
                       <<4, -1, -4, -2>>, <<4, -2, -5, -1>>, <<4, -3, -6, 0>>}
    [] corner = NW -> {<<-1, 2, 2, 0>>, <<-1, 1, 1, 1>>, <<-1, 3, 3, -1>>,
                       <<-2, 2, 3, 1>>, <<-2, 1, 2, 2>>, <<-2, 3, 4, 0>>,
                       <<-3, 2, 4, 2>>, <<-3, 1, 3, 3>>, <<-3, 3, 5, 1>>}
    [] corner = NE -> {<<2, 1, -2, 1>>, <<2, 2, -3, 0>>, <<2, 3, -4, -1>>,
                       <<3, 1, -3, 2>>, <<3, 2, -4, 1>>, <<3, 3, -5, 0>>,
                       <<4, 1, -4, 3>>, <<4, 2, -5, 2>>, <<4, 3, -6, 1>>}

-----------------------------------------------------------------------------
(* The calls.                                                              *)

ScalarLoops == {"agrid_i", "agrid_j", "bgrid_i", "bgrid_j"}
VectorLoops == {"agrid", "dgrid", "cgrid"}
CellStencils == {"copy_corners", "2cells_x", "3cells_x", "2cells_y", "3cells_y"}
CornerStencils == {"bgrid_x", "bgrid_y", "dgrid_defn"}
Loops == ScalarLoops \union VectorLoops
Stencils == CellStencils \union CornerStencils

\* The arrays a fill writes.
Arrays(fill) ==
  IF fill \in VectorLoops \union {"dgrid_defn", "copy_corners"} THEN {"x", "y"} ELSE {"q"}

\* The signs a fill is called with: of a vector, or of the diagonal corners.
Signs(fill) ==
  IF fill \in VectorLoops \union {"dgrid_defn", "2cells_x", "3cells_x", "2cells_y", "3cells_y"}
  THEN {1, -1} ELSE {1}

\* Loops with indices "i + 2" and the stencils are written for three points.
HaloOf(fill) ==
  IF fill \in Stencils \union {"dgrid", "cgrid"} THEN {3} ELSE HaloWidths

\* A stencil runs on a grid indexing that was restricted twice, in dimensions
\* that hold the points it writes.
StencilsFor(fill, gi) ==
  {from_dims_halo(gi, dims, <<3, 3>>) :
     dims \in {<<I_INTERFACE_DIM, J_INTERFACE_DIM, K_INTERFACE_DIM>>}
              \union (IF fill \in CellStencils THEN {<<I_DIM, J_DIM, K_DIM>>} ELSE {})}

Restricted(gi, levels) ==
  restrict_vertical(restrict_vertical(gi, levels[1], levels[2]), levels[1],
                    levels[2] - levels[1])

GridIndexings(fill) ==
  {Restricted(GI(domain, n_halo, edges, 0), levels) :
     domain \in Domains, n_halo \in HaloOf(fill),
     edges \in SUBSET {"w", "e", "s", "n"},
     levels \in IF fill \in Stencils THEN Levels ELSE {<<0, 1>>}}

LoopCalls ==
  UNION {{[fill |-> fill, gi |-> gi, sign |-> sign] :
            gi \in GridIndexings(fill), sign \in Signs(fill)} : fill \in Loops \intersect Fills}

StencilCalls ==
  UNION {UNION {{[fill |-> fill, gi |-> gi, sign |-> sign, stencil |-> stencil] :
                   stencil \in StencilsFor(fill, gi), sign \in Signs(fill)} :
                  gi \in GridIndexings(fill)} : fill \in Stencils \intersect Fills}

Init ==
  /\ call \in LoopCalls \union StencilCalls
  /\ filled = [a \in Arrays(call.fill) |-> <<>>]
  /\ done = {}

\* What an array holds now at an element.
Read(f, a, at) ==
  IF a \in DOMAIN f /\ at \in DOMAIN f[a] THEN f[a][at] ELSE Value(a, at)

Apply(f, a) ==
  [f EXCEPT ![a.into] = [e \in a.to |-> Times(a.sign, Read(f, a.from, a.at))] @@ @]

\* What one visit of (i, j) does at one corner.
Visited(c, corner, i, j) ==
  CASE c.fill = "agrid_i" -> <<fill_corners_2d_agrid(c.gi, corner, "i", i, j)>>
    [] c.fill = "agrid_j" -> <<fill_corners_2d_agrid(c.gi, corner, "j", i, j)>>
    [] c.fill = "bgrid_i" -> <<fill_corners_2d_bgrid(c.gi, corner, "i", i, j)>>
    [] c.fill = "bgrid_j" -> <<fill_corners_2d_bgrid(c.gi, corner, "j", i, j)>>
    [] c.fill = "agrid" -> fill_corners_agrid(c.gi, corner, c.sign, i, j)
    [] c.fill = "dgrid" -> fill_corners_dgrid(c.gi, corner, c.sign, i, j)
    [] c.fill = "cgrid" -> fill_corners_cgrid(c.gi, corner, c.sign, i, j)

\* The body of the two nested loops, at every corner that the rank holds.
Visit ==
  /\ call.fill \in Loops
  /\ Cardinality(done) < call.gi.n_halo * call.gi.n_halo
  /\ LET k == Cardinality(done)
         i == k \div call.gi.n_halo + 1
         j == (k % call.gi.n_halo) + 1
         held == SelectSeq(CornerOrder, LAMBDA corner : HasCorner(call.gi, corner))
     IN  /\ filled' = FoldLeft(Apply, filled,
                        FlattenSeq([n \in DOMAIN held |-> Visited(call, held[n], i, j)]))
         /\ done' = done \union {<<i, j>>}
  /\ UNCHANGED call

\* The points of a stencil at a corner: <<written array, read array, point>>.
Points(fill, corner) ==
  LET P(into, from, table) == {<<into, from, p>> : p \in table}
  IN  CASE fill = "copy_corners" -> P("x", "q", copy_corners_x(corner)) \union
                                    P("y", "q", copy_corners_y(corner))
        [] fill = "2cells_x" -> P("q", "q", fill_corners_2cells_mult_x(corner))
        [] fill = "3cells_x" -> P("q", "q", fill_corners_3cells_mult_x(corner))
        [] fill = "2cells_y" -> P("q", "q", fill_corners_2cells_mult_y(corner))
        [] fill = "3cells_y" -> P("q", "q", fill_corners_3cells_mult_y(corner))
        [] fill = "bgrid_x" -> P("q", "q", fill_corners_bgrid_x_defn(corner))
        [] fill = "bgrid_y" -> P("q", "q", fill_corners_bgrid_y_defn(corner))
        [] fill = "dgrid_defn" -> P("x", "y", dgrid_x(corner)) \union
                                  P("y", "x", dgrid_y(corner))

\* The assignments of a stencil at a corner, to the points that it runs over:
\* none if the rank is not on both edges, where the offsets are out of reach.
Assignments(c, corner) ==
  LET st == c.stencil
      i0 == IF "w" \in corner THEN st.offsets.i_start ELSE st.offsets.i_end
      j0 == IF "s" \in corner THEN st.offsets.j_start ELSE st.offsets.j_end
      At(p) == <<ArrayIndex(i0, st.origin, st.domain, 1) + p[1],
                 ArrayIndex(j0, st.origin, st.domain, 2) + p[2]>>
      sign == IF corner \in {SW, NE} THEN c.sign ELSE 1
  IN  {Assign(q[1], {At(q[3])}, q[2],
              <<At(q[3])[1] + q[3][3], At(q[3])[2] + q[3][4]>>, sign) :
         q \in {p \in Points(c.fill, corner) : InStencil(st, At(p[3])[1], At(p[3])[2])}}

\* A stencil fills a corner: the corners in any order, as the code is parallel.
FillCorner(corner) ==
  /\ call.fill \in Stencils
  /\ corner \notin done
  /\ LET all == Assignments(call, corner)
         Written(a) == UNION {s.to : s \in {t \in all : t.into = a}}
     IN  filled' = [a \in DOMAIN filled |->
           [e \in Written(a) |->
              LET s == CHOOSE t \in all : t.into = a /\ e \in t.to
              IN  Times(s.sign, Read(filled, s.from, s.at))] @@ filled[a]]
  /\ done' = done \union {corner}
  /\ UNCHANGED call

Next == Visit \/ \E corner \in {SW, SE, NW, NE} : FillCorner(corner)

Spec == Init /\ [][Next]_vars

Finished ==
  Cardinality(done) = IF call.fill \in Loops THEN call.gi.n_halo * call.gi.n_halo ELSE 4

-----------------------------------------------------------------------------
(* What the corners should hold.  Places are counted in half cells from    *)
(* the corner of the tile, eastward and northward: an interface at even,   *)
(* a centre at odd places.                                                 *)

\* Along which axes the elements of an array are interfaces.
Stagger(fill, a) ==
  CASE fill \in {"bgrid_i", "bgrid_j", "bgrid_x", "bgrid_y"} -> <<1, 1>>
    [] fill \in {"dgrid", "dgrid_defn"} -> IF a = "x" THEN <<0, 1>> ELSE <<1, 0>>
    [] fill = "cgrid" -> IF a = "x" THEN <<1, 0>> ELSE <<0, 1>>
    [] OTHER -> <<0, 0>>

Anchor(gi, corner) ==
  <<IF "w" \in corner THEN isc(gi) ELSE iec(gi) + 1,
    IF "s" \in corner THEN jsc(gi) ELSE jec(gi) + 1>>

Place(gi, corner, stagger, at) ==
  [n \in 1..2 |-> 2 * (at[n] - Anchor(gi, corner)[n]) + 1 - stagger[n]]

Element(gi, corner, stagger, place) ==
  [n \in 1..2 |-> Anchor(gi, corner)[n] + (place[n] - 1 + stagger[n]) \div 2]

\* Whether the values come from beyond the west or east edge, or from beyond
\* the south or north edge.
OverWestOrEast(fill, a) ==
  \/ fill \in {"agrid_i", "bgrid_i", "bgrid_x", "2cells_x", "3cells_x"}
  \/ fill \in {"agrid", "dgrid", "dgrid_defn", "copy_corners"} /\ a = "x"
  \/ fill = "cgrid" /\ a = "y"

\* A quarter turn of a place about the corner, anticlockwise for 1.
Turned(place, turn) == <<- turn * place[2], turn * place[1]>>

\* The quarter turn that leads into the halo that the values come from.
TurnOf(fill, a, place) ==
  CHOOSE turn \in {1, -1} :
    LET n == IF OverWestOrEast(fill, a) THEN 1 ELSE 2
    IN  Turned(place, turn)[n] * place[n] > 0

\* A vector is turned back: x is -y or y of the source.
SignOf(c, corner, a, turn) ==
  IF c.sign = 1 THEN 1
  ELSE IF Arrays(c.fill) = {"q"} THEN IF corner \in {SW, NE} THEN -1 ELSE 1
  ELSE IF a = "x" THEN turn ELSE - turn

Source(c, a) ==
  IF c.fill = "copy_corners" \/ a = "q" THEN "q" ELSE IF a = "x" THEN "y" ELSE "x"

Expected(c, corner, a, at) ==
  LET stagger == Stagger(c.fill, a)
      place   == Place(c.gi, corner, stagger, at)
      turn    == TurnOf(c.fill, a, place)
  IN  [of |-> Source(c, a), sign |-> SignOf(c, corner, a, turn),
       at |-> Element(c.gi, corner, <<stagger[2], stagger[1]>>, Turned(place, turn))]

\* How far from the corner a fill reaches along x and along y.
Reach(c) ==
  CASE c.fill = "2cells_x" -> <<2, 1>>
    [] c.fill = "3cells_x" -> <<3, 1>>
    [] c.fill = "2cells_y" -> <<1, 2>>
    [] c.fill = "3cells_y" -> <<1, 3>>
    [] OTHER -> <<c.gi.n_halo, c.gi.n_halo>>

\* The elements of an array in the halo beyond a corner, within the reach.
Block(c, corner, a) ==
  LET s == Stagger(c.fill, a)
      A == Anchor(c.gi, corner)
      Beyond(n, low) == IF low THEN (A[n] - Reach(c)[n])..(A[n] - 1)
                               ELSE (A[n] + s[n])..(A[n] + s[n] + Reach(c)[n] - 1)
  IN  Beyond(1, "w" \in corner) \X Beyond(2, "s" \in corner)

Held(c) == {corner \in {SW, SE, NW, NE} : HasCorner(c.gi, corner)}

\* The one corner whose values are not those turned about it: fill_ne_corner_2d_
\* bgrid copies along the row and does not exchange the offsets in direction "j".
NotTurned(c, corner) == c.fill = "bgrid_j" /\ corner = NE

(***************************************************************************)
(* A fill writes exactly the halo beyond the tile's corners that the rank  *)
(* holds, and every element gets the value of the element a quarter turn   *)
(* about the corner away, in the halo over the edge that the fill names;   *)
(* of a vector, the component that lies there, with its sign.  Loops and   *)
(* stencils agree, for any order of the corners, input and output shared,  *)
(* and wherever the origin of the stencil lies.  Of the north east corner  *)
(* in "bgrid_j" (NotTurned) this says which elements are written, not what *)
(* they get.                                                               *)
(***************************************************************************)
CornersTurned ==
  Finished =>
    \A a \in DOMAIN filled :
      /\ DOMAIN filled[a] = UNION {Block(call, corner, a) : corner \in Held(call)}
      /\ \A corner \in Held(call) : \A at \in Block(call, corner, a) :
           ~ NotTurned(call, corner) => filled[a][at] = Expected(call, corner, a, at)

\* The horizontal shape of a fill's array, with a full halo.
ShapeOf(c, a) ==
  LET s == Stagger(c.fill, a)
  IN  get_shape(c.gi, << <<1, s[1]>>, <<2, s[2]>> >>, <<c.gi.n_halo, c.gi.n_halo>>)

(***************************************************************************)
(* Every element that a fill reads or writes lies in its own array, of the *)
(* shape that get_shape says is required for the array's dimensions and a  *)
(* full halo ("Get the storage shape required"), and the levels that a     *)
(* stencil of a restricted grid runs over lie in max_shape ("maximum       *)
(* required storage shape"); get_shape has no room for the levels before   *)
(* the vertical origin of a restricted grid.                               *)
(***************************************************************************)
AccessesFit ==
  LET Inside(a, at) == /\ at[1] \in 0..(ShapeOf(call, a)[1] - 1)
                       /\ at[2] \in 0..(ShapeOf(call, a)[2] - 1)
  IN  /\ \A a \in DOMAIN filled : \A at \in DOMAIN filled[a] :
           Inside(a, at) /\ Inside(filled[a][at].of, filled[a][at].at)
      /\ call.fill \in Stencils =>
           call.stencil.origin[3] + call.stencil.domain[3] <= max_shape(call.gi)[3]
=============================================================================
