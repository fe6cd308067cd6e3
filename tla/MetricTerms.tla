---------------------------- MODULE MetricTerms ----------------------------
(***************************************************************************)
(* The metric terms of the grid (ndsl/grid/generation.py, with the         *)
(* functions of ndsl/grid/geometry.py and gnomonic.py it calls), as every  *)
(* rank computes them: when they are first read.  A term is computed from  *)
(* others, which that may compute in turn; many exchange their halo with   *)
(* the other ranks, or reduce over all of them, while they are computed.   *)
(* So what a rank sends, and when, follows from what was read before.      *)
(*                                                                         *)
(* The numbers are abstracted to regions (module MetricSpec): an array is  *)
(* the set of its regions that hold what they should.                      *)
(***************************************************************************)
EXTENDS Naturals, Sequences, FiniteSets, Functions, TLC

CONSTANTS
  Ranks,      \* the ranks, one per tile
  GridTypes,  \* "cubed", "external" or "cartesian"
  Programs    \* the sequences of terms that the ranks may read

VARIABLES
  gridType,
  program,
  mem,       \* mem[r][name]: an attribute "_name" that is not None, or a local array
  todo,      \* todo[r]: the statements that rank r has still to execute
  reading,   \* reading[r]: the call rank r is in: a term, "__init__" or "none"
  sent,      \* sent[r][n]: the n-th collective call of rank r
  returned   \* what the reads have answered

vars == <<gridType, program, mem, todo, reading, sent, returned>>

Regions == {"in", "edge", "corner"}

-----------------------------------------------------------------------------
(* Statements.                                                             *)

\* An array is computed: each region from regions of other arrays.
Calc(name, from) == [op |-> "calc", name |-> name, from |-> from]

\* Point by point from other arrays, in these regions.
EachPointOf(regions, name, inputs) ==
  Calc(name, [region \in regions |-> inputs \X {region}])

EachPoint(name, inputs) == EachPointOf(Regions, name, inputs)

\* A constant, or NaN and zeros that mean nothing.
Constant(name) == EachPoint(name, {})
Nothing(name)  == Calc(name, <<>>)

\* Halo update of a field, or vector halo update of two.
Exchange(names) == [op |-> "exchange", names |-> names]
AllReduce(name) == [op |-> "exchange", names |-> <<name>>]

\* fill_corners_*: array name is filled from array from[name]; components in
\* different directions do not make up one point.
Fill(from, directions) == [op |-> "fill", from |-> from, directions |-> directions]

\* Attributes and what they are set to.
Assign(pairs) == [op |-> "assign", pairs |-> pairs]

\* if self._attr is None: the function body, the attributes it returns to.
Lazy(attr, body, pairs) == [op |-> "lazy", attr |-> attr, body |-> body, pairs |-> pairs]

Get(term) == [op |-> "get", term |-> term]

Same(names) == {<<"_" \o n, n>> : n \in names}

-----------------------------------------------------------------------------
(* The functions.  On the sphere.                                          *)

_init_dgrid ==
  << Calc("_grid_64", [region \in {"in"} |-> {}]),
     Exchange(<<"_grid_64">>),
     Fill([n \in {"_grid_64"} |-> n], {"i"}) >>

\* The longitude is filled in direction i, the latitude in direction j.
_init_agrid ==
  << EachPoint("_agrid_64", {"_grid_64"}),
     Exchange(<<"_agrid_64">>),
     Fill([n \in {"_agrid_64"} |-> n], {"i", "j"}) >>

from_external == _init_dgrid \o _init_agrid

_init_cartesian ==
  << Calc("_grid_64", [region \in {"in"} |-> {}]), Constant("_agrid_64") >>

_dgrid_xyz_64 == << EachPoint("_dgrid_xyz_64", {"_grid_64"}) >>
_agrid_xyz_64 == << EachPoint("_agrid_xyz_64", {"_agrid_64"}) >>
DGridXyz == Lazy("_dgrid_xyz_64", "_dgrid_xyz_64", {})
AGridXyz == Lazy("_agrid_xyz_64", "_agrid_xyz_64", {})

\* Faulty variant: the corners are filled before the halo has arrived.
Bug_compute_dxdy_cube_sphere ==
  << EachPointOf({"in"}, "dx_64", {"_grid_64"}), EachPointOf({"in"}, "dy_64", {"_grid_64"}),
     Fill("dx_64" :> "dy_64" @@ "dy_64" :> "dx_64", {"d"}),
     Exchange(<<"dx_64", "dy_64">>),
     Assign(Same({"dx_64", "dy_64"}) \union {<<"dx", "dx_64">>, <<"dy", "dy_64">>}) >>

_compute_dxdy_cube_sphere ==
  << EachPointOf({"in"}, "dx_64", {"_grid_64"}), EachPointOf({"in"}, "dy_64", {"_grid_64"}),
     Exchange(<<"dx_64", "dy_64">>),
     Fill("dx_64" :> "dy_64" @@ "dy_64" :> "dx_64", {"d"}),
     Assign(Same({"dx_64", "dy_64"}) \union {<<"dx", "dx_64">>, <<"dy", "dy_64">>}) >>

\* The corners are filled with what this rank computed in its own halo.
_compute_dxdy_agrid_cube_sphere ==
  << EachPoint("dx_agrid_64", {"_grid_64"}), EachPoint("dy_agrid_64", {"_grid_64"}),
     Fill("dx_agrid_64" :> "dy_agrid_64" @@ "dy_agrid_64" :> "dx_agrid_64", {"a"}),
     Exchange(<<"dx_agrid_64", "dy_agrid_64">>),
     Assign({<<"dx_agrid", "dx_agrid_64">>, <<"dy_agrid", "dy_agrid_64">>}) >>

\* Between cell centres of two ranks, and from the centre to the tile's edge.
_compute_dxdy_center_cube_sphere ==
  LET Center(name) ==
        Calc(name, [region \in Regions |->
          IF region = "in" THEN {"_agrid_64"} \X {"in", "edge"} \union
                                {"_dgrid_xyz_64", "_agrid_xyz_64"} \X {"in"}
                           ELSE {<<"_agrid_64", region>>}])
  IN  << DGridXyz, AGridXyz, Center("dx_center_64"), Center("dy_center_64"),
         Exchange(<<"dx_center_64", "dy_center_64">>),
         Fill("dx_center_64" :> "dy_center_64" @@ "dy_center_64" :> "dx_center_64", {"c"}),
         Assign({<<"dx_center", "dx_center_64">>, <<"dy_center", "dy_center_64">>,
                 <<"_dxc_64", "dx_center_64">>, <<"_dyc_64", "dy_center_64">>}) >>

_compute_area_cube_sphere ==
  << EachPointOf({"in"}, "area_64", {"_grid_64"}), Exchange(<<"area_64">>),
     Assign({<<"area", "area_64">>}) >>

\* The cells around the tile's corners are triangles, and those on its edges
\* twice their half: neither takes a cell centre from beyond a corner.
_compute_area_c_cube_sphere ==
  << DGridXyz, AGridXyz,
     Calc("area_cgrid_64", [region \in {"in"} |->
       {"_agrid_64", "_dgrid_xyz_64", "_agrid_xyz_64"} \X {"in", "edge"}]),
     Exchange(<<"area_cgrid_64">>),
     Fill([n \in {"area_cgrid_64"} |-> n], {"i"}),
     Assign({<<"area_c", "area_cgrid_64">>}) >>

\* get_center_vector: big numbers beyond the corners.
_calculate_center_vectors_cube_sphere ==
  << DGridXyz, EachPointOf({"in", "edge"}, "ec1_64", {"_dgrid_xyz_64"}),
     EachPointOf({"in", "edge"}, "ec2_64", {"_dgrid_xyz_64"}),
     Assign(Same({"ec1_64", "ec2_64"}) \union {<<"ec1", "ec1_64">>, <<"ec2", "ec2_64">>}) >>

\* calc_unit_vector_west, calc_unit_vector_south: between two cell centres,
\* but towards the tile's edge on the edge; zero beyond the corners.
UnitVector(name) ==
  Calc(name, [region \in {"in", "edge"} |->
         {"_dgrid_xyz_64", "_agrid_xyz_64"} \X {region, "edge"}])

_calculate_vectors_west_cube_sphere ==
  << DGridXyz, AGridXyz, UnitVector("ew1"), UnitVector("ew2") >>

_calculate_vectors_south_cube_sphere ==
  << DGridXyz, AGridXyz, UnitVector("es1"), UnitVector("es2") >>

\* calculate_supergrid_cos_sin: the angles at a cell's sides (points 1 to 4)
\* and corners (6 to 9), and between the vectors at its centre (5).
calculate_supergrid_cos_sin ==
  << DGridXyz, AGridXyz,
     EachPoint("sides", {"_dgrid_xyz_64", "_agrid_xyz_64"}),
     EachPoint("corners", {"_dgrid_xyz_64"}),
     EachPoint("centre", {"_ec1_64", "_ec2_64"}) >>

\* calculate_trig_uv: a cell's corner lies between four cells, at a tile's
\* corner one of them beyond it; a side between two.
calculate_trig_uv ==
  << Calc("cosa", [region \in {"in"} |-> {"corners"} \X Regions]),
     Calc("sina", [region \in {"in"} |-> {"corners"} \X Regions]),
     Calc("rsina", [region \in {"in"} |-> {<<"sina", "in">>}]) >>
  \o [n \in 1..6 |->
        Calc(<<"cosa_u", "cosa_v", "sina_u_64", "sina_v_64", "rsin_u", "rsin_v">>[n],
             [region \in Regions |-> {<<"sides", region>>, <<"sides", "edge">>}])]
  \o << EachPointOf({"in", "edge"}, "cosa_s", {"centre"}), EachPoint("rsin2", {"centre"}) >>

\* supergrid_corner_fix: fixed values beyond the corners.
supergrid_corner_fix ==
  << EachPointOf({"in", "edge"}, "sides", {"sides"}),
     EachPointOf({"in", "edge"}, "corners", {"corners"}),
     EachPointOf({"in", "edge"}, "centre", {"centre"}) >>

TrigTerms ==
  {<<"_cosa", "cosa">>, <<"_sina", "sina">>, <<"_cosa_u", "cosa_u">>, <<"_cosa_v", "cosa_v">>,
   <<"_cosa_s", "cosa_s">>, <<"_sina_u", "sina_u_64">>, <<"_sina_v", "sina_v_64">>,
   <<"_rsin_u", "rsin_u">>, <<"_rsin_v", "rsin_v">>, <<"_rsina", "rsina">>,
   <<"_rsin2", "rsin2">>, <<"_sina_u_64", "sina_u_64">>, <<"_sina_v_64", "sina_v_64">>}

\* What the nine points of a cell are, and the attributes that keep them.
Supergrid ==
  LET At(points, local) ==
        UNION {{<<"_cos_sg" \o ToString(i), local>>, <<"_sin_sg" \o ToString(i), local>>} :
                 i \in points}
  IN  At(1..4, "sides") \union At({5}, "centre") \union At(6..9, "corners")
        \union {<<"_sin_sg5_64", "centre">>}

CenterVectors == Lazy("_ec1_64", "center_vectors", Same({"ec1", "ec2"}))

_init_cell_trigonometry_cube_sphere ==
  << CenterVectors >> \o calculate_supergrid_cos_sin \o calculate_trig_uv
  \o supergrid_corner_fix \o << Assign(TrigTerms \union Supergrid) >>

_calculate_latlon_momentum_correction_cube_sphere ==
  << EachPointOf({"in"}, "l2c_v", {"_grid_64"}), EachPointOf({"in"}, "l2c_u", {"_grid_64"}) >>

\* Along the line through three grid points, on the tile's edge through two.
calculate_xy_unit_vectors(name) ==
  Calc(name, [region \in {"in"} |-> {"_dgrid_xyz_64"} \X {"in", "edge"}])

_calculate_xy_unit_vectors_cube_sphere ==
  << DGridXyz, calculate_xy_unit_vectors("ee1"), calculate_xy_unit_vectors("ee2") >>

_calculate_unit_vectors_lonlat_cube_sphere ==
  << EachPoint("vlon_64", {"_agrid_64"}), EachPoint("vlat_64", {"_agrid_64"}),
     Assign(Same({"vlon_64", "vlat_64"}) \union {<<"vlon", "vlon_64">>, <<"vlat", "vlat_64">>}) >>

-----------------------------------------------------------------------------
(* The same functions on a doubly periodic plane.                          *)

_compute_dxdy_cartesian ==
  << Constant("dx"), Constant("dy"), Assign({<<"_dx_64", "dx">>, <<"_dy_64", "dy">>}) >>

_compute_dxdy_agrid_cartesian == << Constant("dx_agrid"), Constant("dy_agrid") >>

_compute_dxdy_center_cartesian ==
  << Constant("dx_center"), Constant("dy_center"),
     Assign({<<"_dxc_64", "dx_center">>, <<"_dyc_64", "dy_center">>}) >>

_compute_area_cartesian == << Constant("area_64"), Assign({<<"area", "area_64">>}) >>
_compute_area_c_cartesian == << Constant("area_c") >>

_calculate_center_vectors_cartesian ==
  << Constant("ec1"), Constant("ec2"), Assign({<<"_ec1_64", "ec1">>, <<"_ec2_64", "ec2">>}) >>

_calculate_vectors_west_cartesian == << Constant("ew1"), Constant("ew2") >>
_calculate_vectors_south_cartesian == << Constant("es1"), Constant("es2") >>

_init_cell_trigonometry_cartesian ==
  << Constant("one"), Constant("zero"),
     Assign({<<a[1], IF a[1] \in {"_cosa", "_cosa_u", "_cosa_v", "_cosa_s"} THEN "zero" ELSE "one">> :
               a \in TrigTerms \union Supergrid}) >>

_calculate_latlon_momentum_correction_cartesian == << Nothing("l2c_v"), Nothing("l2c_u") >>
_calculate_xy_unit_vectors_cartesian == << Nothing("ee1"), Nothing("ee2") >>

_calculate_unit_vectors_lonlat_cartesian ==
  << Nothing("vlon"), Nothing("vlat"), Assign({<<"_vlon_64", "vlon">>, <<"_vlat_64", "vlat">>}) >>

-----------------------------------------------------------------------------
(* The functions that are the same on both.                                *)

LengthsNeeded ==
  << Lazy("_sina_u_64", "trigonometry", {}),
     Lazy("_dx_64", "dxdy", Same({"dx", "dy"})),
     Lazy("_dxc_64", "dxdy_center", {<<"_dx_center", "dx_center">>, <<"_dy_center", "dy_center">>}) >>

\* calculate_divg_del6; on the tile's edges from the angles on both sides.
DivgDel6(name) ==
  Calc(name, [region \in Regions |->
    {"_sina_u_64", "_sina_v_64", "_dx_64", "_dy_64", "_dxc_64", "_dyc_64"} \X {region}
    \union {"_sin_sg1", "_sin_sg2", "_sin_sg3", "_sin_sg4"} \X
             (IF region = "in" THEN {"in", "edge"} ELSE {region})])

\* Faulty variant: the spacing computed on the way is not kept.
Bug_calculate_divg_del6 ==
  [n \in 1..5 |-> Get("sin_sg" \o ToString(n))]
  \o << Lazy("_sina_u_64", "trigonometry", {}), Lazy("_dx_64", "dxdy", {}),
        Lazy("_dxc_64", "dxdy_center", {}),
        DivgDel6("divg_u"), DivgDel6("divg_v"), DivgDel6("del6_u"), DivgDel6("del6_v") >>
  \o (IF gridType = "cartesian" THEN <<>>
      ELSE << Exchange(<<"divg_v", "divg_u">>), Exchange(<<"del6_v", "del6_u">>) >>)

_calculate_divg_del6 ==
  [n \in 1..5 |-> Get("sin_sg" \o ToString(n))]
  \o LengthsNeeded
  \o << DivgDel6("divg_u"), DivgDel6("divg_v"), DivgDel6("del6_u"), DivgDel6("del6_v") >>
  \o (IF gridType = "cartesian" THEN <<>>
      ELSE << Exchange(<<"divg_v", "divg_u">>), Exchange(<<"del6_v", "del6_u">>) >>)

_calculate_grid_z ==
  LET Z(name, ec, v) == EachPoint(name, {ec, v})
  IN  << CenterVectors, Lazy("_vlon_64", "unit_vectors_lonlat", Same({"vlon", "vlat"})),
         Z("z11", "_ec1_64", "_vlon_64"), Z("z12", "_ec1_64", "_vlat_64"),
         Z("z21", "_ec2_64", "_vlon_64"), Z("z22", "_ec2_64", "_vlat_64"),
         Assign({<<"_z11_64", "z11">>, <<"_z12_64", "z12">>, <<"_z21_64", "z21">>, <<"_z22_64", "z22">>}) >>

_calculate_grid_a ==
  LET A(name, z) == EachPoint(name, {z, "_sin_sg5_64"})
  IN  << Lazy("_z11_64", "grid_z", Same({"z11", "z12", "z21", "z22"})),
         Lazy("_sin_sg5_64", "trigonometry", {}),
         A("a11", "_z22_64"), A("a12", "_z12_64"), A("a21", "_z21_64"), A("a22", "_z11_64") >>

\* On the plane the factors are big numbers; the getters are called all the same.
EdgeFactor(name) ==
  IF gridType = "cartesian" THEN Nothing(name)
  ELSE Calc(name, [region \in {"in"} |-> {"_grid", "_agrid_64"} \X {"in", "edge"}])

_calculate_edge_factors ==
  << Get("grid"), EdgeFactor("edge_w"), EdgeFactor("edge_e"), EdgeFactor("edge_s"),
     EdgeFactor("edge_n") >>

_calculate_edge_a2c_vect_factors ==
  << Get("grid"), EdgeFactor("edge_vect_w"), EdgeFactor("edge_vect_e"),
     EdgeFactor("edge_vect_s"), EdgeFactor("edge_vect_n") >>

_calculate_2d_edge_a2c_vect_factors ==
  << Get("lon"), Get("edge_vect_e_1d"), Get("edge_vect_w_1d"),
     EachPoint("edge_vect_e_2d", {"_edge_vect_e"}), EachPoint("edge_vect_w_2d", {"_edge_vect_w"}) >>

_reduce_global_area_minmaxes ==
  LET Local(name, area) == Calc(name, [region \in {"in"} |-> {<<area, "in">>}])
  IN  << Get("area"), Local("_da_min", "_area"), Local("_da_max", "_area"),
         Get("area_c"), Local("_da_min_c", "_area_c"), Local("_da_max_c", "_area_c"),
         AllReduce("_da_min"), AllReduce("_da_max"), AllReduce("_da_min_c"), AllReduce("_da_max_c") >>

\* The reciprocals are cached properties of their own.
_reciprocal(name) ==
  CASE name = "rarea"   -> << Get("area"), EachPoint("rarea", {"_area"}) >>
    [] name = "rarea_c" -> << Get("area_c"), EachPoint("rarea_c", {"_area_c"}) >>
    [] name = "rdx"     -> << Get("dx"), EachPoint("rdx", {"_dx"}) >>
    [] name = "rdy"     -> << Get("dy"), EachPoint("rdy", {"_dy"}) >>
    [] name = "rdxa"    -> << Get("dxa"), EachPoint("rdxa", {"_dx_agrid"}) >>
    [] name = "rdya"    -> << Get("dya"), EachPoint("rdya", {"_dy_agrid"}) >>
    [] name = "rdxc"    -> << Get("dxc"), EachPoint("rdxc", {"_dx_center"}) >>
    [] name = "rdyc"    -> << Get("dyc"), EachPoint("rdyc", {"_dy_center"}) >>

\* MetricTerms.__init__ and from_external choose the functions.
Body(name) ==
  LET OnSphere(sphere, plane) == IF gridType = "cartesian" THEN plane ELSE sphere
  IN  CASE name = "__init__" ->
             << Constant("_ak"), Constant("_bk") >> \o
             (CASE gridType = "cubed" -> _init_dgrid \o _init_agrid
                [] gridType = "external" -> from_external
                [] gridType = "cartesian" -> _init_cartesian)
        [] name = "_dgrid_xyz_64" -> _dgrid_xyz_64
        [] name = "_agrid_xyz_64" -> _agrid_xyz_64
        [] name = "cast_grid" -> << EachPoint("_grid", {"_grid_64"}) >>
        [] name = "cast_agrid" -> << EachPoint("_agrid", {"_agrid_64"}) >>
        [] name \in {"rarea", "rarea_c", "rdx", "rdy", "rdxa", "rdya", "rdxc", "rdyc"} ->
             _reciprocal(name)
        [] name = "dxdy" -> OnSphere(_compute_dxdy_cube_sphere, _compute_dxdy_cartesian)
        [] name = "dxdy_agrid" ->
             OnSphere(_compute_dxdy_agrid_cube_sphere, _compute_dxdy_agrid_cartesian)
        [] name = "dxdy_center" ->
             OnSphere(_compute_dxdy_center_cube_sphere, _compute_dxdy_center_cartesian)
        [] name = "area" -> OnSphere(_compute_area_cube_sphere, _compute_area_cartesian)
        [] name = "area_c" -> OnSphere(_compute_area_c_cube_sphere, _compute_area_c_cartesian)
        [] name = "center_vectors" ->
             OnSphere(_calculate_center_vectors_cube_sphere, _calculate_center_vectors_cartesian)
        [] name = "vectors_west" ->
             OnSphere(_calculate_vectors_west_cube_sphere, _calculate_vectors_west_cartesian)
        [] name = "vectors_south" ->
             OnSphere(_calculate_vectors_south_cube_sphere, _calculate_vectors_south_cartesian)
        [] name = "trigonometry" ->
             OnSphere(_init_cell_trigonometry_cube_sphere, _init_cell_trigonometry_cartesian)
        [] name = "latlon_momentum_correction" ->
             OnSphere(_calculate_latlon_momentum_correction_cube_sphere,
                      _calculate_latlon_momentum_correction_cartesian)
        [] name = "xy_unit_vectors" ->
             OnSphere(_calculate_xy_unit_vectors_cube_sphere, _calculate_xy_unit_vectors_cartesian)
        [] name = "unit_vectors_lonlat" ->
             OnSphere(_calculate_unit_vectors_lonlat_cube_sphere,
                      _calculate_unit_vectors_lonlat_cartesian)
        [] name = "divg_del6" -> _calculate_divg_del6
        [] name = "grid_z" -> _calculate_grid_z
        [] name = "grid_a" -> _calculate_grid_a
        [] name = "edge_factors" -> _calculate_edge_factors
        [] name = "edge_a2c_vect_factors" -> _calculate_edge_a2c_vect_factors
        [] name = "2d_edge_a2c_vect_factors" -> _calculate_2d_edge_a2c_vect_factors
        [] name = "area_minmaxes" -> _reduce_global_area_minmaxes

-----------------------------------------------------------------------------
(* The properties of MetricTerms: what each computes if its attribute is   *)
(* None, and the attribute that it returns.                                *)

Property(attr, body, pairs) == [first |-> Lazy(attr, body, pairs), returns |-> attr]

Positions ==
  [t \in {"grid", "lon", "lat"} |-> Property("_grid", "cast_grid", {})] @@
  [t \in {"agrid", "lon_agrid", "lat_agrid"} |-> Property("_agrid", "cast_agrid", {})]

Lengths ==
  [t \in {"dx", "dy"} |-> Property("_" \o t, "dxdy", Same({"dx", "dy"}))] @@
  [t \in {"dxa", "dya"} |->
     Property(IF t = "dxa" THEN "_dx_agrid" ELSE "_dy_agrid", "dxdy_agrid",
              Same({"dx_agrid", "dy_agrid"}))] @@
  [t \in {"dxc", "dyc"} |->
     Property(IF t = "dxc" THEN "_dx_center" ELSE "_dy_center", "dxdy_center",
              Same({"dx_center", "dy_center"}))]

\* Both coefficients are set when the object is made.
Pressure == [t \in {"ak", "bk"} |-> Property("_" \o t, "none", {})]

Vectors ==
  [t \in {"ec1", "ec2"} |-> Property("_" \o t, "center_vectors", Same({"ec1", "ec2"}))] @@
  [t \in {"ew1", "ew2"} |-> Property("_" \o t, "vectors_west", Same({"ew1", "ew2"}))]

CosAngles ==
  [t \in {"cos_sg" \o ToString(i) : i \in 1..9} |-> Property("_" \o t, "trigonometry", {})]

SinAngles ==
  [t \in {"sin_sg" \o ToString(i) : i \in 1..9} |-> Property("_" \o t, "trigonometry", {})]

OtherAngles ==
  [t \in {"cosa", "sina", "cosa_u", "cosa_v", "cosa_s", "sina_u", "sina_v", "rsin_u",
          "rsin_v", "rsina", "rsin2"} |-> Property("_" \o t, "trigonometry", {})]

Corrections ==
  [t \in {"l2c_v", "l2c_u"} |->
     Property("_" \o t, "latlon_momentum_correction", Same({"l2c_v", "l2c_u"}))] @@
  [t \in {"es1", "es2"} |-> Property("_" \o t, "vectors_south", Same({"es1", "es2"}))] @@
  [t \in {"ee1", "ee2"} |-> Property("_" \o t, "xy_unit_vectors", Same({"ee1", "ee2"}))]

Damping ==
  [t \in {"divg_u", "divg_v", "del6_u", "del6_v"} |->
     Property("_" \o t, "divg_del6", Same({"divg_u", "divg_v", "del6_u", "del6_v"}))]

Matrices ==
  [t \in {"vlon", "vlat"} |-> Property("_" \o t, "unit_vectors_lonlat", Same({"vlon", "vlat"}))] @@
  [t \in {"z11", "z12", "z21", "z22"} |->
     Property("_" \o t, "grid_z", Same({"z11", "z12", "z21", "z22"}))] @@
  [t \in {"a11", "a12", "a21", "a22"} |->
     Property("_" \o t, "grid_a", Same({"a11", "a12", "a21", "a22"}))]

Edges ==
  [t \in {"edge_w", "edge_e", "edge_s", "edge_n"} |->
     Property("_" \o t, "edge_factors", Same({"edge_w", "edge_e", "edge_s", "edge_n"}))]

\* edge_vect_w and edge_vect_e are repeated in two dimensions.
EdgeVectors ==
  LET OneD(attr) == Property(attr, "edge_a2c_vect_factors",
        Same({"edge_vect_w", "edge_vect_e", "edge_vect_s", "edge_vect_n"}))
      TwoD(attr) == Property(attr, "2d_edge_a2c_vect_factors",
        Same({"edge_vect_w_2d", "edge_vect_e_2d"}))
  IN  "edge_vect_w_1d" :> OneD("_edge_vect_w") @@ "edge_vect_e_1d" :> OneD("_edge_vect_e") @@
      "edge_vect_s" :> OneD("_edge_vect_s") @@ "edge_vect_n" :> OneD("_edge_vect_n") @@
      "edge_vect_w" :> TwoD("_edge_vect_w_2d") @@ "edge_vect_e" :> TwoD("_edge_vect_e_2d")

Areas ==
  [t \in {"da_min", "da_max", "da_min_c", "da_max_c"} |-> Property("_" \o t, "area_minmaxes", {})] @@
  [t \in {"area", "area64"} |->
     Property("_" \o t, "area", {<<"_area", "area">>, <<"_area64", "area_64">>})] @@
  [t \in {"area_c"} |-> Property("_area_c", "area_c", Same({"area_c"}))]

Reciprocals ==
  [t \in {"rarea", "rarea_c", "rdx", "rdy", "rdxa", "rdya", "rdxc", "rdyc"} |-> Property(t, t, {})]

Properties ==
  Positions @@ Lengths @@ Pressure @@ Vectors @@ CosAngles @@ SinAngles @@ OtherAngles @@
  Corrections @@ Damping @@ Matrices @@ Edges @@ EdgeVectors @@ Areas @@ Reciprocals

-----------------------------------------------------------------------------
(* The execution of the statements.                                        *)

Init ==
  /\ gridType \in GridTypes
  /\ program \in Programs
  /\ mem = [r \in Ranks |-> <<>>]
  /\ todo = [r \in Ranks |-> Body("__init__")]
  /\ reading = [r \in Ranks |-> "__init__"]
  /\ sent = [r \in Ranks |-> <<>>]
  /\ returned = [r \in Ranks |-> <<>>]

\* Regions of an array that hold what they should; none if it is None.
Right(memory, name) == IF name \in DOMAIN memory THEN memory[name] ELSE {}

\* The memory of a rank after a statement that concerns this rank only.
Executed(memory, s) ==
  CASE s.op = "calc" ->
         (s.name :> {region \in DOMAIN s.from :
                       \A input \in s.from[region] : input[2] \in Right(memory, input[1])})
         @@ memory
    [] s.op = "fill" ->
         [name \in DOMAIN s.from |->
            (Right(memory, name) \ {"corner"}) \union
            (IF Cardinality(s.directions) = 1 /\ "edge" \in Right(memory, s.from[name])
             THEN {"corner"} ELSE {})] @@ memory
    [] s.op = "assign" ->
         [attr \in {p[1] : p \in s.pairs} |->
            Right(memory, (CHOOSE p \in s.pairs : p[1] = attr)[2])] @@ memory

\* What a getter, or a function that looks for None, goes on with.
Call(memory, s) ==
  LET lazy == IF s.op = "get" THEN Properties[s.term].first ELSE s
  IN  IF lazy.attr \in DOMAIN memory THEN <<>>
      ELSE Body(lazy.body) \o IF lazy.pairs = {} THEN <<>> ELSE << Assign(lazy.pairs) >>

\* One statement of a rank that is not a collective call.
After(s) ==
  IF Head(s.todo).op \in {"lazy", "get"}
  THEN [s EXCEPT !.todo = Call(s.memory, Head(@)) \o Tail(@)]
  ELSE [memory |-> Executed(s.memory, Head(s.todo)), todo |-> Tail(s.todo)]

\* A rank's run, with the getters it calls, up to the next collective call.
\* (Bound in a set, the state after a statement is evaluated once.)
RECURSIVE Run(_)
Run(s) ==
  IF s.todo = <<>> \/ Head(s.todo).op = "exchange" THEN s
  ELSE CHOOSE end \in {Run(next) : next \in {After(s)}} : TRUE

\* No other rank sees this run: it is one step.
Compute(r) ==
  /\ todo[r] # <<>>
  /\ Head(todo[r]).op \notin {"exchange", "wait"}
  /\ LET end == Run([memory |-> mem[r], todo |-> todo[r]])
     IN  /\ mem' = [mem EXCEPT ![r] = end.memory]
         /\ todo' = [todo EXCEPT ![r] = end.todo]
  /\ UNCHANGED <<gridType, program, reading, sent, returned>>

\* A collective call starts: the rank's part is on its way.
Send(r) ==
  /\ todo[r] # <<>>
  /\ Head(todo[r]).op = "exchange"
  /\ LET names == Head(todo[r]).names
     IN  sent' = [sent EXCEPT ![r] = Append(@,
                    [names |-> names,
                     right |-> {n \in DOMAIN names : "in" \in Right(mem[r], names[n])}])]
  /\ todo' = [todo EXCEPT ![r] = << [op |-> "wait", names |-> Head(@).names] >> \o Tail(@)]
  /\ UNCHANGED <<gridType, program, mem, reading, returned>>

\* It ends when the same call of every other rank has started; what has come
\* is right if the others sent the same, complete in their compute domain.
Receive(r) ==
  /\ todo[r] # <<>>
  /\ Head(todo[r]).op = "wait"
  /\ \A o \in Ranks : Len(sent[o]) >= Len(sent[r])
  /\ LET names == Head(todo[r]).names
         Came(n) == \A o \in Ranks \ {r} :
                      /\ sent[o][Len(sent[r])].names = names
                      /\ n \in sent[o][Len(sent[r])].right
         scalar == Len(names) = 1 /\ names[1] \in {"_da_min", "_da_max", "_da_min_c", "_da_max_c"}
     IN  mem' = [mem EXCEPT ![r] =
           [name \in Range(names) |->
              LET n == CHOOSE k \in DOMAIN names : names[k] = name
              IN  IF scalar THEN IF Came(n) THEN @[name] ELSE {}
                  ELSE (@[name] \ {"edge"}) \union IF Came(n) THEN {"edge"} ELSE {}] @@ @]
  /\ todo' = [todo EXCEPT ![r] = Tail(@)]
  /\ UNCHANGED <<gridType, program, reading, sent, returned>>

\* The next read of the program starts, and the last one returns.
StartRead(r) ==
  /\ reading[r] = "none"
  /\ Len(returned[r]) < Len(program)
  /\ LET term == program[Len(returned[r]) + 1]
     IN  /\ reading' = [reading EXCEPT ![r] = term]
         /\ todo' = [todo EXCEPT ![r] = << Get(term) >>]
  /\ UNCHANGED <<gridType, program, mem, sent, returned>>

Return(r) ==
  /\ reading[r] # "none"
  /\ todo[r] = <<>>
  /\ reading' = [reading EXCEPT ![r] = "none"]
  /\ returned' = IF reading[r] = "__init__" THEN returned
                 ELSE [returned EXCEPT ![r] =
                         Append(@, Right(mem[r], Properties[reading[r]].returns))]
  /\ UNCHANGED <<gridType, program, mem, todo, sent>>

Step(r) ==
  Compute(r) \/ Send(r) \/ Receive(r) \/ StartRead(r) \/ Return(r)

Next == \E r \in Ranks : Step(r)

\* Every rank is a process that keeps running.
Spec == Init /\ [][Next]_vars /\ \A r \in Ranks : WF_vars(Step(r))

-----------------------------------------------------------------------------

(***************************************************************************)
(* That terms are computed when they are first read cannot be seen: each   *)
(* read answers with the term, complete in the regions where the term has  *)
(* values at all, whatever was read before and however far apart the ranks *)
(* run; and every read answers (the property getters of MetricTerms).      *)
(***************************************************************************)
Promised == INSTANCE MetricSpec WITH Ranks <- Ranks, gridType <- gridType,
                                    program <- program, returned <- returned
LazyIsEager == Promised!Spec

(***************************************************************************)
(* No rank exchanges or reduces an array twice: what was computed on the   *)
(* way to another term is kept, though some functions look for the 64-bit  *)
(* twin of an attribute and others for the attribute ("is None" in the     *)
(* getters and in _calculate_divg_del6, _calculate_grid_z, ...).           *)
(***************************************************************************)
ExchangedOnce ==
  \A r \in Ranks : \A m, n \in DOMAIN sent[r] :
    m # n => Range(sent[r][m].names) \intersect Range(sent[r][n].names) = {}
=============================================================================
