--------------------------- MODULE GridDataFields ---------------------------
(***************************************************************************)
(* The classes of ndsl/grid/helper.py that collect metric terms, with the  *)
(* term that new_from_metric_terms reads for each of their fields, in the  *)
(* order of the reads: <<field, term>>.                                    *)
(***************************************************************************)
EXTENDS Naturals, Sequences, TLC

\* Fields that are named as the term they hold.
Namesakes(terms) == [n \in DOMAIN terms |-> <<terms[n], terms[n]>>]

DampingCoefficients ==
  Namesakes(<<"divg_u", "divg_v", "del6_u", "del6_v", "da_min", "da_min_c">>)

HorizontalGridData ==
  Namesakes(<<"lon", "lat", "lon_agrid", "lat_agrid", "area">>)
  \o << <<"area_64", "area64">> >>
  \o Namesakes(<<"rarea", "rarea_c", "dx", "dy", "dxc", "dyc", "dxa", "dya", "rdx", "rdy",
                 "rdxc", "rdyc", "rdxa", "rdya", "ee1", "ee2", "es1", "ew2", "a11", "a12",
                 "a21", "a22", "edge_w", "edge_e", "edge_s", "edge_n">>)

VerticalGridData == Namesakes(<<"ak", "bk">>)

ContravariantGridData ==
  Namesakes(<<"cosa", "cosa_u", "cosa_v", "cosa_s", "sina_u", "sina_v", "rsina", "rsin_u",
              "rsin_v", "rsin2">>)

AngleGridData ==
  Namesakes([n \in 1..18 |-> IF n <= 9 THEN "sin_sg" \o ToString(n)
                                       ELSE "cos_sg" \o ToString(n - 9)])

\* GridData.new_from_metric_terms makes its four parts one after the other.
GridDataFields ==
  HorizontalGridData \o VerticalGridData \o ContravariantGridData \o AngleGridData

\* The vectors among them are split into their three components.
DriverGridData ==
  << <<"vlon", "vlon">>, <<"vlat", "vlon">> >>
  \o Namesakes(<<"edge_vect_n", "edge_vect_s", "edge_vect_e", "edge_vect_w", "es1", "ew2">>)

TermsOf(class) == [n \in DOMAIN class |-> class[n][2]]
=============================================================================
