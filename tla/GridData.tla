------------------------------ MODULE GridData ------------------------------
(***************************************************************************)
(* The objects of ndsl/grid/helper.py that a model's components are given: *)
(* GridData, with the pressures and Coriolis parameters it computes when   *)
(* they are first read, and DriverGridData.  An array is a record of what  *)
(* it was made from; the pressure coefficients ak and bk, which callers    *)
(* may replace, carry a version.                                           *)
(***************************************************************************)
EXTENDS Naturals, Sequences, TLC

CONSTANT MaxVersion  \* the versions of a coefficient that are tried

Fields == INSTANCE GridDataFields

None == [made |-> "None"]

VARIABLES
  terms,        \* the attributes of the parts of a GridData: field |-> term
  coefficient,  \* VerticalGridData.ak and .bk: their versions
  cache,        \* _p_interface, _p, _dp_ref, _fC, _fC_agrid
  driver,       \* the fields of a DriverGridData
  replaced      \* history: a coefficient was replaced after a pressure was read

vars == <<terms, coefficient, cache, driver, replaced>>

Caches == {"_p_interface", "_p", "_dp_ref", "_fC", "_fC_agrid"}

Init ==
  /\ terms = <<>>
  /\ coefficient = [ak |-> 0, bk |-> 0]
  /\ cache = [c \in Caches |-> None]
  /\ driver = <<>>
  /\ replaced = FALSE

HasObject == terms # <<>>

\* The properties of GridData that hand on the attribute of a part.
HandedOn(part) == [f \in {part[n][1] : n \in DOMAIN part} |-> terms[f]]

OfHorizontalData    == HandedOn(Fields!HorizontalGridData)
OfContravariantData == HandedOn(Fields!ContravariantGridData)
OfAngleData         == HandedOn(Fields!AngleGridData)

\* Field f of an object holds the term that is read for it.
Made(class) ==
  [f \in {class[n][1] : n \in DOMAIN class} |->
     LET n == CHOOSE k \in DOMAIN class : class[k][1] = f IN class[n][2]]

\* _fC_from_data of data given to __init__: both get the shape of the corners.
Given == [made |-> "given", shape |-> "lat"]

\* GridData.new_from_metric_terms, or with fc and fc_agrid given to __init__.
new_from_metric_terms ==
  /\ terms' = Made(Fields!GridDataFields)
  /\ coefficient' = [ak |-> 1, bk |-> 1]
  /\ \E given \in SUBSET {"_fC", "_fC_agrid"} :
       cache' = [c \in Caches |-> IF c \in given THEN Given ELSE None]
  /\ replaced' = FALSE
  /\ UNCHANGED driver

-----------------------------------------------------------------------------
(* Pressures.                                                              *)

OfCoefficients(made) == [made |-> made, ak |-> coefficient.ak, bk |-> coefficient.bk]

\* What _p_interface is once p_interface has been read.
Interface ==
  IF cache["_p_interface"] # None THEN cache["_p_interface"] ELSE OfCoefficients("pressure")

p_interface ==
  /\ HasObject
  /\ cache' = [cache EXCEPT !["_p_interface"] = Interface]
  /\ UNCHANGED <<terms, coefficient, driver, replaced>>

\* Faulty variant: p is computed from the layers' thickness if that is there.
Bug_p ==
  /\ HasObject
  /\ cache' = IF cache["_p"] # None THEN cache
              ELSE [cache EXCEPT !["_p"] = IF cache["_dp_ref"] # None THEN cache["_dp_ref"]
                                           ELSE Interface]
  /\ UNCHANGED <<terms, coefficient, driver, replaced>>

\* p is computed from p_interface, which it reads.
p ==
  /\ HasObject
  /\ cache' = IF cache["_p"] # None THEN cache
              ELSE [cache EXCEPT !["_p_interface"] = Interface, !["_p"] = Interface]
  /\ UNCHANGED <<terms, coefficient, driver, replaced>>

\* dp is computed from the coefficients.
dp ==
  /\ HasObject
  /\ cache' = IF cache["_dp_ref"] # None THEN cache
              ELSE [cache EXCEPT !["_dp_ref"] = OfCoefficients("thickness")]
  /\ UNCHANGED <<terms, coefficient, driver, replaced>>

PressureRead == \E c \in {"_p_interface", "_p", "_dp_ref"} : cache[c] # None

\* The setters of GridData.ak and bk: any number of times, before a pressure is
\* read or after, and the pressures that were read stay as they are.  (That of
\* ks sets an attribute nothing is made of; that of ptop raises, ptop being a
\* property of VerticalGridData that has no setter.)
set_coefficient(name) ==
  /\ HasObject
  /\ coefficient[name] < MaxVersion
  /\ coefficient' = [coefficient EXCEPT ![name] = @ + 1]
  /\ replaced' = (replaced \/ PressureRead)
  /\ UNCHANGED <<terms, cache, driver>>

-----------------------------------------------------------------------------
(* Coriolis parameters.                                                    *)

FromLatitude(c, latitude) ==
  /\ HasObject
  /\ cache' = IF cache[c] # None THEN cache
              ELSE [cache EXCEPT ![c] = [made |-> "Coriolis", shape |-> OfHorizontalData[latitude]]]
  /\ UNCHANGED <<terms, coefficient, driver, replaced>>

fC       == FromLatitude("_fC", "lat")

fC_agrid == FromLatitude("_fC_agrid", "lat_agrid")

-----------------------------------------------------------------------------
(* DriverGridData.                                                         *)

Vectors == {"vlon", "vlat", "es1", "ew2"}

\* split_quantity_along_last_dim: a vector's component n.
Component(vector, n) == vector \o ToString(n)

\* Faulty variant: the components of the unit vectors of x and y are exchanged.
Bug_new_from_grid_variables(given) ==
  driver' = [f \in DOMAIN given \ Vectors |-> given[f]] @@
            [f \in {Component(v, n) : v \in Vectors, n \in 1..3} |->
               LET of == CHOOSE of \in Vectors \X (1..3) : Component(of[1], of[2]) = f
                   from == CASE of[1] = "es1" -> "ew2" [] of[1] = "ew2" -> "es1"
                             [] OTHER -> of[1]
               IN  Component(given[from], of[2])]

\* new_from_grid_variables: the vectors are split.
new_from_grid_variables(given) ==
  driver' = [f \in DOMAIN given \ Vectors |-> given[f]] @@
            [f \in {Component(v, n) : v \in Vectors, n \in 1..3} |->
               LET of == CHOOSE of \in Vectors \X (1..3) : Component(of[1], of[2]) = f
               IN  Component(given[of[1]], of[2])]

DriverFromMetricTerms ==
  /\ new_from_grid_variables(Made(Fields!DriverGridData))
  /\ UNCHANGED <<terms, coefficient, cache, replaced>>

Next ==
  \/ new_from_metric_terms
  \/ p_interface \/ p \/ dp
  \/ \E name \in {"ak", "bk"} : set_coefficient(name)
  \/ fC \/ fC_agrid
  \/ DriverFromMetricTerms

Spec == Init /\ [][Next]_vars

-----------------------------------------------------------------------------

(***************************************************************************)
(* What an object has cached is what the term's name says, in whatever     *)
(* order the terms are read.  The pressures agree: at the interfaces, in   *)
(* the middle and as the thickness of the layers they are those of the     *)
(* coefficients ("p = ak + bk * p_ref", VerticalGridData), if no           *)
(* coefficient was replaced after a read; whatever was replaced, the       *)
(* pressure in the middle is that of the interfaces.  The Coriolis         *)
(* parameter at the corners is that of their latitude or has its shape,    *)
(* and the one at the centres is of theirs (GridData.fC, fC_agrid), unless *)
(* it was given: then it has the shape of the corners.                     *)
(***************************************************************************)
CachesHoldTheirTerms ==
  /\ ~replaced =>
       /\ cache["_p_interface"] \in {None, OfCoefficients("pressure")}
       /\ cache["_dp_ref"] \in {None, OfCoefficients("thickness")}
  /\ cache["_p"] \in {None, cache["_p_interface"]}
  /\ cache["_fC"] # None => cache["_fC"].shape = "lat"
  /\ cache["_fC_agrid"] \in {None, Given, [made |-> "Coriolis", shape |-> "lat_agrid"]}

\* The fields that new_from_metric_terms makes of vlon (vlat=metric_terms.vlon).
MadeOfVlon == {Component("vlat", n) : n \in 1..3}

(***************************************************************************)
(* Each field of a DriverGridData, the components of split vectors among   *)
(* them, is what its name says (the class's docstring), except the three   *)
(* of vlat, which hold those of vlon; and each property of a GridData that *)
(* hands on an attribute of one of its parts, whichever part has it.       *)
(***************************************************************************)
FieldsAreNamesakes ==
  /\ \A f \in DOMAIN driver \ MadeOfVlon : driver[f] = f
  /\ HasObject =>
       \A part \in {OfHorizontalData, OfContravariantData, OfAngleData} :
         \A f \in DOMAIN part : part[f] = IF f = "area_64" THEN "area64" ELSE f
=============================================================================
