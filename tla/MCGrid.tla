------------------------------- MODULE MCGrid -------------------------------
(***************************************************************************)
(* The grid's generation and use, side by side: the metric terms that are  *)
(* computed when they are read (MetricTerms), the objects that are made    *)
(* from them and cache terms of their own (GridData), and the fills of a   *)
(* tile's corners that generation and the model use (Corners).  A          *)
(* behaviour is one of one of them; the others' variables are Idle, or     *)
(* those of ranks that read no terms.                                      *)
(***************************************************************************)
EXTENDS MetricTerms

CONSTANTS
  MaxVersion,                          \* of GridData
  Fills, Domains, HaloWidths, Levels   \* of Corners

VARIABLES
  part,                                \* "terms", "objects" or "corners"
  terms, coefficient, cache, driver, replaced,   \* of GridData
  call, filled, done                   \* of Corners

Objects  == INSTANCE GridData
Fills2d == INSTANCE Corners

Idle == <<>>

ofObjects == <<terms, coefficient, cache, driver, replaced>>
ofFills   == <<call, filled, done>>
MCvars == <<vars, part, ofObjects, ofFills>>

NoTerms ==
  /\ gridType = "cubed" /\ program = <<>> /\ mem = Idle /\ todo = Idle /\ reading = Idle
  /\ sent = [r \in Ranks |-> <<>>]
  /\ returned = [r \in Ranks |-> <<>>]
NoObjects ==
  terms = Idle /\ coefficient = Idle /\ cache = Idle /\ driver = Idle /\ replaced = Idle
NoFills   == call = Idle /\ filled = Idle /\ done = Idle

MCInit ==
  \/ part = "terms" /\ Init /\ NoObjects /\ NoFills
  \/ part = "objects" /\ Objects!Init /\ NoTerms /\ NoFills
  \/ part = "corners" /\ Fills2d!Init /\ NoTerms /\ NoObjects

TermsStep(r) == part = "terms" /\ Step(r) /\ UNCHANGED <<part, ofObjects, ofFills>>

MCNext ==
  \/ \E r \in Ranks : TermsStep(r)
  \/ part = "objects" /\ Objects!Next /\ UNCHANGED <<part, vars, ofFills>>
  \/ part = "corners" /\ Fills2d!Next /\ UNCHANGED <<part, vars, ofObjects>>

\* Every rank is a process that keeps running.
MCSpec == MCInit /\ [][MCNext]_MCvars /\ \A r \in Ranks : WF_MCvars(TermsStep(r))

-----------------------------------------------------------------------------

\* What an object has cached, and what each field of a DriverGridData but vlat
\* and each property of a GridData returns, is what the term's name says (GridData).
ObjectsHoldTheirTerms ==
  part = "objects" => Objects!CachesHoldTheirTerms /\ Objects!FieldsAreNamesakes

\* A corner is filled with the halo turned about it (Corners).
CornersTurned == part = "corners" => Fills2d!CornersTurned

\* No fill reads or writes an element that its arrays do not have (Corners).
AccessesFit == part = "corners" => Fills2d!AccessesFit

-----------------------------------------------------------------------------
(* Two ranks; every two terms of different functions in either order, and  *)
(* the reads of the classes that collect metric terms.                     *)

Fields == INSTANCE GridDataFields

\* One or two terms of each function: those whose attributes differ.
MCTerms ==
  {"lon", "dx", "dxa", "dyc", "area64", "area_c", "ec1", "ew2", "sin_sg5",
   "cosa_u", "l2c_v", "ee1", "divg_u", "vlon", "a11", "edge_w",
   "edge_vect_w", "da_min"}

MCPrograms ==
  {<<s, t>> : s, t \in MCTerms} \union
  {Fields!TermsOf(Fields!DampingCoefficients), Fields!TermsOf(Fields!GridDataFields),
   Fields!TermsOf(Fields!DriverGridData)}

-----------------------------------------------------------------------------
(* Compute domains of three and four cells, so that they are not square;   *)
(* every set of edges of the tile that a rank can lie on; six levels.      *)

MCFills ==
  {"agrid_i", "agrid_j", "bgrid_i", "bgrid_j", "agrid", "dgrid", "cgrid", "copy_corners",
   "2cells_x", "3cells_x", "2cells_y", "3cells_y", "bgrid_x", "bgrid_y", "dgrid_defn"}
MCDomains == {<<3, 3, 6>>, <<4, 3, 6>>}
MCLevels == {<<0, 6>>, <<1, 4>>}
=============================================================================
