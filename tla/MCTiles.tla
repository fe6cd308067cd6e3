------------------------------ MODULE MCTiles ------------------------------
(***************************************************************************)
(* The users of a tile's subtiles, side by side: scatter_state and         *)
(* gather_state (TileTransfer), and the two monitors that store states on  *)
(* disk (NetCDFMonitor, ZarrMonitor).  A behaviour is one of one of them;  *)
(* its variables are those of its module, and the others keep Idle.        *)
(***************************************************************************)
EXTENDS ZarrMonitor

CONSTANTS
  Users,                                          \* those considered
  TransferNames, Dims, Layouts, Ratios, Sizes, Orders,  \* of TileTransfer
  Size, NetCDFVariables, NetCDFPrograms, ChunkSizes     \* of NetCDFMonitor

VARIABLES
  user,                                                 \* "transfer", "netcdf" or "zarr"
  tile_layout, edge_ratio, tile_cells, keys, state, pc, posted, tile,  \* of TileTransfer, and got
  size, received, expected_vars, writer, files, constants, stored,
                                                        \* of NetCDFMonitor, and program, call, item
  sent                                                  \* of both

\* The names of a state are different, and every state has some.
ASSUME NetCDFAssumption ==
  /\ Size \in Nat \ {0}
  /\ NetCDFVariables \in Seq(Range(NetCDFVariables)) /\ NetCDFVariables # <<>>
  /\ IsInjective(NetCDFVariables)
  /\ NetCDFPrograms \subseteq Seq({"store", "other", "constant", "cleanup"})

Transfer == INSTANCE TileTransfer WITH Names <- TransferNames
NetCDF == INSTANCE NetCDFMonitor WITH Programs <- NetCDFPrograms, Variables <- NetCDFVariables

Idle == <<>>

ofTransfer == <<tile_layout, edge_ratio, tile_cells, keys, state, pc, posted, tile>>
ofNetCDF   == <<size, received, expected_vars, writer, files, constants, stored>>
ofZarr     == <<step, i_time, array, bcasts, length, disk, chunk>>
MCvars == <<user, ofTransfer, ofNetCDF, ofZarr, sent, got, program, call, item>>

NoTransfer ==
  /\ tile_layout = Idle /\ edge_ratio = Idle /\ tile_cells = Idle /\ keys = Idle
  /\ state = Idle /\ pc = Idle /\ posted = Idle /\ tile = Idle
NoNetCDF ==
  /\ size = Idle /\ received = Idle /\ expected_vars = Idle /\ writer = Idle
  /\ files = Idle /\ constants = Idle /\ stored = Idle
NoZarr ==
  /\ step = Idle /\ i_time = Idle /\ array = Idle /\ bcasts = Idle
  /\ length = Idle /\ disk = Idle /\ chunk = Idle

MCInit ==
  /\ user \in Users
  /\ \/ /\ user = "transfer" /\ Transfer!Init /\ NoNetCDF /\ NoZarr
        /\ program = Idle /\ call = Idle /\ item = Idle
     \/ user = "netcdf" /\ NetCDF!Init /\ NoTransfer /\ NoZarr /\ got = Idle
     \/ user = "zarr" /\ Init /\ NoTransfer /\ NoNetCDF /\ sent = Idle

TransferNext ==
  user = "transfer" /\ Transfer!Next /\ UNCHANGED <<user, ofNetCDF, ofZarr, program, call, item>>
NetCDFStep(r) ==
  user = "netcdf" /\ NetCDF!Step(r) /\ UNCHANGED <<user, ofTransfer, ofZarr, got>>
ZarrStep(r) ==
  user = "zarr" /\ Step(r) /\ UNCHANGED <<user, ofTransfer, ofNetCDF, sent>>

MCNext ==
  \/ TransferNext
  \/ \E r \in NetCDF!Ranks : NetCDFStep(r)
  \/ \E r \in Ranks : ZarrStep(r)

\* Every rank is a process that keeps running.
MCSpec ==
  /\ MCInit /\ [][MCNext]_MCvars
  /\ WF_MCvars(TransferNext)
  /\ \A r \in NetCDF!Ranks : WF_MCvars(NetCDFStep(r))
  /\ \A r \in Ranks : WF_MCvars(ZarrStep(r))

-----------------------------------------------------------------------------

\* What is gathered is what was scattered, each point in its place (TileTransfer).
BackInPlace == user = "transfer" => Transfer!BackInPlace

\* Every scattering and gathering ends (TileTransfer).
TransfersEnd == <>(user = "transfer" => Transfer!Ended)

\* Each time in a file has every variable's part of every rank (NetCDFMonitor).
StatesAreWhole == user = "netcdf" => NetCDF!StatesAreWhole

\* NetCDFMonitor refines MonitorSpec: the states stored are in the files after
\* cleanup, in order, and none takes another's place.
StatesAreKept == NetCDF!StatesAreKept

\* No time that was stored is lost (NetCDFMonitor).
NoTimeLost == user = "netcdf" => NetCDF!NoTimeLost

\* What every rank has stored is on disk, each point by one rank (ZarrMonitor).
ZarrStatesAreStored == user = "zarr" => StatesAreStored

\* No rank writes beyond the times that its array object has (ZarrMonitor).
ZarrWritesInsideArray == user = "zarr" => WritesInsideArray

\* Every call of store and store_constant ends on every rank (ZarrMonitor).
EveryZarrStoreEnds == <>(user = "zarr" => Ended)

-----------------------------------------------------------------------------
(* The slices of subtiles of different sizes, which cannot be scattered:   *)
(* for a row of one to five ranks, up to 34 cells and several ratios,      *)
(* the slices without overlap are a partition of the row's points, in the  *)
(* order of the ranks, and overlap adds the first point of the next rank.  *)

SlicesOfARow(dim, cells, count, ratio, overlap) ==
  [n \in 0..(count - 1) |-> subtile_slice(dim, cells + Extra(dim), <<1, count>>,
                                         [j |-> 0, i |-> n], ratio, overlap)]

CoversTheRow(dim, cells, count, ratio) ==
  LET plain == SlicesOfARow(dim, cells, count, ratio, FALSE)
      wide  == SlicesOfARow(dim, cells, count, ratio, TRUE)
  IN  /\ plain[0].start = 0 /\ plain[count - 1].stop = cells + Extra(dim)
      /\ \A n \in 0..(count - 2) : plain[n].stop = plain[n + 1].start
      /\ \A n \in 0..(count - 1) : Width(plain[n]) > 0
      /\ \A n \in 0..(count - 2) : wide[n] = Slice(plain[n].start, plain[n].stop + Extra(dim))

ASSUME SlicesCoverTheRow ==
  \A interface \in BOOLEAN, cells \in 1..34, count \in 1..5,
     ratio \in {<<1, 1>>, <<1, 2>>, <<2, 1>>, <<3, 4>>} :
    LET dim == [axis |-> "i", interface |-> interface]
    IN  \/ cells < count
        \/ _subtile_extents_from_tile_metadata(dim, cells + Extra(dim), <<1, count>>, ratio)
             = NoDecomposition
        \/ CoversTheRow(dim, cells, count, ratio)

-----------------------------------------------------------------------------
(* Layouts of up to four ranks; a field of cells and one of corners, their *)
(* dimensions in either order.                                             *)

J(interface) == [axis |-> "j", interface |-> interface]
I(interface) == [axis |-> "i", interface |-> interface]

MCNames == {"wind", "corner"}
MCDims == [wind |-> <<I(FALSE), J(TRUE)>>, corner |-> <<J(TRUE), I(TRUE)>>]
MCLayouts == {<<1, 2>>, <<2, 2>>, <<3, 1>>, <<1, 4>>}
MCSizes == {<<6, 4>>}
MCRatios == {<<1, 1>>}

\* All ranks hold the names in the same order.
MCOrders == {<<"wind", "corner">>}

-----------------------------------------------------------------------------
(* Two ranks; up to six calls that end with cleanup, and chunks of one to  *)
(* three times.                                                            *)

MCVariables == <<"u", "v">>

Calls(kinds, n) == UNION {[1..m -> kinds] : m \in 1..n}

\* cleanup is the last call.
MCNetCDFPrograms == {p \o <<"cleanup">> : p \in
  {q \in Calls({"store", "constant", "other"}, 5) :
     \A n \in DOMAIN q : q[n] = "other" => \E m \in 1..n : q[m] = "store"}}

\* cleanup, and then another state.
MCCleanupEarly == {p \o <<"cleanup">> : p \in Calls({"store", "cleanup"}, 4)}

-----------------------------------------------------------------------------
(* A row of three ranks with two cells each; a variable of cells, one of   *)
(* their corners, and time between them in sorted order.                   *)

MCLayout == <<1, 3>>
MCZarrNames == <<"corner", "time", "wind">>
MCDim == [corner |-> [axis |-> "i", interface |-> TRUE],
          wind |-> [axis |-> "i", interface |-> FALSE]]
MCZarrPrograms ==
  {<<"store", "store", "store">>, <<"constant", "store", "constant", "store">>,
   <<"store", "store", "constant">>}
=============================================================================
