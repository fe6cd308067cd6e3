---------------------------- MODULE TileTransfer ----------------------------
(***************************************************************************)
(* A state of a tile is scattered from the tile's root over its ranks, and *)
(* gathered again (scatter, gather, scatter_state and gather_state of      *)
(* ndsl/comm/communicator.py, on a TileCommunicator).  The root goes on    *)
(* when it has sent; the others when they have got what they wait for; a   *)
(* rank's part of a gathering is on its way while the rank goes on.        *)
(*                                                                         *)
(* A point's value is <<name, point of the tile>>; a tile's array and a    *)
(* rank's are functions of their points.                                   *)
(***************************************************************************)
EXTENDS TileSlices, Functions, SequencesExt

CONSTANTS
  Names,     \* the names of the state
  Dims,      \* Dims[name]: the dimensions of its array
  Layouts, Ratios,
  Sizes,     \* a tile's cells along j and i
  Orders     \* the orders in which a dictionary may hold names

ROOT == 0
Zero == <<>>

VARIABLES
  tile_layout, edge_ratio, tile_cells,
  keys,      \* keys[r]: the names in the state of rank r, in order
  state,     \* state[r][name]: its array; <<>> for one that was only allocated
  pc,        \* pc[r]: <<"scatter", n>>, <<"gather", n>>, "done" or "raised"
  posted,    \* what the root has broadcast and scattered
  got,       \* got[r]: how much of it rank r has
  sent,      \* sent[r]: parts on their way to the root
  tile       \* what the root has gathered

vars == <<tile_layout, edge_ratio, tile_cells, keys, state, pc, posted, got, sent, tile>>

Ranks == 0..(tile_layout[1] * tile_layout[2] - 1)
Subtile(r) == [j |-> r \div tile_layout[2], i |-> r % tile_layout[2]]

\* The extent of the tile, and the points of an array of an extent.
TileExtent(dims) ==
  [d \in DOMAIN dims |-> (IF dims[d].axis = "j" THEN tile_cells[1] ELSE tile_cells[2]) + Extra(dims[d])]
Points(extent) == (0..(extent[1] - 1)) \X (0..(extent[2] - 1))

Array(name) == [p \in Points(TileExtent(Dims[name])) |-> <<name, p>>]

\* Faulty variant: the slices do not overlap, and only the last rank has the extra point.
NoOverlap_SliceOf(name, extent, r) ==
  LET slices == subtile_slices(Dims[name], extent, tile_layout, Subtile(r), edge_ratio, FALSE)
  IN  <<slices[1], slices[2]>>

\* The slice of a rank, and the part of an array that it is.
SliceOf(name, extent, r) ==
  LET slices == subtile_slices(Dims[name], extent, tile_layout, Subtile(r), edge_ratio, TRUE)
  IN  <<slices[1], slices[2]>>

ExtentOf(slices) == <<Width(slices[1]), Width(slices[2])>>
View(whole, slices) ==
  [p \in Points(ExtentOf(slices)) |-> whole[[d \in DOMAIN p |-> p[d] + slices[d].start]]]

Decomposes(name) ==
  \A d \in DOMAIN Dims[name] :
    _subtile_extents_from_tile_metadata(Dims[name][d], TileExtent(Dims[name])[d], tile_layout, edge_ratio)
      # NoDecomposition

Init ==
  /\ tile_layout \in Layouts /\ edge_ratio \in Ratios /\ tile_cells \in Sizes
  /\ \A name \in Names : Decomposes(name)
  /\ keys \in [Ranks -> Orders]
  /\ state = [r \in Ranks |-> [name \in Names |-> IF r = ROOT THEN Array(name) ELSE <<>>]]
  /\ pc = [r \in Ranks |-> <<"scatter", 1>>]
  /\ posted = <<>>
  /\ got = [r \in Ranks |-> 0]
  /\ sent = [r \in Ranks |-> <<>>]
  /\ tile = <<>>

-----------------------------------------------------------------------------

Count == Cardinality(Names)
ScatterOrder == keys[ROOT]
After(phase, n) == IF n < Count THEN <<phase, n + 1>>
                   ELSE IF phase = "scatter" THEN <<"gather", 1>> ELSE "done"

\* scatter_state on the root: the names' order, then for each its metadata and
\* a buffer with room for as many points as the root's part for every rank.
ScatterRoot ==
  /\ pc[ROOT] # "done" /\ pc[ROOT] # "raised" /\ pc[ROOT][1] = "scatter"
  /\ LET n == pc[ROOT][2]
         name == ScatterOrder[n]
         extent == TileExtent(Dims[name])
         slices == [r \in Ranks |-> SliceOf(name, extent, r)]
         fits == \A r \in Ranks : ExtentOf(slices[r]) = ExtentOf(slices[ROOT])
         whole == Array(name)
         part == [r \in Ranks |-> View(whole, slices[r])]
     IN  IF fits
         THEN /\ posted' = Append(posted, [name |-> name, extent |-> extent, part |-> part])
              /\ state' = [state EXCEPT ![ROOT][name] = part[ROOT]]
              /\ pc' = [pc EXCEPT ![ROOT] = After("scatter", n)]
         ELSE /\ pc' = [pc EXCEPT ![ROOT] = "raised"]
              /\ UNCHANGED <<posted, state>>
  /\ UNCHANGED <<tile_layout, edge_ratio, tile_cells, keys, got, sent, tile>>

\* On another rank; the names come in the root's order, the state keeps its own.
Scatter(r) ==
  /\ r # ROOT /\ pc[r] # "done" /\ pc[r][1] = "scatter"
  /\ got[r] < Len(posted)
  /\ LET it == posted[got[r] + 1]
     IN  state' = [state EXCEPT ![r][it.name] = it.part[r]]
  /\ got' = [got EXCEPT ![r] = @ + 1]
  /\ pc' = [pc EXCEPT ![r] = After("scatter", pc[r][2])]
  /\ UNCHANGED <<tile_layout, edge_ratio, tile_cells, keys, posted, sent, tile>>

\* Faulty variant: the names are taken from the end of the dictionary.
Bug_Gather(r) ==
  /\ r # ROOT /\ pc[r] # "done" /\ pc[r][1] = "gather"
  /\ sent' = [sent EXCEPT ![r] = Append(@, state[r][keys[r][Count + 1 - pc[r][2]]])]
  /\ pc' = [pc EXCEPT ![r] = After("gather", pc[r][2])]
  /\ UNCHANGED <<tile_layout, edge_ratio, tile_cells, keys, state, posted, got, tile>>

\* gather_state takes the names in the order of the rank's own dictionary.
Gather(r) ==
  /\ r # ROOT /\ pc[r] # "done" /\ pc[r][1] = "gather"
  /\ sent' = [sent EXCEPT ![r] = Append(@, state[r][keys[r][pc[r][2]]])]
  /\ pc' = [pc EXCEPT ![r] = After("gather", pc[r][2])]
  /\ UNCHANGED <<tile_layout, edge_ratio, tile_cells, keys, state, posted, got, tile>>

\* On the root, when the parts of all ranks are there; the tile is as large
\* as if every rank had the root's extent.
GatherRoot ==
  /\ pc[ROOT] # "done" /\ pc[ROOT] # "raised" /\ pc[ROOT][1] = "gather"
  /\ \A r \in Ranks \ {ROOT} : sent[r] # <<>>
  /\ LET name == keys[ROOT][pc[ROOT][2]]
         own == SliceOf(name, TileExtent(Dims[name]), ROOT)
         extent == tile_extent_from_rank_metadata(Dims[name], ExtentOf(own), tile_layout)
         part == [r \in Ranks |-> IF r = ROOT THEN state[ROOT][name] ELSE Head(sent[r])]
         slice == [r \in Ranks |-> SliceOf(name, extent, r)]
         At(r, p) == [d \in DOMAIN p |-> p[d] - slice[r][d].start]
         Holds(r, p) == At(r, p) \in DOMAIN part[r]
         Greatest(p) ==
           CHOOSE r \in Ranks : Holds(r, p) /\ \A o \in Ranks : Holds(o, p) => o <= r
     IN  \* of two ranks that have a point the greater is assigned last
         tile' = (name :> [p \in Points(extent) |->
                    IF \E r \in Ranks : Holds(r, p) THEN part[Greatest(p)][At(Greatest(p), p)]
                                                    ELSE Zero]) @@ tile
  /\ sent' = [r \in Ranks |-> IF r = ROOT THEN sent[r] ELSE Tail(sent[r])]
  /\ pc' = [pc EXCEPT ![ROOT] = After("gather", pc[ROOT][2])]
  /\ UNCHANGED <<tile_layout, edge_ratio, tile_cells, keys, state, posted, got>>

Step(r) == (r = ROOT /\ (ScatterRoot \/ GatherRoot)) \/ Scatter(r) \/ Gather(r)

Next == \E r \in Ranks : Step(r)

Spec == Init /\ [][Next]_vars /\ WF_vars(Next)

-----------------------------------------------------------------------------

(***************************************************************************)
(* What is gathered is what was scattered: every point of every array is   *)
(* back in its place in the array of its name, whatever the order of the   *)
(* names, the dimensions and the layout.                                   *)
(***************************************************************************)
BackInPlace == \A name \in DOMAIN tile : tile[name] = Array(name)

(***************************************************************************)
(* Every scattering and gathering ends: no rank waits for a call that      *)
(* another does not make.                                                  *)
(***************************************************************************)
Ended == \A r \in Ranks : pc[r] = "done"
TransfersEnd == <>Ended
=============================================================================
