# TLA+ models of NDSL

NDSL runs atmospheric models, written in Python, on the ranks of an MPI job.
What makes the library hard to get right is not its numerics but what lies
between the ranks: which rank is beyond which edge of the cubed sphere, which
element of a halo comes from where and with which sign, which buffer MPI may
still be reading, which message answers which receive, which collective call the
others are in.  These models are about that, and about the index arithmetic that
each rank does apart from the others and that has to fit.  Paths below are relative to `src/ndsl/`.

## Inventory

| Component | State | Operations | Hard behaviour | Correct when |
|---|---|---|---|---|
| Halo updaters (`halo/updater.py`, `comm/communicator.py`) | tag, transformers, in-flight quantities, requests | `get_*_halo_updater`, `start`, `wait`, `update`, `start_halo_update`, `start_synchronize_vector_interfaces`, `__del__` | overlapping exchanges on one channel, tags agreed without communication, garbage collection | each receive gets the data of its own exchange; every call returns |
| Buffers (`buffer.py`) | one global cache of arrays by shape and type | `pop_from_cache`, `push_to_cache` | many updaters in any order, MPI accesses buffers behind the program's back | one user per buffer; none lost; none reused while MPI needs it |
| Transformers (`halo/data_transformer.py`, `halo/rotate.py`, `halo/cuda_kernels.py`) | pack and unpack buffer, exchange descriptors; streams and index arrays on a GPU | `_compile`, `async_pack`, `async_unpack`, `synchronize`, `finalize` | flat buffers in different orders on both sides, rotation of scalars and vectors; kernels that run later than the call that launched them | every element lands in its place, with its sign; nothing races on the device |
| Decomposition (`comm/partitioner.py`, `comm/boundary.py`, `comm/_boundary_utils.py`) | layout | `boundary`, slices, `subtile_slice`, `global_extent` | twelve edges and eight vertices of a cube, even and odd faces | boundaries are symmetric; slices of both sides fit |
| Grid mirroring (`grid/mirror.py`) | none | `mirror_grid` | a second, independent coding of how the faces meet | agrees with the partitioner |
| Sizes, quantities (`initialization/`, `quantity/`) | origin, extent, shape | sizers, views, states | halo wider than the domain | a halo is filled from the neighbour's own domain |
| Recording (`comm/caching_comm.py`) | four lists and their counters, per communicator | writer, data, reader | the writer appends and the reader takes at different moments | a replay returns what was recorded |
| Compilation handshake (`comm/decomposition.py`, `dsl/stencil_config.py`, `dsl/stencil.py`) | rank's role, messages | `block_waiting_for_compilation`, `unblock_waiting_tiles`, stencil construction | untagged blocking messages on the communicator of the halos | compile first, load after; nobody waits for ever |
| Orchestration (`dsl/dace/`) | executable cache, argument hash | build, load, call | barriers, failures, stale pointers | all ranks leave the barriers; arguments are current |
| Serial communicator (`comm/local_comm.py`) | shared dictionary of buffers | the calls of `Comm` | ranks run one after the other; receives are lazy | a call raises rather than deliver something else |
| Scatter, gather, reductions (`comm/communicator.py`) | none | `scatter`, `gather`, `*_state` | interface points belong to two subtiles; ranks are apart by a whole call | gather undoes scatter |
| Monitors (`monitor/`) | times, chunks, arrays, writers | `store`, `store_constant`, `cleanup` | chunk boundaries, root and other ranks, arrays extended by one and written by all | each stored state is on disk, whole, once |
| Metric terms (`grid/generation.py`) | some two hundred arrays, computed when first read | the getters | getters call each other, exchange halos and reduce over all ranks | a read answers with the same array whatever was read before, on any rank |
| Grid objects (`grid/helper.py`) | metric terms, pressures, Coriolis terms, cached | `new_from_metric_terms`, getters, setters | caches against what they were computed from | a cached array is what its name says |
| Stencil indexing and corners (`dsl/stencil.py`, `stencils/corners.py`) | domain, halo, edges, vertical origin | `get_origin_domain`, `get_shape`, `restrict_vertical`, `axis_offsets`, `fill_corners_*` | four corners, three grids, two implementations | a corner is the halo turned about it; accesses fit the arrays |
| Checkpointers (`checkpointer/`) | counts of calls, extrema | trial, threshold, validation | repeated runs, calls out of step | values are compared with those of the same call |
| Timers (`performance/`) | starts, sums | `start`, `stop`, `clock` | exceptions between start and stop | clocks are paired |
| Numerics, restart, debugging | fields | formulas, files | floating point | not a matter for these models |

Components call each other directly; the ranks interact only through MPI.  The
hazards found while reading are listed, each at its line, in `PROJECT.json`.

## Modules

| Module | Models | Relation |
|---|---|---|
| `HaloSpec` | what an exchange promises: it completes once, with the data the neighbours published for this very exchange | abstract specification |
| `HaloExchange` | communicators, updaters, requests, buffer cache and MPI on all ranks | implements `HaloSpec` |
| `Partitioner` | rank numbering, edges and corners of both partitioners | operators |
| `GridArrays` | slices, rotation of blocks, and the place of every element on the sphere as `mirror_grid` has it | extends `Partitioner` |
| `HaloRegions` | one rank filling its halo, element by element | extends `GridArrays` |
| `SharedEdges` | two ranks synchronising the interfaces they share | extends `GridArrays` |
| `CachingComm` | recording and replay of a rank's communication | stands alone |
| `CompilationHandshake` | stencil construction with minimal caching, between halo exchanges | extends `Partitioner` |
| `LocalComm` | the ranks of a job in one process, without MPI | stands alone |
| `StreamedTransformer` | one rank's exchanges with fields on a GPU: host, streams, device memory and MPI | stands alone |
| `FlatIndices` | the index arrays of the GPU transformer, their cache, and its kernels, against the CPU's slices | stands alone |
| `TileSlices` | which part of a tile a rank has; the chunks of an array on disk | operators |
| `TileTransfer` | `scatter_state` and `gather_state` on the ranks of a tile | extends `TileSlices` |
| `MonitorSpec` | what a monitor promises: states are appended in order, none is lost | abstract specification |
| `NetCDFMonitor` | the NetCDF monitor on the ranks of a tile, chunks of time, files | implements `MonitorSpec` |
| `ZarrMonitor` | the Zarr monitor on all ranks: arrays on disk, broadcasts, barriers | extends `TileSlices` |
| `MetricSpec` | what `MetricTerms` promises: lazy reads answer as eager ones would | abstract specification |
| `MetricTerms` | which functions compute which terms from which, with their exchanges, on all ranks | implements `MetricSpec` |
| `GridDataFields`, `GridData` | the classes that collect terms, field by field; the objects and their caches | operators; stands alone |
| `GridIndexing` | origins, domains, shapes and axis offsets of stencils | operators |
| `Corners` | every corner fill, as loops and as stencils | extends `GridIndexing` |
| `Topology_proofs` | the boundaries of all ranks fit together, for every layout | proofs, extend `MCExchanges` |
| `HaloExchange_proofs` | the safety invariants of `HaloExchange`; histories of its ranks | proofs |
| `HaloRefinement_proofs` | `HaloExchange` implements `HaloSpec` | proofs, extend the one above |
| `CompilationHandshake_proofs` | the handshake on every layout | proofs |
| `LocalComm_proofs` | `LocalComm` against MPI, for all ranks and tiles | proofs |
| `StreamedTransformer_proofs` | streams are conserved, the device has no race, and messages and halos hold what they should, for all updaters and fields | proofs |
| `CachingComm_proofs` | replays are faithful, for all programs that keep the rules | proofs |
| `Monitors_proofs` | the NetCDF monitor stores whole states, the Zarr monitor writes inside its arrays | proofs, extend `MCTiles` |

An `MC` module gives the constants of a model their values for TLC.  Five of them
put components that share a subject side by side: `MCExchanges` (`HaloRegions`,
`SharedEdges`), `MCDevice` (`StreamedTransformer`, `FlatIndices`), `MCComms`
(`LocalComm`, `CachingComm`), `MCTiles` (`TileTransfer`, `NetCDFMonitor`,
`ZarrMonitor`) and `MCGrid` (`MetricTerms`, `GridData`, `Corners`).  These
components do not act on each other at run time, so a behaviour of such a module
is a behaviour of one of them while the variables of the others rest; its
properties are those of the components.  The components that do interact are
composed inside one module: updaters, buffers and MPI in `HaloExchange`, halo
exchanges and stencil construction in `CompilationHandshake`, gathering and
writing in `NetCDFMonitor`, streams, buffers and MPI in `StreamedTransformer`.

Definitions keep the names of the source (`pop_from_cache`, `left_edge`,
`_rot_3d`, `compiling_equivalent`); operators named `Bug_...` (and `Stale_Extend`,
`NoOverlap_SliceOf`) are faulty variants of the definition after them, which
no specification uses: put in its place each of them violates a property, which
shows that the property depends on the code.  `TypeOK` is
checked and proved for `HaloExchange`; in `HaloRegions`, `SharedEdges`, `CachingComm` (`RecordingTypeOK`),
`CompilationHandshake` and `LocalComm` it documents the variables, in the newer
modules the comments at the variables do.

The composition is by assumption: `HaloExchange` assumes of its topology
(`TopologyAssumption`) that two ranks share at most one boundary and that whoever
sends has a receiver.  `OneBoundaryEachWay` in `HaloRegions` and
`EverySendHasAReceiver` in `SharedEdges` check just that of the partitioner;
`Topology_proofs` proves both for every layout, and by the same lemmas the assumption itself
(`TopologyOfGrids`).

### HaloExchange

A rank is a program counter in a sequence of calls that all ranks run (SPMD);
the sequence is chosen call by call, so one run covers all programs of that
length.  The calls and where they come from:

| Action | Code |
|---|---|
| `New`, `GetUpdater` | `get_scalar_halo_updater`, `get_vector_halo_updater`: tag, transformers, buffers from the cache |
| `StartRecvs`, then `PackAndSend` | `HaloUpdater.start`: post receives; pack and post sends. Two actions, because messages may arrive between them |
| `StartOnceRecvs` | `start_halo_update`, `start_vector_halo_update`: an updater that finalises in its wait |
| `StartSync` | `start_synchronize_vector_interfaces`: edges of the south and west sides, buffers of its own |
| `Wait` | `HaloUpdater.wait`, `HaloUpdateRequest.wait`: completion of all requests, unpack, return of buffers |
| `Drop`, `Collect` | the last reference goes away; `__del__` runs later |
| `BufferMessage`, `Transfer`, `Deliver` | MPI: an Isend completes by buffering or by being matched; messages of one channel and tag do not overtake each other (external) |

Buffers are numbers; `mem` is their content; the cache is a stack, as in the
code.  All buffers share one cache key, the case with most competition.

### HaloRegions and SharedEdges

Values are points of the sphere, in exact integer coordinates on the faces of a
cube, and for a vector component its direction.  The compute domain of a rank
starts with the values of its own places, the halo unset.  The message of a
neighbour is built as the code builds it: slices, rotation of the block,
flattening, concatenation over the boundaries that the two ranks share; the
receiver writes it through its own slices.  A wrong slice, rotation, sign, order
or neighbour puts a value in a place it does not belong to.  The reference for
what belongs where is a translation of `mirror_grid`, which shares no code with
the partitioner.

There are two ways to start: `StartUpdate` (`start_halo_update`) refuses periodic tiles
with fewer than three rows or columns of ranks, `StartUpdater` (an updater from
`get_scalar_halo_updater` or `get_vector_halo_updater`) does not look at the layout.
`EveryPointInPlace` and `OneBoundaryEachWay` are about the layouts the first accepts,
whichever way the exchange was started; `HaloComplete` is about all.
`UpdatersPointsInPlace` drops the condition, and is the finding
`exchanges_small_tile`.

### CachingComm

The value a call receives is the number of that call, so what a replay returns
says for which call it was recorded.  The program is any sequence of calls;
`Disciplined` programs finish receives in posting order and receive nothing more
on a communicator after gathering to another rank.

### CompilationHandshake

Each rank runs the same program of stencil constructions and halves of halo
exchanges.  `Block` is the untagged `recv`: it takes the first unmatched message
of its source, which may be a halo; posted receives of an exchange take
messages of their own tag first.  `eager` says which messages MPI buffers.

### LocalComm

The shared dictionary of `LocalComm` and what each call reads and leaves there;
any order of ranks and calls is allowed.  Data are the numbers of the calls that
provided them, so a value that reaches the wrong call is visible.  `Discipline`
names the rules the tests keep to because `LocalComm` needs them: the ranks split
in ascending order and before anything else ("split_in_order"), receives of one
channel and tag finish in posting order ("wait_in_order"), and no rank gathers
again before the root has finished ("gather_in_rounds"; the first gather needs no
rule, a root that comes too early gets an error and calls again).  An
`IndexError` ends the program of its rank; a `ConcurrencyError` of a receive
changes nothing and is no step.

### StreamedTransformer and FlatIndices

The host launches kernels and goes on.  `queue[s]` is what a stream has still to
run, in order; streams of fields are non-blocking, so they are not ordered with
the default stream 0, on which the model's own kernels, the zeroing of a new
buffer and the upload of an index array run.  A pending request lets MPI read or
write its buffer at any moment.  `_device_synchronize`, `get_pack_buffer` and
`synchronized` are guards of the host: it waits until the device has done what the
code waits for.  Both code paths of the transformer (`_CODE_PATH_DEVICE_WIDE_SYNC`)
are chosen in `Init`.  `NoRace` compares everything that may happen next on the
device; `SentAsStarted` and `HalosOfLastExchange` follow the values.

`FlatIndices` computes the addresses an index array holds from shape, strides,
slices and rotation, keeps it under the key the code keeps it under, and compares
what the kernels copy with the CPU's slice, rotation and flattening, the layout
that `HaloRegions` proves right element by element.

### TileSlices, TileTransfer and the monitors

`TileTransfer` scatters a state name by name and gathers it again.  The root
broadcasts the metadata, the others compute their own extent from it; a sender
goes on before the receiver has what it sent.  `BackInPlace` compares the tile
with what was scattered.  `MCTiles` also assumes (`SlicesCoverTheRow`, which TLC
evaluates) that the slices are a partition of a row for all rows of up to 34
cells on up to five ranks, in which subtiles may differ in size.

`NetCDFMonitor`: the ranks of a tile gather each variable on the root, which keeps
`chunked`, `_times` and `_i_time` and writes a file per chunk; a rank that is not
the root may be calls ahead.  `MonitorSpec` is implemented with the calls the root
has accepted as `stored` and the content of the files, in order, as `written`
(`StatesAreKept`), and `StatesAreWhole` says of each time that all variables of all
ranks are from one call.

`ZarrMonitor`: a rank has its own idea of the array (`array`, from the last
broadcast), the disk has the array's length and content, and a write of a part of
a chunk is a read and a write of the whole chunk, as Zarr does it.  That two ranks
never write one chunk at once depends on `array_chunks` and `subtile_slice`
agreeing, and at the last, shared, interface point on the extents.

### MetricTerms, GridData and Corners

`MetricTerms` has each function of `generation.py` as a program: which attributes
it looks for, which getters it reads, which arrays it computes, exchanges, reduces
and assigns, in the order of the code.  A rank runs a stack of such programs
(`todo`), so a getter inside a getter is a nested program, as in Python.  An array
is the set of its regions that hold the term: inside, halo, corners.  A halo
exchange needs the same array on the other rank.  `MetricSpec` is the table of
what each term should hold; it has no memory, so a read that depends on what
was read before violates the refinement (`LazyIsEager`).  `ExchangedOnce` adds
that nothing is exchanged twice, which would leave two ranks in different
exchanges.

`GridDataFields` lists the fields of the collecting classes with the terms they
are made of.  `GridData` has their caches: pressures from `ak` and `bk`, Coriolis
terms from latitudes; arrays are records of what they were made from.  `ak` and `bk` may
be replaced at any time, as the setters allow; `replaced` remembers that one was
replaced after a pressure had been read, and `CachesHoldTheirTerms` then asks only
that the pressures in the middle of the layers are those of the interfaces.
`FieldsAreNamesakes` covers every field of a `DriverGridData`, except the three made
of `vlat`, and every property by which a `GridData` hands on an attribute of a part.
The run `grid` checks the two as `ObjectsHoldTheirTerms`.

`Corners` runs each fill as the code does: loops visit the points in order and
write in place; stencils fill points in any order, from regions counted from
`axis_offsets`.  A value is the element it came from, so `CornersTurned` compares
with the rotation of the halo about the corner, computed apart.  One corner of one
fill is not turned in the code (the north east one of `bgrid_j`): `NotTurned` exempts
its values, not the set of elements that it writes.  `AccessesFit` says that reads and
writes stay in the horizontal shape that `get_shape` gives for the array's own
dimensions and a full halo, and the levels of a stencil in `max_shape`, on every
position of a rank and for restricted verticals.

## Runs

| Run | Question | Bounds |
|---|---|---|
| `halo` | exchanges keep apart, buffers keep one user, all calls return, `HaloSpec` is implemented | 2 ranks, 2 variables, 5 calls, 3 tags |
| `exchanges` | on every layout that `start_halo_update` accepts, every halo element in its place and one boundary between two ranks; every shared interface agreed by both sides | layouts 1x1, 2x2, 3x3, 3x4; 1 to 3 cells per rank (edges: 1, 2); halo 1, 2; every staggering |
| `exchanges_small_tile` | an updater made without a look at the layout (finding) | a periodic tile of 2x2 ranks, 2 cells, halo 1 |
| `device` | no race on a GPU, halos of the right exchange, streams conserved; index arrays copy what the CPU copies | 2 updaters, 2 fields, 1 neighbour, 4 calls; 2 compilations of every two of 32 transformers |
| `device_edges` | an edge received in new device memory (finding) | 5 calls |
| `comms` | without MPI, calls deliver what MPI would; a replay returns what was recorded | 3 ranks, 2 tiles, 2 tags, 9 calls; 5 recorded calls, 2 communicators |
| `recording_overlap` | receives finished in another order than posted (finding) | 5 calls |
| `compilation` | the handshake between exchanges | 6 ranks, 3 operations |
| `compilation_tile` | the handshake on a tile alone (finding) | 4 ranks, 2 operations |
| `tiles` | gather undoes scatter; the NetCDF monitor implements `MonitorSpec`; the Zarr monitor keeps every state and writes inside its arrays | 4 layouts of up to 4 ranks; NetCDF: 2 ranks, 6 calls, chunks of 1 to 3; Zarr: 3 ranks, 4 calls, 3 names |
| `tiles_cleanup` | `cleanup` before the last store (finding) | 1 rank, 5 calls |
| `grid` | lazy metric terms are the eager ones; objects hold and cache what they say (but for `vlat`); corners are turned (but for one corner of `bgrid_j`) and accesses fit | 2 ranks, every 2 of 18 terms and 3 classes, 3 grids; 3 versions of coefficients; every fill, 16 positions, 2 domains, halo 2, 3 |

Why the bounds are enough.  An interference between exchanges needs two of
them, on one channel: two variables and two ranks that are neighbours both
ways.  Five calls allow two creations, two overlapping exchanges and a wait in
either order, as well as a drop, a collection and a new updater that takes the
freed buffers.  With three ranks along an edge of a face there are ranks in the
corners, on the sides and inside; faces beyond that only repeat the inside
ones.  Halos of two points in domains of three cells distinguish the first and
the last row of every slice.  One rank per tile is enough for the handshake,
where a compiling rank and its five waiters exchange no handshake with others;
three operations put a construction between the halves of an exchange.  Nine
calls of `LocalComm` are three splits, two gathers on both ranks of a tile with
one attempt that came too early, and one call in between.  On a device, two
fields of one updater and two updaters make every pair of streams that can race;
a neighbour more repeats them.  Chunks of up to three times and six calls end a
chunk at, before and after `cleanup`, twice.  Three Zarr ranks have a first, an
inner and a last one, at whose end is the shared interface point.  What one term
leaves for another is a matter of two reads; the 18 terms are one or two of
each function of `generation.py`, those whose attributes differ, and the
classes read longer sequences.  The stencils hard-code offsets of up to three
points and the fills do not depend on the domain beyond that, so domains of 3 and
4 cells, one of them not square, tell a first point from a last one.

Deadlock is not checked where programs end by themselves (all modules): that
every call returns is a property (`EveryCallReturns`, `EveryRankFinishes`,
`TransfersEnd`, `EveryZarrStoreEnds`, and the liveness part of the specifications that
`StatesAreKept` and `LazyIsEager` implement).

Fairness.  `HaloExchange` assumes weak fairness of each rank's next step and of
`CompleteMatched`: a message whose receive is posted arrives in the end (`Transfer`,
or `Deliver` of a message that was buffered).  MPI guarantees this much progress,
and a rank is a process of the operating system.  MPI may buffer a message at any time
(`BufferMessage`) and there is no fairness of that, so a schedule that needs buffering
is refuted.
`CompilationHandshake` assumes that a rank that can go on does; a compilation
that never ends is not considered.  In `TileTransfer`, `NetCDFMonitor`,
`ZarrMonitor` and `MetricTerms` each rank is such a process too: weak fairness of
its next step, which a blocked collective does not enable.  A disk or a device
that never answers is not considered.  The other modules state no liveness.

### Findings

- `recording_overlap`: two requests waited for in another order than posted are
  replayed with each other's data: the writer records at the wait, the reader
  takes at the post.
- `compilation_tile`: minimal caching with a `TilePartitioner` of more than one
  rank: the waiting ranks wait for themselves, `size / 6` being used for a
  communicator without six tiles.
- `device_edges`: a shared edge is received in memory that the device has still
  to zero; nothing is synchronised in between.  The run `device` starts with edge
  buffers in the cache.
- `tiles_cleanup`: `NetCDFMonitor.cleanup` in the middle of a chunk writes a file that
  the end of the chunk replaces: its times are lost.  The run `tiles` calls it last.
- `exchanges_small_tile`: an updater of `get_scalar_halo_updater` on a periodic tile of
  2x2 ranks exchanges without complaint.  Two boundaries lead to one rank and share a
  message, each side orders its slices by its own boundaries, and the north halo gets
  the rows that were sent across the neighbour's north boundary.

Without a run of their own, met while modelling:

- `CachingCommWriter.Gather` on a rank that is not the root records `None`, which the
  reader does not take; `Disciplined` programs avoid it.
- `LocalComm.Gather` raises if the root is called before the other ranks, but only
  the first time; "gather_in_rounds" avoids it.
- `fill_ne_corner_2d_bgrid` in direction `j` does not turn the halo and has a slice
  for an index; `NotTurned` exempts the values of this corner in the run `grid`.
- `DriverGridData.new_from_metric_terms` passes `vlon` for `vlat`; `MadeOfVlon` exempts
  the three fields in the run `grid`.
- `GridData.__init__` gives an array `fc_agrid` that it is handed the dimensions of the
  corners' latitude; `CachesHoldTheirTerms` accepts it (`Given`).
- `scatter` and `gather` raise on a tile whose subtiles differ in size, which the
  partitioner allows; the transfers of run `tiles` have subtiles of one size.
- The search for edge sizes never leaves 1 when it starts there: 7 cells on 5
  ranks raise although edges of 2 would do.  `ValidEdges` has the search as it is.
- The key of `INDICES_CACHE` leaves out the dimensions: fields of one shape with
  their horizontal dimensions in opposite orders share index arrays.
- Pressures of a `GridData` stay cached when `ak` or `bk` are replaced after they were
  read; the run `grid` does so, and `replaced` exempts the pressures from then on.

## Proofs

`HaloExchange_proofs` proves, for every set of ranks, topology satisfying
`TopologyAssumption`, set of variables and bounds:

- `TypeCorrect`: the type invariant, with: every buffer named anywhere is
  allocated;
- `BuffersHaveOneUser`: `OneUser`;
- `NoBufferLost`: `PoolConserved`;
- `PendingBuffersOwned`: `PendingOwned`;
- `SendBuffersKeepContent`: the action property `SendBufferStable`;
- `Invariance`: the inductive invariant `IInv` they follow from.

None of the properties is inductive alone.  `OneUser` is preserved by taking
buffers from the cache only if the cache holds no buffer twice and none that an
updater holds, and by returning them only if the updater's list has no
duplicates: the three facts make up the predicate `Pool`, about one rank's cache,
lists and garbage, and lemmas `PoolTake`, `PoolFinalize`, `PoolDrop` and `PoolCollect` say how it
passes through each kind of step.  `PendingOwned` speaks of all pairs of
requests; `RequestsOwn` states it within one updater, which a step can disturb
only for the updater it moves, and `OneUser` separates the others.  `ObjectShape`
says which lists an updater has in which state, so that the first buffers are
known to be those of the sends.  `IInv` is the conjunction; the `halo` run checks
its parts.  Each action has one lemma per part of the invariant it can disturb.

### The partitioner

`Topology_proofs` proves, for every layout:

- `BoundariesArePaired`: `OneBoundaryEachWay` of `HaloRegions`;
- `SendsAreReceived`: `EverySendHasAReceiver` of `SharedEdges`;
- `TopologyOfGrids`: what `TopologyAssumption` says, of all ranks of any grid and any
  order in which a rank goes through its boundaries.

The assumptions are the code's: layouts are pairs of positive numbers
(`LayoutAssumption`), square on the cubed sphere; of periodic tiles the theorems are
about those with at least three rows and columns, the condition that `layout_supported`
has from `TileCommunicator.start_halo_update` and that `OneBoundaryEachWay` names; `SharedEdges`
has such tiles only (`Supported`).  With fewer a rank would be its own neighbour, or meet one over two
boundaries.  A row of ranks may be as long as it likes, so nothing can be enumerated.
The arithmetic of the code, `div` and `mod` of rank numbers, is first taken back to
a tile, a row and a column (`RankAt`, `Coordinates`).  With these the edges and
corners are a relation between two places (`CubeMeets`, `TileMeets`): no place meets
itself or meets another over two boundaries, and each boundary has a way back
whose turns cancel (`CubeBack`).  What decides is the sides, whether the tile is
even, and tile numbers modulo six: the tiles that one tile meets are one or two
before or after it.  The invariants `GridsKept` and `PairKept` say only that a grid and
its ranks stay as they were chosen.

### HaloExchange implements HaloSpec

`HaloRefinement_proofs` proves `ExchangesImplementSpec` (the property
`ImplementsHaloSpec` of the run `halo`, without its liveness part) and
`MpiLeftEmpty` (`NothingLeftInMPI`).  That a receive gets the data of its own
exchange depends on which exchange a request, a message on the wire or a tag
stands for, and the state of the code does not say: tags are used again, and
requests are known by buffer.  The proof reads it off a history `H`: for each
prefix of the script, how many tags and exchanges it makes and what each variable
holds after it; for each exchange its pattern, its tag and how many exchanges up to it
send from one rank to another with one tag.  It is no variable of the model: the
invariant is `Explained == \E H : HInv(H)`, a new call extends the history, and every
other step keeps it.  `HInv` says that each rank is where the history has it after
the calls it made (`Follows`, the second part of `HaloExchange_proofs`); that the number of a
request or a message on its channel is the one the history gives for its exchange
(`Carries`); that an unpack buffer waits for, or holds, what its neighbour published
for this exchange (`Delivered`); and that no message is taken twice (`NoneTwice`).
Both ends count on a channel alike, so a send and a receive that MPI matches are of
one exchange, and each step is a step of `HaloSpec` or changes nothing there.
Before it was proved, TLC checked `HInv` with the history as a variable (2 ranks,
3 tags, 4 calls: 33844 states).

### CompilationHandshake

`CompilationHandshake_proofs` proves, for every layout and length of the program,
`CompilerIsFirst`, `AnswersAreHeard` and, on the cubed sphere,
`ChannelsEndEmpty`.  On a tile alone the first two hold for the want of progress;
that the waiting ranks wait for themselves there is the finding
`compilation_tile`.  The difficulty is the untagged receive: it takes the
first unmatched message of its source, so the invariant has to say what is in a
channel, in which order.  `ChannelsOK` gives every message a place in the program
of its sender (a construction or a half exchange) and says that a channel holds
those of the places its sender has passed and its receiver has not, in the order
of the places.  With `StageOK` (what a rank has built and heard at each stage),
`WaitersOK` (a compiling rank has told its waiters of exactly the stencils it
built), `AloneOK` (on a tile the ranks never get so far) and `CompiledFirst` it is
inductive; TLC checked the conjunction first (297585 states on the cube, 79 on a tile).
The proof assumes `LinksAssumption`, that a neighbour's neighbours include the
rank.  It follows from `OneBoundaryEachWay`, which `Topology_proofs` proves for every
layout; TLC evaluates the assumption itself for the layout of the run.

### LocalComm

`LocalComm_proofs` proves for any ranks, tiles, channels and number of calls what
the run `comms` checks of three ranks: `ReceivesAsSent` where receives of a channel
are waited for in order, `RanksAsMpi` where the ranks split in order,
`RoundsAsMpi` where they also gather in rounds.  The rules are those of
`Discipline`; each theorem assumes the ones it needs and no other.  `MessagesOK`
says that the receives of a key that have their message are the first ones and
that the queue holds the rest; `SplitOK` that the ranks which have split are a
prefix of all, numbered as MPI numbers them; `RoundsOK` that the n-th element of a
list is of the n-th call, that a rank is at most one gather ahead of its root, and that
the slots of the gather buffer hold the last element of each rank.

### StreamedTransformer

`StreamedTransformer_proofs` proves for any number of updaters, fields, neighbours
and calls, on both paths of the synchronization:

- `StreamsAreConserved`: `StreamsConserved`;
- `DeviceHasNoRace`: `NoRace`, if the cache holds at the start the `2 * Neighbours`
  buffers that one exchange of edges takes (`EdgesCached`).  With fewer, an edge is
  received in memory that is still to be zeroed: the finding `device_edges`.
- `MessagesAreAsStarted` (`SentAsStarted`) and `HalosAreOfLastExchange`
  (`HalosOfLastExchange`), under the same assumption: what a message holds when MPI
  reads it, and what the halos and edges hold between calls.

The fields of an updater are assumed to be distinct quantities (`SizeAssumption`);
two transformers that unpacked into one quantity would race by themselves.

Which accesses may happen next follows from what the host waited for on its way to
where it is, so the invariant is about the host.  `PrivateOK`: a private stream has
at most the kernel of its own field, a pack while the host still has to send the
buffer, an unpack until the end of `wait`.  `DefaultOK`: on the default stream
there are the kernels of the call the host is in, or kernels that nobody
waited for (`Background`) and that touch nothing an exchange in flight uses: a zero of a
buffer nobody exchanges, the upload of indices while no updater is in flight, the
model's kernels, a copy out of a buffer that went back to the cache.  `MpiOK`,
`UnpackOK`: which buffers MPI has, and that the messages have come when unpacks are
launched.  `HoldersOK`: every buffer is at one place of one holder (an updater,
the exchange of edges, a cache), which makes the buffers of those accesses
different; `EdgesOK` counts those of the edges, `IndicesOK` says that only the first
updater uploads indices.  The streams have an invariant of their own, `StreamsInv`: the pool
and the updaters are `Apart`, and `Complete`, over the streams ever created.  Lemmas about
lists (`Moves`, `NothingLost`, `Popped`, `PopFromCache`) serve streams and buffers.  TLC checked every
part first (2 updaters and 1 neighbour: 118814 states; 1 updater and 2 neighbours: 255133).

What the memory holds needs more than the absence of races.  `ValuesOK` says of each
place that somebody still waits for that it has its value already, or that the kernel or
message which brings it is queued: what is to be sent is packed or its pack is queued
(`PackedOK`), what MPI has to read is what the program published (`SentOK`), a buffer
without a pending receive has the data of its exchange (`ReceivedOK`), a halo that is
being unpacked has its value or its kernel (`HalosOK`), an edge likewise (`CopiedOK`),
and the last of the queued kernels of the model leaves the version the program counts
(`InteriorOK`).  That nothing else writes there in between follows from `IInv`; that the
buffers of edges and of halos do not mix (`SidesOK`), that indices are uploaded before
they are used (`UploadOK`) and what the queued kernels of the default stream copy
(`RecallsOK`) are its own.  TLC checked it on the same instances.

### CachingComm

`CachingComm_proofs` proves for any set of the calls, any length of the program and
any number of communicators:

- `ReplaysAreFaithful`: `ReplayFaithful`;
- `NothingIsUnread`: `NothingUnread`;

both for `Disciplined` programs, which wait for receives in the order they posted
them and take nothing between a receive and its wait, nor after a gather to another
rank.  Without these rules the first is false: the finding `recording_overlap`.

An element of a list says nothing of its call to the reader, and the writer appends
that of an Irecv later than the reader takes it.  `InOrder` says that a list is
nevertheless in the order of the calls that will take its elements, with the `None` of
gathers at the end; `PendingOK` that the receives which are posted and not recorded
come after all that is; `Kept` that no call is forgotten; `ProgramOK` that a
communicator is used after the Split that made it and a wait follows its Irecv.
`TakenOK` is the link to the reader: an element has been taken if and only if its
call has been replayed, so the next element of a list is that of the first call still
to be replayed that takes from it.  With what the reader put aside for its waits and
the communicators it made (`ReplayOK`) this is inductive; TLC checked it first (all
calls, 4 of them, 3 communicators: 39393 states).

### The monitors

`Monitors_proofs` proves of both monitors, as `MCTiles` has them, for any tile, names of
a state, program, and chunk size:

- `StatesAreStoredWhole`: `StatesAreWhole` of `NetCDFMonitor`;
- `ArraysAreLongEnough`: `WritesInsideArray` of `ZarrMonitor`.

`NetCDFAssumption` says that the names of a state are different and that there is one,
`ZarrAssumption` that one of them is not `time`: a program that stores nothing has no
state to lose.  Parts of all variables and times go the same way to the root of a tile, so what
the root takes depends on what is first.  A part has a place: its call and the number of
its variable.  `Lists` says that what a rank has sent and the root has not taken is the
parts of the places from the root's own up to the rank's, in order; calls that gather
nothing are no places.  `GatheredOK` is about what the root has of the call it is in,
`WriterOK`, `FilesOK` and `ConstantsOK` about what it made of it.

A rank of the Zarr monitor makes its steps by what it knows and what it is told.  The
states the ranks are in, one after the other, are therefore one list for all, the
history `H`, and a rank is at a place of it (`PlacesOK`).  The root goes first where
something is told, so what a rank reads from a broadcast is what the history has there; arrays
only grow along it (`NotAfter`), so the array on disk, which the root made, has
the times that any rank thinks it has.  As for the halo exchanges the history is a witness
and no variable of the model; TLC checked the invariant with it as a variable (3 ranks,
4 calls: 8038 states).

### What is only model-checked

The liveness properties and deadlock (temporal reasoning under fairness is out of
the prover's reach); the geometry, whose operators compute over finite arrays of
concrete sizes (`EveryPointInPlace`, `HaloComplete`, `EdgesInPlace`,
`SharedEdgesAgree`), and with it what a tile or a Zarr array holds at each point
(`BackInPlace`, `ZarrStatesAreStored`); the order of the times over all the files of the
NetCDF monitor (`StatesAreKept`, `NoTimeLost`), which is a recursion over the chunks; the
metric terms and `GridData`, whose programs are computed by recursive operators; and
`CopiesAsCpu`, which compares two computations of indices.

## What is left out

MPI errors and process failures: the code handles none.  Exceptions inside a
call, and with them the timers.  Contents of arrays other than their place, sign
and the call they come from: the formulas of `grid/`, `stencils/` and `quantity/` are
floating point, which a model checker cannot say anything about.  The scatter and
gather of the cubed sphere's communicator and its reductions, which add a second
gather on the root.  The State containers, which forward to their quantities.  The
FMS diagnostics monitor, whose work is done by an external library.  The
checkpointers: two counters in one process and thresholds.  Orchestration and
code transformation, which work on program trees of the DaCe and GT4Py libraries;
restart files, plotting and set-up, which keep no state.

## Plan

1. The cubed sphere's `gather`, and reductions, on top of `TileTransfer`.
2. The barriers of the DaCe builder, with compilations that fail.
