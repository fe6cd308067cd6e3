------------------------- MODULE StreamedTransformer -------------------------
(***************************************************************************)
(* Halo exchanges of one rank whose fields are on a GPU.                   *)
(*                                                                         *)
(* The host launches kernels on streams and goes on; the device runs the   *)
(* kernels of one stream in order and those of different streams in any    *)
(* order; MPI reads and writes device buffers directly, at any time        *)
(* between the posting of a request and its completion.  What keeps them   *)
(* apart is the synchronizations of                                        *)
(*   - HaloUpdater.start and wait (ndsl/halo/updater.py),                  *)
(*   - HaloDataTransformerGPU, one per neighbour, with a private stream    *)
(*     for each field (ndsl/halo/data_transformer.py),                     *)
(*   - VectorInterfaceHaloUpdater and HaloUpdateRequest, which use the     *)
(*     default stream (ndsl/halo/updater.py).                              *)
(* The streams are created non-blocking: they are not ordered with the     *)
(* default stream, which runs the model's own kernels, the zeroing of a    *)
(* new buffer and the upload of an array of indices.                       *)
(*                                                                         *)
(* The program is any sequence of at most MaxCalls calls.  The points of a *)
(* field are one location inside the domain and one for the halo of each   *)
(* neighbour; the value inside is the number of times the model's kernel   *)
(* ran, the value received is the number of the exchange.                  *)
(***************************************************************************)
EXTENDS Naturals, Sequences, FiniteSets, Functions

CONSTANTS
  Name,         \* the variables of the program that hold updaters
  Fields,       \* the quantities an updater exchanges, a sequence
  Neighbours,   \* the number of neighbours
  Paths,        \* the values of _CODE_PATH_DEVICE_WIDE_SYNC to consider
  Calls,        \* the calls the program makes
  EdgeBuffers,  \* buffers of shared edges that the cache holds at the start
  MaxCalls      \* bound on the length of the program

Neighbour == 1..Neighbours
Part == DOMAIN Fields
Quantity == {Fields[i] : i \in Part}

ASSUME SizeAssumption ==
  /\ Neighbours \in Nat \ {0} /\ EdgeBuffers \in Nat /\ MaxCalls \in Nat
  /\ Fields \in Seq(Range(Fields)) /\ Fields # <<>> /\ IsInjective(Fields)
  /\ Paths \subseteq BOOLEAN /\ 0 \notin Name
  /\ Calls \subseteq {"get", "startOnce", "start", "wait", "drop", "compute", "edges"}

VARIABLES
  wide,     \* _CODE_PATH_DEVICE_WIDE_SYNC
  host,     \* where the host is, and in the call on which variable
  calls,    \* the number of calls made
  obj,      \* the updater of each variable
  edges,    \* the exchange of shared edges, if one is in flight
  pool,     \* STREAM_POOL
  cache,    \* BUFFER_CACHE, for each of the two sizes of buffer
  buffers,  \* the number of buffers allocated
  queue,    \* the kernels launched on each stream and not finished; 0 is the default
  mem,      \* the device memory: the value at each location
  sends, recvs, \* MPI requests that are not complete
  version,  \* how many kernels of the model were launched for each quantity
  expected, \* the exchange each halo and edge was last received in, for the host
  message   \* the message MPI read last: its content and what it should be

hostVars == <<host, calls, obj, edges, pool, cache, buffers, version, expected>>
vars == <<wide, hostVars, queue, mem, sends, recvs, message>>

-----------------------------------------------------------------------------
(* Device memory, and the kernels.                                         *)

\* The values of f, and those of g where f has none.
Over(f, g) == [x \in DOMAIN f \union DOMAIN g |-> IF x \in DOMAIN f THEN f[x] ELSE g[x]]

Interior(q) == <<"interior", q>>
HaloOf(q, n) == <<"halo", q, n>>
EdgeOf(n)   == <<"edge", Fields[1], n>>
Indices(n)  == <<"indices", n>>
Cell(b, i)  == <<"buffer", b, i>>

CellsOf(b) == {loc \in DOMAIN mem : loc[1] = "buffer" /\ loc[2] = b}
Halos(q) == {HaloOf(q, n) : n \in Neighbour}
Edges == {EdgeOf(n) : n \in Neighbour}

\* A kernel: what it does, on part i of buffer b, quantity q and neighbour n.
Kernel(do, b, i, q, n, val) == [do |-> do, buf |-> b, part |-> i, q |-> q, n |-> n, val |-> val]

zero(b)           == Kernel("zero", b, 0, 0, 0, 0)
upload(n)         == Kernel("upload", 0, 0, 0, n, 1)
compute(q, v)     == Kernel("compute", 0, 0, q, 0, v)
compute_inside(q, v) == Kernel("inside", 0, 0, q, 0, v)
pack(b, i, n)     == Kernel("pack", b, i, Fields[i], n, 0)
unpack(b, i, n)   == Kernel("unpack", b, i, Fields[i], n, 0)
copy_in(b)        == Kernel("copy_in", b, 1, Fields[1], 0, 0)
copy_out(b, n)    == Kernel("copy_out", b, 1, Fields[1], n, 0)

Reads(k) ==
  CASE k.do = "compute"  -> Halos(k.q) \union Edges
    [] k.do = "pack"     -> {Interior(k.q), Indices(k.n)}
    [] k.do = "unpack"   -> {Cell(k.buf, k.part), Indices(k.n)}
    [] k.do = "copy_in"  -> {Interior(k.q)}
    [] k.do = "copy_out" -> {Cell(k.buf, 1)}
    [] OTHER             -> {}

Writes(k) ==
  CASE k.do = "zero"     -> CellsOf(k.buf)
    [] k.do = "upload"   -> {Indices(k.n)}
    [] k.do \in {"compute", "inside"} -> {Interior(k.q)}
    [] k.do = "pack"     -> {Cell(k.buf, k.part)}
    [] k.do = "unpack"   -> {HaloOf(k.q, k.n)}
    [] k.do = "copy_in"  -> {Cell(k.buf, 1)}
    [] k.do = "copy_out" -> {EdgeOf(k.n)}

\* What a kernel writes: pack and unpack go through the indices they read.
Written(k) ==
  CASE k.do \in {"zero", "upload", "compute", "inside"} -> k.val
    [] k.do = "pack"     -> IF mem[Indices(k.n)] = 1 THEN mem[Interior(k.q)] ELSE 0
    [] k.do = "unpack"   -> IF mem[Indices(k.n)] = 1 THEN mem[Cell(k.buf, k.part)] ELSE 0
    [] k.do = "copy_in"  -> mem[Interior(k.q)]
    [] k.do = "copy_out" -> mem[Cell(k.buf, 1)]

\* The first kernel of a stream runs.
Run(s) ==
  /\ queue[s] # <<>>
  /\ mem' = Over([loc \in Writes(Head(queue[s])) |-> Written(Head(queue[s]))], mem)
  /\ queue' = [queue EXCEPT ![s] = Tail(@)]
  /\ UNCHANGED <<wide, hostVars, sends, recvs, message>>

Launched(s, kernels) == [queue EXCEPT ![s] = @ \o kernels]

device_idle == \A s \in DOMAIN queue : queue[s] = <<>>

-----------------------------------------------------------------------------
(* Buffers and streams.                                                    *)

Fresh(key, count) == IF count <= Len(cache[key]) THEN 0 ELSE count - Len(cache[key])

\* The buffers that count calls of Buffer.pop_from_cache return, and what they leave.
pop_from_cache(key, count) ==
  [k \in 1..count |-> IF k <= Len(cache[key]) THEN cache[key][Len(cache[key]) + 1 - k]
                                              ELSE buffers + k - Len(cache[key])]
CacheAfterPop(key, count) ==
  [cache EXCEPT ![key] = SubSeq(@, 1, Len(@) + Fresh(key, count) - count)]

\* safe_mpi_allocate: cupy.zeros launches the zeroing of the buffer and returns.
NewBuffers(key, count) == (buffers + 1)..(buffers + Fresh(key, count))
MemWithNew(key, count) ==
  Over([loc \in {Cell(b, i) : b \in NewBuffers(key, count),
                              i \in IF key = "halo" THEN Part ELSE {1}} |-> 0], mem)
ZeroNew(key, count) == [k \in 1..Fresh(key, count) |-> zero(buffers + k)]

NumStreams == Cardinality(DOMAIN queue) - 1

\* Faulty variant: a stream is taken from the pool and stays there.
Bug__pop_stream(count) ==
  [k \in 1..count |-> IF k <= Len(pool) THEN pool[Len(pool)] ELSE NumStreams + k - Len(pool)]

\* The streams that count calls of _pop_stream return, and what they leave.
_pop_stream(count) ==
  [k \in 1..count |-> IF k <= Len(pool) THEN pool[Len(pool) + 1 - k]
                                        ELSE NumStreams + k - Len(pool)]

NewStreams(count) == IF count <= Len(pool) THEN 0 ELSE count - Len(pool)
PoolAfterPop(count) == SubSeq(pool, 1, Len(pool) + NewStreams(count) - count)

_push_stream(streams) == pool \o streams

-----------------------------------------------------------------------------
(* HaloDataTransformerGPU.  Transformer n of an updater o has o.streams for *)
(* its fields, and the buffers o.pack[n] and o.unpack[n].                  *)

StreamOf(o, n, i) == o.streams[(n - 1) * Len(Fields) + i]

_get_stream(s) == IF wide THEN 0 ELSE s

synchronized(o, n) ==
  IF wide THEN device_idle ELSE \A i \in Part : queue[StreamOf(o, n, i)] = <<>>

NeighbourOf(k) == ((k - 1) \div Len(Fields)) + 1
PartOf(k) == ((k - 1) % Len(Fields)) + 1

\* One kernel for each transformer and field, on the stream of the field: private
\* streams differ (StreamsConserved) and get one each.
LaunchAll(o, kernels) ==
  [s \in DOMAIN queue |->
     IF \A k \in DOMAIN o.streams : _get_stream(o.streams[k]) # s THEN queue[s]
     ELSE queue[s] \o IF wide THEN kernels
                      ELSE <<kernels[CHOOSE k \in DOMAIN o.streams : o.streams[k] = s]>>]

async_pack(o) ==
  LaunchAll(o, [k \in DOMAIN o.streams |-> pack(o.pack[NeighbourOf(k)], PartOf(k), NeighbourOf(k))])

async_unpack(o) ==
  LaunchAll(o, [k \in DOMAIN o.streams |-> unpack(o.unpack[NeighbourOf(k)], PartOf(k), NeighbourOf(k))])

NoUpdater == [st |-> "none", once |-> FALSE, exch |-> 0, pack |-> <<>>, unpack |-> <<>>,
              streams |-> <<>>]
Updater(once) ==
  LET b == pop_from_cache("halo", 2 * Neighbours)
  IN  [st |-> "idle", once |-> once, exch |-> 0,
       pack |-> [n \in Neighbour |-> b[2 * n - 1]],
       unpack |-> [n \in Neighbour |-> b[2 * n]],
       streams |-> _pop_stream(Neighbours * Len(Fields))]

-----------------------------------------------------------------------------
(* The calls of the host.                                                  *)

Ready == [at |-> "ready", name |-> 0, k |-> 0]
At(place, u, k) == [at |-> place, name |-> u, k |-> k]

Call(do) == host = Ready /\ do \in Calls /\ calls < MaxCalls /\ calls' = calls + 1

(***************************************************************************)
(* The model runs a kernel: it reads halos and edges and writes inside the *)
(* domain.  While an exchange is in flight its kernels stay inside: wait   *)
(* does not wait for those that were launched before it.                   *)
(***************************************************************************)
Compute(q) ==
  /\ Call("compute")
  /\ version' = [version EXCEPT ![q] = @ + 1]
  /\ queue' = Launched(0, <<IF \E u \in Name : obj[u].st = "inflight"
                            THEN compute_inside(q, version[q] + 1)
                            ELSE compute(q, version[q] + 1)>>)
  /\ UNCHANGED <<wide, host, obj, edges, pool, cache, buffers, mem, sends, recvs,
                 expected, message>>

(***************************************************************************)
(* HaloDataTransformer.get for each neighbour: take the buffers and        *)
(* streams, upload the indices that INDICES_CACHE does not hold.  An       *)
(* updater of start_halo_update is for one exchange, which starts at once. *)
(***************************************************************************)
Create(u, once) ==
  LET count   == 2 * Neighbours
      fields  == Neighbours * Len(Fields)
      missing == IF Indices(1) \in DOMAIN mem THEN 0 ELSE Neighbours
  IN  /\ Call(IF once THEN "startOnce" ELSE "get")
      /\ obj[u].st = "none"
      /\ obj' = [obj EXCEPT ![u] = Updater(once)]
      /\ cache' = CacheAfterPop("halo", count)
      /\ buffers' = buffers + Fresh("halo", count)
      /\ pool' = PoolAfterPop(fields)
      /\ mem' = Over([loc \in {Indices(n) : n \in 1..missing} |-> 0],
                      MemWithNew("halo", count))
      /\ queue' = Over([s \in (NumStreams + 1)..(NumStreams + NewStreams(fields)) |-> <<>>],
                       Launched(0, ZeroNew("halo", count) \o [n \in 1..missing |-> upload(n)]))
      /\ host' = IF once THEN At("start", u, 0) ELSE host
      /\ UNCHANGED <<wide, edges, sends, recvs, version, expected, message>>

BeginStart(u) ==
  /\ Call("start")
  /\ obj[u].st = "idle"
  /\ host' = At("start", u, 0)
  /\ UNCHANGED <<wide, obj, edges, pool, cache, buffers, queue, mem, sends, recvs,
                 version, expected, message>>

\* Faulty variant: start does not wait for the device.
Bug__device_synchronize(u) == TRUE

_device_synchronize(u) == device_idle

(***************************************************************************)
(* HaloUpdater.start up to the Isend: wait for the device, post a receive  *)
(* into every unpack buffer, launch every pack.                            *)
(***************************************************************************)
PostAndPack(u) ==
  /\ host = At("start", u, 0)
  /\ _device_synchronize(u)
  /\ \A n \in Neighbour : synchronized(obj[u], n)
  /\ recvs' = recvs \union
       {[name |-> u, n |-> n, buf |-> obj[u].unpack[n], val |-> calls] : n \in Neighbour}
  /\ queue' = async_pack(obj[u])
  /\ obj' = [obj EXCEPT ![u].st = "inflight", ![u].exch = calls]
  /\ host' = At("isend", u, 1)
  /\ UNCHANGED <<wide, calls, edges, pool, cache, buffers, mem, sends, version, expected,
                 message>>

\* Faulty variant: the pack buffer is sent without waiting for its kernels.
Bug_get_pack_buffer(o, n) == TRUE

get_pack_buffer(o, n) == synchronized(o, n)

\* The pack buffer of the next transformer, once it is packed, is sent.
Isend(u) ==
  LET n == host.k
  IN  /\ n \in Neighbour
      /\ host = At("isend", u, n)
      /\ get_pack_buffer(obj[u], n)
      /\ sends' = sends \union
           {[name |-> u, n |-> n, buf |-> obj[u].pack[n],
             want |-> [i \in Part |-> version[Fields[i]]]]}
      /\ host' = IF n < Neighbours THEN At("isend", u, n + 1) ELSE Ready
      /\ UNCHANGED <<wide, calls, obj, edges, pool, cache, buffers, queue, mem, recvs,
                     version, expected, message>>

Pending(u) == {m \in sends \union recvs : m.name = u}

BeginWait(u) ==
  /\ Call("wait")
  /\ obj[u].st = "inflight"
  /\ host' = At("wait", u, 0)
  /\ UNCHANGED <<wide, obj, edges, pool, cache, buffers, queue, mem, sends, recvs,
                 version, expected, message>>

\* HaloUpdater.wait: the requests complete, every unpack is launched.
LaunchUnpack(u) ==
  /\ host = At("wait", u, 0)
  /\ Pending(u) = {}
  /\ queue' = async_unpack(obj[u])
  /\ host' = At("unpack", u, 0)
  /\ UNCHANGED <<wide, calls, obj, edges, pool, cache, buffers, mem, sends, recvs, version,
                 expected, message>>

\* finalize, of the transformers of an updater.
Finalize(u) ==
  /\ \A n \in Neighbour : synchronized(obj[u], n)
  /\ cache' = [cache EXCEPT !.halo = @ \o [k \in 1..(2 * Neighbours) |->
                 IF k % 2 = 1 THEN obj[u].pack[(k + 1) \div 2] ELSE obj[u].unpack[k \div 2]]]
  /\ pool' = _push_stream(obj[u].streams)
  /\ obj' = [obj EXCEPT ![u] = NoUpdater]

\* Faulty variant: an updater that is kept is not synchronized.
Bug_KeepUpdater(u) ==
  /\ obj' = [obj EXCEPT ![u].st = "idle"]
  /\ UNCHANGED <<cache, pool>>

KeepUpdater(u) ==
  /\ \A n \in Neighbour : synchronized(obj[u], n)
  /\ obj' = [obj EXCEPT ![u].st = "idle"]
  /\ UNCHANGED <<cache, pool>>

\* The end of wait.
EndWait(u) ==
  /\ host = At("unpack", u, 0)
  /\ IF obj[u].once THEN Finalize(u) ELSE KeepUpdater(u)
  /\ expected' = Over([loc \in UNION {Halos(q) : q \in Quantity} |-> obj[u].exch], expected)
  /\ host' = Ready
  /\ UNCHANGED <<wide, calls, edges, buffers, queue, mem, sends, recvs, version, message>>

\* __del__ of an updater that is not in flight.
Drop(u) ==
  /\ Call("drop")
  /\ obj[u].st = "idle"
  /\ Finalize(u)
  /\ UNCHANGED <<wide, host, edges, buffers, queue, mem, sends, recvs, version, expected,
                 message>>

-----------------------------------------------------------------------------
(* start_synchronize_vector_interfaces: the exchange of shared edges, with *)
(* the kernels of the default stream.                                      *)

NoEdges == [exch |-> 0, sent |-> <<>>, received |-> <<>>]

\* VectorInterfaceHaloUpdater._Isend, up to the transfer: pop a buffer, copy the edge in.
CopyEdge ==
  LET b == pop_from_cache("edge", 1)[1]
  IN  /\ cache' = CacheAfterPop("edge", 1)
      /\ buffers' = buffers + Fresh("edge", 1)
      /\ mem' = MemWithNew("edge", 1)
      /\ queue' = Launched(0, ZeroNew("edge", 1) \o <<copy_in(b)>>)
      /\ edges' = [edges EXCEPT !.exch = calls', !.sent = Append(@, b)]

StartEdges ==
  /\ Call("edges")
  /\ edges = NoEdges
  /\ device_idle
  /\ CopyEdge
  /\ host' = At("edges", 0, 1)
  /\ UNCHANGED <<wide, obj, pool, sends, recvs, version, expected, message>>

SentEdge(n) ==
  [name |-> 0, n |-> n, buf |-> edges.sent[n], want |-> <<version[Fields[1]]>>]

\* finalize_memory_transfer, the Isend, and the next edge.
SendEdge ==
  LET n == host.k
  IN  /\ n \in Neighbour
      /\ host = At("edges", 0, n)
      /\ device_idle
      /\ sends' = sends \union {SentEdge(n)}
      /\ host' = At("edges", 0, n + 1)
      /\ IF n < Neighbours
         THEN calls' = calls /\ CopyEdge
         ELSE UNCHANGED <<calls, cache, buffers, mem, queue, edges>>
      /\ UNCHANGED <<wide, obj, pool, recvs, version, expected, message>>

\* VectorInterfaceHaloUpdater._Irecv, for each edge to receive.
RecvEdges ==
  LET b == pop_from_cache("edge", Neighbours)
  IN  /\ host = At("edges", 0, Neighbours + 1)
      /\ cache' = CacheAfterPop("edge", Neighbours)
      /\ buffers' = buffers + Fresh("edge", Neighbours)
      /\ mem' = MemWithNew("edge", Neighbours)
      /\ queue' = Launched(0, ZeroNew("edge", Neighbours))
      /\ recvs' = recvs \union
           {[name |-> 0, n |-> n, buf |-> b[n], val |-> edges.exch] : n \in Neighbour}
      /\ edges' = [edges EXCEPT !.received = b]
      /\ host' = Ready
      /\ UNCHANGED <<wide, calls, obj, pool, sends, version, expected, message>>

(***************************************************************************)
(* HaloUpdateRequest.wait: launch the copies of what was received, and     *)
(* return the buffers to the cache without waiting for them.               *)
(***************************************************************************)
WaitEdges ==
  /\ Call("edges")
  /\ edges.received # <<>>
  /\ Pending(0) = {}
  /\ queue' = Launched(0, [n \in Neighbour |-> copy_out(edges.received[n], n)])
  /\ cache' = [cache EXCEPT !.edge = @ \o edges.sent \o edges.received]
  /\ expected' = Over([loc \in Edges |-> edges.exch], expected)
  /\ edges' = NoEdges
  /\ UNCHANGED <<wide, host, obj, pool, buffers, mem, sends, recvs, version, message>>

-----------------------------------------------------------------------------
(* MPI, and the neighbours.                                                *)

Content(b) == [i \in 1..Cardinality(CellsOf(b)) |-> mem[Cell(b, i)]]

\* MPI reads a send buffer.
MpiRead(s) ==
  /\ sends' = sends \ {s}
  /\ message' = [content |-> Content(s.buf), want |-> s.want]
  /\ UNCHANGED <<wide, hostVars, queue, mem, recvs>>

\* A message of a neighbour arrives.
MpiWrite(v) ==
  /\ recvs' = recvs \ {v}
  /\ mem' = Over([loc \in CellsOf(v.buf) |-> v.val], mem)
  /\ UNCHANGED <<wide, hostVars, queue, sends, message>>

-----------------------------------------------------------------------------
Locations == {Interior(q) : q \in Quantity} \union (UNION {Halos(q) : q \in Quantity}) \union Edges
CachedCells == {Cell(b, 1) : b \in 1..EdgeBuffers}

Init ==
  /\ wide \in Paths
  /\ host = Ready /\ calls = 0
  /\ obj = [u \in Name |-> NoUpdater]
  /\ edges = NoEdges
  /\ pool = <<>>
  /\ cache = [halo |-> <<>>, edge |-> [b \in 1..EdgeBuffers |-> b]]
  /\ buffers = EdgeBuffers
  /\ queue = [s \in {0} |-> <<>>]
  /\ mem = [loc \in Locations \union CachedCells |-> 0]
  /\ sends = {} /\ recvs = {}
  /\ version = [q \in Quantity |-> 0]
  /\ expected = [loc \in (UNION {Halos(q) : q \in Quantity}) \union Edges |-> 0]
  /\ message = [content |-> <<>>, want |-> <<>>]

\* The host inside a call, which it has to return from.
HostStep ==
  \/ \E u \in Name : PostAndPack(u) \/ Isend(u) \/ LaunchUnpack(u) \/ EndWait(u)
  \/ SendEdge \/ RecvEdges

NewCall ==
  \/ \E q \in Quantity : Compute(q)
  \/ \E u \in Name : Create(u, TRUE) \/ Create(u, FALSE) \/ BeginStart(u) \/ BeginWait(u) \/ Drop(u)
  \/ StartEdges \/ WaitEdges

DeviceStep == \E s \in DOMAIN queue : Run(s)
MpiStep == (\E s \in sends : MpiRead(s)) \/ (\E v \in recvs : MpiWrite(v))

Next == NewCall \/ HostStep \/ DeviceStep \/ MpiStep

Spec == Init /\ [][Next]_vars

-----------------------------------------------------------------------------
(* Properties.                                                             *)

Conflict(a, b) ==
  \/ a.writes \intersect (b.reads \union b.writes) # {}
  \/ b.writes \intersect a.reads # {}

\* What may touch the memory of the device next, in any order.
Accesses ==
  {[by |-> <<"stream", s, 0>>, reads |-> Reads(Head(queue[s])), writes |-> Writes(Head(queue[s]))]
     : s \in {s \in DOMAIN queue : queue[s] # <<>>}}
  \union {[by |-> <<"send", s.name, s.n>>, reads |-> CellsOf(s.buf), writes |-> {}] : s \in sends}
  \union {[by |-> <<"recv", v.name, v.n>>, reads |-> {}, writes |-> CellsOf(v.buf)] : v \in recvs}

(***************************************************************************)
(* No data race on the device: two kernels of different streams, or a      *)
(* kernel and a pending MPI request, that may run in either order do not   *)
(* touch the same buffer, halo, field or array of indices unless both      *)
(* only read it.  The code gives each field a private non-blocking stream  *)
(* and relies on the synchronizations at the start of start, in            *)
(* get_pack_buffer, and at the end of wait.                                *)
(***************************************************************************)
NoRace == \A a, b \in Accesses : a.by # b.by => ~ Conflict(a, b)

(***************************************************************************)
(* A message holds the fields as the program left them when it called      *)
(* start, although the model's kernels may still be running when it calls, *)
(* and launches new ones that overwrite the field as soon as start has     *)
(* returned.                                                               *)
(***************************************************************************)
SentAsStarted == message.content = message.want

(***************************************************************************)
(* What the next kernel of the model reads in a halo or a shared edge is   *)
(* what the last exchange the program waited for received there: wait      *)
(* returns when the unpacking is done, or ordered before later kernels.    *)
(***************************************************************************)
HalosOfLastExchange ==
  host = Ready =>
    \A loc \in DOMAIN expected :
      (\A i \in DOMAIN queue[0] : loc \notin Writes(queue[0][i]))
        => mem[loc] = expected[loc]

(***************************************************************************)
(* Every stream ever created is in the pool once, or the private stream of *)
(* one field of one updater.                                               *)
(***************************************************************************)
StreamsConserved ==
  LET owned == {x \in Name \X (1..(Neighbours * Len(Fields))) :
                 x[2] \in DOMAIN obj[x[1]].streams}
      Stream(x) == obj[x[1]].streams[x[2]]
  IN  /\ IsInjective(pool)
      /\ \A x, y \in owned : x # y => Stream(x) # Stream(y)
      /\ \A x \in owned : Stream(x) \notin Range(pool)
      /\ DOMAIN queue = {0} \union Range(pool) \union {Stream(x) : x \in owned}
=============================================================================
