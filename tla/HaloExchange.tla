---------------------------- MODULE HaloExchange ----------------------------
(***************************************************************************)
(* Halo exchanges of an SPMD program over MPI:                             *)
(*                                                                         *)
(*   - Communicator hands out halo tags and creates updaters               *)
(*     (ndsl/comm/communicator.py);                                        *)
(*   - HaloUpdater posts the receives, packs, posts the sends, waits,      *)
(*     unpacks and finalizes; HaloUpdateRequest does the same for the      *)
(*     shared edges of a vector field (ndsl/halo/updater.py);              *)
(*   - HaloDataTransformer owns a pack and an unpack buffer for each       *)
(*     neighbour, taken from and returned to the buffer cache              *)
(*     (ndsl/halo/data_transformer.py, ndsl/buffer.py);                    *)
(*   - MPI reads a send buffer and writes a receive buffer at any time     *)
(*     between the posting of the request and its completion (external).   *)
(*                                                                         *)
(* The program that the ranks run is not fixed: it is a sequence of calls  *)
(* chosen as the behaviour unfolds, the same for every rank, in which      *)
(* exchanges of several updaters may overlap.                              *)
(*                                                                         *)
(* What is abstracted: the arrays.  A message is the triple (source,       *)
(* destination, number of the exchange at the source); which points of a   *)
(* field it stands for is the subject of modules HaloRegions and           *)
(* SharedEdges.  All buffers share one cache key, which is the case where  *)
(* every user of the cache competes for the same buffers.  An updater      *)
(* lists its pack buffers before its unpack buffers; in which order it     *)
(* takes them from the cache and returns them does not matter.             *)
(***************************************************************************)
EXTENDS Naturals, Sequences, Functions

CONSTANTS
  Rank,     \* the ranks of the communicator
  Out, In,  \* Out[k][r], In[k][r]: the ranks r sends to and receives from
  Name,     \* the variables of the program that hold updaters and requests
  MaxTag,   \* bound on the halo tags a communicator hands out
  MaxCalls  \* bound on the length of the program

Kind == {"halo", "sync"}
Tag  == 1..MaxTag

(***************************************************************************)
(* A pair of ranks shares at most one boundary, and whoever sends has a    *)
(* receiver.  Modules HaloRegions and SharedEdges check that the           *)
(* boundaries the partitioner computes have these two properties, and      *)
(* Topology_proofs proves it for every layout (TopologyOfGrids).           *)
(***************************************************************************)
ASSUME TopologyAssumption ==
  /\ Out \in [Kind -> [Rank -> Seq(Rank)]]
  /\ In  \in [Kind -> [Rank -> Seq(Rank)]]
  /\ \A k \in Kind, r \in Rank : IsInjective(Out[k][r]) /\ IsInjective(In[k][r])
  /\ \A k \in Kind, a, b \in Rank :
       b \in Range(Out[k][a]) <=> a \in Range(In[k][b])

ASSUME NameAssumption == Name \subseteq Nat

ASSUME BoundAssumption == MaxTag \in Nat \ {0} /\ MaxCalls \in Nat

VARIABLES
  script,   \* the calls of the program so far, the same for every rank
  held,     \* what each variable of the program holds after those calls
  pc,       \* pc[r]: how many of those calls rank r has returned from
  lastTag,  \* Communicator._last_halo_tag of each rank
  obj,      \* obj[r][n]: the updater or request that variable n holds on r
  garbage,  \* garbage[r]: buffers of updaters dropped but not collected yet
  cache,    \* BUFFER_CACHE of each rank, last in first out
  mem,      \* mem[r][b]: the content of buffer b of rank r
  sends,    \* Isend requests that are not complete
  recvs,    \* Irecv requests that are not complete
  wire,     \* messages MPI has copied out of their send buffer
  nsent, nrecv, \* requests posted so far on each channel and tag
  halo      \* the exchanges of each rank and what their unpack received

progVars == <<script, held>>
rankVars == <<pc, lastTag, obj, garbage, cache>>
mpiVars  == <<sends, recvs, wire, nsent, nrecv>>
vars     == <<progVars, rankVars, mem, mpiVars, halo>>

Blank == [src |-> 0, dst |-> 0, exch |-> 0]
NoObj == [st |-> "none", kind |-> "halo", tag |-> 0, keep |-> FALSE,
          bufs |-> <<>>, exch |-> 0]

Init ==
  /\ script = <<>>
  /\ held = [n \in Name |-> "nothing"]
  /\ pc = [r \in Rank |-> 0]
  /\ lastTag = [r \in Rank |-> 0]
  /\ obj = [r \in Rank |-> [n \in Name |-> NoObj]]
  /\ garbage = [r \in Rank |-> {}]
  /\ cache = [r \in Rank |-> <<>>]
  /\ mem = [r \in Rank |-> <<>>]
  /\ sends = {} /\ recvs = {} /\ wire = {}
  /\ nsent = [a \in Rank |-> [b \in Rank |-> [t \in Tag |-> 0]]]
  /\ nrecv = [a \in Rank |-> [b \in Rank |-> [t \in Tag |-> 0]]]
  /\ halo = [r \in Rank |-> <<>>]

-----------------------------------------------------------------------------
(* The program.                                                            *)

(***************************************************************************)
(* A call the program may make next: one that raises on no rank.  The      *)
(* calls the code refuses (start while an exchange is in flight, wait      *)
(* without a start, start after finalization) raise before they change     *)
(* anything modelled here.  A request is waited on once, and an updater is *)
(* dropped only when nothing is in flight.                                 *)
(***************************************************************************)
CallResult ==
  [get       |-> [nothing |-> "idle"],
   start     |-> [idle |-> "inflight"],
   startOnce |-> [nothing |-> "inflightOnce", finished |-> "inflightOnce"],
   sync      |-> [nothing |-> "inflightOnce", finished |-> "inflightOnce"],
   wait      |-> [inflight |-> "idle", inflightOnce |-> "finished"],
   drop      |-> [idle |-> "nothing"]]

(***************************************************************************)
(* The program makes one more call, which the ranks reach one after the    *)
(* other.  It uses its variables in order: names do not matter.            *)
(***************************************************************************)
Extend(do, n) ==
  /\ Len(script) < MaxCalls
  /\ held[n] = "nothing" => \A m \in Name : m < n => held[m] # "nothing"
  /\ \E r \in Rank : pc[r] = Len(script)
  /\ held[n] \in DOMAIN CallResult[do]
  /\ held' = [held EXCEPT ![n] = CallResult[do][@]]
  /\ script' = Append(script, [do |-> do, name |-> n])
  /\ UNCHANGED <<rankVars, mem, mpiVars, halo>>

\* Rank r is at a call do on variable n.
AtCall(r, do, n) ==
  /\ pc[r] < Len(script)
  /\ script[pc[r] + 1] = [do |-> do, name |-> n]

Return(r) == pc' = [pc EXCEPT ![r] = @ + 1]

-----------------------------------------------------------------------------
(* The buffer cache.                                                       *)

\* How many of count buffers have to be allocated.
Shortfall(r, count) ==
  IF count <= Len(cache[r]) THEN 0 ELSE count - Len(cache[r])

\* Faulty variant: a new buffer is the last one allocated.
Bug_pop_from_cache(r, count) ==
  [k \in 1..count |->
     IF k <= Len(cache[r]) THEN cache[r][Len(cache[r]) + 1 - k]
                           ELSE Len(mem[r]) + k - Len(cache[r]) - 1]

\* The buffers that count calls of pop_from_cache return.
pop_from_cache(r, count) ==
  [k \in 1..count |->
     IF k <= Len(cache[r]) THEN cache[r][Len(cache[r]) + 1 - k]
                           ELSE Len(mem[r]) + k - Len(cache[r])]

\* The cache that they leave, and the memory with the buffers they allocate.
CacheAfterPop(r, count) == SubSeq(cache[r], 1, Len(cache[r]) + Shortfall(r, count) - count)
MemAfterPop(r, count) == mem[r] \o [k \in 1..Shortfall(r, count) |-> Blank]

\* Faulty variant: the list of the key is replaced, not appended to.
Bug_push_to_cache(r, bufs) == bufs

push_to_cache(r, bufs) == cache[r] \o bufs

-----------------------------------------------------------------------------
(* Tags, requests and what they wait for.                                  *)

_get_halo_tag(r) == lastTag[r] + 1

\* VectorInterfaceHaloUpdater starts its own count of tags on every call.
SyncTag == 1

NumOut(r, k) == Len(Out[k][r])
NumBufs(r, k) == Len(Out[k][r]) + Len(In[k][r])

\* The requests that r posts for variable n: one for each peer.
IsendAll(r, n, k, tag, bufs) ==
  {[src |-> r, dst |-> Out[k][r][i], tag |-> tag, buf |-> bufs[i], name |-> n,
    seq |-> nsent[r][Out[k][r][i]][tag] + 1] : i \in DOMAIN Out[k][r]}

\* Faulty variant: nothing is received from a rank that one does not send to.
Bug_IrecvAll(r, n, k, tag, bufs) ==
  {[src |-> In[k][r][i], dst |-> r, tag |-> tag, buf |-> bufs[NumOut(r, k) + i],
    name |-> n, seq |-> nrecv[r][In[k][r][i]][tag] + 1] :
     i \in {j \in DOMAIN In[k][r] : In[k][r][j] \in Range(Out[k][r])}}

IrecvAll(r, n, k, tag, bufs) ==
  {[src |-> In[k][r][i], dst |-> r, tag |-> tag, buf |-> bufs[NumOut(r, k) + i],
    name |-> n, seq |-> nrecv[r][In[k][r][i]][tag] + 1] : i \in DOMAIN In[k][r]}

CountPosted(counter, r, peers, tag) ==
  [counter EXCEPT ![r] = [p \in Rank |-> [t \in Tag |->
     IF p \in Range(peers) /\ t = tag THEN @[p][t] + 1 ELSE @[p][t]]]]

\* The memory of r once its pack buffers hold its points of exchange e.
Packed(r, k, bufs, e, m) ==
  [b \in DOMAIN m |->
     IF \E i \in DOMAIN Out[k][r] : bufs[i] = b
     THEN [src |-> r, dst |-> Out[k][r][CHOOSE i \in DOMAIN Out[k][r] : bufs[i] = b],
           exch |-> e]
     ELSE m[b]]

\* Faulty variants: wait does not wait.
Bug_SendsComplete(r, n) == TRUE
Bug_RecvsComplete(r, n) == TRUE

SendsComplete(r, n) == \A s \in sends : ~ (s.src = r /\ s.name = n)
RecvsComplete(r, n) == \A v \in recvs : ~ (v.dst = r /\ v.name = n)

-----------------------------------------------------------------------------
(* The calls.                                                              *)

\* A new updater or request in variable n, with the buffers it takes.
New(r, n, st, k, tag, keep, e) ==
  /\ obj' = [obj EXCEPT ![r][n] =
               [st |-> st, kind |-> k, tag |-> tag, keep |-> keep,
                bufs |-> pop_from_cache(r, NumBufs(r, k)), exch |-> e]]
  /\ cache' = [cache EXCEPT ![r] = CacheAfterPop(r, NumBufs(r, k))]

(***************************************************************************)
(* get_scalar_halo_updater, get_vector_halo_updater: an updater the        *)
(* program keeps.                                                          *)
(***************************************************************************)
GetUpdater(r, n) ==
  /\ AtCall(r, "get", n)
  /\ obj[r][n].st = "none"
  /\ _get_halo_tag(r) \in Tag
  /\ lastTag' = [lastTag EXCEPT ![r] = _get_halo_tag(r)]
  /\ New(r, n, "idle", "halo", _get_halo_tag(r), TRUE, 0)
  /\ mem' = [mem EXCEPT ![r] = MemAfterPop(r, NumBufs(r, "halo"))]
  /\ Return(r)
  /\ UNCHANGED <<progVars, garbage, mpiVars, halo>>

\* HaloUpdater.start, up to the last Irecv.
StartRecvs(r, n) ==
  /\ AtCall(r, "start", n)
  /\ obj[r][n].st = "idle"
  /\ obj' = [obj EXCEPT ![r][n].st = "packing"]
  /\ recvs' = recvs \union IrecvAll(r, n, "halo", obj[r][n].tag, obj[r][n].bufs)
  /\ nrecv' = CountPosted(nrecv, r, In["halo"][r], obj[r][n].tag)
  /\ UNCHANGED <<progVars, pc, lastTag, garbage, cache, mem, sends, wire, nsent, halo>>

(***************************************************************************)
(* start_halo_update, start_vector_halo_update: an updater for a single    *)
(* exchange (force_finalize_on_wait), up to the last Irecv of its start.   *)
(***************************************************************************)
StartOnceRecvs(r, n) ==
  LET tag == _get_halo_tag(r)
  IN  /\ AtCall(r, "startOnce", n)
      /\ obj[r][n].st \in {"none", "finished"}
      /\ tag \in Tag
      /\ lastTag' = [lastTag EXCEPT ![r] = tag]
      /\ New(r, n, "packing", "halo", tag, FALSE, 0)
      /\ mem' = [mem EXCEPT ![r] = MemAfterPop(r, NumBufs(r, "halo"))]
      /\ recvs' = recvs \union
           IrecvAll(r, n, "halo", tag, pop_from_cache(r, NumBufs(r, "halo")))
      /\ nrecv' = CountPosted(nrecv, r, In["halo"][r], tag)
      /\ UNCHANGED <<progVars, pc, garbage, sends, wire, nsent, halo>>

\* The rest of HaloUpdater.start: pack every buffer, then post every Isend.
PackAndSend(r, n) ==
  LET o == obj[r][n]
      e == Len(halo[r]) + 1
  IN  /\ AtCall(r, "start", n) \/ AtCall(r, "startOnce", n)
      /\ o.st = "packing"
      /\ obj' = [obj EXCEPT ![r][n].st = "inflight", ![r][n].exch = e]
      /\ mem' = [mem EXCEPT ![r] = Packed(r, "halo", o.bufs, e, @)]
      /\ sends' = sends \union IsendAll(r, n, "halo", o.tag, o.bufs)
      /\ nsent' = CountPosted(nsent, r, Out["halo"][r], o.tag)
      /\ halo' = [halo EXCEPT ![r] =
                    Append(@, [kind |-> "halo", done |-> FALSE, got |-> <<>>])]
      /\ Return(r)
      /\ UNCHANGED <<progVars, lastTag, garbage, cache, recvs, wire, nrecv>>

(***************************************************************************)
(* start_synchronize_vector_interfaces: a new VectorInterfaceHaloUpdater   *)
(* sends the south and west edges, then posts the receives of the north    *)
(* and east ones.  Nothing blocks, so the call is one step.                *)
(***************************************************************************)
StartSync(r, n) ==
  LET bufs == pop_from_cache(r, NumBufs(r, "sync"))
      e    == Len(halo[r]) + 1
  IN  /\ AtCall(r, "sync", n)
      /\ obj[r][n].st \in {"none", "finished"}
      /\ New(r, n, "inflight", "sync", SyncTag, FALSE, e)
      /\ mem' = [mem EXCEPT ![r] =
                   Packed(r, "sync", bufs, e, MemAfterPop(r, NumBufs(r, "sync")))]
      /\ sends' = sends \union IsendAll(r, n, "sync", SyncTag, bufs)
      /\ recvs' = recvs \union IrecvAll(r, n, "sync", SyncTag, bufs)
      /\ nsent' = CountPosted(nsent, r, Out["sync"][r], SyncTag)
      /\ nrecv' = CountPosted(nrecv, r, In["sync"][r], SyncTag)
      /\ halo' = [halo EXCEPT ![r] =
                    Append(@, [kind |-> "sync", done |-> FALSE, got |-> <<>>])]
      /\ Return(r)
      /\ UNCHANGED <<progVars, lastTag, garbage, wire>>

\* Faulty variant: the halo is unpacked from the pack buffers.
Bug_Unpacked(r, o) == [j \in DOMAIN In[o.kind][r] |-> mem[r][o.bufs[j]]]

\* async_unpack: what rank r's halo receives from each neighbour.
Unpacked(r, o) ==
  [j \in DOMAIN In[o.kind][r] |-> mem[r][o.bufs[NumOut(r, o.kind) + j]]]

\* Faulty variant: finalize leaves the buffers behind.
Bug_Finalized(o) == [o EXCEPT !.st = "finished"]

\* finalize: the buffers are forgotten once they are back in the cache.
Finalized(o) == [o EXCEPT !.st = "finished", !.bufs = <<>>]

(***************************************************************************)
(* HaloUpdater.wait and HaloUpdateRequest.wait: block until the requests   *)
(* are complete, unpack, and give the buffers back unless the updater is   *)
(* to be used again.                                                       *)
(***************************************************************************)
Wait(r, n) ==
  LET o == obj[r][n]
  IN  /\ AtCall(r, "wait", n)
      /\ o.st = "inflight"
      /\ SendsComplete(r, n)
      /\ RecvsComplete(r, n)
      /\ halo' = [halo EXCEPT ![r][o.exch].done = TRUE, ![r][o.exch].got = Unpacked(r, o)]
      /\ IF o.keep
         THEN /\ obj' = [obj EXCEPT ![r][n].st = "idle"]
              /\ UNCHANGED cache
         ELSE /\ obj' = [obj EXCEPT ![r][n] = Finalized(o)]
              /\ cache' = [cache EXCEPT ![r] = push_to_cache(r, o.bufs)]
      /\ Return(r)
      /\ UNCHANGED <<progVars, lastTag, garbage, mem, mpiVars>>

\* The program drops its last reference to an updater.
Drop(r, n) ==
  /\ AtCall(r, "drop", n)
  /\ obj[r][n].st = "idle"
  /\ garbage' = [garbage EXCEPT ![r] = @ \union {obj[r][n].bufs}]
  /\ obj' = [obj EXCEPT ![r][n] = NoObj]
  /\ Return(r)
  /\ UNCHANGED <<progVars, lastTag, cache, mem, mpiVars, halo>>

\* HaloUpdater.__del__, whenever the rank's garbage collector runs it.
Collect(r) ==
  \E bufs \in garbage[r] :
    /\ garbage' = [garbage EXCEPT ![r] = @ \ {bufs}]
    /\ cache' = [cache EXCEPT ![r] = push_to_cache(r, bufs)]
    /\ UNCHANGED <<progVars, pc, lastTag, obj, mem, mpiVars, halo>>

-----------------------------------------------------------------------------
(* MPI.  Messages of one channel and tag are matched with receives in the  *)
(* order both were posted; MPI may buffer a message or not, and completes  *)
(* matched pairs in any order.                                             *)

Matches(m, v) ==
  /\ m.src = v.src /\ m.dst = v.dst
  /\ m.tag = v.tag /\ m.seq = v.seq

\* MPI copies a message out of its send buffer: the Isend is complete.
BufferMessage(s) ==
  /\ sends' = sends \ {s}
  /\ wire' = wire \union
       {[src |-> s.src, dst |-> s.dst, tag |-> s.tag, seq |-> s.seq,
         val |-> mem[s.src][s.buf]]}
  /\ UNCHANGED <<progVars, rankVars, mem, recvs, nsent, nrecv, halo>>

\* MPI copies a send buffer to the matching receive buffer.
Transfer(s, v) ==
  /\ Matches(s, v)
  /\ sends' = sends \ {s}
  /\ recvs' = recvs \ {v}
  /\ mem' = [mem EXCEPT ![v.dst][v.buf] = mem[s.src][s.buf]]
  /\ UNCHANGED <<progVars, rankVars, wire, nsent, nrecv, halo>>

\* MPI delivers a message it had buffered.
Deliver(w, v) ==
  /\ Matches(w, v)
  /\ wire' = wire \ {w}
  /\ recvs' = recvs \ {v}
  /\ mem' = [mem EXCEPT ![v.dst][v.buf] = w.val]
  /\ UNCHANGED <<progVars, rankVars, sends, nsent, nrecv, halo>>

-----------------------------------------------------------------------------
RankStep(r) ==
  \E n \in Name :
    \/ GetUpdater(r, n)
    \/ StartRecvs(r, n)
    \/ StartOnceRecvs(r, n)
    \/ PackAndSend(r, n)
    \/ StartSync(r, n)
    \/ Wait(r, n)
    \/ Drop(r, n)

\* A message whose receive is posted reaches it.
CompleteMatched ==
  \/ \E s \in sends, v \in recvs : Transfer(s, v)
  \/ \E w \in wire, v \in recvs : Deliver(w, v)

MpiStep == (\E s \in sends : BufferMessage(s)) \/ CompleteMatched

Next ==
  \/ \E do \in DOMAIN CallResult, n \in Name : Extend(do, n)
  \/ \E r \in Rank : RankStep(r)
  \/ \E r \in Rank : Collect(r)
  \/ MpiStep

Spec == Init /\ [][Next]_vars

(***************************************************************************)
(* A rank that can take its next step does, and MPI completes what is      *)
(* matched.  MPI may buffer a message whose receive is not posted, or      *)
(* never do so: then the sender's wait blocks until the receiver posts.    *)
(* Nothing is assumed of the garbage collector, nor that the program goes  *)
(* on.                                                                     *)
(***************************************************************************)
FairSpec ==
  /\ Spec
  /\ \A r \in Rank : WF_vars(RankStep(r))
  /\ WF_vars(CompleteMatched)

-----------------------------------------------------------------------------
(* Properties.                                                             *)

Call == [do : DOMAIN CallResult, name : Name]
Message == [src : Rank, dst : Rank, exch : Nat] \union {Blank}
Object ==
  [st : {"none", "idle", "packing", "inflight", "finished"}, kind : Kind,
   tag : Tag \union {0}, keep : BOOLEAN, bufs : Seq(Nat), exch : Nat]
Request == [src : Rank, dst : Rank, tag : Tag, buf : Nat, name : Name, seq : Nat]

\* Buffers are named by their order of allocation.
Allocated(r) == DOMAIN mem[r]
BuffersAllocated ==
  \A r \in Rank :
    /\ Range(cache[r]) \subseteq Allocated(r)
    /\ \A n \in Name : Range(obj[r][n].bufs) \subseteq Allocated(r)
    /\ \A bufs \in garbage[r] : Range(bufs) \subseteq Allocated(r)

Types ==
  /\ script \in Seq(Call)
  /\ held \in [Name -> {"nothing", "idle", "inflight", "inflightOnce", "finished"}]
  /\ pc \in [Rank -> Nat]
  /\ lastTag \in [Rank -> Tag \union {0}]
  /\ obj \in [Rank -> [Name -> Object]]
  /\ garbage \in [Rank -> SUBSET Seq(Nat)]
  /\ cache \in [Rank -> Seq(Nat)]
  /\ mem \in [Rank -> Seq(Message)]
  /\ sends \subseteq Request
  /\ recvs \subseteq Request
  /\ wire \subseteq [src : Rank, dst : Rank, tag : Tag, seq : Nat, val : Message]
  /\ nsent \in [Rank -> [Rank -> [Tag -> Nat]]]
  /\ nrecv \in [Rank -> [Rank -> [Tag -> Nat]]]
  /\ halo \in [Rank -> Seq([kind : Kind, done : BOOLEAN, got : Seq(Message)])]

\* The type of every variable; buffers that are named anywhere exist.
TypeOK == Types /\ BuffersAllocated

(***************************************************************************)
(* The buffers of a rank have one user each: no buffer is in the cache     *)
(* twice, held by two updaters, or held by an updater and in the cache.    *)
(* This is what Buffer.push_to_cache never checks, and what finalize,      *)
(* __del__ and HaloUpdateRequest.wait have to agree on.                    *)
(***************************************************************************)
OneUser ==
  \A r \in Rank :
    /\ IsInjective(cache[r])
    /\ \A n \in Name :
         /\ IsInjective(obj[r][n].bufs)
         /\ Range(obj[r][n].bufs) \intersect Range(cache[r]) = {}
    /\ \A n, m \in Name : n # m =>
         Range(obj[r][n].bufs) \intersect Range(obj[r][m].bufs) = {}
    /\ \A b \in garbage[r] :
         /\ IsInjective(b)
         /\ Range(b) \intersect Range(cache[r]) = {}
         /\ \A n \in Name : Range(b) \intersect Range(obj[r][n].bufs) = {}
         /\ \A c \in garbage[r] : b # c => Range(b) \intersect Range(c) = {}

(***************************************************************************)
(* A buffer that MPI may still read or write belongs to the updater that   *)
(* posted the request, whose exchange is under way, and to no other        *)
(* pending request: with OneUser it is neither in the cache nor anybody    *)
(* else's.  MPI reads the pack buffers and writes the unpack buffers.      *)
(***************************************************************************)
PackBuffers(r, o)   == {o.bufs[i] : i \in DOMAIN Out[o.kind][r]}
UnpackBuffers(r, o) == {o.bufs[NumOut(r, o.kind) + j] : j \in DOMAIN In[o.kind][r]}

PendingOwned ==
  /\ \A s \in sends :
       /\ obj[s.src][s.name].st = "inflight"
       /\ s.buf \in PackBuffers(s.src, obj[s.src][s.name])
       /\ \A t \in sends : t.src = s.src /\ t.buf = s.buf => t = s
  /\ \A v \in recvs :
       /\ obj[v.dst][v.name].st \in {"packing", "inflight"}
       /\ v.buf \in UnpackBuffers(v.dst, obj[v.dst][v.name])
       /\ \A w \in recvs : w.dst = v.dst /\ w.buf = v.buf => w = v
       /\ \A s \in sends : s.src = v.dst => s.buf # v.buf

(***************************************************************************)
(* No buffer is lost: every buffer a rank has allocated is in its cache or *)
(* held by an updater that the program, or the garbage collector, can      *)
(* still reach.                                                            *)
(***************************************************************************)
PoolConserved ==
  \A r \in Rank : \A b \in Allocated(r) :
    \/ b \in Range(cache[r])
    \/ \E n \in Name : b \in Range(obj[r][n].bufs)
    \/ \E bufs \in garbage[r] : b \in Range(bufs)

(***************************************************************************)
(* The content of a send buffer does not change between the Isend and its  *)
(* completion, which MPI requires of its caller: neither another updater   *)
(* packing, nor an incoming message, writes to it.                         *)
(***************************************************************************)
SendBufferStable ==
  [][\A s \in sends : s \in sends' =>
       mem'[s.src][s.buf] = mem[s.src][s.buf]]_vars

(***************************************************************************)
(* When no rank has a call left to make and the program holds nothing in   *)
(* flight, MPI holds nothing either: every message sent was received.      *)
(***************************************************************************)
NothingLeftInMPI ==
  (/\ \A r \in Rank : pc[r] = Len(script)
   /\ \A n \in Name : held[n] \notin {"inflight", "inflightOnce"})
  => sends = {} /\ recvs = {} /\ wire = {}

(***************************************************************************)
(* What an updater or request holds in each of its states: the inductive   *)
(* invariant needs it besides the properties above.                        *)
(***************************************************************************)
WellFormed(r, o, exchanges) ==
  /\ o.st \in {"idle", "packing", "inflight"} => Len(o.bufs) = NumBufs(r, o.kind)
  /\ o.st \in {"none", "finished"} => o.bufs = <<>>
  /\ o.st \in {"idle", "packing"} \/ o.keep => o.kind = "halo" /\ o.tag \in Tag
  /\ o.st = "inflight" => o.exch \in exchanges

ObjectShape ==
  \A r \in Rank, n \in Name : WellFormed(r, obj[r][n], DOMAIN halo[r])

(***************************************************************************)
(* PendingOwned, seen by each updater alone: that no two updaters share a  *)
(* buffer is left to OneUser.                                              *)
(***************************************************************************)
RequestsOwn ==
  /\ \A s \in sends :
       /\ obj[s.src][s.name].st = "inflight"
       /\ s.buf \in PackBuffers(s.src, obj[s.src][s.name])
       /\ \A t \in sends : t.src = s.src /\ t.name = s.name /\ t.buf = s.buf => t = s
  /\ \A v \in recvs :
       /\ obj[v.dst][v.name].st \in {"packing", "inflight"}
       /\ v.buf \in UnpackBuffers(v.dst, obj[v.dst][v.name])
       /\ \A w \in recvs : w.dst = v.dst /\ w.name = v.name /\ w.buf = v.buf => w = v

\* The inductive invariant of module HaloExchange_proofs.
IInv == TypeOK /\ OneUser /\ PoolConserved /\ ObjectShape /\ RequestsOwn

\* The exchanges implement HaloSpec: see there what each rank receives.
Abstract == INSTANCE HaloSpec WITH Rank <- Rank, Kind <- Kind, In <- In, halo <- halo
ImplementsHaloSpec == Abstract!Spec

(***************************************************************************)
(* Every rank returns from every call of the program, whatever exchanges   *)
(* overlap and in whatever order they are waited on, and though MPI may    *)
(* buffer no message: no set of ranks waits for each other for ever.       *)
(***************************************************************************)
EveryCallReturns == <>[](\A r \in Rank : pc[r] = Len(script))
=============================================================================
