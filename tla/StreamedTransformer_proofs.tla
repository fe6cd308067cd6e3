---------------------- MODULE StreamedTransformer_proofs ----------------------
(***************************************************************************)
(* Halo exchanges of fields on a GPU: the streams are conserved, no two    *)
(* accesses race, messages hold the fields as they were when start was     *)
(* called, and halos what the last exchange brought, for any number of     *)
(* fields, neighbours, updaters and calls, on both paths of the            *)
(* synchronization.                                                        *)
(*                                                                         *)
(* Two facts carry the proof that nothing races.  Every buffer has one     *)
(* holder, an updater, the exchange of edges or a cache (HoldersOK).  And  *)
(* where the host is says what may still be in the queues (PrivateOK,      *)
(* DefaultOK) and in MPI (MpiOK), because of what it waited for on its way *)
(* there.                                                                  *)
(*                                                                         *)
(* The values follow from them (ValuesOK): a location that something still *)
(* waits for has its value already, or the kernel or message that brings   *)
(* it is queued, and no other kernel or message writes it in between.      *)
(***************************************************************************)
EXTENDS StreamedTransformer, FiniteSetTheorems, TLAPS

-----------------------------------------------------------------------------
(* Lists of buffers: BUFFER_CACHE is a stack, in this model as in          *)
(* HaloExchange, whose proofs rest on the same two lemmas.                 *)

(***************************************************************************)
(* f is what taking count buffers from the end of a list s of k buffers    *)
(* gives, and c what it leaves, when the short buffers missing are         *)
(* allocated after the l that exist.                                       *)
(***************************************************************************)
Takes(count, k, l, short, s, f, c) ==
  /\ count \in Nat /\ k \in Nat /\ l \in Nat /\ short \in Nat
  /\ count <= k => short = 0
  /\ count > k => short = count - k
  /\ DOMAIN s = 1..k /\ IsInjective(s) /\ Range(s) \subseteq 1..l
  /\ DOMAIN f = 1..count
  /\ \A i \in 1..count : i <= k => f[i] = s[k + 1 - i]
  /\ \A i \in 1..count : i > k => f[i] = l + i - k
  /\ DOMAIN c = 1..(k + short - count)
  /\ \A i \in 1..(k + short - count) : c[i] = s[i]

(***************************************************************************)
(* The buffers taken are distinct, come from the list or are new, and are  *)
(* gone from the list, which keeps all others.                             *)
(***************************************************************************)
LEMMA TakeLast ==
  ASSUME NEW count, NEW k, NEW l, NEW short, NEW s, NEW f, NEW c,
         Takes(count, k, l, short, s, f, c)
  PROVE  /\ IsInjective(f)
         /\ IsInjective(c)
         /\ Range(f) \intersect Range(c) = {}
         /\ Range(f) \subseteq 1..(l + short)
         /\ Range(f) \intersect 1..l \subseteq Range(s)
         /\ Range(c) \subseteq Range(s)
         /\ Range(s) \subseteq Range(c) \union Range(f)
         /\ 1..(l + short) \subseteq 1..l \union Range(f)
<1>a. /\ count \in Nat /\ k \in Nat /\ l \in Nat /\ short \in Nat
      /\ count <= k => short = 0
      /\ count > k => short = count - k
      /\ DOMAIN s = 1..k /\ IsInjective(s) /\ Range(s) \subseteq 1..l
      /\ DOMAIN f = 1..count
      /\ \A i \in 1..count : i <= k => f[i] = s[k + 1 - i]
      /\ \A i \in 1..count : i > k => f[i] = l + i - k
      /\ DOMAIN c = 1..(k + short - count)
      /\ \A i \in 1..(k + short - count) : c[i] = s[i]
  BY DEF Takes
<1> USE <1>a
<1>1. \A i \in 1..k : s[i] \in 1..l
  BY DEF Range
<1>2. \A i, j \in 1..k : s[i] = s[j] => i = j
  BY DEF IsInjective
<1>3. \A i \in 1..count : i <= k => k + 1 - i \in 1..k
  OBVIOUS
<1>4. IsInjective(f)
  <2> SUFFICES ASSUME NEW i \in 1..count, NEW j \in 1..count, f[i] = f[j]
               PROVE  i = j
    BY DEF IsInjective
  <2>1. CASE i <= k /\ j <= k
    <3>1. k + 1 - i = k + 1 - j
      BY <2>1, <1>2, <1>3
    <3> QED
      BY <3>1
  <2>2. CASE i <= k /\ j > k
    <3>1. f[i] \in 1..l
      BY <2>2, <1>1, <1>3
    <3> QED
      BY <3>1, <2>2
  <2>3. CASE i > k /\ j <= k
    <3>1. f[j] \in 1..l
      BY <2>3, <1>1, <1>3
    <3> QED
      BY <3>1, <2>3
  <2>4. CASE i > k /\ j > k
    BY <2>4
  <2> QED
    BY <2>1, <2>2, <2>3, <2>4
<1>5. \A i \in DOMAIN c : i \in 1..k
  OBVIOUS
<1>6. IsInjective(c)
  BY <1>2, <1>5 DEF IsInjective
<1>7. Range(f) \intersect Range(c) = {}
  <2> SUFFICES ASSUME NEW i \in 1..count, NEW j \in 1..(k + short - count), f[i] = c[j]
               PROVE  FALSE
    BY DEF Range
  <2>1. CASE i <= k
    <3>1. s[k + 1 - i] = s[j] /\ k + 1 - i \in 1..k /\ j \in 1..k
      BY <2>1, <1>3
    <3>2. k + 1 - i = j
      BY <3>1, <1>2
    <3> QED
      BY <3>2
  <2>2. CASE i > k
    <3>1. c[j] \in 1..l
      BY <1>1, <1>5
    <3> QED
      BY <3>1, <2>2
  <2> QED
    BY <2>1, <2>2
<1>8. \A i \in 1..count : i <= k => f[i] \in 1..l /\ f[i] \in Range(s)
  BY <1>1, <1>3 DEF Range
<1>9. \A i \in 1..count : i > k => f[i] \in (l + 1)..(l + short)
  OBVIOUS
<1>10. Range(f) \subseteq 1..(l + short)
  <2> SUFFICES ASSUME NEW i \in 1..count PROVE f[i] \in 1..(l + short)
    BY DEF Range
  <2> QED
    BY <1>8, <1>9
<1>11. Range(f) \intersect 1..l \subseteq Range(s)
  <2> SUFFICES ASSUME NEW i \in 1..count, f[i] \in 1..l PROVE f[i] \in Range(s)
    BY DEF Range
  <2> QED
    BY <1>8, <1>9
<1>12. Range(c) \subseteq Range(s)
  BY <1>5 DEF Range
<1>13. Range(s) \subseteq Range(c) \union Range(f)
  <2> SUFFICES ASSUME NEW i \in 1..k
               PROVE  s[i] \in Range(c) \union Range(f)
    BY DEF Range
  <2>1. CASE i <= k + short - count
    BY <2>1 DEF Range
  <2>2. CASE i > k + short - count
    <3>1. k + 1 - i \in 1..count /\ k + 1 - i <= k /\ k + 1 - (k + 1 - i) = i
      BY <2>2
    <3>2. f[k + 1 - i] = s[i]
      BY <3>1
    <3> QED
      BY <3>1, <3>2 DEF Range
  <2> QED
    BY <2>1, <2>2
<1>14. 1..(l + short) \subseteq 1..l \union Range(f)
  <2> SUFFICES ASSUME NEW b \in 1..(l + short), b \notin 1..l
               PROVE  b \in Range(f)
    OBVIOUS
  <2>1. b - l + k \in 1..count /\ b - l + k > k /\ l + (b - l + k) - k = b
    OBVIOUS
  <2>2. f[b - l + k] = b
    BY <2>1
  <2> QED
    BY <2>1, <2>2 DEF Range
<1> QED
  BY <1>4, <1>6, <1>7, <1>10, <1>11, <1>12, <1>13, <1>14

(***************************************************************************)
(* Appending a list keeps the elements of both, and keeps them distinct if *)
(* the two lists share none.                                               *)
(***************************************************************************)
LEMMA AppendList ==
  ASSUME NEW S, NEW s \in Seq(S), NEW t \in Seq(S)
  PROVE  /\ s \o t \in Seq(S)
         /\ Range(s \o t) = Range(s) \union Range(t)
         /\ /\ IsInjective(s) /\ IsInjective(t)
            /\ Range(s) \intersect Range(t) = {}
            => IsInjective(s \o t)
<1> DEFINE k == Len(s)
           l == Len(t)
           c == s \o t
<1>1. /\ c \in Seq(S) /\ k \in Nat /\ l \in Nat
      /\ DOMAIN c = 1..(k + l) /\ DOMAIN s = 1..k /\ DOMAIN t = 1..l
  OBVIOUS
<1>2. /\ \A i \in 1..k : i \in DOMAIN c /\ c[i] = s[i]
      /\ \A i \in 1..l : i + k \in DOMAIN c /\ c[i + k] = t[i]
  OBVIOUS
<1>3. \A i \in 1..(k + l) : i \in 1..k \/ (i - k \in 1..l /\ c[i] = t[i - k])
  OBVIOUS
<1> HIDE DEF k, l, c
<1>4. Range(c) = Range(s) \union Range(t)
  <2>1. \A i \in DOMAIN c : c[i] \in Range(s) \union Range(t)
    BY <1>1, <1>2, <1>3 DEF Range
  <2>2. \A i \in DOMAIN s : s[i] \in Range(c)
    BY <1>1, <1>2 DEF Range
  <2>3. \A i \in DOMAIN t : t[i] \in Range(c)
    BY <1>1, <1>2 DEF Range
  <2> QED
    BY <2>1, <2>2, <2>3 DEF Range
<1>5. ASSUME IsInjective(s), IsInjective(t), Range(s) \intersect Range(t) = {}
      PROVE  IsInjective(c)
  <2> SUFFICES ASSUME NEW i \in DOMAIN c, NEW j \in DOMAIN c, c[i] = c[j]
               PROVE  i = j
    BY DEF IsInjective
  <2>1. CASE i \in 1..k /\ j \in 1..k
    BY <2>1, <1>1, <1>2, <1>5 DEF IsInjective
  <2>2. CASE i \notin 1..k /\ j \notin 1..k
    <3>1. i - k = j - k
      BY <2>2, <1>1, <1>3, <1>5 DEF IsInjective
    <3> QED
      BY <3>1, <1>1
  <2>3. CASE i \in 1..k /\ j \notin 1..k
    <3>1. c[i] \in Range(s) /\ c[j] \in Range(t)
      BY <2>3, <1>1, <1>2, <1>3 DEF Range
    <3> QED
      BY <3>1, <1>5
  <2>4. CASE i \notin 1..k /\ j \in 1..k
    <3>1. c[j] \in Range(s) /\ c[i] \in Range(t)
      BY <2>4, <1>1, <1>2, <1>3 DEF Range
    <3> QED
      BY <3>1, <1>5
  <2> QED
    BY <2>1, <2>2, <2>3, <2>4
<1> QED
  BY <1>1, <1>4, <1>5 DEF c

-----------------------------------------------------------------------------
(* The invariant.                                                          *)

Streams == Neighbours * Len(Fields)
Updaters ==
  [st : {"none", "idle", "inflight"}, once : BOOLEAN, exch : Nat,
   pack : Seq(Nat), unpack : Seq(Nat), streams : Seq(Nat)]

Types ==
  /\ wide \in BOOLEAN /\ calls \in Nat /\ buffers \in Nat
  /\ obj \in [Name -> Updaters]
  /\ edges \in [exch : Nat, sent : Seq(Nat), received : Seq(Nat)]
  /\ pool \in Seq(Nat)
  /\ cache \in [halo : Seq(Nat), edge : Seq(Nat)]

QueueOK ==
  /\ NumStreams \in Nat /\ DOMAIN queue = 0..NumStreams
  /\ \A s \in DOMAIN queue : \E K : queue[s] \in Seq(K)

\* Where the host is.
HostOK ==
  \/ host = Ready
  \/ \E u \in Name :
       \/ host = At("start", u, 0) /\ obj[u].st = "idle"
       \/ host = At("wait", u, 0) /\ obj[u].st = "inflight"
       \/ host = At("unpack", u, 0) /\ obj[u].st = "inflight"
       \/ \E n \in Neighbour : host = At("isend", u, n) /\ obj[u].st = "inflight"
  \/ \E n \in 1..(Neighbours + 1) : host = At("edges", 0, n) /\ "edges" \in Calls

\* The lists of an updater: none before it is made.
ObjectOK(o) ==
  IF o.st = "none" THEN o.streams = <<>>
  ELSE /\ Len(o.pack) = Neighbours /\ Len(o.unpack) = Neighbours
       /\ Len(o.streams) = Streams

\* Each holder in H has a list of its own of things in A, and together they have them all.
Apart(H, list, A) ==
  /\ \A h \in H : IsInjective(list[h]) /\ Range(list[h]) \subseteq A
  /\ \A g, h \in H : g # h => Range(list[g]) \intersect Range(list[h]) = {}
Complete(H, list, A) == \A x \in A : \E h \in H : x \in Range(list[h])

\* The holders of streams: the pool, named 0, and the updaters.
StreamHolders == Name \union {0}
StreamLists == [h \in StreamHolders |-> IF h = 0 THEN pool ELSE obj[h].streams]
StreamsApart ==
  /\ Apart(StreamHolders, StreamLists, 1..NumStreams)
  /\ Complete(StreamHolders, StreamLists, 1..NumStreams)

StreamsInv ==
  Types /\ QueueOK /\ HostOK /\ (\A u \in Name : ObjectOK(obj[u])) /\ StreamsApart

\* The buffers of an updater, in the order they are taken and given back.
Held(o) ==
  IF o.st = "none" THEN <<>>
  ELSE [k \in 1..(2 * Neighbours) |->
          IF k % 2 = 1 THEN o.pack[(k + 1) \div 2] ELSE o.unpack[k \div 2]]

\* Who holds buffers, and the list each holds.
Holders == ({"updater"} \X Name) \union ({"cache"} \X {"halo", "edge"}) \union {<<"edges", 0>>}
ListOf(h) ==
  CASE h[1] = "updater" -> Held(obj[h[2]])
    [] h[1] = "cache"   -> cache[h[2]]
    [] h[1] = "edges"   -> edges.sent \o edges.received

BufferLists == [h \in Holders |-> ListOf(h)]
HoldersOK == Apart(Holders, BufferLists, 1..buffers)

\* The messages have come when the unpacking is launched.
UnpackOK == host.at = "unpack" => Pending(host.name) = {}

EdgesOK ==
  /\ IF host.at = "edges"
     THEN /\ edges.received = <<>>
          /\ Len(edges.sent) = IF host.k <= Neighbours THEN host.k ELSE Neighbours
     ELSE \/ edges.sent = <<>> /\ edges.received = <<>>
          \/ Len(edges.sent) = Neighbours /\ Len(edges.received) = Neighbours
  /\ Len(cache.edge) + Len(edges.sent) + Len(edges.received) = EdgeBuffers

InFlight(u) == obj[u].st = "inflight"
Queued(s) == Range(queue[s])

\* A private stream has at most the kernel of its field: a pack from start
\* until the buffer is sent, an unpack until the end of wait.
PrivateOK ==
  \A s \in DOMAIN queue \ {0} : \A k \in Queued(s) :
    /\ ~ wide
    /\ \E n \in Neighbour, i \in Part :
         /\ s = StreamOf(obj[host.name], n, i)
         /\ \/ host.at = "isend" /\ n >= host.k /\ k = pack(obj[host.name].pack[n], i, n)
            \/ host.at = "unpack" /\ k = unpack(obj[host.name].unpack[n], i, n)

\* Kernels that the host did not wait for.
Background(k) ==
  \/ /\ k.do = "zero"
     /\ \A u \in Name : InFlight(u) => k.buf \notin Range(Held(obj[u]))
     /\ k.buf \notin Range(edges.sent \o edges.received)
  \/ k.do \in {"upload", "compute"} /\ \A u \in Name : ~ InFlight(u)
  \/ k.do = "inside"
  \/ k.do = "copy_out" /\ k.buf \in Range(cache.edge)

\* The default stream.
MayBeQueued(k) ==
  CASE host.at = "isend" -> /\ wide /\ host.k = 1
                            /\ \E n \in Neighbour, i \in Part :
                                 k = pack(obj[host.name].pack[n], i, n)
    [] host.at = "edges" -> host.k <= Neighbours /\ k = copy_in(edges.sent[host.k])
    [] OTHER -> \/ Background(k)
                \/ /\ host.at = "unpack" /\ wide
                   /\ \E n \in Neighbour, i \in Part :
                        k = unpack(obj[host.name].unpack[n], i, n)

DefaultOK == \A k \in Queued(0) : MayBeQueued(k)

\* Requests that are not complete.
SendOK(s) ==
  \/ /\ s.name \in Name /\ InFlight(s.name)
     /\ s.n \in Neighbour /\ s.buf = obj[s.name].pack[s.n]
     /\ host.at = "isend" /\ host.name = s.name => s.n < host.k
  \/ /\ s.name = 0
     /\ s.n \in 1..Len(edges.sent) /\ s.buf = edges.sent[s.n]
     /\ host.at = "edges" => s.n < host.k

RecvOK(v) ==
  \/ /\ v.name \in Name /\ InFlight(v.name)
     /\ v.n \in Neighbour /\ v.buf = obj[v.name].unpack[v.n]
  \/ /\ v.name = 0
     /\ v.n \in 1..Len(edges.received) /\ v.buf = edges.received[v.n]

MpiOK == (\A s \in sends : SendOK(s)) /\ (\A v \in recvs : RecvOK(v))

\* The edges find enough buffers in the cache, so none is zeroed for them.
EdgesCached == "edges" \in Calls => EdgeBuffers >= 2 * Neighbours

\* The first updater uploaded the indices.
IndicesOK == \A u \in Name : obj[u].st # "none" => Indices(1) \in DOMAIN mem

IInv ==
  /\ StreamsInv /\ EdgesCached /\ EdgesOK /\ HoldersOK /\ IndicesOK
  /\ MpiOK /\ UnpackOK /\ PrivateOK /\ DefaultOK

-----------------------------------------------------------------------------
(* Sizes.                                                                  *)

\* A number written with a quotient and a remainder.
LEMMA Division ==
  ASSUME NEW m \in Nat, NEW f \in Nat, f > 0
  PROVE  /\ m \div f \in Nat /\ m % f \in 0..(f - 1)
         /\ m = (m \div f) * f + (m % f)
BY Z3

LEMMA Products ==
  ASSUME NEW q \in Nat, NEW n \in Nat, NEW f \in Nat, q >= n
  PROVE  q * f >= n * f
<1>1. (q - n) * f >= 0
  <2>1. q - n >= 0 /\ f >= 0
    OBVIOUS
  <2> QED
    BY <2>1, Z3
<1>2. (q - n) * f = q * f - n * f
  BY Z3
<1>3. q * f \in Int /\ n * f \in Int /\ (q - n) * f \in Int
  OBVIOUS
<1> QED
  BY <1>1, <1>2, <1>3

LEMMA Sizes ==
  /\ Neighbours \in Nat /\ Neighbours > 0 /\ Len(Fields) \in Nat /\ Len(Fields) > 0
  /\ Part = 1..Len(Fields) /\ Streams \in Nat
  /\ \A i, j \in Part : Fields[i] = Fields[j] => i = j
  /\ 0 \notin Name /\ 2 * Neighbours \in Nat
  /\ EdgeBuffers \in Nat
<1>1. Len(Fields) \in Nat /\ Len(Fields) > 0 /\ Part = 1..Len(Fields)
  BY SizeAssumption DEF Part
<1>2. \A m, n \in Nat : m * n \in Nat
  OBVIOUS
<1> QED
  BY <1>1, <1>2, SizeAssumption DEF Part, Streams, IsInjective

\* The kernels of an updater, one for each neighbour and field.
LEMMA StreamIndex ==
  ASSUME NEW k \in 1..Streams
  PROVE  /\ NeighbourOf(k) \in Neighbour /\ PartOf(k) \in Part
         /\ (NeighbourOf(k) - 1) * Len(Fields) + PartOf(k) = k
<1> DEFINE f == Len(Fields)
           m == k - 1
<1>1. f \in Nat /\ f > 0 /\ Part = 1..f /\ Neighbours \in Nat /\ Streams = Neighbours * f
      /\ Streams \in Nat
  BY Sizes DEF Streams
<1>2. m \in Nat /\ m < Streams /\ k = m + 1
  BY <1>1
<1> DEFINE q == m \div f
           r == m % f
<1>3. NeighbourOf(k) = q + 1 /\ PartOf(k) = r + 1
  BY DEF NeighbourOf, PartOf
<1> HIDE DEF f, m
<1>4. q \in Nat /\ r \in 0..(f - 1) /\ m = q * f + r
  BY <1>1, <1>2, Division
<1> HIDE DEF q, r
<1>5. r \in Nat /\ r < f
  BY <1>1, <1>4
<1>6. q < Neighbours
  <2> SUFFICES ASSUME q >= Neighbours PROVE FALSE
    BY <1>1, <1>4
  <2>1. q * f >= Neighbours * f
    BY <1>1, <1>4, Products
  <2>2. q * f \in Nat
    BY <1>1, <1>4
  <2> QED
    BY <1>1, <1>2, <1>4, <1>5, <2>1, <2>2
<1>7. q + 1 \in Neighbour /\ (q + 1) - 1 = q
  BY <1>1, <1>4, <1>6 DEF Neighbour
<1>8. r + 1 \in Part
  BY <1>1, <1>5
<1>9. q * f + (r + 1) = k
  <2>1. q * f \in Nat
    BY <1>1, <1>4
  <2> QED
    BY <1>2, <1>4, <1>5, <2>1
<1> QED
  BY <1>3, <1>7, <1>8, <1>9 DEF f

LEMMA StreamPlace ==
  ASSUME NEW n \in Neighbour, NEW i \in Part
  PROVE  (n - 1) * Len(Fields) + i \in 1..Streams
<1>1. PICK N \in Nat, f \in Nat : N = Neighbours /\ f = Len(Fields) /\ N > 0 /\ f > 0
  BY Sizes
<1>2. n \in Nat /\ n >= 1 /\ n <= N /\ i \in Nat /\ i >= 1 /\ i <= f /\ Streams = N * f
  BY <1>1, Sizes DEF Neighbour, Streams
<1>3. PICK m \in Nat : n = m + 1
  <2>1. n - 1 \in Nat /\ n = (n - 1) + 1
    BY <1>2
  <2> QED
    BY <2>1
<1>4. N * f >= (m + 1) * f
  BY <1>2, <1>3, Products
<1>5. (m + 1) * f = m * f + f /\ m * f \in Nat /\ N * f \in Nat
  BY Z3
<1>6. n - 1 = m
  BY <1>2, <1>3
<1>7. PICK a \in Nat, b \in Nat : a = m * f /\ b = N * f /\ b >= a + f
  BY <1>4, <1>5
<1>8. a + i \in 1..b
  BY <1>1, <1>2, <1>7
<1> QED
  BY <1>1, <1>2, <1>6, <1>7, <1>8

-----------------------------------------------------------------------------
(* The queues.                                                             *)

\* Streams other than s keep what they have, and stream s gets the kernels of set new.
LaunchedOn(s, new) ==
  /\ DOMAIN queue' = DOMAIN queue
  /\ (\E K : queue'[s] \in Seq(K)) /\ Range(queue'[s]) = Queued(s) \union new
  /\ \A t \in DOMAIN queue : t # s => queue'[t] = queue[t]

LEMMA QueueStays ==
  ASSUME QueueOK, DOMAIN queue' = DOMAIN queue, \A t \in DOMAIN queue : \E K : queue'[t] \in Seq(K)
  PROVE  QueueOK'
<1>1. NumStreams' = NumStreams
  BY DEF NumStreams
<1> QED
  BY <1>1 DEF QueueOK

LEMMA LaunchKeeps ==
  ASSUME QueueOK, NEW s \in DOMAIN queue, NEW new, LaunchedOn(s, new)
  PROVE  QueueOK'
<1>1. \A t \in DOMAIN queue : \E K : queue'[t] \in Seq(K)
  BY DEF LaunchedOn, QueueOK
<1> QED
  BY <1>1, QueueStays DEF LaunchedOn

\* A list of kernels behind those of a queue.
LEMMA Behind ==
  ASSUME NEW K, NEW q \in Seq(K), NEW L, NEW l \in Seq(L)
  PROVE  (\E M : q \o l \in Seq(M)) /\ Range(q \o l) = Range(q) \union Range(l)
<1>1. q \in Seq(K \union L) /\ l \in Seq(K \union L)
  OBVIOUS
<1> QED
  BY <1>1, AppendList

LEMMA LaunchDefault ==
  ASSUME QueueOK, NEW L, NEW l \in Seq(L), queue' = Launched(0, l)
  PROVE  LaunchedOn(0, Range(l)) /\ QueueOK'
<1>1. 0 \in DOMAIN queue
  BY DEF QueueOK
<1>2. PICK K : queue[0] \in Seq(K)
  BY <1>1 DEF QueueOK
<1>3. queue'[0] = queue[0] \o l /\ DOMAIN queue' = DOMAIN queue
      /\ \A t \in DOMAIN queue : t # 0 => queue'[t] = queue[t]
  BY <1>1 DEF Launched
<1>4. (\E M : queue[0] \o l \in Seq(M)) /\ Range(queue[0] \o l) = Range(queue[0]) \union Range(l)
  BY <1>2, Behind
<1>5. LaunchedOn(0, Range(l))
  BY <1>3, <1>4 DEF LaunchedOn, Queued
<1> QED
  BY <1>1, <1>5, LaunchKeeps

\* The kernels of an updater are launched on the default stream or one by one.
FieldsLaunched(o, l) ==
  /\ wide => LaunchedOn(0, Range(l))
  /\ ~ wide => /\ DOMAIN queue' = DOMAIN queue
               /\ \A s \in DOMAIN queue :
                    \/ queue'[s] = queue[s]
                    \/ \E k \in 1..Streams :
                         s = o.streams[k] /\ Range(queue'[s]) = Queued(s) \union {l[k]}

LEMMA LaunchFields ==
  ASSUME QueueOK, wide \in BOOLEAN, NEW o, NEW L, NEW l \in Seq(L), queue' = LaunchAll(o, l),
         DOMAIN o.streams = 1..Streams, Len(l) = Streams, 0 \notin Range(o.streams)
  PROVE  QueueOK' /\ FieldsLaunched(o, l)
<1>1. /\ 0 \in DOMAIN queue /\ DOMAIN queue' = DOMAIN queue /\ Streams \in Nat
      /\ \A s \in DOMAIN queue : \E K : queue[s] \in Seq(K)
  BY Sizes DEF QueueOK, LaunchAll
<1>2. CASE wide
  <2>1. 1 \in 1..Streams
    <3>1. Neighbours * Len(Fields) > 0
      <4>1. \A a, b \in Nat : a > 0 /\ b > 0 => a * b >= 1 * b
        <5> TAKE a, b \in Nat
        <5>1. a > 0 /\ b > 0 => a >= 1
          OBVIOUS
        <5> QED
          BY <5>1, Products
      <4>2. Neighbours * Len(Fields) >= 1 * Len(Fields)
        BY <4>1, Sizes
      <4> QED
        BY <4>2, Sizes DEF Streams
    <3> QED
      BY <1>1, <3>1 DEF Streams
  <2>2. \A s \in DOMAIN queue : queue'[s] = IF s = 0 THEN queue[0] \o l ELSE queue[s]
    BY <1>2, <2>1 DEF LaunchAll, _get_stream
  <2>3. PICK K : queue[0] \in Seq(K)
    BY <1>1
  <2>4. /\ \E M : queue[0] \o l \in Seq(M)
        /\ Range(queue[0] \o l) = Range(queue[0]) \union Range(l)
    BY <2>3, Behind
  <2>5. LaunchedOn(0, Range(l))
    BY <1>1, <2>2, <2>4 DEF LaunchedOn, Queued
  <2> QED
    BY <1>1, <1>2, <2>5, LaunchKeeps DEF FieldsLaunched
<1>3. CASE ~ wide
  <2>1. ASSUME NEW s \in DOMAIN queue
        PROVE  /\ \E K : queue'[s] \in Seq(K)
               /\ \/ queue'[s] = queue[s]
                  \/ \E k \in 1..Streams :
                       s = o.streams[k] /\ Range(queue'[s]) = Queued(s) \union {l[k]}
    <3>1. CASE \A k \in 1..Streams : o.streams[k] # s
      <4>1. queue'[s] = queue[s]
        BY <1>3, <3>1 DEF LaunchAll, _get_stream
      <4> QED
        BY <1>1, <4>1
    <3>2. CASE \E k \in 1..Streams : o.streams[k] = s
      <4>1. PICK k : k = CHOOSE j \in 1..Streams : o.streams[j] = s
        OBVIOUS
      <4>2. k \in 1..Streams /\ o.streams[k] = s
        BY <3>2, <4>1
      <4>3. queue'[s] = queue[s] \o <<l[k]>>
        BY <1>3, <3>2, <4>1 DEF LaunchAll, _get_stream
      <4>4. PICK K : queue[s] \in Seq(K)
        BY <1>1
      <4>5. <<l[k]>> \in Seq({l[k]}) /\ Range(<<l[k]>>) = {l[k]}
        <5>1. PICK x : x = l[k]
          OBVIOUS
        <5>2. <<x>> \in Seq({x}) /\ DOMAIN <<x>> = {1} /\ <<x>>[1] = x
          OBVIOUS
        <5>3. Range(<<x>>) = {x}
          BY <5>2 DEF Range
        <5> QED
          BY <5>1, <5>2, <5>3
      <4>6. /\ \E M : queue[s] \o <<l[k]>> \in Seq(M)
            /\ Range(queue[s] \o <<l[k]>>) = Range(queue[s]) \union Range(<<l[k]>>)
        BY <4>4, <4>5, Behind
      <4> QED
        BY <4>2, <4>3, <4>5, <4>6 DEF Queued
    <3> QED
      BY <3>1, <3>2
  <2>2. QueueOK'
    BY <1>1, <2>1, QueueStays
  <2> QED
    BY <1>1, <1>3, <2>1, <2>2 DEF FieldsLaunched
<1> QED
  BY <1>2, <1>3

\* The first kernel of a stream is taken off.
LEMMA RunTakes ==
  ASSUME QueueOK, NEW s \in DOMAIN queue, queue[s] # <<>>,
         queue' = [queue EXCEPT ![s] = Tail(@)]
  PROVE  /\ QueueOK' /\ DOMAIN queue' = DOMAIN queue
         /\ \A t \in DOMAIN queue : Range(queue'[t]) \subseteq Queued(t)
<1>1. PICK K : queue[s] \in Seq(K)
  BY DEF QueueOK
<1>2. DOMAIN queue' = DOMAIN queue /\ queue'[s] = Tail(queue[s])
      /\ \A t \in DOMAIN queue : t # s => queue'[t] = queue[t]
  OBVIOUS
<1>3. Tail(queue[s]) \in Seq(K) /\ Range(Tail(queue[s])) \subseteq Range(queue[s])
  <2>1. PICK q \in Seq(K) : q = queue[s] /\ q # <<>>
    BY <1>1
  <2>2. Tail(q) \in Seq(K) /\ \A i \in DOMAIN Tail(q) : i + 1 \in DOMAIN q /\ Tail(q)[i] = q[i + 1]
    BY <2>1
  <2>3. Range(Tail(q)) \subseteq Range(q)
    BY <2>2 DEF Range
  <2> QED
    BY <2>1, <2>2, <2>3
<1>4. \A t \in DOMAIN queue : \E M : queue'[t] \in Seq(M)
  BY <1>2, <1>3 DEF QueueOK
<1>5. QueueOK'
  BY <1>2, <1>4, QueueStays
<1> QED
  BY <1>2, <1>3, <1>5 DEF Queued

\* An empty queue, and the kernels of one that is not.
LEMMA EmptyQueue ==
  ASSUME QueueOK, NEW s \in DOMAIN queue
  PROVE  /\ queue[s] = <<>> <=> Queued(s) = {}
         /\ queue[s] # <<>> => Head(queue[s]) \in Queued(s)
<1>1. PICK K : queue[s] \in Seq(K)
  BY DEF QueueOK
<1>2. PICK q \in Seq(K) : q = queue[s]
  BY <1>1
<1>3. q = <<>> => Range(q) = {}
  <2>1. DOMAIN <<>> = {}
    OBVIOUS
  <2> QED
    BY <2>1 DEF Range
<1>4. q # <<>> => 1 \in DOMAIN q /\ Head(q) = q[1]
  OBVIOUS
<1> QED
  BY <1>2, <1>3, <1>4 DEF Queued, Range

LEMMA DeviceIdle ==
  ASSUME QueueOK, device_idle
  PROVE  \A s \in DOMAIN queue : Queued(s) = {}
BY EmptyQueue DEF device_idle

-----------------------------------------------------------------------------
(* Lists of buffers and streams.                                           *)

(***************************************************************************)
(* The lists of two holders g and h change: what they have is what they    *)
(* had, and what is new in A2.                                             *)
(***************************************************************************)
LEMMA Moves ==
  ASSUME NEW H, NEW L, NEW L2, NEW A, NEW A2, NEW g \in H, NEW h \in H,
         Apart(H, L, A), g # h, A \subseteq A2,
         \A x \in H : x # g /\ x # h => L2[x] = L[x],
         IsInjective(L2[g]), IsInjective(L2[h]),
         Range(L2[g]) \intersect Range(L2[h]) = {},
         Range(L2[g]) \subseteq Range(L[g]) \union Range(L[h]) \union (A2 \ A),
         Range(L2[h]) \subseteq Range(L[g]) \union Range(L[h]) \union (A2 \ A)
  PROVE  Apart(H, L2, A2)
<1>1. \A x \in H : IsInjective(L2[x]) /\ Range(L2[x]) \subseteq A2
  <2> TAKE x \in H
  <2>1. CASE x = g
    BY <2>1 DEF Apart
  <2>2. CASE x = h
    BY <2>2 DEF Apart
  <2>3. CASE x # g /\ x # h
    BY <2>3 DEF Apart
  <2> QED
    BY <2>1, <2>2, <2>3
<1>2. ASSUME NEW x \in H, NEW y \in {g, h}, x # g, x # h
      PROVE  Range(L2[x]) \intersect Range(L2[y]) = {}
  <2>1. L2[x] = L[x] /\ Range(L[x]) \subseteq A
    BY <1>2 DEF Apart
  <2>2. Range(L[x]) \intersect (Range(L[g]) \union Range(L[h])) = {}
    BY <1>2 DEF Apart
  <2> QED
    BY <1>2, <2>1, <2>2
<1>3. \A x, y \in H : x # y => Range(L2[x]) \intersect Range(L2[y]) = {}
  <2> TAKE x, y \in H
  <2> HAVE x # y
  <2>1. CASE x \in {g, h} /\ y \in {g, h}
    BY <2>1
  <2>2. CASE x \notin {g, h} /\ y \in {g, h}
    BY <1>2, <2>2
  <2>3. CASE y \notin {g, h} /\ x \in {g, h}
    <3>1. Range(L2[y]) \intersect Range(L2[x]) = {}
      BY <1>2, <2>3
    <3> QED
      BY <3>1
  <2>4. CASE x \notin {g, h} /\ y \notin {g, h}
    BY <2>4 DEF Apart
  <2> QED
    BY <2>1, <2>2, <2>3, <2>4
<1> QED
  BY <1>1, <1>3 DEF Apart

\* Nothing is lost when the two holders keep what they had and get what is new.
LEMMA NothingLost ==
  ASSUME NEW H, NEW L, NEW L2, NEW A, NEW A2, NEW g \in H, NEW h \in H,
         Complete(H, L, A),
         \A x \in H : x # g /\ x # h => L2[x] = L[x],
         Range(L[g]) \union Range(L[h]) \union (A2 \ A) \subseteq Range(L2[g]) \union Range(L2[h])
  PROVE  Complete(H, L2, A2)
<1> SUFFICES ASSUME NEW x \in A2, x \notin Range(L2[g]), x \notin Range(L2[h])
             PROVE  \E y \in H : x \in Range(L2[y])
  BY DEF Complete
<1>1. x \in A /\ x \notin Range(L[g]) /\ x \notin Range(L[h])
  OBVIOUS
<1>2. PICK y \in H : x \in Range(L[y])
  BY <1>1 DEF Complete
<1> QED
  BY <1>1, <1>2

\* f is the last count entries of the list s in reverse, with short fresh ones after l when
\* they are missing, and c is what is left of s.
IsPopped(s, count, l, short, f, c) ==
  /\ s \in Seq(Nat) /\ count \in Nat /\ l \in Nat
  /\ short = IF count <= Len(s) THEN 0 ELSE count - Len(s)
  /\ f = [k \in 1..count |-> IF k <= Len(s) THEN s[Len(s) + 1 - k] ELSE l + k - Len(s)]
  /\ c = SubSeq(s, 1, Len(s) + short - count)

LEMMA Popped ==
  ASSUME NEW s, NEW count, NEW l, NEW short, NEW f, NEW c, IsPopped(s, count, l, short, f, c)
  PROVE  /\ short \in Nat /\ l + short \in Nat
         /\ f \in Seq(Nat) /\ Len(f) = count
         /\ c \in Seq(Nat) /\ Len(c) = Len(s) + short - count
         /\ IsInjective(s) /\ Range(s) \subseteq 1..l
            => Takes(count, Len(s), l, short, s, f, c)
<1> DEFINE k == Len(s)
<1>0. /\ s \in Seq(Nat) /\ count \in Nat /\ l \in Nat
      /\ k \in Nat /\ DOMAIN s = 1..k /\ \A i \in 1..k : s[i] \in Nat
  BY DEF IsPopped
<1>1. c = SubSeq(s, 1, k + short - count)
  BY DEF IsPopped
<1>2. short = IF count <= k THEN 0 ELSE count - k
  BY DEF IsPopped
<1>3. f = [i \in 1..count |-> IF i <= k THEN s[k + 1 - i] ELSE l + i - k]
  BY DEF IsPopped
<1> HIDE DEF k
<1>4. /\ short \in Nat /\ l + short \in Nat
      /\ count <= k => short = 0
      /\ count > k => short = count - k
  BY <1>0, <1>2
<1>5. /\ DOMAIN f = 1..count
      /\ \A i \in 1..count : i <= k => f[i] = s[k + 1 - i]
      /\ \A i \in 1..count : i > k => f[i] = l + i - k
  BY <1>0, <1>3
<1>6. k + short - count \in 0..k
  BY <1>0, <1>4
<1>7. /\ c \in Seq(Nat) /\ Len(c) = k + short - count
      /\ DOMAIN c = 1..(k + short - count)
      /\ \A i \in 1..(k + short - count) : c[i] = s[i]
  BY <1>0, <1>1, <1>6 DEF k
<1>8. f \in Seq(Nat) /\ Len(f) = count
  <2>1. ASSUME NEW i \in 1..count PROVE f[i] \in Nat
    <3>1. CASE i <= k
      <4>1. k + 1 - i \in 1..k
        BY <3>1, <1>0
      <4> QED
        BY <4>1, <3>1, <1>0, <1>5
    <3>2. CASE i > k
      BY <3>2, <1>0, <1>5
    <3> QED
      BY <3>1, <3>2, <1>0
  <2>2. f \in [1..count -> Nat]
    BY <2>1, <1>3
  <2> QED
    BY <2>2, <1>0
<1>9. IsInjective(s) /\ Range(s) \subseteq 1..l => Takes(count, k, l, short, s, f, c)
  BY <1>0, <1>4, <1>5, <1>7 DEF Takes
<1> QED
  BY <1>4, <1>7, <1>8, <1>9 DEF k

\* The buffers popped, and the cache left.
LEMMA PopFromCache ==
  ASSUME Types, NEW key \in {"halo", "edge"}, NEW count \in Nat
  PROVE  /\ Fresh(key, count) \in Nat /\ buffers + Fresh(key, count) \in Nat
         /\ pop_from_cache(key, count) \in Seq(Nat) /\ Len(pop_from_cache(key, count)) = count
         /\ CacheAfterPop(key, count) \in [halo : Seq(Nat), edge : Seq(Nat)]
         /\ Len(CacheAfterPop(key, count)[key]) = Len(cache[key]) + Fresh(key, count) - count
         /\ \A other \in {"halo", "edge"} :
              other # key => CacheAfterPop(key, count)[other] = cache[other]
         /\ IsInjective(cache[key]) /\ Range(cache[key]) \subseteq 1..buffers
            => Takes(count, Len(cache[key]), buffers, Fresh(key, count), cache[key],
                     pop_from_cache(key, count), CacheAfterPop(key, count)[key])
<1> DEFINE c == SubSeq(cache[key], 1, Len(cache[key]) + Fresh(key, count) - count)
<1>1. /\ cache \in [halo : Seq(Nat), edge : Seq(Nat)] /\ cache[key] \in Seq(Nat)
      /\ buffers \in Nat
  BY DEF Types
<1>2. CacheAfterPop(key, count) = [cache EXCEPT ![key] = c]
  BY DEF CacheAfterPop
<1>3. /\ Fresh(key, count) \in Nat /\ buffers + Fresh(key, count) \in Nat
      /\ pop_from_cache(key, count) \in Seq(Nat) /\ Len(pop_from_cache(key, count)) = count
      /\ c \in Seq(Nat) /\ Len(c) = Len(cache[key]) + Fresh(key, count) - count
      /\ IsInjective(cache[key]) /\ Range(cache[key]) \subseteq 1..buffers
         => Takes(count, Len(cache[key]), buffers, Fresh(key, count), cache[key],
                  pop_from_cache(key, count), c)
  <2>1. IsPopped(cache[key], count, buffers, Fresh(key, count), pop_from_cache(key, count), c)
    BY <1>1 DEF IsPopped, Fresh, pop_from_cache
  <2> HIDE DEF c
  <2> QED
    BY <2>1, Popped
<1> HIDE DEF c
<1>4. CacheAfterPop(key, count)[key] = c
  BY <1>1, <1>2
<1>5. CacheAfterPop(key, count) \in [halo : Seq(Nat), edge : Seq(Nat)]
  BY <1>1, <1>2, <1>3
<1>6. \A other \in {"halo", "edge"} : other # key => CacheAfterPop(key, count)[other] = cache[other]
  BY <1>1, <1>2
<1> QED
  BY <1>3, <1>4, <1>5, <1>6

\* The streams popped, and the pool left.
LEMMA PopStreams ==
  ASSUME Types, QueueOK, NEW count \in Nat
  PROVE  /\ NewStreams(count) \in Nat
         /\ _pop_stream(count) \in Seq(Nat) /\ Len(_pop_stream(count)) = count
         /\ PoolAfterPop(count) \in Seq(Nat)
         /\ IsInjective(pool) /\ Range(pool) \subseteq 1..NumStreams
            => Takes(count, Len(pool), NumStreams, NewStreams(count), pool,
                     _pop_stream(count), PoolAfterPop(count))
<1>1. pool \in Seq(Nat) /\ NumStreams \in Nat
  BY DEF Types, QueueOK
<1>2. IsPopped(pool, count, NumStreams, NewStreams(count), _pop_stream(count), PoolAfterPop(count))
  BY <1>1 DEF IsPopped, NewStreams, _pop_stream, PoolAfterPop
<1> QED
  BY <1>2, Popped

-----------------------------------------------------------------------------
(* Lists of kernels.                                                       *)

LEMMA KernelList ==
  ASSUME NEW n \in Nat, NEW S, NEW l \in [1..n -> S]
  PROVE  l \in Seq(S) /\ Len(l) = n /\ Range(l) \subseteq S
BY DEF Range

LEMMA OneKernel ==
  ASSUME NEW k
  PROVE  <<k>> \in Seq({k}) /\ Range(<<k>>) = {k}
<1>1. <<k>> \in Seq({k}) /\ DOMAIN <<k>> = {1} /\ <<k>>[1] = k
  OBVIOUS
<1> QED
  BY <1>1 DEF Range

\* Every new buffer is zeroed.
LEMMA ZeroNewList ==
  ASSUME Types, NEW key \in {"halo", "edge"}, NEW count \in Nat
  PROVE  /\ ZeroNew(key, count) \in Seq({zero(b) : b \in NewBuffers(key, count)})
         /\ Range(ZeroNew(key, count)) \subseteq {zero(b) : b \in NewBuffers(key, count)}
<1> DEFINE n == Fresh(key, count)
           Z == {zero(b) : b \in NewBuffers(key, count)}
           l == ZeroNew(key, count)
<1>1. n \in Nat /\ buffers \in Nat
  BY PopFromCache DEF Types
<1>2. NewBuffers(key, count) = (buffers + 1)..(buffers + n)
  BY DEF NewBuffers
<1>3. l = [k \in 1..n |-> zero(buffers + k)]
  BY DEF ZeroNew
<1> HIDE DEF n, l
<1>4. ASSUME NEW k \in 1..n PROVE zero(buffers + k) \in Z
  <2>1. buffers + k \in (buffers + 1)..(buffers + n)
    BY <1>1
  <2> QED
    BY <1>2, <2>1
<1> HIDE DEF Z
<1>5. l \in [1..n -> Z]
  BY <1>3, <1>4
<1>6. l \in Seq(Z) /\ Range(l) \subseteq Z
  BY <1>1, <1>5, KernelList
<1> QED
  BY <1>6 DEF l, Z

\* A list of zeroings and a list of other kernels behind it.
LEMMA ZeroThen ==
  ASSUME Types, NEW key \in {"halo", "edge"}, NEW count \in Nat, NEW L, NEW l \in Seq(L)
  PROVE  /\ \E M : ZeroNew(key, count) \o l \in Seq(M)
         /\ Range(ZeroNew(key, count) \o l)
              \subseteq {zero(b) : b \in NewBuffers(key, count)} \union Range(l)
<1>1. PICK Z : Z = {zero(b) : b \in NewBuffers(key, count)}
  OBVIOUS
<1>2. ZeroNew(key, count) \in Seq(Z) /\ Range(ZeroNew(key, count)) \subseteq Z
  BY <1>1, ZeroNewList
<1>3. /\ \E M : ZeroNew(key, count) \o l \in Seq(M)
      /\ Range(ZeroNew(key, count) \o l) = Range(ZeroNew(key, count)) \union Range(l)
  BY <1>2, Behind
<1> QED
  BY <1>1, <1>2, <1>3

\* New streams are empty, and kernels are launched on the default stream.
LEMMA NewStreamQueues ==
  ASSUME QueueOK, NEW m \in Nat, NEW l, \E L : l \in Seq(L),
         queue' = Over([s \in (NumStreams + 1)..(NumStreams + m) |-> <<>>], Launched(0, l))
  PROVE  /\ QueueOK' /\ NumStreams' = NumStreams + m
         /\ DOMAIN queue \subseteq DOMAIN queue'
         /\ Range(queue'[0]) = Queued(0) \union Range(l)
         /\ \A t \in DOMAIN queue' \ {0} :
              IF t \in DOMAIN queue THEN queue'[t] = queue[t] ELSE queue'[t] = <<>>
<1> DEFINE n == NumStreams
<1>1. n \in Nat /\ DOMAIN queue = 0..n /\ n = Cardinality(DOMAIN queue) - 1
      /\ \A s \in DOMAIN queue : \E K : queue[s] \in Seq(K)
  BY DEF QueueOK, NumStreams
<1>2. PICK L : l \in Seq(L)
  OBVIOUS
<1> DEFINE new == (n + 1)..(n + m)
           old == [queue EXCEPT ![0] = @ \o l]
<1>3. queue' = [x \in new \union DOMAIN old |-> IF x \in new THEN [s \in new |-> <<>>][x] ELSE old[x]]
  BY DEF Over, Launched
<1>4. 0 \in DOMAIN queue /\ DOMAIN queue \intersect new = {} /\ DOMAIN queue \union new = 0..(n + m)
  BY <1>1
<1>5. DOMAIN old = DOMAIN queue /\ old[0] = queue[0] \o l
      /\ \A t \in DOMAIN queue : t # 0 => old[t] = queue[t]
  BY <1>4
<1> HIDE DEF n, new, old
<1>6. /\ DOMAIN queue' = 0..(n + m) /\ queue'[0] = queue[0] \o l
      /\ \A t \in DOMAIN queue' \ {0} :
              IF t \in DOMAIN queue THEN queue'[t] = queue[t] ELSE queue'[t] = <<>>
  BY <1>3, <1>4, <1>5
<1>7. (\E M : queue[0] \o l \in Seq(M)) /\ Range(queue[0] \o l) = Range(queue[0]) \union Range(l)
  BY <1>1, <1>2, <1>4, Behind
<1>8. NumStreams' = n + m
  <2>1. Cardinality(0..(n + m)) = (n + m) - 0 + 1
    BY <1>1, FS_Interval
  <2> QED
    BY <1>1, <1>6, <2>1 DEF NumStreams
<1>9. \A t \in DOMAIN queue' : \E K : queue'[t] \in Seq(K)
  <2> TAKE t \in DOMAIN queue'
  <2>1. CASE t = 0
    BY <2>1, <1>6, <1>7
  <2>2. CASE t # 0 /\ t \in DOMAIN queue
    BY <2>2, <1>1, <1>6
  <2>3. CASE t # 0 /\ t \notin DOMAIN queue
    <3>1. <<>> \in Seq({})
      OBVIOUS
    <3> QED
      BY <2>3, <1>6, <3>1
  <2> QED
    BY <2>1, <2>2, <2>3
<1>10. QueueOK'
  <2>1. NumStreams' \in Nat /\ DOMAIN queue' = 0..NumStreams'
    BY <1>1, <1>6, <1>8
  <2> QED
    BY <1>9, <2>1 DEF QueueOK
<1> QED
  BY <1>4, <1>6, <1>7, <1>8, <1>10 DEF Queued, n

-----------------------------------------------------------------------------
(* Updaters.                                                               *)

\* Odd and even places in the list of buffers of an updater.
LEMMA Places ==
  /\ \A n \in Neighbour : /\ 2 * n - 1 \in 1..(2 * Neighbours) /\ 2 * n \in 1..(2 * Neighbours)
                          /\ (2 * n - 1) % 2 = 1 /\ (2 * n) % 2 # 1
                          /\ ((2 * n - 1) + 1) \div 2 = n /\ (2 * n) \div 2 = n
  /\ \A k \in 1..(2 * Neighbours) :
       IF k % 2 = 1 THEN (k + 1) \div 2 \in Neighbour /\ 2 * ((k + 1) \div 2) - 1 = k
                    ELSE k \div 2 \in Neighbour /\ 2 * (k \div 2) = k
<1>1. Neighbours \in Nat /\ Neighbour = 1..Neighbours
  BY Sizes DEF Neighbour
<1> QED
  BY <1>1, Z3

LEMMA HeldList ==
  ASSUME NEW o \in Updaters, ObjectOK(o), o.st # "none"
  PROVE  /\ Held(o) \in Seq(Nat) /\ Len(Held(o)) = 2 * Neighbours
         /\ \A n \in Neighbour : /\ 2 * n - 1 \in DOMAIN Held(o) /\ Held(o)[2 * n - 1] = o.pack[n]
                                 /\ 2 * n \in DOMAIN Held(o) /\ Held(o)[2 * n] = o.unpack[n]
<1>1. /\ o.pack \in Seq(Nat) /\ o.unpack \in Seq(Nat)
      /\ \A n \in Neighbour : o.pack[n] \in Nat /\ o.unpack[n] \in Nat
  BY DEF Updaters, ObjectOK, Neighbour
<1>2. Held(o) = [k \in 1..(2 * Neighbours) |->
                   IF k % 2 = 1 THEN o.pack[(k + 1) \div 2] ELSE o.unpack[k \div 2]]
  BY DEF Held
<1>3. \A k \in 1..(2 * Neighbours) :
         (IF k % 2 = 1 THEN o.pack[(k + 1) \div 2] ELSE o.unpack[k \div 2]) \in Nat
  BY <1>1, Places
<1>4. Held(o) \in [1..(2 * Neighbours) -> Nat]
  BY <1>2, <1>3
<1>5. 2 * Neighbours \in Nat
  BY Sizes
<1>6. Held(o) \in Seq(Nat) /\ Len(Held(o)) = 2 * Neighbours
  BY <1>4, <1>5, KernelList
<1>7. ASSUME NEW n \in Neighbour
      PROVE  /\ 2 * n - 1 \in DOMAIN Held(o) /\ Held(o)[2 * n - 1] = o.pack[n]
             /\ 2 * n \in DOMAIN Held(o) /\ Held(o)[2 * n] = o.unpack[n]
  <2>1. PICK a, b : a = 2 * n - 1 /\ b = 2 * n
    OBVIOUS
  <2>2. /\ a \in 1..(2 * Neighbours) /\ a % 2 = 1 /\ (a + 1) \div 2 = n
        /\ b \in 1..(2 * Neighbours) /\ b % 2 # 1 /\ b \div 2 = n
    BY <2>1, Places
  <2>3. /\ a \in DOMAIN Held(o) /\ Held(o)[a] = o.pack[n]
        /\ b \in DOMAIN Held(o) /\ Held(o)[b] = o.unpack[n]
    BY <1>2, <2>2
  <2> QED
    BY <2>1, <2>3
<1> QED
  BY <1>6, <1>7

\* A new updater.
LEMMA NewUpdater ==
  ASSUME Types, QueueOK, NEW once \in BOOLEAN
  PROVE  /\ Updater(once) \in Updaters /\ ObjectOK(Updater(once))
         /\ Updater(once).st = "idle"
         /\ Updater(once).streams = _pop_stream(Streams)
         /\ Held(Updater(once)) = pop_from_cache("halo", 2 * Neighbours)
<1> DEFINE b == pop_from_cache("halo", 2 * Neighbours)
           p == [n \in Neighbour |-> b[2 * n - 1]]
           q == [n \in Neighbour |-> b[2 * n]]
           s == _pop_stream(Streams)
<1>1. Updater(once) = [st |-> "idle", once |-> once, exch |-> 0, pack |-> p, unpack |-> q,
                       streams |-> s]
  BY DEF Updater, Streams
<1>2. /\ 2 * Neighbours \in Nat /\ Streams \in Nat /\ Neighbours \in Nat
      /\ Neighbour = 1..Neighbours
  BY Sizes DEF Neighbour
<1>3. b \in Seq(Nat) /\ Len(b) = 2 * Neighbours
  BY <1>2, PopFromCache
<1>4. s \in Seq(Nat) /\ Len(s) = Streams
  BY <1>2, PopStreams
<1> HIDE DEF b, s
<1>5. \A k \in 1..(2 * Neighbours) : b[k] \in Nat
  BY <1>2, <1>3
<1>6. p \in [Neighbour -> Nat] /\ q \in [Neighbour -> Nat]
  BY <1>5, Places
<1>7. \A k \in 1..(2 * Neighbours) :
         b[k] = IF k % 2 = 1 THEN p[(k + 1) \div 2] ELSE q[k \div 2]
  BY Places
<1> HIDE DEF p, q
<1>8. /\ p \in Seq(Nat) /\ Len(p) = Neighbours
      /\ q \in Seq(Nat) /\ Len(q) = Neighbours
  BY <1>2, <1>6, KernelList
<1>9. b = [k \in 1..(2 * Neighbours) |-> IF k % 2 = 1 THEN p[(k + 1) \div 2] ELSE q[k \div 2]]
  <2>1. b = [k \in 1..(2 * Neighbours) |-> b[k]]
    BY <1>3
  <2> QED
    BY <1>7, <2>1
<1>10. Held(Updater(once)) = b
  BY <1>1, <1>9 DEF Held
<1>11. Updater(once) \in Updaters /\ ObjectOK(Updater(once))
  BY <1>1, <1>4, <1>8 DEF Updaters, ObjectOK
<1> QED
  BY <1>1, <1>10, <1>11 DEF b, s

LEMMA NoUpdaterFacts ==
  NoUpdater \in Updaters /\ ObjectOK(NoUpdater) /\ NoUpdater.streams = <<>>
  /\ NoUpdater.st = "none" /\ Held(NoUpdater) = <<>> /\ Range(<<>>) = {} /\ IsInjective(<<>>)
<1>1. <<>> \in Seq(Nat) /\ DOMAIN <<>> = {}
  OBVIOUS
<1> QED
  BY <1>1 DEF NoUpdater, Updaters, ObjectOK, Held, Range, IsInjective

-----------------------------------------------------------------------------
(* Every step keeps the streams.                                           *)

\* The pool and the streams of the updaters stay.
LEMMA SameStreams ==
  ASSUME StreamsInv, Types', QueueOK', HostOK', DOMAIN queue' = DOMAIN queue, pool' = pool,
         \A u \in Name : obj'[u].streams = obj[u].streams /\ ObjectOK(obj'[u])
  PROVE  StreamsInv'
<1>1. NumStreams' = NumStreams
  BY DEF NumStreams
<1>2. StreamLists' = StreamLists
  BY Sizes DEF StreamLists, StreamHolders
<1>3. StreamsApart'
  BY <1>1, <1>2 DEF StreamsInv, StreamsApart, StreamHolders, Apart, Complete
<1> QED
  BY <1>3 DEF StreamsInv

\* An updater takes its streams from the pool and creates those that are missing.
LEMMA TakeStreams ==
  ASSUME StreamsInv, NEW u \in Name, obj[u].st = "none",
         NEW count \in Nat, NEW o, obj' = [obj EXCEPT ![u] = o],
         o.streams = _pop_stream(count), pool' = PoolAfterPop(count),
         NumStreams' = NumStreams + NewStreams(count)
  PROVE  StreamsApart'
<1> DEFINE L == StreamLists
           L2 == StreamLists'
           A == 1..NumStreams
           A2 == 1..(NumStreams + NewStreams(count))
<1>1. /\ Types /\ QueueOK /\ StreamsApart /\ ObjectOK(obj[u]) /\ 0 \notin Name
      /\ obj \in [Name -> Updaters] /\ NumStreams \in Nat
  BY Sizes DEF StreamsInv, Types, QueueOK
<1>2. /\ L[0] = pool /\ L[u] = obj[u].streams /\ 0 \in StreamHolders /\ u \in StreamHolders
      /\ L2[0] = pool' /\ L2[u] = obj'[u].streams
      /\ \A x \in StreamHolders : x # 0 /\ x # u => L2[x] = L[x]
  BY <1>1 DEF StreamLists, StreamHolders
<1>3. Range(L[u]) = {}
  BY <1>1, <1>2, NoUpdaterFacts DEF ObjectOK
<1>4. obj'[u].streams = _pop_stream(count)
  BY <1>1
<1>5. IsInjective(pool) /\ Range(pool) \subseteq A
  BY <1>1, <1>2 DEF StreamsApart, Apart
<1>6. /\ Takes(count, Len(pool), NumStreams, NewStreams(count), pool, L2[u], L2[0])
      /\ NewStreams(count) \in Nat
  BY <1>1, <1>2, <1>4, <1>5, PopStreams
<1> HIDE DEF L, L2
<1>7. /\ IsInjective(L2[u]) /\ IsInjective(L2[0]) /\ Range(L2[u]) \intersect Range(L2[0]) = {}
      /\ Range(L2[u]) \subseteq A2 /\ Range(L2[u]) \intersect A \subseteq Range(L[0])
      /\ Range(L2[0]) \subseteq Range(L[0]) /\ Range(L[0]) \subseteq Range(L2[0]) \union Range(L2[u])
      /\ A2 \subseteq A \union Range(L2[u])
  BY <1>2, <1>6, TakeLast
<1>8. A \subseteq A2
  BY <1>1, <1>6
<1> HIDE DEF A, A2
<1>9. Apart(StreamHolders, L, A) /\ Complete(StreamHolders, L, A) /\ 0 # u
  BY <1>1 DEF StreamsApart, L, A
<1>10. Apart(StreamHolders, L2, A2)
  <2>1. /\ Range(L2[0]) \subseteq Range(L[0]) \union Range(L[u]) \union (A2 \ A)
        /\ Range(L2[u]) \subseteq Range(L[0]) \union Range(L[u]) \union (A2 \ A)
        /\ Range(L2[0]) \intersect Range(L2[u]) = {}
    BY <1>7
  <2> QED
    BY <1>2, <1>7, <1>8, <1>9, <2>1, Moves
<1>11. Complete(StreamHolders, L2, A2)
  <2>1. Range(L[0]) \union Range(L[u]) \union (A2 \ A) \subseteq Range(L2[0]) \union Range(L2[u])
    BY <1>3, <1>7
  <2> QED
    BY <1>2, <1>9, <2>1, NothingLost
<1>12. StreamHolders' = StreamHolders /\ (1..NumStreams)' = A2
  BY DEF StreamHolders, A2
<1> QED
  BY <1>10, <1>11, <1>12 DEF StreamsApart, L2, Apart, Complete

\* An updater gives its streams back to the pool.
LEMMA GiveStreams ==
  ASSUME StreamsInv, NEW u \in Name, obj' = [obj EXCEPT ![u] = NoUpdater],
         pool' = _push_stream(obj[u].streams), NumStreams' = NumStreams
  PROVE  StreamsApart' /\ pool' \in Seq(Nat)
<1> DEFINE L == StreamLists
           L2 == StreamLists'
           A == 1..NumStreams
<1>1. /\ StreamsApart /\ 0 \notin Name /\ pool \in Seq(Nat)
      /\ obj \in [Name -> Updaters] /\ obj[u].streams \in Seq(Nat)
  BY Sizes DEF StreamsInv, Types, Updaters
<1>2. /\ L[0] = pool /\ L[u] = obj[u].streams /\ 0 \in StreamHolders /\ u \in StreamHolders
      /\ L2[0] = pool' /\ L2[u] = obj'[u].streams
      /\ \A x \in StreamHolders : x # 0 /\ x # u => L2[x] = L[x]
  BY <1>1 DEF StreamLists, StreamHolders
<1>3. obj'[u].streams = <<>>
  BY <1>1, NoUpdaterFacts
<1>4. IsInjective(L[0]) /\ IsInjective(L[u]) /\ Range(L[0]) \intersect Range(L[u]) = {}
  BY <1>1, <1>2 DEF StreamsApart, Apart
<1>5. L2[0] = L[0] \o L[u]
  BY <1>2 DEF _push_stream
<1> HIDE DEF L, L2
<1>6. /\ L2[0] \in Seq(Nat) /\ Range(L2[0]) = Range(L[0]) \union Range(L[u])
      /\ IsInjective(L2[0])
  BY <1>1, <1>2, <1>4, <1>5, AppendList
<1>7. Range(L2[u]) = {} /\ IsInjective(L2[u])
  BY <1>2, <1>3, NoUpdaterFacts
<1> HIDE DEF A
<1>8. Apart(StreamHolders, L, A) /\ Complete(StreamHolders, L, A) /\ 0 # u
  BY <1>1 DEF StreamsApart, L, A
<1>9. Apart(StreamHolders, L2, A)
  <2>1. /\ Range(L2[0]) \subseteq Range(L[0]) \union Range(L[u]) \union (A \ A)
        /\ Range(L2[u]) \subseteq Range(L[0]) \union Range(L[u]) \union (A \ A)
        /\ Range(L2[0]) \intersect Range(L2[u]) = {}
    BY <1>6, <1>7
  <2> QED
    BY <1>2, <1>6, <1>7, <1>8, <2>1, Moves
<1>10. Complete(StreamHolders, L2, A)
  <2>1. Range(L[0]) \union Range(L[u]) \union (A \ A) \subseteq Range(L2[0]) \union Range(L2[u])
    BY <1>6
  <2> QED
    BY <1>2, <1>8, <2>1, NothingLost
<1>11. StreamHolders' = StreamHolders /\ (1..NumStreams)' = A
  BY DEF StreamHolders, A
<1> QED
  BY <1>2, <1>6, <1>9, <1>10, <1>11 DEF StreamsApart, L2, Apart, Complete

\* An updater keeps its lists.
ListsKept(u) ==
  /\ obj'[u].pack = obj[u].pack /\ obj'[u].unpack = obj[u].unpack
  /\ obj'[u].streams = obj[u].streams
  /\ ObjectOK(obj'[u]) /\ Held(obj'[u]) = Held(obj[u])

\* One updater changes its state, and nothing else of the updaters does.
LEMMA SameLists ==
  ASSUME StreamsInv, NEW u \in Name, obj[u].st # "none", NEW o \in Updaters, o.st # "none",
         o.pack = obj[u].pack, o.unpack = obj[u].unpack, o.streams = obj[u].streams,
         obj' = [obj EXCEPT ![u] = o]
  PROVE  /\ obj' \in [Name -> Updaters] /\ obj'[u] = o
         /\ \A v \in Name : ListsKept(v) /\ (v # u => obj'[v] = obj[v])
<1>1. obj \in [Name -> Updaters] /\ \A v \in Name : ObjectOK(obj[v])
  BY DEF StreamsInv, Types
<1>2. obj' \in [Name -> Updaters] /\ obj'[u] = o /\ \A v \in Name : v # u => obj'[v] = obj[v]
  BY <1>1
<1>3. ObjectOK(o) /\ Held(o) = Held(obj[u])
  BY <1>1 DEF ObjectOK, Held
<1> QED
  BY <1>1, <1>2, <1>3 DEF ListsKept

\* Steps that leave the host and the updaters alone.
LEMMA SameHost ==
  ASSUME StreamsInv, Types', QueueOK', DOMAIN queue' = DOMAIN queue,
         UNCHANGED <<pool, obj, host>>
  PROVE  StreamsInv'
<1>1. HostOK'
  BY DEF StreamsInv, HostOK, At, Ready
<1>2. \A u \in Name : obj'[u].streams = obj[u].streams /\ ObjectOK(obj'[u])
  BY DEF StreamsInv
<1> QED
  BY <1>1, <1>2, SameStreams

LEMMA RunStreams ==
  ASSUME StreamsInv, NEW s \in DOMAIN queue, Run(s)
  PROVE  StreamsInv'
<1>1. queue[s] # <<>> /\ queue' = [queue EXCEPT ![s] = Tail(@)] /\ QueueOK
  BY DEF Run, StreamsInv
<1>2. QueueOK' /\ DOMAIN queue' = DOMAIN queue
  BY <1>1, RunTakes
<1>3. Types' /\ UNCHANGED <<pool, obj, host>>
  BY DEF Run, StreamsInv, Types, hostVars
<1> QED
  BY <1>2, <1>3, SameHost

\* MPI, and calls that launch nothing, leave the queues as they are.
LEMMA SameQueue ==
  ASSUME StreamsInv, queue' = queue
  PROVE  QueueOK' /\ DOMAIN queue' = DOMAIN queue
BY DEF StreamsInv, QueueOK, NumStreams

LEMMA MpiStreams ==
  ASSUME StreamsInv, MpiStep
  PROVE  StreamsInv'
<1>1. UNCHANGED <<wide, hostVars, queue>>
  BY DEF MpiStep, MpiRead, MpiWrite
<1>2. Types' /\ UNCHANGED <<pool, obj, host>>
  BY <1>1 DEF StreamsInv, Types, hostVars
<1> QED
  BY <1>1, <1>2, SameQueue, SameHost

LEMMA ComputeStreams ==
  ASSUME StreamsInv, NEW q \in Quantity, Compute(q)
  PROVE  StreamsInv'
<1>1. PICK k : queue' = Launched(0, <<k>>)
  BY DEF Compute
<1>2. QueueOK' /\ DOMAIN queue' = DOMAIN queue
  BY <1>1, OneKernel, LaunchDefault DEF StreamsInv, LaunchedOn
<1>3. Types' /\ UNCHANGED <<pool, obj, host>>
  BY DEF Compute, Call, StreamsInv, Types
<1> QED
  BY <1>2, <1>3, SameHost

\* The host goes on and its call does not touch the pool.
LEMMA BeginStreams ==
  ASSUME StreamsInv, NEW u \in Name, BeginStart(u) \/ BeginWait(u)
  PROVE  StreamsInv'
<1>1. Types' /\ UNCHANGED <<pool, obj, queue>>
  BY DEF BeginStart, BeginWait, Call, StreamsInv, Types
<1>2. \/ host' = At("start", u, 0) /\ obj'[u].st = "idle"
      \/ host' = At("wait", u, 0) /\ obj'[u].st = "inflight"
  BY <1>1 DEF BeginStart, BeginWait
<1>3. HostOK'
  BY <1>2 DEF HostOK, At
<1>4. \A v \in Name : obj'[v].streams = obj[v].streams /\ ObjectOK(obj'[v])
  BY <1>1 DEF StreamsInv
<1> QED
  BY <1>1, <1>3, <1>4, SameQueue, SameStreams

LEMMA IsendStreams ==
  ASSUME StreamsInv, NEW u \in Name, Isend(u)
  PROVE  StreamsInv'
<1>1. Types' /\ UNCHANGED <<pool, obj, queue>>
  BY DEF Isend, StreamsInv, Types
<1>2. PICK n \in Neighbour : /\ host = At("isend", u, n)
                             /\ host' = IF n < Neighbours THEN At("isend", u, n + 1) ELSE Ready
  BY DEF Isend
<1>3. obj[u].st = "inflight"
  BY <1>2 DEF StreamsInv, HostOK, At, Ready
<1>4. n < Neighbours => n + 1 \in Neighbour
  BY Sizes DEF Neighbour
<1>5. HostOK'
  BY <1>1, <1>2, <1>3, <1>4 DEF HostOK, At, Ready
<1>6. \A v \in Name : obj'[v].streams = obj[v].streams /\ ObjectOK(obj'[v])
  BY <1>1 DEF StreamsInv
<1> QED
  BY <1>1, <1>5, <1>6, SameQueue, SameStreams

\* The host works for an updater that holds its lists.
LEMMA HostUpdater ==
  ASSUME StreamsInv, NEW u \in Name, NEW place, NEW k, host = At(place, u, k),
         place \in {"start", "isend", "wait", "unpack"}
  PROVE  /\ obj[u].st = IF place = "start" THEN "idle" ELSE "inflight"
         /\ obj[u] \in Updaters /\ ObjectOK(obj[u]) /\ DOMAIN obj[u].streams = 1..Streams
         /\ 0 \notin Range(obj[u].streams)
<1>1. obj[u].st = IF place = "start" THEN "idle" ELSE "inflight"
  BY DEF StreamsInv, HostOK, At, Ready
<1>2. obj[u] \in Updaters /\ ObjectOK(obj[u])
  BY DEF StreamsInv, Types
<1>3. DOMAIN obj[u].streams = 1..Streams
  BY <1>1, <1>2, Sizes DEF ObjectOK, Updaters
<1>4. 0 \notin Range(obj[u].streams)
  <2>1. Range(StreamLists[u]) \subseteq 1..NumStreams /\ StreamLists[u] = obj[u].streams
        /\ NumStreams \in Nat
    BY Sizes DEF StreamsInv, StreamsApart, Apart, StreamHolders, StreamLists, QueueOK
  <2> QED
    BY <2>1
<1> QED
  BY <1>1, <1>2, <1>3, <1>4

\* One kernel for each stream of an updater.
LEMMA FieldKernels ==
  ASSUME StreamsInv, NEW o, DOMAIN o.streams = 1..Streams, 0 \notin Range(o.streams),
         NEW S, NEW l \in [1..Streams -> S], queue' = LaunchAll(o, l)
  PROVE  /\ QueueOK' /\ DOMAIN queue' = DOMAIN queue
         /\ wide => LaunchedOn(0, {l[k] : k \in 1..Streams})
         /\ ~ wide => \A s \in DOMAIN queue :
                        \/ queue'[s] = queue[s]
                        \/ \E k \in 1..Streams :
                             s = o.streams[k] /\ Range(queue'[s]) = Queued(s) \union {l[k]}
<1>2. Streams \in Nat
  BY Sizes
<1>3. l \in Seq(S) /\ Len(l) = Streams /\ Range(l) = {l[k] : k \in 1..Streams}
  <2>1. l \in Seq(S) /\ Len(l) = Streams
    BY <1>2, KernelList
  <2>2. Range(l) = {l[k] : k \in 1..Streams}
    BY DEF Range
  <2> QED
    BY <2>1, <2>2
<1>4. QueueOK /\ wide \in BOOLEAN
  BY DEF StreamsInv, Types
<1>5. QueueOK' /\ FieldsLaunched(o, l)
  BY <1>3, <1>4, LaunchFields
<1> QED
  BY <1>3, <1>4, <1>5 DEF LaunchedOn, FieldsLaunched

LEMMA PackLists ==
  ASSUME StreamsInv, NEW u \in Name, PostAndPack(u)
  PROVE  /\ obj[u].st = "idle" /\ obj'[u].st = "inflight" /\ obj' \in [Name -> Updaters]
         /\ \A v \in Name : ListsKept(v) /\ (v # u => obj'[v] = obj[v])
<1>1. host = At("start", u, 0) /\ obj' = [obj EXCEPT ![u].st = "inflight", ![u].exch = calls]
  BY DEF PostAndPack
<1>2. obj[u].st = "idle" /\ obj[u] \in Updaters /\ calls \in Nat /\ obj \in [Name -> Updaters]
  BY <1>1, HostUpdater DEF StreamsInv, Types
<1> DEFINE o == [obj[u] EXCEPT !.st = "inflight", !.exch = calls]
<1>3. obj' = [obj EXCEPT ![u] = o]
  BY <1>1, <1>2 DEF Updaters
<1>4. /\ o \in Updaters /\ o.st = "inflight" /\ o.pack = obj[u].pack /\ o.unpack = obj[u].unpack
      /\ o.streams = obj[u].streams
  BY <1>2 DEF Updaters
<1> HIDE DEF o
<1> QED
  BY <1>2, <1>3, <1>4, SameLists

LEMMA PackStreams ==
  ASSUME StreamsInv, NEW u \in Name, PostAndPack(u)
  PROVE  StreamsInv'
<1>1. /\ host = At("start", u, 0) /\ host' = At("isend", u, 1)
      /\ UNCHANGED <<wide, calls, edges, pool, cache, buffers>> /\ queue' = async_pack(obj[u])
  BY DEF PostAndPack
<1>2. DOMAIN obj[u].streams = 1..Streams /\ 0 \notin Range(obj[u].streams)
  BY <1>1, HostUpdater
<1>3. QueueOK' /\ DOMAIN queue' = DOMAIN queue
  <2> DEFINE l == [k \in 1..Streams |-> pack(obj[u].pack[NeighbourOf(k)], PartOf(k), NeighbourOf(k))]
  <2>1. queue' = LaunchAll(obj[u], l)
    BY <1>1, <1>2 DEF async_pack
  <2>2. PICK S : l \in [1..Streams -> S]
    <3>1. PICK S : S = {l[k] : k \in 1..Streams}
      OBVIOUS
    <3> QED
      BY <3>1
  <2> HIDE DEF l
  <2> QED
    BY <1>2, <2>1, <2>2, FieldKernels
<1>6. /\ obj' \in [Name -> Updaters] /\ obj'[u].st = "inflight"
      /\ \A v \in Name : obj'[v].streams = obj[v].streams /\ ObjectOK(obj'[v])
  BY PackLists DEF ListsKept
<1>7. HostOK'
  <2>1. 1 \in Neighbour
    BY Sizes DEF Neighbour
  <2> QED
    BY <1>1, <1>6, <2>1 DEF HostOK
<1>8. Types'
  BY <1>1, <1>6 DEF StreamsInv, Types
<1> QED
  BY <1>1, <1>3, <1>6, <1>7, <1>8, SameStreams

LEMMA UnpackStreams ==
  ASSUME StreamsInv, NEW u \in Name, LaunchUnpack(u)
  PROVE  StreamsInv'
<1>1. /\ host = At("wait", u, 0) /\ host' = At("unpack", u, 0) /\ queue' = async_unpack(obj[u])
      /\ UNCHANGED <<wide, calls, obj, edges, pool, cache, buffers>>
  BY DEF LaunchUnpack
<1>2. /\ obj[u].st = "inflight" /\ DOMAIN obj[u].streams = 1..Streams
      /\ 0 \notin Range(obj[u].streams)
  BY <1>1, HostUpdater
<1>3. QueueOK' /\ DOMAIN queue' = DOMAIN queue
  <2> DEFINE l == [k \in 1..Streams |-> unpack(obj[u].unpack[NeighbourOf(k)], PartOf(k), NeighbourOf(k))]
  <2>1. queue' = LaunchAll(obj[u], l)
    BY <1>1, <1>2 DEF async_unpack
  <2>2. PICK S : l \in [1..Streams -> S]
    <3>1. PICK S : S = {l[k] : k \in 1..Streams}
      OBVIOUS
    <3> QED
      BY <3>1
  <2> HIDE DEF l
  <2> QED
    BY <1>2, <2>1, <2>2, FieldKernels
<1>4. HostOK'
  BY <1>1, <1>2 DEF HostOK
<1>5. Types' /\ \A v \in Name : obj'[v].streams = obj[v].streams /\ ObjectOK(obj'[v])
  BY <1>1 DEF StreamsInv, Types
<1> QED
  BY <1>1, <1>3, <1>4, <1>5, SameStreams

\* The buffers and streams of an updater go back.
LEMMA FinalizeStreams ==
  ASSUME StreamsInv, NEW u \in Name, obj[u].st # "none", Finalize(u),
         UNCHANGED <<wide, edges, buffers, queue>>, calls' \in Nat, host' = Ready
  PROVE  StreamsInv'
<1>1. obj' = [obj EXCEPT ![u] = NoUpdater] /\ pool' = _push_stream(obj[u].streams)
  BY DEF Finalize
<1>2. NumStreams' = NumStreams
  BY DEF NumStreams
<1>3. StreamsApart' /\ pool' \in Seq(Nat)
  BY <1>1, <1>2, GiveStreams
<1>4. /\ cache \in [halo : Seq(Nat), edge : Seq(Nat)] /\ obj \in [Name -> Updaters]
      /\ ObjectOK(obj[u]) /\ obj[u] \in Updaters
  BY DEF StreamsInv, Types
<1>5. obj' \in [Name -> Updaters] /\ \A v \in Name : ObjectOK(obj'[v])
  BY <1>1, <1>4, NoUpdaterFacts DEF StreamsInv
<1>6. cache' = [cache EXCEPT !.halo = @ \o Held(obj[u])]
  BY DEF Finalize, Held
<1>7. cache.halo \o Held(obj[u]) \in Seq(Nat)
  BY <1>4, HeldList
<1>8. cache' \in [halo : Seq(Nat), edge : Seq(Nat)]
  BY <1>4, <1>6, <1>7
<1>9. HostOK'
  BY DEF HostOK
<1>10. Types'
  BY <1>3, <1>5, <1>8 DEF StreamsInv, Types
<1> QED
  BY <1>3, <1>5, <1>9, <1>10, SameQueue DEF StreamsInv

LEMMA KeepLists ==
  ASSUME StreamsInv, NEW u \in Name, EndWait(u), ~ obj[u].once
  PROVE  /\ obj[u].st = "inflight" /\ obj'[u].st = "idle" /\ obj' \in [Name -> Updaters]
         /\ \A v \in Name : ListsKept(v) /\ (v # u => obj'[v] = obj[v])
<1>1. host = At("unpack", u, 0) /\ obj' = [obj EXCEPT ![u].st = "idle"]
  BY DEF EndWait, KeepUpdater
<1>2. obj[u].st = "inflight" /\ obj[u] \in Updaters /\ obj \in [Name -> Updaters]
  BY <1>1, HostUpdater DEF StreamsInv, Types
<1> DEFINE o == [obj[u] EXCEPT !.st = "idle"]
<1>3. obj' = [obj EXCEPT ![u] = o]
  BY <1>1
<1>4. /\ o \in Updaters /\ o.st = "idle" /\ o.pack = obj[u].pack /\ o.unpack = obj[u].unpack
      /\ o.streams = obj[u].streams
  BY <1>2 DEF Updaters
<1> HIDE DEF o
<1> QED
  BY <1>2, <1>3, <1>4, SameLists

LEMMA EndStreams ==
  ASSUME StreamsInv, NEW u \in Name, EndWait(u) \/ Drop(u)
  PROVE  StreamsInv'
<1>1. obj[u].st # "none" /\ calls \in Nat
  BY HostUpdater DEF EndWait, Drop, StreamsInv, Types
<1>2. CASE EndWait(u) /\ ~ obj[u].once
  <2>1. host' = Ready /\ UNCHANGED <<wide, calls, edges, pool, cache, buffers, queue>>
    BY <1>2 DEF EndWait, KeepUpdater
  <2>2. /\ obj' \in [Name -> Updaters]
        /\ \A v \in Name : obj'[v].streams = obj[v].streams /\ ObjectOK(obj'[v])
    BY <1>2, KeepLists DEF ListsKept
  <2>3. HostOK' /\ Types'
    BY <2>1, <2>2 DEF HostOK, StreamsInv, Types
  <2> QED
    BY <2>1, <2>2, <2>3, SameQueue, SameStreams
<1>3. CASE (EndWait(u) /\ obj[u].once) \/ Drop(u)
  <2>1. /\ Finalize(u) /\ UNCHANGED <<wide, edges, buffers, queue>> /\ host' = Ready
        /\ calls' \in Nat
    BY <1>1, <1>3 DEF EndWait, Drop, Call
  <2> QED
    BY <1>1, <2>1, FinalizeStreams
<1> QED
  BY <1>2, <1>3

\* Taking count buffers for the edges, and zeroing the new ones.
LEMMA EdgeBuffersTaken ==
  ASSUME StreamsInv, NEW count \in Nat, NEW l, \E L : l \in Seq(L),
         cache' = CacheAfterPop("edge", count), buffers' = buffers + Fresh("edge", count),
         queue' = Launched(0, ZeroNew("edge", count) \o l)
  PROVE  /\ cache' \in [halo : Seq(Nat), edge : Seq(Nat)] /\ buffers' \in Nat
         /\ pop_from_cache("edge", count) \in Seq(Nat)
         /\ Len(pop_from_cache("edge", count)) = count
         /\ QueueOK' /\ DOMAIN queue' = DOMAIN queue
<1>1. Types /\ QueueOK
  BY DEF StreamsInv
<1>2. PICK z : z = ZeroNew("edge", count) \o l
  OBVIOUS
<1>3. \E M : z \in Seq(M)
  BY <1>1, <1>2, ZeroThen
<1>4. PICK M : z \in Seq(M)
  BY <1>3
<1>5. LaunchedOn(0, Range(z)) /\ QueueOK'
  BY <1>1, <1>2, <1>4, LaunchDefault
<1> QED
  BY <1>1, <1>5, PopFromCache DEF LaunchedOn

LEMMA EdgeStreams ==
  ASSUME StreamsInv, StartEdges \/ SendEdge
  PROVE  StreamsInv'
<1>1. calls' \in Nat /\ Types /\ UNCHANGED <<wide, obj, pool>>
  BY DEF StartEdges, SendEdge, Call, StreamsInv, Types
<1>2. CopyEdge => Types' /\ QueueOK' /\ DOMAIN queue' = DOMAIN queue
  <2> HAVE CopyEdge
  <2>1. PICK b : b = pop_from_cache("edge", 1)[1]
    OBVIOUS
  <2>2. /\ cache' = CacheAfterPop("edge", 1) /\ buffers' = buffers + Fresh("edge", 1)
        /\ queue' = Launched(0, ZeroNew("edge", 1) \o <<copy_in(b)>>)
        /\ edges' = [edges EXCEPT !.exch = calls', !.sent = Append(edges.sent, b)]
    BY <2>1 DEF CopyEdge
  <2>3. \E L : <<copy_in(b)>> \in Seq(L)
    BY OneKernel
  <2>4. /\ cache' \in [halo : Seq(Nat), edge : Seq(Nat)] /\ buffers' \in Nat
        /\ pop_from_cache("edge", 1) \in Seq(Nat)
        /\ Len(pop_from_cache("edge", 1)) = 1
        /\ QueueOK' /\ DOMAIN queue' = DOMAIN queue
    BY <2>2, <2>3, EdgeBuffersTaken
  <2>5. b \in Nat
    BY <2>1, <2>4
  <2>6. edges.sent \in Seq(Nat) /\ edges \in [exch : Nat, sent : Seq(Nat), received : Seq(Nat)]
    BY <1>1 DEF Types
  <2>7. PICK s \in Seq(Nat) : s = Append(edges.sent, b)
    <3>1. \A s \in Seq(Nat), n \in Nat : Append(s, n) \in Seq(Nat)
      OBVIOUS
    <3> QED
      BY <2>5, <2>6, <3>1
  <2>8. edges' = [edges EXCEPT !.exch = calls', !.sent = s]
    BY <2>2, <2>7
  <2>9. edges' \in [exch : Nat, sent : Seq(Nat), received : Seq(Nat)]
    BY <1>1, <2>6, <2>7, <2>8
  <2> QED
    BY <1>1, <2>4, <2>9 DEF Types
<1>3. UNCHANGED <<calls, cache, buffers, mem, queue, edges>>
      => Types' /\ QueueOK' /\ DOMAIN queue' = DOMAIN queue
  BY <1>1, SameQueue DEF Types
<1>4. Types' /\ QueueOK' /\ DOMAIN queue' = DOMAIN queue
  <2>1. CopyEdge \/ UNCHANGED <<calls, cache, buffers, mem, queue, edges>>
    BY DEF StartEdges, SendEdge
  <2> QED
    BY <1>2, <1>3, <2>1
<1>5. HostOK'
  <2>1. 1 \in 1..(Neighbours + 1) /\ \A n \in Neighbour : n + 1 \in 1..(Neighbours + 1)
    BY Sizes DEF Neighbour
  <2>2. CASE StartEdges
    BY <2>1, <2>2 DEF StartEdges, Call, HostOK
  <2>3. CASE SendEdge
    <3>1. PICK n \in Neighbour : host = At("edges", 0, n) /\ host' = At("edges", 0, n + 1)
      BY <2>3 DEF SendEdge
    <3>2. "edges" \in Calls
      BY <3>1 DEF StreamsInv, HostOK, At, Ready
    <3> QED
      BY <2>1, <3>1, <3>2 DEF HostOK
  <2> QED
    BY <2>2, <2>3
<1>6. \A u \in Name : obj'[u].streams = obj[u].streams /\ ObjectOK(obj'[u])
  BY <1>1 DEF StreamsInv
<1> QED
  BY <1>1, <1>4, <1>5, <1>6, SameStreams

LEMMA RecvEdgesStreams ==
  ASSUME StreamsInv, RecvEdges
  PROVE  StreamsInv'
<1>1. /\ cache' = CacheAfterPop("edge", Neighbours)
      /\ buffers' = buffers + Fresh("edge", Neighbours)
      /\ queue' = Launched(0, ZeroNew("edge", Neighbours))
      /\ edges' = [edges EXCEPT !.received = pop_from_cache("edge", Neighbours)]
      /\ host' = Ready /\ UNCHANGED <<wide, calls, obj, pool>>
  BY DEF RecvEdges
<1>2. Neighbours \in Nat /\ Types /\ QueueOK
  BY Sizes DEF StreamsInv
<1>3. PICK z : z = ZeroNew("edge", Neighbours)
  OBVIOUS
<1>4. PICK M : z \in Seq(M)
  BY <1>2, <1>3, ZeroNewList
<1>5. LaunchedOn(0, Range(z)) /\ QueueOK'
  BY <1>1, <1>2, <1>3, <1>4, LaunchDefault
<1>6. /\ cache' \in [halo : Seq(Nat), edge : Seq(Nat)] /\ buffers' \in Nat
      /\ pop_from_cache("edge", Neighbours) \in Seq(Nat)
  BY <1>1, <1>2, PopFromCache
<1>7. Types'
  BY <1>1, <1>2, <1>6 DEF Types
<1>8. HostOK' /\ \A u \in Name : obj'[u].streams = obj[u].streams /\ ObjectOK(obj'[u])
  BY <1>1 DEF HostOK, StreamsInv
<1> QED
  BY <1>1, <1>5, <1>7, <1>8, SameStreams DEF LaunchedOn

LEMMA WaitEdgesStreams ==
  ASSUME StreamsInv, WaitEdges
  PROVE  StreamsInv'
<1>1. /\ queue' = Launched(0, [n \in Neighbour |-> copy_out(edges.received[n], n)])
      /\ cache' = [cache EXCEPT !.edge = @ \o edges.sent \o edges.received]
      /\ edges' = NoEdges /\ calls' = calls + 1 /\ UNCHANGED <<wide, host, obj, pool, buffers>>
  BY DEF WaitEdges, Call
<1>2. PICK l : l = [n \in Neighbour |-> copy_out(edges.received[n], n)]
  OBVIOUS
<1>3. PICK S : S = {l[n] : n \in Neighbour}
  OBVIOUS
<1>4. Neighbours \in Nat /\ Neighbour = 1..Neighbours /\ Types /\ QueueOK
  BY Sizes DEF StreamsInv, Neighbour
<1>5. l \in [1..Neighbours -> S]
  BY <1>2, <1>3, <1>4
<1>6. l \in Seq(S)
  BY <1>4, <1>5, KernelList
<1>7. LaunchedOn(0, Range(l)) /\ QueueOK'
  BY <1>1, <1>2, <1>4, <1>6, LaunchDefault
<1>8. edges' \in [exch : Nat, sent : Seq(Nat), received : Seq(Nat)]
  <2>1. <<>> \in Seq(Nat)
    OBVIOUS
  <2> QED
    BY <1>1, <2>1 DEF NoEdges
<1>9. cache' \in [halo : Seq(Nat), edge : Seq(Nat)]
  <2>1. cache.edge \o edges.sent \o edges.received \in Seq(Nat)
    BY <1>4 DEF Types
  <2> QED
    BY <1>1, <1>4, <2>1 DEF Types
<1>10. Types'
  BY <1>1, <1>4, <1>8, <1>9 DEF Types
<1> QED
  BY <1>1, <1>7, <1>10, SameHost DEF LaunchedOn

\* A new updater launches the zeroing of new buffers, and the upload of the indices
\* if it is the first.
LEMMA CreateQueues ==
  ASSUME StreamsInv, NEW u \in Name, NEW once \in BOOLEAN, Create(u, once)
  PROVE  /\ QueueOK' /\ NumStreams' = NumStreams + NewStreams(Streams)
         /\ \A k \in Range(queue'[0]) :
              \/ k \in Queued(0)
              \/ \E b \in NewBuffers("halo", 2 * Neighbours) : k = zero(b)
              \/ Indices(1) \notin DOMAIN mem /\ \E n \in Neighbour : k = upload(n)
         /\ \A t \in DOMAIN queue' \ {0} :
              IF t \in DOMAIN queue THEN queue'[t] = queue[t] ELSE queue'[t] = <<>>
<1> DEFINE missing == IF Indices(1) \in DOMAIN mem THEN 0 ELSE Neighbours
           count == 2 * Neighbours
           new == {zero(b) : b \in NewBuffers("halo", count)}
           ups == {upload(n) : n \in 1..missing}
           k == [n \in 1..missing |-> upload(n)]
           l == ZeroNew("halo", count) \o k
           m == NewStreams(Streams)
<1>1. queue' = Over([s \in (NumStreams + 1)..(NumStreams + m) |-> <<>>], Launched(0, l))
  BY DEF Create, Streams
<1>2. Types /\ QueueOK /\ count \in Nat /\ Streams \in Nat /\ missing \in Nat
  BY Sizes DEF StreamsInv
<1>3. k \in [1..missing -> ups]
  OBVIOUS
<1>4. /\ \A x \in new : \E b \in NewBuffers("halo", 2 * Neighbours) : x = zero(b)
      /\ \A x \in ups : Indices(1) \notin DOMAIN mem /\ \E n \in Neighbour : x = upload(n)
  BY DEF Neighbour
<1> HIDE DEF k, ups
<1>5. k \in Seq(ups) /\ Range(k) \subseteq ups
  BY <1>2, <1>3, KernelList
<1> HIDE DEF missing, count
<1>6. (\E L : l \in Seq(L)) /\ Range(l) \subseteq new \union Range(k)
  BY <1>2, <1>5, ZeroThen
<1> HIDE DEF l, new
<1>7. m \in Nat
  BY <1>2, PopStreams
<1>8. /\ QueueOK' /\ NumStreams' = NumStreams + m
      /\ Range(queue'[0]) = Queued(0) \union Range(l)
      /\ \A t \in DOMAIN queue' \ {0} :
           IF t \in DOMAIN queue THEN queue'[t] = queue[t] ELSE queue'[t] = <<>>
  BY <1>1, <1>2, <1>6, <1>7, NewStreamQueues
<1>9. \A x \in Range(queue'[0]) :
        \/ x \in Queued(0)
        \/ \E b \in NewBuffers("halo", 2 * Neighbours) : x = zero(b)
        \/ Indices(1) \notin DOMAIN mem /\ \E n \in Neighbour : x = upload(n)
  BY <1>4, <1>5, <1>6, <1>8
<1> QED
  BY <1>8, <1>9

LEMMA CreateStreams ==
  ASSUME StreamsInv, NEW u \in Name, NEW once \in BOOLEAN, Create(u, once)
  PROVE  StreamsInv'
<1> DEFINE count == 2 * Neighbours
<1>1. /\ obj[u].st = "none" /\ obj' = [obj EXCEPT ![u] = Updater(once)] /\ host = Ready
      /\ cache' = CacheAfterPop("halo", count) /\ buffers' = buffers + Fresh("halo", count)
      /\ pool' = PoolAfterPop(Streams) /\ calls' = calls + 1
      /\ host' = IF once THEN At("start", u, 0) ELSE host
      /\ UNCHANGED <<wide, edges>>
  BY DEF Create, Call, Streams
<1>2. Types /\ QueueOK /\ count \in Nat /\ Streams \in Nat
  BY Sizes DEF StreamsInv
<1> HIDE DEF count
<1>5. QueueOK' /\ NumStreams' = NumStreams + NewStreams(Streams)
  BY CreateQueues
<1>6. /\ Updater(once) \in Updaters /\ ObjectOK(Updater(once)) /\ Updater(once).st = "idle"
      /\ Updater(once).streams = _pop_stream(Streams)
  BY <1>2, NewUpdater
<1>7. StreamsApart'
  BY <1>1, <1>2, <1>5, <1>6, TakeStreams
<1>8. obj' \in [Name -> Updaters] /\ obj'[u].st = "idle" /\ \A v \in Name : ObjectOK(obj'[v])
  BY <1>1, <1>6 DEF StreamsInv, Types
<1>9. HostOK'
  BY <1>1, <1>8 DEF HostOK
<1>10. Types'
  <2>1. /\ cache' \in [halo : Seq(Nat), edge : Seq(Nat)] /\ buffers' \in Nat
    BY <1>1, <1>2, PopFromCache
  <2>2. pool' \in Seq(Nat)
    BY <1>1, <1>2, PopStreams
  <2> QED
    BY <1>1, <1>2, <1>8, <2>1, <2>2 DEF Types
<1> QED
  BY <1>5, <1>7, <1>8, <1>9, <1>10 DEF StreamsInv

LEMMA InitStreams == Init => StreamsInv
<1> SUFFICES ASSUME Init PROVE StreamsInv
  OBVIOUS
<1>1. Types
  <2>1. /\ EdgeBuffers \in Nat /\ \A b \in 1..EdgeBuffers : b \in Nat
        /\ wide \in BOOLEAN
    BY Sizes, SizeAssumption DEF Init
  <2>2. [b \in 1..EdgeBuffers |-> b] \in Seq(Nat) /\ <<>> \in Seq(Nat)
    BY <2>1
  <2>3. NoEdges \in [exch : Nat, sent : Seq(Nat), received : Seq(Nat)]
    BY <2>2 DEF NoEdges
  <2>4. cache \in [halo : Seq(Nat), edge : Seq(Nat)]
    BY <2>2 DEF Init
  <2>5. obj \in [Name -> Updaters]
    BY NoUpdaterFacts DEF Init
  <2> QED
    BY <2>1, <2>2, <2>3, <2>4, <2>5 DEF Init, Types
<1>2. DOMAIN queue = {0} /\ queue[0] = <<>>
  BY DEF Init
<1>3. NumStreams = 0
  <2>1. Cardinality(0..0) = 1
    <3>1. \A a, b \in Int : Cardinality(a..b) = IF a > b THEN 0 ELSE b - a + 1
      BY FS_Interval
    <3>2. 0 \in Int
      OBVIOUS
    <3>3. Cardinality(0..0) = IF 0 > 0 THEN 0 ELSE 0 - 0 + 1
      BY <3>1, <3>2
    <3> QED
      BY <3>3
  <2>2. {0} = 0..0
    OBVIOUS
  <2> QED
    BY <1>2, <2>1, <2>2 DEF NumStreams
<1>4. QueueOK
  <2>1. <<>> \in Seq({}) /\ {0} = 0..0
    OBVIOUS
  <2> QED
    BY <1>2, <1>3, <2>1 DEF QueueOK
<1>5. HostOK
  BY DEF Init, HostOK
<1>6. \A u \in Name : obj[u] = NoUpdater
  BY DEF Init
<1>7. \A h \in StreamHolders : StreamLists[h] = <<>>
  BY <1>6, NoUpdaterFacts DEF Init, StreamHolders, StreamLists
<1>8. StreamsApart
  <2>1. 1..NumStreams = {}
    BY <1>3
  <2> QED
    BY <1>7, <2>1, NoUpdaterFacts DEF StreamsApart, Apart, Complete
<1> QED
  BY <1>1, <1>4, <1>5, <1>6, <1>8, NoUpdaterFacts DEF StreamsInv

LEMMA NextStreams == StreamsInv /\ [Next]_vars => StreamsInv'
<1> SUFFICES ASSUME StreamsInv, [Next]_vars PROVE StreamsInv'
  OBVIOUS
<1>1. ASSUME NEW q \in Quantity, Compute(q) PROVE StreamsInv'
  BY <1>1, ComputeStreams
<1>2. ASSUME NEW u \in Name, NEW once \in BOOLEAN, Create(u, once) PROVE StreamsInv'
  BY <1>2, CreateStreams
<1>3. ASSUME NEW u \in Name, BeginStart(u) \/ BeginWait(u) PROVE StreamsInv'
  BY <1>3, BeginStreams
<1>4. ASSUME NEW u \in Name, EndWait(u) \/ Drop(u) PROVE StreamsInv'
  BY <1>4, EndStreams
<1>5. ASSUME StartEdges \/ SendEdge PROVE StreamsInv'
  BY <1>5, EdgeStreams
<1>6. ASSUME WaitEdges PROVE StreamsInv'
  BY <1>6, WaitEdgesStreams
<1>7. ASSUME RecvEdges PROVE StreamsInv'
  BY <1>7, RecvEdgesStreams
<1>8. ASSUME NEW u \in Name, PostAndPack(u) PROVE StreamsInv'
  BY <1>8, PackStreams
<1>9. ASSUME NEW u \in Name, Isend(u) PROVE StreamsInv'
  BY <1>9, IsendStreams
<1>10. ASSUME NEW u \in Name, LaunchUnpack(u) PROVE StreamsInv'
  BY <1>10, UnpackStreams
<1>11. ASSUME NEW s \in DOMAIN queue, Run(s) PROVE StreamsInv'
  BY <1>11, RunStreams
<1>12. ASSUME MpiStep PROVE StreamsInv'
  BY <1>12, MpiStreams
<1>13. ASSUME UNCHANGED vars PROVE StreamsInv'
  <2>1. Types' /\ UNCHANGED <<pool, obj, host, queue>>
    BY <1>13 DEF vars, hostVars, StreamsInv, Types
  <2> QED
    BY <2>1, SameQueue, SameHost
<1> QED
  BY <1>1, <1>2, <1>3, <1>4, <1>5, <1>6, <1>7, <1>8, <1>9, <1>10, <1>11, <1>12, <1>13
     DEF Next, NewCall, HostStep, DeviceStep

LEMMA StreamsKept == StreamsInv => StreamsConserved
<1> SUFFICES ASSUME StreamsInv PROVE StreamsConserved
  OBVIOUS
<1> DEFINE owned == {x \in Name \X (1..(Neighbours * Len(Fields))) :
                       x[2] \in DOMAIN obj[x[1]].streams}
           Stream(x) == obj[x[1]].streams[x[2]]
<1>1. /\ 0 \in StreamHolders /\ StreamLists[0] = pool
      /\ \A u \in Name : u \in StreamHolders /\ u # 0 /\ StreamLists[u] = obj[u].streams
      /\ \A h \in StreamHolders : h = 0 \/ h \in Name
  BY Sizes DEF StreamHolders, StreamLists
<1>2. Apart(StreamHolders, StreamLists, 1..NumStreams)
  BY DEF StreamsInv, StreamsApart
<1>3. /\ IsInjective(pool) /\ Range(pool) \subseteq 1..NumStreams
      /\ \A u \in Name : /\ IsInjective(obj[u].streams)
                         /\ Range(obj[u].streams) \subseteq 1..NumStreams
                         /\ Range(pool) \intersect Range(obj[u].streams) = {}
      /\ \A u, v \in Name :
           u # v => Range(obj[u].streams) \intersect Range(obj[v].streams) = {}
  BY <1>1, <1>2 DEF Apart
<1>4. /\ NumStreams \in Nat /\ DOMAIN queue = 0..NumStreams
      /\ \A s \in 1..NumStreams : s \in Range(pool) \/ \E u \in Name : s \in Range(obj[u].streams)
  BY <1>1 DEF StreamsInv, StreamsApart, Complete, QueueOK
<1>5. \A x \in owned : x[1] \in Name /\ x[2] \in DOMAIN obj[x[1]].streams /\ x = <<x[1], x[2]>>
  OBVIOUS
<1>6. \A u \in Name : \A k \in DOMAIN obj[u].streams : <<u, k>> \in owned
  <2> SUFFICES ASSUME NEW u \in Name, NEW k \in DOMAIN obj[u].streams
               PROVE  <<u, k>> \in owned
    OBVIOUS
  <2>1. obj[u] \in Updaters /\ ObjectOK(obj[u])
    BY DEF StreamsInv, Types
  <2>2. obj[u].st # "none"
    BY <2>1, NoUpdaterFacts DEF ObjectOK
  <2>3. k \in 1..(Neighbours * Len(Fields))
    BY <2>1, <2>2, Sizes DEF ObjectOK, Updaters, Streams
  <2> QED
    BY <2>3
<1> HIDE DEF owned
<1>7. \A x \in owned : Stream(x) \in Range(obj[x[1]].streams)
  BY <1>5 DEF Range
<1>8. \A x, y \in owned : x # y => Stream(x) # Stream(y)
  <2> SUFFICES ASSUME NEW x \in owned, NEW y \in owned, Stream(x) = Stream(y) PROVE x = y
    OBVIOUS
  <2>1. x[1] = y[1]
    BY <1>3, <1>5, <1>7
  <2>2. x[2] = y[2]
    BY <1>3, <1>5, <2>1 DEF IsInjective
  <2> QED
    BY <1>5, <2>1, <2>2
<1>9. \A x \in owned : Stream(x) \notin Range(pool)
  BY <1>3, <1>5, <1>7
<1>10. DOMAIN queue = {0} \union Range(pool) \union {Stream(x) : x \in owned}
  <2>1. \A s \in 1..NumStreams : s \in Range(pool) \/ s \in {Stream(x) : x \in owned}
    <3> SUFFICES ASSUME NEW s, NEW u \in Name, s \in Range(obj[u].streams)
                 PROVE  s \in {Stream(x) : x \in owned}
      BY <1>4
    <3>1. PICK k \in DOMAIN obj[u].streams : obj[u].streams[k] = s
      BY DEF Range
    <3>2. PICK x : x = <<u, k>>
      OBVIOUS
    <3>3. x \in owned /\ Stream(x) = s
      BY <1>6, <3>1, <3>2
    <3> QED
      BY <3>3
  <2>2. \A x \in owned : Stream(x) \in 1..NumStreams
    BY <1>3, <1>5, <1>7
  <2>3. 0..NumStreams = {0} \union 1..NumStreams
    BY <1>4
  <2> QED
    BY <1>3, <1>4, <2>1, <2>2, <2>3
<1> QED
  BY <1>3, <1>8, <1>9, <1>10 DEF StreamsConserved, owned

(***************************************************************************)
(* However the program creates, starts, waits for and drops its updaters,  *)
(* every stream ever created is in STREAM_POOL once or is the private      *)
(* stream of one field of one transformer: none is lost, none is given out *)
(* twice.                                                                  *)
(***************************************************************************)
THEOREM StreamsAreConserved == Spec => []StreamsConserved
<1>1. Init => StreamsInv
  BY InitStreams
<1>2. StreamsInv /\ [Next]_vars => StreamsInv'
  BY NextStreams
<1>3. StreamsInv => StreamsConserved
  BY StreamsKept
<1> QED
  BY <1>1, <1>2, <1>3, PTL DEF Spec

-----------------------------------------------------------------------------
(* The shared edges, and the indices.                                      *)

LEMMA RecvEdgesAt == RecvEdges => host = At("edges", 0, Neighbours + 1)
BY DEF RecvEdges

\* The calls that do not exchange edges leave their lists alone.
LEMMA EdgeSteps ==
  ASSUME StreamsInv, [Next]_vars
  PROVE  \/ StartEdges \/ SendEdge \/ RecvEdges \/ WaitEdges
         \/ /\ edges' = edges /\ cache'.edge = cache.edge
            /\ host' = host \/ (host.at # "edges" /\ host'.at # "edges")
<1> DEFINE Frame == /\ edges' = edges /\ cache'.edge = cache.edge
                    /\ host' = host \/ (host.at # "edges" /\ host'.at # "edges")
<1>0. Types /\ 2 * Neighbours \in Nat
  BY Sizes DEF StreamsInv
<1>1. ASSUME NEW u \in Name, NEW once \in BOOLEAN, Create(u, once) PROVE Frame
  <2>1. cache' = CacheAfterPop("halo", 2 * Neighbours) /\ edges' = edges
        /\ host = Ready /\ (host' = At("start", u, 0) \/ host' = host)
    BY <1>1 DEF Create, Call
  <2>2. cache'["edge"] = cache["edge"]
    BY <1>0, <2>1, PopFromCache
  <2> QED
    BY <2>1, <2>2 DEF Ready, At
<1>2. ASSUME NEW u \in Name, EndWait(u) \/ Drop(u) PROVE Frame
  <2>1. edges' = edges /\ host.at # "edges" /\ host' = Ready
    BY <1>2 DEF EndWait, Drop, Call, At, Ready
  <2>2. Finalize(u) \/ KeepUpdater(u)
    BY <1>2 DEF EndWait, Drop
  <2>3. cache'.edge = cache.edge
    BY <1>0, <2>2 DEF Finalize, KeepUpdater, Types
  <2> QED
    BY <2>1, <2>3 DEF Ready
<1>3. ASSUME NEW q \in Quantity, Compute(q) PROVE Frame
  BY <1>3 DEF Compute, Call
<1>4. ASSUME NEW u \in Name, BeginStart(u) \/ BeginWait(u) PROVE Frame
  BY <1>4 DEF BeginStart, BeginWait, Call, Ready, At
<1>5. ASSUME NEW u \in Name, PostAndPack(u) \/ LaunchUnpack(u) PROVE Frame
  BY <1>5 DEF PostAndPack, LaunchUnpack, Ready, At
<1>6. ASSUME NEW u \in Name, Isend(u) PROVE Frame
  BY <1>6 DEF Isend, Ready, At
<1>7. ASSUME DeviceStep \/ MpiStep PROVE Frame
  BY <1>7 DEF DeviceStep, Run, MpiStep, MpiRead, MpiWrite, hostVars
<1>8. ASSUME UNCHANGED vars PROVE Frame
  BY <1>8 DEF vars, hostVars
<1> QED
  BY <1>1, <1>2, <1>3, <1>4, <1>5, <1>6, <1>7, <1>8 DEF Next, NewCall, HostStep

\* The cache has the buffers that the edges ask for.
LEMMA EdgePops ==
  ASSUME StreamsInv, EdgesOK, EdgesCached
  PROVE  /\ StartEdges \/ (SendEdge /\ host.k < Neighbours)
            => Fresh("edge", 1) = 0 /\ edges.received = <<>>
               /\ Len(edges.sent) = IF host = Ready THEN 0 ELSE host.k
         /\ RecvEdges => Fresh("edge", Neighbours) = 0 /\ edges.received = <<>>
                         /\ Len(edges.sent) = Neighbours
<1>0. /\ edges.sent \in Seq(Nat) /\ edges.received \in Seq(Nat) /\ cache.edge \in Seq(Nat)
      /\ cache["edge"] = cache.edge /\ Len(<<>>) = 0
      /\ Neighbours \in Nat /\ Neighbours > 0 /\ EdgeBuffers \in Nat
  BY Sizes DEF StreamsInv, Types
<1>1. Len(cache.edge) + Len(edges.sent) + Len(edges.received) = EdgeBuffers
  BY DEF EdgesOK
<1>2. "edges" \in Calls => EdgeBuffers >= 2 * Neighbours
  BY DEF EdgesCached
<1>3. ASSUME StartEdges
      PROVE  Fresh("edge", 1) = 0 /\ edges.received = <<>> /\ Len(edges.sent) = 0 /\ host = Ready
  <2>1. "edges" \in Calls /\ edges.received = <<>> /\ edges.sent = <<>> /\ host = Ready
    BY <1>3 DEF StartEdges, Call, NoEdges
  <2>2. 1 <= Len(cache.edge)
    BY <1>0, <1>1, <1>2, <2>1
  <2> QED
    BY <1>0, <2>1, <2>2 DEF Fresh
<1>4. ASSUME SendEdge, host.k < Neighbours
      PROVE  Fresh("edge", 1) = 0 /\ edges.received = <<>> /\ Len(edges.sent) = host.k
             /\ host # Ready
  <2>1. PICK n \in Neighbour : host = At("edges", 0, n) /\ host.k = n
    BY <1>4 DEF SendEdge, At
  <2>2. "edges" \in Calls /\ host # Ready
    BY <2>1 DEF StreamsInv, HostOK, At, Ready
  <2>3. edges.received = <<>> /\ Len(edges.sent) = n /\ n < Neighbours /\ n \in Nat
    BY <1>0, <1>4, <2>1 DEF EdgesOK, At, Neighbour
  <2>4. 1 <= Len(cache.edge)
    BY <1>0, <1>1, <1>2, <2>2, <2>3
  <2> QED
    BY <1>0, <2>1, <2>2, <2>3, <2>4 DEF Fresh
<1>5. ASSUME RecvEdges
      PROVE  Fresh("edge", Neighbours) = 0 /\ edges.received = <<>>
             /\ Len(edges.sent) = Neighbours
  <2>1. host = At("edges", 0, Neighbours + 1)
    BY <1>5, RecvEdgesAt
  <2>2. "edges" \in Calls
    BY <2>1 DEF StreamsInv, HostOK, At, Ready
  <2>3. edges.received = <<>> /\ Len(edges.sent) = Neighbours
    BY <1>0, <2>1 DEF EdgesOK, At
  <2>4. Neighbours <= Len(cache.edge)
    BY <1>0, <1>1, <1>2, <2>2, <2>3
  <2> QED
    BY <1>0, <2>3, <2>4 DEF Fresh
<1> QED
  BY <1>3, <1>4, <1>5

\* One more edge is copied and will be sent.
LEMMA CopyEdgeFacts ==
  ASSUME StreamsInv, EdgesOK, EdgesCached, CopyEdge,
         StartEdges \/ (SendEdge /\ host.k < Neighbours)
  PROVE  /\ Fresh("edge", 1) = 0 /\ edges.received = <<>> /\ edges'.received = <<>>
         /\ Len(edges.sent) = IF host = Ready THEN 0 ELSE host.k
         /\ edges'.sent = Append(edges.sent, pop_from_cache("edge", 1)[1])
         /\ edges'.sent \in Seq(Nat) /\ Len(edges'.sent) = Len(edges.sent) + 1
         /\ \A n \in 1..Len(edges.sent) : edges'.sent[n] = edges.sent[n]
         /\ edges'.sent[Len(edges.sent) + 1] = pop_from_cache("edge", 1)[1]
         /\ Len(cache'.edge) = Len(cache.edge) - 1
         /\ pop_from_cache("edge", 1)[1] \in Nat
<1>1. /\ Types /\ edges.sent \in Seq(Nat)
      /\ edges \in [exch : Nat, sent : Seq(Nat), received : Seq(Nat)]
      /\ cache.edge \in Seq(Nat)
  BY DEF StreamsInv, Types
<1>2. /\ Fresh("edge", 1) = 0 /\ edges.received = <<>>
      /\ Len(edges.sent) = IF host = Ready THEN 0 ELSE host.k
  BY EdgePops
<1>3. /\ pop_from_cache("edge", 1) \in Seq(Nat) /\ Len(pop_from_cache("edge", 1)) = 1
      /\ Len(CacheAfterPop("edge", 1)["edge"]) = Len(cache["edge"]) + Fresh("edge", 1) - 1
  BY <1>1, PopFromCache
<1>4. PICK b : b = pop_from_cache("edge", 1)[1]
  OBVIOUS
<1>5. b \in Nat
  BY <1>3, <1>4
<1>6. PICK s : s = Append(edges.sent, b)
  OBVIOUS
<1>7. /\ s \in Seq(Nat) /\ Len(s) = Len(edges.sent) + 1 /\ s[Len(edges.sent) + 1] = b
      /\ \A n \in 1..Len(edges.sent) : s[n] = edges.sent[n]
  <2>1. PICK t \in Seq(Nat) : t = edges.sent
    BY <1>1
  <2>2. s = Append(t, b) /\ b \in Nat
    BY <1>5, <1>6, <2>1
  <2>3. /\ s \in Seq(Nat) /\ Len(s) = Len(t) + 1 /\ s[Len(t) + 1] = b
        /\ \A n \in 1..Len(t) : s[n] = t[n]
    BY <2>2
  <2> QED
    BY <2>1, <2>3
<1>8. edges' = [edges EXCEPT !.exch = calls', !.sent = s]
  BY <1>4, <1>6 DEF CopyEdge
<1>9. edges'.sent = s /\ edges'.received = <<>>
  BY <1>1, <1>2, <1>8
<1>10. Len(cache'.edge) = Len(cache.edge) - 1
  <2>1. cache' = CacheAfterPop("edge", 1) /\ cache'["edge"] = cache'.edge
    BY DEF CopyEdge
  <2>2. Len(cache'.edge) = Len(cache.edge) + 0 - 1
    BY <1>2, <1>3, <2>1
  <2> QED
    BY <1>1, <2>2
<1> QED
  BY <1>2, <1>4, <1>5, <1>6, <1>7, <1>9, <1>10

LEMMA RecvEdgesFacts ==
  ASSUME StreamsInv, EdgesOK, EdgesCached, RecvEdges
  PROVE  /\ Fresh("edge", Neighbours) = 0 /\ edges.received = <<>>
         /\ Len(edges.sent) = Neighbours /\ edges'.sent = edges.sent
         /\ edges'.received = pop_from_cache("edge", Neighbours)
         /\ edges'.received \in Seq(Nat) /\ Len(edges'.received) = Neighbours
         /\ Len(cache'.edge) = Len(cache.edge) - Neighbours
<1>1. /\ Types /\ edges \in [exch : Nat, sent : Seq(Nat), received : Seq(Nat)]
      /\ cache.edge \in Seq(Nat) /\ Neighbours \in Nat
  BY Sizes DEF StreamsInv, Types
<1>2. Fresh("edge", Neighbours) = 0 /\ edges.received = <<>> /\ Len(edges.sent) = Neighbours
  BY EdgePops
<1>3. /\ pop_from_cache("edge", Neighbours) \in Seq(Nat)
      /\ Len(pop_from_cache("edge", Neighbours)) = Neighbours
      /\ Len(CacheAfterPop("edge", Neighbours)["edge"])
           = Len(cache["edge"]) + Fresh("edge", Neighbours) - Neighbours
  BY <1>1, PopFromCache
<1>4. /\ edges' = [edges EXCEPT !.received = pop_from_cache("edge", Neighbours)]
      /\ cache' = CacheAfterPop("edge", Neighbours) /\ cache'["edge"] = cache'.edge
  BY DEF RecvEdges
<1>5. edges'.sent = edges.sent /\ edges'.received = pop_from_cache("edge", Neighbours)
  BY <1>1, <1>4
<1>6. Len(cache'.edge) = Len(cache.edge) + 0 - Neighbours
  BY <1>2, <1>3, <1>4
<1>7. Len(cache'.edge) = Len(cache.edge) - Neighbours
  <2>1. PICK m \in Nat : m = Len(cache.edge)
    BY <1>1
  <2>2. m + 0 - Neighbours = m - Neighbours
    BY <1>1
  <2> QED
    BY <1>6, <2>1, <2>2
<1> QED
  BY <1>2, <1>3, <1>5, <1>7

LEMMA NextEdges ==
  ASSUME StreamsInv, EdgesOK, EdgesCached, [Next]_vars
  PROVE  EdgesOK'
<1>0. /\ edges.sent \in Seq(Nat) /\ edges.received \in Seq(Nat) /\ cache.edge \in Seq(Nat)
      /\ Len(<<>>) = 0 /\ Neighbours \in Nat /\ Neighbours > 0
      /\ cache \in [halo : Seq(Nat), edge : Seq(Nat)]
      /\ Len(cache.edge) + Len(edges.sent) + Len(edges.received) = EdgeBuffers
  BY Sizes DEF StreamsInv, Types, EdgesOK
<1>1. CASE /\ edges' = edges /\ cache'.edge = cache.edge
           /\ host' = host \/ (host.at # "edges" /\ host'.at # "edges")
  BY <1>1 DEF EdgesOK
<1>2. CASE StartEdges
  <2>1. CopyEdge /\ host' = At("edges", 0, 1) /\ host = Ready
    BY <1>2 DEF StartEdges, Call
  <2>2. /\ edges'.received = <<>> /\ Len(edges'.sent) = Len(edges.sent) + 1
        /\ Len(edges.sent) = IF host = Ready THEN 0 ELSE host.k
        /\ edges.received = <<>> /\ Len(cache'.edge) = Len(cache.edge) - 1
    BY <1>2, <2>1, CopyEdgeFacts
  <2>3. Len(edges'.sent) = 1 /\ Len(edges.sent) = 0
    BY <2>1, <2>2
  <2> QED
    BY <1>0, <2>1, <2>2, <2>3 DEF EdgesOK, At
<1>3. CASE SendEdge
  <2>1. PICK n \in Neighbour : /\ host = At("edges", 0, n) /\ host' = At("edges", 0, n + 1)
                               /\ host.k = n /\ n \in Nat /\ n <= Neighbours
    BY <1>0, <1>3 DEF SendEdge, At, Neighbour
  <2>2. CASE n < Neighbours
    <3>1. CopyEdge /\ host # Ready
      BY <1>3, <2>1, <2>2 DEF SendEdge, At, Ready
    <3>2. /\ edges'.received = <<>> /\ Len(edges'.sent) = Len(edges.sent) + 1
          /\ Len(edges.sent) = host.k
          /\ edges.received = <<>> /\ Len(cache'.edge) = Len(cache.edge) - 1
      BY <1>3, <2>1, <2>2, <3>1, CopyEdgeFacts
    <3> QED
      BY <1>0, <2>1, <2>2, <3>2 DEF EdgesOK, At
  <2>3. CASE n = Neighbours
    <3>1. edges' = edges /\ cache' = cache
      BY <1>0, <1>3, <2>1, <2>3 DEF SendEdge, At
    <3>2. edges.received = <<>> /\ Len(edges.sent) = Neighbours
      BY <2>1, <2>3 DEF EdgesOK, At
    <3> QED
      BY <1>0, <2>1, <2>3, <3>1, <3>2 DEF EdgesOK, At
  <2> QED
    BY <1>0, <2>1, <2>2, <2>3
<1>4. CASE RecvEdges
  <2>1. host' = Ready
    BY <1>4 DEF RecvEdges
  <2>2. /\ edges.received = <<>> /\ Len(edges.sent) = Neighbours /\ edges'.sent = edges.sent
        /\ Len(edges'.received) = Neighbours
        /\ Len(cache'.edge) = Len(cache.edge) - Neighbours
    BY <1>4, RecvEdgesFacts
  <2>3. Len(cache'.edge) + Len(edges'.sent) + Len(edges'.received) = EdgeBuffers
    <3>1. PICK m \in Nat : m = Len(cache.edge)
      BY <1>0
    <3>2. m + Neighbours + 0 = EdgeBuffers
      BY <1>0, <2>2, <3>1
    <3>3. (m - Neighbours) + Neighbours + Neighbours = m + Neighbours + 0
      BY <1>0
    <3> QED
      BY <2>2, <3>1, <3>2, <3>3
  <2> QED
    BY <2>1, <2>2, <2>3 DEF EdgesOK, Ready
<1>5. CASE WaitEdges
  <2>1. host = Ready /\ host' = host /\ edges.received # <<>> /\ edges' = NoEdges
        /\ cache' = [cache EXCEPT !.edge = @ \o edges.sent \o edges.received]
    BY <1>5 DEF WaitEdges, Call
  <2>2. Len(cache'.edge) = Len(cache.edge) + Len(edges.sent) + Len(edges.received)
    <3>1. cache'.edge = cache.edge \o edges.sent \o edges.received
      BY <1>0, <2>1
    <3> QED
      BY <1>0, <3>1
  <2>3. edges'.sent = <<>> /\ edges'.received = <<>>
    BY <2>1 DEF NoEdges
  <2>4. Len(cache'.edge) + Len(edges'.sent) + Len(edges'.received) = EdgeBuffers
    <3>1. EdgeBuffers \in Nat
      BY Sizes
    <3>2. EdgeBuffers + 0 + 0 = EdgeBuffers
      BY <3>1
    <3>3. Len(cache'.edge) = EdgeBuffers
      BY <1>0, <2>2
    <3> QED
      BY <1>0, <2>3, <3>2, <3>3
  <2> QED
    BY <2>1, <2>3, <2>4 DEF EdgesOK, Ready
<1> QED
  BY <1>1, <1>2, <1>3, <1>4, <1>5, EdgeSteps

\* The memory only grows.
LEMMA MemoryGrows ==
  ASSUME [Next]_vars
  PROVE  DOMAIN mem \subseteq DOMAIN mem'
<1>1. \A f, g : DOMAIN g \subseteq DOMAIN Over(f, g)
  BY DEF Over
<1>2. ASSUME NEW u \in Name, NEW once \in BOOLEAN, Create(u, once)
      PROVE  DOMAIN mem \subseteq DOMAIN mem'
  <2>1. PICK f : mem' = Over(f, MemWithNew("halo", 2 * Neighbours))
    BY <1>2 DEF Create
  <2> QED
    BY <1>1, <2>1 DEF MemWithNew
<1>3. ASSUME CopyEdge \/ RecvEdges PROVE DOMAIN mem \subseteq DOMAIN mem'
  BY <1>1, <1>3 DEF CopyEdge, RecvEdges, MemWithNew
<1>4. ASSUME StartEdges \/ SendEdge PROVE DOMAIN mem \subseteq DOMAIN mem'
  BY <1>3, <1>4 DEF StartEdges, SendEdge
<1>5. ASSUME DeviceStep \/ MpiStep PROVE DOMAIN mem \subseteq DOMAIN mem'
  BY <1>1, <1>5 DEF DeviceStep, Run, MpiStep, MpiRead, MpiWrite
<1>6. ASSUME NEW q \in Quantity, Compute(q) PROVE mem' = mem
  BY <1>6 DEF Compute
<1>7. ASSUME NEW u \in Name, \/ BeginStart(u) \/ BeginWait(u) \/ PostAndPack(u) \/ Isend(u)
                             \/ LaunchUnpack(u) \/ EndWait(u) \/ Drop(u)
      PROVE  mem' = mem
  BY <1>7 DEF BeginStart, BeginWait, PostAndPack, Isend, LaunchUnpack, EndWait, Drop
<1>8. ASSUME WaitEdges \/ UNCHANGED vars PROVE mem' = mem
  BY <1>8 DEF WaitEdges, vars
<1> QED
  BY <1>2, <1>3, <1>4, <1>5, <1>6, <1>7, <1>8 DEF Next, NewCall, HostStep

-----------------------------------------------------------------------------
(* The updaters and the buffers.                                           *)

\* How a step changes the updaters.
LEMMA UpdaterSteps ==
  ASSUME StreamsInv, [Next]_vars
  PROVE  \/ obj' = obj
         \/ \E u \in Name : \E once \in BOOLEAN : Create(u, once)
         \/ \E u \in Name : PostAndPack(u) \/ EndWait(u) \/ Drop(u)
<1>1. ASSUME NEW q \in Quantity, Compute(q) PROVE obj' = obj
  BY <1>1 DEF Compute
<1>2. ASSUME NEW u \in Name, BeginStart(u) \/ BeginWait(u) \/ Isend(u) \/ LaunchUnpack(u)
      PROVE  obj' = obj
  BY <1>2 DEF BeginStart, BeginWait, Isend, LaunchUnpack
<1>3. ASSUME StartEdges \/ SendEdge \/ RecvEdges \/ WaitEdges PROVE obj' = obj
  BY <1>3 DEF StartEdges, SendEdge, RecvEdges, WaitEdges
<1>4. ASSUME DeviceStep \/ MpiStep \/ UNCHANGED vars PROVE obj' = obj
  BY <1>4 DEF DeviceStep, Run, MpiStep, MpiRead, MpiWrite, vars, hostVars
<1> QED
  BY <1>1, <1>2, <1>3, <1>4 DEF Next, NewCall, HostStep

\* What a step makes of one updater.
LEMMA UpdaterStep ==
  ASSUME StreamsInv, [Next]_vars, NEW u \in Name
  PROVE  \/ obj'[u] = obj[u]
         \/ /\ \E once \in BOOLEAN : Create(u, once)
            /\ obj[u].st = "none" /\ obj'[u].st = "idle"
         \/ PostAndPack(u) /\ obj[u].st = "idle" /\ obj'[u].st = "inflight" /\ ListsKept(u)
         \/ EndWait(u) /\ ~ obj[u].once /\ obj[u].st = "inflight" /\ obj'[u].st = "idle"
            /\ ListsKept(u)
         \/ /\ (EndWait(u) /\ obj[u].once /\ obj[u].st = "inflight") \/ (Drop(u) /\ obj[u].st = "idle")
            /\ obj'[u] = NoUpdater
<1>0. /\ obj \in [Name -> Updaters] /\ Types /\ QueueOK
  BY DEF StreamsInv, Types
<1>1. ASSUME NEW v \in Name, NEW once \in BOOLEAN, Create(v, once)
      PROVE  IF v = u THEN obj[u].st = "none" /\ obj'[u].st = "idle" ELSE obj'[u] = obj[u]
  <2>1. obj' = [obj EXCEPT ![v] = Updater(once)] /\ obj[v].st = "none"
    BY <1>1 DEF Create
  <2>2. Updater(once).st = "idle"
    BY DEF Updater
  <2> QED
    BY <1>0, <2>1, <2>2
<1>2. ASSUME NEW v \in Name, PostAndPack(v)
      PROVE  IF v = u THEN obj[u].st = "idle" /\ obj'[u].st = "inflight" /\ ListsKept(u)
                      ELSE obj'[u] = obj[u]
  BY <1>2, PackLists
<1>3. ASSUME NEW v \in Name, EndWait(v), ~ obj[v].once
      PROVE  IF v = u THEN obj[u].st = "inflight" /\ obj'[u].st = "idle" /\ ListsKept(u)
                      ELSE obj'[u] = obj[u]
  BY <1>3, KeepLists
<1>4. ASSUME NEW v \in Name, (EndWait(v) /\ obj[v].once) \/ Drop(v)
      PROVE  /\ IF v = u THEN obj'[u] = NoUpdater ELSE obj'[u] = obj[u]
             /\ EndWait(v) => obj[v].st = "inflight"
             /\ Drop(v) => obj[v].st = "idle"
  <2>1. obj' = [obj EXCEPT ![v] = NoUpdater]
    BY <1>4 DEF EndWait, Drop, Finalize
  <2>2. EndWait(v) => obj[v].st = "inflight"
    BY HostUpdater DEF EndWait
  <2>3. Drop(v) => obj[v].st = "idle"
    BY DEF Drop
  <2> QED
    BY <1>0, <2>1, <2>2, <2>3
<1>5. CASE obj' = obj
  BY <1>5
<1>6. CASE \E v \in Name : \E once \in BOOLEAN : Create(v, once)
  <2>1. PICK v \in Name : \E once \in BOOLEAN : Create(v, once)
    BY <1>6
  <2> QED
    BY <1>1, <2>1
<1>7. CASE \E v \in Name : PostAndPack(v) \/ EndWait(v) \/ Drop(v)
  <2>1. PICK v \in Name : PostAndPack(v) \/ EndWait(v) \/ Drop(v)
    BY <1>7
  <2> QED
    BY <1>2, <1>3, <1>4, <2>1
<1> QED
  BY <1>5, <1>6, <1>7, UpdaterSteps

LEMMA NextIndices ==
  ASSUME StreamsInv, IndicesOK, [Next]_vars
  PROVE  IndicesOK'
<1> SUFFICES ASSUME NEW u \in Name, obj'[u].st # "none" PROVE Indices(1) \in DOMAIN mem'
  BY DEF IndicesOK, Indices
<1>1. CASE obj[u].st # "none"
  BY <1>1, MemoryGrows DEF IndicesOK
<1>2. CASE obj[u].st = "none"
  <2>1. PICK once \in BOOLEAN : Create(u, once)
    BY <1>2, UpdaterStep, NoUpdaterFacts
  <2>2. CASE Indices(1) \in DOMAIN mem
    BY <2>2, MemoryGrows
  <2>3. CASE Indices(1) \notin DOMAIN mem
    <3>1. mem' = Over([loc \in {Indices(n) : n \in 1..Neighbours} |-> 0],
                      MemWithNew("halo", 2 * Neighbours))
      BY <2>1, <2>3 DEF Create
    <3>2. 1 \in 1..Neighbours
      BY Sizes
    <3>3. \A f, g : DOMAIN f \subseteq DOMAIN Over(f, g)
      BY DEF Over
    <3> QED
      BY <3>1, <3>2, <3>3
  <2> QED
    BY <2>2, <2>3
<1> QED
  BY <1>1, <1>2

\* The holders of buffers.
Halo == <<"cache", "halo">>
Edge == <<"cache", "edge">>
InEdges == <<"edges", 0>>
Of(u) == <<"updater", u>>

LEMMA HolderLists ==
  /\ Halo \in Holders /\ Edge \in Holders /\ InEdges \in Holders
  /\ Halo # Edge /\ Halo # InEdges /\ Edge # InEdges
  /\ BufferLists[Halo] = cache.halo /\ BufferLists[Edge] = cache.edge
  /\ BufferLists[InEdges] = edges.sent \o edges.received
  /\ \A u \in Name : /\ Of(u) \in Holders /\ Of(u) # Halo /\ Of(u) # Edge /\ Of(u) # InEdges
                     /\ BufferLists[Of(u)] = Held(obj[u])
                     /\ \A v \in Name : u # v => Of(u) # Of(v)
  /\ \A h \in Holders : h = Halo \/ h = Edge \/ h = InEdges \/ \E u \in Name : h = Of(u)
<1>1. /\ Halo \in Holders /\ Edge \in Holders /\ InEdges \in Holders
      /\ \A u \in Name : Of(u) \in Holders
  BY DEF Holders, Halo, Edge, InEdges, Of
<1>2. \A h \in Holders : h = Halo \/ h = Edge \/ h = InEdges \/ \E u \in Name : h = Of(u)
  BY DEF Holders, Halo, Edge, InEdges, Of
<1>3. /\ Halo # Edge /\ Halo # InEdges /\ Edge # InEdges
      /\ \A u \in Name : Of(u) # Halo /\ Of(u) # Edge /\ Of(u) # InEdges
      /\ \A u, v \in Name : u # v => Of(u) # Of(v)
  BY DEF Halo, Edge, InEdges, Of
<1>4. /\ ListOf(Halo) = cache.halo /\ ListOf(Edge) = cache.edge
      /\ ListOf(InEdges) = edges.sent \o edges.received
      /\ \A u \in Name : ListOf(Of(u)) = Held(obj[u])
  BY DEF ListOf, Halo, Edge, InEdges, Of
<1> QED
  BY <1>1, <1>2, <1>3, <1>4 DEF BufferLists

LEMMA HolderListsNext ==
  /\ BufferLists'[Halo] = cache'.halo /\ BufferLists'[Edge] = cache'.edge
  /\ BufferLists'[InEdges] = edges'.sent \o edges'.received
  /\ \A u \in Name : BufferLists'[Of(u)] = Held(obj'[u])
<1>1. /\ Halo \in Holders /\ Edge \in Holders /\ InEdges \in Holders
      /\ \A u \in Name : Of(u) \in Holders
  BY HolderLists
<1>2. BufferLists' = [h \in Holders |-> ListOf(h)']
  BY DEF BufferLists, Holders
<1>3. /\ ListOf(Halo)' = cache'.halo /\ ListOf(Edge)' = cache'.edge
      /\ ListOf(InEdges)' = edges'.sent \o edges'.received
      /\ \A u \in Name : ListOf(Of(u))' = Held(obj'[u])
  BY DEF ListOf, Halo, Edge, InEdges, Of, Held
<1> QED
  BY <1>1, <1>2, <1>3

\* Nobody's buffers change.
LEMMA SameHolders ==
  ASSUME HoldersOK, UNCHANGED <<buffers, cache, edges>>,
         \A u \in Name : Held(obj'[u]) = Held(obj[u])
  PROVE  HoldersOK'
<1>1. \A h \in Holders : BufferLists'[h] = BufferLists[h]
  BY HolderLists, HolderListsNext
<1>2. Holders' = Holders
  BY DEF Holders
<1> QED
  BY <1>1, <1>2 DEF HoldersOK, Apart

\* A holder gets buffers from the cache, and new ones when the cache has too few.
LEMMA HoldersTake ==
  ASSUME StreamsInv, HoldersOK, NEW key \in {"halo", "edge"}, NEW count \in Nat,
         NEW c \in Holders, NEW h \in Holders, c # h,
         BufferLists[c] = cache[key], BufferLists'[c] = CacheAfterPop(key, count)[key],
         buffers' = buffers + Fresh(key, count),
         BufferLists[h] \in Seq(Nat),
         BufferLists'[h] = BufferLists[h] \o pop_from_cache(key, count),
         \A x \in Holders : x # c /\ x # h => BufferLists'[x] = BufferLists[x]
  PROVE  HoldersOK'
<1> DEFINE L == BufferLists
           L2 == BufferLists'
           A == 1..buffers
           A2 == 1..(buffers + Fresh(key, count))
           f == pop_from_cache(key, count)
<1>1. Types /\ buffers \in Nat /\ Apart(Holders, L, A)
  BY DEF StreamsInv, Types, HoldersOK
<1>2. IsInjective(cache[key]) /\ Range(cache[key]) \subseteq A
  BY <1>1 DEF Apart
<1>3. /\ Fresh(key, count) \in Nat /\ f \in Seq(Nat)
      /\ Takes(count, Len(cache[key]), buffers, Fresh(key, count), cache[key], f, L2[c])
  BY <1>1, <1>2, PopFromCache
<1> HIDE DEF L, L2, f
<1>4. /\ IsInjective(f) /\ IsInjective(L2[c]) /\ Range(f) \intersect Range(L2[c]) = {}
      /\ Range(f) \subseteq A2 /\ Range(f) \intersect A \subseteq Range(L[c])
      /\ Range(L2[c]) \subseteq Range(L[c])
  BY <1>3, TakeLast DEF L
<1>5. A \subseteq A2
  BY <1>1, <1>3
<1> HIDE DEF A, A2
<1>6. /\ IsInjective(L[h]) /\ Range(L[h]) \subseteq A
      /\ Range(L[h]) \intersect Range(L[c]) = {}
  BY <1>1 DEF Apart
<1>7. Range(L[h]) \intersect Range(f) = {}
  BY <1>4, <1>6
<1>8. L[h] \in Seq(Nat) /\ L2[h] = L[h] \o f
  BY DEF L, L2, f
<1>9. IsInjective(L2[h]) /\ Range(L2[h]) = Range(L[h]) \union Range(f)
  BY <1>3, <1>4, <1>6, <1>7, <1>8, AppendList
<1>10. /\ Range(L2[c]) \subseteq Range(L[c]) \union Range(L[h]) \union (A2 \ A)
       /\ Range(L2[h]) \subseteq Range(L[c]) \union Range(L[h]) \union (A2 \ A)
       /\ Range(L2[c]) \intersect Range(L2[h]) = {}
  BY <1>4, <1>6, <1>9
<1>11. \A x \in Holders : x # c /\ x # h => L2[x] = L[x]
  BY DEF L, L2
<1>12. Apart(Holders, L2, A2)
  BY <1>1, <1>4, <1>5, <1>9, <1>10, <1>11, Moves
<1>13. Holders' = Holders /\ (1..buffers)' = A2
  BY DEF Holders, A2
<1> QED
  BY <1>12, <1>13 DEF HoldersOK, Apart, L2

\* A holder gives all its buffers to the cache.
LEMMA HoldersGive ==
  ASSUME HoldersOK, NEW c \in Holders, NEW h \in Holders, c # h,
         BufferLists[c] \in Seq(Nat), BufferLists[h] \in Seq(Nat),
         BufferLists'[c] = BufferLists[c] \o BufferLists[h], BufferLists'[h] = <<>>,
         buffers' = buffers,
         \A x \in Holders : x # c /\ x # h => BufferLists'[x] = BufferLists[x]
  PROVE  HoldersOK'
<1> DEFINE L == BufferLists
           L2 == BufferLists'
           A == 1..buffers
<1>0. Apart(Holders, L, A)
  BY DEF HoldersOK
<1>1. L[c] \in Seq(Nat) /\ L[h] \in Seq(Nat) /\ L2[c] = L[c] \o L[h] /\ L2[h] = <<>>
  OBVIOUS
<1> HIDE DEF L, L2, A
<1>2. IsInjective(L[c]) /\ IsInjective(L[h]) /\ Range(L[c]) \intersect Range(L[h]) = {}
  BY <1>0 DEF Apart
<1>3. Range(L2[c]) = Range(L[c]) \union Range(L[h]) /\ IsInjective(L2[c])
  BY <1>1, <1>2, AppendList
<1>4. Range(L2[h]) = {} /\ IsInjective(L2[h])
  BY <1>1, NoUpdaterFacts
<1>5. /\ Range(L2[c]) \subseteq Range(L[c]) \union Range(L[h]) \union (A \ A)
      /\ Range(L2[h]) \subseteq Range(L[c]) \union Range(L[h]) \union (A \ A)
      /\ Range(L2[c]) \intersect Range(L2[h]) = {}
  BY <1>3, <1>4
<1>6. \A x \in Holders : x # c /\ x # h => L2[x] = L[x]
  BY DEF L, L2
<1>7. Apart(Holders, L2, A)
  <2>1. PICK B : B = A
    OBVIOUS
  <2>2. /\ A \subseteq B
        /\ Range(L2[c]) \subseteq Range(L[c]) \union Range(L[h]) \union (B \ A)
        /\ Range(L2[h]) \subseteq Range(L[c]) \union Range(L[h]) \union (B \ A)
        /\ Range(L2[c]) \intersect Range(L2[h]) = {}
    BY <1>5, <2>1
  <2>3. IsInjective(L2[c]) /\ IsInjective(L2[h]) /\ c # h
    BY <1>3, <1>4
  <2>4. Apart(Holders, L2, B)
    BY <1>0, <1>6, <2>2, <2>3, Moves
  <2> QED
    BY <2>1, <2>4
<1>8. Holders' = Holders /\ (1..buffers)' = A
  BY DEF Holders, A
<1> QED
  BY <1>7, <1>8 DEF HoldersOK, Apart, L2

LEMMA CreateHolders ==
  ASSUME StreamsInv, HoldersOK, NEW u \in Name, NEW once \in BOOLEAN, Create(u, once)
  PROVE  HoldersOK'
<1>1. /\ obj[u].st = "none" /\ obj' = [obj EXCEPT ![u] = Updater(once)]
      /\ cache' = CacheAfterPop("halo", 2 * Neighbours)
      /\ buffers' = buffers + Fresh("halo", 2 * Neighbours) /\ edges' = edges
  BY DEF Create
<1>2. /\ Types /\ QueueOK /\ 2 * Neighbours \in Nat /\ obj \in [Name -> Updaters]
      /\ cache["halo"] = cache.halo /\ cache'["halo"] = cache'.halo
      /\ cache["edge"] = cache.edge /\ cache'["edge"] = cache'.edge
  BY Sizes DEF StreamsInv, Types
<1>3. /\ pop_from_cache("halo", 2 * Neighbours) \in Seq(Nat) /\ cache'.edge = cache.edge
  BY <1>1, <1>2, PopFromCache
<1>4. obj'[u] = Updater(once) /\ \A v \in Name : v # u => obj'[v] = obj[v]
  BY <1>1, <1>2
<1>5. Held(obj[u]) = <<>> /\ <<>> \in Seq(Nat)
  BY <1>1 DEF Held
<1>6. Held(obj'[u]) = <<>> \o pop_from_cache("halo", 2 * Neighbours)
  <2>1. \A s \in Seq(Nat) : <<>> \o s = s
    OBVIOUS
  <2> QED
    BY <1>2, <1>3, <1>4, <2>1, NewUpdater
<1>7. /\ BufferLists[Of(u)] \in Seq(Nat)
      /\ BufferLists'[Of(u)] = BufferLists[Of(u)] \o pop_from_cache("halo", 2 * Neighbours)
  BY <1>5, <1>6, HolderLists, HolderListsNext
<1>8. ASSUME NEW x \in Holders, x # Halo, x # Of(u) PROVE BufferLists'[x] = BufferLists[x]
  <2>1. CASE x = Edge \/ x = InEdges
    BY <1>1, <1>3, <2>1, HolderLists, HolderListsNext
  <2>2. CASE \E v \in Name : x = Of(v)
    <3>1. PICK v \in Name : x = Of(v) /\ v # u
      BY <1>8, <2>2
    <3>2. BufferLists[x] = Held(obj[v]) /\ BufferLists'[x] = Held(obj'[v])
      BY <3>1, HolderLists, HolderListsNext
    <3> QED
      BY <1>4, <3>1, <3>2
  <2> QED
    BY <1>8, <2>1, <2>2, HolderLists
<1>9. /\ Halo \in Holders /\ Of(u) \in Holders /\ Halo # Of(u)
      /\ BufferLists[Halo] = cache["halo"]
      /\ BufferLists'[Halo] = CacheAfterPop("halo", 2 * Neighbours)["halo"]
  BY <1>1, <1>2, HolderLists, HolderListsNext
<1> QED
  BY <1>1, <1>2, <1>7, <1>8, <1>9, HoldersTake

LEMMA FinalizeHolders ==
  ASSUME StreamsInv, HoldersOK, NEW u \in Name, obj[u].st # "none", Finalize(u),
         UNCHANGED <<edges, buffers>>
  PROVE  HoldersOK'
<1>1. /\ cache \in [halo : Seq(Nat), edge : Seq(Nat)] /\ obj \in [Name -> Updaters]
      /\ ObjectOK(obj[u])
  BY DEF StreamsInv, Types
<1>2. obj' = [obj EXCEPT ![u] = NoUpdater] /\ cache' = [cache EXCEPT !.halo = @ \o Held(obj[u])]
  BY DEF Finalize, Held
<1>3. obj'[u] = NoUpdater /\ \A v \in Name : v # u => obj'[v] = obj[v]
  BY <1>1, <1>2
<1>4. cache'.halo = cache.halo \o Held(obj[u]) /\ cache'.edge = cache.edge
  BY <1>1, <1>2
<1>5. Held(obj[u]) \in Seq(Nat) /\ cache.halo \in Seq(Nat) /\ Held(obj'[u]) = <<>>
  BY <1>1, <1>3, HeldList, NoUpdaterFacts
<1>6. ASSUME NEW x \in Holders, x # Halo, x # Of(u) PROVE BufferLists'[x] = BufferLists[x]
  <2>1. CASE x = Edge \/ x = InEdges
    BY <1>4, <2>1, HolderLists, HolderListsNext
  <2>2. CASE \E v \in Name : x = Of(v)
    <3>1. PICK v \in Name : x = Of(v) /\ v # u
      BY <1>6, <2>2
    <3>2. BufferLists[x] = Held(obj[v]) /\ BufferLists'[x] = Held(obj'[v])
      BY <3>1, HolderLists, HolderListsNext
    <3> QED
      BY <1>3, <3>1, <3>2
  <2> QED
    BY <1>6, <2>1, <2>2, HolderLists
<1>7. /\ Halo \in Holders /\ Of(u) \in Holders /\ Halo # Of(u)
      /\ BufferLists[Halo] \in Seq(Nat) /\ BufferLists[Of(u)] \in Seq(Nat)
      /\ BufferLists'[Halo] = BufferLists[Halo] \o BufferLists[Of(u)]
      /\ BufferLists'[Of(u)] = <<>>
  BY <1>4, <1>5, HolderLists, HolderListsNext
<1> QED
  BY <1>6, <1>7, HoldersGive

LEMMA AppendOne ==
  ASSUME NEW s \in Seq(Nat), NEW x \in Nat
  PROVE  Append(s, x) = s \o <<x>>
<1> DEFINE a == Append(s, x)
           b == s \o <<x>>
<1>1. a \in Seq(Nat) /\ Len(a) = Len(s) + 1
  OBVIOUS
<1>2. b \in Seq(Nat) /\ Len(b) = Len(s) + 1
  OBVIOUS
<1>3. ASSUME NEW i \in 1..(Len(s) + 1) PROVE a[i] = b[i]
  OBVIOUS
<1> HIDE DEF a, b
<1>4. a = b
  BY <1>1, <1>2, <1>3
<1> QED
  BY <1>4 DEF a, b

LEMMA EdgeHolders ==
  ASSUME StreamsInv, HoldersOK, EdgesOK, EdgesCached, StartEdges \/ SendEdge \/ RecvEdges
  PROVE  HoldersOK'
<1>1. obj' = obj
  BY DEF StartEdges, SendEdge, RecvEdges
<1>2. /\ Types /\ edges.sent \in Seq(Nat) /\ cache["edge"] = cache.edge
      /\ cache'["edge"] = cache'.edge /\ cache["halo"] = cache.halo /\ cache'["halo"] = cache'.halo
      /\ \A s \in Seq(Nat) : s \o <<>> = s
  BY DEF StreamsInv, Types
\* What is common to taking one buffer and taking all.
<1>3. ASSUME NEW count \in Nat, cache' = CacheAfterPop("edge", count),
             buffers' = buffers + Fresh("edge", count), edges.received = <<>>,
             edges'.sent \o edges'.received = edges.sent \o pop_from_cache("edge", count)
      PROVE  HoldersOK'
  <2>1. cache'.halo = cache.halo
    BY <1>2, <1>3, PopFromCache
  <2>2. BufferLists[InEdges] = edges.sent
    BY <1>2, <1>3, HolderLists
  <2>3. /\ BufferLists[InEdges] \in Seq(Nat)
        /\ BufferLists'[InEdges] = BufferLists[InEdges] \o pop_from_cache("edge", count)
    BY <1>2, <1>3, <2>2, HolderListsNext
  <2>4. \A x \in Holders : x # Edge /\ x # InEdges => BufferLists'[x] = BufferLists[x]
    BY <1>1, <2>1, HolderLists, HolderListsNext
  <2>5. /\ Edge \in Holders /\ InEdges \in Holders /\ Edge # InEdges
        /\ BufferLists[Edge] = cache["edge"]
        /\ BufferLists'[Edge] = CacheAfterPop("edge", count)["edge"]
    BY <1>2, <1>3, HolderLists, HolderListsNext
  <2> QED
    BY <1>3, <2>3, <2>4, <2>5, HoldersTake
<1>4. CASE StartEdges \/ (SendEdge /\ host.k < Neighbours)
  <2>1. CopyEdge
    BY <1>4 DEF StartEdges, SendEdge
  <2>2. PICK f : f = pop_from_cache("edge", 1)
    OBVIOUS
  <2>3. f = <<f[1]>> /\ f[1] \in Nat
    <3>1. f \in Seq(Nat)
      BY <1>2, <2>2, PopFromCache
    <3>2. PICK x : f = [k \in 1..1 |-> x]
      <4>1. PICK e : e = pop_from_cache("edge", 1)[1]
        OBVIOUS
      <4>2. DOMAIN f = 1..1 /\ f = [k \in 1..1 |-> f[k]]
        BY <2>2 DEF pop_from_cache
      <4>3. \A k \in 1..1 : k = 1
        OBVIOUS
      <4> QED
        BY <4>2, <4>3
    <3>3. f = <<x>> /\ f[1] = x
      BY <3>2
    <3> QED
      BY <3>1, <3>3
  <2>4. /\ edges.received = <<>> /\ edges'.received = <<>>
        /\ edges'.sent = Append(edges.sent, f[1]) /\ edges'.sent \in Seq(Nat)
    BY <1>4, <2>1, <2>2, CopyEdgeFacts
  <2>5. Append(edges.sent, f[1]) = edges.sent \o f
    BY <1>2, <2>3, AppendOne
  <2>6. edges'.sent \o edges'.received = edges.sent \o f
    BY <1>2, <2>4, <2>5
  <2>7. cache' = CacheAfterPop("edge", 1) /\ buffers' = buffers + Fresh("edge", 1)
    BY <2>1 DEF CopyEdge
  <2> QED
    BY <1>3, <2>2, <2>4, <2>6, <2>7
<1>5. CASE SendEdge /\ ~ (host.k < Neighbours)
  <2>1. UNCHANGED <<buffers, cache, edges>>
    BY <1>5 DEF SendEdge
  <2> QED
    BY <1>1, <2>1, SameHolders
<1>6. CASE RecvEdges
  <2>1. /\ edges.received = <<>> /\ edges'.sent = edges.sent
        /\ edges'.received = pop_from_cache("edge", Neighbours)
    BY <1>6, RecvEdgesFacts
  <2>2. /\ cache' = CacheAfterPop("edge", Neighbours)
        /\ buffers' = buffers + Fresh("edge", Neighbours) /\ Neighbours \in Nat
    BY <1>6, Sizes DEF RecvEdges
  <2> QED
    BY <1>3, <2>1, <2>2
<1> QED
  BY <1>4, <1>5, <1>6

LEMMA WaitEdgesHolders ==
  ASSUME StreamsInv, HoldersOK, WaitEdges
  PROVE  HoldersOK'
<1>1. /\ cache \in [halo : Seq(Nat), edge : Seq(Nat)] /\ cache.edge \in Seq(Nat)
      /\ edges.sent \in Seq(Nat) /\ edges.received \in Seq(Nat)
  BY DEF StreamsInv, Types
<1>2. /\ cache' = [cache EXCEPT !.edge = @ \o edges.sent \o edges.received]
      /\ edges' = NoEdges /\ UNCHANGED <<obj, buffers>>
  BY DEF WaitEdges
<1>3. cache'.halo = cache.halo /\ cache'.edge = cache.edge \o edges.sent \o edges.received
  BY <1>1, <1>2
<1>4. cache'.edge = cache.edge \o (edges.sent \o edges.received)
  <2>1. \A s, t, r \in Seq(Nat) : s \o t \o r = s \o (t \o r)
    OBVIOUS
  <2> QED
    BY <1>1, <1>3, <2>1
<1>5. edges'.sent \o edges'.received = <<>> /\ edges.sent \o edges.received \in Seq(Nat)
  BY <1>1, <1>2 DEF NoEdges
<1>6. \A x \in Holders : x # Edge /\ x # InEdges => BufferLists'[x] = BufferLists[x]
  BY <1>2, <1>3, HolderLists, HolderListsNext
<1>7. /\ Edge \in Holders /\ InEdges \in Holders /\ Edge # InEdges
      /\ BufferLists[Edge] \in Seq(Nat) /\ BufferLists[InEdges] \in Seq(Nat)
      /\ BufferLists'[Edge] = BufferLists[Edge] \o BufferLists[InEdges]
      /\ BufferLists'[InEdges] = <<>>
  BY <1>1, <1>4, <1>5, HolderLists, HolderListsNext
<1> QED
  BY <1>2, <1>6, <1>7, HoldersGive

LEMMA NextHolders ==
  ASSUME StreamsInv, HoldersOK, EdgesOK, EdgesCached, [Next]_vars
  PROVE  HoldersOK'
<1>1. ASSUME UNCHANGED <<buffers, cache, edges, obj>> PROVE HoldersOK'
  BY <1>1, SameHolders
<1>2. ASSUME NEW q \in Quantity, Compute(q) PROVE HoldersOK'
  BY <1>1, <1>2 DEF Compute
<1>3. ASSUME NEW u \in Name, NEW once \in BOOLEAN, Create(u, once) PROVE HoldersOK'
  BY <1>3, CreateHolders
<1>4. ASSUME NEW u \in Name, BeginStart(u) \/ BeginWait(u) \/ Isend(u) \/ LaunchUnpack(u)
      PROVE  HoldersOK'
  BY <1>1, <1>4 DEF BeginStart, BeginWait, Isend, LaunchUnpack
<1>5. ASSUME NEW u \in Name, PostAndPack(u) PROVE HoldersOK'
  <2>1. UNCHANGED <<buffers, cache, edges>> /\ \A v \in Name : Held(obj'[v]) = Held(obj[v])
    BY <1>5, PackLists DEF PostAndPack, ListsKept
  <2> QED
    BY <2>1, SameHolders
<1>6. ASSUME NEW u \in Name, EndWait(u), ~ obj[u].once PROVE HoldersOK'
  <2>1. UNCHANGED <<buffers, cache, edges>> /\ \A v \in Name : Held(obj'[v]) = Held(obj[v])
    BY <1>6, KeepLists DEF EndWait, KeepUpdater, ListsKept
  <2> QED
    BY <2>1, SameHolders
<1>7. ASSUME NEW u \in Name, (EndWait(u) /\ obj[u].once) \/ Drop(u) PROVE HoldersOK'
  <2>1. obj[u].st # "none"
    BY <1>7, HostUpdater DEF EndWait, Drop
  <2>2. Finalize(u) /\ UNCHANGED <<edges, buffers>>
    BY <1>7 DEF EndWait, Drop
  <2> QED
    BY <2>1, <2>2, FinalizeHolders
<1>8. ASSUME StartEdges \/ SendEdge \/ RecvEdges PROVE HoldersOK'
  BY <1>8, EdgeHolders
<1>9. ASSUME WaitEdges PROVE HoldersOK'
  BY <1>9, WaitEdgesHolders
<1>10. ASSUME DeviceStep \/ MpiStep \/ UNCHANGED vars PROVE HoldersOK'
  BY <1>1, <1>10 DEF DeviceStep, Run, MpiStep, MpiRead, MpiWrite, vars, hostVars
<1> QED
  BY <1>2, <1>3, <1>4, <1>5, <1>6, <1>7, <1>8, <1>9, <1>10 DEF Next, NewCall, HostStep

-----------------------------------------------------------------------------
(* The requests of MPI.                                                    *)

\* Who makes requests.
LEMMA MpiSteps ==
  ASSUME [Next]_vars
  PROVE  \/ sends' \subseteq sends /\ recvs' \subseteq recvs
         \/ \E u \in Name : Isend(u) \/ PostAndPack(u)
         \/ SendEdge \/ RecvEdges
<1>1. ASSUME NEW q \in Quantity, Compute(q) PROVE sends' = sends /\ recvs' = recvs
  BY <1>1 DEF Compute
<1>2. ASSUME NEW u \in Name, NEW once \in BOOLEAN, Create(u, once)
      PROVE  sends' = sends /\ recvs' = recvs
  BY <1>2 DEF Create
<1>3. ASSUME NEW u \in Name, BeginStart(u) \/ BeginWait(u) \/ LaunchUnpack(u) \/ EndWait(u) \/ Drop(u)
      PROVE  sends' = sends /\ recvs' = recvs
  BY <1>3 DEF BeginStart, BeginWait, LaunchUnpack, EndWait, Drop
<1>4. ASSUME StartEdges \/ WaitEdges PROVE sends' = sends /\ recvs' = recvs
  BY <1>4 DEF StartEdges, WaitEdges
<1>5. ASSUME DeviceStep \/ MpiStep \/ UNCHANGED vars
      PROVE  sends' \subseteq sends /\ recvs' \subseteq recvs
  BY <1>5 DEF DeviceStep, Run, MpiStep, MpiRead, MpiWrite, vars
<1> QED
  BY <1>1, <1>2, <1>3, <1>4, <1>5 DEF Next, NewCall, HostStep

\* Where the host goes.
LEMMA HostSteps ==
  ASSUME [Next]_vars
  PROVE  \/ host' = host
         \/ host'.at \notin {"isend", "edges", "unpack"}
         \/ \E u \in Name : Isend(u) \/ PostAndPack(u) \/ LaunchUnpack(u)
         \/ StartEdges \/ SendEdge
<1>1. ASSUME NEW q \in Quantity, Compute(q) PROVE host' = host
  BY <1>1 DEF Compute
<1>2. ASSUME NEW u \in Name, NEW once \in BOOLEAN, Create(u, once)
      PROVE  host' = host \/ host'.at = "start"
  BY <1>2 DEF Create, At
<1>3. ASSUME NEW u \in Name, BeginStart(u) \/ BeginWait(u) \/ EndWait(u) \/ Drop(u)
      PROVE  host' = host \/ host'.at \in {"start", "wait", "ready"}
  BY <1>3 DEF BeginStart, BeginWait, EndWait, Drop, At, Ready
<1>4. ASSUME RecvEdges \/ WaitEdges PROVE host' = host \/ host'.at = "ready"
  <2>1. RecvEdges => host' = Ready
    BY DEF RecvEdges
  <2>2. WaitEdges => host' = host
    BY DEF WaitEdges
  <2> QED
    BY <1>4, <2>1, <2>2 DEF Ready
<1>5. ASSUME DeviceStep \/ MpiStep \/ UNCHANGED vars PROVE host' = host
  BY <1>5 DEF DeviceStep, Run, MpiStep, MpiRead, MpiWrite, vars, hostVars
<1> QED
  BY <1>1, <1>2, <1>3, <1>4, <1>5 DEF Next, NewCall, HostStep

\* An updater in flight stays so while MPI has requests of its own.
LEMMA FlightStays ==
  ASSUME StreamsInv, UnpackOK, [Next]_vars, NEW u \in Name, InFlight(u), Pending(u) # {}
  PROVE  obj'[u] = obj[u]
<1>1. obj[u].st = "inflight"
  BY DEF InFlight
<1>2. ~ EndWait(u)
  BY DEF EndWait, UnpackOK, At
<1> QED
  BY <1>1, <1>2, UpdaterStep

\* The buffers that MPI has for the edges stay.
LEMMA EdgesStay ==
  ASSUME StreamsInv, EdgesOK, EdgesCached, [Next]_vars, Pending(0) # {}
  PROVE  /\ \A n \in 1..Len(edges.sent) : n \in 1..Len(edges'.sent) /\ edges'.sent[n] = edges.sent[n]
         /\ \A n \in 1..Len(edges.received) :
              n \in 1..Len(edges'.received) /\ edges'.received[n] = edges.received[n]
<1>0. Len(edges.sent) \in Nat /\ Len(<<>>) = 0
  BY DEF StreamsInv, Types
<1>1. CASE edges' = edges
  BY <1>1
<1>2. CASE StartEdges \/ (SendEdge /\ host.k < Neighbours)
  <2>1. CopyEdge
    BY <1>2 DEF StartEdges, SendEdge
  <2>2. /\ edges.received = <<>> /\ Len(edges'.sent) = Len(edges.sent) + 1
        /\ \A n \in 1..Len(edges.sent) : edges'.sent[n] = edges.sent[n]
    BY <1>2, <2>1, CopyEdgeFacts
  <2>3. \A n \in 1..Len(edges.sent) : n \in 1..Len(edges'.sent)
    BY <1>0, <2>2
  <2> QED
    BY <1>0, <2>2, <2>3
<1>3. CASE SendEdge /\ ~ (host.k < Neighbours)
  BY <1>3 DEF SendEdge
<1>4. CASE RecvEdges
  BY <1>0, <1>4, RecvEdgesFacts
<1>5. CASE WaitEdges
  BY <1>5 DEF WaitEdges
<1> QED
  BY <1>1, <1>2, <1>3, <1>4, <1>5, EdgeSteps

\* A send that is not complete stays in order.
LEMMA OldSend ==
  ASSUME StreamsInv, EdgesOK, EdgesCached, UnpackOK, [Next]_vars,
         NEW s \in sends, SendOK(s)
  PROVE  SendOK(s)'
<1>0. Pending(s.name) # {} /\ 0 \notin Name
  BY Sizes DEF Pending
<1>1. CASE s.name \in Name /\ InFlight(s.name)
  <2>1. /\ s.n \in Neighbour /\ s.buf = obj[s.name].pack[s.n]
        /\ (host.at = "isend" /\ host.name = s.name) => s.n < host.k
    BY <1>0, <1>1 DEF SendOK
  <2>2. obj'[s.name] = obj[s.name]
    BY <1>0, <1>1, FlightStays
  <2>3. (host'.at = "isend" /\ host'.name = s.name) => s.n < host'.k
    <3>1. CASE host' = host
      BY <2>1, <3>1
    <3>2. CASE host'.at \notin {"isend", "edges", "unpack"}
      BY <3>2
    <3>3. ASSUME NEW u \in Name, Isend(u) PROVE host'.at = "isend" /\ host'.name = s.name => s.n < host'.k
      <4>1. PICK n \in Neighbour : /\ host = At("isend", u, n)
                                   /\ host' = IF n < Neighbours THEN At("isend", u, n + 1) ELSE Ready
        BY <3>3 DEF Isend
      <4>2. host'.at = "isend" => host' = At("isend", u, n + 1)
        BY <4>1 DEF Ready
      <4>3. u = s.name => s.n < n
        BY <2>1, <4>1 DEF At
      <4>4. n \in Nat /\ s.n \in Nat
        BY <2>1, Sizes DEF Neighbour
      <4>5. s.n < n => s.n < n + 1
        BY <4>4
      <4> QED
        BY <4>2, <4>3, <4>5 DEF At
    <3>4. ASSUME NEW u \in Name, PostAndPack(u) PROVE host'.name # s.name
      <4>1. host' = At("isend", u, 1) /\ obj[u].st = "idle"
        BY <3>4, PackLists DEF PostAndPack
      <4> QED
        BY <1>1, <4>1 DEF At, InFlight
    <3>5. ASSUME NEW u \in Name, LaunchUnpack(u) PROVE host'.at = "unpack"
      BY <3>5 DEF LaunchUnpack, At
    <3>6. ASSUME StartEdges \/ SendEdge PROVE host'.at = "edges"
      BY <3>6 DEF StartEdges, SendEdge, At
    <3> QED
      BY <3>1, <3>2, <3>3, <3>4, <3>5, <3>6, HostSteps
  <2> QED
    BY <1>1, <2>1, <2>2, <2>3 DEF SendOK, InFlight
<1>2. CASE s.name = 0
  <2>1. /\ s.n \in 1..Len(edges.sent) /\ s.buf = edges.sent[s.n]
        /\ host.at = "edges" => s.n < host.k
    BY <1>0, <1>2 DEF SendOK
  <2>2. s.n \in 1..Len(edges'.sent) /\ edges'.sent[s.n] = edges.sent[s.n]
    BY <1>0, <1>2, <2>1, EdgesStay
  <2>3. host'.at = "edges" => s.n < host'.k
    <3>1. CASE host' = host
      BY <2>1, <3>1
    <3>2. CASE host'.at \notin {"isend", "edges", "unpack"}
      BY <3>2
    <3>3. ASSUME NEW u \in Name, Isend(u) PROVE host'.at # "edges"
      BY <3>3 DEF Isend, At, Ready
    <3>4. ASSUME NEW u \in Name, PostAndPack(u) \/ LaunchUnpack(u) PROVE host'.at # "edges"
      BY <3>4 DEF PostAndPack, LaunchUnpack, At
    <3>5. ASSUME StartEdges PROVE FALSE
      <4>1. edges.sent = <<>>
        BY <3>5 DEF StartEdges, NoEdges
      <4> QED
        BY <2>1, <4>1
    <3>6. ASSUME SendEdge PROVE s.n < host'.k
      <4>1. PICK n \in Neighbour : host = At("edges", 0, n) /\ host' = At("edges", 0, n + 1)
        BY <3>6 DEF SendEdge
      <4>2. s.n < n
        BY <2>1, <4>1 DEF At
      <4>3. n \in Nat /\ s.n \in Nat
        BY <2>1, Sizes DEF Neighbour
      <4>4. s.n < n + 1
        BY <4>2, <4>3
      <4> QED
        BY <4>1, <4>4 DEF At
    <3> QED
      BY <3>1, <3>2, <3>3, <3>4, <3>5, <3>6, HostSteps
  <2> QED
    BY <1>2, <2>1, <2>2, <2>3 DEF SendOK
<1> QED
  BY <1>1, <1>2 DEF SendOK

LEMMA OldRecv ==
  ASSUME StreamsInv, EdgesOK, EdgesCached, UnpackOK, [Next]_vars,
         NEW v \in recvs, RecvOK(v)
  PROVE  RecvOK(v)'
<1>0. Pending(v.name) # {}
  BY DEF Pending
<1>1. CASE /\ v.name \in Name /\ InFlight(v.name)
           /\ v.n \in Neighbour /\ v.buf = obj[v.name].unpack[v.n]
  <2>1. obj'[v.name] = obj[v.name]
    BY <1>0, <1>1, FlightStays
  <2> QED
    BY <1>1, <2>1 DEF RecvOK, InFlight
<1>2. CASE /\ v.name = 0
           /\ v.n \in 1..Len(edges.received) /\ v.buf = edges.received[v.n]
  <2>1. v.n \in 1..Len(edges'.received) /\ edges'.received[v.n] = edges.received[v.n]
    BY <1>0, <1>2, EdgesStay
  <2> QED
    BY <1>2, <2>1 DEF RecvOK
<1> QED
  BY <1>1, <1>2 DEF RecvOK

LEMMA NextMpi ==
  ASSUME StreamsInv, EdgesOK, EdgesCached, UnpackOK, MpiOK, [Next]_vars
  PROVE  MpiOK' /\ UnpackOK'
<1>1. (\A s \in sends : SendOK(s)') /\ (\A v \in recvs : RecvOK(v)')
  BY OldSend, OldRecv DEF MpiOK
<1>2. CASE sends' \subseteq sends /\ recvs' \subseteq recvs
  <2>1. MpiOK'
    BY <1>1, <1>2 DEF MpiOK
  <2>2. UnpackOK'
    <3> SUFFICES ASSUME host'.at = "unpack" PROVE Pending(host.name)' = {}
      BY DEF UnpackOK
    <3>1. CASE host' = host
      BY <1>2, <3>1 DEF UnpackOK, Pending
    <3>2. ASSUME NEW u \in Name, LaunchUnpack(u) PROVE Pending(host.name)' = {}
      <4>1. host' = At("unpack", u, 0) /\ Pending(u) = {}
        BY <3>2 DEF LaunchUnpack
      <4> QED
        BY <1>2, <4>1 DEF Pending, At
    <3>3. ASSUME NEW u \in Name, Isend(u) \/ PostAndPack(u) PROVE FALSE
      BY <3>3 DEF Isend, PostAndPack, At, Ready
    <3>4. ASSUME StartEdges \/ SendEdge PROVE FALSE
      BY <3>4 DEF StartEdges, SendEdge, At
    <3> QED
      BY <3>1, <3>2, <3>3, <3>4, HostSteps
  <2> QED
    BY <2>1, <2>2
<1>3. ASSUME NEW u \in Name, Isend(u) PROVE MpiOK' /\ UnpackOK'
  <2>0. PICK w : w = [i \in Part |-> version[Fields[i]]]
    OBVIOUS
  <2>a. PICK n \in Neighbour : /\ host = At("isend", u, n) /\ UNCHANGED <<obj, recvs>>
                               /\ host' = IF n < Neighbours THEN At("isend", u, n + 1) ELSE Ready
                               /\ sends' = sends \union
                                    {[name |-> u, n |-> n, buf |-> obj[u].pack[n], want |-> w]}
    BY <1>3, <2>0 DEF Isend
  <2>b. PICK s : s = [name |-> u, n |-> n, buf |-> obj[u].pack[n], want |-> w]
    OBVIOUS
  <2>1. /\ host = At("isend", u, n) /\ sends' = sends \union {s}
        /\ host' = IF n < Neighbours THEN At("isend", u, n + 1) ELSE Ready
        /\ s.name = u /\ s.n = n /\ s.buf = obj[u].pack[n]
        /\ UNCHANGED <<obj, recvs>>
    BY <2>a, <2>b
  <2>2. obj[u].st = "inflight"
    BY <2>1, HostUpdater
  <2>3. host'.at = "isend" /\ host'.name = u => n < host'.k
    <3>1. n < n + 1
      BY Sizes DEF Neighbour
    <3> QED
      BY <2>1, <3>1 DEF At, Ready
  <2>4. SendOK(s)'
    BY <2>1, <2>2, <2>3 DEF SendOK, InFlight
  <2>5. MpiOK'
    BY <1>1, <2>1, <2>4 DEF MpiOK
  <2>6. host'.at # "unpack"
    BY <2>1 DEF At, Ready
  <2> QED
    BY <2>5, <2>6 DEF UnpackOK
<1>4. ASSUME NEW u \in Name, PostAndPack(u) PROVE MpiOK' /\ UnpackOK'
  <2>1. /\ sends' = sends /\ host' = At("isend", u, 1)
        /\ recvs' = recvs \union
             {[name |-> u, n |-> n, buf |-> obj[u].unpack[n], val |-> calls] : n \in Neighbour}
    BY <1>4 DEF PostAndPack
  <2>2. obj'[u].st = "inflight" /\ obj'[u].unpack = obj[u].unpack
    BY <1>4, PackLists DEF ListsKept
  <2>3. ASSUME NEW v \in recvs', v \notin recvs PROVE RecvOK(v)'
    <3>1. PICK n \in Neighbour : v = [name |-> u, n |-> n, buf |-> obj[u].unpack[n], val |-> calls]
      BY <2>1, <2>3
    <3>2. v.name = u /\ v.n = n /\ v.buf = obj[u].unpack[n]
      BY <3>1
    <3> QED
      BY <2>2, <3>2 DEF RecvOK, InFlight
  <2>4. MpiOK'
    BY <1>1, <2>1, <2>3 DEF MpiOK
  <2>5. host'.at # "unpack"
    BY <2>1 DEF At
  <2> QED
    BY <2>4, <2>5 DEF UnpackOK
<1>5. ASSUME SendEdge PROVE MpiOK' /\ UnpackOK'
  <2>1. PICK n \in Neighbour : /\ host = At("edges", 0, n) /\ sends' = sends \union {SentEdge(n)}
                               /\ host' = At("edges", 0, n + 1) /\ UNCHANGED <<obj, recvs>>
    BY <1>5 DEF SendEdge, At
  <2>2. n \in 1..Len(edges.sent)
    <3>1. Len(edges.sent) = n /\ n \in Nat /\ n > 0
      BY <2>1, Sizes DEF EdgesOK, At, Neighbour
    <3> QED
      BY <3>1
  <2>3. n \in 1..Len(edges'.sent) /\ edges'.sent[n] = edges.sent[n]
    <3>1. CASE n < Neighbours
      <4>1. CopyEdge /\ host.k < Neighbours
        BY <1>5, <2>1, <3>1 DEF SendEdge, At
      <4>2. /\ Len(edges'.sent) = Len(edges.sent) + 1 /\ edges.sent \in Seq(Nat)
            /\ \A k \in 1..Len(edges.sent) : edges'.sent[k] = edges.sent[k]
        BY <1>5, <4>1, CopyEdgeFacts DEF StreamsInv, Types
      <4>3. Len(edges.sent) \in Nat
        BY <4>2
      <4> QED
        BY <2>2, <4>2, <4>3
    <3>2. CASE ~ (n < Neighbours)
      <4>1. edges' = edges
        BY <1>5, <2>1, <3>2 DEF SendEdge, At
      <4> QED
        BY <2>2, <4>1
    <3> QED
      BY <3>1, <3>2
  <2>4. PICK s : s = SentEdge(n)
    OBVIOUS
  <2>5. s.name = 0 /\ s.n = n /\ s.buf = edges.sent[n]
    BY <2>4 DEF SentEdge
  <2>6. n < host'.k
    <3>1. n < n + 1
      BY Sizes DEF Neighbour
    <3> QED
      BY <2>1, <3>1 DEF At
  <2>7. SendOK(s)'
    BY <2>3, <2>5, <2>6 DEF SendOK
  <2>8. MpiOK'
    BY <1>1, <2>1, <2>4, <2>7 DEF MpiOK
  <2>9. host'.at # "unpack"
    BY <2>1 DEF At
  <2> QED
    BY <2>8, <2>9 DEF UnpackOK
<1>6. ASSUME RecvEdges PROVE MpiOK' /\ UnpackOK'
  <2>1. PICK b : b = pop_from_cache("edge", Neighbours)
    OBVIOUS
  <2>2. /\ sends' = sends /\ host' = Ready
        /\ recvs' = recvs \union
             {[name |-> 0, n |-> n, buf |-> b[n], val |-> edges.exch] : n \in Neighbour}
    BY <1>6, <2>1 DEF RecvEdges
  <2>3. edges'.received = b /\ Len(b) = Neighbours
    BY <1>6, <2>1, RecvEdgesFacts
  <2>4. ASSUME NEW v \in recvs', v \notin recvs PROVE RecvOK(v)'
    <3>1. PICK n \in Neighbour : v = [name |-> 0, n |-> n, buf |-> b[n], val |-> edges.exch]
      BY <2>2, <2>4
    <3>2. v.name = 0 /\ v.n = n /\ v.buf = b[n] /\ n \in 1..Len(b)
      BY <2>3, <3>1 DEF Neighbour
    <3> QED
      BY <2>3, <3>2 DEF RecvOK
  <2>5. MpiOK'
    BY <1>1, <2>2, <2>4 DEF MpiOK
  <2>6. host'.at # "unpack"
    BY <2>2 DEF Ready
  <2> QED
    BY <2>5, <2>6 DEF UnpackOK
<1> QED
  BY <1>2, <1>3, <1>4, <1>5, <1>6, MpiSteps

-----------------------------------------------------------------------------
(* The private streams.                                                    *)

\* The streams have what they had, and the kernels of an updater.
FieldsQueued(o, l) ==
  /\ DOMAIN queue' = DOMAIN queue
  /\ \A s \in DOMAIN queue : \A k \in Range(queue'[s]) :
       \/ k \in Queued(s)
       \/ \E j \in 1..Streams : k = l[j] /\ s = IF wide THEN 0 ELSE o.streams[j]

LEMMA FieldQueues ==
  ASSUME StreamsInv, NEW o, DOMAIN o.streams = 1..Streams, 0 \notin Range(o.streams),
         NEW S, NEW l \in [1..Streams -> S], queue' = LaunchAll(o, l)
  PROVE  FieldsQueued(o, l)
<1>1. Streams \in Nat /\ QueueOK /\ wide \in BOOLEAN
  BY Sizes DEF StreamsInv, Types
<1>2. l \in Seq(S) /\ Len(l) = Streams
  BY <1>1, KernelList
<1>3. FieldsLaunched(o, l)
  BY <1>1, <1>2, LaunchFields
<1>4. DOMAIN l = 1..Streams /\ DOMAIN queue' = DOMAIN queue
  BY DEF LaunchAll
<1>5. ASSUME NEW s \in DOMAIN queue, NEW k \in Range(queue'[s]), k \notin Queued(s)
      PROVE  \E j \in 1..Streams : k = l[j] /\ s = IF wide THEN 0 ELSE o.streams[j]
  <2>1. CASE wide
    <3>1. Range(queue'[0]) = Queued(0) \union Range(l) /\ (s # 0 => queue'[s] = queue[s])
      BY <1>3, <2>1 DEF FieldsLaunched, LaunchedOn
    <3>2. s = 0
      BY <1>5, <3>1 DEF Queued
    <3>3. k \in Range(l)
      BY <1>5, <3>1, <3>2
    <3> QED
      BY <1>4, <2>1, <3>2, <3>3 DEF Range
  <2>2. CASE ~ wide
    <3>1. \/ queue'[s] = queue[s]
          \/ \E j \in 1..Streams : s = o.streams[j] /\ Range(queue'[s]) = Queued(s) \union {l[j]}
      BY <1>3, <2>2 DEF FieldsLaunched
    <3> QED
      BY <1>5, <2>2, <3>1 DEF Queued
  <2> QED
    BY <2>1, <2>2
<1> QED
  BY <1>4, <1>5 DEF FieldsQueued

\* A pack and an unpack have the neighbour and the field of their stream.
LEMMA PackQueues ==
  ASSUME StreamsInv, NEW u \in Name, PostAndPack(u)
  PROVE  /\ \A s \in DOMAIN queue : Queued(s) = {}
         /\ DOMAIN queue' = DOMAIN queue
         /\ \A s \in DOMAIN queue : \A k \in Range(queue'[s]) :
              \E n \in Neighbour, i \in Part :
                /\ k = pack(obj[u].pack[n], i, n)
                /\ s = IF wide THEN 0 ELSE StreamOf(obj[u], n, i)
<1>1. host = At("start", u, 0) /\ queue' = async_pack(obj[u]) /\ device_idle /\ QueueOK
  BY DEF PostAndPack, _device_synchronize, StreamsInv
<1>2. DOMAIN obj[u].streams = 1..Streams /\ 0 \notin Range(obj[u].streams)
  BY <1>1, HostUpdater
<1>3. \A s \in DOMAIN queue : Queued(s) = {}
  BY <1>1, DeviceIdle
<1> DEFINE l == [k \in 1..Streams |-> pack(obj[u].pack[NeighbourOf(k)], PartOf(k), NeighbourOf(k))]
<1>4. queue' = LaunchAll(obj[u], l)
  BY <1>1, <1>2 DEF async_pack
<1>5. PICK S : l \in [1..Streams -> S]
  <2>1. PICK S : S = {l[k] : k \in 1..Streams}
    OBVIOUS
  <2> QED
    BY <2>1
<1>6. \A j \in 1..Streams : \E n \in Neighbour, i \in Part :
        l[j] = pack(obj[u].pack[n], i, n) /\ obj[u].streams[j] = StreamOf(obj[u], n, i)
  <2> TAKE j \in 1..Streams
  <2>1. /\ NeighbourOf(j) \in Neighbour /\ PartOf(j) \in Part
        /\ (NeighbourOf(j) - 1) * Len(Fields) + PartOf(j) = j
    BY StreamIndex
  <2>2. l[j] = pack(obj[u].pack[NeighbourOf(j)], PartOf(j), NeighbourOf(j))
    OBVIOUS
  <2>3. StreamOf(obj[u], NeighbourOf(j), PartOf(j)) = obj[u].streams[j]
    BY <2>1 DEF StreamOf
  <2> HIDE DEF l
  <2> QED
    BY <2>1, <2>2, <2>3
<1> HIDE DEF l
<1>7. FieldsQueued(obj[u], l)
  BY <1>2, <1>4, <1>5, FieldQueues
<1>8. ASSUME NEW s \in DOMAIN queue, NEW k \in Range(queue'[s])
      PROVE  \E n \in Neighbour, i \in Part :
                /\ k = pack(obj[u].pack[n], i, n)
                /\ s = IF wide THEN 0 ELSE StreamOf(obj[u], n, i)
  <2>1. PICK j \in 1..Streams : k = l[j] /\ s = IF wide THEN 0 ELSE obj[u].streams[j]
    BY <1>3, <1>7 DEF FieldsQueued
  <2>2. PICK n \in Neighbour, i \in Part :
          l[j] = pack(obj[u].pack[n], i, n) /\ obj[u].streams[j] = StreamOf(obj[u], n, i)
    BY <1>6
  <2> QED
    BY <2>1, <2>2
<1> QED
  BY <1>3, <1>7, <1>8 DEF FieldsQueued

LEMMA UnpackQueues ==
  ASSUME StreamsInv, NEW u \in Name, LaunchUnpack(u)
  PROVE  /\ DOMAIN queue' = DOMAIN queue
         /\ \A s \in DOMAIN queue : \A k \in Range(queue'[s]) :
              \/ k \in Queued(s)
              \/ \E n \in Neighbour, i \in Part :
                   /\ k = unpack(obj[u].unpack[n], i, n)
                   /\ s = IF wide THEN 0 ELSE StreamOf(obj[u], n, i)
<1>1. host = At("wait", u, 0) /\ queue' = async_unpack(obj[u])
  BY DEF LaunchUnpack
<1>2. DOMAIN obj[u].streams = 1..Streams /\ 0 \notin Range(obj[u].streams)
  BY <1>1, HostUpdater
<1> DEFINE l == [k \in 1..Streams |-> unpack(obj[u].unpack[NeighbourOf(k)], PartOf(k), NeighbourOf(k))]
<1>4. queue' = LaunchAll(obj[u], l)
  BY <1>1, <1>2 DEF async_unpack
<1>5. PICK S : l \in [1..Streams -> S]
  <2>1. PICK S : S = {l[k] : k \in 1..Streams}
    OBVIOUS
  <2> QED
    BY <2>1
<1>6. \A j \in 1..Streams : \E n \in Neighbour, i \in Part :
        l[j] = unpack(obj[u].unpack[n], i, n) /\ obj[u].streams[j] = StreamOf(obj[u], n, i)
  <2> TAKE j \in 1..Streams
  <2>1. /\ NeighbourOf(j) \in Neighbour /\ PartOf(j) \in Part
        /\ (NeighbourOf(j) - 1) * Len(Fields) + PartOf(j) = j
    BY StreamIndex
  <2>2. l[j] = unpack(obj[u].unpack[NeighbourOf(j)], PartOf(j), NeighbourOf(j))
    OBVIOUS
  <2>3. StreamOf(obj[u], NeighbourOf(j), PartOf(j)) = obj[u].streams[j]
    BY <2>1 DEF StreamOf
  <2> HIDE DEF l
  <2> QED
    BY <2>1, <2>2, <2>3
<1> HIDE DEF l
<1>7. FieldsQueued(obj[u], l)
  BY <1>2, <1>4, <1>5, FieldQueues
<1>8. ASSUME NEW s \in DOMAIN queue, NEW k \in Range(queue'[s]), k \notin Queued(s)
      PROVE  \E n \in Neighbour, i \in Part :
                /\ k = unpack(obj[u].unpack[n], i, n)
                /\ s = IF wide THEN 0 ELSE StreamOf(obj[u], n, i)
  <2>1. PICK j \in 1..Streams : k = l[j] /\ s = IF wide THEN 0 ELSE obj[u].streams[j]
    BY <1>7, <1>8 DEF FieldsQueued
  <2>2. PICK n \in Neighbour, i \in Part :
          l[j] = unpack(obj[u].unpack[n], i, n) /\ obj[u].streams[j] = StreamOf(obj[u], n, i)
    BY <1>6
  <2> QED
    BY <2>1, <2>2
<1> QED
  BY <1>7, <1>8 DEF FieldsQueued

\* Who else gives kernels to a private stream: nobody.
LEMMA PrivateSteps ==
  ASSUME StreamsInv, [Next]_vars
  PROVE  \/ \E u \in Name : PostAndPack(u) \/ LaunchUnpack(u)
         \/ /\ wide' = wide
            /\ \A s \in DOMAIN queue' \ {0} : \A k \in Range(queue'[s]) :
                 s \in DOMAIN queue /\ k \in Queued(s)
<1> DEFINE Quiet == /\ wide' = wide
                    /\ \A s \in DOMAIN queue' \ {0} : \A k \in Range(queue'[s]) :
                         s \in DOMAIN queue /\ k \in Queued(s)
<1>0. QueueOK /\ Types /\ \A u \in Name : ObjectOK(obj[u])
  BY DEF StreamsInv
<1>1. ASSUME wide' = wide, queue' = queue PROVE Quiet
  BY <1>1 DEF Queued
<1>2. ASSUME wide' = wide, NEW l, queue' = Launched(0, l) PROVE Quiet
  <2>1. DOMAIN queue' = DOMAIN queue /\ \A s \in DOMAIN queue : s # 0 => queue'[s] = queue[s]
    BY <1>2 DEF Launched
  <2> QED
    BY <1>2, <2>1 DEF Queued
<1>3. ASSUME NEW q \in Quantity, Compute(q) PROVE Quiet
  <2>1. wide' = wide /\ \E l : queue' = Launched(0, l)
    BY <1>3 DEF Compute
  <2> QED
    BY <1>2, <2>1
<1>4. ASSUME NEW u \in Name, NEW once \in BOOLEAN, Create(u, once) PROVE Quiet
  <2>1. wide' = wide
    BY <1>4 DEF Create
  <2>2. \A t \in DOMAIN queue' \ {0} :
          IF t \in DOMAIN queue THEN queue'[t] = queue[t] ELSE queue'[t] = <<>>
    BY <1>4, CreateQueues
  <2> QED
    BY <2>1, <2>2, NoUpdaterFacts DEF Queued
<1>5. ASSUME NEW u \in Name, BeginStart(u) \/ BeginWait(u) \/ Isend(u) PROVE Quiet
  BY <1>1, <1>5 DEF BeginStart, BeginWait, Isend
<1>6. ASSUME NEW u \in Name, EndWait(u) \/ Drop(u) PROVE Quiet
  BY <1>1, <1>6 DEF EndWait, Drop
<1>7. ASSUME StartEdges \/ WaitEdges \/ RecvEdges PROVE Quiet
  <2>1. wide' = wide /\ \E l : queue' = Launched(0, l)
    BY <1>7 DEF StartEdges, WaitEdges, RecvEdges, CopyEdge
  <2> QED
    BY <1>2, <2>1
<1>8. ASSUME SendEdge PROVE Quiet
  <2>1. wide' = wide /\ (queue' = queue \/ \E l : queue' = Launched(0, l))
    BY <1>8 DEF SendEdge, CopyEdge
  <2> QED
    BY <1>1, <1>2, <2>1
<1>9. ASSUME NEW s \in DOMAIN queue, Run(s) PROVE Quiet
  <2>1. wide' = wide /\ queue[s] # <<>> /\ queue' = [queue EXCEPT ![s] = Tail(@)]
    BY <1>9 DEF Run
  <2>2. DOMAIN queue' = DOMAIN queue /\ \A t \in DOMAIN queue : Range(queue'[t]) \subseteq Queued(t)
    BY <1>0, <2>1, RunTakes
  <2> QED
    BY <2>1, <2>2
<1>10. ASSUME MpiStep \/ UNCHANGED vars PROVE Quiet
  BY <1>1, <1>10 DEF MpiStep, MpiRead, MpiWrite, vars
<1> HIDE DEF Quiet
<1>11. Quiet \/ \E u \in Name : PostAndPack(u) \/ LaunchUnpack(u)
  BY <1>3, <1>4, <1>5, <1>6, <1>7, <1>8, <1>9, <1>10 DEF Next, NewCall, HostStep, DeviceStep
<1> QED
  BY <1>11 DEF Quiet

\* While packs or unpacks are queued the host only goes on with their updater.
LEMMA BusySteps ==
  ASSUME StreamsInv, [Next]_vars, host.at \in {"isend", "unpack"}
  PROVE  \/ host' = host /\ obj' = obj
         \/ \E u \in Name : Isend(u) \/ EndWait(u)
<1>1. host.at # "ready"
  OBVIOUS
<1>2. \A do : ~ Call(do)
  BY DEF Call, Ready
<1>3. ~ NewCall
  BY <1>2 DEF NewCall, Compute, Create, BeginStart, BeginWait, Drop, StartEdges, WaitEdges
<1>4. ~ SendEdge /\ ~ RecvEdges /\ \A u \in Name : ~ PostAndPack(u) /\ ~ LaunchUnpack(u)
  BY DEF SendEdge, RecvEdges, PostAndPack, LaunchUnpack, At
<1>5. DeviceStep \/ MpiStep \/ UNCHANGED vars => host' = host /\ obj' = obj
  BY DEF DeviceStep, Run, MpiStep, MpiRead, MpiWrite, vars, hostVars
<1> QED
  BY <1>3, <1>4, <1>5 DEF Next, HostStep

LEMMA NextPrivate ==
  ASSUME StreamsInv, PrivateOK, [Next]_vars
  PROVE  PrivateOK'
<1>0. QueueOK /\ DOMAIN queue = 0..NumStreams
  BY DEF StreamsInv, QueueOK
<1>1. ASSUME NEW u \in Name, PostAndPack(u) PROVE PrivateOK'
  <2>1. /\ DOMAIN queue' = DOMAIN queue
        /\ \A s \in DOMAIN queue : \A k \in Range(queue'[s]) :
             \E n \in Neighbour, i \in Part :
               /\ k = pack(obj[u].pack[n], i, n)
               /\ s = IF wide THEN 0 ELSE StreamOf(obj[u], n, i)
    BY <1>1, PackQueues
  <2>2. host' = At("isend", u, 1) /\ wide' = wide
    BY <1>1 DEF PostAndPack
  <2>3. obj'[u].pack = obj[u].pack /\ obj'[u].streams = obj[u].streams
    BY <1>1, PackLists DEF ListsKept
  <2> SUFFICES ASSUME NEW s \in DOMAIN queue' \ {0}, NEW k \in Range(queue'[s])
               PROVE  /\ ~ wide'
                      /\ \E n \in Neighbour, i \in Part :
                           /\ s = StreamOf(obj'[host'.name], n, i)
                           /\ \/ host'.at = "isend" /\ n >= host'.k
                                 /\ k = pack(obj'[host'.name].pack[n], i, n)
                              \/ host'.at = "unpack" /\ k = unpack(obj'[host'.name].unpack[n], i, n)
    BY DEF PrivateOK, Queued
  <2>4. PICK n \in Neighbour, i \in Part :
          /\ k = pack(obj[u].pack[n], i, n)
          /\ s = IF wide THEN 0 ELSE StreamOf(obj[u], n, i)
    BY <2>1
  <2>5. ~ wide /\ s = StreamOf(obj'[u], n, i) /\ k = pack(obj'[u].pack[n], i, n)
    BY <2>3, <2>4 DEF StreamOf
  <2>6. n >= 1
    BY Sizes DEF Neighbour
  <2>7. host'.at = "isend" /\ host'.name = u /\ host'.k = 1
    BY <2>2 DEF At
  <2> QED
    BY <2>2, <2>5, <2>6, <2>7
<1>2. ASSUME NEW u \in Name, LaunchUnpack(u) PROVE PrivateOK'
  <2>1. /\ DOMAIN queue' = DOMAIN queue
        /\ \A s \in DOMAIN queue : \A k \in Range(queue'[s]) :
             \/ k \in Queued(s)
             \/ \E n \in Neighbour, i \in Part :
                  /\ k = unpack(obj[u].unpack[n], i, n)
                  /\ s = IF wide THEN 0 ELSE StreamOf(obj[u], n, i)
    BY <1>2, UnpackQueues
  <2>2. host = At("wait", u, 0) /\ host' = At("unpack", u, 0) /\ wide' = wide /\ obj' = obj
    BY <1>2 DEF LaunchUnpack
  <2>3. \A s \in DOMAIN queue \ {0} : Queued(s) = {}
    BY <2>2 DEF PrivateOK, At
  <2> SUFFICES ASSUME NEW s \in DOMAIN queue' \ {0}, NEW k \in Range(queue'[s])
               PROVE  /\ ~ wide'
                      /\ \E n \in Neighbour, i \in Part :
                           /\ s = StreamOf(obj'[host'.name], n, i)
                           /\ \/ host'.at = "isend" /\ n >= host'.k
                                 /\ k = pack(obj'[host'.name].pack[n], i, n)
                              \/ host'.at = "unpack" /\ k = unpack(obj'[host'.name].unpack[n], i, n)
    BY DEF PrivateOK, Queued
  <2>4. PICK n \in Neighbour, i \in Part :
          /\ k = unpack(obj[u].unpack[n], i, n)
          /\ s = IF wide THEN 0 ELSE StreamOf(obj[u], n, i)
    BY <2>1, <2>3
  <2>5. host'.at = "unpack" /\ host'.name = u
    BY <2>2 DEF At
  <2> QED
    BY <2>2, <2>4, <2>5
<1>3. ASSUME wide' = wide,
             \A s \in DOMAIN queue' \ {0} : \A k \in Range(queue'[s]) :
               s \in DOMAIN queue /\ k \in Queued(s)
      PROVE  PrivateOK'
  <2> SUFFICES ASSUME NEW s \in DOMAIN queue' \ {0}, NEW k \in Range(queue'[s])
               PROVE  /\ ~ wide'
                      /\ \E n \in Neighbour, i \in Part :
                           /\ s = StreamOf(obj'[host'.name], n, i)
                           /\ \/ host'.at = "isend" /\ n >= host'.k
                                 /\ k = pack(obj'[host'.name].pack[n], i, n)
                              \/ host'.at = "unpack" /\ k = unpack(obj'[host'.name].unpack[n], i, n)
    BY DEF PrivateOK, Queued
  <2>1. s \in DOMAIN queue /\ s # 0 /\ k \in Queued(s)
    BY <1>3
  <2>2. PICK n \in Neighbour, i \in Part :
          /\ s = StreamOf(obj[host.name], n, i)
          /\ \/ host.at = "isend" /\ n >= host.k /\ k = pack(obj[host.name].pack[n], i, n)
             \/ host.at = "unpack" /\ k = unpack(obj[host.name].unpack[n], i, n)
    BY <2>1 DEF PrivateOK
  <2>3. ~ wide
    BY <2>1 DEF PrivateOK
  <2>4. queue[s] # <<>>
    BY <1>0, <2>1, EmptyQueue
  <2>5. CASE host' = host /\ obj' = obj
    BY <1>3, <2>2, <2>3, <2>5
  <2>6. ASSUME NEW u \in Name, EndWait(u) PROVE FALSE
    <3>1. host.name = u
      BY <2>6 DEF EndWait, At
    <3>2. synchronized(obj[u], n)
      BY <2>6 DEF EndWait, Finalize, KeepUpdater
    <3> QED
      BY <2>2, <2>3, <2>4, <3>1, <3>2 DEF synchronized
  <2>7. ASSUME NEW u \in Name, Isend(u)
        PROVE  /\ host'.at = "isend" /\ n >= host'.k /\ host'.name = host.name /\ obj' = obj
               /\ host.at = "isend"
    <3>1. PICK m \in Neighbour : /\ host = At("isend", u, m) /\ synchronized(obj[u], m)
                                 /\ host' = IF m < Neighbours THEN At("isend", u, m + 1) ELSE Ready
                                 /\ obj' = obj
      BY <2>7 DEF Isend, get_pack_buffer
    <3>2. host.name = u /\ host.k = m /\ host.at = "isend"
      BY <3>1 DEF At
    <3>3. n # m
      BY <2>2, <2>3, <2>4, <3>1, <3>2 DEF synchronized
    <3>4. n >= m
      BY <2>2, <3>2
    <3>5. m < Neighbours /\ n >= m + 1
      <4>1. n \in Nat /\ m \in Nat /\ n <= Neighbours /\ Neighbours \in Nat
        BY Sizes DEF Neighbour
      <4> QED
        BY <3>3, <3>4, <4>1
    <3>6. host' = At("isend", u, m + 1)
      BY <3>1, <3>5
    <3> QED
      BY <3>1, <3>2, <3>5, <3>6 DEF At
  <2>8. CASE \E u \in Name : Isend(u)
    BY <1>3, <2>2, <2>3, <2>7, <2>8
  <2> QED
    BY <2>2, <2>5, <2>6, <2>8, BusySteps
<1> QED
  BY <1>1, <1>2, <1>3, PrivateSteps

-----------------------------------------------------------------------------
(* The default stream.                                                     *)

LEMMA WideStays ==
  ASSUME [Next]_vars
  PROVE  wide' = wide
<1>1. NewCall => wide' = wide
  BY DEF NewCall, Compute, Create, BeginStart, BeginWait, Drop, StartEdges, WaitEdges
<1>2. HostStep => wide' = wide
  BY DEF HostStep, PostAndPack, Isend, LaunchUnpack, EndWait, SendEdge, RecvEdges
<1>3. DeviceStep \/ MpiStep \/ UNCHANGED vars => wide' = wide
  BY DEF DeviceStep, Run, MpiStep, MpiRead, MpiWrite, vars
<1> QED
  BY <1>1, <1>2, <1>3 DEF Next

\* Who begins to use buffers, and has waited for the device.
Begins ==
  (\E u \in Name : PostAndPack(u) \/ Isend(u)) \/ StartEdges \/ SendEdge \/ RecvEdges

\* A kernel that nobody waited for stays out of the way.
LEMMA BackgroundStays ==
  ASSUME StreamsInv, [Next]_vars, ~ Begins, NEW k, Background(k)
  PROVE  Background(k)'
<1>1. ASSUME NEW u \in Name, InFlight(u)' PROVE InFlight(u) /\ obj'[u] = obj[u]
  <2>1. obj'[u].st = "inflight" /\ ~ PostAndPack(u)
    BY <1>1 DEF InFlight, Begins
  <2>2. obj'[u] = obj[u]
    BY <2>1, UpdaterStep, NoUpdaterFacts
  <2> QED
    BY <2>1, <2>2 DEF InFlight
<1>2. CASE edges' = edges /\ cache'.edge = cache.edge
  <2>1. k.do = "zero" => \A u \in Name : InFlight(u)' => k.buf \notin Range(Held(obj'[u]))
    BY <1>1 DEF Background
  <2>2. k.do = "zero" => k.buf \notin Range(edges'.sent \o edges'.received)
    BY <1>2 DEF Background
  <2>3. k.do \in {"upload", "compute"} => \A u \in Name : ~ InFlight(u)'
    BY <1>1 DEF Background
  <2>4. k.do = "copy_out" => k.buf \in Range(cache'.edge)
    BY <1>2 DEF Background
  <2>5. k.do \in {"zero", "upload", "compute", "inside", "copy_out"}
    BY DEF Background
  <2> QED
    BY <2>1, <2>2, <2>3, <2>4, <2>5 DEF Background, InFlight, Held
<1>3. CASE WaitEdges
  <2>1. /\ edges' = NoEdges /\ UNCHANGED obj
        /\ cache' = [cache EXCEPT !.edge = @ \o edges.sent \o edges.received]
    BY <1>3 DEF WaitEdges
  <2>2. cache \in [halo : Seq(Nat), edge : Seq(Nat)] /\ edges.sent \in Seq(Nat)
        /\ edges.received \in Seq(Nat) /\ cache.edge \in Seq(Nat)
    BY DEF StreamsInv, Types
  <2>3. cache'.edge = cache.edge \o edges.sent \o edges.received
    BY <2>1, <2>2
  <2>4. Range(cache.edge) \subseteq Range(cache'.edge)
    <3>1. PICK a \in Seq(Nat), b \in Seq(Nat), c \in Seq(Nat) :
            a = cache.edge /\ b = edges.sent /\ c = edges.received
      BY <2>2
    <3>2. a \o b \in Seq(Nat) /\ Range(a \o b) = Range(a) \union Range(b)
      BY AppendList
    <3>3. PICK d \in Seq(Nat) : d = a \o b
      BY <3>2
    <3>4. Range(d \o c) = Range(d) \union Range(c)
      BY AppendList
    <3> QED
      BY <2>3, <3>1, <3>2, <3>3, <3>4
  <2>5. Range(edges'.sent \o edges'.received) = {}
    <3>1. edges'.sent = <<>> /\ edges'.received = <<>>
      BY <2>1 DEF NoEdges
    <3>2. <<>> \o <<>> = <<>>
      OBVIOUS
    <3> QED
      BY <3>1, <3>2, NoUpdaterFacts
  <2>6. k.do = "zero" => \A u \in Name : InFlight(u)' => k.buf \notin Range(Held(obj'[u]))
    BY <1>1 DEF Background
  <2>7. k.do \in {"upload", "compute"} => \A u \in Name : ~ InFlight(u)'
    BY <1>1 DEF Background
  <2>8. k.do = "copy_out" => k.buf \in Range(cache'.edge)
    BY <2>4 DEF Background
  <2>9. k.do \in {"zero", "upload", "compute", "inside", "copy_out"}
    BY DEF Background
  <2> QED
    BY <2>5, <2>6, <2>7, <2>8, <2>9 DEF Background, InFlight, Held
<1> QED
  BY <1>2, <1>3, EdgeSteps DEF Begins

\* Those that begin to use buffers find the default stream empty.
LEMMA BeginsIdle ==
  ASSUME StreamsInv, DefaultOK, Begins
  PROVE  Queued(0) = {}
<1>1. QueueOK /\ 0 \in DOMAIN queue
  BY DEF StreamsInv, QueueOK
<1>2. device_idle => Queued(0) = {}
  BY <1>1, DeviceIdle
<1>3. ASSUME NEW u \in Name, PostAndPack(u) PROVE device_idle
  BY <1>3 DEF PostAndPack, _device_synchronize
<1>4. StartEdges \/ SendEdge => device_idle
  BY DEF StartEdges, SendEdge
<1>5. ASSUME RecvEdges, NEW k \in Queued(0) PROVE FALSE
  <2>1. host.at = "edges" /\ host.k = Neighbours + 1
    BY <1>5 DEF RecvEdges, At
  <2>2. host.k <= Neighbours
    BY <1>5, <2>1 DEF DefaultOK, MayBeQueued
  <2> QED
    BY <2>1, <2>2, Sizes
<1>6. ASSUME NEW u \in Name, Isend(u), NEW k \in Queued(0) PROVE FALSE
  <2>1. PICK n \in Neighbour : host = At("isend", u, n) /\ synchronized(obj[u], n)
    BY <1>6 DEF Isend, get_pack_buffer
  <2>2. host.at = "isend"
    BY <2>1 DEF At
  <2>3. wide
    BY <1>6, <2>2 DEF DefaultOK, MayBeQueued
  <2> QED
    BY <1>2, <1>6, <2>1, <2>3 DEF synchronized
<1> QED
  BY <1>2, <1>3, <1>4, <1>5, <1>6 DEF Begins

LEMMA OldDefault ==
  ASSUME StreamsInv, DefaultOK, [Next]_vars, NEW k \in Queued(0)
  PROVE  MayBeQueued(k)'
<1>1. ~ Begins /\ MayBeQueued(k) /\ wide' = wide
  BY BeginsIdle, WideStays DEF DefaultOK
<1>2. CASE host.at = "isend"
  <2>1. ASSUME NEW u \in Name, EndWait(u) PROVE FALSE
    BY <1>2, <2>1 DEF EndWait, At
  <2>2. host' = host /\ obj' = obj
    BY <1>1, <1>2, <2>1, BusySteps DEF Begins
  <2> QED
    BY <1>1, <1>2, <2>2 DEF MayBeQueued
<1>3. CASE host.at = "edges"
  <2>1. ~ WaitEdges
    <3>1. WaitEdges => host = Ready
      BY DEF WaitEdges, Call
    <3> QED
      BY <1>3, <3>1 DEF Ready
  <2>2. host' = host /\ edges' = edges
    BY <1>1, <1>3, <2>1, EdgeSteps DEF Begins
  <2> QED
    BY <1>1, <1>3, <2>2 DEF MayBeQueued
<1>4. CASE host.at = "unpack" /\ ~ Background(k)
  <2>1. wide /\ \E n \in Neighbour, i \in Part : k = unpack(obj[host.name].unpack[n], i, n)
    BY <1>1, <1>4 DEF MayBeQueued
  <2>2. ASSUME NEW u \in Name, EndWait(u) PROVE FALSE
    <3>1. 1 \in Neighbour
      BY Sizes DEF Neighbour
    <3>2. synchronized(obj[u], 1)
      BY <2>2, <3>1 DEF EndWait, Finalize, KeepUpdater
    <3>3. device_idle /\ QueueOK /\ 0 \in DOMAIN queue
      BY <2>1, <3>2 DEF synchronized, StreamsInv, QueueOK
    <3>4. Queued(0) = {}
      BY <3>3, DeviceIdle
    <3> QED
      BY <3>4
  <2>3. host' = host /\ obj' = obj
    BY <1>1, <1>4, <2>2, BusySteps DEF Begins
  <2> QED
    BY <1>1, <1>4, <2>1, <2>3 DEF MayBeQueued
<1>5. CASE host.at \notin {"isend", "edges"} /\ Background(k)
  <2>1. Background(k)'
    BY <1>1, <1>5, BackgroundStays
  <2>2. host'.at \notin {"isend", "edges"}
    <3>1. ASSUME NEW u \in Name, LaunchUnpack(u) PROVE host'.at = "unpack"
      BY <3>1 DEF LaunchUnpack, At
    <3> QED
      BY <1>1, <1>5, <3>1, HostSteps DEF Begins
  <2> QED
    BY <2>1, <2>2 DEF MayBeQueued
<1>6. host.at \notin {"isend", "edges", "unpack"} => Background(k)
  BY <1>1 DEF MayBeQueued
<1> QED
  BY <1>2, <1>3, <1>4, <1>5, <1>6

\* What is launched on the default stream.
LEMMA NewBuffersFree ==
  ASSUME StreamsInv, HoldersOK, NEW key \in {"halo", "edge"}, NEW count \in Nat,
         NEW b \in NewBuffers(key, count)
  PROVE  /\ \A u \in Name : b \notin Range(Held(obj[u]))
         /\ b \notin Range(edges.sent \o edges.received)
<1>1. Fresh(key, count) \in Nat /\ buffers \in Nat
  BY PopFromCache DEF StreamsInv, Types
<1>2. b \notin 1..buffers
  BY <1>1 DEF NewBuffers
<1> QED
  BY <1>2, HolderLists DEF HoldersOK, Apart

LEMMA ComputeDefault ==
  ASSUME StreamsInv, NEW q \in Quantity, Compute(q), NEW k \in Range(queue'[0]), k \notin Queued(0)
  PROVE  MayBeQueued(k)'
<1>1. QueueOK /\ 0 \in DOMAIN queue /\ host = Ready /\ host' = host /\ obj' = obj
  BY DEF StreamsInv, QueueOK, Compute, Call
<1>2. PICK x : /\ x = IF \E u \in Name : obj[u].st = "inflight"
                      THEN compute_inside(q, version[q] + 1) ELSE compute(q, version[q] + 1)
               /\ queue' = Launched(0, <<x>>)
  BY DEF Compute
<1>3. Range(queue'[0]) = Queued(0) \union {x}
  <2>1. <<x>> \in Seq({x}) /\ Range(<<x>>) = {x}
    BY OneKernel
  <2>2. LaunchedOn(0, Range(<<x>>))
    BY <1>1, <1>2, <2>1, LaunchDefault
  <2> QED
    BY <2>1, <2>2 DEF LaunchedOn
<1>4. x.do = "inside" \/ (x.do = "compute" /\ \A u \in Name : ~ InFlight(u))
  BY <1>2 DEF compute_inside, compute, Kernel, InFlight
<1>5. Background(k)'
  BY <1>1, <1>3, <1>4 DEF Background, InFlight
<1> QED
  BY <1>1, <1>5 DEF MayBeQueued, Ready

LEMMA CreateDefault ==
  ASSUME StreamsInv, HoldersOK, IndicesOK, NEW u \in Name, NEW once \in BOOLEAN, Create(u, once),
         NEW k \in Range(queue'[0]), k \notin Queued(0)
  PROVE  MayBeQueued(k)'
<1>1. /\ host = Ready /\ (host' = At("start", u, 0) \/ host' = host) /\ edges' = edges
      /\ obj[u].st = "none" /\ obj' = [obj EXCEPT ![u] = Updater(once)]
  BY DEF Create, Call
<1>2. Updater(once).st = "idle" /\ obj \in [Name -> Updaters]
  BY NewUpdater DEF StreamsInv, Types
<1>3. ASSUME NEW v \in Name, InFlight(v)' PROVE InFlight(v) /\ obj'[v] = obj[v]
  BY <1>1, <1>2, <1>3 DEF InFlight
<1>4. \/ \E b \in NewBuffers("halo", 2 * Neighbours) : k = zero(b)
      \/ Indices(1) \notin DOMAIN mem /\ \E n \in Neighbour : k = upload(n)
  BY CreateQueues
<1>5. ASSUME NEW b \in NewBuffers("halo", 2 * Neighbours), k = zero(b) PROVE Background(k)'
  <2>1. k.do = "zero" /\ k.buf = b
    BY <1>5 DEF zero, Kernel
  <2>2. /\ \A v \in Name : b \notin Range(Held(obj[v]))
        /\ b \notin Range(edges.sent \o edges.received)
    BY <1>5, Sizes, NewBuffersFree
  <2>3. \A v \in Name : InFlight(v)' => b \notin Range(Held(obj'[v]))
    BY <1>3, <2>2
  <2>4. b \notin Range(edges'.sent \o edges'.received)
    BY <1>1, <2>2
  <2> QED
    BY <2>1, <2>3, <2>4 DEF Background, InFlight, Held
<1>6. ASSUME Indices(1) \notin DOMAIN mem, NEW n \in Neighbour, k = upload(n) PROVE Background(k)'
  <2>1. k.do = "upload"
    BY <1>6 DEF upload, Kernel
  <2>2. \A v \in Name : obj[v].st = "none"
    BY <1>6 DEF IndicesOK
  <2>3. \A v \in Name : ~ InFlight(v)'
    BY <1>3, <2>2 DEF InFlight
  <2> QED
    BY <2>1, <2>3 DEF Background, InFlight
<1>7. Background(k)'
  BY <1>4, <1>5, <1>6
<1>8. host'.at \in {"start", "ready"}
  BY <1>1 DEF At, Ready
<1> QED
  BY <1>7, <1>8 DEF MayBeQueued

\* Of an updater, on the path that waits for the whole device.
LEMMA PackDefault ==
  ASSUME StreamsInv, NEW u \in Name, PostAndPack(u), NEW k \in Range(queue'[0])
  PROVE  MayBeQueued(k)'
<1>1. 0 \in DOMAIN queue /\ host = At("start", u, 0) /\ host' = At("isend", u, 1) /\ wide' = wide
  BY DEF StreamsInv, QueueOK, PostAndPack
<1>2. PICK n \in Neighbour, i \in Part :
        /\ k = pack(obj[u].pack[n], i, n)
        /\ 0 = IF wide THEN 0 ELSE StreamOf(obj[u], n, i)
  BY <1>1, PackQueues
<1>3. wide
  <2>1. StreamOf(obj[u], n, i) \in Range(obj[u].streams)
    <3>1. DOMAIN obj[u].streams = 1..Streams
      BY <1>1, HostUpdater
    <3>2. (n - 1) * Len(Fields) + i \in 1..Streams
      BY StreamPlace
    <3> QED
      BY <3>1, <3>2 DEF StreamOf, Range
  <2> QED
    BY <1>1, <1>2, <2>1, HostUpdater
<1>4. obj'[u].pack = obj[u].pack
  BY PackLists DEF ListsKept
<1>5. host'.at = "isend" /\ host'.k = 1 /\ host'.name = u
  BY <1>1 DEF At
<1> QED
  BY <1>1, <1>2, <1>3, <1>4, <1>5 DEF MayBeQueued

LEMMA UnpackDefault ==
  ASSUME StreamsInv, NEW u \in Name, LaunchUnpack(u), NEW k \in Range(queue'[0]), k \notin Queued(0)
  PROVE  MayBeQueued(k)'
<1>1. /\ 0 \in DOMAIN queue /\ host = At("wait", u, 0) /\ host' = At("unpack", u, 0)
      /\ wide' = wide /\ obj' = obj
  BY DEF StreamsInv, QueueOK, LaunchUnpack
<1>2. PICK n \in Neighbour, i \in Part :
        /\ k = unpack(obj[u].unpack[n], i, n)
        /\ 0 = IF wide THEN 0 ELSE StreamOf(obj[u], n, i)
  BY <1>1, UnpackQueues
<1>3. wide
  <2>1. StreamOf(obj[u], n, i) \in Range(obj[u].streams)
    <3>1. DOMAIN obj[u].streams = 1..Streams
      BY <1>1, HostUpdater
    <3>2. (n - 1) * Len(Fields) + i \in 1..Streams
      BY StreamPlace
    <3> QED
      BY <3>1, <3>2 DEF StreamOf, Range
  <2> QED
    BY <1>1, <1>2, <2>1, HostUpdater
<1>5. host'.at = "unpack" /\ host'.name = u
  BY <1>1 DEF At
<1> QED
  BY <1>1, <1>2, <1>3, <1>5 DEF MayBeQueued

\* The exchange of edges: the buffers of the cache are not zeroed.
LEMMA NoneZeroed ==
  ASSUME StreamsInv, NEW key \in {"halo", "edge"}, NEW count \in Nat, Fresh(key, count) = 0
  PROVE  Range(ZeroNew(key, count)) = {}
<1>1. DOMAIN ZeroNew(key, count) = {}
  BY DEF ZeroNew
<1> QED
  BY <1>1 DEF Range

LEMMA CopyDefault ==
  ASSUME StreamsInv, EdgesOK, EdgesCached, DefaultOK, CopyEdge,
         StartEdges \/ (SendEdge /\ host.k < Neighbours), NEW k \in Range(queue'[0])
  PROVE  MayBeQueued(k)'
<1>1. PICK b : b = pop_from_cache("edge", 1)[1]
  OBVIOUS
<1>2. queue' = Launched(0, ZeroNew("edge", 1) \o <<copy_in(b)>>)
  BY <1>1 DEF CopyEdge
<1>3. /\ Fresh("edge", 1) = 0 /\ Len(edges.sent) = IF host = Ready THEN 0 ELSE host.k
      /\ edges'.sent[Len(edges.sent) + 1] = b /\ Types /\ QueueOK /\ 1 \in Nat
  BY <1>1, CopyEdgeFacts DEF StreamsInv
<1>4. PICK x : x = copy_in(b)
  OBVIOUS
<1>5. <<x>> \in Seq({x}) /\ Range(<<x>>) = {x}
  BY OneKernel
<1>6. PICK l : l = ZeroNew("edge", 1) \o <<x>>
  OBVIOUS
<1>7. (\E M : l \in Seq(M)) /\ Range(l) \subseteq {x}
  <2>1. NewBuffers("edge", 1) = {}
    BY <1>3 DEF NewBuffers, Types
  <2>2. /\ \E M : ZeroNew("edge", 1) \o <<x>> \in Seq(M)
        /\ Range(ZeroNew("edge", 1) \o <<x>>)
              \subseteq {zero(c) : c \in NewBuffers("edge", 1)} \union Range(<<x>>)
    BY <1>3, <1>5, ZeroThen
  <2> QED
    BY <1>5, <1>6, <2>1, <2>2
<1>8. LaunchedOn(0, Range(l))
  BY <1>2, <1>3, <1>4, <1>6, <1>7, LaunchDefault
<1>9. k = x
  <2>1. Queued(0) = {}
    BY BeginsIdle DEF Begins
  <2> QED
    BY <1>7, <1>8, <2>1 DEF LaunchedOn
<1>10. host' = At("edges", 0, Len(edges.sent) + 1) /\ Len(edges.sent) + 1 <= Neighbours
  <2>1. CASE StartEdges
    BY <1>3, <2>1, Sizes DEF StartEdges, Call
  <2>2. CASE SendEdge /\ host.k < Neighbours
    <3>1. PICK n \in Neighbour : host = At("edges", 0, n) /\ host' = At("edges", 0, n + 1)
      BY <2>2 DEF SendEdge
    <3>2. host.k = n /\ host # Ready /\ n < Neighbours
      BY <2>2, <3>1 DEF At, Ready
    <3>3. n + 1 <= Neighbours
      BY <3>2, Sizes DEF Neighbour
    <3> QED
      BY <1>3, <3>1, <3>2, <3>3
  <2> QED
    BY <2>1, <2>2
<1>11. host'.at = "edges" /\ host'.k = Len(edges.sent) + 1
  BY <1>10 DEF At
<1> QED
  BY <1>3, <1>4, <1>9, <1>10, <1>11 DEF MayBeQueued

LEMMA WaitEdgesDefault ==
  ASSUME StreamsInv, EdgesOK, WaitEdges, NEW k \in Range(queue'[0]), k \notin Queued(0)
  PROVE  MayBeQueued(k)'
<1>1. /\ host = Ready /\ host' = host /\ QueueOK
      /\ queue' = Launched(0, [n \in Neighbour |-> copy_out(edges.received[n], n)])
      /\ cache' = [cache EXCEPT !.edge = @ \o edges.sent \o edges.received]
      /\ edges.received # <<>>
  BY DEF WaitEdges, Call, StreamsInv
<1>2. Len(edges.received) = Neighbours /\ edges.received \in Seq(Nat)
  BY <1>1 DEF EdgesOK, Ready, StreamsInv, Types
<1> DEFINE l == [n \in 1..Neighbours |-> copy_out(edges.received[n], n)]
<1>3. PICK S : S = {copy_out(edges.received[n], n) : n \in 1..Neighbours}
  OBVIOUS
<1>4. l \in [1..Neighbours -> S]
  BY <1>3
<1>5. queue' = Launched(0, l)
  BY <1>1 DEF Neighbour
<1>6. l \in Seq(S) /\ Range(l) \subseteq S
  <2> HIDE DEF l
  <2> QED
    BY <1>4, Sizes, KernelList
<1> HIDE DEF l
<1>7. LaunchedOn(0, Range(l))
  BY <1>1, <1>5, <1>6, LaunchDefault
<1>8. PICK n \in 1..Neighbours : k = copy_out(edges.received[n], n)
  BY <1>3, <1>6, <1>7 DEF LaunchedOn
<1>9. k.do = "copy_out" /\ k.buf = edges.received[n]
  BY <1>8 DEF copy_out, Kernel
<1>10. edges.received[n] \in Range(cache'.edge)
  <2>1. cache \in [halo : Seq(Nat), edge : Seq(Nat)] /\ edges.sent \in Seq(Nat)
    BY DEF StreamsInv, Types
  <2>2. PICK a \in Seq(Nat), b \in Seq(Nat), c \in Seq(Nat) :
          a = cache.edge /\ b = edges.sent /\ c = edges.received
    BY <1>2, <2>1
  <2>3. PICK d \in Seq(Nat) : d = a \o b
    <3>1. a \o b \in Seq(Nat)
      BY AppendList
    <3> QED
      BY <3>1
  <2>4. Range(d \o c) = Range(d) \union Range(c)
    BY AppendList
  <2>5. c[n] \in Range(c)
    BY <1>2, <2>2 DEF Range
  <2>6. cache'.edge = d \o c
    BY <1>1, <2>1, <2>2, <2>3
  <2> QED
    BY <2>2, <2>4, <2>5, <2>6
<1>11. Background(k)'
  BY <1>9, <1>10 DEF Background
<1> QED
  BY <1>1, <1>11 DEF MayBeQueued, Ready

LEMMA NextDefault ==
  ASSUME StreamsInv, EdgesOK, EdgesCached, HoldersOK, IndicesOK, DefaultOK, [Next]_vars
  PROVE  DefaultOK'
<1> SUFFICES ASSUME NEW k \in Range(queue'[0]) PROVE MayBeQueued(k)'
  BY DEF DefaultOK, Queued
<1>0. QueueOK /\ 0 \in DOMAIN queue
  BY DEF StreamsInv, QueueOK
<1>1. CASE k \in Queued(0)
  BY <1>1, OldDefault
<1>2. ASSUME queue' = queue PROVE k \in Queued(0)
  BY <1>2 DEF Queued
<1>3. ASSUME NEW q \in Quantity, Compute(q), k \notin Queued(0) PROVE MayBeQueued(k)'
  BY <1>3, ComputeDefault
<1>4. ASSUME NEW u \in Name, NEW once \in BOOLEAN, Create(u, once), k \notin Queued(0)
      PROVE  MayBeQueued(k)'
  BY <1>4, CreateDefault
<1>5. ASSUME NEW u \in Name,
             BeginStart(u) \/ BeginWait(u) \/ Drop(u) \/ Isend(u) \/ EndWait(u)
      PROVE  k \in Queued(0)
  BY <1>2, <1>5 DEF BeginStart, BeginWait, Drop, Isend, EndWait
<1>6. ASSUME NEW u \in Name, PostAndPack(u) \/ LaunchUnpack(u), k \notin Queued(0)
      PROVE  MayBeQueued(k)'
  BY <1>6, PackDefault, UnpackDefault
<1>7. ASSUME StartEdges \/ SendEdge, k \notin Queued(0) PROVE MayBeQueued(k)'
  <2>1. \/ CopyEdge /\ (StartEdges \/ (SendEdge /\ host.k < Neighbours))
        \/ queue' = queue
    BY <1>7 DEF StartEdges, SendEdge
  <2> QED
    BY <1>2, <1>7, <2>1, CopyDefault
<1>8. ASSUME RecvEdges PROVE k \in Queued(0)
  <2>1. Fresh("edge", Neighbours) = 0 /\ Neighbours \in Nat
    BY <1>8, RecvEdgesFacts, Sizes
  <2>2. PICK l : l = ZeroNew("edge", Neighbours)
    OBVIOUS
  <2>3. Range(l) = {} /\ \E L : l \in Seq(L)
    <3>1. Range(ZeroNew("edge", Neighbours)) = {}
      BY <2>1, NoneZeroed
    <3>2. ZeroNew("edge", Neighbours) \in Seq({zero(b) : b \in NewBuffers("edge", Neighbours)})
      BY <2>1, ZeroNewList DEF StreamsInv
    <3> QED
      BY <2>2, <3>1, <3>2
  <2>4. queue' = Launched(0, l)
    BY <1>8, <2>2 DEF RecvEdges
  <2>5. LaunchedOn(0, Range(l))
    BY <1>0, <2>3, <2>4, LaunchDefault
  <2> QED
    BY <2>3, <2>5 DEF LaunchedOn
<1>9. ASSUME WaitEdges, k \notin Queued(0) PROVE MayBeQueued(k)'
  BY <1>9, WaitEdgesDefault
<1>10. ASSUME NEW s \in DOMAIN queue, Run(s) PROVE k \in Queued(0)
  <2>1. queue[s] # <<>> /\ queue' = [queue EXCEPT ![s] = Tail(@)]
    BY <1>10 DEF Run
  <2> QED
    BY <1>0, <2>1, RunTakes
<1>11. ASSUME MpiStep \/ UNCHANGED vars PROVE k \in Queued(0)
  BY <1>2, <1>11 DEF MpiStep, MpiRead, MpiWrite, vars
<1> QED
  BY <1>1, <1>3, <1>4, <1>5, <1>6, <1>7, <1>8, <1>9, <1>10, <1>11
  DEF Next, NewCall, HostStep, DeviceStep

-----------------------------------------------------------------------------
(* No race.                                                                *)

\* A buffer is at one place.
LEMMA OnePlace ==
  ASSUME HoldersOK, NEW g \in Holders, NEW h \in Holders,
         NEW i \in DOMAIN BufferLists[g], NEW j \in DOMAIN BufferLists[h],
         BufferLists[g][i] = BufferLists[h][j]
  PROVE  g = h /\ i = j
<1>1. BufferLists[g][i] \in Range(BufferLists[g]) /\ BufferLists[h][j] \in Range(BufferLists[h])
  BY DEF Range
<1>2. g = h
  BY <1>1 DEF HoldersOK, Apart
<1>3. IsInjective(BufferLists[g])
  BY DEF HoldersOK, Apart
<1> QED
  BY <1>2, <1>3 DEF IsInjective

\* The buffers of updaters.
PackOf(u, n) == obj[u].pack[n]
UnpackOf(u, n) == obj[u].unpack[n]

LEMMA HeldBuffers ==
  ASSUME StreamsInv, NEW u \in Name, InFlight(u), NEW n \in Neighbour
  PROVE  /\ 2 * n - 1 \in DOMAIN BufferLists[Of(u)] /\ PackOf(u, n) = BufferLists[Of(u)][2 * n - 1]
         /\ 2 * n \in DOMAIN BufferLists[Of(u)] /\ UnpackOf(u, n) = BufferLists[Of(u)][2 * n]
         /\ PackOf(u, n) \in Range(Held(obj[u])) /\ UnpackOf(u, n) \in Range(Held(obj[u]))
<1>1. obj[u] \in Updaters /\ ObjectOK(obj[u]) /\ obj[u].st # "none"
  BY DEF StreamsInv, Types, InFlight
<1>2. /\ 2 * n - 1 \in DOMAIN Held(obj[u]) /\ Held(obj[u])[2 * n - 1] = obj[u].pack[n]
      /\ 2 * n \in DOMAIN Held(obj[u]) /\ Held(obj[u])[2 * n] = obj[u].unpack[n]
  BY <1>1, HeldList
<1>3. BufferLists[Of(u)] = Held(obj[u])
  BY HolderLists
<1> QED
  BY <1>2, <1>3 DEF PackOf, UnpackOf, Range

LEMMA UpdaterBuffers ==
  ASSUME StreamsInv, HoldersOK, NEW u \in Name, InFlight(u), NEW n \in Neighbour,
         NEW v \in Name, InFlight(v), NEW m \in Neighbour
  PROVE  /\ PackOf(u, n) = PackOf(v, m) => u = v /\ n = m
         /\ UnpackOf(u, n) = UnpackOf(v, m) => u = v /\ n = m
         /\ PackOf(u, n) # UnpackOf(v, m)
<1>1. Of(u) \in Holders /\ Of(v) \in Holders /\ (Of(u) = Of(v) => u = v)
  BY HolderLists
<1>2. n \in Nat /\ m \in Nat
  BY Sizes DEF Neighbour
<1>3. /\ 2 * n - 1 = 2 * m - 1 => n = m
      /\ 2 * n = 2 * m => n = m
      /\ 2 * n - 1 # 2 * m
  BY <1>2
<1>4. PICK a, b, c, d : a = 2 * n - 1 /\ b = 2 * n /\ c = 2 * m - 1 /\ d = 2 * m
  OBVIOUS
<1>5. /\ a \in DOMAIN BufferLists[Of(u)] /\ PackOf(u, n) = BufferLists[Of(u)][a]
      /\ b \in DOMAIN BufferLists[Of(u)] /\ UnpackOf(u, n) = BufferLists[Of(u)][b]
  BY <1>4, HeldBuffers
<1>6. /\ c \in DOMAIN BufferLists[Of(v)] /\ PackOf(v, m) = BufferLists[Of(v)][c]
      /\ d \in DOMAIN BufferLists[Of(v)] /\ UnpackOf(v, m) = BufferLists[Of(v)][d]
  BY <1>4, HeldBuffers
<1>7. /\ a = c => n = m
      /\ b = d => n = m
      /\ a # d
  BY <1>3, <1>4
<1> QED
  BY <1>1, <1>5, <1>6, <1>7, OnePlace

LEMMA EdgeBuffersApart ==
  ASSUME StreamsInv, HoldersOK
  PROVE  /\ \A n, m \in 1..Len(edges.sent) : edges.sent[n] = edges.sent[m] => n = m
         /\ \A n, m \in 1..Len(edges.received) : edges.received[n] = edges.received[m] => n = m
         /\ \A n \in 1..Len(edges.sent), m \in 1..Len(edges.received) :
              edges.sent[n] # edges.received[m]
         /\ \A n \in 1..Len(edges.sent) : edges.sent[n] \in Range(edges.sent \o edges.received)
         /\ \A n \in 1..Len(edges.received) : edges.received[n] \in Range(edges.sent \o edges.received)
<1>1. PICK a \in Seq(Nat), b \in Seq(Nat) : a = edges.sent /\ b = edges.received
  BY DEF StreamsInv, Types
<1>2. PICK c : c = a \o b
  OBVIOUS
<1>3. /\ \A n \in 1..Len(a) : n \in DOMAIN c /\ c[n] = a[n]
      /\ \A n \in 1..Len(b) : Len(a) + n \in DOMAIN c /\ c[Len(a) + n] = b[n]
      /\ Len(a) \in Nat /\ Len(b) \in Nat
  BY <1>2
<1>4. IsInjective(c)
  BY <1>1, <1>2, HolderLists DEF HoldersOK, Apart
<1>5. \A i, j \in DOMAIN c : c[i] = c[j] => i = j
  BY <1>4 DEF IsInjective
<1>6. \A n, m \in 1..Len(b) : Len(a) + n = Len(a) + m => n = m
  BY <1>3
<1>7. \A n \in 1..Len(a), m \in 1..Len(b) : n # Len(a) + m
  BY <1>3
<1>8. /\ \A n, m \in 1..Len(a) : a[n] = a[m] => n = m
      /\ \A n, m \in 1..Len(b) : b[n] = b[m] => n = m
      /\ \A n \in 1..Len(a), m \in 1..Len(b) : a[n] # b[m]
  BY <1>3, <1>5, <1>6, <1>7
<1>9. /\ \A n \in 1..Len(a) : a[n] \in Range(c)
      /\ \A n \in 1..Len(b) : b[n] \in Range(c)
  BY <1>3 DEF Range
<1> QED
  BY <1>1, <1>2, <1>8, <1>9

LEMMA HoldersApart ==
  ASSUME HoldersOK
  PROVE  /\ \A u \in Name : Range(Held(obj[u])) \intersect Range(edges.sent \o edges.received) = {}
         /\ \A u \in Name : Range(Held(obj[u])) \intersect Range(cache.edge) = {}
         /\ Range(edges.sent \o edges.received) \intersect Range(cache.edge) = {}
BY HolderLists DEF HoldersOK, Apart

\* The kernels that may run next.
QueuedOK(s, k) ==
  \/ /\ host.at = "isend" /\ host.name \in Name /\ InFlight(host.name)
     /\ \E n \in Neighbour, i \in Part :
          /\ n >= host.k /\ k = pack(PackOf(host.name, n), i, n)
          /\ s = IF wide THEN 0 ELSE StreamOf(obj[host.name], n, i)
  \/ /\ host.at = "unpack" /\ host.name \in Name /\ InFlight(host.name)
     /\ \E n \in Neighbour, i \in Part :
          /\ k = unpack(UnpackOf(host.name, n), i, n)
          /\ s = IF wide THEN 0 ELSE StreamOf(obj[host.name], n, i)
  \/ /\ host.at = "edges" /\ s = 0
     /\ host.k \in 1..Len(edges.sent) /\ k = copy_in(edges.sent[host.k])
  \/ host.at \notin {"isend", "edges"} /\ s = 0 /\ Background(k)

LEMMA QueuedKernels ==
  ASSUME StreamsInv, EdgesOK, PrivateOK, DefaultOK, NEW s \in DOMAIN queue, NEW k \in Queued(s)
  PROVE  QueuedOK(s, k)
<1>1. host.at \in {"isend", "unpack"} => host.name \in Name /\ InFlight(host.name)
  BY DEF StreamsInv, HostOK, At, Ready, InFlight
<1>2. CASE s # 0
  BY <1>1, <1>2 DEF PrivateOK, QueuedOK, PackOf, UnpackOf
<1>3. CASE s = 0 /\ host.at = "isend"
  <2>1. wide /\ host.k = 1
    BY <1>3 DEF DefaultOK, MayBeQueued
  <2>2. PICK n \in Neighbour, i \in Part : k = pack(obj[host.name].pack[n], i, n)
    BY <1>3 DEF DefaultOK, MayBeQueued
  <2>3. n >= host.k
    BY <2>1, Sizes DEF Neighbour
  <2> QED
    BY <1>1, <1>3, <2>1, <2>2, <2>3 DEF QueuedOK, PackOf
<1>4. CASE s = 0 /\ host.at = "edges"
  <2>1. host.k <= Neighbours /\ k = copy_in(edges.sent[host.k])
    BY <1>4 DEF DefaultOK, MayBeQueued
  <2>2. Len(edges.sent) = host.k
    BY <1>4, <2>1 DEF EdgesOK
  <2>3. host.k \in 1..(Neighbours + 1)
    BY <1>4 DEF StreamsInv, HostOK, At, Ready
  <2> QED
    BY <1>4, <2>1, <2>2, <2>3 DEF QueuedOK
<1>5. CASE s = 0 /\ host.at \notin {"isend", "edges"}
  BY <1>1, <1>5 DEF DefaultOK, MayBeQueued, QueuedOK, UnpackOf
<1> QED
  BY <1>2, <1>3, <1>4, <1>5

\* The buffer a kernel reads or writes.
LEMMA KernelCells ==
  ASSUME NEW k, k.do \in {"zero", "upload", "compute", "inside", "pack", "unpack", "copy_in", "copy_out"},
         NEW loc, loc[1] = "buffer"
  PROVE  /\ loc \in Writes(k) => loc[2] = k.buf /\ k.do \in {"zero", "pack", "copy_in"}
         /\ loc \in Reads(k) => loc[2] = k.buf /\ k.do \in {"unpack", "copy_out"}
<1>1. loc \notin Edges /\ \A q : loc \notin Halos(q) /\ loc # Interior(q)
  BY DEF Edges, EdgeOf, Halos, HaloOf, Interior
<1>2. \A n : loc # Indices(n) /\ loc # EdgeOf(n) /\ \A q : loc # HaloOf(q, n)
  BY DEF Indices, EdgeOf, HaloOf
<1>3. \A b, i : loc = Cell(b, i) => loc[2] = b
  BY DEF Cell
<1>4. \A b : loc \in CellsOf(b) => loc[2] = b
  BY DEF CellsOf
<1> QED
  BY <1>1, <1>2, <1>3, <1>4 DEF Writes, Reads

LEMMA QueuedDo ==
  ASSUME NEW s, NEW k, QueuedOK(s, k)
  PROVE  k.do \in {"zero", "upload", "compute", "inside", "pack", "unpack", "copy_in", "copy_out"}
BY DEF QueuedOK, Background, pack, unpack, copy_in, Kernel

\* MPI reads no buffer that a kernel may write.
LEMMA SendApart ==
  ASSUME StreamsInv, EdgesOK, HoldersOK, NEW s, NEW k, QueuedOK(s, k),
         k.do \in {"zero", "pack", "copy_in"}, NEW r, SendOK(r)
  PROVE  k.buf # r.buf
<1>0. 0 \notin Name
  BY Sizes
<1>1. CASE host.at = "isend"
  <2>1. PICK n \in Neighbour, i \in Part : n >= host.k /\ k = pack(PackOf(host.name, n), i, n)
    BY <1>1 DEF QueuedOK
  <2>2. k.buf = PackOf(host.name, n) /\ host.name \in Name /\ InFlight(host.name)
    BY <1>1, <2>1 DEF QueuedOK, pack, Kernel
  <2>3. CASE r.name \in Name
    <3>1. /\ InFlight(r.name) /\ r.n \in Neighbour /\ r.buf = PackOf(r.name, r.n)
          /\ host.name = r.name => r.n < host.k
      BY <1>0, <1>1, <2>3 DEF SendOK, PackOf
    <3>2. ASSUME k.buf = r.buf PROVE FALSE
      <4>1. host.name = r.name /\ n = r.n
        <5>1. PICK u \in Name, v \in Name, m \in Neighbour : u = host.name /\ v = r.name /\ m = r.n
          BY <2>2, <2>3, <3>1
        <5>2. PackOf(u, n) = PackOf(v, m) => u = v /\ n = m
          BY <2>2, <3>1, <5>1, UpdaterBuffers
        <5> QED
          BY <2>2, <3>1, <3>2, <5>1, <5>2
      <4>2. n < host.k /\ n >= host.k /\ n \in Nat
        BY <2>1, <3>1, <4>1, Sizes DEF Neighbour
      <4>3. host.k \in Nat
        BY <1>1, Sizes DEF StreamsInv, HostOK, At, Ready, Neighbour
      <4> QED
        BY <4>2, <4>3
    <3> QED
      BY <3>2
  <2>4. CASE r.name = 0
    <3>1. r.buf \in Range(edges.sent \o edges.received)
      BY <1>0, <2>4, EdgeBuffersApart DEF SendOK
    <3>2. k.buf \in Range(Held(obj[host.name]))
      BY <2>2, HeldBuffers
    <3> QED
      BY <2>2, <3>1, <3>2, HoldersApart
  <2> QED
    BY <2>3, <2>4 DEF SendOK
<1>2. CASE host.at = "edges"
  <2>1. host.k \in 1..Len(edges.sent) /\ k.buf = edges.sent[host.k]
    BY <1>2 DEF QueuedOK, Background, copy_in, Kernel
  <2>2. CASE r.name \in Name
    <3>1. InFlight(r.name) /\ r.n \in Neighbour /\ r.buf = PackOf(r.name, r.n)
      BY <1>0, <2>2 DEF SendOK, PackOf
    <3>2. r.buf \in Range(Held(obj[r.name]))
      BY <2>2, <3>1, HeldBuffers
    <3>3. k.buf \in Range(edges.sent \o edges.received)
      BY <2>1, EdgeBuffersApart
    <3> QED
      BY <2>2, <3>2, <3>3, HoldersApart
  <2>3. CASE r.name = 0
    <3>1. r.n \in 1..Len(edges.sent) /\ r.buf = edges.sent[r.n] /\ r.n < host.k
      BY <1>0, <1>2, <2>3 DEF SendOK
    <3>2. r.n # host.k
      BY <2>1, <3>1
    <3> QED
      BY <2>1, <3>1, <3>2, EdgeBuffersApart
  <2> QED
    BY <2>2, <2>3 DEF SendOK
<1>3. CASE host.at \notin {"isend", "edges"}
  <2>1. k.do = "zero" /\ Background(k)
    <3>1. \A b, i, n : unpack(b, i, n).do = "unpack"
      BY DEF unpack, Kernel
    <3>2. Background(k)
      BY <1>3, <3>1 DEF QueuedOK
    <3> QED
      BY <3>2 DEF Background
  <2>2. /\ \A u \in Name : InFlight(u) => k.buf \notin Range(Held(obj[u]))
        /\ k.buf \notin Range(edges.sent \o edges.received)
    BY <2>1 DEF Background
  <2>3. CASE r.name \in Name
    <3>1. InFlight(r.name) /\ r.n \in Neighbour /\ r.buf = PackOf(r.name, r.n)
      BY <1>0, <2>3 DEF SendOK, PackOf
    <3> QED
      BY <2>2, <2>3, <3>1, HeldBuffers
  <2>4. CASE r.name = 0
    <3>1. r.buf \in Range(edges.sent \o edges.received)
      BY <1>0, <2>4, EdgeBuffersApart DEF SendOK
    <3> QED
      BY <2>2, <3>1
  <2> QED
    BY <2>3, <2>4 DEF SendOK
<1> QED
  BY <1>1, <1>2, <1>3

\* MPI writes no buffer that a kernel may touch.
LEMMA RecvApart ==
  ASSUME StreamsInv, EdgesOK, HoldersOK, UnpackOK, NEW s, NEW k, QueuedOK(s, k),
         k.do \in {"zero", "pack", "copy_in", "unpack", "copy_out"}, NEW r \in recvs, RecvOK(r)
  PROVE  k.buf # r.buf
<1>0. 0 \notin Name
  BY Sizes
<1>5. r.name \in Name => /\ InFlight(r.name) /\ r.n \in Neighbour
                          /\ r.buf = UnpackOf(r.name, r.n) /\ r.buf \in Range(Held(obj[r.name]))
  <2>1. r.name \in Name => InFlight(r.name) /\ r.n \in Neighbour /\ r.buf = UnpackOf(r.name, r.n)
    BY <1>0 DEF RecvOK, UnpackOf
  <2> QED
    BY <2>1, HeldBuffers
<1>6. r.name = 0 => /\ r.n \in 1..Len(edges.received) /\ r.buf = edges.received[r.n]
                     /\ r.buf \in Range(edges.sent \o edges.received)
  BY <1>0, EdgeBuffersApart DEF RecvOK
<1>7. r.name \in Name \/ r.name = 0
  BY DEF RecvOK
<1>1. CASE host.at = "isend"
  <2>1. PICK n \in Neighbour, i \in Part : k = pack(PackOf(host.name, n), i, n)
    BY <1>1 DEF QueuedOK
  <2>2. k.buf = PackOf(host.name, n) /\ host.name \in Name /\ InFlight(host.name)
    BY <1>1, <2>1 DEF QueuedOK, pack, Kernel
  <2>3. k.buf \in Range(Held(obj[host.name]))
    BY <2>2, HeldBuffers
  <2>4. CASE r.name \in Name
    BY <1>5, <2>2, <2>4, UpdaterBuffers
  <2>5. CASE r.name = 0
    BY <1>6, <2>2, <2>3, <2>5, HoldersApart
  <2> QED
    BY <1>7, <2>4, <2>5
<1>2. CASE host.at = "edges"
  <2>1. host.k \in 1..Len(edges.sent) /\ k.buf = edges.sent[host.k]
    BY <1>2 DEF QueuedOK, Background, copy_in, Kernel
  <2>2. k.buf \in Range(edges.sent \o edges.received)
    BY <2>1, EdgeBuffersApart
  <2>3. CASE r.name \in Name
    BY <1>5, <2>2, <2>3, HoldersApart
  <2>4. CASE r.name = 0
    BY <1>6, <2>1, <2>4, EdgeBuffersApart
  <2> QED
    BY <1>7, <2>3, <2>4
<1>3. CASE host.at \notin {"isend", "edges"} /\ Background(k)
  <2>1. CASE k.do = "zero"
    <3>1. /\ \A u \in Name : InFlight(u) => k.buf \notin Range(Held(obj[u]))
          /\ k.buf \notin Range(edges.sent \o edges.received)
      BY <1>3, <2>1 DEF Background
    <3> QED
      BY <1>5, <1>6, <1>7, <3>1
  <2>2. CASE k.do = "copy_out"
    <3>1. k.buf \in Range(cache.edge)
      BY <1>3, <2>2 DEF Background
    <3> QED
      BY <1>5, <1>6, <1>7, <3>1, HoldersApart
  <2> QED
    BY <1>3, <2>1, <2>2 DEF Background
<1>4. CASE host.at = "unpack" /\ ~ Background(k)
  <2>1. PICK n \in Neighbour, i \in Part : k = unpack(UnpackOf(host.name, n), i, n)
    BY <1>4 DEF QueuedOK
  <2>2. k.buf = UnpackOf(host.name, n) /\ host.name \in Name /\ InFlight(host.name)
    BY <1>4, <2>1 DEF QueuedOK, unpack, Kernel
  <2>3. k.buf \in Range(Held(obj[host.name]))
    BY <2>2, HeldBuffers
  <2>4. r.name # host.name
    BY <1>4 DEF UnpackOK, Pending
  <2>5. CASE r.name \in Name
    BY <1>5, <2>2, <2>4, <2>5, UpdaterBuffers
  <2>6. CASE r.name = 0
    BY <1>6, <2>2, <2>3, <2>6, HoldersApart
  <2> QED
    BY <1>7, <2>5, <2>6
<1> QED
  BY <1>1, <1>2, <1>3, <1>4 DEF QueuedOK

\* Kernels of two streams.
LEMMA StreamsDoNotConflict ==
  ASSUME StreamsInv, HoldersOK, NEW s, NEW k, QueuedOK(s, k), NEW t, NEW j, QueuedOK(t, j), s # t
  PROVE  Writes(k) \intersect (Reads(j) \union Writes(j)) = {}
<1>1. CASE host.at = "isend"
  <2>1. host.name \in Name /\ InFlight(host.name)
    BY <1>1 DEF QueuedOK
  <2>2. PICK n \in Neighbour, i \in Part :
          k = pack(PackOf(host.name, n), i, n) /\ s = IF wide THEN 0 ELSE StreamOf(obj[host.name], n, i)
    BY <1>1 DEF QueuedOK
  <2>3. PICK m \in Neighbour, h \in Part :
          j = pack(PackOf(host.name, m), h, m) /\ t = IF wide THEN 0 ELSE StreamOf(obj[host.name], m, h)
    BY <1>1 DEF QueuedOK
  <2>4. n # m \/ i # h
    BY <2>2, <2>3
  <2>5. Cell(PackOf(host.name, n), i) # Cell(PackOf(host.name, m), h)
    <3>1. PackOf(host.name, n) = PackOf(host.name, m) => n = m
      BY <2>1, UpdaterBuffers
    <3> QED
      BY <2>4, <3>1 DEF Cell
  <2>6. Writes(k) = {Cell(PackOf(host.name, n), i)}
    BY <2>2 DEF Writes, pack, Kernel
  <2>7. Writes(j) = {Cell(PackOf(host.name, m), h)} /\ Reads(j) = {Interior(Fields[h]), Indices(m)}
    BY <2>3 DEF Writes, Reads, pack, Kernel
  <2>8. \A b, e, q, x : Cell(b, e) # Interior(q) /\ Cell(b, e) # Indices(x)
    BY DEF Cell, Interior, Indices
  <2> QED
    BY <2>5, <2>6, <2>7, <2>8
<1>2. CASE host.at = "edges"
  BY <1>2 DEF QueuedOK
<1>3. CASE host.at \notin {"isend", "edges"} /\ s # 0 /\ t # 0
  <2>2. PICK n \in Neighbour, i \in Part :
          k = unpack(UnpackOf(host.name, n), i, n) /\ s = IF wide THEN 0 ELSE StreamOf(obj[host.name], n, i)
    BY <1>3 DEF QueuedOK
  <2>3. PICK m \in Neighbour, h \in Part :
          j = unpack(UnpackOf(host.name, m), h, m) /\ t = IF wide THEN 0 ELSE StreamOf(obj[host.name], m, h)
    BY <1>3 DEF QueuedOK
  <2>4. n # m \/ i # h
    BY <2>2, <2>3
  <2>5. HaloOf(Fields[i], n) # HaloOf(Fields[h], m)
    <3>1. Fields[i] = Fields[h] => i = h
      BY Sizes
    <3> QED
      BY <2>4, <3>1 DEF HaloOf
  <2>6. Writes(k) = {HaloOf(Fields[i], n)}
    BY <2>2 DEF Writes, unpack, Kernel
  <2>7. /\ Writes(j) = {HaloOf(Fields[h], m)}
        /\ Reads(j) = {Cell(UnpackOf(host.name, m), h), Indices(m)}
    BY <2>3 DEF Writes, Reads, unpack, Kernel
  <2>8. \A b, e, q, x, y : HaloOf(q, x) # Cell(b, e) /\ HaloOf(q, x) # Indices(y)
    BY DEF Cell, HaloOf, Indices
  <2> QED
    BY <2>5, <2>6, <2>7, <2>8
\* A kernel in the background, and an unpack.
<1>4. ASSUME host.at \notin {"isend", "edges"}, NEW x, NEW a, NEW y, NEW b,
             QueuedOK(x, a), QueuedOK(y, b), x = 0, y # 0
      PROVE  /\ Writes(a) \intersect (Reads(b) \union Writes(b)) = {}
             /\ Writes(b) \intersect (Reads(a) \union Writes(a)) = {}
  <2>1. /\ host.name \in Name /\ InFlight(host.name) /\ host.at = "unpack" /\ ~ wide
        /\ \E n \in Neighbour, i \in Part : b = unpack(UnpackOf(host.name, n), i, n)
    BY <1>4 DEF QueuedOK
  <2>2. PICK n \in Neighbour, i \in Part : b = unpack(UnpackOf(host.name, n), i, n)
    BY <2>1
  <2>3. Background(a)
    <3>1. \A m \in Neighbour, h \in Part : StreamOf(obj[host.name], m, h) # 0
      <4> TAKE m \in Neighbour, h \in Part
      <4>1. host = At("unpack", host.name, 0)
        BY <2>1 DEF StreamsInv, HostOK, At, Ready
      <4>2. DOMAIN obj[host.name].streams = 1..Streams /\ 0 \notin Range(obj[host.name].streams)
        BY <2>1, <4>1, HostUpdater
      <4>3. (m - 1) * Len(Fields) + h \in 1..Streams
        BY StreamPlace
      <4> QED
        BY <4>2, <4>3 DEF StreamOf, Range
    <3> QED
      BY <1>4, <2>1, <3>1 DEF QueuedOK
  <2>4. /\ Writes(b) = {HaloOf(Fields[i], n)}
        /\ Reads(b) = {Cell(UnpackOf(host.name, n), i), Indices(n)}
    BY <2>2 DEF Writes, Reads, unpack, Kernel
  <2>5. UnpackOf(host.name, n) \in Range(Held(obj[host.name]))
    BY <2>1, HeldBuffers
  <2>6. CASE a.do = "zero"
    <3>1. a.buf # UnpackOf(host.name, n)
      BY <2>1, <2>3, <2>5, <2>6 DEF Background
    <3>2. Writes(a) = CellsOf(a.buf) /\ Reads(a) = {}
      BY <2>6 DEF Writes, Reads
    <3>3. \A loc \in CellsOf(a.buf) : loc[1] = "buffer" /\ loc[2] = a.buf
      BY DEF CellsOf
    <3>4. \A loc \in CellsOf(a.buf) :
            loc # HaloOf(Fields[i], n) /\ loc # Cell(UnpackOf(host.name, n), i) /\ loc # Indices(n)
      BY <3>1, <3>3 DEF HaloOf, Cell, Indices
    <3> QED
      BY <2>4, <3>2, <3>4
  <2>7. CASE a.do = "inside"
    <3>1. Writes(a) = {Interior(a.q)} /\ Reads(a) = {}
      BY <2>7 DEF Writes, Reads
    <3>2. \A q, c, d, e, m : Interior(q) # HaloOf(e, m) /\ Interior(q) # Cell(c, d) /\ Interior(q) # Indices(m)
      BY DEF HaloOf, Cell, Indices, Interior
    <3> QED
      BY <2>4, <3>1, <3>2
  <2>8. CASE a.do = "copy_out"
    <3>1. Writes(a) = {EdgeOf(a.n)} /\ Reads(a) = {Cell(a.buf, 1)}
      BY <2>8 DEF Writes, Reads
    <3>2. \A c, d, e, l, m : /\ EdgeOf(m) # HaloOf(e, l) /\ EdgeOf(m) # Cell(c, d)
                             /\ EdgeOf(m) # Indices(l) /\ HaloOf(e, l) # Cell(c, d)
      BY DEF HaloOf, Cell, Indices, EdgeOf
    <3> QED
      BY <2>4, <3>1, <3>2
  <2> QED
    BY <2>1, <2>3, <2>6, <2>7, <2>8 DEF Background
<1>5. CASE host.at \notin {"isend", "edges"} /\ (s = 0 \/ t = 0)
  BY <1>4, <1>5
<1> QED
  BY <1>1, <1>2, <1>3, <1>5

\* Two requests of MPI.
LEMMA RequestsApart ==
  ASSUME StreamsInv, HoldersOK, NEW v, RecvOK(v), NEW r
  PROVE  /\ SendOK(r) => v.buf # r.buf
         /\ RecvOK(r) /\ (v.name # r.name \/ v.n # r.n) => v.buf # r.buf
<1>0. 0 \notin Name
  BY Sizes
<1>1. ASSUME NEW x, RecvOK(x)
      PROVE  \/ /\ x.name \in Name /\ InFlight(x.name) /\ x.n \in Neighbour
                /\ x.buf = UnpackOf(x.name, x.n) /\ x.buf \in Range(Held(obj[x.name]))
             \/ /\ x.name = 0 /\ x.n \in 1..Len(edges.received) /\ x.buf = edges.received[x.n]
                /\ x.buf \in Range(edges.sent \o edges.received)
  <2>1. CASE x.name \in Name
    <3>1. InFlight(x.name) /\ x.n \in Neighbour /\ x.buf = UnpackOf(x.name, x.n)
      BY <1>0, <1>1, <2>1 DEF RecvOK, UnpackOf
    <3> QED
      BY <2>1, <3>1, HeldBuffers
  <2>2. CASE x.name = 0
    BY <1>0, <1>1, <2>2, EdgeBuffersApart DEF RecvOK
  <2> QED
    BY <1>1, <2>1, <2>2 DEF RecvOK
<1>2. ASSUME SendOK(r)
      PROVE  \/ /\ r.name \in Name /\ InFlight(r.name) /\ r.n \in Neighbour
                /\ r.buf = PackOf(r.name, r.n) /\ r.buf \in Range(Held(obj[r.name]))
             \/ /\ r.name = 0 /\ r.n \in 1..Len(edges.sent) /\ r.buf = edges.sent[r.n]
                /\ r.buf \in Range(edges.sent \o edges.received)
  <2>1. CASE r.name \in Name
    <3>1. InFlight(r.name) /\ r.n \in Neighbour /\ r.buf = PackOf(r.name, r.n)
      BY <1>0, <1>2, <2>1 DEF SendOK, PackOf
    <3> QED
      BY <2>1, <3>1, HeldBuffers
  <2>2. CASE r.name = 0
    BY <1>0, <1>2, <2>2, EdgeBuffersApart DEF SendOK
  <2> QED
    BY <1>2, <2>1, <2>2 DEF SendOK
<1>3. ASSUME SendOK(r) PROVE v.buf # r.buf
  BY <1>1, <1>2, <1>3, UpdaterBuffers, EdgeBuffersApart, HoldersApart
<1>4. ASSUME RecvOK(r), v.name # r.name \/ v.n # r.n PROVE v.buf # r.buf
  BY <1>1, <1>4, UpdaterBuffers, EdgeBuffersApart, HoldersApart
<1> QED
  BY <1>3, <1>4

LEMMA RaceFree == IInv => NoRace
<1> SUFFICES ASSUME IInv PROVE NoRace
  OBVIOUS
<1>1. /\ StreamsInv /\ EdgesOK /\ HoldersOK /\ UnpackOK /\ PrivateOK /\ DefaultOK /\ QueueOK
      /\ \A s \in sends : SendOK(s)
      /\ \A v \in recvs : RecvOK(v)
  BY DEF IInv, StreamsInv, MpiOK
<1>2. \A s \in DOMAIN queue : queue[s] # <<>> => QueuedOK(s, Head(queue[s]))
  BY <1>1, EmptyQueue, QueuedKernels
<1> DEFINE OfStream(a) == \E s \in DOMAIN queue :
             /\ QueuedOK(s, Head(queue[s])) /\ a.by = <<"stream", s, 0>>
             /\ a.reads = Reads(Head(queue[s])) /\ a.writes = Writes(Head(queue[s]))
           OfSend(a) == \E s \in sends :
             a.by = <<"send", s.name, s.n>> /\ a.reads = CellsOf(s.buf) /\ a.writes = {}
           OfRecv(a) == \E v \in recvs :
             a.by = <<"recv", v.name, v.n>> /\ a.reads = {} /\ a.writes = CellsOf(v.buf)
<1>3. ASSUME NEW a \in Accesses PROVE OfStream(a) \/ OfSend(a) \/ OfRecv(a)
  <2>1. CASE \E s \in {s \in DOMAIN queue : queue[s] # <<>>} :
               a = [by |-> <<"stream", s, 0>>, reads |-> Reads(Head(queue[s])),
                    writes |-> Writes(Head(queue[s]))]
    <3>1. PICK s \in DOMAIN queue : /\ queue[s] # <<>>
                                    /\ a = [by |-> <<"stream", s, 0>>, reads |-> Reads(Head(queue[s])),
                                            writes |-> Writes(Head(queue[s]))]
      BY <2>1
    <3>2. QueuedOK(s, Head(queue[s]))
      BY <1>2, <3>1
    <3>3. /\ a.by = <<"stream", s, 0>> /\ a.reads = Reads(Head(queue[s]))
          /\ a.writes = Writes(Head(queue[s]))
      BY <3>1
    <3> QED
      BY <3>2, <3>3
  <2>2. CASE \E s \in sends : a = [by |-> <<"send", s.name, s.n>>, reads |-> CellsOf(s.buf), writes |-> {}]
    BY <2>2
  <2>3. CASE \E v \in recvs : a = [by |-> <<"recv", v.name, v.n>>, reads |-> {}, writes |-> CellsOf(v.buf)]
    BY <2>3
  <2> QED
    BY <2>1, <2>2, <2>3 DEF Accesses
\* What an access writes, another does not touch.
<1>4. ASSUME NEW a, NEW b, a.by # b.by, OfStream(a) \/ OfSend(a) \/ OfRecv(a),
             OfStream(b) \/ OfSend(b) \/ OfRecv(b)
      PROVE  a.writes \intersect (b.reads \union b.writes) = {}
  <2>1. ASSUME OfStream(a), OfStream(b) PROVE a.writes \intersect (b.reads \union b.writes) = {}
    <3>1. PICK s, k :
            /\ QueuedOK(s, k) /\ a.by = <<"stream", s, 0>>
            /\ a.reads = Reads(k) /\ a.writes = Writes(k)
      BY <2>1
    <3>2. PICK t, j :
            /\ QueuedOK(t, j) /\ b.by = <<"stream", t, 0>>
            /\ b.reads = Reads(j) /\ b.writes = Writes(j)
      BY <2>1
    <3>3. s # t
      BY <1>4, <3>1, <3>2
    <3>4. Writes(k) \intersect (Reads(j) \union Writes(j)) = {}
      BY <1>1, <3>1, <3>2, <3>3, StreamsDoNotConflict
    <3> QED
      BY <3>1, <3>2, <3>4
  <2>2. ASSUME OfStream(a), OfSend(b) PROVE a.writes \intersect (b.reads \union b.writes) = {}
    <3>1. PICK s, k : QueuedOK(s, k) /\ a.writes = Writes(k)
      BY <2>2
    <3>2. PICK r \in sends : b.reads = CellsOf(r.buf) /\ b.writes = {}
      BY <2>2
    <3> SUFFICES ASSUME NEW loc \in Writes(k), loc \in CellsOf(r.buf) PROVE FALSE
      BY <3>1, <3>2
    <3>3. loc[1] = "buffer" /\ loc[2] = r.buf
      BY DEF CellsOf
    <3>4. k.buf = r.buf /\ k.do \in {"zero", "pack", "copy_in"}
      BY <3>1, <3>3, QueuedDo, KernelCells
    <3> QED
      BY <1>1, <3>1, <3>4, SendApart
  <2>3. ASSUME OfStream(a), OfRecv(b) PROVE a.writes \intersect (b.reads \union b.writes) = {}
    <3>1. PICK s, k : QueuedOK(s, k) /\ a.writes = Writes(k)
      BY <2>3
    <3>2. PICK r \in recvs : b.writes = CellsOf(r.buf) /\ b.reads = {}
      BY <2>3
    <3> SUFFICES ASSUME NEW loc \in Writes(k), loc \in CellsOf(r.buf) PROVE FALSE
      BY <3>1, <3>2
    <3>3. loc[1] = "buffer" /\ loc[2] = r.buf
      BY DEF CellsOf
    <3>4. k.buf = r.buf /\ k.do \in {"zero", "pack", "copy_in"}
      BY <3>1, <3>3, QueuedDo, KernelCells
    <3> QED
      BY <1>1, <3>1, <3>4, RecvApart
  <2>4. ASSUME OfSend(a) PROVE a.writes \intersect (b.reads \union b.writes) = {}
    BY <2>4
  <2>5. ASSUME OfRecv(a), OfStream(b) PROVE a.writes \intersect (b.reads \union b.writes) = {}
    <3>1. PICK s, k : QueuedOK(s, k) /\ b.writes = Writes(k) /\ b.reads = Reads(k)
      BY <2>5
    <3>2. PICK r \in recvs : a.writes = CellsOf(r.buf)
      BY <2>5
    <3> SUFFICES ASSUME NEW loc \in Writes(k) \union Reads(k), loc \in CellsOf(r.buf) PROVE FALSE
      BY <3>1, <3>2
    <3>3. loc[1] = "buffer" /\ loc[2] = r.buf
      BY DEF CellsOf
    <3>4. k.buf = r.buf /\ k.do \in {"zero", "pack", "copy_in", "unpack", "copy_out"}
      BY <3>1, <3>3, QueuedDo, KernelCells
    <3> QED
      BY <1>1, <3>1, <3>4, RecvApart
  <2>6. ASSUME OfRecv(a), OfSend(b) PROVE a.writes \intersect (b.reads \union b.writes) = {}
    <3>1. PICK v \in recvs : a.writes = CellsOf(v.buf)
      BY <2>6
    <3>2. PICK s \in sends : b.reads = CellsOf(s.buf) /\ b.writes = {}
      BY <2>6
    <3>3. v.buf # s.buf
      BY <1>1, RequestsApart
    <3> QED
      BY <3>1, <3>2, <3>3 DEF CellsOf
  <2>7. ASSUME OfRecv(a), OfRecv(b) PROVE a.writes \intersect (b.reads \union b.writes) = {}
    <3>1. PICK v \in recvs : a.writes = CellsOf(v.buf) /\ a.by = <<"recv", v.name, v.n>>
      BY <2>7
    <3>2. PICK w \in recvs : b.writes = CellsOf(w.buf) /\ b.reads = {} /\ b.by = <<"recv", w.name, w.n>>
      BY <2>7
    <3>3. v.name # w.name \/ v.n # w.n
      BY <1>4, <3>1, <3>2
    <3>4. v.buf # w.buf
      BY <1>1, <3>3, RequestsApart
    <3> QED
      BY <3>1, <3>2, <3>4 DEF CellsOf
  <2> QED
    BY <1>4, <2>1, <2>2, <2>3, <2>4, <2>5, <2>6, <2>7
<1> HIDE DEF OfStream, OfSend, OfRecv
<1>5. ASSUME NEW a \in Accesses, NEW b \in Accesses, a.by # b.by PROVE ~ Conflict(a, b)
  <2>1. a.writes \intersect (b.reads \union b.writes) = {}
    BY <1>3, <1>4, <1>5
  <2>2. b.writes \intersect (a.reads \union a.writes) = {}
    BY <1>3, <1>4, <1>5
  <2> QED
    BY <2>1, <2>2 DEF Conflict
<1> QED
  BY <1>5 DEF NoRace

LEMMA InitRace == Init /\ EdgesCached => IInv
<1> SUFFICES ASSUME Init, EdgesCached PROVE IInv
  OBVIOUS
<1>1. /\ host = Ready /\ obj = [u \in Name |-> NoUpdater] /\ edges = NoEdges
      /\ cache = [halo |-> <<>>, edge |-> [b \in 1..EdgeBuffers |-> b]]
      /\ buffers = EdgeBuffers /\ queue = [s \in {0} |-> <<>>] /\ sends = {} /\ recvs = {}
  BY DEF Init
<1>2. StreamsInv
  BY InitStreams
<1>3. PICK c : c = [b \in 1..EdgeBuffers |-> b]
  OBVIOUS
<1>4. /\ EdgeBuffers \in Nat /\ Len(c) = EdgeBuffers /\ cache.edge = c /\ cache.halo = <<>>
      /\ IsInjective(c) /\ Range(c) \subseteq 1..EdgeBuffers
  <2>1. EdgeBuffers \in Nat /\ c \in [1..EdgeBuffers -> Nat]
    BY <1>3, Sizes
  <2>2. Len(c) = EdgeBuffers
    BY <2>1, KernelList
  <2>3. IsInjective(c) /\ Range(c) \subseteq 1..EdgeBuffers
    BY <1>3 DEF IsInjective, Range
  <2> QED
    BY <1>1, <1>3, <2>1, <2>2, <2>3
<1>5. edges.sent = <<>> /\ edges.received = <<>> /\ Len(<<>>) = 0 /\ <<>> \o <<>> = <<>>
  BY <1>1 DEF NoEdges
<1>6. EdgesOK
  BY <1>1, <1>4, <1>5 DEF EdgesOK, Ready
<1>7. HoldersOK
  <2>1. \A h \in Holders : h # Edge => BufferLists[h] = <<>>
    BY <1>1, <1>4, <1>5, HolderLists, NoUpdaterFacts
  <2>2. BufferLists[Edge] = c
    BY <1>4, HolderLists
  <2> QED
    BY <1>1, <1>4, <2>1, <2>2, NoUpdaterFacts DEF HoldersOK, Apart
<1>8. IndicesOK
  BY <1>1, NoUpdaterFacts DEF IndicesOK
<1>9. MpiOK /\ UnpackOK
  BY <1>1 DEF MpiOK, UnpackOK, Pending
<1>10. PrivateOK /\ DefaultOK
  BY <1>1, NoUpdaterFacts DEF PrivateOK, DefaultOK, Queued
<1> QED
  BY <1>2, <1>6, <1>7, <1>8, <1>9, <1>10 DEF IInv

LEMMA NextIInv == IInv /\ [Next]_vars => IInv'
<1> SUFFICES ASSUME IInv, [Next]_vars PROVE IInv'
  OBVIOUS
<1>1. EdgesCached'
  BY DEF IInv, EdgesCached
<1>2. StreamsInv' /\ EdgesOK' /\ HoldersOK' /\ IndicesOK'
  BY NextStreams, NextEdges, NextHolders, NextIndices DEF IInv
<1>3. MpiOK' /\ UnpackOK'
  BY NextMpi DEF IInv
<1>4. PrivateOK' /\ DefaultOK'
  BY NextPrivate, NextDefault DEF IInv
<1> QED
  BY <1>1, <1>2, <1>3, <1>4 DEF IInv

(***************************************************************************)
(* No two accesses that may happen in either order touch the same memory   *)
(* of the device, unless both only read it, if the cache holds enough      *)
(* buffers for an exchange of edges when the program starts: for any       *)
(* number of updaters, fields, neighbours and calls, on both paths of the  *)
(* synchronization.                                                        *)
(***************************************************************************)
THEOREM DeviceHasNoRace == EdgesCached /\ Spec => []NoRace
<1>1. Init /\ EdgesCached => IInv
  BY InitRace
<1>2. IInv /\ [Next]_vars => IInv'
  BY NextIInv
<1>3. IInv => NoRace
  BY RaceFree
<1> QED
  BY <1>1, <1>2, <1>3, PTL DEF Spec

-----------------------------------------------------------------------------
(* What the memory holds.                                                  *)

\* The buffers the cache had are those of edges, and any other is for halos.
PartsOf(b) == IF b <= EdgeBuffers THEN {1} ELSE Part
SidesOK ==
  /\ buffers >= EdgeBuffers
  /\ Range(cache.edge) \subseteq 1..EdgeBuffers
  /\ Range(edges.sent \o edges.received) \subseteq 1..EdgeBuffers
  /\ Range(cache.halo) \subseteq (EdgeBuffers + 1)..buffers
  /\ \A u \in Name : Range(Held(obj[u])) \subseteq (EdgeBuffers + 1)..buffers

\* Which locations there are.
CellsOK ==
  /\ Locations \subseteq DOMAIN mem
  /\ \A b \in 1..buffers : \A i \in PartsOf(b) : Cell(b, i) \in DOMAIN mem
  /\ \A loc \in DOMAIN mem :
       loc[1] = "buffer" => \E b \in 1..buffers : \E i \in PartsOf(b) : loc = Cell(b, i)

\* What the kernels of the default stream have in mind.
Recalls(k) ==
  /\ k.do = "zero" => k.buf > EdgeBuffers
  /\ k.do = "upload" => k.val = 1 /\ Indices(k.n) \in DOMAIN mem
  /\ k.do = "copy_out" => /\ edges = NoEdges /\ k.n \in Neighbour
                          /\ mem[Cell(k.buf, 1)] = expected[EdgeOf(k.n)]
RecallsOK == \A k \in Queued(0) : Recalls(k)

\* The last kernel of the model that is queued, if any, leaves the version of the program.
Steps(k, q) == k.do \in {"compute", "inside"} /\ k.q = q
IsLast(i, q) ==
  /\ Steps(queue[0][i], q) /\ queue[0][i].val = version[q]
  /\ \A j \in DOMAIN queue[0] : j > i => ~ Steps(queue[0][j], q)
Comes(q) ==
  \/ \E i \in DOMAIN queue[0] : IsLast(i, q)
  \/ mem[Interior(q)] = version[q] /\ \A k \in Queued(0) : ~ Steps(k, q)
InteriorOK == \A q \in Quantity : Comes(q)

\* The indices are there, or on their way.
UploadOK ==
  Indices(1) \in DOMAIN mem =>
    \A n \in Neighbour : Indices(n) \in DOMAIN mem /\ (mem[Indices(n)] = 1 \/ upload(n) \in Queued(0))

\* A kernel of updater u is queued, or its location has the value x already.
StreamFor(u, n, i) == IF wide THEN 0 ELSE StreamOf(obj[u], n, i)
Gets(s, k, loc, x) == k \in Queued(s) \/ mem[loc] = x

\* What is not sent yet is packed, or will be.
PackedOK ==
  /\ host.at = "isend" =>
       \A n \in Neighbour, i \in Part : n >= host.k =>
         Gets(StreamFor(host.name, n, i), pack(PackOf(host.name, n), i, n),
              Cell(PackOf(host.name, n), i), version[Fields[i]])
  /\ host.at = "edges" /\ host.k <= Neighbours =>
       Gets(0, copy_in(edges.sent[host.k]), Cell(edges.sent[host.k], 1), version[Fields[1]])

\* What MPI has still to read.
Size(s) == IF s.name = 0 THEN 1 ELSE Len(Fields)
SentOK == \A s \in sends : s.want = [i \in 1..Size(s) |-> mem[Cell(s.buf, i)]]

\* What MPI received, or will.
Exchange(v) == IF v.name = 0 THEN edges.exch ELSE obj[v.name].exch
Comings(u, n) == {v \in recvs : v.name = u /\ v.n = n}
ReceivedOK ==
  /\ \A v \in recvs : v.val = Exchange(v)
  /\ \A u \in Name, n \in Neighbour : InFlight(u) /\ Comings(u, n) = {} =>
       \A i \in Part : mem[Cell(UnpackOf(u, n), i)] = obj[u].exch
  /\ \A n \in 1..Len(edges.received) : Comings(0, n) = {} =>
       mem[Cell(edges.received[n], 1)] = edges.exch

\* What is unpacked, or will be.
HalosOK ==
  IF host.at = "unpack"
  THEN \A n \in Neighbour, i \in Part :
         Gets(StreamFor(host.name, n, i), unpack(UnpackOf(host.name, n), i, n),
              HaloOf(Fields[i], n), obj[host.name].exch)
  ELSE \A q \in Quantity, n \in Neighbour : mem[HaloOf(q, n)] = expected[HaloOf(q, n)]

CopiedOK ==
  /\ DOMAIN expected = (UNION {Halos(q) : q \in Quantity}) \union Edges
  /\ \A n \in Neighbour :
       \/ \E k \in Queued(0) : k.do = "copy_out" /\ k.n = n
       \/ mem[EdgeOf(n)] = expected[EdgeOf(n)]

ValuesOK ==
  /\ version \in [Quantity -> Nat] /\ SidesOK /\ CellsOK /\ RecallsOK /\ InteriorOK /\ UploadOK
  /\ PackedOK /\ SentOK /\ ReceivedOK /\ HalosOK /\ CopiedOK /\ SentAsStarted

-----------------------------------------------------------------------------
(* The two sizes of buffers.                                               *)

\* Buffers come from their cache, or are new.
LEMMA PopSide ==
  ASSUME Types, HoldersOK, NEW key \in {"halo", "edge"}, NEW count \in Nat
  PROVE  /\ Fresh(key, count) \in Nat
         /\ Range(pop_from_cache(key, count)) \subseteq Range(cache[key]) \union NewBuffers(key, count)
         /\ Range(CacheAfterPop(key, count)[key]) \subseteq Range(cache[key])
         /\ \A other \in {"halo", "edge"} :
              other # key => CacheAfterPop(key, count)[other] = cache[other]
<1>1. IsInjective(cache[key]) /\ Range(cache[key]) \subseteq 1..buffers
  <2>1. cache["halo"] = cache.halo /\ cache["edge"] = cache.edge
    BY DEF Types
  <2> QED
    BY <2>1, HolderLists DEF HoldersOK, Apart
<1>2. buffers \in Nat /\ Fresh(key, count) \in Nat
  BY PopFromCache DEF Types
<1>3. Takes(count, Len(cache[key]), buffers, Fresh(key, count), cache[key],
            pop_from_cache(key, count), CacheAfterPop(key, count)[key])
  BY <1>1, PopFromCache
<1>4. /\ Range(pop_from_cache(key, count)) \subseteq 1..(buffers + Fresh(key, count))
      /\ Range(pop_from_cache(key, count)) \intersect 1..buffers \subseteq Range(cache[key])
      /\ Range(CacheAfterPop(key, count)[key]) \subseteq Range(cache[key])
  BY <1>3, TakeLast
<1>5. NewBuffers(key, count) = (buffers + 1)..(buffers + Fresh(key, count))
  BY DEF NewBuffers
<1>6. \A b \in 1..(buffers + Fresh(key, count)) :
        b \in 1..buffers \/ b \in (buffers + 1)..(buffers + Fresh(key, count))
  BY <1>2
<1> QED
  BY <1>2, <1>4, <1>5, <1>6, PopFromCache

\* Who changes the cache of halo buffers: an updater that is made or finished.
LEMMA HaloSteps ==
  ASSUME StreamsInv, EdgesOK, EdgesCached, [Next]_vars
  PROVE  \/ \E u \in Name : \E once \in BOOLEAN : Create(u, once)
         \/ \E u \in Name : Finalize(u) /\ obj[u].st # "none" /\ buffers' = buffers
         \/ cache'.halo = cache.halo /\ buffers' = buffers
<1> DEFINE Kept == cache'.halo = cache.halo /\ buffers' = buffers
           Given(u) == Finalize(u) /\ obj[u].st # "none" /\ buffers' = buffers
<1>0. /\ Types /\ cache \in [halo : Seq(Nat), edge : Seq(Nat)] /\ buffers \in Nat
      /\ cache["halo"] = cache.halo /\ cache'["halo"] = cache'.halo
  BY DEF StreamsInv, Types
<1>1. ASSUME NEW u \in Name, EndWait(u) \/ Drop(u) PROVE Kept \/ Given(u)
  <2>1. obj[u].st # "none" /\ buffers' = buffers
    <3>1. CASE EndWait(u)
      BY <3>1, HostUpdater DEF EndWait
    <3>2. CASE Drop(u)
      BY <3>2 DEF Drop
    <3> QED
      BY <1>1, <3>1, <3>2
  <2>2. Finalize(u) \/ KeepUpdater(u)
    BY <1>1 DEF EndWait, Drop
  <2>3. KeepUpdater(u) => cache' = cache
    BY DEF KeepUpdater
  <2> QED
    BY <2>1, <2>2, <2>3
<1>2. ASSUME NEW count \in Nat, Fresh("edge", count) = 0,
             cache' = CacheAfterPop("edge", count), buffers' = buffers + Fresh("edge", count)
      PROVE  Kept
  <2>1. CacheAfterPop("edge", count)["halo"] = cache["halo"]
    BY <1>0, PopFromCache
  <2> QED
    BY <1>0, <1>2, <2>1
<1>3. ASSUME StartEdges \/ SendEdge \/ RecvEdges PROVE Kept
  <2>1. CASE CopyEdge /\ (StartEdges \/ (SendEdge /\ host.k < Neighbours))
    <3>1. Fresh("edge", 1) = 0
      BY <2>1, EdgePops
    <3>2. cache' = CacheAfterPop("edge", 1) /\ buffers' = buffers + Fresh("edge", 1)
      BY <2>1 DEF CopyEdge
    <3> QED
      BY <1>2, <3>1, <3>2
  <2>2. CASE RecvEdges
    BY <1>2, <2>2, EdgePops, Sizes DEF RecvEdges
  <2>3. CASE SendEdge /\ ~ (host.k < Neighbours)
    BY <2>3 DEF SendEdge
  <2> QED
    BY <1>3, <2>1, <2>2, <2>3 DEF StartEdges, SendEdge
<1>4. ASSUME WaitEdges PROVE Kept
  BY <1>0, <1>4 DEF WaitEdges
<1>5. ASSUME NEW q \in Quantity, Compute(q) PROVE Kept
  BY <1>5 DEF Compute
<1>6. ASSUME NEW u \in Name, BeginStart(u) \/ BeginWait(u) \/ PostAndPack(u) \/ Isend(u) \/ LaunchUnpack(u)
      PROVE  Kept
  BY <1>6 DEF BeginStart, BeginWait, PostAndPack, Isend, LaunchUnpack
<1>7. ASSUME DeviceStep \/ MpiStep \/ UNCHANGED vars PROVE Kept
  BY <1>7 DEF DeviceStep, Run, MpiStep, MpiRead, MpiWrite, vars, hostVars
<1> HIDE DEF Kept, Given
<1>8. \/ \E u \in Name : \E once \in BOOLEAN : Create(u, once)
      \/ \E u \in Name : Given(u)
      \/ Kept
  BY <1>1, <1>3, <1>4, <1>5, <1>6, <1>7 DEF Next, NewCall, HostStep
<1> QED
  BY <1>8 DEF Kept, Given

LEMMA NextEdgeSide ==
  ASSUME StreamsInv, EdgesOK, EdgesCached, HoldersOK, SidesOK, [Next]_vars
  PROVE  /\ Range(cache'.edge) \subseteq 1..EdgeBuffers
         /\ Range(edges'.sent \o edges'.received) \subseteq 1..EdgeBuffers
<1> DEFINE B == 1..EdgeBuffers
<1>0. /\ Types /\ edges.sent \in Seq(Nat) /\ edges.received \in Seq(Nat) /\ cache.edge \in Seq(Nat)
      /\ cache \in [halo : Seq(Nat), edge : Seq(Nat)]
      /\ cache["edge"] = cache.edge /\ cache'["edge"] = cache'.edge /\ Len(<<>>) = 0
      /\ Range(cache.edge) \subseteq B /\ Range(edges.sent \o edges.received) \subseteq B
      /\ \A s \in Seq(Nat) : s \o <<>> = s
  BY DEF StreamsInv, Types, SidesOK
<1>1. /\ Range(edges.sent \o edges.received) = Range(edges.sent) \union Range(edges.received)
  BY <1>0, AppendList
<1> HIDE DEF B
<1>2. ASSUME NEW count \in Nat, Fresh("edge", count) = 0, cache' = CacheAfterPop("edge", count)
      PROVE  Range(cache'.edge) \subseteq B /\ Range(pop_from_cache("edge", count)) \subseteq B
  <2>1. NewBuffers("edge", count) = {}
    BY <1>0, <1>2 DEF NewBuffers, Types
  <2> QED
    BY <1>0, <1>2, <2>1, PopSide
<1>3. CASE StartEdges \/ (SendEdge /\ host.k < Neighbours)
  <2>1. CopyEdge
    BY <1>3 DEF StartEdges, SendEdge
  <2>2. /\ Fresh("edge", 1) = 0 /\ edges'.received = <<>>
        /\ edges'.sent = Append(edges.sent, pop_from_cache("edge", 1)[1])
        /\ edges'.sent \in Seq(Nat) /\ pop_from_cache("edge", 1)[1] \in Nat
    BY <1>3, <2>1, CopyEdgeFacts
  <2>3. cache' = CacheAfterPop("edge", 1)
    BY <2>1 DEF CopyEdge
  <2>4. Range(cache'.edge) \subseteq B /\ Range(pop_from_cache("edge", 1)) \subseteq B
    BY <1>2, <2>2, <2>3
  <2>5. Len(pop_from_cache("edge", 1)) = 1 /\ pop_from_cache("edge", 1) \in Seq(Nat)
    BY <1>0, PopFromCache
  <2>6. PICK b \in Nat : b = pop_from_cache("edge", 1)[1]
    BY <2>2
  <2>7. b \in B
    BY <2>4, <2>5, <2>6 DEF Range
  <2>8. Append(edges.sent, b) = edges.sent \o <<b>> /\ <<b>> \in Seq(Nat) /\ Range(<<b>>) = {b}
    BY <1>0, AppendOne, OneKernel
  <2>9. Range(edges.sent \o <<b>>) = Range(edges.sent) \union Range(<<b>>)
    BY <1>0, <2>8, AppendList
  <2>10. edges'.sent \o edges'.received = edges'.sent
    BY <1>0, <2>2
  <2>11. Range(edges'.sent \o edges'.received) \subseteq B
    BY <1>0, <1>1, <2>2, <2>6, <2>7, <2>8, <2>9, <2>10
  <2> QED
    BY <2>4, <2>11 DEF B
<1>4. CASE RecvEdges
  <2>1. /\ Fresh("edge", Neighbours) = 0 /\ edges'.sent = edges.sent
        /\ edges'.received = pop_from_cache("edge", Neighbours) /\ edges'.received \in Seq(Nat)
    BY <1>4, RecvEdgesFacts
  <2>2. cache' = CacheAfterPop("edge", Neighbours) /\ Neighbours \in Nat
    BY <1>4, Sizes DEF RecvEdges
  <2>3. Range(cache'.edge) \subseteq B /\ Range(pop_from_cache("edge", Neighbours)) \subseteq B
    BY <1>2, <2>1, <2>2
  <2>4. Range(edges.sent \o edges'.received) = Range(edges.sent) \union Range(edges'.received)
    BY <1>0, <2>1, AppendList
  <2>5. Range(edges'.sent \o edges'.received) \subseteq B
    BY <1>0, <1>1, <2>1, <2>3, <2>4
  <2> QED
    BY <2>3, <2>5 DEF B
<1>5. CASE WaitEdges
  <2>1. edges' = NoEdges /\ cache' = [cache EXCEPT !.edge = @ \o edges.sent \o edges.received]
    BY <1>5 DEF WaitEdges
  <2>2. cache'.edge = cache.edge \o edges.sent \o edges.received
    BY <1>0, <2>1
  <2>3. PICK a \in Seq(Nat), b \in Seq(Nat), c \in Seq(Nat) :
          a = cache.edge /\ b = edges.sent /\ c = edges.received
    BY <1>0
  <2>4. a \o b \in Seq(Nat) /\ Range(a \o b) = Range(a) \union Range(b)
    BY AppendList
  <2>5. PICK d \in Seq(Nat) : d = a \o b
    BY <2>4
  <2>6. Range(d \o c) = Range(d) \union Range(c)
    BY AppendList
  <2>7. Range(cache'.edge) \subseteq B
    BY <1>0, <1>1, <2>2, <2>3, <2>4, <2>5, <2>6
  <2>8. edges'.sent = <<>> /\ edges'.received = <<>> /\ <<>> \o <<>> = <<>>
    BY <2>1 DEF NoEdges
  <2>9. Range(edges'.sent \o edges'.received) \subseteq B
    BY <2>8, NoUpdaterFacts
  <2> QED
    BY <2>7, <2>9 DEF B
<1>6. CASE SendEdge /\ ~ (host.k < Neighbours)
  <2>1. cache' = cache /\ edges' = edges
    BY <1>6 DEF SendEdge
  <2> QED
    BY <1>0, <2>1 DEF B
<1>7. CASE edges' = edges /\ cache'.edge = cache.edge
  BY <1>0, <1>7 DEF B
<1> QED
  BY <1>3, <1>4, <1>5, <1>6, <1>7, EdgeSteps

LEMMA NextSides ==
  ASSUME StreamsInv, EdgesOK, EdgesCached, HoldersOK, SidesOK, [Next]_vars
  PROVE  SidesOK'
<1> DEFINE H == (EdgeBuffers + 1)..buffers
<1>0. /\ Types /\ cache \in [halo : Seq(Nat), edge : Seq(Nat)] /\ obj \in [Name -> Updaters]
      /\ buffers \in Nat /\ EdgeBuffers \in Nat /\ buffers >= EdgeBuffers /\ cache.halo \in Seq(Nat)
      /\ Range(cache.halo) \subseteq H /\ \A v \in Name : Range(Held(obj[v])) \subseteq H
      /\ QueueOK /\ cache["halo"] = cache.halo /\ cache'["halo"] = cache'.halo
  BY Sizes DEF StreamsInv, Types, SidesOK
<1> HIDE DEF H
<1>1. Range(cache'.edge) \subseteq 1..EdgeBuffers
      /\ Range(edges'.sent \o edges'.received) \subseteq 1..EdgeBuffers
  BY NextEdgeSide
<1>2. ASSUME NEW u \in Name, NEW once \in BOOLEAN, Create(u, once) PROVE SidesOK'
  <2>1. /\ cache' = CacheAfterPop("halo", 2 * Neighbours)
        /\ buffers' = buffers + Fresh("halo", 2 * Neighbours)
        /\ obj' = [obj EXCEPT ![u] = Updater(once)]
    BY <1>2 DEF Create
  <2>2. obj'[u] = Updater(once) /\ \A v \in Name : v # u => obj'[v] = obj[v]
    BY <1>0, <2>1
  <2>3. Held(obj'[u]) = pop_from_cache("halo", 2 * Neighbours) /\ 2 * Neighbours \in Nat
    BY <1>0, <2>2, NewUpdater, Sizes
  <2>4. /\ Fresh("halo", 2 * Neighbours) \in Nat /\ Range(cache'.halo) \subseteq Range(cache.halo)
        /\ Range(Held(obj'[u])) \subseteq Range(cache.halo) \union NewBuffers("halo", 2 * Neighbours)
    BY <1>0, <2>1, <2>3, PopSide
  <2>5. /\ H \subseteq (EdgeBuffers + 1)..buffers' /\ buffers' >= EdgeBuffers
        /\ NewBuffers("halo", 2 * Neighbours) \subseteq (EdgeBuffers + 1)..buffers'
    BY <1>0, <2>1, <2>4 DEF H, NewBuffers
  <2>6. \A v \in Name : Range(Held(obj'[v])) \subseteq (EdgeBuffers + 1)..buffers'
    BY <1>0, <2>2, <2>4, <2>5
  <2> QED
    BY <1>0, <1>1, <2>4, <2>5, <2>6 DEF SidesOK, Held
<1>3. CASE \A u \in Name, once \in BOOLEAN : ~ Create(u, once)
  <2>1. ASSUME NEW v \in Name PROVE Range(Held(obj'[v])) \subseteq H
    <3>1. obj'[v] = obj[v] \/ ListsKept(v) \/ obj'[v] = NoUpdater
      <4>1. EndWait(v) /\ ~ obj[v].once => ListsKept(v)
        BY KeepLists
      <4>2. PostAndPack(v) => ListsKept(v)
        BY PackLists
      <4> QED
        BY <1>3, <4>1, <4>2, UpdaterStep
    <3> QED
      BY <1>0, <3>1, NoUpdaterFacts DEF ListsKept
  <2>2. Range(cache'.halo) \subseteq H /\ buffers' = buffers
    <3>1. ASSUME NEW u \in Name, Finalize(u), obj[u].st # "none" PROVE Range(cache'.halo) \subseteq H
      <4>1. cache' = [cache EXCEPT !.halo = @ \o Held(obj[u])]
        BY <3>1 DEF Finalize, Held
      <4>2. cache'.halo = cache.halo \o Held(obj[u])
        BY <1>0, <4>1
      <4>3. Held(obj[u]) \in Seq(Nat)
        BY <1>0, <3>1, HeldList DEF StreamsInv
      <4>4. Range(cache.halo \o Held(obj[u])) = Range(cache.halo) \union Range(Held(obj[u]))
        BY <1>0, <4>3, AppendList
      <4> QED
        BY <1>0, <4>2, <4>4
    <3> QED
      BY <1>0, <1>3, <3>1, HaloSteps
  <2> QED
    BY <1>0, <1>1, <2>1, <2>2 DEF SidesOK, H, Held
<1> QED
  BY <1>2, <1>3

-----------------------------------------------------------------------------
(* The buffers in use have cells.                                          *)

\* A buffer for the fields of an updater.
LEMMA FieldBuffer ==
  ASSUME StreamsInv, SidesOK, CellsOK, NEW u \in Name, InFlight(u), NEW n \in Neighbour,
         NEW b, b = PackOf(u, n) \/ b = UnpackOf(u, n)
  PROVE  /\ b \in 1..buffers /\ b > EdgeBuffers /\ PartsOf(b) = Part
         /\ \A i \in Part : Cell(b, i) \in DOMAIN mem
<1>1. b \in Range(Held(obj[u]))
  BY HeldBuffers
<1>2. buffers \in Nat /\ EdgeBuffers \in Nat
  BY Sizes DEF StreamsInv, Types
<1>3. b \in (EdgeBuffers + 1)..buffers
  BY <1>1 DEF SidesOK
<1>4. b \in 1..buffers /\ b > EdgeBuffers /\ ~ (b <= EdgeBuffers)
  BY <1>2, <1>3
<1> QED
  BY <1>4 DEF PartsOf, CellsOK

\* A buffer for an edge.
LEMMA EdgeBuffer ==
  ASSUME StreamsInv, HoldersOK, SidesOK, CellsOK, NEW b,
         \/ \E n \in 1..Len(edges.sent) : b = edges.sent[n]
         \/ \E n \in 1..Len(edges.received) : b = edges.received[n]
  PROVE  /\ b \in 1..buffers /\ b \in 1..EdgeBuffers /\ PartsOf(b) = {1}
         /\ Cell(b, 1) \in DOMAIN mem
<1>1. b \in Range(edges.sent \o edges.received)
  BY EdgeBuffersApart
<1>2. buffers \in Nat /\ EdgeBuffers \in Nat
  BY Sizes DEF StreamsInv, Types
<1>3. b \in 1..EdgeBuffers /\ buffers >= EdgeBuffers
  BY <1>1 DEF SidesOK
<1>4. b \in 1..buffers /\ b <= EdgeBuffers
  BY <1>2, <1>3
<1> QED
  BY <1>3, <1>4 DEF PartsOf, CellsOK

LEMMA CellsAre ==
  ASSUME CellsOK, NEW b \in 1..buffers, NEW loc
  PROVE  loc \in CellsOf(b) <=> \E i \in PartsOf(b) : loc = Cell(b, i)
<1>1. ASSUME loc \in CellsOf(b) PROVE \E i \in PartsOf(b) : loc = Cell(b, i)
  <2>1. loc \in DOMAIN mem /\ loc[1] = "buffer" /\ loc[2] = b
    BY <1>1 DEF CellsOf
  <2>2. PICK c \in 1..buffers : \E i \in PartsOf(c) : loc = Cell(c, i)
    BY <2>1 DEF CellsOK
  <2>3. c = b
    BY <2>1, <2>2 DEF Cell
  <2> QED
    BY <2>2, <2>3
<1>2. ASSUME NEW i \in PartsOf(b), loc = Cell(b, i) PROVE loc \in CellsOf(b)
  <2>1. Cell(b, i) \in DOMAIN mem
    BY DEF CellsOK
  <2> QED
    BY <1>2, <2>1 DEF CellsOf, Cell
<1> QED
  BY <1>1, <1>2

-----------------------------------------------------------------------------
(* What a step does to the memory.                                         *)

\* Kernel k of stream s runs.
RunOf(s, k) ==
  /\ s \in DOMAIN queue /\ k \in Queued(s) /\ k = Head(queue[s]) /\ queue[s] # <<>>
  /\ DOMAIN mem' = DOMAIN mem \union Writes(k)
  /\ \A loc \in Writes(k) : mem'[loc] = Written(k)
  /\ \A loc \in DOMAIN mem : loc \in Writes(k) \/ mem'[loc] = mem[loc]
  /\ queue' = [queue EXCEPT ![s] = Tail(@)]
  /\ DOMAIN queue' = DOMAIN queue
  /\ \A t \in DOMAIN queue : Range(queue'[t]) \subseteq Queued(t)
  /\ \A t \in DOMAIN queue : \A x \in Queued(t) : x \in Range(queue'[t]) \/ (t = s /\ x = k)
  /\ UNCHANGED <<wide, hostVars, sends, recvs, message>>

LEMMA TailKeeps ==
  ASSUME NEW K, NEW q \in Seq(K), q # <<>>, NEW x \in Range(q)
  PROVE  x = Head(q) \/ x \in Range(Tail(q))
<1>1. PICK i \in 1..Len(q) : x = q[i]
  BY DEF Range
<1>2. CASE i = 1
  BY <1>1, <1>2
<1>3. CASE i # 1
  <2>1. Tail(q) \in Seq(K) /\ Len(Tail(q)) = Len(q) - 1
    OBVIOUS
  <2>2. i - 1 \in 1..Len(Tail(q))
    BY <1>3, <2>1
  <2>3. Tail(q)[i - 1] = q[i]
    BY <1>3, <2>1, <2>2
  <2>4. PICK t \in Seq(K) : t = Tail(q)
    BY <2>1
  <2>5. i - 1 \in DOMAIN t /\ t[i - 1] = x
    BY <1>1, <2>2, <2>3, <2>4
  <2>6. x \in Range(t)
    BY <2>5 DEF Range
  <2> QED
    BY <2>4, <2>6
<1> QED
  BY <1>2, <1>3

LEMMA RunIs ==
  ASSUME StreamsInv, NEW s \in DOMAIN queue, Run(s)
  PROVE  \E k : RunOf(s, k)
<1> DEFINE k == Head(queue[s])
           W == Writes(k)
           w == Written(k)
<1>1. /\ queue[s] # <<>> /\ queue' = [queue EXCEPT ![s] = Tail(@)]
      /\ mem' = Over([loc \in W |-> w], mem)
      /\ UNCHANGED <<wide, hostVars, sends, recvs, message>>
  BY DEF Run
<1>2. QueueOK /\ \A t \in DOMAIN queue : \E K : queue[t] \in Seq(K)
  BY DEF StreamsInv, QueueOK
<1>3. k \in Queued(s)
  BY <1>1, <1>2, EmptyQueue
<1>4. /\ DOMAIN queue' = DOMAIN queue
      /\ \A t \in DOMAIN queue : Range(queue'[t]) \subseteq Queued(t)
  BY <1>1, <1>2, RunTakes
<1> HIDE DEF W, w
<1>5. /\ DOMAIN mem' = DOMAIN mem \union W /\ \A loc \in W : mem'[loc] = w
      /\ \A loc \in DOMAIN mem : loc \in W \/ mem'[loc] = mem[loc]
  BY <1>1 DEF Over
<1>6. ASSUME NEW t \in DOMAIN queue, NEW x \in Queued(t)
      PROVE  x \in Range(queue'[t]) \/ (t = s /\ x = k)
  <2>1. CASE t # s
    BY <1>1, <2>1, <1>6 DEF Queued
  <2>2. CASE t = s
    <3>1. PICK K : queue[s] \in Seq(K)
      BY <1>2
    <3>2. x \in Range(queue[s]) /\ queue'[s] = Tail(queue[s])
      BY <1>1, <1>6, <2>2 DEF Queued
    <3> QED
      BY <1>1, <2>2, <3>1, <3>2, TailKeeps
  <2> QED
    BY <2>1, <2>2
<1>7. RunOf(s, k)
  BY <1>1, <1>3, <1>4, <1>5, <1>6 DEF RunOf, W, w
<1> QED
  BY <1>7

\* What MPI received is in the buffer.
LEMMA WriteMem ==
  ASSUME NEW v, MpiWrite(v)
  PROVE  /\ DOMAIN mem' = DOMAIN mem
         /\ \A loc \in CellsOf(v.buf) : mem'[loc] = v.val
         /\ \A loc \in DOMAIN mem : loc \in CellsOf(v.buf) \/ mem'[loc] = mem[loc]
<1> DEFINE W == CellsOf(v.buf)
           w == v.val
<1>1. mem' = Over([loc \in W |-> w], mem) /\ W \subseteq DOMAIN mem
  BY DEF MpiWrite, CellsOf
<1> HIDE DEF W, w
<1>2. /\ DOMAIN mem' = DOMAIN mem \union W /\ \A loc \in W : mem'[loc] = w
      /\ \A loc \in DOMAIN mem : loc \in W \/ mem'[loc] = mem[loc]
  BY <1>1 DEF Over
<1>3. DOMAIN mem' = DOMAIN mem
  BY <1>1, <1>2
<1> QED
  BY <1>2, <1>3 DEF W, w

\* No location is written.
MemStays == DOMAIN mem' = DOMAIN mem /\ \A loc \in DOMAIN mem : mem'[loc] = mem[loc]

LEMMA NoneNew ==
  ASSUME Types, NEW key \in {"halo", "edge"}, NEW count \in Nat, Fresh(key, count) = 0,
         mem' = MemWithNew(key, count)
  PROVE  MemStays
<1>1. NewBuffers(key, count) = {}
  BY DEF NewBuffers, Types
<1> DEFINE C == {Cell(b, i) : b \in NewBuffers(key, count), i \in IF key = "halo" THEN Part ELSE {1}}
<1>2. C = {} /\ mem' = Over([loc \in C |-> 0], mem)
  BY <1>1 DEF MemWithNew
<1> HIDE DEF C
<1> QED
  BY <1>2 DEF Over, MemStays

LEMMA CreateMem ==
  ASSUME StreamsInv, CellsOK, NEW u \in Name, NEW once \in BOOLEAN, Create(u, once)
  PROVE  /\ \A loc \in DOMAIN mem :
              /\ loc \in DOMAIN mem'
              /\ loc[1] # "indices" \/ Indices(1) \in DOMAIN mem => mem'[loc] = mem[loc]
         /\ \A loc \in DOMAIN mem' :
              \/ loc \in DOMAIN mem
              \/ \E b \in NewBuffers("halo", 2 * Neighbours) : \E i \in Part : loc = Cell(b, i)
              \/ \E n \in Neighbour : loc = Indices(n)
         /\ \A b \in NewBuffers("halo", 2 * Neighbours) : \A i \in Part : Cell(b, i) \in DOMAIN mem'
         /\ Indices(1) \notin DOMAIN mem => \A n \in Neighbour : Indices(n) \in DOMAIN mem'
<1> DEFINE missing == IF Indices(1) \in DOMAIN mem THEN 0 ELSE Neighbours
           B == NewBuffers("halo", 2 * Neighbours)
           C == {Cell(b, i) : b \in B, i \in IF "halo" = "halo" THEN Part ELSE {1}}
           D == {Indices(n) : n \in 1..missing}
           m == Over([loc \in C |-> 0], mem)
<1>1. mem' = Over([loc \in D |-> 0], m)
  BY DEF Create, MemWithNew
<1>2. /\ \A loc \in C : \E b \in B : \E i \in Part : loc = Cell(b, i)
      /\ \A b \in B : \A i \in Part : Cell(b, i) \in C
  OBVIOUS
<1>3. /\ \A loc \in D : loc[1] = "indices" /\ Indices(1) \notin DOMAIN mem /\ \E n \in Neighbour : loc = Indices(n)
      /\ Indices(1) \notin DOMAIN mem => \A n \in Neighbour : Indices(n) \in D
  <2>1. \A n : Indices(n)[1] = "indices"
    BY DEF Indices
  <2>2. missing = IF Indices(1) \in DOMAIN mem THEN 0 ELSE Neighbours
    OBVIOUS
  <2>3. \A n \in 1..missing : n \in Neighbour /\ Indices(1) \notin DOMAIN mem
    BY Sizes DEF Neighbour
  <2>4. Indices(1) \notin DOMAIN mem => \A n \in Neighbour : n \in 1..missing
    BY Sizes DEF Neighbour
  <2> HIDE DEF missing
  <2> QED
    BY <2>1, <2>3, <2>4
<1>4. ASSUME NEW loc \in DOMAIN mem PROVE loc \notin C
  <2> SUFFICES ASSUME loc \in C PROVE FALSE
    OBVIOUS
  <2>1. PICK b \in B, i \in Part : loc = Cell(b, i)
    BY <1>2
  <2>2. loc[1] = "buffer" /\ loc[2] = b
    BY <2>1 DEF Cell
  <2>3. PICK c \in 1..buffers : \E j \in PartsOf(c) : loc = Cell(c, j)
    BY <2>2 DEF CellsOK
  <2>4. b = c
    BY <2>2, <2>3 DEF Cell
  <2>5. buffers \in Nat /\ Fresh("halo", 2 * Neighbours) \in Nat
    BY PopFromCache, Sizes DEF StreamsInv, Types
  <2>6. b \in (buffers + 1)..(buffers + Fresh("halo", 2 * Neighbours))
    BY <2>1 DEF NewBuffers
  <2> QED
    BY <2>3, <2>4, <2>5, <2>6
<1> HIDE DEF missing, B, C, D
<1>5. DOMAIN m = C \union DOMAIN mem /\ \A loc \in DOMAIN mem : loc \notin C => m[loc] = mem[loc]
  BY DEF Over
<1> HIDE DEF m
<1>6. DOMAIN mem' = D \union DOMAIN m /\ \A loc \in DOMAIN m : loc \notin D => mem'[loc] = m[loc]
  BY <1>1 DEF Over
<1>7. ASSUME NEW loc \in DOMAIN mem
      PROVE  /\ loc \in DOMAIN mem'
             /\ loc[1] # "indices" \/ Indices(1) \in DOMAIN mem => mem'[loc] = mem[loc]
  <2>1. loc \notin C /\ m[loc] = mem[loc] /\ loc \in DOMAIN m
    BY <1>4, <1>5
  <2>2. loc[1] # "indices" \/ Indices(1) \in DOMAIN mem => loc \notin D
    BY <1>3
  <2> QED
    BY <1>6, <2>1, <2>2
<1>8. ASSUME NEW loc \in DOMAIN mem'
      PROVE  \/ loc \in DOMAIN mem
             \/ \E b \in B : \E i \in Part : loc = Cell(b, i)
             \/ \E n \in Neighbour : loc = Indices(n)
  BY <1>2, <1>3, <1>5, <1>6
<1>9. \A b \in B : \A i \in Part : Cell(b, i) \in DOMAIN mem'
  BY <1>2, <1>5, <1>6
<1>10. Indices(1) \notin DOMAIN mem => \A n \in Neighbour : Indices(n) \in DOMAIN mem'
  BY <1>3, <1>6
<1> QED
  BY <1>7, <1>8, <1>9, <1>10 DEF B

\* Who writes.
LEMMA MemSteps ==
  ASSUME IInv, [Next]_vars
  PROVE  \/ \E s \in DOMAIN queue : \E k : RunOf(s, k)
         \/ \E v \in recvs : MpiWrite(v)
         \/ \E u \in Name : \E once \in BOOLEAN : Create(u, once)
         \/ MemStays
<1>0. StreamsInv /\ EdgesOK /\ EdgesCached /\ Types /\ Neighbours \in Nat
  BY Sizes DEF IInv, StreamsInv
<1>1. ASSUME mem' = mem PROVE MemStays
  BY <1>1 DEF MemStays
<1>2. ASSUME NEW q \in Quantity, Compute(q) PROVE MemStays
  BY <1>1, <1>2 DEF Compute
<1>3. ASSUME NEW u \in Name, BeginStart(u) \/ BeginWait(u) \/ PostAndPack(u) \/ Isend(u)
                             \/ LaunchUnpack(u) \/ EndWait(u) \/ Drop(u)
      PROVE  MemStays
  BY <1>1, <1>3 DEF BeginStart, BeginWait, PostAndPack, Isend, LaunchUnpack, EndWait, Drop
<1>4. ASSUME StartEdges \/ SendEdge PROVE MemStays
  <2>1. CASE CopyEdge /\ (StartEdges \/ (SendEdge /\ host.k < Neighbours))
    <3>1. Fresh("edge", 1) = 0
      BY <1>0, <2>1, EdgePops
    <3>2. mem' = MemWithNew("edge", 1)
      BY <2>1 DEF CopyEdge
    <3> QED
      BY <1>0, <3>1, <3>2, NoneNew
  <2>2. CASE SendEdge /\ ~ (host.k < Neighbours)
    BY <1>1, <2>2 DEF SendEdge
  <2> QED
    BY <1>4, <2>1, <2>2 DEF StartEdges, SendEdge
<1>5. ASSUME RecvEdges PROVE MemStays
  <2>1. Fresh("edge", Neighbours) = 0
    BY <1>0, <1>5, EdgePops
  <2>2. mem' = MemWithNew("edge", Neighbours)
    BY <1>5 DEF RecvEdges
  <2> QED
    BY <1>0, <2>1, <2>2, NoneNew
<1>6. ASSUME WaitEdges PROVE MemStays
  BY <1>1, <1>6 DEF WaitEdges
<1>7. ASSUME UNCHANGED vars PROVE MemStays
  BY <1>1, <1>7 DEF vars
<1>8. ASSUME NEW s, MpiRead(s) PROVE MemStays
  BY <1>1, <1>8 DEF MpiRead
<1>9. ASSUME NEW s \in DOMAIN queue, Run(s) PROVE \E k : RunOf(s, k)
  BY <1>0, <1>9, RunIs
<1> QED
  BY <1>2, <1>3, <1>4, <1>5, <1>6, <1>7, <1>8, <1>9
     DEF Next, NewCall, HostStep, DeviceStep, MpiStep

\* The only writers of what exists are the kernels and MPI, apart from new indices.
LEMMA Stays ==
  ASSUME IInv, CellsOK, [Next]_vars, NEW loc \in DOMAIN mem, loc[1] # "indices"
  PROVE  \/ mem'[loc] = mem[loc]
         \/ \E s \in DOMAIN queue : \E k : RunOf(s, k) /\ loc \in Writes(k)
         \/ \E v \in recvs : MpiWrite(v) /\ loc \in CellsOf(v.buf)
<1>0. StreamsInv
  BY DEF IInv
<1>1. ASSUME NEW u \in Name, NEW once \in BOOLEAN, Create(u, once) PROVE mem'[loc] = mem[loc]
  BY <1>0, <1>1, CreateMem
<1>2. ASSUME NEW v \in recvs, MpiWrite(v) PROVE loc \in CellsOf(v.buf) \/ mem'[loc] = mem[loc]
  BY <1>2, WriteMem
<1>3. ASSUME NEW s, NEW k, RunOf(s, k) PROVE loc \in Writes(k) \/ mem'[loc] = mem[loc]
  BY <1>3 DEF RunOf
<1>4. MemStays => mem'[loc] = mem[loc]
  BY DEF MemStays
<1> QED
  BY <1>1, <1>2, <1>3, <1>4, MemSteps

-----------------------------------------------------------------------------
(* Which kernels and messages write a location.                            *)

LEMMA LocationKinds ==
  /\ \A b, i, c, j : Cell(b, i) = Cell(c, j) => b = c /\ i = j
  /\ \A b, i : Cell(b, i)[1] = "buffer" /\ Cell(b, i)[2] = b
  /\ \A q, n, p, m : HaloOf(q, n) = HaloOf(p, m) => q = p /\ n = m
  /\ \A n, m : EdgeOf(n) = EdgeOf(m) => n = m
  /\ \A n, m : Indices(n) = Indices(m) => n = m
  /\ \A q, p : Interior(q) = Interior(p) => q = p
  /\ \A q, n : HaloOf(q, n)[1] = "halo"
  /\ \A n : EdgeOf(n)[1] = "edge"
  /\ \A n : Indices(n)[1] = "indices"
  /\ \A q : Interior(q)[1] = "interior"
BY DEF Cell, HaloOf, EdgeOf, Indices, Interior

Doings == {"zero", "upload", "compute", "inside", "pack", "unpack", "copy_in", "copy_out"}

LEMMA WrittenBy ==
  ASSUME NEW k, k.do \in Doings, NEW loc \in Writes(k)
  PROVE  /\ loc[1] = "buffer" => loc[2] = k.buf /\ k.do \in {"zero", "pack", "copy_in"}
         /\ loc[1] = "halo" => k.do = "unpack" /\ loc = HaloOf(k.q, k.n)
         /\ loc[1] = "edge" => k.do = "copy_out" /\ loc = EdgeOf(k.n)
         /\ loc[1] = "indices" => k.do = "upload" /\ loc = Indices(k.n)
         /\ loc[1] = "interior" => k.do \in {"compute", "inside"} /\ loc = Interior(k.q)
<1>1. \A b : loc \in CellsOf(b) => loc[1] = "buffer" /\ loc[2] = b
  BY DEF CellsOf
<1> QED
  BY <1>1, LocationKinds DEF Writes, Doings

\* What the kernels of an updater or of an edge write.
LEMMA PackWrites ==
  ASSUME NEW b, NEW i, NEW n
  PROVE  /\ pack(b, i, n).do = "pack" /\ pack(b, i, n).buf = b
         /\ Writes(pack(b, i, n)) = {Cell(b, i)}
         /\ mem[Indices(n)] = 1 => Written(pack(b, i, n)) = mem[Interior(Fields[i])]
BY DEF pack, Kernel, Writes, Written

LEMMA UnpackWrites ==
  ASSUME NEW b, NEW i, NEW n
  PROVE  /\ unpack(b, i, n).do = "unpack"
         /\ Writes(unpack(b, i, n)) = {HaloOf(Fields[i], n)}
         /\ mem[Indices(n)] = 1 => Written(unpack(b, i, n)) = mem[Cell(b, i)]
BY DEF unpack, Kernel, Writes, Written

LEMMA CopyInWrites ==
  ASSUME NEW b
  PROVE  /\ copy_in(b).do = "copy_in" /\ copy_in(b).buf = b
         /\ Writes(copy_in(b)) = {Cell(b, 1)} /\ Written(copy_in(b)) = mem[Interior(Fields[1])]
BY DEF copy_in, Kernel, Writes, Written

\* The kernel that runs.
LEMMA RunWho ==
  ASSUME IInv, NEW s, NEW k, RunOf(s, k)
  PROVE  QueuedOK(s, k) /\ k.do \in Doings
BY QueuedKernels, QueuedDo DEF IInv, RunOf, Doings

\* A kernel that writes a buffer.
BufferWriter(s, k) ==
  \/ /\ k.do = "zero" /\ s = 0 /\ Background(k) /\ host.at \notin {"isend", "edges"}
  \/ /\ host.at = "isend" /\ host.name \in Name /\ InFlight(host.name)
     /\ \E n \in Neighbour, i \in Part :
          /\ n >= host.k /\ k = pack(PackOf(host.name, n), i, n)
          /\ s = StreamFor(host.name, n, i)
  \/ /\ host.at = "edges" /\ s = 0
     /\ host.k \in 1..Len(edges.sent) /\ k = copy_in(edges.sent[host.k])

LEMMA BufferWriters ==
  ASSUME IInv, NEW s, NEW k, RunOf(s, k), NEW b, NEW i, Cell(b, i) \in Writes(k)
  PROVE  k.buf = b /\ k.do \in {"zero", "pack", "copy_in"} /\ BufferWriter(s, k)
<1>1. QueuedOK(s, k) /\ k.do \in Doings
  BY RunWho
<1>2. k.buf = b /\ k.do \in {"zero", "pack", "copy_in"}
  BY <1>1, WrittenBy, LocationKinds
<1>3. \A n, j : unpack(UnpackOf(host.name, n), j, n).do = "unpack"
  BY UnpackWrites
<1>4. Background(k) => k.do \in {"zero", "upload", "compute", "inside", "copy_out"}
  BY DEF Background
<1> QED
  BY <1>1, <1>2, <1>3, <1>4 DEF QueuedOK, BufferWriter, StreamFor

\* A buffer that MPI writes.
LEMMA RecvBuffer ==
  ASSUME IInv, SidesOK, CellsOK, NEW v \in recvs
  PROVE  /\ v.buf \in 1..buffers
         /\ \/ /\ v.name \in Name /\ v.name # 0 /\ InFlight(v.name) /\ v.n \in Neighbour
               /\ v.buf = UnpackOf(v.name, v.n) /\ v.buf > EdgeBuffers /\ PartsOf(v.buf) = Part
            \/ /\ v.name = 0 /\ v.n \in 1..Len(edges.received) /\ v.buf = edges.received[v.n]
               /\ v.buf \in 1..EdgeBuffers /\ PartsOf(v.buf) = {1}
<1>1. StreamsInv /\ HoldersOK /\ RecvOK(v) /\ 0 \notin Name
  BY Sizes DEF IInv, MpiOK
<1>2. CASE v.name \in Name /\ InFlight(v.name) /\ v.n \in Neighbour /\ v.buf = UnpackOf(v.name, v.n)
  BY <1>1, <1>2, FieldBuffer
<1>3. CASE v.name = 0 /\ v.n \in 1..Len(edges.received) /\ v.buf = edges.received[v.n]
  BY <1>1, <1>3, EdgeBuffer
<1> QED
  BY <1>1, <1>2, <1>3 DEF RecvOK, UnpackOf

LEMMA MpiWrites ==
  ASSUME IInv, SidesOK, CellsOK, NEW v \in recvs, NEW b, NEW i, Cell(b, i) \in CellsOf(v.buf)
  PROVE  v.buf = b
<1>1. PICK j \in PartsOf(v.buf) : Cell(b, i) = Cell(v.buf, j)
  BY RecvBuffer, CellsAre
<1> QED
  BY <1>1, LocationKinds

-----------------------------------------------------------------------------
(* Buffers in use keep what they hold.                                     *)

\* What MPI is to read.
LEMMA SendStays ==
  ASSUME IInv, SidesOK, CellsOK, [Next]_vars, NEW r \in sends, NEW i, Cell(r.buf, i) \in DOMAIN mem
  PROVE  mem'[Cell(r.buf, i)] = mem[Cell(r.buf, i)]
<1>1. SendOK(r) /\ StreamsInv /\ EdgesOK /\ HoldersOK
  BY DEF IInv, MpiOK
<1>2. ASSUME NEW s, NEW k, RunOf(s, k), Cell(r.buf, i) \in Writes(k) PROVE FALSE
  BY <1>1, <1>2, BufferWriters, RunWho, SendApart
<1>3. ASSUME NEW v \in recvs, Cell(r.buf, i) \in CellsOf(v.buf) PROVE FALSE
  <2>1. RecvOK(v) /\ v.buf = r.buf
    BY <1>3, MpiWrites DEF IInv, MpiOK
  <2> QED
    BY <1>1, <2>1, RequestsApart
<1>4. Cell(r.buf, i)[1] # "indices"
  BY LocationKinds
<1> QED
  BY <1>2, <1>3, <1>4, Stays

\* What was received for an updater, until it is unpacked.
LEMMA FieldReceivedStays ==
  ASSUME IInv, SidesOK, CellsOK, [Next]_vars, NEW u \in Name, InFlight(u), NEW n \in Neighbour,
         Comings(u, n) = {}, NEW i \in Part
  PROVE  mem'[Cell(UnpackOf(u, n), i)] = mem[Cell(UnpackOf(u, n), i)]
<1> DEFINE b == UnpackOf(u, n)
<1>1. /\ StreamsInv /\ HoldersOK /\ b > EdgeBuffers /\ Cell(b, i) \in DOMAIN mem
      /\ b \in Range(Held(obj[u]))
  BY FieldBuffer, HeldBuffers DEF IInv
<1>2. ASSUME NEW s, NEW k, RunOf(s, k), Cell(b, i) \in Writes(k) PROVE FALSE
  <2>1. k.buf = b /\ k.do \in {"zero", "pack", "copy_in"} /\ BufferWriter(s, k)
    BY <1>2, BufferWriters
  <2>2. CASE k.do = "zero" /\ Background(k)
    BY <1>1, <2>1, <2>2 DEF Background
  <2>3. CASE host.name \in Name /\ InFlight(host.name) /\ \E m \in Neighbour, j \in Part :
               k = pack(PackOf(host.name, m), j, m)
    <3>1. PICK m \in Neighbour, j \in Part : k = pack(PackOf(host.name, m), j, m)
      BY <2>3
    <3>2. PackOf(host.name, m) = b
      BY <2>1, <3>1, PackWrites
    <3> QED
      BY <1>1, <2>3, <3>2, UpdaterBuffers
  <2>4. CASE host.k \in 1..Len(edges.sent) /\ k = copy_in(edges.sent[host.k])
    <3>1. edges.sent[host.k] = b
      BY <2>1, <2>4, CopyInWrites
    <3>2. b \in 1..EdgeBuffers
      BY <1>1, <2>4, <3>1, EdgeBuffer
    <3> QED
      BY <1>1, <3>2, Sizes
  <2> QED
    BY <2>1, <2>2, <2>3, <2>4 DEF BufferWriter
<1>3. ASSUME NEW v \in recvs, Cell(b, i) \in CellsOf(v.buf) PROVE FALSE
  <2>1. v.buf = b
    BY <1>3, MpiWrites
  <2>2. CASE v.name \in Name /\ InFlight(v.name) /\ v.n \in Neighbour /\ v.buf = UnpackOf(v.name, v.n)
    <3>1. PICK w \in Name, m \in Neighbour : w = v.name /\ m = v.n
      BY <2>2
    <3>2. InFlight(w) /\ UnpackOf(u, n) = UnpackOf(w, m)
      BY <2>1, <2>2, <3>1
    <3>3. u = w /\ n = m
      BY <1>1, <3>2, UpdaterBuffers
    <3> QED
      BY <3>1, <3>3 DEF Comings
  <2>3. CASE v.buf \in 1..EdgeBuffers
    BY <1>1, <2>1, <2>3, Sizes
  <2> QED
    BY <2>2, <2>3, RecvBuffer
<1>4. Cell(b, i)[1] # "indices"
  BY LocationKinds
<1> HIDE DEF b
<1>5. mem'[Cell(b, i)] = mem[Cell(b, i)]
  BY <1>1, <1>2, <1>3, <1>4, Stays
<1> QED
  BY <1>5 DEF b

\* What was received of the edges, until it is copied.
LEMMA EdgeReceivedStays ==
  ASSUME IInv, SidesOK, CellsOK, [Next]_vars, NEW n \in 1..Len(edges.received), Comings(0, n) = {}
  PROVE  mem'[Cell(edges.received[n], 1)] = mem[Cell(edges.received[n], 1)]
<1> DEFINE b == edges.received[n]
<1>1. /\ StreamsInv /\ HoldersOK /\ EdgesOK /\ b \in 1..EdgeBuffers /\ Cell(b, 1) \in DOMAIN mem
      /\ b \in Range(edges.sent \o edges.received)
  BY EdgeBuffer, EdgeBuffersApart DEF IInv
<1>2. ASSUME NEW s, NEW k, RunOf(s, k), Cell(b, 1) \in Writes(k) PROVE FALSE
  <2>1. k.buf = b /\ k.do \in {"zero", "pack", "copy_in"} /\ BufferWriter(s, k)
    BY <1>2, BufferWriters
  <2>2. CASE k.do = "zero" /\ Background(k)
    BY <1>1, <2>1, <2>2 DEF Background
  <2>3. CASE host.name \in Name /\ InFlight(host.name) /\ \E m \in Neighbour, j \in Part :
               k = pack(PackOf(host.name, m), j, m)
    <3>1. PICK m \in Neighbour, j \in Part : k = pack(PackOf(host.name, m), j, m)
      BY <2>3
    <3>2. PackOf(host.name, m) = b
      BY <2>1, <3>1, PackWrites
    <3>3. PackOf(host.name, m) > EdgeBuffers
      BY <1>1, <2>3, FieldBuffer
    <3> QED
      BY <1>1, <3>2, <3>3, Sizes
  <2>4. CASE host.k \in 1..Len(edges.sent) /\ k = copy_in(edges.sent[host.k])
    <3>1. edges.sent[host.k] = b
      BY <2>1, <2>4, CopyInWrites
    <3> QED
      BY <1>1, <2>4, <3>1, EdgeBuffersApart
  <2> QED
    BY <2>1, <2>2, <2>3, <2>4 DEF BufferWriter
<1>3. ASSUME NEW v \in recvs, Cell(b, 1) \in CellsOf(v.buf) PROVE FALSE
  <2>1. v.buf = b
    BY <1>3, MpiWrites
  <2>2. CASE v.name = 0 /\ v.n \in 1..Len(edges.received) /\ v.buf = edges.received[v.n]
    <3>1. v.n = n
      BY <1>1, <2>1, <2>2, EdgeBuffersApart
    <3> QED
      BY <2>2, <3>1 DEF Comings
  <2>3. CASE v.buf > EdgeBuffers
    BY <1>1, <2>1, <2>3, Sizes
  <2> QED
    BY <2>2, <2>3, RecvBuffer
<1>4. Cell(b, 1)[1] # "indices"
  BY LocationKinds
<1> HIDE DEF b
<1>5. mem'[Cell(b, 1)] = mem[Cell(b, 1)]
  BY <1>1, <1>2, <1>3, <1>4, Stays
<1> QED
  BY <1>5 DEF b

-----------------------------------------------------------------------------
(* The cells stay, and new buffers get theirs.                             *)

\* A kernel writes the cells there are.
LEMMA KernelsInside ==
  ASSUME IInv, SidesOK, CellsOK, NEW s, NEW k, RunOf(s, k), NEW loc \in Writes(k), loc[1] = "buffer"
  PROVE  loc \in DOMAIN mem
<1>1. QueuedOK(s, k) /\ k.do \in Doings /\ StreamsInv /\ HoldersOK
  BY RunWho DEF IInv
<1>2. k.do \in {"zero", "pack", "copy_in"}
  BY <1>1, WrittenBy
<1>3. CASE k.do = "zero"
  BY <1>3 DEF Writes, CellsOf
<1>4. CASE host.name \in Name /\ InFlight(host.name) /\ \E n \in Neighbour, i \in Part :
             k = pack(PackOf(host.name, n), i, n)
  <2>1. PICK n \in Neighbour, i \in Part : k = pack(PackOf(host.name, n), i, n)
    BY <1>4
  <2>2. loc = Cell(PackOf(host.name, n), i)
    BY <2>1, PackWrites
  <2> QED
    BY <1>1, <1>4, <2>2, FieldBuffer
<1>5. CASE host.k \in 1..Len(edges.sent) /\ k = copy_in(edges.sent[host.k])
  <2>1. loc = Cell(edges.sent[host.k], 1)
    BY <1>5, CopyInWrites
  <2> QED
    BY <1>1, <1>5, <2>1, EdgeBuffer
<1>6. \A n, j : unpack(UnpackOf(host.name, n), j, n).do = "unpack"
  BY UnpackWrites
<1>7. Background(k) => k.do \in {"zero", "upload", "compute", "inside", "copy_out"}
  BY DEF Background
<1> QED
  BY <1>1, <1>2, <1>3, <1>4, <1>5, <1>6, <1>7 DEF QueuedOK

LEMMA NextCells ==
  ASSUME IInv, SidesOK, CellsOK, [Next]_vars
  PROVE  CellsOK'
<1>0. StreamsInv /\ EdgesOK /\ EdgesCached /\ buffers \in Nat /\ EdgeBuffers \in Nat /\ buffers >= EdgeBuffers
  BY Sizes DEF IInv, StreamsInv, Types, SidesOK
<1>1. Locations' = Locations
  BY DEF Locations
\* The cells of the same buffers are there.
<1>2. ASSUME buffers' = buffers, DOMAIN mem \subseteq DOMAIN mem',
             \A loc \in DOMAIN mem' : loc[1] = "buffer" => loc \in DOMAIN mem
      PROVE  CellsOK'
  BY <1>1, <1>2 DEF CellsOK, PartsOf
<1>3. ASSUME NEW u \in Name, NEW once \in BOOLEAN, Create(u, once) PROVE CellsOK'
  <2> DEFINE N == NewBuffers("halo", 2 * Neighbours)
  <2>1. /\ \A loc \in DOMAIN mem : loc \in DOMAIN mem'
        /\ \A loc \in DOMAIN mem' :
             \/ loc \in DOMAIN mem
             \/ \E b \in N : \E i \in Part : loc = Cell(b, i)
             \/ \E n \in Neighbour : loc = Indices(n)
        /\ \A b \in N : \A i \in Part : Cell(b, i) \in DOMAIN mem'
    BY <1>0, <1>3, CreateMem
  <2>2. buffers' = buffers + Fresh("halo", 2 * Neighbours) /\ Fresh("halo", 2 * Neighbours) \in Nat
    BY <1>0, <1>3, PopFromCache, Sizes DEF Create, StreamsInv
  <2>3. N = (buffers + 1)..buffers'
    BY <2>2 DEF NewBuffers
  <2> HIDE DEF N
  <2>4. /\ \A b \in 1..buffers' : b \in 1..buffers \/ b \in N
        /\ \A b \in 1..buffers : b \in 1..buffers'
        /\ \A b \in N : b \in 1..buffers' /\ ~ (b <= EdgeBuffers)
    BY <1>0, <2>2, <2>3
  <2>5. \A b \in N : PartsOf(b) = Part
    BY <2>4 DEF PartsOf
  <2>6. Locations' \subseteq DOMAIN mem'
    BY <1>1, <2>1 DEF CellsOK
  <2>7. \A b \in 1..buffers' : \A i \in PartsOf(b) : Cell(b, i) \in DOMAIN mem'
    BY <2>1, <2>4, <2>5 DEF CellsOK
  <2>8. ASSUME NEW loc \in DOMAIN mem', loc[1] = "buffer"
        PROVE  \E b \in 1..buffers' : \E i \in PartsOf(b) : loc = Cell(b, i)
    <3>1. loc \in DOMAIN mem \/ \E b \in N : \E i \in Part : loc = Cell(b, i)
      BY <2>1, <2>8, LocationKinds
    <3> QED
      BY <2>4, <2>5, <2>8, <3>1 DEF CellsOK
  <2> QED
    BY <2>6, <2>7, <2>8 DEF CellsOK, PartsOf
<1>4. ASSUME NEW s, NEW k, RunOf(s, k) PROVE CellsOK'
  <2>1. DOMAIN mem' = DOMAIN mem \union Writes(k) /\ buffers' = buffers
    BY <1>4 DEF RunOf, hostVars
  <2> QED
    BY <1>2, <1>4, <2>1, KernelsInside
<1>5. ASSUME NEW v \in recvs, MpiWrite(v) PROVE CellsOK'
  <2>1. DOMAIN mem' = DOMAIN mem
    BY <1>5, WriteMem
  <2>2. buffers' = buffers
    BY <1>5 DEF MpiWrite, hostVars
  <2> QED
    BY <1>2, <2>1, <2>2
<1>6. CASE MemStays
  <2>1. buffers' = buffers => CellsOK'
    BY <1>2, <1>6 DEF MemStays
  <2> QED
    BY <1>0, <1>3, <2>1, HaloSteps
<1> QED
  BY <1>3, <1>4, <1>5, <1>6, MemSteps

-----------------------------------------------------------------------------
(* What a step launches.                                                   *)

\* The place of a neighbour and a field among the kernels of an updater.
LEMMA FieldPlace ==
  ASSUME NEW n \in Neighbour, NEW i \in Part
  PROVE  LET j == (n - 1) * Len(Fields) + i
         IN  j \in 1..Streams /\ NeighbourOf(j) = n /\ PartOf(j) = i
<1>1. PICK j \in 1..Streams : j = (n - 1) * Len(Fields) + i
  BY StreamPlace
<1>2. /\ NeighbourOf(j) \in Neighbour /\ PartOf(j) \in Part
      /\ (NeighbourOf(j) - 1) * Len(Fields) + PartOf(j) = j
  BY StreamIndex
<1>3. PICK m \in Neighbour, h \in Part : m = NeighbourOf(j) /\ h = PartOf(j)
  BY <1>2
<1>4. PICK f \in Nat : f = Len(Fields)
  BY Sizes
<1>5. (m - 1) * f + h = (n - 1) * f + i
  BY <1>1, <1>2, <1>3, <1>4
<1>6. m \in Nat /\ n \in Nat /\ m >= 1 /\ n >= 1 /\ i \in 1..f /\ h \in 1..f
  BY <1>4, Sizes DEF Neighbour
<1>7. PICK a \in Nat, b \in Nat : a = m - 1 /\ b = n - 1
  BY <1>6
<1>8. a * f + h = b * f + i
  BY <1>5, <1>7
<1>9. a = b
  <2>1. ASSUME NEW c \in Nat, NEW d \in Nat, c > d PROVE c * f >= d * f + f
    <3>1. c >= d + 1
      BY <2>1
    <3>2. c * f >= (d + 1) * f
      BY <3>1, Products
    <3>3. (d + 1) * f = d * f + f
      BY Z3
    <3> QED
      BY <3>2, <3>3
  <2>2. PICK x \in Nat, y \in Nat : x = a * f /\ y = b * f
    OBVIOUS
  <2>3. ~ (a > b)
    <3>1. a > b => x >= y + f
      BY <2>1, <2>2
    <3>2. x + h = y + i
      BY <1>8, <2>2
    <3>3. ~ (x >= y + f)
      BY <1>6, <3>2
    <3> QED
      BY <3>1, <3>3
  <2>4. ~ (b > a)
    <3>1. b > a => y >= x + f
      BY <2>1, <2>2
    <3>2. x + h = y + i
      BY <1>8, <2>2
    <3>3. ~ (y >= x + f)
      BY <1>6, <3>2
    <3> QED
      BY <3>1, <3>3
  <2> QED
    BY <2>3, <2>4
<1>10. m = n /\ h = i
  <2>1. PICK x \in Nat : x = a * f
    OBVIOUS
  <2>2. x + h = x + i
    BY <1>8, <1>9, <2>1
  <2> QED
    BY <1>6, <1>7, <1>9, <2>2
<1> QED
  BY <1>1, <1>3, <1>10

\* The private streams of an updater exist and differ.
LEMMA PrivateStreams ==
  ASSUME StreamsInv, NEW u \in Name, DOMAIN obj[u].streams = 1..Streams, NEW j \in 1..Streams
  PROVE  /\ obj[u].streams[j] \in DOMAIN queue
         /\ \A k \in 1..Streams : obj[u].streams[k] = obj[u].streams[j] => k = j
<1>1. u \in StreamHolders /\ u # 0 /\ StreamLists[u] = obj[u].streams
  BY Sizes DEF StreamHolders, StreamLists
<1>2. IsInjective(obj[u].streams) /\ Range(obj[u].streams) \subseteq 1..NumStreams
  BY <1>1 DEF StreamsInv, StreamsApart, Apart
<1>3. obj[u].streams[j] \in 1..NumStreams /\ DOMAIN queue = 0..NumStreams /\ NumStreams \in Nat
  BY <1>2 DEF StreamsInv, QueueOK, Range
<1>4. obj[u].streams[j] \in DOMAIN queue
  BY <1>3
<1> QED
  BY <1>2, <1>4 DEF IsInjective

\* Every stream of an updater gets its kernel.
LEMMA FieldsGet ==
  ASSUME StreamsInv, NEW u \in Name, DOMAIN obj[u].streams = 1..Streams, 0 \notin Range(obj[u].streams),
         NEW S, NEW l \in [1..Streams -> S], queue' = LaunchAll(obj[u], l),
         NEW n \in Neighbour, NEW i \in Part
  PROVE  l[(n - 1) * Len(Fields) + i] \in Range(queue'[StreamFor(u, n, i)])
<1>1. PICK j \in 1..Streams : j = (n - 1) * Len(Fields) + i
  BY StreamPlace
<1>2. Streams \in Nat /\ QueueOK /\ wide \in BOOLEAN /\ l \in Seq(S) /\ Len(l) = Streams
  BY Sizes, KernelList DEF StreamsInv, Types
<1>3. FieldsLaunched(obj[u], l)
  BY <1>2, LaunchFields
<1>4. CASE wide
  <2>1. Range(queue'[0]) = Queued(0) \union Range(l)
    BY <1>3, <1>4 DEF FieldsLaunched, LaunchedOn
  <2>2. l[j] \in Range(l)
    BY <1>2 DEF Range
  <2> QED
    BY <1>1, <1>4, <2>1, <2>2 DEF StreamFor
<1>5. CASE ~ wide
  <2>1. PICK s : s = obj[u].streams[j]
    OBVIOUS
  <2>2. s \in DOMAIN queue /\ \A k \in 1..Streams : obj[u].streams[k] = s => k = j
    BY <2>1, PrivateStreams
  <2>3. PICK k : k = CHOOSE h \in 1..Streams : obj[u].streams[h] = s
    OBVIOUS
  <2>4. k \in 1..Streams /\ obj[u].streams[k] = s
    BY <2>1, <2>3
  <2>5. queue'[s] = queue[s] \o <<l[k]>>
    BY <1>5, <2>2, <2>3, <2>4 DEF LaunchAll, _get_stream
  <2>6. PICK x : x = l[j]
    OBVIOUS
  <2>7. k = j /\ queue'[s] = queue[s] \o <<x>>
    BY <2>2, <2>4, <2>5, <2>6
  <2>8. PICK K : queue[s] \in Seq(K)
    BY <1>2, <2>2 DEF QueueOK
  <2>9. Range(queue[s] \o <<x>>) = Range(queue[s]) \union Range(<<x>>)
    BY <2>8, OneKernel, Behind
  <2>10. x \in Range(queue'[s])
    BY <2>7, <2>9, OneKernel
  <2>11. StreamFor(u, n, i) = s
    BY <1>1, <1>5, <2>1 DEF StreamFor, StreamOf
  <2> QED
    BY <1>1, <2>6, <2>10, <2>11
<1> QED
  BY <1>2, <1>4, <1>5

\* Every buffer of an updater gets its pack, and later its unpack.
LEMMA AllPacked ==
  ASSUME StreamsInv, NEW u \in Name, PostAndPack(u), NEW n \in Neighbour, NEW i \in Part
  PROVE  pack(PackOf(u, n), i, n) \in Range(queue'[StreamFor(u, n, i)])
<1>1. host = At("start", u, 0) /\ queue' = async_pack(obj[u])
  BY DEF PostAndPack
<1>2. DOMAIN obj[u].streams = 1..Streams /\ 0 \notin Range(obj[u].streams)
  BY <1>1, HostUpdater
<1> DEFINE l == [k \in 1..Streams |-> pack(obj[u].pack[NeighbourOf(k)], PartOf(k), NeighbourOf(k))]
           S == {l[k] : k \in 1..Streams}
<1>3. queue' = LaunchAll(obj[u], l) /\ l \in [1..Streams -> S]
  BY <1>1, <1>2 DEF async_pack
<1>4. PICK j \in 1..Streams : j = (n - 1) * Len(Fields) + i /\ NeighbourOf(j) = n /\ PartOf(j) = i
  BY FieldPlace
<1>5. l[j] = pack(PackOf(u, n), i, n)
  BY <1>4 DEF PackOf
<1> HIDE DEF l, S
<1>6. l[(n - 1) * Len(Fields) + i] \in Range(queue'[StreamFor(u, n, i)])
  BY <1>2, <1>3, FieldsGet
<1> QED
  BY <1>4, <1>5, <1>6

LEMMA AllUnpacked ==
  ASSUME StreamsInv, NEW u \in Name, LaunchUnpack(u), NEW n \in Neighbour, NEW i \in Part
  PROVE  unpack(UnpackOf(u, n), i, n) \in Range(queue'[StreamFor(u, n, i)])
<1>1. host = At("wait", u, 0) /\ queue' = async_unpack(obj[u])
  BY DEF LaunchUnpack
<1>2. DOMAIN obj[u].streams = 1..Streams /\ 0 \notin Range(obj[u].streams)
  BY <1>1, HostUpdater
<1> DEFINE l == [k \in 1..Streams |-> unpack(obj[u].unpack[NeighbourOf(k)], PartOf(k), NeighbourOf(k))]
           S == {l[k] : k \in 1..Streams}
<1>3. queue' = LaunchAll(obj[u], l) /\ l \in [1..Streams -> S]
  BY <1>1, <1>2 DEF async_unpack
<1>4. PICK j \in 1..Streams : j = (n - 1) * Len(Fields) + i /\ NeighbourOf(j) = n /\ PartOf(j) = i
  BY FieldPlace
<1>5. l[j] = unpack(UnpackOf(u, n), i, n)
  BY <1>4 DEF UnpackOf
<1> HIDE DEF l, S
<1>6. l[(n - 1) * Len(Fields) + i] \in Range(queue'[StreamFor(u, n, i)])
  BY <1>2, <1>3, FieldsGet
<1> QED
  BY <1>4, <1>5, <1>6

\* The kernels that a step may launch on the default stream.
NewKernel(k) ==
  \/ k.do \in {"pack", "unpack", "copy_in"}
  \/ \E q \in Quantity :
       Compute(q) /\ k.do \in {"compute", "inside"} /\ k.q = q /\ k.val = version[q] + 1
  \/ \E u \in Name : \E once \in BOOLEAN :
       /\ Create(u, once)
       /\ \/ \E b \in NewBuffers("halo", 2 * Neighbours) : k = zero(b)
          \/ Indices(1) \notin DOMAIN mem /\ \E n \in Neighbour : k = upload(n)
  \/ WaitEdges /\ \E n \in Neighbour : k = copy_out(edges.received[n], n)

\* The default stream gets a list of them.
Longer == \E L : \E l \in Seq(L) : queue'[0] = queue[0] \o l /\ \A k \in Range(l) : NewKernel(k)

LEMMA NoneLaunched ==
  ASSUME StreamsInv, queue'[0] = queue[0]
  PROVE  Longer
<1>1. PICK K : queue[0] \in Seq(K)
  BY DEF StreamsInv, QueueOK
<1>2. queue[0] \o <<>> = queue[0] /\ <<>> \in Seq({}) /\ Range(<<>>) = {}
  BY <1>1, NoUpdaterFacts
<1> QED
  BY <1>2 DEF Longer

LEMMA LaunchLonger ==
  ASSUME StreamsInv, NEW L, NEW l \in Seq(L), queue' = Launched(0, l), \A k \in Range(l) : NewKernel(k)
  PROVE  Longer
<1>1. 0 \in DOMAIN queue
  BY DEF StreamsInv, QueueOK
<1>2. queue'[0] = queue[0] \o l
  BY <1>1 DEF Launched
<1> QED
  BY <1>2 DEF Longer

\* The packs and the unpacks of an updater.
LEMMA FieldsLonger ==
  ASSUME StreamsInv, NEW o, DOMAIN o.streams = 1..Streams, 0 \notin Range(o.streams),
         NEW S, NEW l \in [1..Streams -> S], queue' = LaunchAll(o, l),
         \A j \in 1..Streams : l[j].do \in {"pack", "unpack"}
  PROVE  Longer
<1>1. 0 \in DOMAIN queue /\ Streams \in Nat
  BY Sizes DEF StreamsInv, QueueOK
<1>2. l \in Seq(S) /\ DOMAIN l = 1..Streams
  BY <1>1, KernelList
<1>3. \A k \in Range(l) : NewKernel(k)
  BY <1>2 DEF Range, NewKernel
<1>4. queue'[0] = queue[0] \/ queue'[0] = queue[0] \o l
  <2>1. CASE \A j \in DOMAIN o.streams : _get_stream(o.streams[j]) # 0
    BY <1>1, <2>1 DEF LaunchAll
  <2>2. CASE ~ \A j \in DOMAIN o.streams : _get_stream(o.streams[j]) # 0
    <3>1. wide
      BY <2>2 DEF _get_stream, Range
    <3> QED
      BY <1>1, <2>2, <3>1 DEF LaunchAll
  <2> QED
    BY <2>1, <2>2
<1> QED
  BY <1>2, <1>3, <1>4, NoneLaunched DEF Longer

LEMMA CreateLonger ==
  ASSUME StreamsInv, NEW u \in Name, NEW once \in BOOLEAN, Create(u, once)
  PROVE  /\ Longer
         /\ Indices(1) \notin DOMAIN mem => \A n \in Neighbour : upload(n) \in Range(queue'[0])
<1> DEFINE missing == IF Indices(1) \in DOMAIN mem THEN 0 ELSE Neighbours
           count == 2 * Neighbours
           new == {zero(b) : b \in NewBuffers("halo", count)}
           ups == {upload(n) : n \in 1..missing}
           k == [n \in 1..missing |-> upload(n)]
           z == ZeroNew("halo", count)
           m == NewStreams(Streams)
           F == [s \in (NumStreams + 1)..(NumStreams + m) |-> <<>>]
<1>1. queue' = Over(F, Launched(0, z \o k))
  BY DEF Create, Streams
<1>2. Types /\ QueueOK /\ count \in Nat /\ Streams \in Nat /\ missing \in Nat /\ 0 \in DOMAIN queue
  BY Sizes DEF StreamsInv, QueueOK
<1>3. k \in [1..missing -> ups] /\ z \in Seq(new) /\ Range(z) \subseteq new
  BY <1>2, ZeroNewList
<1>4. /\ \A x \in new : NewKernel(x)
      /\ \A x \in ups : NewKernel(x)
  <2>1. \A x \in new : \E b \in NewBuffers("halo", 2 * Neighbours) : x = zero(b)
    OBVIOUS
  <2>2. \A x \in ups : Indices(1) \notin DOMAIN mem /\ \E n \in Neighbour : x = upload(n)
    BY DEF Neighbour
  <2> HIDE DEF new, ups
  <2> QED
    BY <2>1, <2>2 DEF NewKernel
<1>5. ASSUME Indices(1) \notin DOMAIN mem, NEW n \in Neighbour PROVE n \in DOMAIN k /\ k[n] = upload(n)
  BY <1>5 DEF Neighbour
<1> HIDE DEF k, ups, new, z, missing
<1>6. k \in Seq(ups) /\ Range(k) \subseteq ups
  BY <1>2, <1>3, KernelList
<1>7. (\E M : z \o k \in Seq(M)) /\ Range(z \o k) = Range(z) \union Range(k)
  BY <1>3, <1>6, Behind
<1>8. 0 \notin DOMAIN F
  <2>1. NumStreams \in Nat
    BY <1>2 DEF QueueOK
  <2> QED
    BY <2>1
<1> HIDE DEF F
<1>9. queue'[0] = queue[0] \o (z \o k)
  <2>1. 0 \in DOMAIN Launched(0, z \o k) /\ Launched(0, z \o k)[0] = queue[0] \o (z \o k)
    BY <1>2 DEF Launched
  <2> QED
    BY <1>1, <1>8, <2>1 DEF Over
<1>10. Longer
  BY <1>3, <1>4, <1>6, <1>7, <1>9 DEF Longer
<1>11. ASSUME Indices(1) \notin DOMAIN mem, NEW n \in Neighbour PROVE upload(n) \in Range(queue'[0])
  <2>1. upload(n) \in Range(k)
    BY <1>5, <1>11 DEF Range
  <2>2. PICK l : l = z \o k
    OBVIOUS
  <2>3. PICK K, M : queue[0] \in Seq(K) /\ l \in Seq(M)
    BY <1>2, <1>7, <2>2 DEF QueueOK
  <2>4. Range(queue[0] \o l) = Range(queue[0]) \union Range(l)
    BY <2>3, Behind
  <2> QED
    BY <1>7, <1>9, <2>1, <2>2, <2>4
<1> QED
  BY <1>10, <1>11

LEMMA CopyLonger ==
  ASSUME StreamsInv, EdgesOK, EdgesCached, CopyEdge, StartEdges \/ (SendEdge /\ host.k < Neighbours)
  PROVE  /\ Longer /\ edges'.sent[Len(edges.sent) + 1] = pop_from_cache("edge", 1)[1]
         /\ copy_in(pop_from_cache("edge", 1)[1]) \in Range(queue'[0])
<1>1. Fresh("edge", 1) = 0 /\ edges'.sent[Len(edges.sent) + 1] = pop_from_cache("edge", 1)[1]
  BY CopyEdgeFacts
<1>2. PICK k : k = copy_in(pop_from_cache("edge", 1)[1])
  OBVIOUS
<1>3. queue' = Launched(0, ZeroNew("edge", 1) \o <<k>>)
  BY <1>2 DEF CopyEdge
<1>4. Types /\ 1 \in Nat /\ Range(ZeroNew("edge", 1)) = {} /\ QueueOK /\ 0 \in DOMAIN queue
  BY <1>1, NoneZeroed DEF StreamsInv, QueueOK
<1>5. PICK z, Z : z = ZeroNew("edge", 1) /\ z \in Seq(Z)
  BY <1>4, ZeroNewList
<1>6. (\E M : z \o <<k>> \in Seq(M)) /\ Range(z \o <<k>>) = Range(z) \union Range(<<k>>)
  BY <1>5, OneKernel, Behind
<1>7. PICK l, M : l = z \o <<k>> /\ l \in Seq(M)
  BY <1>6
<1>8. Range(l) = {k} /\ queue' = Launched(0, l)
  BY <1>3, <1>4, <1>5, <1>6, <1>7, OneKernel
<1>9. k.do = "copy_in"
  BY <1>2, CopyInWrites
<1>10. Longer
  BY <1>7, <1>8, <1>9, LaunchLonger DEF NewKernel
<1>11. LaunchedOn(0, Range(l))
  BY <1>4, <1>7, <1>8, LaunchDefault
<1> QED
  BY <1>1, <1>2, <1>8, <1>10, <1>11 DEF LaunchedOn

LEMMA WaitLonger ==
  ASSUME StreamsInv, WaitEdges
  PROVE  /\ Longer
         /\ \A n \in Neighbour : copy_out(edges.received[n], n) \in Range(queue'[0])
<1> DEFINE l == [n \in Neighbour |-> copy_out(edges.received[n], n)]
           S == {l[n] : n \in Neighbour}
<1>1. queue' = Launched(0, l) /\ l \in [1..Neighbours -> S]
  BY DEF WaitEdges, Neighbour
<1>2. \A n \in Neighbour : l[n] = copy_out(edges.received[n], n)
  OBVIOUS
<1> HIDE DEF l, S
<1>3. Neighbours \in Nat /\ QueueOK /\ DOMAIN l = Neighbour
  BY <1>1, Sizes DEF StreamsInv, Neighbour
<1>4. l \in Seq(S)
  BY <1>1, <1>3, KernelList
<1>5. \A k \in Range(l) : NewKernel(k)
  <2>1. \A k \in Range(l) : \E n \in Neighbour : k = copy_out(edges.received[n], n)
    BY <1>2, <1>3 DEF Range
  <2> QED
    BY <2>1 DEF NewKernel
<1>6. Longer
  BY <1>1, <1>4, <1>5, LaunchLonger
<1>7. LaunchedOn(0, Range(l))
  BY <1>1, <1>3, <1>4, LaunchDefault
<1>8. \A n \in Neighbour : l[n] \in Range(l)
  BY <1>3 DEF Range
<1> QED
  BY <1>2, <1>6, <1>7, <1>8 DEF LaunchedOn

LEMMA DefaultSteps ==
  ASSUME IInv, [Next]_vars
  PROVE  (\E s \in DOMAIN queue : \E k : RunOf(s, k)) \/ Longer
<1>0. StreamsInv /\ EdgesOK /\ EdgesCached
  BY DEF IInv
<1>1. ASSUME queue' = queue PROVE Longer
  BY <1>0, <1>1, NoneLaunched
<1>2. ASSUME NEW q \in Quantity, Compute(q) PROVE Longer
  <2>1. PICK x : /\ x = IF \E u \in Name : obj[u].st = "inflight"
                        THEN compute_inside(q, version[q] + 1) ELSE compute(q, version[q] + 1)
                 /\ queue' = Launched(0, <<x>>)
    BY <1>2 DEF Compute
  <2>2. x.do \in {"compute", "inside"} /\ x.q = q /\ x.val = version[q] + 1
    BY <2>1 DEF compute_inside, compute, Kernel
  <2>3. <<x>> \in Seq({x}) /\ Range(<<x>>) = {x}
    BY OneKernel
  <2>4. NewKernel(x)
    BY <1>2, <2>2 DEF NewKernel
  <2>5. PICK l, L : l = <<x>> /\ L = {x}
    OBVIOUS
  <2>6. l \in Seq(L) /\ queue' = Launched(0, l) /\ \A k \in Range(l) : NewKernel(k)
    BY <2>1, <2>3, <2>4, <2>5
  <2> QED
    BY <1>0, <2>6, LaunchLonger
<1>3. ASSUME NEW u \in Name, NEW once \in BOOLEAN, Create(u, once) PROVE Longer
  BY <1>0, <1>3, CreateLonger
<1>4. ASSUME NEW u \in Name, BeginStart(u) \/ BeginWait(u) \/ Isend(u) \/ EndWait(u) \/ Drop(u)
      PROVE  Longer
  BY <1>1, <1>4 DEF BeginStart, BeginWait, Isend, EndWait, Drop
<1>5. ASSUME NEW u \in Name, PostAndPack(u) PROVE Longer
  <2>1. host = At("start", u, 0) /\ queue' = async_pack(obj[u])
    BY <1>5 DEF PostAndPack
  <2>2. DOMAIN obj[u].streams = 1..Streams /\ 0 \notin Range(obj[u].streams)
    BY <1>0, <2>1, HostUpdater
  <2> DEFINE l == [k \in 1..Streams |-> pack(obj[u].pack[NeighbourOf(k)], PartOf(k), NeighbourOf(k))]
             S == {l[k] : k \in 1..Streams}
  <2>3. queue' = LaunchAll(obj[u], l) /\ l \in [1..Streams -> S]
    BY <2>1, <2>2 DEF async_pack
  <2>4. \A j \in 1..Streams : l[j].do \in {"pack", "unpack"}
    BY PackWrites
  <2> HIDE DEF l, S
  <2> QED
    BY <1>0, <2>2, <2>3, <2>4, FieldsLonger
<1>6. ASSUME NEW u \in Name, LaunchUnpack(u) PROVE Longer
  <2>1. host = At("wait", u, 0) /\ queue' = async_unpack(obj[u])
    BY <1>6 DEF LaunchUnpack
  <2>2. DOMAIN obj[u].streams = 1..Streams /\ 0 \notin Range(obj[u].streams)
    BY <1>0, <2>1, HostUpdater
  <2> DEFINE l == [k \in 1..Streams |-> unpack(obj[u].unpack[NeighbourOf(k)], PartOf(k), NeighbourOf(k))]
             S == {l[k] : k \in 1..Streams}
  <2>3. queue' = LaunchAll(obj[u], l) /\ l \in [1..Streams -> S]
    BY <2>1, <2>2 DEF async_unpack
  <2>4. \A j \in 1..Streams : l[j].do \in {"pack", "unpack"}
    BY UnpackWrites
  <2> HIDE DEF l, S
  <2> QED
    BY <1>0, <2>2, <2>3, <2>4, FieldsLonger
<1>7. ASSUME StartEdges \/ SendEdge PROVE Longer
  <2>1. CASE CopyEdge /\ (StartEdges \/ (SendEdge /\ host.k < Neighbours))
    BY <1>0, <2>1, CopyLonger
  <2>2. CASE SendEdge /\ ~ (host.k < Neighbours)
    BY <1>1, <2>2 DEF SendEdge
  <2> QED
    BY <1>7, <2>1, <2>2 DEF StartEdges, SendEdge
<1>8. ASSUME RecvEdges PROVE Longer
  <2>1. Fresh("edge", Neighbours) = 0 /\ Neighbours \in Nat /\ Types
    BY <1>0, <1>8, EdgePops, Sizes DEF StreamsInv
  <2>2. PICK z, Z : z = ZeroNew("edge", Neighbours) /\ z \in Seq(Z)
    BY <2>1, ZeroNewList
  <2>3. Range(z) = {} /\ queue' = Launched(0, z)
    BY <1>0, <1>8, <2>1, <2>2, NoneZeroed DEF RecvEdges
  <2> QED
    BY <1>0, <2>2, <2>3, LaunchLonger
<1>9. ASSUME WaitEdges PROVE Longer
  BY <1>0, <1>9, WaitLonger
<1>10. ASSUME MpiStep \/ UNCHANGED vars PROVE Longer
  BY <1>1, <1>10 DEF MpiStep, MpiRead, MpiWrite, vars
<1>11. ASSUME NEW s \in DOMAIN queue, Run(s) PROVE \E k : RunOf(s, k)
  BY <1>0, <1>11, RunIs
<1> QED
  BY <1>2, <1>3, <1>4, <1>5, <1>6, <1>7, <1>8, <1>9, <1>10, <1>11
     DEF Next, NewCall, HostStep, DeviceStep

LEMMA LongerGives ==
  ASSUME StreamsInv, Longer
  PROVE  /\ \A k \in Queued(0) : k \in Range(queue'[0])
         /\ \A k \in Range(queue'[0]) : k \in Queued(0) \/ NewKernel(k)
<1>1. PICK L, l : l \in Seq(L) /\ queue'[0] = queue[0] \o l /\ \A k \in Range(l) : NewKernel(k)
  BY DEF Longer
<1>2. PICK K : queue[0] \in Seq(K)
  BY DEF StreamsInv, QueueOK
<1>3. Range(queue'[0]) = Queued(0) \union Range(l)
  BY <1>1, <1>2, Behind DEF Queued
<1> QED
  BY <1>1, <1>3

\* The halos and edges expected change at the end of the waits.
LEMMA ExpectedSteps ==
  ASSUME [Next]_vars
  PROVE  expected' = expected \/ (\E u \in Name : EndWait(u)) \/ WaitEdges
<1>1. ASSUME NEW u \in Name, BeginStart(u) \/ BeginWait(u) \/ PostAndPack(u) \/ Isend(u)
                             \/ LaunchUnpack(u) \/ Drop(u) \/ Create(u, TRUE) \/ Create(u, FALSE)
      PROVE  expected' = expected
  BY <1>1 DEF BeginStart, BeginWait, PostAndPack, Isend, LaunchUnpack, Drop, Create
<1>2. ASSUME NEW q \in Quantity, Compute(q) PROVE expected' = expected
  BY <1>2 DEF Compute
<1>3. StartEdges \/ SendEdge \/ RecvEdges => expected' = expected
  BY DEF StartEdges, SendEdge, RecvEdges
<1>4. DeviceStep \/ MpiStep \/ UNCHANGED vars => expected' = expected
  BY DEF DeviceStep, Run, MpiStep, MpiRead, MpiWrite, vars, hostVars
<1> QED
  BY <1>1, <1>2, <1>3, <1>4 DEF Next, NewCall, HostStep

\* What the end of a wait expects.
LEMMA EndExpects ==
  ASSUME NEW u \in Name, EndWait(u)
  PROVE  /\ \A n : EdgeOf(n) \in DOMAIN expected => expected'[EdgeOf(n)] = expected[EdgeOf(n)]
         /\ \A q \in Quantity, n \in Neighbour : expected'[HaloOf(q, n)] = obj[u].exch
         /\ DOMAIN expected' = (UNION {Halos(q) : q \in Quantity}) \union DOMAIN expected
<1> DEFINE H == UNION {Halos(q) : q \in Quantity}
           x == obj[u].exch
<1>1. expected' = Over([loc \in H |-> x], expected)
  BY DEF EndWait
<1>2. /\ \A n : EdgeOf(n) \notin H
      /\ \A q \in Quantity, n \in Neighbour : HaloOf(q, n) \in H
  <2>1. \A n, q, m : EdgeOf(n) # HaloOf(q, m)
    BY DEF EdgeOf, HaloOf
  <2> QED
    BY <2>1 DEF Halos
<1> HIDE DEF H, x
<1>3. /\ DOMAIN expected' = H \union DOMAIN expected
      /\ \A loc \in H : expected'[loc] = x
      /\ \A loc \in DOMAIN expected : loc \notin H => expected'[loc] = expected[loc]
  BY <1>1 DEF Over
<1> QED
  BY <1>2, <1>3 DEF H, x

LEMMA WaitExpects ==
  ASSUME WaitEdges
  PROVE  /\ \A n \in Neighbour : expected'[EdgeOf(n)] = edges.exch
         /\ \A q, n : HaloOf(q, n) \in DOMAIN expected => expected'[HaloOf(q, n)] = expected[HaloOf(q, n)]
         /\ DOMAIN expected' = Edges \union DOMAIN expected
<1> DEFINE x == edges.exch
<1>1. expected' = Over([loc \in Edges |-> x], expected)
  BY DEF WaitEdges
<1>2. /\ \A q, n : HaloOf(q, n) \notin Edges
      /\ \A n \in Neighbour : EdgeOf(n) \in Edges
  BY DEF Edges, EdgeOf, HaloOf
<1> HIDE DEF x
<1>3. /\ DOMAIN expected' = Edges \union DOMAIN expected
      /\ \A loc \in Edges : expected'[loc] = x
      /\ \A loc \in DOMAIN expected : loc \notin Edges => expected'[loc] = expected[loc]
  BY <1>1 DEF Over
<1> QED
  BY <1>2, <1>3 DEF x

LEMMA ReceivedLength ==
  ASSUME StreamsInv, EdgesOK, WaitEdges
  PROVE  /\ \A n \in Neighbour : n \in 1..Len(edges.received) /\ Comings(0, n) = {}
         /\ host.at = "ready" /\ host' = host /\ edges' = NoEdges /\ mem' = mem /\ edges # NoEdges
<1>1. /\ host = Ready /\ edges.received # <<>> /\ Pending(0) = {} /\ edges' = NoEdges
      /\ mem' = mem /\ host' = host
  BY DEF WaitEdges, Call
<1>2. Len(edges.received) = Neighbours
  BY <1>1 DEF EdgesOK, Ready
<1>3. edges # NoEdges /\ host.at = "ready"
  BY <1>1 DEF NoEdges, Ready
<1> QED
  BY <1>1, <1>2, <1>3 DEF Neighbour, Pending, Comings

LEMMA OldRecalls ==
  ASSUME IInv, ValuesOK, [Next]_vars, NEW k \in Queued(0)
  PROVE  Recalls(k)'
<1>0. /\ StreamsInv /\ EdgesOK /\ HoldersOK /\ UnpackOK /\ DefaultOK /\ PrivateOK /\ MpiOK
      /\ SidesOK /\ CellsOK /\ RecallsOK /\ CopiedOK /\ 0 \in DOMAIN queue
      /\ buffers \in Nat /\ EdgeBuffers \in Nat
  BY Sizes DEF IInv, ValuesOK, StreamsInv, QueueOK, Types
<1>1. Recalls(k) /\ QueuedOK(0, k)
  BY <1>0, QueuedKernels DEF RecallsOK
<1>2. DOMAIN mem \subseteq DOMAIN mem'
  BY MemoryGrows
<1>3. ASSUME k.do = "copy_out"
      PROVE  /\ edges' = NoEdges /\ k.n \in Neighbour
             /\ mem'[Cell(k.buf, 1)] = expected'[EdgeOf(k.n)]
  <2>1. edges = NoEdges /\ k.n \in Neighbour /\ mem[Cell(k.buf, 1)] = expected[EdgeOf(k.n)]
    BY <1>1, <1>3 DEF Recalls
  <2>2. k.buf \in Range(cache.edge) /\ host.at \notin {"isend", "edges"}
    <3>1. \A b, i, n : pack(b, i, n).do # "copy_out" /\ unpack(b, i, n).do # "copy_out" /\ copy_in(b).do # "copy_out"
      BY DEF pack, unpack, copy_in, Kernel
    <3> QED
      BY <1>1, <1>3, <3>1 DEF QueuedOK, Background
  <2>3. ~ Begins
    BY <1>0, BeginsIdle
  <2>4. ~ WaitEdges
    BY <1>0, <2>1, ReceivedLength
  <2>5. edges' = edges
    BY <1>0, <2>3, <2>4, EdgeSteps DEF Begins
  <2>6. k.buf \in 1..EdgeBuffers /\ k.buf \in 1..buffers /\ Cell(k.buf, 1) \in DOMAIN mem
    <3>1. k.buf \in 1..EdgeBuffers
      BY <1>0, <2>2 DEF SidesOK
    <3>2. k.buf \in 1..buffers /\ k.buf <= EdgeBuffers
      BY <1>0, <3>1 DEF SidesOK
    <3>3. PartsOf(k.buf) = {1}
      BY <3>2 DEF PartsOf
    <3> QED
      BY <1>0, <3>1, <3>2, <3>3 DEF CellsOK
  <2>7. ASSUME NEW s, NEW j, RunOf(s, j), Cell(k.buf, 1) \in Writes(j) PROVE FALSE
    <3>1. j.buf = k.buf /\ BufferWriter(s, j)
      BY <2>7, BufferWriters
    <3>2. j.do = "zero" /\ s = 0
      BY <2>2, <3>1 DEF BufferWriter
    <3>3. j.buf > EdgeBuffers
      BY <1>0, <2>7, <3>2 DEF RunOf, RecallsOK, Recalls
    <3> QED
      BY <1>0, <2>6, <3>1, <3>3
  <2>8. ASSUME NEW v \in recvs, Cell(k.buf, 1) \in CellsOf(v.buf) PROVE FALSE
    <3>1. v.buf = k.buf /\ RecvOK(v)
      BY <1>0, <2>8, MpiWrites DEF MpiOK
    <3> QED
      BY <1>0, <1>1, <1>3, <3>1, RecvApart
  <2>9. mem'[Cell(k.buf, 1)] = mem[Cell(k.buf, 1)]
    BY <1>0, <2>6, <2>7, <2>8, LocationKinds, Stays
  <2>10. expected'[EdgeOf(k.n)] = expected[EdgeOf(k.n)]
    <3>1. EdgeOf(k.n) \in DOMAIN expected
      BY <1>0, <2>1 DEF CopiedOK, Edges
    <3> QED
      BY <2>4, <3>1, ExpectedSteps, EndExpects
  <2> QED
    BY <2>1, <2>5, <2>9, <2>10
<1> QED
  BY <1>1, <1>2, <1>3 DEF Recalls

LEMMA NextRecalls ==
  ASSUME IInv, ValuesOK, [Next]_vars
  PROVE  RecallsOK'
<1>0. /\ StreamsInv /\ EdgesOK /\ SidesOK /\ CellsOK /\ RecallsOK /\ ReceivedOK
      /\ buffers \in Nat /\ EdgeBuffers \in Nat /\ 0 \in DOMAIN queue
  BY Sizes DEF IInv, ValuesOK, StreamsInv, Types, QueueOK
<1> SUFFICES ASSUME NEW k \in Range(queue'[0]), k \notin Queued(0) PROVE Recalls(k)'
  BY OldRecalls DEF RecallsOK, Queued
<1>1. ~ \E s \in DOMAIN queue : \E j : RunOf(s, j)
  BY <1>0 DEF RunOf
<1>2. NewKernel(k)
  BY <1>0, <1>1, DefaultSteps, LongerGives
<1>3. CASE k.do \in {"pack", "unpack", "copy_in", "compute", "inside"}
  BY <1>3 DEF Recalls
<1>4. ASSUME NEW u \in Name, NEW once \in BOOLEAN, Create(u, once),
             NEW b \in NewBuffers("halo", 2 * Neighbours), k = zero(b)
      PROVE  Recalls(k)'
  <2>1. k.do = "zero" /\ k.buf = b
    BY <1>4 DEF zero, Kernel
  <2>2. Fresh("halo", 2 * Neighbours) \in Nat /\ b \in (buffers + 1)..(buffers + Fresh("halo", 2 * Neighbours))
    BY <1>0, <1>4, PopFromCache, Sizes DEF NewBuffers, StreamsInv
  <2>3. b > EdgeBuffers
    BY <1>0, <2>2 DEF SidesOK
  <2> QED
    BY <2>1, <2>3 DEF Recalls
<1>5. ASSUME NEW u \in Name, NEW once \in BOOLEAN, Create(u, once),
             Indices(1) \notin DOMAIN mem, NEW n \in Neighbour, k = upload(n)
      PROVE  Recalls(k)'
  <2>1. k.do = "upload" /\ k.n = n /\ k.val = 1
    BY <1>5 DEF upload, Kernel
  <2>2. Indices(n) \in DOMAIN mem'
    BY <1>0, <1>5, CreateMem
  <2> QED
    BY <2>1, <2>2 DEF Recalls
<1>6. ASSUME WaitEdges, NEW n \in Neighbour, k = copy_out(edges.received[n], n) PROVE Recalls(k)'
  <2>1. k.do = "copy_out" /\ k.n = n /\ k.buf = edges.received[n]
    BY <1>6 DEF copy_out, Kernel
  <2>2. n \in 1..Len(edges.received) /\ Comings(0, n) = {} /\ edges' = NoEdges /\ mem' = mem
    BY <1>0, <1>6, ReceivedLength
  <2>3. mem[Cell(edges.received[n], 1)] = edges.exch
    BY <1>0, <2>2 DEF ReceivedOK
  <2>4. expected'[EdgeOf(n)] = edges.exch
    BY <1>6, WaitExpects
  <2> QED
    BY <2>1, <2>2, <2>3, <2>4 DEF Recalls
<1> QED
  BY <1>2, <1>3, <1>4, <1>5, <1>6 DEF NewKernel
-----------------------------------------------------------------------------
(* The indices, the fields and the edges.                                  *)

\* Which stream the kernels of the model run on, and what they leave.
LEMMA ModelKernels ==
  ASSUME IInv, ValuesOK, NEW s, NEW k, RunOf(s, k)
  PROVE  /\ k.do \in {"upload", "compute", "inside", "copy_out"} => s = 0 /\ Recalls(k)
         /\ k.do = "upload" => Written(k) = 1 /\ Writes(k) = {Indices(k.n)}
         /\ k.do \in {"compute", "inside"} => Written(k) = k.val /\ Writes(k) = {Interior(k.q)}
         /\ k.do = "copy_out" => /\ Written(k) = expected[EdgeOf(k.n)]
                                 /\ Writes(k) = {EdgeOf(k.n)}
<1>1. QueuedOK(s, k) /\ RecallsOK
  BY RunWho DEF ValuesOK
<1>2. \A b, i, n : pack(b, i, n).do = "pack" /\ unpack(b, i, n).do = "unpack" /\ copy_in(b).do = "copy_in"
  BY DEF pack, unpack, copy_in, Kernel
<1>3. ASSUME k.do \in {"upload", "compute", "inside", "copy_out"} PROVE s = 0 /\ Recalls(k)
  <2>1. s = 0
    BY <1>1, <1>2, <1>3 DEF QueuedOK
  <2> QED
    BY <1>1, <2>1 DEF RunOf, RecallsOK
<1>4. ASSUME k.do = "upload" PROVE Written(k) = 1 /\ Writes(k) = {Indices(k.n)}
  <2>1. Written(k) = k.val /\ Writes(k) = {Indices(k.n)}
    BY <1>4 DEF Written, Writes
  <2> QED
    BY <1>3, <1>4, <2>1 DEF Recalls
<1>5. ASSUME k.do \in {"compute", "inside"}
      PROVE  Written(k) = k.val /\ Writes(k) = {Interior(k.q)}
  BY <1>5 DEF Written, Writes
<1>6. ASSUME k.do = "copy_out"
      PROVE  Written(k) = expected[EdgeOf(k.n)] /\ Writes(k) = {EdgeOf(k.n)}
  <2>1. Written(k) = mem[Cell(k.buf, 1)] /\ Writes(k) = {EdgeOf(k.n)}
    BY <1>6 DEF Written, Writes
  <2> QED
    BY <1>3, <1>6, <2>1 DEF Recalls
<1> QED
  BY <1>3, <1>4, <1>5, <1>6

LEMMA NextUpload ==
  ASSUME IInv, ValuesOK, [Next]_vars
  PROVE  UploadOK'
<1>0. StreamsInv /\ UploadOK /\ CellsOK /\ 0 \in DOMAIN queue /\ 1 \in Neighbour
  BY Sizes DEF IInv, ValuesOK, StreamsInv, QueueOK, Neighbour
<1> SUFFICES ASSUME Indices(1) \in DOMAIN mem', NEW n \in Neighbour
             PROVE  /\ Indices(n) \in DOMAIN mem'
                    /\ mem'[Indices(n)] = 1 \/ upload(n) \in Range(queue'[0])
  BY DEF UploadOK, Queued
<1>1. ASSUME NEW s \in DOMAIN queue, NEW k, RunOf(s, k)
      PROVE  /\ Indices(n) \in DOMAIN mem'
             /\ mem'[Indices(n)] = 1 \/ upload(n) \in Range(queue'[0])
  <2>0. /\ DOMAIN mem' = DOMAIN mem \union Writes(k)
        /\ \A loc \in Writes(k) : mem'[loc] = Written(k)
        /\ \A loc \in DOMAIN mem : loc \in Writes(k) \/ mem'[loc] = mem[loc]
        /\ \A x \in Queued(0) : x \in Range(queue'[0]) \/ (0 = s /\ x = k)
        /\ k.do \in Doings
    BY <1>0, <1>1, RunWho DEF RunOf
  <2>1. ASSUME NEW m, Indices(m) \in Writes(k)
        PROVE  k.do = "upload" /\ m = k.n /\ Recalls(k) /\ Written(k) = 1
    <3>1. k.do = "upload" /\ Indices(m) = Indices(k.n)
      BY <2>0, <2>1, WrittenBy, LocationKinds
    <3> QED
      BY <1>1, <3>1, ModelKernels, LocationKinds
  <2>2. Indices(1) \in DOMAIN mem
    BY <2>0, <2>1 DEF Recalls
  <2>3. Indices(n) \in DOMAIN mem /\ (mem[Indices(n)] = 1 \/ upload(n) \in Queued(0))
    BY <1>0, <2>2 DEF UploadOK
  <2>4. CASE Indices(n) \in Writes(k)
    BY <2>0, <2>1, <2>4
  <2>5. CASE Indices(n) \notin Writes(k)
    <3>1. k # upload(n)
      BY <2>5 DEF upload, Kernel, Writes
    <3> QED
      BY <2>0, <2>3, <2>5, <3>1
  <2> QED
    BY <2>4, <2>5
<1>2. ASSUME ~ \E s \in DOMAIN queue : \E k : RunOf(s, k)
      PROVE  /\ Indices(n) \in DOMAIN mem'
             /\ mem'[Indices(n)] = 1 \/ upload(n) \in Range(queue'[0])
  <2>1. \A k \in Queued(0) : k \in Range(queue'[0])
    BY <1>0, <1>2, DefaultSteps, LongerGives
  <2>2. ASSUME NEW u \in Name, NEW once \in BOOLEAN, Create(u, once), Indices(1) \notin DOMAIN mem
        PROVE  /\ Indices(n) \in DOMAIN mem'
               /\ mem'[Indices(n)] = 1 \/ upload(n) \in Range(queue'[0])
    BY <1>0, <2>2, CreateLonger, CreateMem
  <2>3. ASSUME NEW v \in recvs, MpiWrite(v)
        PROVE  MemStays \/ \A loc \in DOMAIN mem : loc[1] = "indices" => mem'[loc] = mem[loc]
    BY <2>3, WriteMem DEF CellsOf
  <2>4. CASE Indices(1) \in DOMAIN mem
    <3>1. Indices(n) \in DOMAIN mem /\ (mem[Indices(n)] = 1 \/ upload(n) \in Queued(0))
      BY <1>0, <2>4 DEF UploadOK
    <3>2. Indices(n)[1] = "indices"
      BY LocationKinds
    <3>3. mem'[Indices(n)] = mem[Indices(n)]
      <4>1. ASSUME NEW u \in Name, NEW once \in BOOLEAN, Create(u, once)
            PROVE  mem'[Indices(n)] = mem[Indices(n)]
        BY <1>0, <2>4, <3>1, <4>1, CreateMem
      <4> QED
        BY <1>2, <2>3, <3>1, <3>2, <4>1, MemSteps DEF MemStays
    <3> QED
      BY <2>1, <3>1, <3>3, MemoryGrows
  <2>5. CASE Indices(1) \notin DOMAIN mem
    <3>1. ASSUME NEW v \in recvs, MpiWrite(v) PROVE DOMAIN mem' = DOMAIN mem
      BY <3>1, WriteMem
    <3> QED
      BY <1>2, <2>2, <2>5, <3>1, MemSteps DEF MemStays
  <2> QED
    BY <2>4, <2>5
<1> QED
  BY <1>1, <1>2

LEMMA VersionSteps ==
  ASSUME [Next]_vars
  PROVE  version' = version \/ \E q \in Quantity : Compute(q)
<1>1. ASSUME NEW u \in Name, BeginStart(u) \/ BeginWait(u) \/ PostAndPack(u) \/ Isend(u)
                             \/ LaunchUnpack(u) \/ Create(u, TRUE) \/ Create(u, FALSE)
      PROVE  version' = version
  BY <1>1 DEF BeginStart, BeginWait, PostAndPack, Isend, LaunchUnpack, Create
<1>2. ASSUME NEW u \in Name, EndWait(u) \/ Drop(u) PROVE version' = version
  BY <1>2 DEF EndWait, Drop
<1>3. StartEdges \/ SendEdge \/ RecvEdges \/ WaitEdges => version' = version
  BY DEF StartEdges, SendEdge, RecvEdges, WaitEdges
<1>4. DeviceStep \/ MpiStep \/ UNCHANGED vars => version' = version
  BY DEF DeviceStep, Run, MpiStep, MpiRead, MpiWrite, vars, hostVars
<1> QED
  BY <1>1, <1>2, <1>3, <1>4 DEF Next, NewCall, HostStep

LEMMA TailPlaces ==
  ASSUME NEW K, NEW q \in Seq(K), q # <<>>
  PROVE  /\ Len(q) \in Nat /\ DOMAIN q = 1..Len(q) /\ Head(q) = q[1]
         /\ DOMAIN Tail(q) = 1..(Len(q) - 1)
         /\ \A j \in 1..(Len(q) - 1) : Tail(q)[j] = q[j + 1]
<1>0. Tail(q) \in Seq(K) /\ Len(Tail(q)) = Len(q) - 1
  OBVIOUS
<1>1. PICK t : t = Tail(q) /\ t \in Seq(K) /\ Len(t) = Len(q) - 1
  BY <1>0
<1>2. Len(t) = Len(q) - 1 /\ Len(q) \in Nat /\ DOMAIN q = 1..Len(q)
  BY <1>1
<1>3. DOMAIN t = 1..Len(t)
  BY <1>1
<1>4. ASSUME NEW j \in 1..(Len(q) - 1) PROVE Tail(q)[j] = q[j + 1]
  OBVIOUS
<1> QED
  BY <1>1, <1>2, <1>3, <1>4

\* A kernel of the model runs, or another one.
LEMMA RunComes ==
  ASSUME IInv, ValuesOK, NEW s \in DOMAIN queue, NEW k, RunOf(s, k), NEW q \in Quantity
  PROVE  Comes(q)'
<1>0. /\ 0 \in DOMAIN queue /\ Comes(q) /\ version' = version /\ k.do \in Doings
      /\ Interior(q) \in DOMAIN mem
  <2>1. Interior(q) \in Locations /\ Locations \subseteq DOMAIN mem
    BY DEF Locations, ValuesOK, CellsOK
  <2>2. k.do \in Doings
    BY RunWho
  <2>3. 0 \in DOMAIN queue /\ Comes(q)
    BY DEF IInv, StreamsInv, QueueOK, ValuesOK, InteriorOK
  <2> QED
    BY <2>1, <2>2, <2>3 DEF RunOf, hostVars
<1>1. /\ \A x \in Range(queue'[0]) : x \in Queued(0)
      /\ s # 0 => queue'[0] = queue[0]
      /\ s = 0 => queue'[0] = Tail(queue[0]) /\ queue[0] # <<>> /\ k = Head(queue[0])
  BY <1>0 DEF RunOf
<1>2. Interior(q) \in Writes(k) <=> Steps(k, q)
  <2>1. ASSUME Interior(q) \in Writes(k) PROVE Steps(k, q)
    BY <1>0, <2>1, WrittenBy, LocationKinds DEF Steps
  <2>2. ASSUME Steps(k, q) PROVE Interior(q) \in Writes(k)
    BY <2>2, ModelKernels DEF Steps
  <2> QED
    BY <2>1, <2>2
<1>3. /\ Steps(k, q) => s = 0 /\ mem'[Interior(q)] = k.val
      /\ ~ Steps(k, q) => mem'[Interior(q)] = mem[Interior(q)]
  <2>1. ASSUME Steps(k, q) PROVE s = 0 /\ mem'[Interior(q)] = k.val
    <3>1. s = 0 /\ Written(k) = k.val
      BY <2>1, ModelKernels DEF Steps
    <3> QED
      BY <1>2, <2>1, <3>1 DEF RunOf
  <2>2. ASSUME ~ Steps(k, q) PROVE mem'[Interior(q)] = mem[Interior(q)]
    BY <1>0, <1>2, <2>2 DEF RunOf
  <2> QED
    BY <2>1, <2>2
<1>4. PICK K : queue[0] \in Seq(K)
  BY <1>0 DEF IInv, StreamsInv, QueueOK
<1>5. CASE s # 0
  BY <1>0, <1>1, <1>3, <1>5 DEF Comes, IsLast, Steps, Queued
<1>6. ASSUME s = 0, NEW i \in DOMAIN queue[0], IsLast(i, q) PROVE Comes(q)'
  <2> DEFINE l == queue[0]
             t == Tail(queue[0])
  <2>1. /\ Len(l) \in Nat /\ DOMAIN l = 1..Len(l) /\ k = l[1] /\ DOMAIN t = 1..(Len(l) - 1)
        /\ \A j \in 1..(Len(l) - 1) : t[j] = l[j + 1]
    BY <1>1, <1>4, <1>6, TailPlaces
  <2>2. queue'[0] = t
    BY <1>1, <1>6
  <2>3. /\ Steps(l[i], q) /\ l[i].val = version[q] /\ i \in DOMAIN l
        /\ \A j \in DOMAIN l : j > i => ~ Steps(l[j], q)
    BY <1>6 DEF IsLast
  <2> HIDE DEF l, t
  <2>4. CASE i = 1
    <3>1. mem'[Interior(q)] = version[q]
      BY <1>3, <2>1, <2>3, <2>4
    <3>2. ASSUME NEW x \in Range(t) PROVE ~ Steps(x, q)
      <4>1. PICK j \in 1..(Len(l) - 1) : x = t[j]
        BY <2>1 DEF Range
      <4>2. j + 1 \in DOMAIN l /\ j + 1 > i
        BY <2>1, <2>4
      <4> QED
        BY <2>1, <2>3, <4>1, <4>2
    <3> QED
      BY <1>0, <2>2, <3>1, <3>2 DEF Comes, Queued, Steps
  <2>5. CASE i # 1
    <3>1. i - 1 \in DOMAIN t /\ t[i - 1] = l[i]
      BY <2>1, <2>3, <2>5
    <3>2. ASSUME NEW j \in DOMAIN t, j > i - 1 PROVE ~ Steps(t[j], q)
      <4>1. j + 1 \in DOMAIN l /\ j + 1 > i /\ t[j] = l[j + 1]
        BY <2>1, <2>3, <3>2
      <4> QED
        BY <2>3, <4>1
    <3>3. PICK m : m = i - 1
      OBVIOUS
    <3>4. IsLast(m, q)'
      BY <1>0, <2>2, <2>3, <3>1, <3>2, <3>3 DEF IsLast, Steps
    <3> QED
      BY <2>2, <3>1, <3>3, <3>4 DEF Comes
  <2> QED
    BY <2>4, <2>5
<1>7. ASSUME s = 0, mem[Interior(q)] = version[q], \A x \in Queued(0) : ~ Steps(x, q) PROVE Comes(q)'
  <2>1. ~ Steps(k, q)
    BY <1>7 DEF RunOf
  <2> QED
    BY <1>0, <1>1, <1>3, <1>7, <2>1 DEF Comes, Queued, Steps
<1> QED
  BY <1>0, <1>5, <1>6, <1>7 DEF Comes

LEMMA NextInterior ==
  ASSUME IInv, ValuesOK, [Next]_vars
  PROVE  InteriorOK'
<1> SUFFICES ASSUME NEW q \in Quantity, ~ \E s \in DOMAIN queue : \E k : RunOf(s, k)
             PROVE  Comes(q)'
  BY RunComes DEF InteriorOK
<1>0. /\ StreamsInv /\ CellsOK /\ 0 \in DOMAIN queue /\ Comes(q) /\ Interior(q) \in DOMAIN mem
      /\ version \in [Quantity -> Nat]
  <2>1. Interior(q) \in Locations
    BY DEF Locations
  <2> QED
    BY <2>1 DEF IInv, ValuesOK, StreamsInv, QueueOK, InteriorOK, CellsOK
<1>1. PICK K : queue[0] \in Seq(K)
  BY <1>0 DEF StreamsInv, QueueOK
<1>2. PICK n : n = Len(queue[0]) /\ n \in Nat /\ DOMAIN queue[0] = 1..n
  BY <1>1
<1>3. ASSUME Compute(q) PROVE Comes(q)'
  <2> DEFINE x == IF \E u \in Name : obj[u].st = "inflight"
                  THEN compute_inside(q, version[q] + 1) ELSE compute(q, version[q] + 1)
  <2>1. Steps(x, q) /\ x.val = version[q] + 1
    BY DEF Steps, compute_inside, compute, Kernel
  <2>2. version'[q] = version[q] + 1
    BY <1>0, <1>3 DEF Compute
  <2>3. queue' = Launched(0, <<x>>)
    BY <1>3 DEF Compute
  <2> HIDE DEF x
  <2>4. queue'[0] = queue[0] \o <<x>>
    BY <1>0, <2>3 DEF Launched
  <2>5. /\ DOMAIN queue'[0] = 1..(n + 1) /\ queue'[0][n + 1] = x
    BY <1>1, <1>2, <2>4
  <2>6. PICK m : m = n + 1 /\ m \in 1..(n + 1)
    <3>1. n + 1 \in 1..(n + 1)
      BY <1>2
    <3> QED
      BY <3>1
  <2>7. IsLast(m, q)'
    <3>1. \A j \in 1..(n + 1) : ~ (j > m)
      BY <1>2, <2>6
    <3> QED
      BY <2>1, <2>2, <2>5, <2>6, <3>1 DEF IsLast, Steps
  <2> QED
    BY <2>5, <2>6, <2>7 DEF Comes
<1>4. ASSUME ~ Compute(q) PROVE Comes(q)'
  <2>1. version'[q] = version[q]
    <3>1. ASSUME NEW p \in Quantity, Compute(p) PROVE version'[q] = version[q]
      <4>1. p # q
        BY <1>4, <3>1
      <4> QED
        BY <1>0, <3>1, <4>1 DEF Compute
    <3> QED
      BY <3>1, VersionSteps
  <2>2. mem'[Interior(q)] = mem[Interior(q)]
    <3>1. \A v : Interior(q) \notin CellsOf(v.buf)
      BY LocationKinds DEF CellsOf
    <3> QED
      BY <1>0, <3>1, LocationKinds, Stays
  <2>3. PICK L, l : l \in Seq(L) /\ queue'[0] = queue[0] \o l /\ \A k \in Range(l) : NewKernel(k)
    BY DefaultSteps DEF Longer
  <2>4. ASSUME NEW k \in Range(l) PROVE ~ Steps(k, q)
    <3>1. NewKernel(k)
      BY <2>3
    <3>2. \A b, m : /\ zero(b).do = "zero" /\ upload(m).do = "upload"
                    /\ copy_out(b, m).do = "copy_out"
      BY DEF zero, upload, copy_out, Kernel
    <3> QED
      BY <1>4, <3>1, <3>2 DEF NewKernel, Steps
  <2>5. PICK m : m = Len(l) /\ m \in Nat /\ DOMAIN l = 1..m
    BY <2>3
  <2>6. /\ DOMAIN queue'[0] = 1..(n + m)
        /\ \A j \in 1..n : queue'[0][j] = queue[0][j]
        /\ \A j \in (n + 1)..(n + m) : queue'[0][j] = l[j - n]
    BY <1>1, <1>2, <2>3, <2>5
  <2>7. ASSUME NEW j \in DOMAIN queue'[0], j > n PROVE ~ Steps(queue'[0][j], q)
    <3>1. j \in (n + 1)..(n + m) /\ j - n \in DOMAIN l
      BY <1>2, <2>5, <2>6, <2>7
    <3>2. l[j - n] \in Range(l)
      BY <3>1 DEF Range
    <3> QED
      BY <2>4, <2>6, <3>1, <3>2
  <2>8. ASSUME NEW i \in DOMAIN queue[0], IsLast(i, q) PROVE Comes(q)'
    <3>1. i \in 1..n /\ i \in DOMAIN queue'[0] /\ queue'[0][i] = queue[0][i]
      BY <1>2, <2>5, <2>6
    <3>2. ASSUME NEW j \in DOMAIN queue'[0], j > i PROVE ~ Steps(queue'[0][j], q)
      <4>1. CASE j > n
        BY <2>7, <4>1
      <4>2. CASE ~ (j > n)
        <5>1. j \in 1..n
          BY <1>2, <2>5, <2>6, <4>2
        <5> QED
          BY <1>2, <2>6, <2>8, <3>2, <5>1 DEF IsLast
      <4> QED
        BY <4>1, <4>2
    <3>3. IsLast(i, q)'
      BY <2>1, <2>8, <3>1, <3>2 DEF IsLast, Steps
    <3> QED
      BY <3>1, <3>3 DEF Comes
  <2>9. ASSUME mem[Interior(q)] = version[q], \A k \in Queued(0) : ~ Steps(k, q) PROVE Comes(q)'
    <3>1. Range(queue'[0]) = Queued(0) \union Range(l)
      BY <1>1, <2>3, Behind DEF Queued
    <3> QED
      BY <2>1, <2>2, <2>4, <2>9, <3>1 DEF Comes, Queued, Steps
  <2> QED
    BY <1>0, <2>8, <2>9 DEF Comes
<1> QED
  BY <1>3, <1>4

LEMMA NextCopied ==
  ASSUME IInv, ValuesOK, [Next]_vars
  PROVE  CopiedOK'
<1>0. StreamsInv /\ EdgesOK /\ CellsOK /\ CopiedOK /\ 0 \in DOMAIN queue
  BY DEF IInv, ValuesOK, StreamsInv, QueueOK
<1>1. DOMAIN expected' = (UNION {Halos(q) : q \in Quantity}) \union Edges
  <2> DEFINE H == UNION {Halos(q) : q \in Quantity}
  <2>1. DOMAIN expected = H \union Edges
    BY <1>0 DEF CopiedOK
  <2>2. ASSUME NEW u \in Name, EndWait(u) PROVE DOMAIN expected' = H \union DOMAIN expected
    BY <2>2, EndExpects
  <2> HIDE DEF H
  <2>3. DOMAIN expected' = H \union Edges
    BY <2>1, <2>2, ExpectedSteps, WaitExpects
  <2> QED
    BY <2>3 DEF H
<1> DEFINE Copied(n) == \/ \E k \in Range(queue'[0]) : k.do = "copy_out" /\ k.n = n
                        \/ mem'[EdgeOf(n)] = expected'[EdgeOf(n)]
<1> SUFFICES ASSUME NEW n \in Neighbour PROVE Copied(n)
  BY <1>1 DEF CopiedOK, Queued, Edges, Halos
<1>2. /\ EdgeOf(n) \in DOMAIN expected /\ EdgeOf(n) \in DOMAIN mem /\ EdgeOf(n)[1] = "edge"
      /\ \/ \E k \in Queued(0) : k.do = "copy_out" /\ k.n = n
         \/ mem[EdgeOf(n)] = expected[EdgeOf(n)]
  <2>1. EdgeOf(n) \in Edges /\ Edges \subseteq Locations
    BY DEF Edges, Locations
  <2> QED
    BY <1>0, <2>1, LocationKinds DEF CopiedOK, CellsOK
<1>3. ASSUME NEW s \in DOMAIN queue, NEW k, RunOf(s, k) PROVE Copied(n)
  <2>1. /\ \A loc \in Writes(k) : mem'[loc] = Written(k)
        /\ \A loc \in DOMAIN mem : loc \in Writes(k) \/ mem'[loc] = mem[loc]
        /\ \A x \in Queued(0) : x \in Range(queue'[0]) \/ (0 = s /\ x = k)
        /\ k.do \in Doings /\ expected' = expected
    BY <1>0, <1>3, RunWho DEF RunOf, hostVars
  <2>2. ASSUME EdgeOf(n) \in Writes(k) PROVE Written(k) = expected[EdgeOf(n)]
    <3>1. k.do = "copy_out" /\ EdgeOf(n) = EdgeOf(k.n)
      BY <2>1, <2>2, WrittenBy, LocationKinds
    <3> QED
      BY <1>3, <3>1, ModelKernels
  <2>3. ASSUME k.do = "copy_out", k.n = n PROVE EdgeOf(n) \in Writes(k)
    BY <1>3, <2>3, ModelKernels
  <2> QED
    BY <1>2, <2>1, <2>2, <2>3
<1>4. ASSUME ~ \E s \in DOMAIN queue : \E k : RunOf(s, k) PROVE Copied(n)
  <2>1. CASE WaitEdges
    <3>1. copy_out(edges.received[n], n) \in Range(queue'[0])
      BY <1>0, <2>1, WaitLonger
    <3>2. copy_out(edges.received[n], n).do = "copy_out" /\ copy_out(edges.received[n], n).n = n
      BY DEF copy_out, Kernel
    <3> QED
      BY <3>1, <3>2
  <2>2. CASE ~ WaitEdges
    <3>1. expected'[EdgeOf(n)] = expected[EdgeOf(n)]
      BY <1>2, <2>2, ExpectedSteps, EndExpects
    <3>2. \A v : EdgeOf(n) \notin CellsOf(v.buf)
      BY LocationKinds DEF CellsOf
    <3>3. mem'[EdgeOf(n)] = mem[EdgeOf(n)]
      BY <1>0, <1>2, <1>4, <3>2, Stays
    <3>4. \A k \in Queued(0) : k \in Range(queue'[0])
      BY <1>0, <1>4, DefaultSteps, LongerGives
    <3> QED
      BY <1>2, <3>1, <3>3, <3>4
  <2> QED
    BY <2>1, <2>2
<1> QED
  BY <1>3, <1>4

-----------------------------------------------------------------------------
(* What is to be sent.                                                     *)

\* While packs or unpacks are queued nothing else is launched.
LEMMA BusyQueue ==
  ASSUME StreamsInv, [Next]_vars, host.at \in {"isend", "unpack"}
  PROVE  queue' = queue \/ \E s \in DOMAIN queue : \E k : RunOf(s, k)
<1>1. \A do : ~ Call(do)
  BY DEF Call, Ready
<1>2. ~ NewCall
  BY <1>1 DEF NewCall, Compute, Create, BeginStart, BeginWait, Drop, StartEdges, WaitEdges
<1>3. ~ SendEdge /\ ~ RecvEdges /\ \A u \in Name : ~ PostAndPack(u) /\ ~ LaunchUnpack(u)
  BY DEF SendEdge, RecvEdges, PostAndPack, LaunchUnpack, At
<1>4. ASSUME NEW u \in Name, Isend(u) \/ EndWait(u) PROVE queue' = queue
  BY <1>4 DEF Isend, EndWait
<1>5. MpiStep \/ UNCHANGED vars => queue' = queue
  BY DEF MpiStep, MpiRead, MpiWrite, vars
<1>6. DeviceStep => \E s \in DOMAIN queue : \E k : RunOf(s, k)
  BY RunIs DEF DeviceStep
<1> QED
  BY <1>2, <1>3, <1>4, <1>5, <1>6 DEF Next, HostStep

LEMMA HostFlight ==
  ASSUME StreamsInv, host.at \in {"isend", "unpack"}
  PROVE  /\ host.name \in Name /\ InFlight(host.name) /\ host.name # 0
         /\ host = At(host.at, host.name, host.k)
BY Sizes DEF StreamsInv, HostOK, At, Ready, InFlight

\* The streams of an updater exist.
LEMMA StreamForIs ==
  ASSUME StreamsInv, NEW u \in Name, InFlight(u), NEW n \in Neighbour, NEW i \in Part
  PROVE  StreamFor(u, n, i) \in DOMAIN queue
<1>1. obj[u].st # "none" /\ ObjectOK(obj[u]) /\ obj[u] \in Updaters
  BY DEF InFlight, StreamsInv, Types
<1>2. DOMAIN obj[u].streams = 1..Streams
  <2>1. Len(obj[u].streams) = Streams /\ obj[u].streams \in Seq(Nat)
    BY <1>1 DEF ObjectOK, Updaters
  <2> QED
    BY <2>1
<1>3. (n - 1) * Len(Fields) + i \in 1..Streams
  BY StreamPlace
<1>4. StreamOf(obj[u], n, i) \in DOMAIN queue
  BY <1>2, <1>3, PrivateStreams DEF StreamOf
<1> QED
  BY <1>4 DEF StreamFor, StreamsInv, QueueOK

\* While the host packs or copies, the fields and the indices are as the program left them.
LEMMA Settled ==
  ASSUME IInv, ValuesOK
  PROVE  /\ host.at \in {"isend", "edges"} => \A q \in Quantity : mem[Interior(q)] = version[q]
         /\ host.at \in {"isend", "unpack"} => \A n \in Neighbour : mem[Indices(n)] = 1
<1>0. /\ StreamsInv /\ 0 \in DOMAIN queue /\ InteriorOK /\ UploadOK /\ IndicesOK
      /\ \A k \in Queued(0) : QueuedOK(0, k)
  BY QueuedKernels DEF IInv, ValuesOK, StreamsInv, QueueOK
<1>1. \A b, i, n : pack(b, i, n).do = "pack" /\ unpack(b, i, n).do = "unpack" /\ copy_in(b).do = "copy_in"
  BY DEF pack, unpack, copy_in, Kernel
<1>2. ASSUME host.at \in {"isend", "edges"}, NEW q \in Quantity PROVE mem[Interior(q)] = version[q]
  <2>1. \A k \in Queued(0) : ~ Steps(k, q)
    BY <1>0, <1>1, <1>2 DEF QueuedOK, Steps
  <2>2. \A i \in DOMAIN queue[0] : queue[0][i] \in Queued(0)
    BY DEF Queued, Range
  <2> QED
    BY <1>0, <2>1, <2>2 DEF InteriorOK, Comes, IsLast
<1>3. ASSUME host.at \in {"isend", "unpack"}, NEW n \in Neighbour PROVE mem[Indices(n)] = 1
  <2>1. host.name \in Name /\ InFlight(host.name)
    BY <1>0, <1>3, HostFlight
  <2>2. Indices(1) \in DOMAIN mem
    BY <1>0, <2>1 DEF IndicesOK, InFlight
  <2>3. upload(n) \notin Queued(0)
    <3>1. upload(n).do = "upload"
      BY DEF upload, Kernel
    <3> QED
      BY <1>0, <1>1, <1>3, <2>1, <3>1 DEF QueuedOK, Background
  <2> QED
    BY <1>0, <2>2, <2>3 DEF UploadOK
<1> QED
  BY <1>2, <1>3

\* The host stays at its packing: a kernel of the updater runs, or MPI goes on.
LEMMA PackingGoesOn ==
  ASSUME IInv, ValuesOK, [Next]_vars, host' = host, host.at = "isend", NEW u, u = host.name,
         NEW n \in Neighbour, NEW i \in Part, n >= host.k
  PROVE  Gets(StreamFor(u, n, i), pack(PackOf(u, n), i, n),
              Cell(PackOf(u, n), i), version[Fields[i]])'
<1> DEFINE b == PackOf(u, n)
           x == version[Fields[i]]
           s == StreamFor(u, n, i)
           p == pack(b, i, n)
<1>0. /\ StreamsInv /\ HoldersOK /\ SidesOK /\ CellsOK /\ u \in Name /\ InFlight(u)
      /\ Fields[i] \in Quantity /\ EdgeBuffers \in Nat
  BY HostFlight, Sizes DEF IInv, ValuesOK, Quantity
<1>1. /\ b \in 1..buffers /\ b > EdgeBuffers /\ Cell(b, i) \in DOMAIN mem
      /\ s \in DOMAIN queue
  BY <1>0, FieldBuffer, StreamForIs
<1>2. obj' = obj /\ wide' = wide /\ version' = version
  <2>1. \A w \in Name : ~ Isend(w) /\ ~ EndWait(w)
    BY Sizes DEF Isend, EndWait, At, Ready, Neighbour
  <2>2. \A q \in Quantity : ~ Compute(q)
    BY DEF Compute, Call, Ready
  <2> QED
    BY <1>0, <2>1, <2>2, BusySteps, VersionSteps, WideStays
<1>3. p \in Queued(s) \/ mem[Cell(b, i)] = x
  BY DEF ValuesOK, PackedOK, Gets
<1>4. Writes(p) = {Cell(b, i)}
  BY PackWrites
<1>5. ASSUME NEW t \in DOMAIN queue, NEW k, RunOf(t, k)
      PROVE  p \in Range(queue'[s]) \/ mem'[Cell(b, i)] = x
  <2>1. /\ \A loc \in Writes(k) : mem'[loc] = Written(k)
        /\ \A loc \in DOMAIN mem : loc \in Writes(k) \/ mem'[loc] = mem[loc]
        /\ \A y \in Queued(s) : y \in Range(queue'[s]) \/ y = k
    BY <1>1, <1>5 DEF RunOf
  <2>2. ASSUME Cell(b, i) \in Writes(k) PROVE Written(k) = x
    <3>1. k.buf = b /\ BufferWriter(t, k)
      BY <1>5, <2>2, BufferWriters
    <3>2. PICK m \in Neighbour, j \in Part : k = pack(PackOf(u, m), j, m)
      BY <3>1 DEF BufferWriter
    <3>3. PackOf(u, m) = PackOf(u, n)
      BY <3>1, <3>2, PackWrites
    <3>4. m = n
      BY <1>0, <3>3, UpdaterBuffers
    <3>5. j = i
      <4>1. Cell(b, i) = Cell(PackOf(u, m), j)
        BY <2>2, <3>2, PackWrites
      <4> QED
        BY <4>1, LocationKinds
    <3>6. mem[Indices(n)] = 1 /\ mem[Interior(Fields[i])] = version[Fields[i]]
      BY <1>0, Settled
    <3> QED
      BY <3>2, <3>4, <3>5, <3>6, PackWrites
  <2> QED
    BY <1>1, <1>3, <1>4, <2>1, <2>2
<1>6. ASSUME ~ \E t \in DOMAIN queue : \E k : RunOf(t, k)
      PROVE  p \in Range(queue'[s]) \/ mem'[Cell(b, i)] = x
  <2>1. queue' = queue
    BY <1>0, <1>6, BusyQueue
  <2>2. ASSUME NEW v \in recvs, Cell(b, i) \in CellsOf(v.buf) PROVE FALSE
    <3>1. v.buf = b
      BY <2>2, <1>0, MpiWrites
    <3>2. CASE v.name \in Name /\ InFlight(v.name) /\ v.n \in Neighbour /\ v.buf = UnpackOf(v.name, v.n)
      <4>1. PICK w \in Name, m \in Neighbour : w = v.name /\ m = v.n
        BY <3>2
      <4>2. InFlight(w) /\ PackOf(u, n) = UnpackOf(w, m)
        BY <3>1, <3>2, <4>1
      <4> QED
        BY <1>0, <4>2, UpdaterBuffers
    <3>3. CASE v.buf \in 1..EdgeBuffers
      BY <1>0, <1>1, <3>1, <3>3
    <3> QED
      BY <1>0, <3>2, <3>3, RecvBuffer
  <2>3. Cell(b, i)[1] # "indices"
    BY LocationKinds
  <2> HIDE DEF b
  <2>4. mem'[Cell(b, i)] = mem[Cell(b, i)]
    BY <1>0, <1>1, <1>6, <2>2, <2>3, Stays
  <2> QED
    BY <1>3, <2>1, <2>4 DEF Queued
<1>7. p \in Range(queue'[s]) \/ mem'[Cell(b, i)] = x
  BY <1>5, <1>6
<1>8. PackOf(u, n)' = b /\ StreamFor(u, n, i)' = s
  BY <1>2 DEF PackOf, StreamFor, StreamOf
<1> QED
  BY <1>2, <1>7, <1>8 DEF Gets, Queued, Cell, pack, Kernel

\* The host stays at its copy of an edge.
LEMMA CopyingGoesOn ==
  ASSUME IInv, ValuesOK, [Next]_vars, host' = host, host.at = "edges", host.k <= Neighbours
  PROVE  Gets(0, copy_in(edges.sent[host.k]), Cell(edges.sent[host.k], 1), version[Fields[1]])'
<1> DEFINE b == edges.sent[host.k]
           x == version[Fields[1]]
           p == copy_in(b)
<1>0. /\ StreamsInv /\ HoldersOK /\ EdgesOK /\ SidesOK /\ CellsOK /\ EdgeBuffers \in Nat
      /\ Fields[1] \in Quantity /\ 0 \in DOMAIN queue
  BY Sizes DEF IInv, ValuesOK, Quantity, StreamsInv, QueueOK
<1>1. /\ host.k \in 1..Len(edges.sent) /\ edges.received = <<>> /\ host # Ready
      /\ host.k \in Neighbour
  <2>1. edges.received = <<>> /\ Len(edges.sent) = host.k
    BY <1>0 DEF EdgesOK
  <2>2. host.k \in 1..(Neighbours + 1)
    BY <1>0 DEF StreamsInv, HostOK, At, Ready
  <2> QED
    BY <2>1, <2>2, Sizes DEF Ready, Neighbour
<1>2. b \in 1..EdgeBuffers /\ Cell(b, 1) \in DOMAIN mem
  BY <1>0, <1>1, EdgeBuffer
<1>3. edges' = edges /\ version' = version
  <2>1. ~ StartEdges /\ ~ WaitEdges /\ \A q \in Quantity : ~ Compute(q)
    BY <1>1 DEF StartEdges, WaitEdges, Compute, Call
  <2>2. ~ RecvEdges
    BY Sizes DEF RecvEdges, At
  <2>3. ~ SendEdge
    BY <1>1 DEF SendEdge, At, Neighbour
  <2> QED
    BY <1>0, <2>1, <2>2, <2>3, EdgeSteps, VersionSteps
<1>4. p \in Queued(0) \/ mem[Cell(b, 1)] = x
  BY DEF ValuesOK, PackedOK, Gets
<1>5. ASSUME NEW t \in DOMAIN queue, NEW k, RunOf(t, k)
      PROVE  p \in Range(queue'[0]) \/ mem'[Cell(b, 1)] = x
  <2>1. /\ \A loc \in Writes(k) : mem'[loc] = Written(k)
        /\ \A loc \in DOMAIN mem : loc \in Writes(k) \/ mem'[loc] = mem[loc]
        /\ \A y \in Queued(0) : y \in Range(queue'[0]) \/ y = k
    BY <1>0, <1>5 DEF RunOf
  <2>2. ASSUME Cell(b, 1) \in Writes(k) PROVE Written(k) = x
    <3>1. k.buf = b /\ BufferWriter(t, k)
      BY <1>5, <2>2, BufferWriters
    <3>2. k = copy_in(b)
      BY <3>1 DEF BufferWriter
    <3>3. mem[Interior(Fields[1])] = version[Fields[1]]
      BY <1>0, Settled
    <3> QED
      BY <3>2, <3>3, CopyInWrites
  <2> QED
    BY <1>2, <1>4, <2>1, <2>2, CopyInWrites
<1>6. ASSUME ~ \E t \in DOMAIN queue : \E k : RunOf(t, k)
      PROVE  p \in Range(queue'[0]) \/ mem'[Cell(b, 1)] = x
  <2>1. \A k \in Queued(0) : k \in Range(queue'[0])
    BY <1>0, <1>6, DefaultSteps, LongerGives
  <2>2. ASSUME NEW v \in recvs, Cell(b, 1) \in CellsOf(v.buf) PROVE FALSE
    <3>1. v.buf = b
      BY <2>2, <1>0, MpiWrites
    <3>2. CASE v.buf > EdgeBuffers
      BY <1>0, <1>2, <3>1, <3>2
    <3>3. CASE v.n \in 1..Len(edges.received)
      BY <1>1, <3>3
    <3> QED
      BY <1>0, <3>2, <3>3, RecvBuffer
  <2>3. Cell(b, 1)[1] # "indices"
    BY LocationKinds
  <2> HIDE DEF b
  <2>4. mem'[Cell(b, 1)] = mem[Cell(b, 1)]
    BY <1>0, <1>2, <1>6, <2>2, <2>3, Stays
  <2> QED
    BY <1>4, <2>1, <2>4
<1>7. p \in Range(queue'[0]) \/ mem'[Cell(b, 1)] = x
  BY <1>5, <1>6
<1> QED
  BY <1>3, <1>7 DEF Gets, Queued, Cell, copy_in, Kernel

LEMMA NextPacked ==
  ASSUME IInv, ValuesOK, [Next]_vars
  PROVE  PackedOK'
<1>0. StreamsInv /\ EdgesOK /\ EdgesCached
  BY DEF IInv
<1>1. ASSUME host'.at = "isend", NEW n \in Neighbour, NEW i \in Part, n >= host'.k
      PROVE  Gets(StreamFor(host.name, n, i), pack(PackOf(host.name, n), i, n),
                  Cell(PackOf(host.name, n), i), version[Fields[i]])'
  <2>1. CASE host' = host
    <3>1. PICK u : u = host.name
      OBVIOUS
    <3>2. Gets(StreamFor(u, n, i), pack(PackOf(u, n), i, n), Cell(PackOf(u, n), i), version[Fields[i]])'
      BY <1>1, <2>1, <3>1, PackingGoesOn
    <3> QED
      BY <2>1, <3>1, <3>2
  <2>2. ASSUME NEW u \in Name, PostAndPack(u)
        PROVE  Gets(StreamFor(host.name, n, i), pack(PackOf(host.name, n), i, n),
                    Cell(PackOf(host.name, n), i), version[Fields[i]])'
    <3>1. host'.name = u
      BY <2>2 DEF PostAndPack, At
    <3>2. pack(PackOf(u, n), i, n) \in Range(queue'[StreamFor(u, n, i)])
      BY <1>0, <2>2, AllPacked
    <3>3. obj'[u].pack = obj[u].pack /\ obj'[u].streams = obj[u].streams /\ wide' = wide
      BY <1>0, <2>2, PackLists DEF PostAndPack, ListsKept
    <3>4. PackOf(u, n)' = PackOf(u, n) /\ StreamFor(u, n, i)' = StreamFor(u, n, i)
      BY <3>3 DEF PackOf, StreamFor, StreamOf
    <3>5. Gets(StreamFor(u, n, i), pack(PackOf(u, n), i, n), Cell(PackOf(u, n), i), version[Fields[i]])'
      BY <3>2, <3>4 DEF Gets, Queued, pack, Kernel
    <3> QED
      BY <3>1, <3>5
  <2>3. ASSUME NEW u \in Name, Isend(u)
        PROVE  Gets(StreamFor(host.name, n, i), pack(PackOf(host.name, n), i, n),
                    Cell(PackOf(host.name, n), i), version[Fields[i]])'
    <3>1. /\ host.at = "isend" /\ host.name = u /\ host'.name = u
          /\ host'.k = host.k + 1 /\ host.k \in Neighbour
      BY <1>1, <2>3 DEF Isend, At, Ready
    <3>2. n >= host.k
      BY <1>1, <3>1, Sizes DEF Neighbour
    <3>3. Gets(StreamFor(u, n, i), pack(PackOf(u, n), i, n), Cell(PackOf(u, n), i), version[Fields[i]])
      BY <3>1, <3>2 DEF ValuesOK, PackedOK
    <3>4. UNCHANGED <<queue, mem, obj, version, wide>>
      BY <2>3 DEF Isend
    <3>5. Gets(StreamFor(u, n, i), pack(PackOf(u, n), i, n), Cell(PackOf(u, n), i), version[Fields[i]])'
      BY <3>3, <3>4 DEF Gets, Queued, pack, Kernel, PackOf, StreamFor, StreamOf, Cell
    <3> QED
      BY <3>1, <3>5
  <2>4. ASSUME NEW u \in Name, LaunchUnpack(u) PROVE FALSE
    BY <1>1, <2>4 DEF LaunchUnpack, At
  <2>5. ~ StartEdges /\ ~ SendEdge
    BY <1>1 DEF StartEdges, SendEdge, At
  <2> QED
    BY <1>1, <2>1, <2>2, <2>3, <2>4, <2>5, HostSteps
<1>2. ASSUME host'.at = "edges", host'.k <= Neighbours
      PROVE  Gets(0, copy_in(edges.sent[host.k]), Cell(edges.sent[host.k], 1), version[Fields[1]])'
  <2>1. CASE host' = host
    BY <1>2, <2>1, CopyingGoesOn
  <2>2. CASE StartEdges \/ SendEdge
    <3>1. CopyEdge /\ (StartEdges \/ (SendEdge /\ host.k < Neighbours))
      <4>1. CASE StartEdges
        BY <4>1 DEF StartEdges
      <4>2. CASE SendEdge
        <5>1. host.k \in Neighbour /\ host'.k = host.k + 1
          BY <4>2 DEF SendEdge, At
        <5>2. host.k < Neighbours
          BY <1>2, <5>1, Sizes DEF Neighbour
        <5> QED
          BY <4>2, <5>2 DEF SendEdge
      <4> QED
        BY <2>2, <4>1, <4>2
    <3>2. host'.k = Len(edges.sent) + 1
      <4>1. Len(edges.sent) = IF host = Ready THEN 0 ELSE host.k
        BY <1>0, <3>1, CopyEdgeFacts
      <4>2. StartEdges => host = Ready /\ host'.k = 1
        BY DEF StartEdges, Call, At
      <4>3. SendEdge => host # Ready /\ host'.k = host.k + 1
        BY DEF SendEdge, At, Ready
      <4> QED
        BY <3>1, <4>1, <4>2, <4>3
    <3>3. PICK b : b = pop_from_cache("edge", 1)[1]
      OBVIOUS
    <3>4. edges'.sent[host'.k] = b /\ copy_in(b) \in Range(queue'[0])
      BY <1>0, <3>1, <3>2, <3>3, CopyLonger
    <3> QED
      BY <3>4 DEF Gets, Queued, copy_in, Kernel
  <2>3. ASSUME NEW u \in Name, Isend(u) \/ PostAndPack(u) \/ LaunchUnpack(u) PROVE FALSE
    BY <1>2, <2>3 DEF Isend, PostAndPack, LaunchUnpack, At, Ready
  <2> QED
    BY <1>2, <2>1, <2>2, <2>3, HostSteps
<1> QED
  BY <1>1, <1>2 DEF PackedOK

-----------------------------------------------------------------------------
(* What MPI reads and writes.                                              *)

LEMMA OldSent ==
  ASSUME IInv, ValuesOK, [Next]_vars, NEW r \in sends
  PROVE  r.want = [i \in 1..Size(r) |-> mem'[Cell(r.buf, i)]]
<1>0. StreamsInv /\ HoldersOK /\ SidesOK /\ CellsOK /\ SendOK(r)
  BY DEF IInv, ValuesOK, MpiOK
<1>1. r.want = [i \in 1..Size(r) |-> mem[Cell(r.buf, i)]]
  BY DEF ValuesOK, SentOK
<1>2. ASSUME NEW i \in 1..Size(r) PROVE Cell(r.buf, i) \in DOMAIN mem
  <2>1. CASE r.name \in Name
    <3>1. PICK u, n, b : u \in Name /\ n \in Neighbour /\ u = r.name /\ n = r.n /\ b = r.buf
      BY <1>0, <2>1, Sizes DEF SendOK
    <3>2. InFlight(u) /\ b = PackOf(u, n)
      BY <1>0, <2>1, <3>1, Sizes DEF SendOK, PackOf
    <3>3. i \in Part
      BY <2>1, Sizes DEF Size
    <3>4. Cell(b, i) \in DOMAIN mem
      BY <1>0, <3>1, <3>2, <3>3, FieldBuffer
    <3> QED
      BY <3>1, <3>4
  <2>2. CASE r.name = 0 /\ \E n \in 1..Len(edges.sent) : r.buf = edges.sent[n]
    <3>1. PICK b : b = r.buf
      OBVIOUS
    <3>2. Cell(b, 1) \in DOMAIN mem
      BY <1>0, <2>2, <3>1, EdgeBuffer
    <3>3. i = 1
      BY <2>2 DEF Size
    <3> QED
      BY <3>1, <3>2, <3>3
  <2> QED
    BY <1>0, <2>1, <2>2 DEF SendOK
<1>3. \A i \in 1..Size(r) : mem'[Cell(r.buf, i)] = mem[Cell(r.buf, i)]
  BY <1>0, <1>2, SendStays
<1> QED
  BY <1>1, <1>3

LEMMA NewSent ==
  ASSUME IInv, ValuesOK, [Next]_vars, NEW r \in sends', r \notin sends
  PROVE  r.want = [i \in 1..Size(r) |-> mem'[Cell(r.buf, i)]]
<1>0. /\ StreamsInv /\ EdgesOK /\ EdgesCached /\ HoldersOK /\ SidesOK /\ CellsOK /\ PackedOK
      /\ 0 \in DOMAIN queue
  BY DEF IInv, ValuesOK, StreamsInv, QueueOK
<1>1. ASSUME NEW u \in Name, Isend(u)
      PROVE  r.want = [i \in 1..Size(r) |-> mem'[Cell(r.buf, i)]]
  <2>1. PICK n \in Neighbour : n = host.k /\ host = At("isend", u, n)
    BY <1>1 DEF Isend
  <2>2. /\ r = [name |-> u, n |-> n, buf |-> obj[u].pack[n], want |-> [i \in Part |-> version[Fields[i]]]]
        /\ mem' = mem /\ get_pack_buffer(obj[u], n)
    BY <1>1, <2>1 DEF Isend
  <2>3. PICK b : b = obj[u].pack[n]
    OBVIOUS
  <2>4. r.name = u /\ r.buf = b /\ r.want = [i \in Part |-> version[Fields[i]]]
    BY <2>2, <2>3
  <2>5. Size(r) = Len(Fields)
    BY <2>4, Sizes DEF Size
  <2>6. ASSUME NEW i \in Part PROVE mem[Cell(b, i)] = version[Fields[i]]
    <3>1. host.at = "isend" /\ host.name = u /\ n >= host.k
      BY <2>1, Sizes DEF At, Neighbour
    <3>2. Gets(StreamFor(u, n, i), pack(PackOf(u, n), i, n), Cell(PackOf(u, n), i), version[Fields[i]])
      BY <1>0, <3>1 DEF PackedOK
    <3>3. InFlight(u)
      BY <1>0, <3>1, HostFlight
    <3>4. StreamFor(u, n, i) \in DOMAIN queue
      BY <1>0, <3>3, StreamForIs
    <3>5. queue[StreamFor(u, n, i)] = <<>>
      BY <2>2, <3>4 DEF get_pack_buffer, synchronized, device_idle, StreamFor
    <3>6. Queued(StreamFor(u, n, i)) = {}
      BY <3>5, NoUpdaterFacts DEF Queued
    <3> QED
      BY <2>3, <3>2, <3>6 DEF Gets, PackOf
  <2> QED
    BY <2>2, <2>4, <2>5, <2>6, Sizes
<1>2. ASSUME SendEdge
      PROVE  r.want = [i \in 1..Size(r) |-> mem'[Cell(r.buf, i)]]
  <2>1. PICK n \in Neighbour : n = host.k /\ host = At("edges", 0, n)
    BY <1>2 DEF SendEdge
  <2>2. PICK b : b = edges.sent[n]
    OBVIOUS
  <2>3. r = SentEdge(n) /\ device_idle
    BY <1>2, <2>1 DEF SendEdge
  <2>4. r.name = 0 /\ r.buf = b /\ r.want = <<version[Fields[1]]>>
    BY <2>2, <2>3 DEF SentEdge
  <2>5. Size(r) = 1
    BY <2>4 DEF Size
  <2>6. host.at = "edges" /\ host.k = n /\ host.k <= Neighbours /\ n \in 1..Len(edges.sent)
    <3>1. host.at = "edges" /\ host.k = n /\ n \in 1..Neighbours
      BY <2>1 DEF At, Neighbour
    <3> QED
      BY <1>0, <3>1, Sizes DEF EdgesOK
  <2>7. mem[Cell(b, 1)] = version[Fields[1]]
    <3>1. Gets(0, copy_in(edges.sent[n]), Cell(edges.sent[n], 1), version[Fields[1]])
      BY <1>0, <2>6 DEF PackedOK
    <3>2. Queued(0) = {}
      BY <1>0, <2>3, DeviceIdle DEF StreamsInv
    <3> QED
      BY <2>2, <3>1, <3>2 DEF Gets
  <2>8. mem'[Cell(b, 1)] = mem[Cell(b, 1)]
    <3>1. Cell(b, 1) \in DOMAIN mem
      BY <1>0, <2>2, <2>6, EdgeBuffer
    <3>2. CASE host.k < Neighbours
      <4>1. CopyEdge
        BY <1>2, <3>2 DEF SendEdge
      <4>2. Fresh("edge", 1) = 0
        BY <1>0, <1>2, <3>2, EdgePops
      <4>3. MemStays
        BY <1>0, <4>1, <4>2, NoneNew DEF CopyEdge, StreamsInv
      <4> QED
        BY <3>1, <4>3 DEF MemStays
    <3>3. CASE ~ (host.k < Neighbours)
      BY <1>2, <3>3 DEF SendEdge
    <3> QED
      BY <3>2, <3>3
  <2>9. \A i \in 1..1 : mem'[Cell(b, i)] = version[Fields[1]]
    BY <2>7, <2>8
  <2> QED
    BY <2>4, <2>5, <2>9
<1>3. ASSUME NEW u \in Name, PostAndPack(u) PROVE FALSE
  BY <1>3 DEF PostAndPack
<1>4. ~ RecvEdges
  BY DEF RecvEdges
<1> QED
  BY <1>1, <1>2, <1>3, <1>4, MpiSteps

LEMMA NextSent ==
  ASSUME IInv, ValuesOK, [Next]_vars
  PROVE  SentOK'
<1>1. ASSUME NEW r \in sends' PROVE r.want = [i \in 1..Size(r) |-> mem'[Cell(r.buf, i)]]
  BY OldSent, NewSent
<1> QED
  BY <1>1 DEF SentOK, Cell, Size

\* Who takes a receive away: its message.
LEMMA RecvSteps ==
  ASSUME [Next]_vars
  PROVE  recvs \subseteq recvs' \/ \E v \in recvs : MpiWrite(v)
<1>1. ASSUME NEW u \in Name, BeginStart(u) \/ BeginWait(u) \/ PostAndPack(u) \/ Isend(u)
                             \/ LaunchUnpack(u) \/ Create(u, TRUE) \/ Create(u, FALSE)
      PROVE  recvs \subseteq recvs'
  BY <1>1 DEF BeginStart, BeginWait, PostAndPack, Isend, LaunchUnpack, Create
<1>2. ASSUME NEW u \in Name, EndWait(u) \/ Drop(u) PROVE recvs' = recvs
  BY <1>2 DEF EndWait, Drop
<1>3. StartEdges \/ SendEdge \/ RecvEdges \/ WaitEdges => recvs \subseteq recvs'
  BY DEF StartEdges, SendEdge, RecvEdges, WaitEdges
<1>4. ASSUME NEW q \in Quantity, Compute(q) PROVE recvs' = recvs
  BY <1>4 DEF Compute
<1>5. DeviceStep \/ UNCHANGED vars => recvs' = recvs
  BY DEF DeviceStep, Run, vars
<1>6. ASSUME NEW s \in sends, MpiRead(s) PROVE recvs' = recvs
  BY <1>6 DEF MpiRead
<1> QED
  BY <1>1, <1>2, <1>3, <1>4, <1>5, <1>6 DEF Next, NewCall, HostStep, MpiStep

\* What a message carries.
LEMMA NextCarried ==
  ASSUME IInv, ValuesOK, [Next]_vars, NEW v \in recvs'
  PROVE  v.val = Exchange(v)'
<1>0. StreamsInv /\ EdgesOK /\ EdgesCached /\ UnpackOK /\ ReceivedOK
  BY DEF IInv, ValuesOK
<1>1. CASE v \in recvs /\ v.name = 0
  <2>1. v.val = edges.exch /\ RecvOK(v) /\ Pending(0) # {}
    BY <1>0, <1>1 DEF ReceivedOK, Exchange, IInv, MpiOK, Pending
  <2>2. edges.received # <<>>
    <3>1. v.n \in 1..Len(edges.received)
      BY <1>1, <2>1, Sizes DEF RecvOK
    <3> QED
      BY <3>1
  <2>3. ~ WaitEdges
    BY <2>1 DEF WaitEdges
  <2>4. ~ RecvEdges
    BY <1>0, <2>2, RecvEdgesFacts
  <2>5. ~ StartEdges
    BY <2>2 DEF StartEdges, NoEdges
  <2>6. SendEdge => FALSE
    BY <1>0, <2>2 DEF SendEdge, EdgesOK, At
  <2>7. edges' = edges
    BY <1>0, <2>3, <2>4, <2>5, <2>6, EdgeSteps
  <2> QED
    BY <1>1, <2>1, <2>7 DEF Exchange
<1>2. CASE v \in recvs /\ v.name # 0
  <2>1. PICK u : u = v.name
    OBVIOUS
  <2>2. u \in Name /\ InFlight(u) /\ Pending(u) # {} /\ v.val = obj[u].exch
    BY <1>0, <1>2, <2>1 DEF IInv, MpiOK, RecvOK, Pending, ReceivedOK, Exchange
  <2>3. obj'[u] = obj[u]
    BY <1>0, <2>2, FlightStays
  <2> QED
    BY <1>2, <2>1, <2>2, <2>3 DEF Exchange
<1>3. CASE v \notin recvs
  <2>1. ASSUME NEW u \in Name, PostAndPack(u) PROVE v.val = Exchange(v)'
    <3>1. v.name = u /\ v.val = calls
      BY <1>3, <2>1 DEF PostAndPack
    <3>2. obj'[u].exch = calls
      <4>1. u \in DOMAIN obj /\ obj[u] \in Updaters
        BY <1>0 DEF StreamsInv, Types
      <4> QED
        BY <2>1, <4>1 DEF PostAndPack, Updaters
    <3> QED
      BY <3>1, <3>2, Sizes DEF Exchange
  <2>2. ASSUME RecvEdges PROVE v.val = Exchange(v)'
    <3>1. v.name = 0 /\ v.val = edges.exch
      BY <1>3, <2>2 DEF RecvEdges
    <3>2. edges'.exch = edges.exch
      BY <1>0, <2>2 DEF RecvEdges, StreamsInv, Types
    <3> QED
      BY <3>1, <3>2 DEF Exchange
  <2>3. ASSUME NEW u \in Name, Isend(u) PROVE FALSE
    BY <1>3, <2>3 DEF Isend
  <2>4. ~ SendEdge
    BY <1>3 DEF SendEdge
  <2> QED
    BY <1>3, <2>1, <2>2, <2>3, <2>4, MpiSteps
<1> QED
  BY <1>1, <1>2, <1>3

\* The message for a receive has come: its buffer holds it.
LEMMA Arrives ==
  ASSUME IInv, ValuesOK, [Next]_vars, NEW u, NEW n, Comings(u, n) # {},
         \A v \in recvs' : v.name # u \/ v.n # n
  PROVE  \E v \in recvs : /\ v.name = u /\ v.n = n /\ RecvOK(v) /\ v.val = Exchange(v)
                          /\ MpiWrite(v)
                          /\ \A loc \in CellsOf(v.buf) : mem'[loc] = v.val
<1>1. PICK v \in recvs : v.name = u /\ v.n = n
  BY DEF Comings
<1>2. v \notin recvs'
  BY <1>1
<1>3. PICK w \in recvs : MpiWrite(w)
  BY <1>2, RecvSteps
<1>4. v = w
  BY <1>2, <1>3 DEF MpiWrite
<1>5. RecvOK(v) /\ v.val = Exchange(v)
  BY DEF IInv, MpiOK, ValuesOK, ReceivedOK
<1>6. \A loc \in CellsOf(v.buf) : mem'[loc] = v.val
  BY <1>3, <1>4, WriteMem
<1> QED
  BY <1>1, <1>3, <1>4, <1>5, <1>6

LEMMA NextFieldReceived ==
  ASSUME IInv, ValuesOK, [Next]_vars, NEW u \in Name, NEW n \in Neighbour, obj'[u].st = "inflight",
         \A v \in recvs' : v.name # u \/ v.n # n, NEW i \in Part
  PROVE  mem'[Cell(obj'[u].unpack[n], i)] = obj'[u].exch
<1>0. /\ StreamsInv /\ HoldersOK /\ SidesOK /\ CellsOK /\ ReceivedOK
      /\ NoUpdater.st = "none"
  BY NoUpdaterFacts DEF IInv, ValuesOK
<1>1. obj'[u] = obj[u]
  <2>1. ~ PostAndPack(u)
    <3>1. PostAndPack(u) => \E v \in recvs' : v.name = u /\ v.n = n
      <4>1. SUFFICES ASSUME PostAndPack(u) PROVE \E v \in recvs' : v.name = u /\ v.n = n
        OBVIOUS
      <4>2. [name |-> u, n |-> n, buf |-> obj[u].unpack[n], val |-> calls] \in recvs'
        BY <4>1 DEF PostAndPack
      <4> QED
        BY <4>2
    <3> QED
      BY <3>1
  <2> QED
    BY <1>0, <2>1, UpdaterStep
<1>2. InFlight(u)
  BY <1>1 DEF InFlight
<1> DEFINE b == UnpackOf(u, n)
<1>3. mem'[Cell(b, i)] = obj[u].exch
  <2>1. CASE Comings(u, n) = {}
    <3>1. mem[Cell(b, i)] = obj[u].exch
      BY <1>0, <1>2, <2>1 DEF ReceivedOK
    <3> QED
      BY <1>0, <1>2, <2>1, <3>1, FieldReceivedStays
  <2>2. CASE Comings(u, n) # {}
    <3>1. PICK v \in recvs : /\ v.name = u /\ v.n = n /\ RecvOK(v) /\ v.val = Exchange(v)
                             /\ \A loc \in CellsOf(v.buf) : mem'[loc] = v.val
      BY <2>2, Arrives
    <3>2. v.buf = b /\ v.val = obj[u].exch
      BY <3>1, Sizes DEF RecvOK, Exchange, UnpackOf
    <3>3. Cell(b, i) \in CellsOf(b)
      <4>1. Cell(b, i) \in DOMAIN mem
        BY <1>0, <1>2, FieldBuffer
      <4> QED
        BY <4>1, LocationKinds DEF CellsOf
    <3> QED
      BY <3>1, <3>2, <3>3
  <2> QED
    BY <2>1, <2>2
<1> QED
  BY <1>1, <1>3 DEF UnpackOf

LEMMA NextEdgeReceived ==
  ASSUME IInv, ValuesOK, [Next]_vars, NEW n \in 1..Len(edges'.received),
         \A v \in recvs' : v.name # 0 \/ v.n # n
  PROVE  mem'[Cell(edges'.received[n], 1)] = edges'.exch
<1>0. /\ StreamsInv /\ HoldersOK /\ EdgesOK /\ EdgesCached /\ SidesOK /\ CellsOK /\ ReceivedOK
      /\ Len(<<>>) = 0
  BY DEF IInv, ValuesOK
<1>1. edges'.received # <<>>
  BY <1>0
<1>2. edges' = edges
  <2>1. ~ StartEdges
    <3>1. StartEdges => edges'.received = <<>>
      BY <1>0, CopyEdgeFacts DEF StartEdges
    <3> QED
      BY <1>1, <3>1
  <2>2. SendEdge => edges' = edges
    <3>1. SUFFICES ASSUME SendEdge PROVE edges' = edges
      OBVIOUS
    <3>2. ~ (host.k < Neighbours)
      <4>1. host.k < Neighbours => edges'.received = <<>>
        BY <1>0, <3>1, CopyEdgeFacts DEF SendEdge
      <4> QED
        BY <1>1, <4>1
    <3> QED
      BY <3>1, <3>2 DEF SendEdge
  <2>3. ~ RecvEdges
    <3>1. RecvEdges => \E v \in recvs' : v.name = 0 /\ v.n = n
      <4>1. SUFFICES ASSUME RecvEdges PROVE \E v \in recvs' : v.name = 0 /\ v.n = n
        OBVIOUS
      <4>2. n \in Neighbour
        <5>1. Len(edges'.received) = Neighbours
          BY <1>0, <4>1, RecvEdgesFacts
        <5> QED
          BY <5>1 DEF Neighbour
      <4>3. PICK b : b = pop_from_cache("edge", Neighbours)[n]
        OBVIOUS
      <4>4. [name |-> 0, n |-> n, buf |-> b, val |-> edges.exch] \in recvs'
        BY <4>1, <4>2, <4>3 DEF RecvEdges
      <4> QED
        BY <4>4
    <3> QED
      BY <3>1
  <2>4. ~ WaitEdges
    <3>1. WaitEdges => edges'.received = <<>>
      BY DEF WaitEdges, NoEdges
    <3> QED
      BY <1>1, <3>1
  <2> QED
    BY <1>0, <2>1, <2>2, <2>3, <2>4, EdgeSteps
<1>3. n \in 1..Len(edges.received)
  BY <1>2
<1> DEFINE b == edges.received[n]
<1>4. mem'[Cell(b, 1)] = edges.exch
  <2>1. CASE Comings(0, n) = {}
    <3>1. mem[Cell(b, 1)] = edges.exch
      BY <1>0, <1>3, <2>1 DEF ReceivedOK
    <3> QED
      BY <1>0, <1>3, <2>1, <3>1, EdgeReceivedStays
  <2>2. CASE Comings(0, n) # {}
    <3>1. PICK v \in recvs : /\ v.name = 0 /\ v.n = n /\ RecvOK(v) /\ v.val = Exchange(v)
                             /\ \A loc \in CellsOf(v.buf) : mem'[loc] = v.val
      BY <2>2, Arrives
    <3>2. v.buf = b /\ v.val = edges.exch
      BY <3>1, Sizes DEF RecvOK, Exchange
    <3>3. Cell(b, 1) \in CellsOf(b)
      <4>1. Cell(b, 1) \in DOMAIN mem
        BY <1>0, <1>3, EdgeBuffer
      <4> QED
        BY <4>1, LocationKinds DEF CellsOf
    <3> QED
      BY <3>1, <3>2, <3>3
  <2> QED
    BY <2>1, <2>2
<1> QED
  BY <1>2, <1>4

LEMMA NextReceived ==
  ASSUME IInv, ValuesOK, [Next]_vars
  PROVE  ReceivedOK'
<1>1. \A v \in recvs' : v.val = Exchange(v)'
  BY NextCarried
<1>2. ASSUME NEW u \in Name, NEW n \in Neighbour, InFlight(u)', Comings(u, n)' = {}, NEW i \in Part
      PROVE  mem'[Cell(UnpackOf(u, n)', i)] = obj'[u].exch
  <2>1. \A v \in recvs' : v.name # u \/ v.n # n
    BY <1>2 DEF Comings
  <2>2. obj'[u].st = "inflight"
    BY <1>2 DEF InFlight
  <2> QED
    BY <2>1, <2>2, NextFieldReceived DEF UnpackOf
<1>3. ASSUME NEW n \in 1..Len(edges'.received), Comings(0, n)' = {}
      PROVE  mem'[Cell(edges'.received[n], 1)] = edges'.exch
  <2>1. \A v \in recvs' : v.name # 0 \/ v.n # n
    BY <1>3 DEF Comings
  <2> QED
    BY <2>1, NextEdgeReceived
<1> QED
  BY <1>1, <1>2, <1>3 DEF ReceivedOK, Cell

-----------------------------------------------------------------------------
(* What the halos get.                                                     *)

\* The unpacks of an updater are queued and run.
LEMMA UnpackingGoesOn ==
  ASSUME IInv, ValuesOK, [Next]_vars, host' = host, host.at = "unpack", NEW u, u = host.name,
         NEW n \in Neighbour, NEW i \in Part
  PROVE  Gets(StreamFor(u, n, i), unpack(UnpackOf(u, n), i, n),
              HaloOf(Fields[i], n), obj[u].exch)'
<1> DEFINE b == UnpackOf(u, n)
           x == obj[u].exch
           s == StreamFor(u, n, i)
           p == unpack(b, i, n)
           h == HaloOf(Fields[i], n)
<1>0. /\ StreamsInv /\ HoldersOK /\ CellsOK /\ UnpackOK /\ ReceivedOK
      /\ u \in Name /\ InFlight(u) /\ Fields[i] \in Quantity
  BY HostFlight, Sizes DEF IInv, ValuesOK, Quantity
<1>1. h \in DOMAIN mem /\ s \in DOMAIN queue
  <2>1. h \in Locations
    BY <1>0 DEF Locations, Halos
  <2> QED
    BY <1>0, <2>1, StreamForIs DEF CellsOK
<1>2. obj' = obj /\ wide' = wide
  <2>1. \A w \in Name : ~ Isend(w) /\ ~ EndWait(w)
    BY DEF Isend, EndWait, At, Ready
  <2> QED
    BY <1>0, <2>1, BusySteps, WideStays
<1>3. p \in Queued(s) \/ mem[h] = x
  BY DEF ValuesOK, HalosOK, Gets
<1>4. Writes(p) = {h}
  BY UnpackWrites
<1>5. ASSUME NEW t \in DOMAIN queue, NEW k, RunOf(t, k)
      PROVE  p \in Range(queue'[s]) \/ mem'[h] = x
  <2>1. /\ \A loc \in Writes(k) : mem'[loc] = Written(k)
        /\ \A loc \in DOMAIN mem : loc \in Writes(k) \/ mem'[loc] = mem[loc]
        /\ \A y \in Queued(s) : y \in Range(queue'[s]) \/ y = k
    BY <1>1, <1>5 DEF RunOf
  <2>2. ASSUME h \in Writes(k) PROVE Written(k) = x
    <3>1. QueuedOK(t, k) /\ k.do = "unpack"
      BY <1>5, <2>2, RunWho, WrittenBy, LocationKinds
    <3>2. PICK m \in Neighbour, j \in Part : k = unpack(UnpackOf(u, m), j, m)
      <4>1. \A c, m, j : pack(c, m, j).do # "unpack" /\ copy_in(c).do # "unpack"
        BY DEF pack, copy_in, Kernel
      <4> QED
        BY <3>1, <4>1 DEF QueuedOK, Background
    <3>3. h = HaloOf(Fields[j], m)
      BY <2>2, <3>2, UnpackWrites
    <3>4. m = n /\ Fields[j] = Fields[i]
      BY <3>3, LocationKinds
    <3>5. j = i
      BY <3>4, Sizes
    <3>6. mem[Indices(n)] = 1
      BY Settled
    <3>7. mem[Cell(b, i)] = x
      <4>1. Comings(u, n) = {}
        BY <1>0 DEF UnpackOK, Pending, Comings
      <4> QED
        BY <1>0, <4>1 DEF ReceivedOK
    <3> QED
      BY <3>2, <3>4, <3>5, <3>6, <3>7, UnpackWrites
  <2> QED
    BY <1>1, <1>3, <1>4, <2>1, <2>2
<1>6. ASSUME ~ \E t \in DOMAIN queue : \E k : RunOf(t, k)
      PROVE  p \in Range(queue'[s]) \/ mem'[h] = x
  <2>1. queue' = queue
    BY <1>0, <1>6, BusyQueue
  <2>2. h[1] = "halo" /\ \A v : h \notin CellsOf(v.buf)
    BY LocationKinds DEF CellsOf
  <2> HIDE DEF h
  <2>3. mem'[h] = mem[h]
    BY <1>0, <1>1, <1>6, <2>2, Stays
  <2> QED
    BY <1>3, <2>1, <2>3 DEF Queued
<1>7. p \in Range(queue'[s]) \/ mem'[h] = x
  BY <1>5, <1>6
<1>8. UnpackOf(u, n)' = b /\ StreamFor(u, n, i)' = s
  BY <1>2 DEF UnpackOf, StreamFor, StreamOf
<1> QED
  BY <1>2, <1>7, <1>8 DEF Gets, Queued, HaloOf, unpack, Kernel

\* The halos hold what the host expects, unless they are being unpacked.
LEMMA HalosAre ==
  ASSUME IInv, ValuesOK, [Next]_vars, host'.at # "unpack", NEW q \in Quantity, NEW n \in Neighbour
  PROVE  mem'[HaloOf(q, n)] = expected'[HaloOf(q, n)]
<1> DEFINE h == HaloOf(q, n)
<1>0. StreamsInv /\ CellsOK /\ HalosOK /\ CopiedOK
  BY DEF IInv, ValuesOK
<1>1. h \in DOMAIN mem /\ h \in DOMAIN expected
  <2>1. h \in UNION {Halos(p) : p \in Quantity}
    BY DEF Halos
  <2>2. h \in Locations
    BY <2>1 DEF Locations
  <2> QED
    BY <1>0, <2>1, <2>2 DEF CellsOK, CopiedOK
<1>2. CASE host.at = "unpack"
  <2>1. PICK u \in Name : EndWait(u)
    <3>1. \A w \in Name : ~ Isend(w)
      BY <1>2 DEF Isend, At
    <3>2. host' # host
      BY <1>2
    <3> QED
      BY <1>0, <1>2, <3>1, <3>2, BusySteps
  <2>2. host = At("unpack", u, 0) /\ mem' = mem
    BY <2>1 DEF EndWait
  <2>3. host.name = u /\ InFlight(u)
    BY <1>0, <1>2, <2>2, HostFlight DEF At
  <2>4. PICK i \in Part : q = Fields[i]
    BY DEF Quantity
  <2>5. mem[h] = obj[u].exch
    <3>1. Gets(StreamFor(u, n, i), unpack(UnpackOf(u, n), i, n), h, obj[u].exch)
      BY <1>0, <1>2, <2>3, <2>4 DEF HalosOK
    <3>2. synchronized(obj[u], n)
      BY <2>1 DEF EndWait, Finalize, KeepUpdater
    <3>3. queue[StreamFor(u, n, i)] = <<>>
      <4>1. StreamFor(u, n, i) \in DOMAIN queue
        BY <1>0, <2>3, StreamForIs
      <4> QED
        BY <3>2, <4>1 DEF synchronized, device_idle, StreamFor
    <3>4. Queued(StreamFor(u, n, i)) = {}
      BY <3>3, NoUpdaterFacts DEF Queued
    <3> QED
      BY <3>1, <3>4 DEF Gets
  <2>6. expected'[h] = obj[u].exch
    BY <2>1, EndExpects
  <2> QED
    BY <2>2, <2>5, <2>6
<1>3. CASE host.at # "unpack"
  <2>1. mem[h] = expected[h]
    BY <1>0, <1>3 DEF HalosOK
  <2>2. expected'[h] = expected[h]
    <3>1. \A u \in Name : ~ EndWait(u)
      BY <1>3 DEF EndWait, At
    <3>2. WaitEdges => expected'[h] = expected[h]
      BY <1>1, WaitExpects
    <3> QED
      BY <3>1, <3>2, ExpectedSteps
  <2>3. ASSUME NEW s \in DOMAIN queue, NEW k, RunOf(s, k), h \in Writes(k) PROVE FALSE
    <3>1. QueuedOK(s, k) /\ k.do = "unpack"
      BY <2>3, RunWho, WrittenBy, LocationKinds
    <3>2. \A c, m, j : pack(c, m, j).do # "unpack" /\ copy_in(c).do # "unpack"
      BY DEF pack, copy_in, Kernel
    <3> QED
      BY <1>3, <3>1, <3>2 DEF QueuedOK, Background
  <2>4. h[1] = "halo" /\ \A v : h \notin CellsOf(v.buf)
    BY LocationKinds DEF CellsOf
  <2> HIDE DEF h
  <2>5. mem'[h] = mem[h]
    BY <1>0, <1>1, <2>3, <2>4, Stays
  <2> QED
    BY <2>1, <2>2, <2>5 DEF h
<1> QED
  BY <1>2, <1>3

LEMMA NextHalos ==
  ASSUME IInv, ValuesOK, [Next]_vars
  PROVE  HalosOK'
<1>0. StreamsInv
  BY DEF IInv
<1>1. ASSUME host'.at = "unpack", NEW n \in Neighbour, NEW i \in Part
      PROVE  Gets(StreamFor(host.name, n, i), unpack(UnpackOf(host.name, n), i, n),
                  HaloOf(Fields[i], n), obj[host.name].exch)'
  <2>1. CASE host' = host
    <3>1. PICK u : u = host.name
      OBVIOUS
    <3>2. Gets(StreamFor(u, n, i), unpack(UnpackOf(u, n), i, n), HaloOf(Fields[i], n), obj[u].exch)'
      BY <1>1, <2>1, <3>1, UnpackingGoesOn
    <3> QED
      BY <2>1, <3>1, <3>2
  <2>2. ASSUME NEW u \in Name, LaunchUnpack(u)
        PROVE  Gets(StreamFor(host.name, n, i), unpack(UnpackOf(host.name, n), i, n),
                    HaloOf(Fields[i], n), obj[host.name].exch)'
    <3>1. host'.name = u /\ obj' = obj /\ wide' = wide
      BY <2>2 DEF LaunchUnpack, At
    <3>2. unpack(UnpackOf(u, n), i, n) \in Range(queue'[StreamFor(u, n, i)])
      BY <1>0, <2>2, AllUnpacked
    <3>3. UnpackOf(u, n)' = UnpackOf(u, n) /\ StreamFor(u, n, i)' = StreamFor(u, n, i)
      BY <3>1 DEF UnpackOf, StreamFor, StreamOf
    <3>4. Gets(StreamFor(u, n, i), unpack(UnpackOf(u, n), i, n), HaloOf(Fields[i], n), obj[u].exch)'
      BY <3>2, <3>3 DEF Gets, Queued, unpack, Kernel
    <3> QED
      BY <3>1, <3>4
  <2>3. ASSUME NEW u \in Name, Isend(u) \/ PostAndPack(u) PROVE FALSE
    BY <1>1, <2>3 DEF Isend, PostAndPack, At, Ready
  <2>4. ~ StartEdges /\ ~ SendEdge
    BY <1>1 DEF StartEdges, SendEdge, At
  <2> QED
    BY <1>1, <2>1, <2>2, <2>3, <2>4, HostSteps
<1>2. ASSUME host'.at # "unpack", NEW q \in Quantity, NEW n \in Neighbour
      PROVE  mem'[HaloOf(q, n)] = expected'[HaloOf(q, n)]
  BY <1>2, HalosAre
<1> QED
  BY <1>1, <1>2 DEF HalosOK, HaloOf

-----------------------------------------------------------------------------
(* What MPI reads.                                                         *)

\* A buffer of m parts has m cells.
LEMMA CellCount ==
  ASSUME CellsOK, NEW b \in 1..buffers, NEW m \in Nat, PartsOf(b) = 1..m
  PROVE  Cardinality(CellsOf(b)) = m
<1> DEFINE f == [i \in 1..m |-> Cell(b, i)]
           C == CellsOf(b)
<1>1. \A loc : loc \in C <=> \E i \in 1..m : loc = Cell(b, i)
  BY CellsAre
<1>2. f \in Bijection(1..m, C)
  <2>1. f \in [1..m -> C]
    BY <1>1
  <2>2. \A i, j \in 1..m : f[i] = f[j] => i = j
    BY LocationKinds
  <2>3. \A loc \in C : \E i \in 1..m : f[i] = loc
    BY <1>1
  <2> HIDE DEF f, C
  <2> QED
    BY <2>1, <2>2, <2>3 DEF Bijection, Injection, Surjection, IsInjective
<1> HIDE DEF f, C
<1>3. ExistsBijection(1..m, C)
  BY <1>2 DEF ExistsBijection
<1> QED
  BY <1>3, FS_CountingElements DEF C

LEMMA MessageSteps ==
  ASSUME [Next]_vars
  PROVE  message' = message \/ \E s \in sends : MpiRead(s)
<1>1. ASSUME NEW u \in Name, BeginStart(u) \/ BeginWait(u) \/ PostAndPack(u) \/ Isend(u)
                             \/ LaunchUnpack(u) \/ Create(u, TRUE) \/ Create(u, FALSE)
      PROVE  message' = message
  BY <1>1 DEF BeginStart, BeginWait, PostAndPack, Isend, LaunchUnpack, Create
<1>2. ASSUME NEW u \in Name, EndWait(u) \/ Drop(u) PROVE message' = message
  BY <1>2 DEF EndWait, Drop
<1>3. StartEdges \/ SendEdge \/ RecvEdges \/ WaitEdges => message' = message
  BY DEF StartEdges, SendEdge, RecvEdges, WaitEdges
<1>4. ASSUME NEW q \in Quantity, Compute(q) PROVE message' = message
  BY <1>4 DEF Compute
<1>5. DeviceStep \/ UNCHANGED vars => message' = message
  BY DEF DeviceStep, Run, vars
<1>6. ASSUME NEW v \in recvs, MpiWrite(v) PROVE message' = message
  BY <1>6 DEF MpiWrite
<1> QED
  BY <1>1, <1>2, <1>3, <1>4, <1>5, <1>6 DEF Next, NewCall, HostStep, MpiStep

\* The content of a buffer that is sent.
LEMMA ReadAsWanted ==
  ASSUME IInv, ValuesOK, NEW s \in sends
  PROVE  Content(s.buf) = s.want
<1>0. /\ StreamsInv /\ HoldersOK /\ SidesOK /\ CellsOK /\ SendOK(s)
      /\ s.want = [i \in 1..Size(s) |-> mem[Cell(s.buf, i)]]
  BY DEF IInv, ValuesOK, MpiOK, SentOK
<1>1. s.buf \in 1..buffers /\ Size(s) \in Nat /\ PartsOf(s.buf) = 1..Size(s)
  <2>1. CASE s.name \in Name
    <3>1. PICK u, n, b : u \in Name /\ n \in Neighbour /\ u = s.name /\ n = s.n /\ b = s.buf
      BY <1>0, <2>1, Sizes DEF SendOK
    <3>2. InFlight(u) /\ b = PackOf(u, n)
      BY <1>0, <2>1, <3>1, Sizes DEF SendOK, PackOf
    <3>3. b \in 1..buffers /\ PartsOf(b) = Part
      BY <1>0, <3>1, <3>2, FieldBuffer
    <3> QED
      BY <2>1, <3>1, <3>3, Sizes DEF Size
  <2>2. CASE s.name = 0 /\ \E n \in 1..Len(edges.sent) : s.buf = edges.sent[n]
    <3>1. PICK b : b = s.buf
      OBVIOUS
    <3>2. b \in 1..buffers /\ PartsOf(b) = {1}
      BY <1>0, <2>2, <3>1, EdgeBuffer
    <3>3. Size(s) = 1 /\ {1} = 1..1
      BY <2>2 DEF Size
    <3> QED
      BY <3>1, <3>2, <3>3
  <2> QED
    BY <1>0, <2>1, <2>2 DEF SendOK
<1>2. PICK b \in 1..buffers, m \in Nat : b = s.buf /\ m = Size(s)
  BY <1>1
<1>3. Cardinality(CellsOf(b)) = m
  BY <1>0, <1>1, <1>2, CellCount
<1> QED
  BY <1>0, <1>2, <1>3 DEF Content

LEMMA NextSentAsStarted ==
  ASSUME IInv, ValuesOK, [Next]_vars
  PROVE  SentAsStarted'
<1>1. ASSUME NEW s \in sends, MpiRead(s) PROVE SentAsStarted'
  <2>1. message' = [content |-> Content(s.buf), want |-> s.want]
    BY <1>1 DEF MpiRead
  <2>2. Content(s.buf) = s.want
    BY ReadAsWanted
  <2> QED
    BY <2>1, <2>2 DEF SentAsStarted
<1>2. ASSUME message' = message PROVE SentAsStarted'
  BY <1>2 DEF ValuesOK, SentAsStarted
<1> QED
  BY <1>1, <1>2, MessageSteps

-----------------------------------------------------------------------------
(* The invariant.                                                          *)

LEMMA InitValues == Init /\ EdgesCached => ValuesOK
<1> SUFFICES ASSUME Init, EdgesCached PROVE ValuesOK
  OBVIOUS
<1> DEFINE H == UNION {Halos(q) : q \in Quantity}
<1>1. /\ host = Ready /\ obj = [u \in Name |-> NoUpdater] /\ edges = NoEdges
      /\ cache = [halo |-> <<>>, edge |-> [b \in 1..EdgeBuffers |-> b]]
      /\ buffers = EdgeBuffers /\ queue = [s \in {0} |-> <<>>] /\ sends = {} /\ recvs = {}
      /\ version = [q \in Quantity |-> 0]
      /\ mem = [loc \in Locations \union CachedCells |-> 0]
      /\ expected = [loc \in H \union Edges |-> 0]
      /\ message = [content |-> <<>>, want |-> <<>>]
  BY DEF Init
<1>2. /\ EdgeBuffers \in Nat /\ edges.sent = <<>> /\ edges.received = <<>> /\ <<>> \o <<>> = <<>>
      /\ Len(<<>>) = 0 /\ Queued(0) = {} /\ host.at = "ready" /\ queue[0] = <<>>
  BY <1>1, Sizes, NoUpdaterFacts DEF NoEdges, Queued, Ready
<1>3. SidesOK
  <2>1. PICK c : c = [b \in 1..EdgeBuffers |-> b]
    OBVIOUS
  <2>2. Range(c) \subseteq 1..EdgeBuffers
    BY <2>1 DEF Range
  <2>3. cache.edge = c /\ cache.halo = <<>>
    BY <1>1, <2>1
  <2>4. \A u \in Name : Range(Held(obj[u])) = {}
    BY <1>1, NoUpdaterFacts
  <2> QED
    BY <1>1, <1>2, <2>2, <2>3, <2>4, NoUpdaterFacts DEF SidesOK
<1>4. CellsOK
  <2>1. DOMAIN mem = Locations \union CachedCells
    BY <1>1
  <2>2. ASSUME NEW b \in 1..buffers PROVE PartsOf(b) = {1} /\ Cell(b, 1) \in CachedCells
    BY <1>1, <1>2, <2>2 DEF PartsOf, CachedCells
  <2>3. ASSUME NEW loc \in Locations PROVE loc[1] # "buffer"
    BY DEF Locations, Halos, Edges, Interior, HaloOf, EdgeOf
  <2>4. ASSUME NEW loc \in CachedCells PROVE \E b \in 1..buffers : loc = Cell(b, 1)
    BY <1>1 DEF CachedCells
  <2> QED
    BY <2>1, <2>2, <2>3, <2>4 DEF CellsOK
<1>5. /\ \A q \in Quantity : Interior(q) \in Locations
      /\ \A q \in Quantity, n \in Neighbour : HaloOf(q, n) \in Locations /\ HaloOf(q, n) \in H
      /\ \A n \in Neighbour : EdgeOf(n) \in Locations /\ EdgeOf(n) \in Edges
  BY DEF Locations, Halos, Edges
<1>6. RecallsOK /\ InteriorOK
  BY <1>1, <1>2, <1>5 DEF RecallsOK, InteriorOK, Comes
<1>7. UploadOK
  <2>1. Indices(1) \notin Locations
    BY DEF Locations, Halos, Edges, Interior, HaloOf, EdgeOf, Indices
  <2>2. Indices(1) \notin CachedCells
    BY DEF CachedCells, Cell, Indices
  <2> QED
    BY <1>1, <2>1, <2>2 DEF UploadOK
<1>8. PackedOK /\ SentOK
  BY <1>1, <1>2 DEF PackedOK, SentOK
<1>9. ReceivedOK
  <2>1. \A u \in Name : ~ InFlight(u)
    BY <1>1, NoUpdaterFacts DEF InFlight
  <2> QED
    BY <1>1, <1>2, <2>1 DEF ReceivedOK
<1>10. HalosOK
  BY <1>1, <1>2, <1>5 DEF HalosOK
<1>11. CopiedOK
  BY <1>1, <1>5 DEF CopiedOK
<1>12. SentAsStarted /\ version \in [Quantity -> Nat]
  BY <1>1 DEF SentAsStarted
<1> QED
  BY <1>3, <1>4, <1>6, <1>7, <1>8, <1>9, <1>10, <1>11, <1>12 DEF ValuesOK

LEMMA NextValues == IInv /\ ValuesOK /\ [Next]_vars => ValuesOK'
<1> SUFFICES ASSUME IInv, ValuesOK, [Next]_vars PROVE ValuesOK'
  OBVIOUS
<1>1. version' \in [Quantity -> Nat]
  <2>1. version \in [Quantity -> Nat]
    BY DEF ValuesOK
  <2>2. ASSUME NEW q \in Quantity, Compute(q) PROVE version' \in [Quantity -> Nat]
    BY <2>1, <2>2 DEF Compute
  <2> QED
    BY <2>1, <2>2, VersionSteps
<1>2. SidesOK' /\ CellsOK'
  BY NextSides, NextCells DEF IInv, ValuesOK
<1>3. RecallsOK' /\ InteriorOK' /\ UploadOK'
  BY NextRecalls, NextInterior, NextUpload
<1>4. PackedOK' /\ SentOK' /\ ReceivedOK'
  BY NextPacked, NextSent, NextReceived
<1>5. HalosOK' /\ CopiedOK' /\ SentAsStarted'
  BY NextHalos, NextCopied, NextSentAsStarted
<1> QED
  BY <1>1, <1>2, <1>3, <1>4, <1>5 DEF ValuesOK

\* The halos and edges that nothing queued still writes.
LEMMA HalosKept == ValuesOK => HalosOfLastExchange
<1> SUFFICES ASSUME ValuesOK, host = Ready, NEW loc \in DOMAIN expected,
                    \A i \in DOMAIN queue[0] : loc \notin Writes(queue[0][i])
             PROVE  mem[loc] = expected[loc]
  BY DEF HalosOfLastExchange
<1>0. HalosOK /\ CopiedOK /\ host.at = "ready"
  BY DEF ValuesOK, Ready
<1>1. loc \in (UNION {Halos(q) : q \in Quantity}) \union Edges
  BY <1>0 DEF CopiedOK
<1>2. CASE \E q \in Quantity, n \in Neighbour : loc = HaloOf(q, n)
  BY <1>0, <1>2 DEF HalosOK
<1>3. CASE \E n \in Neighbour : loc = EdgeOf(n)
  <2>1. PICK n \in Neighbour : loc = EdgeOf(n)
    BY <1>3
  <2>2. ASSUME NEW k \in Queued(0), k.do = "copy_out", k.n = n PROVE FALSE
    <3>1. PICK i \in DOMAIN queue[0] : k = queue[0][i]
      BY DEF Queued, Range
    <3>2. Writes(k) = {EdgeOf(n)}
      BY <2>2 DEF Writes
    <3> QED
      BY <2>1, <3>1, <3>2
  <2> QED
    BY <1>0, <2>1, <2>2 DEF CopiedOK
<1> QED
  BY <1>1, <1>2, <1>3 DEF Halos, Edges

(***************************************************************************)
(* MPI sends the fields as they were when the program called start, and    *)
(* the edges as they were when it called for their exchange, whatever      *)
(* kernels of the model are still queued then and whichever are launched   *)
(* before the message is read: for any number of updaters, fields,         *)
(* neighbours and calls, on both paths of the synchronization.             *)
(***************************************************************************)
THEOREM MessagesAreAsStarted == EdgesCached /\ Spec => []SentAsStarted
<1>1. Init /\ EdgesCached => IInv /\ ValuesOK
  BY InitRace, InitValues
<1>2. (IInv /\ ValuesOK) /\ [Next]_vars => (IInv /\ ValuesOK)'
  BY NextIInv, NextValues
<1>3. ValuesOK => SentAsStarted
  BY DEF ValuesOK
<1> QED
  BY <1>1, <1>2, <1>3, PTL DEF Spec

(***************************************************************************)
(* When the host is between calls, every halo and every shared edge that   *)
(* no queued kernel is still to write holds what the last exchange that    *)
(* the program waited for brought there: no unpacking is late, and none    *)
(* reads a buffer before its message or after its next use.                *)
(***************************************************************************)
THEOREM HalosAreOfLastExchange == EdgesCached /\ Spec => []HalosOfLastExchange
<1>1. Init /\ EdgesCached => IInv /\ ValuesOK
  BY InitRace, InitValues
<1>2. (IInv /\ ValuesOK) /\ [Next]_vars => (IInv /\ ValuesOK)'
  BY NextIInv, NextValues
<1>3. ValuesOK => HalosOfLastExchange
  BY HalosKept
<1> QED
  BY <1>1, <1>2, <1>3, PTL DEF Spec
=============================================================================
