----------------------- MODULE HaloRefinement_proofs -----------------------
(***************************************************************************)
(* The halo exchanges of module HaloExchange implement module HaloSpec,    *)
(* and leave nothing in MPI, for any set of ranks, any topology that       *)
(* satisfies TopologyAssumption and any bounds.                            *)
(*                                                                         *)
(* Module HaloExchange_proofs relates the state of a rank to the history   *)
(* of the program.  Here every request and every message is related to the *)
(* exchange it belongs to: its number on its channel is the one the        *)
(* history gives for that exchange, so a send and a receive that MPI       *)
(* matches belong to the same exchange of the two ranks.  Once this is     *)
(* invariant the steps map to those of HaloSpec.                           *)
(***************************************************************************)
EXTENDS HaloExchange_proofs

-----------------------------------------------------------------------------
(* What requests and messages carry.                                       *)

\* A pending send carries the exchange of its updater.
SendCarries(H, s) ==
  LET o == obj[s.src][s.name]
  IN  /\ \E i \in DOMAIN Out[o.kind][s.src] :
           s.dst = Out[o.kind][s.src][i] /\ s.buf = o.bufs[i]
      /\ s.tag = o.tag
      /\ s.seq = H.count[o.exch][s.src][s.dst][s.tag]
      /\ mem[s.src][s.buf] = Abstract!Published(s.src, s.dst, o.exch)

\* A pending receive waits for the exchange of its updater.
RecvCarries(H, v) ==
  LET o == obj[v.dst][v.name]
  IN  /\ \E j \in DOMAIN In[o.kind][v.dst] :
           v.src = In[o.kind][v.dst][j] /\ v.buf = o.bufs[NumOut(v.dst, o.kind) + j]
      /\ v.tag = o.tag
      /\ v.seq = H.count[ExchangeOf(v.dst, v.name)][v.src][v.dst][v.tag]

\* A message in the wire carries an exchange its source has started.
MessageCarries(H, w) ==
  \E e \in DOMAIN halo[w.src] :
    /\ Link(H, e, w.src, w.dst, w.tag)
    /\ w.seq = H.count[e][w.src][w.dst][w.tag]
    /\ w.val = Abstract!Published(w.src, w.dst, e)

Carries(H) ==
  /\ \A s \in sends : SendCarries(H, s)
  /\ \A v \in recvs : RecvCarries(H, v)
  /\ \A w \in wire : MessageCarries(H, w)

\* The j-th unpack buffer of an updater, and what it waits for or holds.
Slot(r, n, j) == obj[r][n].bufs[NumOut(r, obj[r][n].kind) + j]
SlotOK(r, n, j) ==
  \/ \E v \in recvs : v.dst = r /\ v.name = n /\ v.buf = Slot(r, n, j)
  \/ LET q == In[obj[r][n].kind][r][j]
         e == ExchangeOf(r, n)
     IN  mem[r][Slot(r, n, j)] = Abstract!Published(q, r, e) /\ e <= Len(halo[q])

Delivered ==
  \A r \in Rank, n \in Name : Live(r, n) =>
    \A j \in DOMAIN In[obj[r][n].kind][r] : SlotOK(r, n, j)

\* An exchange that is complete was started by its neighbours; one that is
\* not is in flight.
Completes(r, e) ==
  IF halo[r][e].done
  THEN /\ \A j \in DOMAIN In[halo[r][e].kind][r] : e <= Len(halo[In[halo[r][e].kind][r][j]])
       /\ \A n \in Name : obj[r][n].st = "inflight" => obj[r][n].exch # e
  ELSE \E n \in Name : obj[r][n].st = "inflight" /\ obj[r][n].exch = e

Completion == \A r \in Rank : \A e \in DOMAIN halo[r] : Completes(r, e)

\* A message that was sent has not been received.
Awaited(m) == m.seq > nrecv[m.dst][m.src][m.tag] \/ \E v \in recvs : Matches(m, v)
NoneTwice ==
  /\ \A s \in sends : Awaited(s)
  /\ \A w \in wire : Awaited(w)
  /\ \A s \in sends, w \in wire : ~ Matches(s, w)

Messages(H) == Carries(H) /\ Delivered /\ Completion /\ NoneTwice

\* The inductive invariant for a history.
HInv(H) ==
  HistoryOK(H) /\ HeldOK(H) /\ (\A r \in Rank : Follows(H, r)) /\ Messages(H)

\* An updater in flight holds an exchange of its own, with its pattern and tag.
LEMMA LiveExchange ==
  ASSUME IInv, NEW H, HistoryOK(H), NEW r \in Rank, Follows(H, r), NEW n \in Name, Live(r, n)
  PROVE  /\ ExchangeOf(r, n) \in 1..H.num[Len(script)]
         /\ ExchangeOf(r, n) <= H.num[Posted(r)]
         /\ H.kind[ExchangeOf(r, n)] = obj[r][n].kind
         /\ H.label[ExchangeOf(r, n)] = obj[r][n].tag
         /\ \A m \in Name : Live(r, m) /\ ExchangeOf(r, m) = ExchangeOf(r, n) => m = n
<1>1. /\ Posted(r) \in 0..Len(script)
      /\ \A m \in Name : Seen(r, m) = H.view[Posted(r)][m]
  <2>1. pc[r] \in Nat /\ Len(script) \in Nat
    BY InvParts DEF Types
  <2>2. Posted(r) \in Nat
    BY <2>1 DEF Posted
  <2> QED
    BY <2>1, <2>2 DEF Follows, FollowsCalls, FollowsViews
<1>2. ASSUME NEW m \in Name, Live(r, m)
      PROVE  /\ H.view[Posted(r)][m].st = "inflight"
             /\ H.view[Posted(r)][m].exch = ExchangeOf(r, m)
             /\ H.view[Posted(r)][m].kind = obj[r][m].kind
             /\ H.view[Posted(r)][m].tag = obj[r][m].tag
  <2>1. Seen(r, m) = H.view[Posted(r)][m]
    BY <1>1
  <2> QED
    BY <1>2, <2>1 DEF Seen, View
<1>3. ViewOK(H, Posted(r)) /\ H.num[Posted(r)] <= H.num[Len(script)]
  BY <1>1 DEF HistoryOK, CallsOK
<1>4. H.num[Posted(r)] \in Nat /\ H.num[Len(script)] \in Nat
  <2>1. Posted(r) \in Nat /\ Len(script) \in Nat
    BY <1>1, InvParts DEF Types
  <2> QED
    BY <2>1, HistoryTypes DEF HistoryOK
<1>5. /\ ExchangeOf(r, n) \in 1..H.num[Posted(r)]
      /\ H.kind[ExchangeOf(r, n)] = obj[r][n].kind
      /\ H.label[ExchangeOf(r, n)] = obj[r][n].tag
  BY <1>2, <1>3 DEF ViewOK
<1>6. ASSUME NEW m \in Name, Live(r, m), ExchangeOf(r, m) = ExchangeOf(r, n)
      PROVE  m = n
  BY <1>2, <1>3, <1>6 DEF ViewOK
<1> QED
  BY <1>3, <1>4, <1>5, <1>6

\* The exchanges of a rank are among those of the history.
LEMMA StartedExchange ==
  ASSUME IInv, NEW H, HistoryOK(H), NEW r \in Rank, Follows(H, r)
  PROVE  /\ Len(halo[r]) \in Nat /\ Len(halo[r]) = H.num[pc[r]]
         /\ DOMAIN halo[r] = 1..Len(halo[r])
         /\ H.num[Len(script)] \in Nat /\ Len(halo[r]) <= H.num[Len(script)]
<1>1. Types
  BY InvParts
<1>2. pc[r] \in Nat /\ Len(script) \in Nat
  BY <1>1 DEF Types
<1>3. halo[r] \in Seq([kind : Kind, done : BOOLEAN, got : Seq(Message)])
  BY <1>1 DEF Types
<1>4. Len(halo[r]) \in Nat /\ DOMAIN halo[r] = 1..Len(halo[r])
  BY <1>3
<1>5. pc[r] \in 0..Len(script) /\ Len(halo[r]) = H.num[pc[r]]
  BY <1>2 DEF Follows, FollowsCalls, Posted
<1>6. H.num[pc[r]] <= H.num[Len(script)]
  BY <1>5 DEF HistoryOK, CallsOK
<1>7. H.num[Len(script)] \in Nat
  BY <1>2, HistoryTypes DEF HistoryOK
<1> QED
  BY <1>4, <1>5, <1>6, <1>7

\* The exchange that a send, a receive or a message in the wire stands for.
LEMMA SendExchange ==
  ASSUME IInv, NEW H, HistoryOK(H), \A q \in Rank : Follows(H, q), NEW s \in sends,
         SendCarries(H, s), NEW e, e = obj[s.src][s.name].exch
  PROVE  /\ s.src \in Rank /\ s.dst \in Rank /\ s.tag \in Tag /\ s.seq \in Nat
         /\ s.name \in Name /\ Live(s.src, s.name) /\ ExchangeOf(s.src, s.name) = e
         /\ e \in DOMAIN halo[s.src] /\ e \in 1..H.num[Len(script)]
         /\ Link(H, e, s.src, s.dst, s.tag)
         /\ s.seq = H.count[e][s.src][s.dst][s.tag]
<1> DEFINE o == obj[s.src][s.name]
<1>0. Types /\ PoolOK /\ ObjectShape /\ RequestsOwn
  BY InvParts
<1>1. /\ s.src \in Rank /\ s.dst \in Rank /\ s.tag \in Tag /\ s.seq \in Nat
      /\ s.name \in Name /\ o.st = "inflight"
  BY <1>0, RequestTypes DEF RequestsOwn
<1>2. e \in DOMAIN halo[s.src] /\ o.kind \in Kind
  BY <1>0, <1>1, ObjectFacts
<1>3. Live(s.src, s.name) /\ ExchangeOf(s.src, s.name) = e
  BY <1>1 DEF Live, ExchangeOf
<1>4. /\ e \in 1..H.num[Len(script)]
      /\ H.kind[e] = o.kind /\ H.label[e] = o.tag
  BY <1>1, <1>3, LiveExchange
<1>5. /\ s.dst \in Range(Out[o.kind][s.src]) /\ s.tag = o.tag
      /\ s.seq = H.count[e][s.src][s.dst][s.tag]
  BY DEF SendCarries, Range
<1> QED
  BY <1>1, <1>2, <1>3, <1>4, <1>5 DEF Link

LEMMA RecvExchange ==
  ASSUME IInv, NEW H, HistoryOK(H), \A q \in Rank : Follows(H, q), NEW v \in recvs,
         RecvCarries(H, v), NEW e, e = ExchangeOf(v.dst, v.name)
  PROVE  /\ v.src \in Rank /\ v.dst \in Rank /\ v.tag \in Tag /\ v.seq \in Nat
         /\ v.name \in Name /\ Live(v.dst, v.name)
         /\ e \in 1..H.num[Len(script)] /\ e <= H.num[Posted(v.dst)]
         /\ Link(H, e, v.src, v.dst, v.tag)
         /\ v.seq = H.count[e][v.src][v.dst][v.tag]
<1> DEFINE o == obj[v.dst][v.name]
<1>0. Types /\ PoolOK /\ ObjectShape /\ RequestsOwn
  BY InvParts
<1>1. /\ v.src \in Rank /\ v.dst \in Rank /\ v.name \in Name
      /\ o.st \in {"packing", "inflight"}
  BY <1>0, RequestTypes DEF RequestsOwn
<1>2. v.tag \in Tag /\ v.seq \in Nat
  BY <1>0 DEF Types, Request
<1>3. Live(v.dst, v.name)
  BY <1>1 DEF Live
<1>4. /\ e \in 1..H.num[Len(script)] /\ e <= H.num[Posted(v.dst)]
      /\ H.kind[e] = o.kind /\ H.label[e] = o.tag
  BY <1>1, <1>3, LiveExchange
<1>5. /\ v.src \in Range(In[o.kind][v.dst]) /\ v.tag = o.tag
      /\ v.seq = H.count[e][v.src][v.dst][v.tag]
  BY DEF RecvCarries, Range
<1>6. v.dst \in Range(Out[o.kind][v.src])
  <2>1. o.kind \in Kind
    BY <1>0, <1>1, ObjectFacts
  <2> QED
    BY <1>1, <1>5, <2>1, TopologyAssumption
<1> QED
  BY <1>1, <1>2, <1>3, <1>4, <1>5, <1>6 DEF Link

LEMMA WireExchange ==
  ASSUME IInv, NEW H, HistoryOK(H), \A q \in Rank : Follows(H, q), NEW w \in wire,
         MessageCarries(H, w)
  PROVE  /\ w.src \in Rank /\ w.dst \in Rank /\ w.tag \in Tag /\ w.seq \in Nat
         /\ \E e \in DOMAIN halo[w.src] :
              /\ e \in 1..H.num[Len(script)] /\ e <= Len(halo[w.src])
              /\ Link(H, e, w.src, w.dst, w.tag)
              /\ w.seq = H.count[e][w.src][w.dst][w.tag]
              /\ w.val = Abstract!Published(w.src, w.dst, e)
<1>1. w.src \in Rank /\ w.dst \in Rank /\ w.tag \in Tag /\ w.seq \in Nat
  BY InvParts DEF Types
<1>2. PICK e \in DOMAIN halo[w.src] :
        /\ Link(H, e, w.src, w.dst, w.tag)
        /\ w.seq = H.count[e][w.src][w.dst][w.tag]
        /\ w.val = Abstract!Published(w.src, w.dst, e)
  BY DEF MessageCarries
<1>3. /\ Len(halo[w.src]) \in Nat /\ DOMAIN halo[w.src] = 1..Len(halo[w.src])
      /\ H.num[Len(script)] \in Nat /\ Len(halo[w.src]) <= H.num[Len(script)]
  BY <1>1, StartedExchange
<1>4. e \in 1..H.num[Len(script)] /\ e <= Len(halo[w.src])
  BY <1>3
<1> QED
  BY <1>1, <1>2, <1>4

\* Two exchanges at the same place on a channel are the same exchange.
LEMMA SamePlace ==
  ASSUME IInv, NEW H, HistoryOK(H), NEW a \in Rank, NEW b \in Rank, NEW t \in Tag,
         NEW e \in 1..H.num[Len(script)], NEW f \in 1..H.num[Len(script)],
         Link(H, e, a, b, t), Link(H, f, a, b, t),
         H.count[e][a][b][t] = H.count[f][a][b][t]
  PROVE  e = f
<1> DEFINE last == H.num[Len(script)]
<1>1. last \in Nat /\ H \in Histories /\ CountsOK(H, last)
  <2>1. Len(script) \in Nat
    BY InvParts DEF Types
  <2> QED
    BY <2>1, HistoryTypes DEF HistoryOK
<1> HIDE DEF last
<1>2. e \in 1..last /\ f \in 1..last /\ e \in 0..last /\ f \in 0..last
  BY <1>1 DEF last
<1>3. H.count[e][a][b][t] \in Nat /\ H.count[f][a][b][t] \in Nat
  BY <1>1, <1>2, HistoryTypes
<1>4. f < e <=> H.count[f][a][b][t] < H.count[e][a][b][t]
  BY <1>1, <1>2, SameExchange
<1>5. e < f <=> H.count[e][a][b][t] < H.count[f][a][b][t]
  BY <1>1, <1>2, SameExchange
<1> QED
  BY <1>1, <1>2, <1>3, <1>4, <1>5

\* A send and a receive that match are of the same exchange, as are a message
\* in the wire and its receive.
LEMMA MatchingSend ==
  ASSUME IInv, NEW H, HistoryOK(H), \A q \in Rank : Follows(H, q),
         NEW s \in sends, SendCarries(H, s), NEW v \in recvs, RecvCarries(H, v), Matches(s, v)
  PROVE  obj[s.src][s.name].exch = ExchangeOf(v.dst, v.name)
<1> DEFINE e == obj[s.src][s.name].exch
           f == ExchangeOf(v.dst, v.name)
<1>1. /\ s.src \in Rank /\ s.dst \in Rank /\ s.tag \in Tag
      /\ e \in 1..H.num[Len(script)] /\ Link(H, e, s.src, s.dst, s.tag)
      /\ s.seq = H.count[e][s.src][s.dst][s.tag]
  BY SendExchange
<1>2. /\ f \in 1..H.num[Len(script)] /\ Link(H, f, v.src, v.dst, v.tag)
      /\ v.seq = H.count[f][v.src][v.dst][v.tag]
  BY RecvExchange
<1> HIDE DEF e, f
<1>3. e = f
  BY <1>1, <1>2, SamePlace DEF Matches
<1> QED
  BY <1>3 DEF e, f

LEMMA MatchingMessage ==
  ASSUME IInv, NEW H, HistoryOK(H), \A q \in Rank : Follows(H, q),
         NEW w \in wire, MessageCarries(H, w), NEW v \in recvs, RecvCarries(H, v), Matches(w, v),
         NEW f, f = ExchangeOf(v.dst, v.name)
  PROVE  w.val = Abstract!Published(v.src, v.dst, f) /\ f <= Len(halo[v.src])
<1>1. /\ w.src \in Rank /\ w.dst \in Rank /\ w.tag \in Tag
  BY WireExchange
<1>2. PICK e \in DOMAIN halo[w.src] :
        /\ e \in 1..H.num[Len(script)] /\ e <= Len(halo[w.src])
        /\ Link(H, e, w.src, w.dst, w.tag)
        /\ w.seq = H.count[e][w.src][w.dst][w.tag]
        /\ w.val = Abstract!Published(w.src, w.dst, e)
  BY WireExchange
<1>3. /\ f \in 1..H.num[Len(script)] /\ Link(H, f, v.src, v.dst, v.tag)
      /\ v.seq = H.count[f][v.src][v.dst][v.tag]
  BY RecvExchange
<1>4. e = f
  BY <1>1, <1>2, <1>3, SamePlace DEF Matches
<1> QED
  BY <1>2, <1>4 DEF Matches

\* Two pending sends with the same channel, tag and place are the same send.
LEMMA SendsDiffer ==
  ASSUME IInv, NEW H, HistoryOK(H), \A q \in Rank : Follows(H, q),
         NEW s \in sends, NEW t \in sends, SendCarries(H, s), SendCarries(H, t), Matches(s, t)
  PROVE  s = t
<1> DEFINE e == obj[s.src][s.name].exch
           f == obj[t.src][t.name].exch
           o == obj[s.src][s.name]
<1>0. Types /\ PoolOK /\ ObjectShape /\ RequestsOwn
  BY InvParts
<1>1. /\ s.src \in Rank /\ s.dst \in Rank /\ s.tag \in Tag /\ s.name \in Name
      /\ e \in 1..H.num[Len(script)] /\ Link(H, e, s.src, s.dst, s.tag)
      /\ s.seq = H.count[e][s.src][s.dst][s.tag]
      /\ Live(s.src, s.name) /\ ExchangeOf(s.src, s.name) = e
  BY SendExchange
<1>2. /\ f \in 1..H.num[Len(script)] /\ Link(H, f, t.src, t.dst, t.tag)
      /\ t.seq = H.count[f][t.src][t.dst][t.tag] /\ t.name \in Name
      /\ Live(t.src, t.name) /\ ExchangeOf(t.src, t.name) = f
  BY SendExchange
<1>3. t.src = s.src /\ t.dst = s.dst /\ t.tag = s.tag /\ t.seq = s.seq
  BY DEF Matches
<1> HIDE DEF e, f
<1>4. e = f
  BY <1>1, <1>2, <1>3, SamePlace
<1>5. t.name = s.name
  BY <1>1, <1>2, <1>3, <1>4, LiveExchange
<1>6. t.buf = s.buf
  <2>1. PICK i \in DOMAIN Out[o.kind][s.src] : s.dst = Out[o.kind][s.src][i] /\ s.buf = o.bufs[i]
    BY DEF SendCarries
  <2>2. PICK i2 \in DOMAIN Out[o.kind][s.src] :
          t.dst = Out[o.kind][s.src][i2] /\ t.buf = o.bufs[i2]
    BY <1>3, <1>5 DEF SendCarries
  <2>3. o.kind \in Kind
    BY <1>0, <1>1, ObjectFacts
  <2>4. IsInjective(Out[o.kind][s.src])
    BY <1>1, <2>3, TopologyAssumption
  <2>5. i = i2
    BY <1>3, <2>1, <2>2, <2>4 DEF IsInjective
  <2> QED
    BY <2>1, <2>2, <2>5
<1> QED
  BY <1>0, <1>3, <1>5, <1>6 DEF RequestsOwn

\* The same holds of messages in the wire.
LEMMA MessagesDiffer ==
  ASSUME IInv, NEW H, HistoryOK(H), \A q \in Rank : Follows(H, q),
         NEW w \in wire, NEW x \in wire, MessageCarries(H, w), MessageCarries(H, x), Matches(w, x)
  PROVE  w = x
<1>1. w.src \in Rank /\ w.dst \in Rank /\ w.tag \in Tag
  BY WireExchange
<1>2. PICK e \in DOMAIN halo[w.src] :
        /\ e \in 1..H.num[Len(script)] /\ Link(H, e, w.src, w.dst, w.tag)
        /\ w.seq = H.count[e][w.src][w.dst][w.tag]
        /\ w.val = Abstract!Published(w.src, w.dst, e)
  BY WireExchange
<1>3. PICK f \in DOMAIN halo[x.src] :
        /\ f \in 1..H.num[Len(script)] /\ Link(H, f, x.src, x.dst, x.tag)
        /\ x.seq = H.count[f][x.src][x.dst][x.tag]
        /\ x.val = Abstract!Published(x.src, x.dst, f)
  BY WireExchange
<1>4. e = f
  BY <1>1, <1>2, <1>3, SamePlace DEF Matches
<1>5. w.val = x.val
  BY <1>2, <1>3, <1>4 DEF Matches
<1>6. /\ w \in [src : Rank, dst : Rank, tag : Tag, seq : Nat, val : Message]
      /\ x \in [src : Rank, dst : Rank, tag : Tag, seq : Nat, val : Message]
  BY InvParts DEF Types
<1> QED
  BY <1>5, <1>6 DEF Matches

-----------------------------------------------------------------------------
(* Requests, messages and exchanges that a step leaves alone.              *)

LEMMA SendStill ==
  ASSUME NEW H, NEW s \in sends, SendCarries(H, s), s \in sends', Stable,
         obj'[s.src][s.name] = obj[s.src][s.name]
  PROVE  SendCarries(H, s)'
<1>1. mem'[s.src][s.buf] = mem[s.src][s.buf]
  BY DEF Stable
<1> QED
  BY <1>1 DEF SendCarries

LEMMA RecvStill ==
  ASSUME NEW H, NEW v, RecvCarries(H, v),
         obj'[v.dst][v.name].kind = obj[v.dst][v.name].kind,
         obj'[v.dst][v.name].bufs = obj[v.dst][v.name].bufs,
         obj'[v.dst][v.name].tag = obj[v.dst][v.name].tag,
         ExchangeOf(v.dst, v.name)' = ExchangeOf(v.dst, v.name)
  PROVE  RecvCarries(H, v)'
BY DEF RecvCarries

LEMMA MessageStill ==
  ASSUME NEW H, NEW w, MessageCarries(H, w), DOMAIN halo[w.src] \subseteq DOMAIN halo'[w.src]
  PROVE  MessageCarries(H, w)'
BY DEF MessageCarries

\* No rank has fewer exchanges than before.
Grows == \A q \in Rank : /\ Len(halo[q]) \in Nat /\ Len(halo'[q]) \in Nat
                         /\ Len(halo[q]) <= Len(halo'[q])

LEMMA SlotStill ==
  ASSUME IInv, NEW r \in Rank, NEW n \in Name, NEW j \in DOMAIN In[obj[r][n].kind][r],
         SlotOK(r, n, j),
         obj'[r][n].kind = obj[r][n].kind, obj'[r][n].bufs = obj[r][n].bufs,
         ExchangeOf(r, n)' = ExchangeOf(r, n), ExchangeOf(r, n) \in Nat,
         \A v \in recvs : v.dst = r /\ v.name = n /\ v.buf = Slot(r, n, j) => v \in recvs',
         mem'[r][Slot(r, n, j)] = mem[r][Slot(r, n, j)], Grows
  PROVE  SlotOK(r, n, j)'
<1> DEFINE q == In[obj[r][n].kind][r][j]
           e == ExchangeOf(r, n)
<1>1. obj[r][n].kind \in Kind
  BY InvParts, ObjectFacts
<1>2. q \in Rank
  BY <1>1, Peers
<1>3. Slot(r, n, j)' = Slot(r, n, j)
  BY DEF Slot
<1>4. CASE \E v \in recvs : v.dst = r /\ v.name = n /\ v.buf = Slot(r, n, j)
  BY <1>3, <1>4 DEF SlotOK
<1>5. CASE mem[r][Slot(r, n, j)] = Abstract!Published(q, r, e) /\ e <= Len(halo[q])
  <2>1. e <= Len(halo'[q])
    BY <1>2, <1>5 DEF Grows
  <2>2. mem'[r][Slot(r, n, j)'] = Abstract!Published(q, r, e)
    BY <1>3, <1>5
  <2> QED
    BY <1>3, <2>1, <2>2 DEF SlotOK
<1> QED
  BY <1>4, <1>5 DEF SlotOK

LEMMA CompletesStill ==
  ASSUME IInv, NEW r \in Rank, NEW e \in DOMAIN halo[r], e \in Nat, Completes(r, e),
         halo'[r][e] = halo[r][e], halo[r][e].kind \in Kind, Grows,
         \A n \in Name : (obj'[r][n].st = "inflight" /\ obj'[r][n].exch = e)
                           <=> (obj[r][n].st = "inflight" /\ obj[r][n].exch = e)
  PROVE  Completes(r, e)'
<1>1. CASE halo[r][e].done
  <2>1. \A j \in DOMAIN In[halo[r][e].kind][r] : e <= Len(halo'[In[halo[r][e].kind][r][j]])
    <3> TAKE j \in DOMAIN In[halo[r][e].kind][r]
    <3>1. In[halo[r][e].kind][r][j] \in Rank
      BY Peers
    <3>2. e <= Len(halo[In[halo[r][e].kind][r][j]])
      BY <1>1 DEF Completes
    <3> QED
      BY <3>1, <3>2 DEF Grows
  <2>2. \A n \in Name : ~ (obj'[r][n].st = "inflight" /\ obj'[r][n].exch = e)
    BY <1>1 DEF Completes
  <2> QED
    BY <1>1, <2>1, <2>2 DEF Completes
<1>2. CASE ~ halo[r][e].done
  BY <1>2 DEF Completes
<1> QED
  BY <1>1, <1>2

LEMMA ExchangeKind ==
  ASSUME Types, NEW r \in Rank, NEW e \in DOMAIN halo[r]
  PROVE  halo[r][e].kind \in Kind /\ e \in Nat
<1> DEFINE X == [kind : Kind, done : BOOLEAN, got : Seq(Message)]
<1>1. halo[r] \in Seq(X)
  BY DEF Types
<1> HIDE DEF X
<1>2. halo[r][e] \in X /\ DOMAIN halo[r] = 1..Len(halo[r]) /\ Len(halo[r]) \in Nat
  BY <1>1, SequenceFacts
<1> QED
  BY <1>2 DEF X

\* A step that moves no message and changes no updater in flight.
Quiet ==
  /\ sends' = sends /\ wire' = wire /\ halo' = halo /\ recvs \subseteq recvs'
  /\ \A q \in Rank, m \in Name : Live(q, m) => obj'[q][m] = obj[q][m]
  /\ \A q \in Rank, m \in Name : obj'[q][m].st = "inflight" => obj'[q][m] = obj[q][m]
  /\ \A q \in Rank : \A b \in Allocated(q) : mem'[q][b] = mem[q][b]

\* The unpack buffers of an updater in flight are allocated.
LEMMA SlotAllocated ==
  ASSUME IInv, NEW r \in Rank, NEW n \in Name, Live(r, n), NEW j \in DOMAIN In[obj[r][n].kind][r]
  PROVE  /\ Slot(r, n, j) \in Allocated(r) /\ Slot(r, n, j) \in Range(obj[r][n].bufs)
         /\ NumOut(r, obj[r][n].kind) + j \in DOMAIN obj[r][n].bufs
         /\ Slot(r, n, j) \in Nat
<1>0. Types /\ PoolOK /\ ObjectShape
  BY InvParts
<1>1. /\ obj[r][n].bufs \in Seq(Nat) /\ obj[r][n].kind \in Kind
      /\ Len(obj[r][n].bufs) = NumBufs(r, obj[r][n].kind)
  BY <1>0, ObjectFacts DEF Live
<1>2. NumOut(r, obj[r][n].kind) + j \in DOMAIN obj[r][n].bufs /\ Slot(r, n, j) \in Nat
  BY <1>1, BufferPositions DEF Slot
<1>3. Slot(r, n, j) \in Range(obj[r][n].bufs)
  BY <1>2 DEF Slot, Range
<1>4. Range(obj[r][n].bufs) \subseteq Allocated(r)
  BY <1>0 DEF PoolOK, BuffersAllocated
<1> QED
  BY <1>2, <1>3, <1>4

LEMMA QuietKeeps ==
  ASSUME IInv, NEW H, HistoryOK(H), \A q \in Rank : Follows(H, q),
         Carries(H), Delivered, Completion, Quiet, Stable
  PROVE  /\ \A s \in sends' : SendCarries(H, s)'
         /\ \A w \in wire' : MessageCarries(H, w)'
         /\ \A v \in recvs : RecvCarries(H, v)'
         /\ Completion'
         /\ \A r \in Rank, n \in Name : Live(r, n) =>
              \A j \in DOMAIN In[obj'[r][n].kind][r] : SlotOK(r, n, j)'
<1>0. Types /\ PoolOK /\ ObjectShape /\ RequestsOwn
  BY InvParts
<1>1. \A s \in sends' : SendCarries(H, s)'
  <2> SUFFICES ASSUME NEW s \in sends PROVE SendCarries(H, s)'
    BY DEF Quiet
  <2>1. s.src \in Rank /\ s.name \in Name /\ Live(s.src, s.name)
    BY <1>0, RequestTypes DEF RequestsOwn, Live
  <2>2. obj'[s.src][s.name] = obj[s.src][s.name] /\ s \in sends'
    BY <2>1 DEF Quiet
  <2>3. SendCarries(H, s)
    BY DEF Carries
  <2> QED
    BY <2>2, <2>3, SendStill
<1>2. \A w \in wire' : MessageCarries(H, w)'
  <2> SUFFICES ASSUME NEW w \in wire PROVE MessageCarries(H, w)'
    BY DEF Quiet
  <2> QED
    BY MessageStill DEF Quiet, Carries
<1>3. \A v \in recvs : RecvCarries(H, v)'
  <2> TAKE v \in recvs
  <2>1. v.dst \in Rank /\ v.name \in Name /\ Live(v.dst, v.name)
    BY <1>0, RequestTypes DEF RequestsOwn, Live
  <2>2. obj'[v.dst][v.name] = obj[v.dst][v.name] /\ halo' = halo
    BY <2>1 DEF Quiet
  <2>3. ExchangeOf(v.dst, v.name)' = ExchangeOf(v.dst, v.name)
    BY <2>2 DEF ExchangeOf
  <2> QED
    BY <2>2, <2>3, RecvStill DEF Carries
<1>4. Grows
  <2>1. \A q \in Rank : Len(halo[q]) \in Nat
    BY StartedExchange
  <2> QED
    BY <2>1 DEF Grows, Quiet
<1>5. Completion'
  <2> SUFFICES ASSUME NEW r \in Rank, NEW e \in DOMAIN halo[r] PROVE Completes(r, e)'
    BY DEF Completion, Quiet
  <2>2. halo[r][e].kind \in Kind /\ e \in Nat
    BY <1>0, ExchangeKind
  <2>3. \A n \in Name : (obj'[r][n].st = "inflight" /\ obj'[r][n].exch = e)
                          <=> (obj[r][n].st = "inflight" /\ obj[r][n].exch = e)
    BY DEF Quiet, Live
  <2> QED
    BY <1>4, <2>2, <2>3, CompletesStill DEF Completion, Quiet
<1>6. \A r \in Rank, n \in Name : Live(r, n) =>
        \A j \in DOMAIN In[obj'[r][n].kind][r] : SlotOK(r, n, j)'
  <2> SUFFICES ASSUME NEW r \in Rank, NEW n \in Name, Live(r, n),
                      NEW j \in DOMAIN In[obj[r][n].kind][r]
               PROVE  SlotOK(r, n, j)'
    BY DEF Quiet
  <2>1. obj'[r][n] = obj[r][n] /\ halo' = halo /\ recvs \subseteq recvs'
    BY DEF Quiet
  <2>2. ExchangeOf(r, n)' = ExchangeOf(r, n)
    BY <2>1 DEF ExchangeOf
  <2>3. ExchangeOf(r, n) \in Nat
    <3>1. H.num[Len(script)] \in Nat
      BY StartedExchange
    <3> QED
      BY <3>1, LiveExchange
  <2>4. mem'[r][Slot(r, n, j)] = mem[r][Slot(r, n, j)]
    BY SlotAllocated DEF Quiet
  <2>5. SlotOK(r, n, j)
    BY DEF Delivered
  <2> QED
    BY <1>4, <2>1, <2>2, <2>3, <2>4, <2>5, SlotStill
<1> QED
  BY <1>1, <1>2, <1>3, <1>5, <1>6

-----------------------------------------------------------------------------
(* Receives and sends that a step posts.                                   *)

\* The exchanges a rank has posted its receives for.
LEMMA PostedExchange ==
  ASSUME IInv, NEW H, HistoryOK(H), NEW r \in Rank, Follows(H, r)
  PROVE  H.num[Posted(r)] = IF Packing(r) THEN Len(halo[r]) + 1 ELSE Len(halo[r])
<1>1. Types
  BY InvParts
<1>2. CASE Packing(r)
  <2>1. PICK n \in Name : obj[r][n].st = "packing"
    BY <1>2 DEF Packing
  <2>2. Posted(r) = pc[r] + 1 /\ AtStart(r, n)
    BY <2>1, PackingOne
  <2>3. PICK do \in {"start", "startOnce"} : AtCall(r, do, n)
    BY <2>2 DEF AtStart
  <2>4. H.num[pc[r] + 1] = H.num[pc[r]] + 1
    BY <1>1, <2>3, CallNumbers DEF Starts
  <2> QED
    BY <1>2, <2>2, <2>4, StartedExchange
<1>3. CASE ~ Packing(r)
  BY <1>3, StartedExchange DEF Posted
<1> QED
  BY <1>2, <1>3

\* A step posts the receives of exchange e of the updater it leaves in variable n.
PostsRecvs(H, r, n, k, tag, bufs, e) ==
  /\ k \in Kind /\ tag \in Tag /\ bufs \in Seq(Nat) /\ Len(bufs) = NumBufs(r, k)
  /\ obj'[r][n].kind = k /\ obj'[r][n].bufs = bufs /\ obj'[r][n].tag = tag
  /\ ExchangeOf(r, n)' = e
  /\ nrecv \in Counters /\ nrecv' = CountPosted(nrecv, r, In[k][r], tag)
  /\ \A q \in Rank, t \in Tag : nrecv'[r][q][t] = H.count[e][q][r][t]
  /\ recvs' = recvs \union IrecvAll(r, n, k, tag, bufs)

LEMMA PostedRecvs ==
  ASSUME NEW H, NEW r \in Rank, NEW n \in Name, NEW k, NEW tag, NEW bufs, NEW e,
         PostsRecvs(H, r, n, k, tag, bufs, e)
  PROVE  /\ \A v \in IrecvAll(r, n, k, tag, bufs) : RecvCarries(H, v)'
         /\ \A j \in DOMAIN In[k][r] : SlotOK(r, n, j)'
<1> USE DEF PostsRecvs
<1>1. \A j \in DOMAIN In[k][r] : In[k][r][j] \in Rank /\ In[k][r][j] \in Range(In[k][r])
  BY Peers DEF Range
<1>2. ASSUME NEW v \in IrecvAll(r, n, k, tag, bufs) PROVE RecvCarries(H, v)'
  <2>1. PICK j \in DOMAIN In[k][r] :
          v = [src |-> In[k][r][j], dst |-> r, tag |-> tag, buf |-> bufs[NumOut(r, k) + j],
               name |-> n, seq |-> nrecv[r][In[k][r][j]][tag] + 1]
    BY DEF IrecvAll
  <2>2. /\ v.src = In[k][r][j] /\ v.dst = r /\ v.tag = tag /\ v.name = n
        /\ v.buf = bufs[NumOut(r, k) + j]
        /\ v.seq = nrecv[r][In[k][r][j]][tag] + 1
    BY <2>1
  <2>3. nrecv'[r][In[k][r][j]][tag] = nrecv[r][In[k][r][j]][tag] + 1
    BY <1>1 DEF CountPosted, Counters
  <2>4. v.seq = H.count[e][v.src][r][tag]
    <3>1. \A q \in Rank : nrecv'[r][q][tag] = H.count[e][q][r][tag]
      OBVIOUS
    <3>2. v.src \in Rank /\ v.seq = nrecv'[r][v.src][tag]
      BY <1>1, <2>2, <2>3
    <3> QED
      BY <3>1, <3>2
  <2> QED
    BY <2>2, <2>4 DEF RecvCarries
<1>3. ASSUME NEW j \in DOMAIN In[k][r] PROVE SlotOK(r, n, j)'
  <2> DEFINE v == [src |-> In[k][r][j], dst |-> r, tag |-> tag,
                   buf |-> bufs[NumOut(r, k) + j],
                   name |-> n, seq |-> nrecv[r][In[k][r][j]][tag] + 1]
  <2>1. v \in recvs'
    BY DEF IrecvAll
  <2>2. v.dst = r /\ v.name = n /\ v.buf = bufs[NumOut(r, k) + j]
    OBVIOUS
  <2> HIDE DEF v
  <2>3. Slot(r, n, j)' = bufs[NumOut(r, k) + j]
    BY DEF Slot
  <2> QED
    BY <2>1, <2>2, <2>3 DEF SlotOK
<1> QED
  BY <1>2, <1>3

\* A message that was awaited is awaited when more receives are posted.
LEMMA AwaitedPosting ==
  ASSUME NEW H, NEW r \in Rank, NEW n \in Name, NEW k, NEW tag, NEW bufs, NEW e,
         PostsRecvs(H, r, n, k, tag, bufs, e),
         NEW m, m.src \in Rank, m.dst \in Rank, m.tag \in Tag, m.seq \in Nat, Awaited(m)
  PROVE  Awaited(m)'
<1> USE DEF PostsRecvs
<1>1. CASE \E v \in recvs : Matches(m, v)
  <2>1. PICK v \in recvs : Matches(m, v)
    BY <1>1
  <2>2. v \in recvs'
    OBVIOUS
  <2> QED
    BY <2>1, <2>2 DEF Awaited, Matches
<1>2. CASE m.seq > nrecv[m.dst][m.src][m.tag]
  <2>0. nrecv[m.dst][m.src][m.tag] \in Nat
    BY SMTT(30) DEF Counters
  <2>1. CASE m.dst = r /\ m.src \in Range(In[k][r]) /\ m.tag = tag
    <3>1. nrecv'[m.dst][m.src][m.tag] = nrecv[m.dst][m.src][m.tag] + 1
      BY <2>1 DEF CountPosted, Counters
    <3>2. CASE m.seq = nrecv[m.dst][m.src][m.tag] + 1
      <4>1. PICK j \in DOMAIN In[k][r] : m.src = In[k][r][j]
        BY <2>1 DEF Range
      <4> DEFINE v == [src |-> In[k][r][j], dst |-> r, tag |-> tag,
                       buf |-> bufs[NumOut(r, k) + j], name |-> n,
                       seq |-> nrecv[r][In[k][r][j]][tag] + 1]
      <4>2. v \in recvs'
        BY DEF IrecvAll
      <4>3. v.src = m.src /\ v.dst = m.dst /\ v.tag = m.tag /\ v.seq = m.seq
        BY <2>1, <3>2, <4>1
      <4> HIDE DEF v
      <4> QED
        BY <4>2, <4>3 DEF Awaited, Matches
    <3>3. CASE m.seq > nrecv[m.dst][m.src][m.tag] + 1
      BY <3>1, <3>3 DEF Awaited
    <3> QED
      BY <1>2, <2>0, <3>2, <3>3
  <2>2. CASE ~ (m.dst = r /\ m.src \in Range(In[k][r]) /\ m.tag = tag)
    <3>1. nrecv'[m.dst][m.src][m.tag] = nrecv[m.dst][m.src][m.tag]
      BY <2>2 DEF CountPosted, Counters
    <3> QED
      BY <1>2, <3>1 DEF Awaited
  <2> QED
    BY <2>1, <2>2
<1> QED
  BY <1>1, <1>2 DEF Awaited

\* The sends that are posted once the pack buffers hold exchange e.
PostsSends(H, r, n, k, tag, bufs, e, m) ==
  /\ k \in Kind /\ tag \in Tag /\ bufs \in Seq(Nat) /\ Len(bufs) = NumBufs(r, k)
  /\ IsInjective(bufs) /\ Range(bufs) \subseteq DOMAIN m
  /\ obj'[r][n].kind = k /\ obj'[r][n].bufs = bufs /\ obj'[r][n].tag = tag
  /\ obj'[r][n].exch = e /\ mem'[r] = Packed(r, k, bufs, e, m)
  /\ nsent \in Counters /\ nsent' = CountPosted(nsent, r, Out[k][r], tag)
  /\ \A q \in Rank, t \in Tag : nsent'[r][q][t] = H.count[e][r][q][t]
  /\ sends' = sends \union IsendAll(r, n, k, tag, bufs)

LEMMA PostedSends ==
  ASSUME NEW H, NEW r \in Rank, NEW n \in Name, NEW k, NEW tag, NEW bufs, NEW e, NEW m,
         PostsSends(H, r, n, k, tag, bufs, e, m)
  PROVE  \A s \in IsendAll(r, n, k, tag, bufs) : SendCarries(H, s)'
<1> USE DEF PostsSends
<1> SUFFICES ASSUME NEW s \in IsendAll(r, n, k, tag, bufs) PROVE SendCarries(H, s)'
  OBVIOUS
<1>1. PICK i \in DOMAIN Out[k][r] :
        s = [src |-> r, dst |-> Out[k][r][i], tag |-> tag, buf |-> bufs[i], name |-> n,
             seq |-> nsent[r][Out[k][r][i]][tag] + 1]
  BY DEF IsendAll
<1>2. /\ s.src = r /\ s.dst = Out[k][r][i] /\ s.tag = tag /\ s.name = n
      /\ s.buf = bufs[i] /\ s.seq = nsent[r][Out[k][r][i]][tag] + 1
  BY <1>1
<1>3. Out[k][r][i] \in Rank /\ Out[k][r][i] \in Range(Out[k][r])
  BY Peers DEF Range
<1>4. nsent'[r][Out[k][r][i]][tag] = nsent[r][Out[k][r][i]][tag] + 1
  BY <1>3 DEF CountPosted, Counters
<1>5. s.seq = H.count[e][r][s.dst][tag]
  BY SMTT(30), <1>2, <1>3, <1>4
<1>6. mem'[r][bufs[i]] = Abstract!Published(r, Out[k][r][i], e)
  <2>1. \A i2 \in DOMAIN Out[k][r] : i2 \in DOMAIN bufs
    BY BufferPositions
  <2>2. bufs[i] \in DOMAIN m
    BY <2>1 DEF Range
  <2>3. \A i2 \in DOMAIN Out[k][r] : bufs[i2] = bufs[i] => i2 = i
    BY <2>1 DEF IsInjective
  <2>4. (CHOOSE i2 \in DOMAIN Out[k][r] : bufs[i2] = bufs[i]) = i
    BY <2>3
  <2>5. Packed(r, k, bufs, e, m)[bufs[i]] = [src |-> r, dst |-> Out[k][r][i], exch |-> e]
    BY <2>2, <2>4 DEF Packed
  <2> QED
    BY <2>5 DEF Abstract!Published
<1> QED
  BY <1>2, <1>5, <1>6 DEF SendCarries

\* An updater has an unpack buffer of its own for each neighbour.
LEMMA SlotInjective ==
  ASSUME IInv, NEW r \in Rank, NEW n \in Name, Live(r, n),
         NEW i \in DOMAIN In[obj[r][n].kind][r], NEW j \in DOMAIN In[obj[r][n].kind][r],
         Slot(r, n, i) = Slot(r, n, j)
  PROVE  i = j
<1> DEFINE k == obj[r][n].kind
           bufs == obj[r][n].bufs
           base == NumOut(r, k)
<1>1. IsInjective(bufs) /\ k \in Kind
  BY InvParts, ObjectFacts
<1>2. base + i \in DOMAIN bufs /\ base + j \in DOMAIN bufs
  BY SlotAllocated
<1>3. i \in DOMAIN In[k][r] /\ j \in DOMAIN In[k][r] /\ bufs[base + i] = bufs[base + j]
  BY DEF Slot
<1> HIDE DEF k, bufs
<1>4. base \in Nat /\ i \in Nat /\ j \in Nat
  <2>1. base \in Nat /\ DOMAIN In[k][r] = 1..Len(In[k][r])
    BY <1>1, Peers
  <2> QED
    BY <1>3, <2>1
<1> HIDE DEF base
<1>5. base + i = base + j
  BY <1>1, <1>2, <1>3 DEF IsInjective
<1> QED
  BY <1>4, <1>5

\* A rank that has posted the receives of an exchange holds it or has completed it.
LEMMA ReceiverOf ==
  ASSUME IInv, NEW H, HistoryOK(H), \A q \in Rank : Follows(H, q), Completion,
         NEW r \in Rank, NEW d \in Rank, NEW e \in Nat, Len(halo[r]) < e, e >= 1,
         e <= H.num[Posted(d)], r \in Range(In[H.kind[e]][d])
  PROVE  \E m \in Name : Live(d, m) /\ ExchangeOf(d, m) = e
<1>0. Types
  BY InvParts
<1>1. /\ Len(halo[d]) \in Nat /\ DOMAIN halo[d] = 1..Len(halo[d])
      /\ Len(halo[r]) \in Nat
  BY StartedExchange
<1>2. CASE e <= Len(halo[d])
  <2>1. e \in DOMAIN halo[d]
    BY <1>1, <1>2
  <2>2. Completes(d, e) /\ halo[d][e].kind = H.kind[e]
    BY <2>1 DEF Completion, Follows, FollowsCalls
  <2>3. PICK j \in DOMAIN In[H.kind[e]][d] : In[H.kind[e]][d][j] = r
    BY DEF Range
  <2>4. ~ halo[d][e].done
    <3> SUFFICES ASSUME halo[d][e].done PROVE FALSE
      OBVIOUS
    <3>1. e <= Len(halo[r])
      BY <2>2, <2>3 DEF Completes
    <3> QED
      BY <1>1, <3>1
  <2>5. PICK m \in Name : obj[d][m].st = "inflight" /\ obj[d][m].exch = e
    BY <2>2, <2>4 DEF Completes
  <2> QED
    BY <2>5 DEF Live, ExchangeOf
<1>3. CASE ~ (e <= Len(halo[d]))
  <2>1. Packing(d) /\ e = Len(halo[d]) + 1
    BY <1>1, <1>3, PostedExchange
  <2>2. PICK m \in Name : obj[d][m].st = "packing"
    BY <2>1 DEF Packing
  <2> QED
    BY <2>1, <2>2 DEF Live, ExchangeOf
<1> QED
  BY <1>2, <1>3

\* The message of the exchange that a rank is about to start is awaited.
LEMMA NewMessageAwaited ==
  ASSUME IInv, NEW H, HistoryOK(H), \A q \in Rank : Follows(H, q),
         Carries(H), Delivered, Completion,
         NEW r \in Rank, NEW e \in 1..H.num[Len(script)], e = Len(halo[r]) + 1,
         NEW s, s.src = r, s.dst \in Rank, s.tag \in Tag,
         Link(H, e, r, s.dst, s.tag), s.seq = H.count[e][r][s.dst][s.tag]
  PROVE  Awaited(s) /\ \A w \in wire : ~ Matches(s, w)
<1> DEFINE last == H.num[Len(script)]
           d == s.dst
           t == s.tag
<1>0. Types /\ PoolOK /\ ObjectShape
  BY InvParts
<1>1. /\ H \in Histories /\ last \in Nat /\ CountsOK(H, last) /\ e \in Nat
      /\ Len(halo[r]) \in Nat
  BY StartedExchange DEF HistoryOK
<1>2. H.num[Posted(d)] \in 0..last
  <2>1. pc[d] \in Nat /\ Len(script) \in Nat
    BY <1>0 DEF Types
  <2>2. Posted(d) \in 0..Len(script)
    BY <2>1 DEF Posted, Follows, FollowsCalls
  <2>3. H.num[Posted(d)] <= last /\ H.num[Posted(d)] \in Nat
    BY <1>1, <2>2, HistoryTypes DEF HistoryOK, CallsOK
  <2> QED
    BY <1>1, <2>3
<1>3. Awaited(s)
  <2>1. CASE H.num[Posted(d)] < e
    <3>1. nrecv[d][r][t] = H.count[H.num[Posted(d)]][r][d][t]
      BY DEF Follows, FollowsCounts
    <3> HIDE DEF last
    <3>2. H.count[H.num[Posted(d)]][r][d][t] < H.count[e][r][d][t]
      <4>1. e \in 1..last
        BY DEF last
      <4> QED
        BY <1>1, <1>2, <2>1, <4>1, SameExchange
    <3>3. nrecv[d][r][t] < s.seq
      BY <3>1, <3>2
    <3>4. nrecv[d][r][t] \in Nat /\ s.seq \in Nat
      <4>1. nrecv[d][r][t] \in Nat
        BY SMTT(30), <1>0 DEF Types
      <4> QED
        BY SMTT(30), <1>1, <4>1, HistoryTypes
    <3> QED
      BY <3>3, <3>4 DEF Awaited
  <2>2. CASE e <= H.num[Posted(d)]
    <3>1. d \in Range(Out[H.kind[e]][r]) /\ H.label[e] = t
      BY DEF Link
    <3>2. H.kind[e] \in Kind
      BY <1>1, HistoryTypes
    <3>3. r \in Range(In[H.kind[e]][d])
      BY <3>1, <3>2, TopologyAssumption
    <3>4. PICK m \in Name : Live(d, m) /\ ExchangeOf(d, m) = e
      BY <1>1, <2>2, <3>3, ReceiverOf
    <3> DEFINE o == obj[d][m]
    <3>5. o.kind = H.kind[e] /\ o.tag = t
      BY <3>1, <3>4, LiveExchange
    <3>6. PICK j \in DOMAIN In[o.kind][d] : In[o.kind][d][j] = r
      BY <3>3, <3>5 DEF Range
    <3>7. SlotOK(d, m, j)
      BY <3>4, <3>6 DEF Delivered
    <3>8. PICK v \in recvs : v.dst = d /\ v.name = m /\ v.buf = Slot(d, m, j)
      <4>1. ~ (e <= Len(halo[r]))
        BY <1>1
      <4> QED
        BY <3>4, <3>6, <3>7, <4>1 DEF SlotOK
    <3>9. RecvCarries(H, v)
      BY DEF Carries
    <3>10. PICK j2 \in DOMAIN In[o.kind][d] :
             v.src = In[o.kind][d][j2] /\ v.buf = Slot(d, m, j2)
      BY <3>8, <3>9 DEF RecvCarries, Slot
    <3>11. j2 = j
      BY ZenonT(40), <3>4, <3>8, <3>10, SlotInjective
    <3>12. /\ v.src = r /\ v.tag = t /\ v.dst = d
           /\ v.seq = H.count[e][r][d][t]
      <4>1. v.src = r
        BY <3>6, <3>10, <3>11
      <4> QED
        BY <3>4, <3>5, <3>8, <3>9, <4>1 DEF RecvCarries
    <3> QED
      BY <3>12 DEF Awaited, Matches
  <2> QED
    BY <1>1, <1>2, <2>1, <2>2
<1>4. ASSUME NEW w \in wire, Matches(s, w) PROVE FALSE
  <2>1. MessageCarries(H, w)
    BY DEF Carries
  <2>2. PICK f \in DOMAIN halo[w.src] :
          /\ f \in 1..last /\ f <= Len(halo[w.src])
          /\ Link(H, f, w.src, w.dst, w.tag) /\ w.seq = H.count[f][w.src][w.dst][w.tag]
    BY <2>1, WireExchange
  <2>3. e = f
    BY <1>4, <2>2, SamePlace DEF Matches
  <2> QED
    BY <1>1, <1>4, <2>2, <2>3 DEF Matches
<1> QED
  BY <1>3, <1>4

-----------------------------------------------------------------------------
(* Each step keeps what requests and messages carry.                       *)

\* The types of the messages that are awaited.
LEMMA AwaitedTypes ==
  ASSUME Types
  PROVE  /\ \A s \in sends : s.src \in Rank /\ s.dst \in Rank /\ s.tag \in Tag /\ s.seq \in Nat
         /\ \A w \in wire : w.src \in Rank /\ w.dst \in Rank /\ w.tag \in Tag /\ w.seq \in Nat
BY DEF Types, Request

\* A step that neither posts nor completes anything.
LEMMA QuietMessages ==
  ASSUME IInv, NEW H, HistoryOK(H), \A q \in Rank : Follows(H, q), Messages(H), Stable,
         Quiet, recvs' = recvs, nrecv' = nrecv,
         \A q \in Rank, m \in Name : Live(q, m)' => Live(q, m)
  PROVE  Messages(H)'
<1>1. /\ \A s \in sends' : SendCarries(H, s)'
      /\ \A w \in wire' : MessageCarries(H, w)'
      /\ \A v \in recvs : RecvCarries(H, v)'
      /\ Completion'
      /\ \A r \in Rank, n \in Name : Live(r, n) =>
           \A j \in DOMAIN In[obj'[r][n].kind][r] : SlotOK(r, n, j)'
  BY QuietKeeps DEF Messages
<1>2. Carries(H)'
  BY <1>1 DEF Carries
<1>3. Delivered'
  BY <1>1 DEF Delivered
<1>4. NoneTwice'
  <2>1. \A m : Awaited(m)' <=> Awaited(m)
    BY DEF Awaited
  <2> QED
    BY <2>1 DEF Messages, NoneTwice, Quiet
<1> QED
  BY <1>1, <1>2, <1>3, <1>4 DEF Messages

\* A step that posts the receives of the updater it puts in variable n.
LEMMA PostingMessages ==
  ASSUME IInv, NEW H, HistoryOK(H), \A q \in Rank : Follows(H, q), Messages(H), Stable, Quiet,
         NEW r \in Rank, NEW n \in Name, NEW k, NEW tag, NEW bufs, NEW e,
         PostsRecvs(H, r, n, k, tag, bufs, e),
         \A q \in Rank, m \in Name : Live(q, m)' => Live(q, m) \/ (q = r /\ m = n)
  PROVE  Messages(H)'
<1> DEFINE V == IrecvAll(r, n, k, tag, bufs)
<1>0. Types
  BY InvParts
<1>p. obj'[r][n].kind = k /\ recvs' = recvs \union V
  BY DEF PostsRecvs
<1>1. /\ \A s \in sends' : SendCarries(H, s)'
      /\ \A w \in wire' : MessageCarries(H, w)'
      /\ \A v \in recvs : RecvCarries(H, v)'
      /\ Completion'
      /\ \A q \in Rank, m \in Name : Live(q, m) =>
           \A j \in DOMAIN In[obj'[q][m].kind][q] : SlotOK(q, m, j)'
  BY QuietKeeps DEF Messages
<1>2. /\ \A v \in V : RecvCarries(H, v)'
      /\ \A j \in DOMAIN In[k][r] : SlotOK(r, n, j)'
  BY PostedRecvs
<1>3. Carries(H)'
  BY <1>1, <1>2, <1>p DEF Carries
<1>4. Delivered'
  <2> SUFFICES ASSUME NEW q \in Rank, NEW m \in Name, Live(q, m)',
                      NEW j \in DOMAIN In[obj'[q][m].kind][q]
               PROVE  SlotOK(q, m, j)'
    BY DEF Delivered
  <2>1. CASE Live(q, m)
    BY <1>1, <2>1
  <2>2. CASE q = r /\ m = n
    BY <1>2, <1>p, <2>2
  <2> QED
    BY <2>1, <2>2
<1>5. NoneTwice'
  <2>1. ASSUME NEW m, m.src \in Rank, m.dst \in Rank, m.tag \in Tag, m.seq \in Nat, Awaited(m)
        PROVE  Awaited(m)'
    BY <1>0, <2>1, AwaitedPosting
  <2>2. /\ \A s \in sends : Awaited(s)'
        /\ \A w \in wire : Awaited(w)'
    BY <1>0, <2>1, AwaitedTypes DEF Messages, NoneTwice
  <2> QED
    BY <2>2 DEF Messages, NoneTwice, Quiet
<1> QED
  BY <1>1, <1>3, <1>4, <1>5 DEF Messages

LEMMA QuietSteps ==
  ASSUME IInv, NEW H, HistoryOK(H), \A q \in Rank : Follows(H, q), Messages(H), Stable,
         NEW r \in Rank,
         Collect(r) \/ \E n \in Name : GetUpdater(r, n) \/ Drop(r, n)
  PROVE  Messages(H)'
<1>0. Types /\ "halo" \in Kind
  BY InvParts DEF Kind
<1>1. CASE Collect(r)
  <2>1. /\ obj' = obj /\ mem' = mem /\ sends' = sends /\ recvs' = recvs /\ wire' = wire
        /\ nrecv' = nrecv /\ halo' = halo
    BY <1>1 DEF Collect, mpiVars
  <2>2. Quiet /\ \A q \in Rank, m \in Name : Live(q, m)' => Live(q, m)
    BY <2>1 DEF Quiet, Live
  <2> QED
    BY <2>1, <2>2, QuietMessages
<1>2. ASSUME NEW n \in Name, GetUpdater(r, n) PROVE Messages(H)'
  <2> DEFINE p == [st |-> "idle", kind |-> "halo", tag |-> _get_halo_tag(r), keep |-> TRUE,
                   bufs |-> pop_from_cache(r, NumBufs(r, "halo")), exch |-> 0]
  <2>1. /\ obj[r][n].st = "none"
        /\ obj' = [obj EXCEPT ![r][n] = p]
        /\ mem' = [mem EXCEPT ![r] = MemAfterPop(r, NumBufs(r, "halo"))]
        /\ sends' = sends /\ recvs' = recvs /\ wire' = wire /\ nrecv' = nrecv /\ halo' = halo
    BY <1>2 DEF GetUpdater, New, mpiVars
  <2>2. p.st = "idle"
    OBVIOUS
  <2> HIDE DEF p
  <2>3. /\ obj'[r][n] = p
        /\ \A q \in Rank, m \in Name : (q # r \/ m # n) => obj'[q][m] = obj[q][m]
    BY <1>0, <2>1 DEF Types
  <2>4. \A q \in Rank : \A b \in Allocated(q) : mem'[q][b] = mem[q][b]
    <3>1. \A b \in Allocated(r) : MemAfterPop(r, NumBufs(r, "halo"))[b] = mem[r][b]
      BY <1>0, PopMemory
    <3> QED
      BY <1>0, <2>1, <3>1 DEF Types
  <2>5. /\ \A q \in Rank, m \in Name : Live(q, m) => obj'[q][m] = obj[q][m]
        /\ \A q \in Rank, m \in Name : obj'[q][m].st = "inflight" => obj'[q][m] = obj[q][m]
        /\ \A q \in Rank, m \in Name : Live(q, m)' => Live(q, m)
    BY <2>1, <2>2, <2>3 DEF Live
  <2>6. Quiet
    BY <2>1, <2>4, <2>5 DEF Quiet
  <2> QED
    BY <2>1, <2>5, <2>6, QuietMessages
<1>3. ASSUME NEW n \in Name, Drop(r, n) PROVE Messages(H)'
  <2>1. /\ obj[r][n].st = "idle"
        /\ obj' = [obj EXCEPT ![r][n] = NoObj] /\ mem' = mem
        /\ sends' = sends /\ recvs' = recvs /\ wire' = wire /\ nrecv' = nrecv /\ halo' = halo
    BY <1>3 DEF Drop, mpiVars
  <2>2. NoObj.st = "none"
    BY DEF NoObj
  <2>3. /\ obj'[r][n] = NoObj
        /\ \A q \in Rank, m \in Name : (q # r \/ m # n) => obj'[q][m] = obj[q][m]
    BY <1>0, <2>1 DEF Types
  <2>4. /\ \A q \in Rank, m \in Name : Live(q, m) => obj'[q][m] = obj[q][m]
        /\ \A q \in Rank, m \in Name : obj'[q][m].st = "inflight" => obj'[q][m] = obj[q][m]
        /\ \A q \in Rank, m \in Name : Live(q, m)' => Live(q, m)
    BY <2>1, <2>2, <2>3 DEF Live
  <2>5. Quiet
    BY <2>1, <2>4 DEF Quiet
  <2> QED
    BY <2>1, <2>4, <2>5, QuietMessages
<1> QED
  BY <1>1, <1>2, <1>3


\* The receives of a rank that starts to pack are those of its next exchange.
LEMMA NewReceives ==
  ASSUME IInv, NEW H, HistoryOK(H), NEW r \in Rank, Follows(H, r), Follows(H, r)',
         NEW do \in {"start", "startOnce"}, NEW n \in Name, AtCall(r, do, n),
         obj'[r][n].st = "packing", pc' = pc, halo' = halo
  PROVE  /\ ExchangeOf(r, n)' = Len(halo[r]) + 1
         /\ \A q \in Rank, t \in Tag :
              nrecv'[r][q][t] = H.count[Len(halo[r]) + 1][q][r][t]
<1>1. ExchangeOf(r, n)' = Len(halo[r]) + 1
  BY DEF ExchangeOf
<1>2. Posted(r)' = pc[r] + 1
  BY DEF Posted, Packing
<1>3. H.num[pc[r] + 1] = Len(halo[r]) + 1
  <2>1. H.num[pc[r] + 1] = H.num[pc[r]] + 1
    BY InvParts, CallNumbers DEF Starts
  <2> QED
    BY <2>1 DEF Follows, FollowsCalls
<1>4. \A q \in Rank, t \in Tag : nrecv'[r][q][t] = H.count[H.num[Posted(r)']][q][r][t]
  BY DEF Follows, FollowsCounts
<1> QED
  BY <1>1, <1>2, <1>3, <1>4

LEMMA StartRecvsMessages ==
  ASSUME IInv, NEW H, HistoryOK(H), \A q \in Rank : Follows(H, q), Messages(H), Stable,
         NEW r \in Rank, NEW n \in Name, StartRecvs(r, n), Follows(H, r)'
  PROVE  Messages(H)'
<1> DEFINE o == obj[r][n]
           p == [o EXCEPT !.st = "packing"]
           e == Len(halo[r]) + 1
           tag == o.tag
           bufs == o.bufs
<1>0. Types /\ PoolOK /\ ObjectShape
  BY InvParts
<1>1. /\ AtCall(r, "start", n) /\ o.st = "idle"
      /\ obj' = [obj EXCEPT ![r][n] = p]
      /\ recvs' = recvs \union IrecvAll(r, n, "halo", tag, bufs)
      /\ nrecv' = CountPosted(nrecv, r, In["halo"][r], tag)
      /\ pc' = pc /\ halo' = halo /\ mem' = mem /\ sends' = sends /\ wire' = wire
  BY <1>0 DEF StartRecvs, Types
<1>2. /\ o \in Object /\ o.kind = "halo" /\ tag \in Tag /\ bufs \in Seq(Nat)
      /\ Len(bufs) = NumBufs(r, "halo")
  BY <1>0, <1>1, ObjectFacts
<1>3. p.st = "packing" /\ p.kind = "halo" /\ p.tag = tag /\ p.bufs = bufs
  BY <1>2 DEF Object
<1> HIDE DEF p
<1>4. /\ obj'[r][n] = p
      /\ \A q \in Rank, m \in Name : (q # r \/ m # n) => obj'[q][m] = obj[q][m]
  BY <1>0, <1>1 DEF Types
<1>5. /\ \A q \in Rank, m \in Name : Live(q, m) => obj'[q][m] = obj[q][m]
      /\ \A q \in Rank, m \in Name : obj'[q][m].st = "inflight" => obj'[q][m] = obj[q][m]
      /\ \A q \in Rank, m \in Name : Live(q, m)' => Live(q, m) \/ (q = r /\ m = n)
  BY <1>1, <1>3, <1>4 DEF Live
<1>6. Quiet
  BY <1>1, <1>5 DEF Quiet
<1>7. /\ ExchangeOf(r, n)' = e
      /\ \A q \in Rank, t \in Tag : nrecv'[r][q][t] = H.count[e][q][r][t]
  <2>1. /\ AtCall(r, "start", n) /\ "start" \in {"start", "startOnce"}
        /\ obj'[r][n].st = "packing" /\ pc' = pc /\ halo' = halo
    BY <1>1, <1>3, <1>4
  <2>2. /\ ExchangeOf(r, n)' = Len(halo[r]) + 1
        /\ \A q \in Rank, t \in Tag :
             nrecv'[r][q][t] = H.count[Len(halo[r]) + 1][q][r][t]
    BY SMTT(30), <2>1, NewReceives
  <2> QED
    BY <2>2
<1> HIDE DEF o, e, tag, bufs
<1>8. "halo" \in Kind /\ nrecv \in Counters
  BY <1>0 DEF Kind, Types, Counters
<1>9. PostsRecvs(H, r, n, "halo", tag, bufs, e)
  BY <1>1, <1>2, <1>3, <1>4, <1>7, <1>8 DEF PostsRecvs
<1> QED
  BY <1>5, <1>6, <1>9, PostingMessages

LEMMA StartOnceRecvsMessages ==
  ASSUME IInv, NEW H, HistoryOK(H), \A q \in Rank : Follows(H, q), Messages(H), Stable,
         NEW r \in Rank, NEW n \in Name, StartOnceRecvs(r, n), Follows(H, r)'
  PROVE  Messages(H)'
<1> DEFINE tag == _get_halo_tag(r)
           bufs == pop_from_cache(r, NumBufs(r, "halo"))
           p == [st |-> "packing", kind |-> "halo", tag |-> tag, keep |-> FALSE,
                 bufs |-> bufs, exch |-> 0]
           e == Len(halo[r]) + 1
<1>0. Types /\ "halo" \in Kind
  BY InvParts DEF Kind
<1>1. /\ AtCall(r, "startOnce", n) /\ obj[r][n].st \in {"none", "finished"} /\ tag \in Tag
      /\ obj' = [obj EXCEPT ![r][n] = p]
      /\ mem' = [mem EXCEPT ![r] = MemAfterPop(r, NumBufs(r, "halo"))]
      /\ recvs' = recvs \union IrecvAll(r, n, "halo", tag, bufs)
      /\ nrecv' = CountPosted(nrecv, r, In["halo"][r], tag)
      /\ pc' = pc /\ halo' = halo /\ sends' = sends /\ wire' = wire
  BY DEF StartOnceRecvs, New
<1>2. p.st = "packing" /\ p.kind = "halo" /\ p.tag = tag /\ p.bufs = bufs
  OBVIOUS
<1> HIDE DEF p
<1>3. /\ obj'[r][n] = p
      /\ \A q \in Rank, m \in Name : (q # r \/ m # n) => obj'[q][m] = obj[q][m]
  BY <1>0, <1>1 DEF Types
<1>4. /\ bufs \in Seq(Nat) /\ Len(bufs) = NumBufs(r, "halo")
      /\ \A b \in Allocated(r) : MemAfterPop(r, NumBufs(r, "halo"))[b] = mem[r][b]
  BY <1>0, PopMemory
<1>5. \A q \in Rank : \A b \in Allocated(q) : mem'[q][b] = mem[q][b]
  BY <1>0, <1>1, <1>4 DEF Types
<1>6. /\ \A q \in Rank, m \in Name : Live(q, m) => obj'[q][m] = obj[q][m]
      /\ \A q \in Rank, m \in Name : obj'[q][m].st = "inflight" => obj'[q][m] = obj[q][m]
      /\ \A q \in Rank, m \in Name : Live(q, m)' => Live(q, m) \/ (q = r /\ m = n)
  BY <1>1, <1>2, <1>3 DEF Live
<1>7. Quiet
  BY <1>1, <1>5, <1>6 DEF Quiet
<1>8. /\ ExchangeOf(r, n)' = e
      /\ \A q \in Rank, t \in Tag : nrecv'[r][q][t] = H.count[e][q][r][t]
  BY <1>1, <1>2, <1>3, NewReceives
<1> HIDE DEF e, tag, bufs
<1>9. nrecv \in Counters
  BY <1>0 DEF Types, Counters
<1>10. PostsRecvs(H, r, n, "halo", tag, bufs, e)
  BY <1>0, <1>1, <1>2, <1>3, <1>4, <1>8, <1>9 DEF PostsRecvs
<1> QED
  BY <1>6, <1>7, <1>10, PostingMessages

\* A step starts exchange e of rank r with the updater it leaves in variable n.
Starting(H, r, n, k, tag, bufs, e, m) ==
  /\ PostsSends(H, r, n, k, tag, bufs, e, m)
  /\ e = Len(halo[r]) + 1 /\ e \in 1..H.num[Len(script)]
  /\ H.kind[e] = k /\ H.label[e] = tag
  /\ obj[r][n].st # "inflight" /\ obj'[r][n].st = "inflight"
  /\ \A q \in Rank, l \in Name : (q # r \/ l # n) => obj'[q][l] = obj[q][l]
  /\ halo' = [halo EXCEPT ![r] = Append(@, [kind |-> k, done |-> FALSE, got |-> <<>>])]
  /\ wire' = wire

LEMMA StartingFacts ==
  ASSUME IInv, NEW H, NEW r \in Rank, NEW n, NEW k, NEW tag, NEW bufs, NEW e, NEW m,
         Starting(H, r, n, k, tag, bufs, e, m)
  PROVE  /\ Len(halo[r]) \in Nat /\ DOMAIN halo[r] = 1..Len(halo[r])
         /\ DOMAIN halo'[r] = 1..e /\ e \in Nat
         /\ ~ halo'[r][e].done /\ Grows
         /\ \A f \in DOMAIN halo[r] : f # e /\ halo'[r][f] = halo[r][f]
         /\ \A q \in Rank : q # r => halo'[q] = halo[q]
<1>1. Types
  BY InvParts
<1>2. k \in Kind
  BY DEF Starting, PostsSends
<1>3. /\ Len(halo[r]) \in Nat /\ Len(halo'[r]) = Len(halo[r]) + 1
      /\ DOMAIN halo[r] = 1..Len(halo[r]) /\ DOMAIN halo'[r] = 1..(Len(halo[r]) + 1)
      /\ ~ halo'[r][Len(halo[r]) + 1].done
      /\ \A f \in DOMAIN halo[r] : halo'[r][f] = halo[r][f]
      /\ \A q \in Rank : q # r => halo'[q] = halo[q]
  BY <1>1, <1>2, ExchangeAppended DEF Starting
<1>4. e = Len(halo[r]) + 1
  BY DEF Starting
<1>5. \A q \in Rank : Len(halo[q]) \in Nat
  <2> TAKE q \in Rank
  <2>1. halo[q] \in Seq([kind : Kind, done : BOOLEAN, got : Seq(Message)])
    BY <1>1 DEF Types
  <2> QED
    BY <2>1
<1>6. Grows
  BY <1>3, <1>5 DEF Grows
<1> QED
  BY <1>3, <1>4, <1>6

\* Its sends carry the exchange and are awaited, and every other message is as it was.
LEMMA NewSends ==
  ASSUME IInv, NEW H, HistoryOK(H), \A q \in Rank : Follows(H, q), Messages(H),
         NEW r \in Rank, NEW n \in Name, NEW k, NEW tag, NEW bufs, NEW e, NEW m,
         Starting(H, r, n, k, tag, bufs, e, m)
  PROVE  \A s \in IsendAll(r, n, k, tag, bufs) :
           /\ s.src = r /\ s.dst \in Rank /\ s.tag \in Tag /\ s.seq \in Nat
           /\ Awaited(s) /\ \A w \in wire : ~ Matches(s, w)
<1> SUFFICES ASSUME NEW s \in IsendAll(r, n, k, tag, bufs)
             PROVE  /\ s.src = r /\ s.dst \in Rank /\ s.tag \in Tag /\ s.seq \in Nat
                    /\ Awaited(s) /\ \A w \in wire : ~ Matches(s, w)
  OBVIOUS
<1>1. /\ k \in Kind /\ tag \in Tag /\ H.kind[e] = k /\ H.label[e] = tag
      /\ nsent \in Counters /\ nsent' = CountPosted(nsent, r, Out[k][r], tag)
      /\ \A q \in Rank, t \in Tag : nsent'[r][q][t] = H.count[e][r][q][t]
      /\ e = Len(halo[r]) + 1 /\ e \in 1..H.num[Len(script)]
  BY DEF Starting, PostsSends
<1>2. PICK i \in DOMAIN Out[k][r] :
        s = [src |-> r, dst |-> Out[k][r][i], tag |-> tag, buf |-> bufs[i], name |-> n,
             seq |-> nsent[r][Out[k][r][i]][tag] + 1]
  BY DEF IsendAll
<1>3. /\ s.src = r /\ s.dst = Out[k][r][i] /\ s.tag = tag
      /\ s.seq = nsent[r][Out[k][r][i]][tag] + 1
  BY <1>2
<1>4. Out[k][r][i] \in Rank /\ Out[k][r][i] \in Range(Out[k][r])
  BY <1>1, Peers DEF Range
<1>5. nsent'[r][Out[k][r][i]][tag] = nsent[r][Out[k][r][i]][tag] + 1
  BY <1>1, <1>4 DEF CountPosted, Counters
<1>6. s.seq = H.count[e][r][s.dst][s.tag]
  <2>1. \A q \in Rank : nsent'[r][q][tag] = H.count[e][r][q][tag]
    BY <1>1
  <2>2. s.dst \in Rank /\ s.seq = nsent'[r][s.dst][tag]
    BY <1>3, <1>4, <1>5
  <2> QED
    BY <1>3, <2>1, <2>2
<1>7. Link(H, e, r, s.dst, s.tag)
  BY <1>1, <1>3, <1>4 DEF Link
<1>8. Awaited(s) /\ \A w \in wire : ~ Matches(s, w)
  BY ZenonT(40), <1>1, <1>3, <1>4, <1>6, <1>7, NewMessageAwaited DEF Messages
<1>9. s.seq \in Nat
  BY <1>1, <1>3, <1>4 DEF Counters
<1> QED
  BY <1>1, <1>3, <1>4, <1>8, <1>9

LEMMA StartingMessages ==
  ASSUME IInv, NEW H, HistoryOK(H), \A q \in Rank : Follows(H, q), Messages(H), Stable,
         NEW r \in Rank, NEW n \in Name, NEW k, NEW tag, NEW bufs, NEW e, NEW m,
         Starting(H, r, n, k, tag, bufs, e, m)
  PROVE  /\ \A s \in sends' : SendCarries(H, s)'
         /\ \A w \in wire' : MessageCarries(H, w)'
         /\ Completion'
         /\ \A s \in sends' : /\ s.src \in Rank /\ s.dst \in Rank /\ s.tag \in Tag
                              /\ s.seq \in Nat /\ Awaited(s)
         /\ \A s \in sends', w \in wire' : ~ Matches(s, w)
<1> DEFINE S == IsendAll(r, n, k, tag, bufs)
<1>0. Types /\ RequestsOwn
  BY InvParts
<1>1. /\ PostsSends(H, r, n, k, tag, bufs, e, m)
      /\ obj[r][n].st # "inflight" /\ obj'[r][n].st = "inflight" /\ obj'[r][n].exch = e
      /\ \A q \in Rank, l \in Name : (q # r \/ l # n) => obj'[q][l] = obj[q][l]
      /\ wire' = wire /\ sends' = sends \union S
  BY DEF Starting, PostsSends
<1>2. /\ Len(halo[r]) \in Nat /\ DOMAIN halo[r] = 1..Len(halo[r])
      /\ DOMAIN halo'[r] = 1..e /\ e \in Nat
      /\ ~ halo'[r][e].done /\ Grows
      /\ \A f \in DOMAIN halo[r] : f # e /\ halo'[r][f] = halo[r][f]
      /\ \A q \in Rank : q # r => halo'[q] = halo[q]
  BY StartingFacts
<1>3. \A s \in sends' : SendCarries(H, s)'
  <2>1. \A s \in S : SendCarries(H, s)'
    BY <1>1, PostedSends
  <2>2. ASSUME NEW s \in sends PROVE SendCarries(H, s)'
    <3>1. s.src \in Rank /\ s.name \in Name /\ obj[s.src][s.name].st = "inflight"
      BY <1>0, RequestTypes DEF RequestsOwn
    <3>2. obj'[s.src][s.name] = obj[s.src][s.name]
      BY <1>1, <3>1
    <3>3. SendCarries(H, s) /\ s \in sends'
      BY <1>1 DEF Messages, Carries
    <3> QED
      BY <3>2, <3>3, SendStill
  <2> QED
    BY <1>1, <2>1, <2>2
<1>4. \A w \in wire' : MessageCarries(H, w)'
  <2> SUFFICES ASSUME NEW w \in wire PROVE MessageCarries(H, w)'
    BY <1>1
  <2>1. MessageCarries(H, w) /\ w.src \in Rank
    BY <1>0 DEF Messages, Carries, Types
  <2>2. DOMAIN halo[w.src] \subseteq DOMAIN halo'[w.src]
    <3>1. CASE w.src = r
      <4>1. Len(halo[r]) + 1 = e
        BY DEF Starting
      <4> QED
        BY <1>2, <3>1, <4>1
    <3>2. CASE w.src # r
      BY <1>2, <2>1, <3>2
    <3> QED
      BY <3>1, <3>2
  <2> QED
    BY <2>1, <2>2, MessageStill
<1>5. Completion'
  <2> SUFFICES ASSUME NEW q \in Rank, NEW f \in DOMAIN halo'[q] PROVE Completes(q, f)'
    BY DEF Completion
  <2>1. CASE q = r /\ f = e
    BY <1>1, <1>2, <2>1 DEF Completes
  <2>2. CASE q # r \/ f # e
    <3>1. f \in DOMAIN halo[q] /\ halo'[q][f] = halo[q][f]
      <4>1. CASE q = r
        <5>1. Len(halo[r]) + 1 = e /\ f \in 1..e /\ f # e
          BY <1>2, <2>2, <4>1 DEF Starting
        <5>2. f \in DOMAIN halo[r]
          BY <1>2, <5>1
        <5> QED
          BY <1>2, <4>1, <5>2
      <4>2. CASE q # r
        BY <1>2, <4>2
      <4> QED
        BY <4>1, <4>2
    <3>2. halo[q][f].kind \in Kind /\ f \in Nat
      BY <1>0, <3>1, ExchangeKind
    <3>3. \A l \in Name : (obj'[q][l].st = "inflight" /\ obj'[q][l].exch = f)
                            <=> (obj[q][l].st = "inflight" /\ obj[q][l].exch = f)
      BY <1>1, <2>2
    <3>4. Completes(q, f)
      BY <3>1 DEF Messages, Completion
    <3> QED
      BY <1>2, <3>1, <3>2, <3>3, <3>4, CompletesStill
  <2> QED
    BY <2>1, <2>2
<1>6. \A s \in S : /\ s.src = r /\ s.dst \in Rank /\ s.tag \in Tag /\ s.seq \in Nat
                   /\ Awaited(s) /\ \A w \in wire : ~ Matches(s, w)
  BY NewSends
<1>7. \A s \in sends : /\ s.src \in Rank /\ s.dst \in Rank /\ s.tag \in Tag /\ s.seq \in Nat
                       /\ Awaited(s) /\ \A w \in wire : ~ Matches(s, w)
  BY <1>0, AwaitedTypes DEF Messages, NoneTwice
<1> QED
  BY <1>1, <1>3, <1>4, <1>5, <1>6, <1>7

\* Packing writes to no unpack buffer.
LEMMA PackKeepsSlots ==
  ASSUME IInv, NEW r \in Rank, NEW n \in Name, obj[r][n].st = "packing", NEW e \in Nat,
         NEW bufs, bufs = obj[r][n].bufs,
         mem' = [mem EXCEPT ![r] = Packed(r, "halo", bufs, e, mem[r])],
         NEW q \in Rank, NEW l \in Name, Live(q, l), NEW j \in DOMAIN In[obj[q][l].kind][q]
  PROVE  mem'[q][Slot(q, l, j)] = mem[q][Slot(q, l, j)]
<1>0. Types /\ PoolOK /\ ObjectShape /\ OneUser /\ "halo" \in Kind
  BY InvParts DEF PoolOK, Kind
<1>1. /\ Slot(q, l, j) \in Allocated(q) /\ Slot(q, l, j) \in Range(obj[q][l].bufs)
      /\ NumOut(q, obj[q][l].kind) + j \in DOMAIN obj[q][l].bufs
  BY SlotAllocated
<1>2. /\ bufs \in Seq(Nat) /\ Len(bufs) = NumBufs(r, "halo") /\ IsInjective(bufs)
      /\ obj[r][n].kind = "halo"
  BY <1>0, ObjectFacts
<1>3. ASSUME q = r, NEW i \in DOMAIN Out["halo"][r], bufs[i] = Slot(r, l, j) PROVE FALSE
  <2>1. i \in DOMAIN bufs /\ bufs[i] \in Range(bufs)
    BY <1>0, <1>2, BufferPositions DEF Range
  <2>2. l = n
    <3>1. bufs[i] \in Range(obj[r][n].bufs) /\ bufs[i] \in Range(obj[r][l].bufs)
      BY <1>1, <1>3, <2>1
    <3>2. l # n => Range(obj[r][l].bufs) \intersect Range(obj[r][n].bufs) = {}
      BY <1>0 DEF OneUser
    <3> QED
      BY <3>1, <3>2
  <2>3. /\ NumOut(r, "halo") + j \in DOMAIN bufs
        /\ NumOut(r, "halo") + j \notin DOMAIN Out["halo"][r]
    BY <1>0, <1>2, <1>3, <2>2, BufferPositions
  <2>4. bufs[i] = bufs[NumOut(r, "halo") + j]
    BY <1>2, <1>3, <2>2 DEF Slot
  <2> QED
    BY <1>2, <2>1, <2>3, <2>4 DEF IsInjective
<1>4. CASE q = r
  <2>1. Slot(q, l, j) \in DOMAIN mem[r]
    BY <1>1, <1>4 DEF Allocated
  <2>2. Packed(r, "halo", bufs, e, mem[r])[Slot(q, l, j)] = mem[r][Slot(q, l, j)]
    BY <1>3, <1>4, <2>1 DEF Packed
  <2> QED
    BY <1>0, <1>4, <2>2 DEF Types
<1>5. CASE q # r
  BY <1>0, <1>5 DEF Types
<1> QED
  BY <1>4, <1>5

LEMMA PackAndSendMessages ==
  ASSUME IInv, NEW H, HistoryOK(H), \A q \in Rank : Follows(H, q), Messages(H), Stable,
         NEW r \in Rank, NEW n \in Name, PackAndSend(r, n), Follows(H, r)'
  PROVE  Messages(H)'
<1> DEFINE o == obj[r][n]
           e == Len(halo[r]) + 1
           p == InFlight(o, e)
<1>0. Types /\ PoolOK /\ ObjectShape /\ RequestsOwn /\ "halo" \in Kind
  BY InvParts DEF Kind
<1>1. /\ o.st = "packing" /\ e \in Nat
      /\ o.kind = "halo" /\ o.tag \in Tag /\ o.bufs \in Seq(Nat)
      /\ Len(o.bufs) = NumBufs(r, "halo") /\ IsInjective(o.bufs)
      /\ p.st = "inflight" /\ p.exch = e /\ p.kind = "halo"
      /\ p.tag = o.tag /\ p.bufs = o.bufs
      /\ obj' = [obj EXCEPT ![r][n] = p]
      /\ mem' = [mem EXCEPT ![r] = Packed(r, "halo", o.bufs, e, mem[r])]
      /\ sends' = sends \union IsendAll(r, n, "halo", o.tag, o.bufs)
      /\ nsent' = CountPosted(nsent, r, Out["halo"][r], o.tag)
      /\ halo' = [halo EXCEPT ![r] =
                    Append(@, [kind |-> "halo", done |-> FALSE, got |-> <<>>])]
      /\ recvs' = recvs /\ wire' = wire /\ nrecv' = nrecv
  BY PackFacts
<1> HIDE DEF p
<1>2. /\ obj'[r][n] = p
      /\ \A q \in Rank, l \in Name : (q # r \/ l # n) => obj'[q][l] = obj[q][l]
  BY <1>0, <1>1 DEF Types
<1>3. Live(r, n) /\ ExchangeOf(r, n) = e
  BY <1>1 DEF Live, ExchangeOf
<1>4. e \in 1..H.num[Len(script)] /\ H.kind[e] = "halo" /\ H.label[e] = o.tag
  BY <1>1, <1>3, LiveExchange
<1>5. \A q \in Rank, t \in Tag : nsent'[r][q][t] = H.count[e][r][q][t]
  <2>1. Len(halo'[r]) = e
    BY <1>0, <1>1, ExchangeAppended
  <2> HIDE DEF e
  <2> QED
    BY <2>1 DEF Follows, FollowsCounts
<1>6. \A q \in Rank, l \in Name : Live(q, l) =>
        \A j \in DOMAIN In[obj[q][l].kind][q] : mem'[q][Slot(q, l, j)] = mem[q][Slot(q, l, j)]
  BY <1>1, PackKeepsSlots
<1>7. \A q \in Rank, l \in Name :
        /\ obj'[q][l].kind = obj[q][l].kind /\ obj'[q][l].bufs = obj[q][l].bufs
        /\ obj'[q][l].tag = obj[q][l].tag
        /\ Live(q, l)' => Live(q, l)
        /\ Live(q, l) => ExchangeOf(q, l)' = ExchangeOf(q, l)
  <2> SUFFICES ASSUME NEW q \in Rank, NEW l \in Name
               PROVE  /\ obj'[q][l].kind = obj[q][l].kind /\ obj'[q][l].bufs = obj[q][l].bufs
                      /\ obj'[q][l].tag = obj[q][l].tag
                      /\ Live(q, l)' => Live(q, l)
                      /\ Live(q, l) => ExchangeOf(q, l)' = ExchangeOf(q, l)
    OBVIOUS
  <2>1. CASE q = r /\ l = n
    BY <1>1, <1>2, <1>3, <2>1 DEF Live, ExchangeOf
  <2>2. CASE q # r \/ l # n
    <3>1. obj'[q][l] = obj[q][l]
      BY <1>2, <2>2
    <3>2. CASE q # r
      <4>1. halo'[q] = halo[q]
        BY <1>0, <1>1, <3>2, ExchangeAppended
      <4> QED
        BY <3>1, <4>1 DEF Live, ExchangeOf
    <3>3. CASE q = r
      <4>1. obj[r][l].st # "packing"
        BY <1>1, <2>2, <3>3, PackingOne
      <4> QED
        BY <3>1, <3>3, <4>1 DEF Live, ExchangeOf
    <3> QED
      BY <3>2, <3>3
  <2> QED
    BY <2>1, <2>2
<1>8. Starting(H, r, n, "halo", o.tag, o.bufs, e, mem[r])
  <2>1. Range(o.bufs) \subseteq DOMAIN mem[r] /\ nsent \in Counters
    BY <1>0 DEF PoolOK, BuffersAllocated, Allocated, Types, Counters
  <2>2. mem'[r] = Packed(r, "halo", o.bufs, e, mem[r])
    BY <1>0, <1>1 DEF Types
  <2>3. PostsSends(H, r, n, "halo", o.tag, o.bufs, e, mem[r])
    <3> HIDE DEF o, e
    <3> QED
      BY <1>0, <1>1, <1>2, <1>5, <2>1, <2>2 DEF PostsSends
  <2> QED
    BY <1>1, <1>2, <1>4, <2>3 DEF Starting
<1>9. /\ \A s \in sends' : SendCarries(H, s)'
      /\ \A w \in wire' : MessageCarries(H, w)'
      /\ Completion'
      /\ \A s \in sends' : Awaited(s)
      /\ \A s \in sends', w \in wire' : ~ Matches(s, w)
      /\ Grows
  <2> HIDE DEF o, e
  <2> QED
    BY <1>8, StartingFacts, StartingMessages
<1> HIDE DEF o, e
<1>10. \A v \in recvs' : RecvCarries(H, v)'
  <2> SUFFICES ASSUME NEW v \in recvs PROVE RecvCarries(H, v)'
    BY <1>1
  <2>1. v.dst \in Rank /\ v.name \in Name /\ Live(v.dst, v.name) /\ RecvCarries(H, v)
    BY <1>0, RequestTypes DEF RequestsOwn, Live, Messages, Carries
  <2> QED
    BY <1>7, <2>1, RecvStill
<1>11. Delivered'
  <2> SUFFICES ASSUME NEW q \in Rank, NEW l \in Name, Live(q, l)',
                      NEW j \in DOMAIN In[obj[q][l].kind][q]
               PROVE  SlotOK(q, l, j)'
    BY <1>7 DEF Delivered
  <2>1. Live(q, l) /\ SlotOK(q, l, j)
    BY <1>7 DEF Messages, Delivered
  <2>2. ExchangeOf(q, l) \in Nat
    <3>1. H.num[Len(script)] \in Nat
      BY StartedExchange
    <3> QED
      BY <2>1, <3>1, LiveExchange
  <2> QED
    BY <1>1, <1>6, <1>7, <1>9, <2>1, <2>2, SlotStill
<1>12. NoneTwice'
  <2>1. \A x : Awaited(x)' <=> Awaited(x)
    BY <1>1 DEF Awaited
  <2>2. \A w \in wire' : Awaited(w)
    BY <1>1 DEF Messages, NoneTwice
  <2> QED
    BY <1>9, <2>1, <2>2 DEF NoneTwice
<1> QED
  BY <1>9, <1>10, <1>11, <1>12 DEF Messages, Carries

\* A request that is new packs into no unpack buffer of an updater in flight.
LEMMA SyncKeepsSlots ==
  ASSUME IInv, NEW r \in Rank, NEW e,
         NEW f, f = pop_from_cache(r, NumBufs(r, "sync")),
         mem' = [mem EXCEPT ![r] =
                   Packed(r, "sync", f, e, MemAfterPop(r, NumBufs(r, "sync")))],
         NEW q \in Rank, NEW l \in Name, Live(q, l), NEW j \in DOMAIN In[obj[q][l].kind][q]
  PROVE  mem'[q][Slot(q, l, j)] = mem[q][Slot(q, l, j)]
<1> DEFINE m == MemAfterPop(r, NumBufs(r, "sync"))
           b == Slot(q, l, j)
<1>0. Types /\ OneUser /\ "sync" \in Kind
  BY InvParts DEF PoolOK, Kind
<1>1. b \in Allocated(q) /\ b \in Range(obj[q][l].bufs)
  BY SlotAllocated
<1>2. /\ f \in Seq(Nat) /\ Len(f) = NumBufs(r, "sync")
      /\ Range(f) \intersect Allocated(r) \subseteq Range(cache[r])
      /\ \A c \in Allocated(r) : c \in DOMAIN m /\ m[c] = mem[r][c]
  BY <1>0, PopMemory
<1>3. mem' = [mem EXCEPT ![r] = Packed(r, "sync", f, e, m)]
  OBVIOUS
<1> HIDE DEF m, b
<1>4. CASE q = r
  <2>1. Range(obj[r][l].bufs) \intersect Range(cache[r]) = {}
    BY <1>0 DEF OneUser
  <2>2. b \notin Range(f)
    BY <1>1, <1>2, <1>4, <2>1
  <2>3. \A i \in DOMAIN Out["sync"][r] : f[i] # b
    BY <1>0, <1>2, <2>2, BufferPositions DEF Range
  <2>4. Packed(r, "sync", f, e, m)[b] = mem[r][b]
    BY <1>1, <1>2, <1>4, <2>3 DEF Packed
  <2> QED
    BY <1>0, <1>3, <1>4, <2>4 DEF Types, b
<1>5. CASE q # r
  BY <1>0, <1>3, <1>5 DEF Types, b
<1> QED
  BY <1>4, <1>5

\* The place of a new request in the history.
SyncPlace(H, r, e) ==
  /\ e \in 1..H.num[Len(script)] /\ H.kind[e] = "sync" /\ H.label[e] = SyncTag
  /\ \A q \in Rank, t \in Tag : /\ nsent'[r][q][t] = H.count[e][r][q][t]
                                /\ nrecv'[r][q][t] = H.count[e][q][r][t]

LEMMA SyncExchange ==
  ASSUME IInv, NEW H, HistoryOK(H), NEW r \in Rank, Follows(H, r), Follows(H, r)',
         NEW n \in Name, StartSync(r, n), NEW e, e = Len(halo[r]) + 1
  PROVE  SyncPlace(H, r, e)
<1> DEFINE f == pop_from_cache(r, NumBufs(r, "sync"))
           p == SyncRequest(f, e)
<1>0. Types /\ H \in Histories
  BY InvParts DEF HistoryOK
<1>1. /\ AtCall(r, "sync", n) /\ obj[r][n].st # "packing" /\ p.st = "inflight"
      /\ obj' = [obj EXCEPT ![r][n] = p] /\ e \in Nat
      /\ halo' = [halo EXCEPT ![r] =
                    Append(@, [kind |-> "sync", done |-> FALSE, got |-> <<>>])]
      /\ pc' = [pc EXCEPT ![r] = pc[r] + 1]
  <2>1. SyncStep(r, n, f, e, p)
    BY StartSyncFacts
  <2> HIDE DEF f, p
  <2> QED
    BY <2>1 DEF SyncStep
<1> HIDE DEF f, p
<1>2. /\ pc[r] \in Nat /\ CallEffect(H, pc[r] + 1, "sync", n)
      /\ H.num[pc[r] + 1] <= H.num[Len(script)] /\ H.num[pc[r] + 1] = H.num[pc[r]] + 1
  BY <1>0, <1>1, CallStep, CallNumbers DEF Starts
<1>3. Len(halo[r]) = H.num[pc[r]] /\ Len(halo[r]) \in Nat /\ H.num[Len(script)] \in Nat
  BY StartedExchange
<1>4. H.num[pc[r] + 1] = e /\ e \in 1..H.num[Len(script)]
  BY <1>2, <1>3
<1>5. H.view[pc[r] + 1][n] = View("inflight", "sync", SyncTag, FALSE, e)
  <2>1. (pc[r] + 1) - 1 = pc[r]
    BY <1>2
  <2>2. H.view[pc[r]] \in [Name -> Views]
    BY <1>0, <1>2 DEF Histories
  <2>3. H.view[pc[r] + 1] =
          [H.view[pc[r]] EXCEPT
             ![n] = ViewAfter("sync", H.view[pc[r]][n], H.tag[pc[r] + 1], e)]
    BY <1>2, <1>4, <2>1 DEF CallEffect
  <2>4. H.view[pc[r] + 1][n] = ViewAfter("sync", H.view[pc[r]][n], H.tag[pc[r] + 1], e)
    BY <2>2, <2>3
  <2> QED
    BY <2>4 DEF ViewAfter
<1>6. H.kind[e] = "sync" /\ H.label[e] = SyncTag
  BY <1>2, <1>4, <1>5 DEF CallEffect, Starts, View
<1>7. Len(halo'[r]) = e
  BY <1>0, <1>1, ExchangeAppended DEF Kind
<1>8. Posted(r)' = pc[r] + 1
  <2>1. \A l \in Name : obj[r][l].st # "packing"
    BY <1>1, NotPacking
  <2>2. \A l \in Name : obj'[r][l].st # "packing"
    BY <1>0, <1>1, <2>1 DEF Types
  <2>3. pc'[r] = pc[r] + 1
    BY <1>0, <1>1 DEF Types
  <2> QED
    BY <2>2, <2>3 DEF Posted, Packing
<1>9. \A q \in Rank, t \in Tag :
        /\ nsent'[r][q][t] = H.count[Len(halo'[r])][r][q][t]
        /\ nrecv'[r][q][t] = H.count[H.num[Posted(r)']][q][r][t]
  BY DEF Follows, FollowsCounts
<1> QED
  BY SMTT(30), <1>4, <1>6, <1>7, <1>8, <1>9 DEF SyncPlace

LEMMA StartSyncMessages ==
  ASSUME IInv, NEW H, HistoryOK(H), \A q \in Rank : Follows(H, q), Messages(H), Stable,
         NEW r \in Rank, NEW n \in Name, StartSync(r, n), Follows(H, r)'
  PROVE  Messages(H)'
<1> DEFINE f == pop_from_cache(r, NumBufs(r, "sync"))
           e == Len(halo[r]) + 1
           p == SyncRequest(f, e)
           m == MemAfterPop(r, NumBufs(r, "sync"))
<1>0. Types /\ PoolOK /\ RequestsOwn /\ "sync" \in Kind
  BY InvParts DEF Kind
<1>1. SyncStep(r, n, f, e, p)
  BY StartSyncFacts
<1>2. /\ e \in 1..H.num[Len(script)] /\ H.kind[e] = "sync" /\ H.label[e] = SyncTag
      /\ \A q \in Rank, t \in Tag : /\ nsent'[r][q][t] = H.count[e][r][q][t]
                                    /\ nrecv'[r][q][t] = H.count[e][q][r][t]
  <2>1. e = Len(halo[r]) + 1 /\ Follows(H, r)
    OBVIOUS
  <2> HIDE DEF f, e, p
  <2> QED
    BY <2>1, SyncExchange DEF SyncPlace
<1>3. Range(f) \subseteq DOMAIN m
  <2>1. /\ cache[r] \in Seq(Nat) /\ mem[r] \in Seq(Message) /\ IsInjective(cache[r])
        /\ Range(cache[r]) \subseteq Allocated(r)
    BY <1>0 DEF Types, PoolOK, OneUser, BuffersAllocated
  <2>2. NumBufs(r, "sync") \in Nat
    BY <1>0, Peers
  <2>3. Taken(cache[r], Allocated(r), f, CacheAfterPop(r, NumBufs(r, "sync")), DOMAIN m)
    BY <2>1, <2>2, PopFromCache
  <2> HIDE DEF f, m
  <2> QED
    BY <2>3 DEF Taken
<1>4. /\ mem' = [mem EXCEPT ![r] = Packed(r, "sync", f, e, m)]
      /\ e = Len(halo[r]) + 1
  <2> HIDE DEF f, p, e
  <2>1. mem' = [mem EXCEPT ![r] = Packed(r, "sync", f, e, m)]
    BY <1>1 DEF SyncStep
  <2> QED
    BY <2>1 DEF e
<1>5. \A q \in Rank, l \in Name : Live(q, l) =>
        \A j \in DOMAIN In[obj[q][l].kind][q] : mem'[q][Slot(q, l, j)] = mem[q][Slot(q, l, j)]
  <2> HIDE DEF e
  <2> QED
    BY <1>4, SyncKeepsSlots
<1> HIDE DEF f, e, p, m
<1>6. /\ obj'[r][n] = p /\ p.st = "inflight" /\ p.kind = "sync" /\ p.exch = e
      /\ p.tag = SyncTag /\ p.bufs = f
      /\ \A q \in Rank, l \in Name : (q # r \/ l # n) => obj'[q][l] = obj[q][l]
      /\ ~ Live(r, n)
  BY <1>0, <1>1 DEF SyncStep, Types, Live
<1>7. /\ sends' = sends \union IsendAll(r, n, "sync", SyncTag, f)
      /\ recvs' = recvs \union IrecvAll(r, n, "sync", SyncTag, f)
      /\ nsent' = CountPosted(nsent, r, Out["sync"][r], SyncTag)
      /\ nrecv' = CountPosted(nrecv, r, In["sync"][r], SyncTag)
      /\ halo' = [halo EXCEPT ![r] =
                    Append(@, [kind |-> "sync", done |-> FALSE, got |-> <<>>])]
      /\ wire' = wire /\ SyncTag \in Tag
      /\ f \in Seq(Nat) /\ Len(f) = NumBufs(r, "sync") /\ IsInjective(f)
  BY <1>1 DEF SyncStep
<1>8. nsent \in Counters /\ nrecv \in Counters /\ mem'[r] = Packed(r, "sync", f, e, m)
  BY <1>0, <1>4 DEF Types, Counters
<1>9. PostsRecvs(H, r, n, "sync", SyncTag, f, e)
  <2>1. ExchangeOf(r, n)' = e
    BY <1>6 DEF ExchangeOf
  <2> QED
    BY <1>0, <1>2, <1>6, <1>7, <1>8, <2>1 DEF PostsRecvs
<1>10. Starting(H, r, n, "sync", SyncTag, f, e, m)
  <2>1. PostsSends(H, r, n, "sync", SyncTag, f, e, m)
    BY <1>0, <1>2, <1>3, <1>6, <1>7, <1>8 DEF PostsSends
  <2> QED
    BY <1>2, <1>4, <1>6, <1>7, <2>1 DEF Starting, Live
<1>11. /\ \A s \in sends' : SendCarries(H, s)'
       /\ \A w \in wire' : MessageCarries(H, w)'
       /\ Completion'
       /\ \A s \in sends' : /\ s.src \in Rank /\ s.dst \in Rank /\ s.tag \in Tag
                            /\ s.seq \in Nat /\ Awaited(s)
       /\ \A s \in sends', w \in wire' : ~ Matches(s, w)
       /\ Grows
  BY <1>10, StartingFacts, StartingMessages
<1>12. /\ \A v \in IrecvAll(r, n, "sync", SyncTag, f) : RecvCarries(H, v)'
       /\ \A j \in DOMAIN In["sync"][r] : SlotOK(r, n, j)'
  BY <1>9, PostedRecvs
<1>13. \A q \in Rank, l \in Name : Live(q, l) =>
         obj'[q][l] = obj[q][l] /\ ExchangeOf(q, l)' = ExchangeOf(q, l)
  <2> SUFFICES ASSUME NEW q \in Rank, NEW l \in Name, Live(q, l)
               PROVE  obj'[q][l] = obj[q][l] /\ ExchangeOf(q, l)' = ExchangeOf(q, l)
    OBVIOUS
  <2>1. obj'[q][l] = obj[q][l]
    BY <1>6
  <2>2. CASE q # r
    <3>1. halo'[q] = halo[q]
      BY <1>0, <1>7, <2>2, ExchangeAppended
    <3> QED
      BY <2>1, <3>1 DEF ExchangeOf
  <2>3. CASE q = r
    <3>1. AtCall(r, "sync", n) /\ obj[r][n].st # "packing"
      BY <1>1 DEF SyncStep
    <3>2. obj[r][l].st # "packing"
      BY <3>1, NotPacking
    <3> QED
      BY <2>1, <2>3, <3>2 DEF ExchangeOf
  <2> QED
    BY <2>2, <2>3
<1>14. \A v \in recvs' : RecvCarries(H, v)'
  <2>1. ASSUME NEW v \in recvs PROVE RecvCarries(H, v)'
    <3>1. v.dst \in Rank /\ v.name \in Name /\ Live(v.dst, v.name) /\ RecvCarries(H, v)
      BY <1>0, RequestTypes DEF RequestsOwn, Live, Messages, Carries
    <3> QED
      BY <1>13, <3>1, RecvStill
  <2> QED
    BY <1>7, <1>12, <2>1
<1>15. Delivered'
  <2> SUFFICES ASSUME NEW q \in Rank, NEW l \in Name, Live(q, l)',
                      NEW j \in DOMAIN In[obj'[q][l].kind][q]
               PROVE  SlotOK(q, l, j)'
    BY DEF Delivered
  <2>1. CASE q = r /\ l = n
    BY <1>6, <1>12, <2>1
  <2>2. CASE q # r \/ l # n
    <3>1. Live(q, l) /\ obj'[q][l] = obj[q][l] /\ SlotOK(q, l, j)
      BY <1>6, <2>2 DEF Live, Messages, Delivered
    <3>2. ExchangeOf(q, l) \in Nat
      <4>1. H.num[Len(script)] \in Nat
        BY StartedExchange
      <4> QED
        BY <3>1, <4>1, LiveExchange
    <3>3. \A v \in recvs : v \in recvs'
      BY <1>7
    <3> QED
      BY <1>5, <1>11, <1>13, <3>1, <3>2, <3>3, SlotStill
  <2> QED
    BY <2>1, <2>2
<1>16. NoneTwice'
  <2>1. ASSUME NEW x, x.src \in Rank, x.dst \in Rank, x.tag \in Tag, x.seq \in Nat, Awaited(x)
        PROVE  Awaited(x)'
    BY <1>9, <2>1, AwaitedPosting
  <2>2. \A s \in sends' : Awaited(s)'
    BY <1>11, <2>1
  <2>3. \A w \in wire' : Awaited(w)'
    BY <1>0, <1>7, <2>1, AwaitedTypes DEF Messages, NoneTwice
  <2> QED
    BY <1>11, <2>2, <2>3 DEF NoneTwice
<1> QED
  BY <1>11, <1>14, <1>15, <1>16 DEF Messages, Carries

\* MPI copies a message out of its send buffer.
LEMMA BufferMessageMessages ==
  ASSUME IInv, NEW H, HistoryOK(H), \A q \in Rank : Follows(H, q), Messages(H), Stable,
         NEW s \in sends, BufferMessage(s)
  PROVE  Messages(H)'
<1> DEFINE w == [src |-> s.src, dst |-> s.dst, tag |-> s.tag, seq |-> s.seq,
                 val |-> mem[s.src][s.buf]]
<1>1. /\ sends' = sends \ {s} /\ wire' = wire \union {w} /\ recvs' = recvs
      /\ obj' = obj /\ mem' = mem /\ nrecv' = nrecv /\ halo' = halo
  BY DEF BufferMessage, rankVars
<1>2. /\ w.src = s.src /\ w.dst = s.dst /\ w.tag = s.tag /\ w.seq = s.seq
      /\ w.val = mem[s.src][s.buf]
  OBVIOUS
<1> HIDE DEF w
<1>3. SendCarries(H, s) /\ Awaited(s)
  BY DEF Messages, Carries, NoneTwice
<1>4. MessageCarries(H, w)
  <2> DEFINE e == obj[s.src][s.name].exch
  <2>1. /\ e \in DOMAIN halo[s.src] /\ Link(H, e, s.src, s.dst, s.tag)
        /\ s.seq = H.count[e][s.src][s.dst][s.tag]
    BY <1>3, SendExchange
  <2>2. mem[s.src][s.buf] = Abstract!Published(s.src, s.dst, e)
    BY <1>3 DEF SendCarries
  <2> HIDE DEF e
  <2> QED
    BY <1>2, <2>1, <2>2 DEF MessageCarries
<1>5. Carries(H)'
  <2>1. \A t \in sends' : SendCarries(H, t)'
    BY <1>1 DEF Messages, Carries, SendCarries
  <2>2. \A v \in recvs' : RecvCarries(H, v)'
    BY <1>1 DEF Messages, Carries, RecvCarries, ExchangeOf
  <2>3. \A x \in wire' : MessageCarries(H, x)'
    <3>1. \A x : MessageCarries(H, x) => MessageCarries(H, x)'
      BY <1>1, MessageStill
    <3> QED
      BY <1>1, <1>4, <3>1 DEF Messages, Carries
  <2> QED
    BY <2>1, <2>2, <2>3 DEF Carries
<1>6. Delivered'
  <2> SUFFICES ASSUME NEW r \in Rank, NEW n \in Name, Live(r, n),
                      NEW j \in DOMAIN In[obj[r][n].kind][r]
               PROVE  SlotOK(r, n, j)'
    BY <1>1 DEF Delivered, Live
  <2>1. Slot(r, n, j)' = Slot(r, n, j) /\ ExchangeOf(r, n)' = ExchangeOf(r, n)
    BY <1>1 DEF Slot, ExchangeOf
  <2>2. SlotOK(r, n, j)
    BY DEF Messages, Delivered
  <2> QED
    BY <1>1, <2>1, <2>2 DEF SlotOK
<1>7. Completion'
  BY <1>1 DEF Messages, Completion, Completes
<1>8. NoneTwice'
  <2>1. \A x : Awaited(x)' <=> Awaited(x)
    BY <1>1 DEF Awaited
  <2>2. Awaited(w)
    BY <1>2, <1>3 DEF Awaited, Matches
  <2>3. ASSUME NEW t \in sends, Matches(t, w) PROVE t = s
    <3>1. Matches(s, t) /\ SendCarries(H, t)
      BY <1>2, <2>3 DEF Matches, Messages, Carries
    <3> QED
      BY <1>3, <3>1, SendsDiffer
  <2> QED
    BY <1>1, <2>1, <2>2, <2>3 DEF Messages, NoneTwice
<1> QED
  BY <1>5, <1>6, <1>7, <1>8 DEF Messages

\* MPI completes receive v with what its source published.
LEMMA ReceivedMessages ==
  ASSUME IInv, NEW H, HistoryOK(H), \A q \in Rank : Follows(H, q), Messages(H), Stable,
         NEW v \in recvs, NEW e, e = ExchangeOf(v.dst, v.name), e <= Len(halo[v.src]),
         NEW x \in Message, x = Abstract!Published(v.src, v.dst, e),
         mem' = [mem EXCEPT ![v.dst][v.buf] = x],
         sends' \subseteq sends, recvs' = recvs \ {v}, wire' \subseteq wire,
         obj' = obj, nrecv' = nrecv, halo' = halo,
         \A s \in sends' : ~ Matches(s, v), \A w \in wire' : ~ Matches(w, v)
  PROVE  Messages(H)'
<1>0. Types /\ PoolOK /\ ObjectShape /\ RequestsOwn /\ OneUser
  BY InvParts DEF PoolOK
<1>1. v.dst \in Rank /\ v.name \in Name /\ Live(v.dst, v.name) /\ RecvCarries(H, v)
  BY <1>0, RequestTypes DEF RequestsOwn, Live, Messages, Carries
<1>2. Grows
  <2>1. \A q \in Rank : Len(halo[q]) \in Nat
    BY StartedExchange
  <2> QED
    BY <2>1 DEF Grows
<1>3. Carries(H)'
  <2>1. \A s \in sends' : SendCarries(H, s)'
    BY SendStill DEF Messages, Carries
  <2>2. \A u \in recvs' : RecvCarries(H, u)'
    BY DEF Messages, Carries, RecvCarries, ExchangeOf
  <2>3. \A w \in wire' : MessageCarries(H, w)'
    BY MessageStill DEF Messages, Carries
  <2> QED
    BY <2>1, <2>2, <2>3 DEF Carries
<1>4. Delivered'
  <2> SUFFICES ASSUME NEW q \in Rank, NEW l \in Name, Live(q, l),
                      NEW j \in DOMAIN In[obj[q][l].kind][q]
               PROVE  SlotOK(q, l, j)'
    BY DEF Delivered, Live
  <2> DEFINE b == Slot(q, l, j)
  <2>1. /\ b \in Nat /\ b \in Range(obj[q][l].bufs)
        /\ b \in Allocated(q) /\ SlotOK(q, l, j)
    BY SlotAllocated DEF Messages, Delivered
  <2>2. ExchangeOf(q, l)' = ExchangeOf(q, l) /\ Slot(q, l, j)' = b
    BY DEF ExchangeOf, Slot
  <2>3. CASE v.dst = q /\ v.buf = b
    <3>1. v.name = l
      <4>1. b \in Range(obj[q][v.name].bufs)
        BY <2>3, RequestBuffers
      <4>2. v.name # l =>
              Range(obj[q][v.name].bufs) \intersect Range(obj[q][l].bufs) = {}
        BY <1>0, <1>1 DEF OneUser
      <4> QED
        BY <2>1, <4>1, <4>2
    <3>2. PICK j2 \in DOMAIN In[obj[q][l].kind][q] :
            v.src = In[obj[q][l].kind][q][j2] /\ v.buf = Slot(q, l, j2)
      BY <1>1, <2>3, <3>1 DEF RecvCarries, Slot
    <3>3. j2 = j
      BY <2>3, <3>2, SlotInjective
    <3>4. mem'[q][b] = x
      <4>1. b \in DOMAIN mem[q]
        BY <2>1 DEF Allocated
      <4> HIDE DEF b
      <4> QED
        BY <1>0, <2>3, <4>1 DEF Types
    <3> QED
      BY <2>2, <2>3, <3>1, <3>2, <3>3, <3>4 DEF SlotOK
  <2>4. CASE ~ (v.dst = q /\ v.buf = b)
    <3>1. mem'[q][b] = mem[q][b]
      <4>1. mem \in [Rank -> Seq(Message)]
        BY <1>0 DEF Types
      <4> QED
        BY <1>1, <2>1, <2>4, <4>1, WriteMemory
    <3>2. ExchangeOf(q, l) \in Nat
      <4>1. H.num[Len(script)] \in Nat
        BY StartedExchange
      <4> QED
        BY <4>1, LiveExchange
    <3>3. \A u \in recvs : u.dst = q /\ u.name = l /\ u.buf = Slot(q, l, j) => u \in recvs'
      BY <2>4
    <3> QED
      BY <1>2, <2>1, <2>2, <3>1, <3>2, <3>3, SlotStill
  <2> QED
    BY <2>3, <2>4
<1>5. Completion'
  BY DEF Messages, Completion, Completes
<1>6. NoneTwice'
  <2>1. ASSUME NEW y, Awaited(y), ~ Matches(y, v) PROVE Awaited(y)'
    BY <2>1 DEF Awaited, Matches
  <2>2. /\ \A s \in sends' : Awaited(s)'
        /\ \A w \in wire' : Awaited(w)'
    BY <2>1 DEF Messages, NoneTwice
  <2> QED
    BY <2>2 DEF Messages, NoneTwice
<1> QED
  BY <1>3, <1>4, <1>5, <1>6 DEF Messages

LEMMA TransferMessages ==
  ASSUME IInv, NEW H, HistoryOK(H), \A q \in Rank : Follows(H, q), Messages(H), Stable,
         NEW s \in sends, NEW v \in recvs, Transfer(s, v)
  PROVE  Messages(H)'
<1> DEFINE e == ExchangeOf(v.dst, v.name)
           x == mem[s.src][s.buf]
<1>1. /\ Matches(s, v) /\ sends' = sends \ {s} /\ recvs' = recvs \ {v} /\ wire' = wire
      /\ mem' = [mem EXCEPT ![v.dst][v.buf] = x]
      /\ obj' = obj /\ nrecv' = nrecv /\ halo' = halo
  BY DEF Transfer, rankVars
<1>2. SendCarries(H, s) /\ RecvCarries(H, v)
  BY DEF Messages, Carries
<1>3. obj[s.src][s.name].exch = e
  BY <1>1, <1>2, MatchingSend
<1>4. e <= Len(halo[v.src])
  <2>1. e \in DOMAIN halo[s.src] /\ s.src \in Rank
    BY <1>2, <1>3, SendExchange
  <2>2. DOMAIN halo[s.src] = 1..Len(halo[s.src])
    BY <2>1, StartedExchange
  <2> QED
    BY <1>1, <2>1, <2>2 DEF Matches
<1>5. x \in Message /\ x = Abstract!Published(v.src, v.dst, e)
  <2>1. x \in Message
    BY InvParts, SendContent
  <2> QED
    BY <1>1, <1>2, <1>3, <2>1 DEF SendCarries, Matches
<1>6. \A t \in sends' : ~ Matches(t, v)
  <2> SUFFICES ASSUME NEW t \in sends, Matches(t, v) PROVE t = s
    BY <1>1
  <2>1. Matches(s, t) /\ SendCarries(H, t)
    BY <1>1 DEF Matches, Messages, Carries
  <2> QED
    BY <1>2, <2>1, SendsDiffer
<1>7. \A w \in wire' : ~ Matches(w, v)
  BY <1>1 DEF Messages, NoneTwice, Matches
<1> HIDE DEF x
<1>8. e = ExchangeOf(v.dst, v.name)
  OBVIOUS
<1> HIDE DEF e
<1>9. sends' \subseteq sends /\ wire' \subseteq wire
  BY <1>1
<1> QED
  BY <1>1, <1>4, <1>5, <1>6, <1>7, <1>8, <1>9, ReceivedMessages

LEMMA DeliverMessages ==
  ASSUME IInv, NEW H, HistoryOK(H), \A q \in Rank : Follows(H, q), Messages(H), Stable,
         NEW w \in wire, NEW v \in recvs, Deliver(w, v)
  PROVE  Messages(H)'
<1> DEFINE e == ExchangeOf(v.dst, v.name)
           x == w.val
<1>1. /\ Matches(w, v) /\ sends' = sends /\ recvs' = recvs \ {v} /\ wire' = wire \ {w}
      /\ mem' = [mem EXCEPT ![v.dst][v.buf] = x]
      /\ obj' = obj /\ nrecv' = nrecv /\ halo' = halo
  BY DEF Deliver, rankVars
<1>2. MessageCarries(H, w) /\ RecvCarries(H, v)
  BY DEF Messages, Carries
<1>3. x \in Message
  BY InvParts DEF Types
<1>4. x = Abstract!Published(v.src, v.dst, e) /\ e <= Len(halo[v.src])
  BY <1>1, <1>2, MatchingMessage
<1>5. \A t \in sends' : ~ Matches(t, v)
  BY <1>1 DEF Messages, NoneTwice, Matches
<1>6. \A y \in wire' : ~ Matches(y, v)
  <2> SUFFICES ASSUME NEW y \in wire, Matches(y, v) PROVE y = w
    BY <1>1
  <2>1. Matches(w, y) /\ MessageCarries(H, y)
    BY <1>1 DEF Matches, Messages, Carries
  <2> QED
    BY <1>2, <2>1, MessagesDiffer
<1> HIDE DEF x
<1>7. e = ExchangeOf(v.dst, v.name)
  OBVIOUS
<1> HIDE DEF e
<1>8. sends' \subseteq sends /\ wire' \subseteq wire
  BY <1>1
<1> QED
  BY <1>1, <1>3, <1>4, <1>5, <1>6, <1>7, <1>8, ReceivedMessages

\* The exchange that a rank completes: every neighbour has started it, and
\* what the neighbour published is in the unpack buffers.
WaitedFor(r, n, e) ==
  /\ e = obj[r][n].exch /\ e \in DOMAIN halo[r] /\ e \in Nat /\ ~ halo[r][e].done
  /\ halo[r][e].kind = obj[r][n].kind
  /\ \A j \in DOMAIN In[obj[r][n].kind][r] :
       /\ mem[r][Slot(r, n, j)] = Abstract!Published(In[obj[r][n].kind][r][j], r, e)
       /\ e <= Len(halo[In[obj[r][n].kind][r][j]])
  /\ \A m \in Name : Live(r, m) /\ ExchangeOf(r, m) = e => m = n

LEMMA WaitExchange ==
  ASSUME IInv, NEW H, HistoryOK(H), \A q \in Rank : Follows(H, q), Messages(H),
         NEW r \in Rank, NEW n \in Name, Wait(r, n), NEW e, e = obj[r][n].exch
  PROVE  WaitedFor(r, n, e)
<1>1. obj[r][n].st = "inflight" /\ e \in DOMAIN halo[r] /\ RecvsComplete(r, n)
  BY WaitFacts
<1>2. Live(r, n) /\ ExchangeOf(r, n) = e
  BY <1>1 DEF Live, ExchangeOf
<1>3. /\ H.kind[e] = obj[r][n].kind
      /\ \A m \in Name : Live(r, m) /\ ExchangeOf(r, m) = e => m = n
  BY <1>2, LiveExchange
<1>4. halo[r][e].kind = H.kind[e]
  BY <1>1 DEF Follows, FollowsCalls
<1>5. e \in Nat
  BY <1>1, InvParts, ExchangeKind
<1>6. ~ halo[r][e].done
  BY <1>1 DEF Messages, Completion, Completes
<1>7. ASSUME NEW j \in DOMAIN In[obj[r][n].kind][r]
      PROVE  /\ mem[r][Slot(r, n, j)] = Abstract!Published(In[obj[r][n].kind][r][j], r, e)
             /\ e <= Len(halo[In[obj[r][n].kind][r][j]])
  <2>1. SlotOK(r, n, j)
    BY <1>2 DEF Messages, Delivered
  <2>2. ~ \E v \in recvs : v.dst = r /\ v.name = n /\ v.buf = Slot(r, n, j)
    BY <1>1 DEF RecvsComplete
  <2> QED
    BY <1>2, <2>1, <2>2 DEF SlotOK
<1> QED
  BY <1>1, <1>3, <1>4, <1>5, <1>6, <1>7 DEF WaitedFor

LEMMA WaitMessages ==
  ASSUME IInv, NEW H, HistoryOK(H), \A q \in Rank : Follows(H, q), Messages(H), Stable,
         NEW r \in Rank, NEW n \in Name, Wait(r, n)
  PROVE  Messages(H)'
<1> DEFINE o == obj[r][n]
           p == Waited(o)
           e == o.exch
           got == Unpacked(r, o)
<1>0. Types /\ PoolOK /\ ObjectShape /\ RequestsOwn
  BY InvParts
<1>1. /\ SendsComplete(r, n) /\ RecvsComplete(r, n)
      /\ obj' = [obj EXCEPT ![r][n] = p]
      /\ p.st \notin {"packing", "inflight"}
      /\ o.st = "inflight" /\ got \in Seq(Message)
      /\ halo' = [halo EXCEPT ![r][e].done = TRUE, ![r][e].got = got]
      /\ mem' = mem /\ sends' = sends /\ recvs' = recvs /\ wire' = wire /\ nrecv' = nrecv
  BY ZenonT(40), WaitFacts
<1>2. WaitedFor(r, n, e)
  BY WaitExchange
<1> HIDE DEF p, got
<1>3. /\ obj'[r][n] = p
      /\ \A q \in Rank, l \in Name : (q # r \/ l # n) => obj'[q][l] = obj[q][l]
  BY <1>0, <1>1 DEF Types
<1>4. /\ e \in DOMAIN halo[r] /\ e \in Nat
      /\ \A l \in Name : Live(r, l) /\ ExchangeOf(r, l) = e => l = n
  BY <1>2 DEF WaitedFor
<1>4a. obj[r][n].st = "inflight" /\ obj[r][n].exch = e
  BY <1>1
<1> HIDE DEF o, e
<1>5. /\ DOMAIN halo'[r] = DOMAIN halo[r] /\ Len(halo'[r]) = Len(halo[r])
      /\ halo'[r][e].done
      /\ \A f \in DOMAIN halo[r] : halo'[r][f].kind = halo[r][f].kind
      /\ \A f \in DOMAIN halo[r] : f # e => halo'[r][f] = halo[r][f]
      /\ \A q \in Rank : q # r => halo'[q] = halo[q]
  BY <1>0, <1>1, <1>4, ExchangeCompleted
<1>6. /\ \A q \in Rank : DOMAIN halo'[q] = DOMAIN halo[q] /\ Len(halo'[q]) = Len(halo[q])
      /\ Grows
  <2>1. \A q \in Rank : Len(halo[q]) \in Nat
    BY StartedExchange
  <2>2. \A q \in Rank : DOMAIN halo'[q] = DOMAIN halo[q] /\ Len(halo'[q]) = Len(halo[q])
    BY <1>5
  <2> QED
    BY <2>1, <2>2 DEF Grows
<1>7. \A q \in Rank, l \in Name : (q # r \/ l # n) => ExchangeOf(q, l)' = ExchangeOf(q, l)
  BY <1>3, <1>6 DEF ExchangeOf
<1>8. Carries(H)'
  <2>1. ASSUME NEW s \in sends PROVE SendCarries(H, s)'
    <3>1. s.src \in Rank /\ s.name \in Name /\ (s.src # r \/ s.name # n)
      BY <1>0, <1>1, RequestTypes DEF SendsComplete
    <3> QED
      BY <1>1, <1>3, <3>1, SendStill DEF Messages, Carries
  <2>2. ASSUME NEW v \in recvs PROVE RecvCarries(H, v)'
    <3>1. v.dst \in Rank /\ v.name \in Name /\ (v.dst # r \/ v.name # n)
      BY <1>0, <1>1, RequestTypes DEF RecvsComplete
    <3>2. obj'[v.dst][v.name] = obj[v.dst][v.name]
      BY <1>3, <3>1
    <3>3. ExchangeOf(v.dst, v.name)' = ExchangeOf(v.dst, v.name) /\ RecvCarries(H, v)
      BY <1>7, <3>1 DEF Messages, Carries
    <3> QED
      BY <3>2, <3>3, RecvStill
  <2>3. ASSUME NEW w \in wire PROVE MessageCarries(H, w)'
    <3>1. w.src \in Rank /\ MessageCarries(H, w)
      BY <1>0 DEF Types, Messages, Carries
    <3> QED
      BY <1>6, <3>1, MessageStill
  <2> QED
    BY <1>1, <2>1, <2>2, <2>3 DEF Carries
<1>9. Delivered'
  <2> SUFFICES ASSUME NEW q \in Rank, NEW l \in Name, Live(q, l)',
                      NEW j \in DOMAIN In[obj'[q][l].kind][q]
               PROVE  SlotOK(q, l, j)'
    BY DEF Delivered
  <2>1. q # r \/ l # n
    BY <1>1, <1>3 DEF Live
  <2>2. obj'[q][l] = obj[q][l] /\ ExchangeOf(q, l)' = ExchangeOf(q, l)
    BY <1>3, <1>7, <2>1
  <2>3. Live(q, l) /\ SlotOK(q, l, j)
    BY <2>2 DEF Live, Messages, Delivered
  <2>4. ExchangeOf(q, l) \in Nat
    <3>1. H.num[Len(script)] \in Nat
      BY StartedExchange
    <3> QED
      BY <2>3, <3>1, LiveExchange
  <2> QED
    BY <1>1, <1>6, <2>2, <2>3, <2>4, SlotStill
<1>10. Completion'
  <2> SUFFICES ASSUME NEW q \in Rank, NEW f \in DOMAIN halo[q] PROVE Completes(q, f)'
    BY <1>6 DEF Completion
  <2>1. CASE q = r /\ f = e
    <3>1. halo'[r][e].kind = obj[r][n].kind
      BY <1>2, <1>4, <1>5 DEF WaitedFor
    <3>2. obj[r][n].kind \in Kind
      BY <1>0, ObjectFacts
    <3>3. ASSUME NEW j \in DOMAIN In[obj[r][n].kind][r]
          PROVE  e <= Len(halo'[In[obj[r][n].kind][r][j]])
      <4>1. In[obj[r][n].kind][r][j] \in Rank
        BY <3>2, Peers
      <4> QED
        BY <1>2, <1>6, <4>1 DEF WaitedFor
    <3>4. ASSUME NEW l \in Name, obj'[r][l].st = "inflight", obj'[r][l].exch = e PROVE FALSE
      <4>1. l # n
        BY <1>1, <1>3, <3>4
      <4>2. obj[r][l].st = "inflight" /\ obj[r][l].exch = e
        BY <1>3, <3>4, <4>1
      <4>3. Live(r, l) /\ ExchangeOf(r, l) = e
        BY <4>2 DEF Live, ExchangeOf
      <4> QED
        BY <1>4, <4>1, <4>3
    <3> QED
      BY <1>5, <2>1, <3>1, <3>3, <3>4 DEF Completes
  <2>2. CASE q # r \/ f # e
    <3>1. halo'[q][f] = halo[q][f]
      BY <1>5, <2>2
    <3>2. halo[q][f].kind \in Kind /\ f \in Nat
      BY <1>0, ExchangeKind
    <3>3. \A l \in Name : (obj'[q][l].st = "inflight" /\ obj'[q][l].exch = f)
                            <=> (obj[q][l].st = "inflight" /\ obj[q][l].exch = f)
      BY <1>1, <1>3, <1>4a, <2>2
    <3>4. Completes(q, f)
      BY DEF Messages, Completion
    <3> QED
      BY <1>6, <3>1, <3>2, <3>3, <3>4, CompletesStill
  <2> QED
    BY <2>1, <2>2
<1>11. NoneTwice'
  <2>1. \A x : Awaited(x)' <=> Awaited(x)
    BY <1>1 DEF Awaited
  <2> QED
    BY <1>1, <2>1 DEF Messages, NoneTwice
<1> QED
  BY <1>8, <1>9, <1>10, <1>11 DEF Messages

-----------------------------------------------------------------------------
(* The program makes one more call.                                        *)

\* What requests carry does not change.
LEMMA GrownMessages ==
  ASSUME IInv, NEW H, HistoryOK(H), \A q \in Rank : Follows(H, q), Messages(H),
         NEW do, NEW n, NEW G, Grown(G, H, do, n),
         UNCHANGED <<obj, mem, sends, recvs, wire, nrecv, halo>>
  PROVE  Messages(G)'
<1> DEFINE last == H.num[Len(script)]
<1>0. Types
  BY InvParts
<1>1. \A e \in 0..last :
        G.kind[e] = H.kind[e] /\ G.label[e] = H.label[e] /\ G.count[e] = H.count[e]
  BY DEF Grown
<1>1a. \A e \in 1..last : e \in 0..last
  OBVIOUS
<1>2. ASSUME NEW s \in sends PROVE SendCarries(G, s)'
  <2> DEFINE e == obj[s.src][s.name].exch
  <2>1. SendCarries(H, s)
    BY DEF Messages, Carries
  <2>2. e \in 1..last
    BY <2>1, SendExchange
  <2>3. G.count[e] = H.count[e]
    BY <1>1, <1>1a, <2>2
  <2> QED
    BY <2>1, <2>3 DEF SendCarries
<1>3. ASSUME NEW v \in recvs PROVE RecvCarries(G, v)'
  <2> DEFINE e == ExchangeOf(v.dst, v.name)
  <2>1. RecvCarries(H, v)
    BY DEF Messages, Carries
  <2>2. e \in 1..last
    BY <2>1, RecvExchange
  <2>3. G.count[e] = H.count[e]
    BY <1>1, <1>1a, <2>2
  <2>4. e' = e
    BY DEF ExchangeOf
  <2> HIDE DEF e
  <2> QED
    BY <2>1, <2>3, <2>4 DEF RecvCarries, e
<1>4. ASSUME NEW w \in wire PROVE MessageCarries(G, w)'
  <2>1. MessageCarries(H, w)
    BY DEF Messages, Carries
  <2>2. PICK e \in DOMAIN halo[w.src] :
          /\ e \in 1..last
          /\ Link(H, e, w.src, w.dst, w.tag)
          /\ w.seq = H.count[e][w.src][w.dst][w.tag]
          /\ w.val = Abstract!Published(w.src, w.dst, e)
    BY <2>1, WireExchange
  <2>3. G.kind[e] = H.kind[e] /\ G.label[e] = H.label[e] /\ G.count[e] = H.count[e]
    BY <1>1, <1>1a, <2>2
  <2>4. Link(G, e, w.src, w.dst, w.tag)
    BY <2>2, <2>3 DEF Link
  <2> QED
    BY <2>2, <2>3, <2>4 DEF MessageCarries
<1>5. Carries(G)'
  BY <1>2, <1>3, <1>4 DEF Carries
<1>6. Delivered'
  <2> SUFFICES ASSUME NEW r \in Rank, NEW m \in Name, Live(r, m),
                      NEW j \in DOMAIN In[obj[r][m].kind][r]
               PROVE  SlotOK(r, m, j)'
    BY DEF Delivered, Live
  <2>1. Slot(r, m, j)' = Slot(r, m, j) /\ ExchangeOf(r, m)' = ExchangeOf(r, m)
    BY DEF Slot, ExchangeOf
  <2>2. SlotOK(r, m, j)
    BY DEF Messages, Delivered
  <2> QED
    BY <2>1, <2>2 DEF SlotOK
<1>7. Completion'
  BY DEF Messages, Completion, Completes
<1>8. NoneTwice'
  <2>1. \A x : Awaited(x)' <=> Awaited(x)
    BY DEF Awaited
  <2> QED
    BY <2>1 DEF Messages, NoneTwice
<1> QED
  BY <1>5, <1>6, <1>7, <1>8 DEF Messages

LEMMA ExtendKeeps ==
  ASSUME IInv, NEW H, HInv(H), NEW do \in DOMAIN CallResult, NEW n \in Name, Extend(do, n)
  PROVE  \E G : HInv(G)'
<1>1. Types /\ do \in Calls
  BY InvParts, CallNames
<1>2. HistoryOK(H) /\ HeldOK(H) /\ (\A r \in Rank : Follows(H, r)) /\ Messages(H)
  BY DEF HInv
<1>3. PICK G : Grown(G, H, do, n)
  BY <1>1, <1>2, HistoryGrows DEF HistoryOK
<1>4. /\ script' = Append(script, [do |-> do, name |-> n])
      /\ UNCHANGED <<pc, lastTag, obj, nsent, nrecv, halo, mem, sends, recvs, wire>>
  BY DEF Extend, rankVars, mpiVars
<1>5. Len(script') = Len(script) + 1 /\ \A i \in 1..Len(script) : script'[i] = script[i]
  BY <1>1, <1>4 DEF Types
<1>6. HistoryOK(G)'
  BY <1>1, <1>2, <1>3, <1>4, GrownHistory
<1>7. HeldOK(G)'
  BY <1>1, <1>2, <1>3, GrownHeld
<1>8. ASSUME NEW r \in Rank PROVE Follows(G, r)'
  <2>1. DOMAIN halo[r] = 1..Len(halo[r])
    BY <1>2, StartedExchange
  <2> QED
    BY <1>1, <1>2, <1>3, <1>4, <1>5, <2>1, GrownFollows
<1>9. Messages(G)'
  BY <1>2, <1>3, <1>4, GrownMessages
<1> QED
  BY <1>6, <1>7, <1>8, <1>9 DEF HInv

-----------------------------------------------------------------------------
(* The inductive invariant.                                                *)

LEMMA InitHistory == Init => \E H : HInv(H)
<1> SUFFICES ASSUME Init PROVE \E H : HInv(H)
  OBVIOUS
<1> DEFINE zero == [a \in Rank |-> [b \in Rank |-> [t \in Tag |-> 0]]]
           H == [tag |-> [i \in Nat |-> 0], num |-> [i \in Nat |-> 0],
                 view |-> [i \in Nat |-> [n \in Name |-> NoView]],
                 kind |-> [e \in Nat |-> "halo"], label |-> [e \in Nat |-> 0],
                 count |-> [e \in Nat |-> zero]]
<1>1. NoView \in Views /\ NoView.st = "none"
  BY DEF NoView, View, Views, Kind
<1>2. zero \in Counters /\ \A a, b \in Rank, t \in Tag : zero[a][b][t] = 0
  BY DEF Counters
<1>3. H \in Histories
  <2> HIDE DEF zero
  <2> QED
    BY <1>1, <1>2 DEF Histories, Kind
<1>4. /\ H.tag[0] = 0 /\ H.num[0] = 0 /\ H.count[0] = zero
      /\ \A n \in Name : H.view[0][n] = NoView
  <2> HIDE DEF zero
  <2> QED
    OBVIOUS
<1> HIDE DEF H, zero
<1>5. Len(script) = 0
  BY DEF Init
<1>6. StartsEmpty(H)
  BY <1>2, <1>4 DEF StartsEmpty
<1>7. ViewOK(H, 0)
  BY <1>1, <1>4 DEF ViewOK
<1>8. CallsOK(H, 0)
  <2>1. \A i \in 0..0 : i = 0
    OBVIOUS
  <2>2. \A i \in 1..0 : FALSE
    OBVIOUS
  <2> QED
    BY <1>4, <1>7, <2>1, <2>2 DEF CallsOK
<1>9. CountsOK(H, 0)
  <2>1. \A i \in 0..0 : i = 0
    OBVIOUS
  <2>2. \A i \in 1..0 : FALSE
    OBVIOUS
  <2> QED
    BY <1>2, <1>4, <2>1, <2>2 DEF CountsOK
<1>10. HistoryOK(H)
  BY <1>3, <1>4, <1>5, <1>6, <1>8, <1>9 DEF HistoryOK
<1>11. HeldOK(H)
  BY <1>1, <1>4, <1>5 DEF Init, HeldOK, HeldAs
<1>12. \A r \in Rank, n \in Name : obj[r][n] = NoObj
  BY DEF Init
<1>13. \A r \in Rank, n \in Name : obj[r][n].st = "none" /\ Seen(r, n) = NoView
  <2> TAKE r \in Rank, n \in Name
  <2>1. obj[r][n] = NoObj /\ NoObj.st = "none" /\ NoObj.kind = "halo" /\ NoObj.tag = 0
        /\ NoObj.keep = FALSE /\ NoObj.exch = 0
    BY <1>12 DEF NoObj
  <2>2. Seen(r, n) = View("none", "halo", 0, FALSE, 0)
    BY <2>1 DEF Seen, Live, ExchangeOf
  <2> QED
    BY <2>1, <2>2 DEF NoView
<1>14. ASSUME NEW r \in Rank PROVE Follows(H, r)
  <2>1. pc[r] = 0 /\ lastTag[r] = 0 /\ halo[r] = <<>>
        /\ \A q \in Rank, t \in Tag : nsent[r][q][t] = 0 /\ nrecv[r][q][t] = 0
    BY DEF Init
  <2>2. Posted(r) = 0
    BY <1>13, <2>1 DEF Posted, Packing
  <2>3. Len(halo[r]) = 0 /\ DOMAIN halo[r] = {}
    BY <2>1
  <2>4. FollowsCalls(H, r)
    BY <1>4, <1>5, <2>1, <2>2, <2>3 DEF FollowsCalls
  <2>5. FollowsViews(H, r)
    BY <1>4, <1>13, <2>2 DEF FollowsViews
  <2>6. FollowsCounts(H, r)
    BY <1>2, <1>4, <2>1, <2>2, <2>3 DEF FollowsCounts
  <2> QED
    BY <2>4, <2>5, <2>6 DEF Follows
<1>15. Messages(H)
  <2>1. sends = {} /\ recvs = {} /\ wire = {} /\ \A r \in Rank : DOMAIN halo[r] = {}
    BY DEF Init
  <2>2. Carries(H) /\ NoneTwice
    BY <2>1 DEF Carries, NoneTwice
  <2>3. Delivered
    BY <1>13 DEF Delivered, Live
  <2>4. Completion
    BY <2>1 DEF Completion
  <2> QED
    BY <2>2, <2>3, <2>4 DEF Messages
<1> QED
  BY <1>10, <1>11, <1>14, <1>15 DEF HInv

\* The history stays while the program does.
LEMMA SameProgram ==
  ASSUME NEW H, HistoryOK(H), HeldOK(H), UNCHANGED progVars
  PROVE  HistoryOK(H)' /\ HeldOK(H)'
<1>1. script' = script /\ held' = held
  BY DEF progVars
<1>2. HeldOK(H)'
  BY <1>1 DEF HeldOK
<1>3. StartsEmpty(H)' /\ CallsOK(H, Len(script))' /\ CountsOK(H, H.num[Len(script)])'
  BY <1>1 DEF HistoryOK, StartsEmpty, CallsOK, CountsOK, ViewOK, CallEffect, Link
<1> QED
  BY <1>2, <1>3 DEF HistoryOK

LEMMA RankKeeps ==
  ASSUME IInv, NEW H, HInv(H), Stable, NEW r \in Rank, RankStep(r) \/ Collect(r)
  PROVE  HInv(H)'
<1>1. HistoryOK(H) /\ HeldOK(H) /\ (\A q \in Rank : Follows(H, q)) /\ Messages(H)
  BY DEF HInv
<1>2. UNCHANGED progVars
  BY DEF RankStep, Collect, GetUpdater, StartRecvs, StartOnceRecvs, PackAndSend, StartSync,
         Wait, Drop
<1>3. HistoryOK(H)' /\ HeldOK(H)'
  BY <1>1, <1>2, SameProgram
<1>4. CASE Collect(r)
  <2>1. \A q \in Rank : Follows(H, q)'
    <3> TAKE q \in Rank
    <3>1. /\ script' = script /\ pc' = pc /\ lastTag' = lastTag /\ obj' = obj
          /\ halo' = halo /\ nsent' = nsent /\ nrecv' = nrecv
      BY <1>4 DEF Collect, progVars, mpiVars
    <3> QED
      BY <1>1, <3>1, FollowsStill
  <2>2. Messages(H)'
    BY <1>1, <1>4, QuietSteps
  <2> QED
    BY <1>3, <2>1, <2>2 DEF HInv
<1>5. CASE RankStep(r)
  <2>1. PICK n \in Name : \/ GetUpdater(r, n) \/ StartRecvs(r, n) \/ StartOnceRecvs(r, n)
                          \/ PackAndSend(r, n) \/ StartSync(r, n) \/ Wait(r, n) \/ Drop(r, n)
    BY <1>5 DEF RankStep
  <2>2. CASE GetUpdater(r, n)
    BY <1>1, <1>3, <2>2, GetUpdaterFollows, QuietSteps DEF HInv
  <2>3. CASE StartRecvs(r, n)
    <3>1. \A q \in Rank : Follows(H, q)'
      BY <1>1, <2>3, StartRecvsFollows
    <3> QED
      BY <1>1, <1>3, <2>3, <3>1, StartRecvsMessages DEF HInv
  <2>4. CASE StartOnceRecvs(r, n)
    <3>1. \A q \in Rank : Follows(H, q)'
      BY <1>1, <2>4, StartOnceRecvsFollows
    <3> QED
      BY <1>1, <1>3, <2>4, <3>1, StartOnceRecvsMessages DEF HInv
  <2>5. CASE PackAndSend(r, n)
    <3>1. \A q \in Rank : Follows(H, q)'
      BY <1>1, <2>5, PackAndSendFollows
    <3> QED
      BY <1>1, <1>3, <2>5, <3>1, PackAndSendMessages DEF HInv
  <2>6. CASE StartSync(r, n)
    <3>1. \A q \in Rank : Follows(H, q)'
      BY <1>1, <2>6, StartSyncFollows
    <3> QED
      BY <1>1, <1>3, <2>6, <3>1, StartSyncMessages DEF HInv
  <2>7. CASE Wait(r, n)
    BY <1>1, <1>3, <2>7, WaitFollows, WaitMessages DEF HInv
  <2>8. CASE Drop(r, n)
    BY <1>1, <1>3, <2>8, DropFollows, QuietSteps DEF HInv
  <2> QED
    BY <2>1, <2>2, <2>3, <2>4, <2>5, <2>6, <2>7, <2>8
<1> QED
  BY <1>4, <1>5

LEMMA MpiKeeps ==
  ASSUME IInv, NEW H, HInv(H), Stable, MpiStep
  PROVE  HInv(H)'
<1>1. HistoryOK(H) /\ HeldOK(H) /\ (\A q \in Rank : Follows(H, q)) /\ Messages(H)
  BY DEF HInv
<1>2. UNCHANGED <<progVars, rankVars, nsent, nrecv, halo>>
  BY DEF MpiStep, CompleteMatched, BufferMessage, Transfer, Deliver
<1>3. HistoryOK(H)' /\ HeldOK(H)'
  BY <1>1, <1>2, SameProgram
<1>4. \A q \in Rank : Follows(H, q)'
  <2> TAKE q \in Rank
  <2>1. /\ script' = script /\ pc' = pc /\ lastTag' = lastTag /\ obj' = obj
        /\ halo' = halo /\ nsent' = nsent /\ nrecv' = nrecv
    BY <1>2 DEF progVars, rankVars
  <2> QED
    BY <1>1, <2>1, FollowsStill
<1>5. Messages(H)'
  <2>1. CASE \E s \in sends : BufferMessage(s)
    BY <1>1, <2>1, BufferMessageMessages
  <2>2. CASE \E s \in sends, v \in recvs : Transfer(s, v)
    BY <1>1, <2>2, TransferMessages
  <2>3. CASE \E w \in wire, v \in recvs : Deliver(w, v)
    BY <1>1, <2>3, DeliverMessages
  <2> QED
    BY <2>1, <2>2, <2>3 DEF MpiStep, CompleteMatched
<1> QED
  BY <1>3, <1>4, <1>5 DEF HInv

\* The inductive invariant: some history explains the state.
Explained == \E H : HInv(H)

LEMMA ExplainedNext == IInv /\ Explained /\ [Next]_vars => Explained'
<1> SUFFICES ASSUME IInv, Explained, [Next]_vars PROVE Explained'
  OBVIOUS
<1>1. PICK H : HInv(H)
  BY DEF Explained
<1>2. Stable
  BY NextStable
<1>3. CASE \E do \in DOMAIN CallResult, n \in Name : Extend(do, n)
  <2>1. \E G : HInv(G)'
    BY <1>1, <1>3, ExtendKeeps
  <2> QED
    BY <2>1 DEF Explained
<1>4. CASE \E r \in Rank : RankStep(r) \/ Collect(r)
  <2>1. HInv(H)'
    BY <1>1, <1>2, <1>4, RankKeeps
  <2> QED
    BY <2>1 DEF Explained
<1>5. CASE MpiStep
  <2>1. HInv(H)'
    BY <1>1, <1>2, <1>5, MpiKeeps
  <2> QED
    BY <2>1 DEF Explained
<1>6. CASE UNCHANGED vars
  <2>1. UNCHANGED <<script, held, pc, lastTag, obj, mem, sends, recvs, wire, nsent, nrecv, halo>>
    BY <1>6 DEF vars, progVars, rankVars, mpiVars
  <2>2. HistoryOK(H)' /\ HeldOK(H)'
    BY <1>1, <2>1, SameProgram DEF HInv, progVars
  <2>3. \A q \in Rank : Follows(H, q)'
    BY <1>1, <2>1, FollowsStill DEF HInv
  <2>4. Messages(H)'
    <3>1. Quiet /\ \A q \in Rank, m \in Name : Live(q, m)' => Live(q, m)
      BY <2>1 DEF Quiet, Live
    <3> QED
      BY <1>1, <1>2, <2>1, <3>1, QuietMessages DEF HInv
  <2> QED
    BY <2>2, <2>3, <2>4 DEF HInv, Explained
<1> QED
  BY <1>3, <1>4, <1>5, <1>6 DEF Next

LEMMA AlwaysExplained == Spec => [](IInv /\ Explained)
<1>1. Init => Explained
  BY InitHistory DEF Explained
<1>2. IInv /\ Explained /\ [Next]_vars => Explained'
  BY ExplainedNext
<1>3. Spec => []IInv
  BY Invariance
<1> QED
  BY <1>1, <1>2, <1>3, PTL DEF Spec

-----------------------------------------------------------------------------
(* Every step is a step of HaloSpec or changes nothing there.              *)

\* The exchange a rank starts has the pattern it has everywhere.
LEMMA StartKind ==
  ASSUME IInv, NEW H, HInv(H), NEW r \in Rank, NEW e, e = Len(halo[r]) + 1,
         NEW s \in Rank, e <= Len(halo[s])
  PROVE  halo[s][e].kind = H.kind[e]
<1>1. Follows(H, s) /\ HistoryOK(H) /\ Follows(H, r)
  BY DEF HInv
<1>2. /\ Len(halo[r]) \in Nat /\ Len(halo[s]) \in Nat
      /\ DOMAIN halo[s] = 1..Len(halo[s])
  BY <1>1, StartedExchange
<1>3. e \in DOMAIN halo[s]
  BY <1>2
<1> QED
  BY <1>1, <1>3 DEF Follows, FollowsCalls

LEMMA PackAndSendRefines ==
  ASSUME IInv, NEW H, HInv(H), NEW r \in Rank, NEW n \in Name, PackAndSend(r, n)
  PROVE  Abstract!SpecStart(r, "halo")
<1> DEFINE e == Len(halo[r]) + 1
<1>1. HistoryOK(H) /\ Follows(H, r)
  BY DEF HInv
<1>2. /\ obj[r][n].st = "packing"
      /\ halo' = [halo EXCEPT ![r] = Append(@, [kind |-> "halo", done |-> FALSE, got |-> <<>>])]
  BY DEF PackAndSend
<1>3. Live(r, n) /\ ExchangeOf(r, n) = e
  BY <1>2 DEF Live, ExchangeOf
<1>4. obj[r][n].kind = "halo"
  BY <1>2, InvParts, ObjectFacts
<1>5. H.kind[e] = "halo"
  BY <1>1, <1>3, <1>4, LiveExchange
<1>6. e = Len(halo[r]) + 1
  OBVIOUS
<1> HIDE DEF e
<1>7. \A s \in Rank : e <= Len(halo[s]) => halo[s][e].kind = "halo"
  BY <1>5, <1>6, StartKind
<1> QED
  BY <1>2, <1>6, <1>7 DEF Abstract!SpecStart

LEMMA StartSyncRefines ==
  ASSUME IInv, NEW H, HInv(H), NEW r \in Rank, NEW n \in Name, StartSync(r, n)
  PROVE  Abstract!SpecStart(r, "sync")
<1> DEFINE e == Len(halo[r]) + 1
<1>1. HistoryOK(H) /\ Follows(H, r) /\ \A q \in Rank : Follows(H, q)
  BY DEF HInv
<1>2. halo' = [halo EXCEPT ![r] = Append(@, [kind |-> "sync", done |-> FALSE, got |-> <<>>])]
  BY DEF StartSync
<1>3. Follows(H, r)'
  BY <1>1, StartSyncFollows
<1>4. e = Len(halo[r]) + 1
  OBVIOUS
<1> HIDE DEF e
<1>5. SyncPlace(H, r, e)
  BY <1>1, <1>3, <1>4, SyncExchange
<1>6. H.kind[e] = "sync"
  BY <1>5 DEF SyncPlace
<1>7. \A s \in Rank : e <= Len(halo[s]) => halo[s][e].kind = "sync"
  BY <1>4, <1>6, StartKind
<1> QED
  BY <1>2, <1>4, <1>7 DEF Abstract!SpecStart

LEMMA WaitRefines ==
  ASSUME IInv, NEW H, HInv(H), NEW r \in Rank, NEW n \in Name, Wait(r, n)
  PROVE  \E e \in 1..Len(halo[r]) : Abstract!SpecComplete(r, e)
<1> DEFINE o == obj[r][n]
           e == o.exch
           from == In[o.kind][r]
<1>1. HistoryOK(H) /\ Messages(H) /\ \A q \in Rank : Follows(H, q)
  BY DEF HInv
<1>2. halo' = [halo EXCEPT ![r][e].done = TRUE, ![r][e].got = Unpacked(r, o)]
  BY ZenonT(40), WaitFacts
<1>3. WaitedFor(r, n, e)
  BY <1>1, WaitExchange
<1>4. e \in 1..Len(halo[r])
  <2>1. e \in DOMAIN halo[r] /\ DOMAIN halo[r] = 1..Len(halo[r])
    BY <1>1, <1>3, StartedExchange DEF WaitedFor
  <2> QED
    BY <2>1
<1>5. ~ halo[r][e].done /\ In[halo[r][e].kind][r] = from
      /\ \A j \in DOMAIN from : e <= Len(halo[from[j]])
  BY <1>3 DEF WaitedFor
<1>6. Unpacked(r, o) = [j \in DOMAIN from |-> Abstract!Published(from[j], r, e)]
  <2>1. \A j \in DOMAIN from : mem[r][o.bufs[NumOut(r, o.kind) + j]] =
                                 Abstract!Published(from[j], r, e)
    BY <1>3 DEF WaitedFor, Slot
  <2> HIDE DEF o, e, from
  <2>2. Unpacked(r, o) = [j \in DOMAIN from |-> mem[r][o.bufs[NumOut(r, o.kind) + j]]]
    BY DEF Unpacked, from
  <2> QED
    BY <2>1, <2>2
<1> HIDE DEF o, e, from
<1>7. Abstract!SpecComplete(r, e)
  BY <1>2, <1>5, <1>6 DEF Abstract!SpecComplete
<1> QED
  BY <1>4, <1>7

LEMMA InitRefines == Init => Abstract!SpecInit
BY DEF Init, Abstract!SpecInit

LEMMA NextRefines ==
  IInv /\ Explained /\ [Next]_vars => [Abstract!SpecNext]_halo
<1> SUFFICES ASSUME IInv, Explained, [Next]_vars PROVE [Abstract!SpecNext]_halo
  OBVIOUS
<1>1. PICK H : HInv(H)
  BY DEF Explained
<1>2. CASE \E do \in DOMAIN CallResult, n \in Name : Extend(do, n)
  BY <1>2 DEF Extend
<1>3. ASSUME NEW r \in Rank, RankStep(r) PROVE [Abstract!SpecNext]_halo
  <2>1. PICK n \in Name : \/ GetUpdater(r, n) \/ StartRecvs(r, n) \/ StartOnceRecvs(r, n)
                          \/ PackAndSend(r, n) \/ StartSync(r, n) \/ Wait(r, n) \/ Drop(r, n)
    BY <1>3 DEF RankStep
  <2>2. CASE GetUpdater(r, n) \/ StartRecvs(r, n) \/ StartOnceRecvs(r, n) \/ Drop(r, n)
    BY <2>2 DEF GetUpdater, StartRecvs, StartOnceRecvs, Drop
  <2>3. CASE PackAndSend(r, n)
    <3>1. Abstract!SpecStart(r, "halo") /\ "halo" \in Kind
      BY <1>1, <2>3, PackAndSendRefines DEF Kind
    <3> QED
      BY <3>1 DEF Abstract!SpecNext
  <2>4. CASE StartSync(r, n)
    <3>1. Abstract!SpecStart(r, "sync") /\ "sync" \in Kind
      BY <1>1, <2>4, StartSyncRefines DEF Kind
    <3> QED
      BY <3>1 DEF Abstract!SpecNext
  <2>5. CASE Wait(r, n)
    BY <1>1, <2>5, WaitRefines DEF Abstract!SpecNext
  <2> QED
    BY <2>1, <2>2, <2>3, <2>4, <2>5
<1>4. CASE \E r \in Rank : Collect(r)
  BY <1>4 DEF Collect
<1>5. CASE MpiStep
  BY <1>5 DEF MpiStep, CompleteMatched, BufferMessage, Transfer, Deliver
<1>6. CASE UNCHANGED vars
  BY <1>6 DEF vars
<1> QED
  BY <1>2, <1>3, <1>4, <1>5, <1>6 DEF Next

(***************************************************************************)
(* The exchanges of HaloUpdater and HaloUpdateRequest, with their tags,    *)
(* recycled buffers and the requests MPI completes in any order, implement *)
(* HaloSpec: a rank that returns from wait has unpacked what every         *)
(* neighbour packed in the exchange of the same number, and nothing else.  *)
(***************************************************************************)
THEOREM ExchangesImplementSpec == Spec => ImplementsHaloSpec
<1>1. Init => Abstract!SpecInit
  BY InitRefines
<1>2. IInv /\ Explained /\ [Next]_vars => [Abstract!SpecNext]_halo
  BY NextRefines
<1>3. Spec => Abstract!Spec
  BY <1>1, <1>2, AlwaysExplained, PTL DEF Spec, Abstract!Spec
<1> QED
  BY <1>3 DEF ImplementsHaloSpec

-----------------------------------------------------------------------------
(* What is left in MPI.                                                    *)

LEMMA ExplainedEmpty == IInv /\ Explained => NothingLeftInMPI
<1> SUFFICES ASSUME IInv, Explained, \A r \in Rank : pc[r] = Len(script),
                    \A n \in Name : held[n] \notin {"inflight", "inflightOnce"}
             PROVE  sends = {} /\ recvs = {} /\ wire = {}
  BY DEF NothingLeftInMPI
<1>1. PICK H : HInv(H)
  BY DEF Explained
<1>2. /\ HistoryOK(H) /\ HeldOK(H) /\ Messages(H) /\ \A r \in Rank : Follows(H, r)
      /\ Types /\ RequestsOwn
  BY <1>1, InvParts DEF HInv
<1>3. H \in Histories /\ Len(script) \in Nat /\ CountsOK(H, H.num[Len(script)])
  BY <1>2, HistoryBounds
<1>4. ASSUME NEW r \in Rank, NEW n \in Name PROVE ~ Live(r, n)
  <2>1. \A m \in Name : obj[r][m].st # "packing"
    <3> SUFFICES ASSUME NEW m \in Name, obj[r][m].st = "packing" PROVE FALSE
      OBVIOUS
    <3>1. AtStart(r, m)
      BY <1>2 DEF Follows, FollowsViews
    <3>2. pc[r] < Len(script)
      BY <3>1 DEF AtStart, AtCall
    <3> QED
      BY <1>3, <3>2
  <2>2. Posted(r) = Len(script)
    BY <2>1 DEF Posted, Packing
  <2>3. Seen(r, n) = H.view[Len(script)][n]
    BY <1>2, <2>2 DEF Follows, FollowsViews
  <2>4. held[n] = HeldAs(H.view[Len(script)][n])
    BY <1>2 DEF HeldOK
  <2>5. H.view[Len(script)][n].st # "inflight"
    <3> HIDE DEF HeldAs
    <3>1. held[n] \notin {"inflight", "inflightOnce"}
      OBVIOUS
    <3> QED
      BY <2>4, <3>1 DEF HeldAs
  <2> QED
    BY <2>3, <2>5 DEF Seen, View
<1>5. sends = {} /\ recvs = {}
  <2>1. \A s \in sends : s.src \in Rank /\ s.name \in Name /\ obj[s.src][s.name].st = "inflight"
    BY <1>2 DEF Types, Request, RequestsOwn
  <2>2. \A v \in recvs :
          v.dst \in Rank /\ v.name \in Name /\ obj[v.dst][v.name].st \in {"packing", "inflight"}
    BY <1>2 DEF Types, Request, RequestsOwn
  <2> QED
    BY <1>4, <2>1, <2>2 DEF Live
<1>6. wire = {}
  <2> SUFFICES ASSUME NEW w \in wire PROVE FALSE
    OBVIOUS
  <2>1. MessageCarries(H, w) /\ Awaited(w)
    BY <1>2 DEF Messages, Carries, NoneTwice
  <2>2. w.src \in Rank /\ w.dst \in Rank /\ w.tag \in Tag /\ w.seq \in Nat
    BY <1>2, <2>1, WireExchange
  <2>3. PICK e \in DOMAIN halo[w.src] :
          /\ e \in 1..H.num[Len(script)] /\ e <= Len(halo[w.src])
          /\ Link(H, e, w.src, w.dst, w.tag)
          /\ w.seq = H.count[e][w.src][w.dst][w.tag]
          /\ w.val = Abstract!Published(w.src, w.dst, e)
    BY <1>2, <2>1, WireExchange
  <2>4. w.seq > nrecv[w.dst][w.src][w.tag]
    BY <1>5, <2>1 DEF Awaited
  <2>5. Posted(w.dst) = Len(script)
    BY <1>4, <2>2 DEF Posted, Packing, Live
  <2>6. nrecv[w.dst][w.src][w.tag] = H.count[H.num[Len(script)]][w.src][w.dst][w.tag]
    <3>1. FollowsCounts(H, w.dst)
      BY <1>2, <2>2 DEF Follows
    <3>2. nrecv[w.dst][w.src][w.tag] = H.count[H.num[Posted(w.dst)]][w.src][w.dst][w.tag]
      BY <2>2, <3>1 DEF FollowsCounts
    <3> QED
      BY <2>5, <3>2
  <2>7. H.num[Len(script)] \in Nat
    BY <1>3, HistoryTypes
  <2>8. H.count[e][w.src][w.dst][w.tag] <= H.count[H.num[Len(script)]][w.src][w.dst][w.tag]
    <3>1. e \in 0..H.num[Len(script)] /\ H.num[Len(script)] \in 0..H.num[Len(script)]
          /\ e <= H.num[Len(script)]
      BY <2>3, <2>7
    <3> QED
      BY <1>3, <2>2, <3>1 DEF CountsOK
  <2>9. H.count[H.num[Len(script)]][w.src][w.dst][w.tag] \in Nat
    BY <1>3, <2>2, <2>7, HistoryTypes
  <2>10. ASSUME NEW i \in Nat, NEW j \in Nat, i <= j, i > j PROVE FALSE
    BY <2>10
  <2>11. w.seq <= nrecv[w.dst][w.src][w.tag] /\ nrecv[w.dst][w.src][w.tag] \in Nat
    BY <2>3, <2>6, <2>8, <2>9
  <2> QED
    BY <2>2, <2>4, <2>10, <2>11
<1> QED
  BY <1>5, <1>6

(***************************************************************************)
(* Every message that was sent is received: once the ranks have made every *)
(* call and nothing is in flight, MPI holds no request and no message.     *)
(***************************************************************************)
THEOREM MpiLeftEmpty == Spec => []NothingLeftInMPI
<1>1. IInv /\ Explained => NothingLeftInMPI
  BY ExplainedEmpty
<1> QED
  BY <1>1, AlwaysExplained, PTL
=============================================================================
