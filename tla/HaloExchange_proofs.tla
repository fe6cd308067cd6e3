------------------------ MODULE HaloExchange_proofs ------------------------
(***************************************************************************)
(* Proofs about module HaloExchange, for any set of ranks, any topology    *)
(* that satisfies TopologyAssumption and any bounds.                       *)
(***************************************************************************)
EXTENDS HaloExchange, TLAPS

-----------------------------------------------------------------------------
(* Lists of buffers, and sequences in general.                             *)

(***************************************************************************)
(* f is what taking count buffers from the end of a list s of k buffers    *)
(* gives, and c what it leaves, when the short buffers missing are         *)
(* allocated after the l that exist.                                       *)
(***************************************************************************)
Takes(count, k, l, short, s, f, c) ==
  /\ count \in Nat /\ k \in Nat /\ l \in Nat /\ short \in Nat
  /\ count <= k => short = 0
  /\ count > k => short = count - k
  /\ DOMAIN s = 1..k /\ IsInjective(s) /\ Range(s) \subseteq 1..l
  /\ DOMAIN f = 1..count
  /\ \A i \in 1..count : i <= k => f[i] = s[k + 1 - i]
  /\ \A i \in 1..count : i > k => f[i] = l + i - k
  /\ DOMAIN c = 1..(k + short - count)
  /\ \A i \in 1..(k + short - count) : c[i] = s[i]

(***************************************************************************)
(* The buffers taken are distinct, come from the list or are new, and are  *)
(* gone from the list, which keeps all others.                             *)
(***************************************************************************)
LEMMA TakeLast ==
  ASSUME NEW count, NEW k, NEW l, NEW short, NEW s, NEW f, NEW c,
         Takes(count, k, l, short, s, f, c)
  PROVE  /\ IsInjective(f)
         /\ IsInjective(c)
         /\ Range(f) \intersect Range(c) = {}
         /\ Range(f) \subseteq 1..(l + short)
         /\ Range(f) \intersect 1..l \subseteq Range(s)
         /\ Range(c) \subseteq Range(s)
         /\ Range(s) \subseteq Range(c) \union Range(f)
         /\ 1..(l + short) \subseteq 1..l \union Range(f)
<1>a. /\ count \in Nat /\ k \in Nat /\ l \in Nat /\ short \in Nat
      /\ count <= k => short = 0
      /\ count > k => short = count - k
      /\ DOMAIN s = 1..k /\ IsInjective(s) /\ Range(s) \subseteq 1..l
      /\ DOMAIN f = 1..count
      /\ \A i \in 1..count : i <= k => f[i] = s[k + 1 - i]
      /\ \A i \in 1..count : i > k => f[i] = l + i - k
      /\ DOMAIN c = 1..(k + short - count)
      /\ \A i \in 1..(k + short - count) : c[i] = s[i]
  BY DEF Takes
<1> USE <1>a
<1>1. \A i \in 1..k : s[i] \in 1..l
  BY DEF Range
<1>2. \A i, j \in 1..k : s[i] = s[j] => i = j
  BY DEF IsInjective
<1>3. \A i \in 1..count : i <= k => k + 1 - i \in 1..k
  OBVIOUS
<1>4. IsInjective(f)
  <2> SUFFICES ASSUME NEW i \in 1..count, NEW j \in 1..count, f[i] = f[j]
               PROVE  i = j
    BY DEF IsInjective
  <2>1. CASE i <= k /\ j <= k
    <3>1. k + 1 - i = k + 1 - j
      BY <2>1, <1>2, <1>3
    <3> QED
      BY <3>1
  <2>2. CASE i <= k /\ j > k
    <3>1. f[i] \in 1..l
      BY <2>2, <1>1, <1>3
    <3> QED
      BY <3>1, <2>2
  <2>3. CASE i > k /\ j <= k
    <3>1. f[j] \in 1..l
      BY <2>3, <1>1, <1>3
    <3> QED
      BY <3>1, <2>3
  <2>4. CASE i > k /\ j > k
    BY <2>4
  <2> QED
    BY <2>1, <2>2, <2>3, <2>4
<1>5. \A i \in DOMAIN c : i \in 1..k
  OBVIOUS
<1>6. IsInjective(c)
  BY <1>2, <1>5 DEF IsInjective
<1>7. Range(f) \intersect Range(c) = {}
  <2> SUFFICES ASSUME NEW i \in 1..count, NEW j \in 1..(k + short - count), f[i] = c[j]
               PROVE  FALSE
    BY DEF Range
  <2>1. CASE i <= k
    <3>1. s[k + 1 - i] = s[j] /\ k + 1 - i \in 1..k /\ j \in 1..k
      BY <2>1, <1>3
    <3>2. k + 1 - i = j
      BY <3>1, <1>2
    <3> QED
      BY <3>2
  <2>2. CASE i > k
    <3>1. c[j] \in 1..l
      BY <1>1, <1>5
    <3> QED
      BY <3>1, <2>2
  <2> QED
    BY <2>1, <2>2
<1>8. \A i \in 1..count : i <= k => f[i] \in 1..l /\ f[i] \in Range(s)
  BY <1>1, <1>3 DEF Range
<1>9. \A i \in 1..count : i > k => f[i] \in (l + 1)..(l + short)
  OBVIOUS
<1>10. Range(f) \subseteq 1..(l + short)
  <2> SUFFICES ASSUME NEW i \in 1..count PROVE f[i] \in 1..(l + short)
    BY DEF Range
  <2> QED
    BY <1>8, <1>9
<1>11. Range(f) \intersect 1..l \subseteq Range(s)
  <2> SUFFICES ASSUME NEW i \in 1..count, f[i] \in 1..l PROVE f[i] \in Range(s)
    BY DEF Range
  <2> QED
    BY <1>8, <1>9
<1>12. Range(c) \subseteq Range(s)
  BY <1>5 DEF Range
<1>13. Range(s) \subseteq Range(c) \union Range(f)
  <2> SUFFICES ASSUME NEW i \in 1..k
               PROVE  s[i] \in Range(c) \union Range(f)
    BY DEF Range
  <2>1. CASE i <= k + short - count
    BY <2>1 DEF Range
  <2>2. CASE i > k + short - count
    <3>1. k + 1 - i \in 1..count /\ k + 1 - i <= k /\ k + 1 - (k + 1 - i) = i
      BY <2>2
    <3>2. f[k + 1 - i] = s[i]
      BY <3>1
    <3> QED
      BY <3>1, <3>2 DEF Range
  <2> QED
    BY <2>1, <2>2
<1>14. 1..(l + short) \subseteq 1..l \union Range(f)
  <2> SUFFICES ASSUME NEW b \in 1..(l + short), b \notin 1..l
               PROVE  b \in Range(f)
    OBVIOUS
  <2>1. b - l + k \in 1..count /\ b - l + k > k /\ l + (b - l + k) - k = b
    OBVIOUS
  <2>2. f[b - l + k] = b
    BY <2>1
  <2> QED
    BY <2>1, <2>2 DEF Range
<1> QED
  BY <1>4, <1>6, <1>7, <1>10, <1>11, <1>12, <1>13, <1>14

(***************************************************************************)
(* Appending a list keeps the elements of both, and keeps them distinct if *)
(* the two lists share none.                                               *)
(***************************************************************************)
LEMMA AppendList ==
  ASSUME NEW S, NEW s \in Seq(S), NEW t \in Seq(S)
  PROVE  /\ s \o t \in Seq(S)
         /\ Range(s \o t) = Range(s) \union Range(t)
         /\ /\ IsInjective(s) /\ IsInjective(t)
            /\ Range(s) \intersect Range(t) = {}
            => IsInjective(s \o t)
<1> DEFINE k == Len(s)
           l == Len(t)
           c == s \o t
<1>1. /\ c \in Seq(S) /\ k \in Nat /\ l \in Nat
      /\ DOMAIN c = 1..(k + l) /\ DOMAIN s = 1..k /\ DOMAIN t = 1..l
  OBVIOUS
<1>2. /\ \A i \in 1..k : i \in DOMAIN c /\ c[i] = s[i]
      /\ \A i \in 1..l : i + k \in DOMAIN c /\ c[i + k] = t[i]
  OBVIOUS
<1>3. \A i \in 1..(k + l) : i \in 1..k \/ (i - k \in 1..l /\ c[i] = t[i - k])
  OBVIOUS
<1> HIDE DEF k, l, c
<1>4. Range(c) = Range(s) \union Range(t)
  <2>1. \A i \in DOMAIN c : c[i] \in Range(s) \union Range(t)
    BY <1>1, <1>2, <1>3 DEF Range
  <2>2. \A i \in DOMAIN s : s[i] \in Range(c)
    BY <1>1, <1>2 DEF Range
  <2>3. \A i \in DOMAIN t : t[i] \in Range(c)
    BY <1>1, <1>2 DEF Range
  <2> QED
    BY <2>1, <2>2, <2>3 DEF Range
<1>5. ASSUME IsInjective(s), IsInjective(t), Range(s) \intersect Range(t) = {}
      PROVE  IsInjective(c)
  <2> SUFFICES ASSUME NEW i \in DOMAIN c, NEW j \in DOMAIN c, c[i] = c[j]
               PROVE  i = j
    BY DEF IsInjective
  <2>1. CASE i \in 1..k /\ j \in 1..k
    BY <2>1, <1>1, <1>2, <1>5 DEF IsInjective
  <2>2. CASE i \notin 1..k /\ j \notin 1..k
    <3>1. i - k = j - k
      BY <2>2, <1>1, <1>3, <1>5 DEF IsInjective
    <3> QED
      BY <3>1, <1>1
  <2>3. CASE i \in 1..k /\ j \notin 1..k
    <3>1. c[i] \in Range(s) /\ c[j] \in Range(t)
      BY <2>3, <1>1, <1>2, <1>3 DEF Range
    <3> QED
      BY <3>1, <1>5
  <2>4. CASE i \notin 1..k /\ j \in 1..k
    <3>1. c[j] \in Range(s) /\ c[i] \in Range(t)
      BY <2>4, <1>1, <1>2, <1>3 DEF Range
    <3> QED
      BY <3>1, <1>5
  <2> QED
    BY <2>1, <2>2, <2>3, <2>4
<1> QED
  BY <1>1, <1>4, <1>5 DEF c

\* What is used of a sequence of elements of S.
LEMMA SequenceFacts ==
  ASSUME NEW S, NEW s \in Seq(S)
  PROVE  Len(s) \in Nat /\ DOMAIN s = 1..Len(s) /\ \A i \in DOMAIN s : s[i] \in S
OBVIOUS

\* A function on the positions of a sequence, with values in S, is a sequence.
LEMMA SameDomain ==
  ASSUME NEW S, NEW T, NEW s \in Seq(T), NEW f, f \in [DOMAIN s -> S]
  PROVE  f \in Seq(S) /\ DOMAIN f = DOMAIN s
<1>1. DOMAIN s = 1..Len(s) /\ Len(s) \in Nat
  OBVIOUS
<1>2. f \in [1..Len(s) -> S]
  BY <1>1
<1>3. f \in Seq(S)
  BY <1>1, <1>2
<1> QED
  BY <1>1, <1>2, <1>3

\* Changing an element of a sequence keeps its positions and its type.
LEMMA ExceptSequence ==
  ASSUME NEW S, NEW s \in Seq(S), NEW i, NEW x \in S
  PROVE  [s EXCEPT ![i] = x] \in Seq(S) /\ DOMAIN [s EXCEPT ![i] = x] = DOMAIN s
<1> DEFINE f == [s EXCEPT ![i] = x]
<1>1. \A j \in DOMAIN s : s[j] \in S
  OBVIOUS
<1>2. f \in [DOMAIN s -> S]
  BY <1>1
<1> HIDE DEF f
<1>3. f \in Seq(S) /\ DOMAIN f = DOMAIN s
  BY <1>2, SameDomain
<1> QED
  BY <1>3 DEF f

-----------------------------------------------------------------------------
(* The buffers of one rank: its cache c, the lists h[n] that the updaters  *)
(* hold, the lists g that wait for the garbage collector, and the set A of *)
(* buffers allocated.                                                      *)

Pool(c, h, g, A) ==
  /\ IsInjective(c) /\ Range(c) \subseteq A
  /\ \A n \in Name : /\ IsInjective(h[n])
                     /\ Range(h[n]) \subseteq A
                     /\ Range(h[n]) \intersect Range(c) = {}
  /\ \A n, m \in Name : n # m => Range(h[n]) \intersect Range(h[m]) = {}
  /\ \A b \in g : /\ IsInjective(b)
                  /\ Range(b) \subseteq A
                  /\ Range(b) \intersect Range(c) = {}
                  /\ \A n \in Name : Range(b) \intersect Range(h[n]) = {}
                  /\ \A d \in g : b # d => Range(b) \intersect Range(d) = {}
  /\ \A x \in A : \/ x \in Range(c)
                  \/ \E n \in Name : x \in Range(h[n])
                  \/ \E b \in g : x \in Range(b)

HeldBy(r) == [n \in Name |-> obj[r][n].bufs]

\* The three parts of the inductive invariant that are about the pools.
PoolOK == BuffersAllocated /\ OneUser /\ PoolConserved

\* A pool invariant is one of each rank's pool, in this state and the next.
LEMMA PoolOfState ==
  PoolOK <=> \A r \in Rank : Pool(cache[r], HeldBy(r), garbage[r], Allocated(r))
BY DEF PoolOK, BuffersAllocated, OneUser, PoolConserved, Pool, HeldBy

LEMMA PoolOfNextState ==
  PoolOK' <=> \A r \in Rank : Pool(cache'[r], HeldBy(r)', garbage'[r], Allocated(r)')
BY DEF PoolOK, BuffersAllocated, OneUser, PoolConserved, Pool, HeldBy

\* Taking the list f from cache c and allocating the rest leaves c2.
Taken(c, A, f, c2, A2) ==
  /\ IsInjective(f) /\ IsInjective(c2) /\ Range(f) \intersect Range(c2) = {}
  /\ Range(f) \subseteq A2 /\ A \subseteq A2 /\ A2 \subseteq A \union Range(f)
  /\ Range(f) \intersect A \subseteq Range(c)
  /\ Range(c2) \subseteq Range(c) /\ Range(c) \subseteq Range(c2) \union Range(f)

\* An updater that holds nothing takes a list of buffers.
LEMMA PoolTake ==
  ASSUME NEW c, NEW h, NEW g, NEW A, NEW n \in Name, NEW h2,
         NEW c2, NEW A2,
         Pool(c, h, g, A), Range(h[n]) = {}, Taken(c, A, h2[n], c2, A2),
         \A m \in Name : m # n => h2[m] = h[m]
  PROVE  Pool(c2, h2, g, A2)
<1> DEFINE f == h2[n]
<1>0. /\ IsInjective(f) /\ IsInjective(c2) /\ Range(f) \intersect Range(c2) = {}
      /\ Range(f) \subseteq A2 /\ A \subseteq A2 /\ A2 \subseteq A \union Range(f)
      /\ Range(f) \intersect A \subseteq Range(c)
      /\ Range(c2) \subseteq Range(c) /\ Range(c) \subseteq Range(c2) \union Range(f)
  BY DEF Taken
<1> USE <1>0
<1>1. \A m \in Name : m # n => Range(f) \intersect Range(h[m]) = {}
  BY DEF Pool
<1>2. \A b \in g : Range(f) \intersect Range(b) = {}
  BY DEF Pool
<1>3. \A m \in Name : /\ IsInjective(h2[m])
                      /\ Range(h2[m]) \subseteq A2
                      /\ Range(h2[m]) \intersect Range(c2) = {}
  BY DEF Pool
<1>4. \A m, l \in Name : m # l => Range(h2[m]) \intersect Range(h2[l]) = {}
  BY <1>1 DEF Pool
<1>5. \A b \in g : /\ IsInjective(b)
                   /\ Range(b) \subseteq A2
                   /\ Range(b) \intersect Range(c2) = {}
                   /\ \A m \in Name : Range(b) \intersect Range(h2[m]) = {}
                   /\ \A d \in g : b # d => Range(b) \intersect Range(d) = {}
  BY <1>2 DEF Pool
<1>6. \A x \in A2 : \/ x \in Range(c2)
                    \/ \E m \in Name : x \in Range(h2[m])
                    \/ \E b \in g : x \in Range(b)
  <2> SUFFICES ASSUME NEW x \in A2, x \notin Range(c2), x \notin Range(f)
               PROVE  \/ \E m \in Name : x \in Range(h2[m])
                      \/ \E b \in g : x \in Range(b)
    OBVIOUS
  <2>1. x \in A /\ x \notin Range(c)
    OBVIOUS
  <2>2. (\E m \in Name : x \in Range(h[m])) \/ \E b \in g : x \in Range(b)
    BY <2>1 DEF Pool
  <2> QED
    BY <2>2
<1>7. Range(c2) \subseteq A2
  BY DEF Pool
<1> QED
  BY <1>3, <1>4, <1>5, <1>6, <1>7 DEF Pool

\* An updater gives its list back to the cache.
LEMMA PoolFinalize ==
  ASSUME NEW c, NEW h, NEW g, NEW A, NEW n \in Name, NEW h2, NEW c2,
         Pool(c, h, g, A),
         Range(h2[n]) = {}, IsInjective(h2[n]), \A m \in Name : m # n => h2[m] = h[m],
         Range(c2) = Range(c) \union Range(h[n]),
         IsInjective(c2)
  PROVE  Pool(c2, h2, g, A)
<1>1. Range(c2) \subseteq A
  BY DEF Pool
<1>2. \A m \in Name : /\ IsInjective(h2[m])
                      /\ Range(h2[m]) \subseteq A
                      /\ Range(h2[m]) \intersect Range(c2) = {}
  BY DEF Pool
<1>3. \A m, l \in Name : m # l => Range(h2[m]) \intersect Range(h2[l]) = {}
  BY DEF Pool
<1>4. \A b \in g : /\ IsInjective(b)
                   /\ Range(b) \subseteq A
                   /\ Range(b) \intersect Range(c2) = {}
                   /\ \A m \in Name : Range(b) \intersect Range(h2[m]) = {}
                   /\ \A d \in g : b # d => Range(b) \intersect Range(d) = {}
  BY DEF Pool
<1>5. \A x \in A : \/ x \in Range(c2)
                   \/ \E m \in Name : x \in Range(h2[m])
                   \/ \E b \in g : x \in Range(b)
  BY DEF Pool
<1> QED
  BY <1>1, <1>2, <1>3, <1>4, <1>5 DEF Pool

\* An updater leaves its list to the garbage collector.
LEMMA PoolDrop ==
  ASSUME NEW c, NEW h, NEW g, NEW A, NEW n \in Name, NEW h2,
         Pool(c, h, g, A),
         Range(h2[n]) = {}, IsInjective(h2[n]), \A m \in Name : m # n => h2[m] = h[m]
  PROVE  Pool(c, h2, g \union {h[n]}, A)
<1>1. \A m \in Name : /\ IsInjective(h2[m])
                      /\ Range(h2[m]) \subseteq A
                      /\ Range(h2[m]) \intersect Range(c) = {}
  BY DEF Pool
<1>2. \A m, l \in Name : m # l => Range(h2[m]) \intersect Range(h2[l]) = {}
  BY DEF Pool
<1>3. \A b \in g \union {h[n]} :
         /\ IsInjective(b)
         /\ Range(b) \subseteq A
         /\ Range(b) \intersect Range(c) = {}
         /\ \A m \in Name : Range(b) \intersect Range(h2[m]) = {}
         /\ \A d \in g \union {h[n]} : b # d => Range(b) \intersect Range(d) = {}
  BY DEF Pool
<1>4. \A x \in A : \/ x \in Range(c)
                   \/ \E m \in Name : x \in Range(h2[m])
                   \/ \E b \in g \union {h[n]} : x \in Range(b)
  BY DEF Pool
<1> QED
  BY <1>1, <1>2, <1>3, <1>4 DEF Pool

\* The garbage collector gives a list back to the cache.
LEMMA PoolCollect ==
  ASSUME NEW c, NEW h, NEW g, NEW A, NEW b \in g, NEW c2,
         Pool(c, h, g, A),
         Range(c2) = Range(c) \union Range(b),
         IsInjective(c2)
  PROVE  Pool(c2, h, g \ {b}, A)
<1>1. Range(c2) \subseteq A
  BY DEF Pool
<1>2. \A m \in Name : Range(h[m]) \intersect Range(c2) = {}
  BY DEF Pool
<1>3. \A d \in g \ {b} : Range(d) \intersect Range(c2) = {}
  BY DEF Pool
<1>4. \A x \in A : \/ x \in Range(c2)
                   \/ \E m \in Name : x \in Range(h[m])
                   \/ \E d \in g \ {b} : x \in Range(d)
  BY DEF Pool
<1> QED
  BY <1>1, <1>2, <1>3, <1>4 DEF Pool

-----------------------------------------------------------------------------
(* The operators of the cache.                                             *)

\* The buffers that count calls of pop_from_cache return, and what they leave.
LEMMA PopFromCache ==
  ASSUME NEW r \in Rank, NEW count \in Nat,
         cache[r] \in Seq(Nat), mem[r] \in Seq(Message),
         IsInjective(cache[r]), Range(cache[r]) \subseteq Allocated(r),
         NEW f, f = pop_from_cache(r, count),
         NEW c, c = CacheAfterPop(r, count),
         NEW m, m = MemAfterPop(r, count)
  PROVE  /\ f \in Seq(Nat) /\ Len(f) = count
         /\ c \in Seq(Nat) /\ m \in Seq(Message)
         /\ Taken(cache[r], Allocated(r), f, c, DOMAIN m)
         /\ \A b \in Allocated(r) : m[b] = mem[r][b]
<1> DEFINE k == Len(cache[r])
           l == Len(mem[r])
           short == Shortfall(r, count)
<1>0. /\ k \in Nat /\ l \in Nat
      /\ DOMAIN cache[r] = 1..k /\ Allocated(r) = 1..l
      /\ \A i \in 1..k : cache[r][i] \in Nat
  BY DEF Allocated
<1>1. /\ short \in Nat
      /\ count <= k => short = 0
      /\ count > k => short = count - k
  <2>1. short = IF count <= k THEN 0 ELSE count - k
    BY DEF Shortfall
  <2> HIDE DEF short, k
  <2> QED
    BY <2>1, <1>0
<1>2. /\ f = [i \in 1..count |-> IF i <= k THEN cache[r][k + 1 - i] ELSE l + i - k]
      /\ c = SubSeq(cache[r], 1, k + short - count)
      /\ m = mem[r] \o [i \in 1..short |-> Blank]
  BY DEF pop_from_cache, CacheAfterPop, MemAfterPop
<1> HIDE DEF k, l, short
<1>3. /\ DOMAIN f = 1..count
      /\ \A i \in 1..count : i <= k => f[i] = cache[r][k + 1 - i]
      /\ \A i \in 1..count : i > k => f[i] = l + i - k
  BY <1>0, <1>1, <1>2
<1>4. k + short - count \in 0..k
  BY <1>0, <1>1
<1>5. /\ c \in Seq(Nat)
      /\ DOMAIN c = 1..(k + short - count)
      /\ \A i \in 1..(k + short - count) : c[i] = cache[r][i]
  BY <1>0, <1>1, <1>2, <1>4 DEF k
<1>6. /\ m \in Seq(Message)
      /\ DOMAIN m = 1..(l + short)
      /\ \A b \in 1..l : m[b] = mem[r][b]
  <2>1. Blank \in Message
    BY DEF Message
  <2>2. [i \in 1..short |-> Blank] \in Seq(Message)
    BY <2>1, <1>0, <1>1
  <2> QED
    BY <2>2, <1>0, <1>1, <1>2 DEF l
<1>7. f \in Seq(Nat) /\ Len(f) = count
  <2>1. \A i \in 1..count : f[i] \in Nat
    <3> SUFFICES ASSUME NEW i \in 1..count PROVE f[i] \in Nat
      OBVIOUS
    <3>1. CASE i <= k
      <4>1. k + 1 - i \in 1..k
        BY <3>1, <1>0, <1>1
      <4> QED
        BY <4>1, <3>1, <1>0, <1>1, <1>3
    <3>2. CASE i > k
      BY <3>2, <1>0, <1>1, <1>3
    <3> QED
      BY <3>1, <3>2, <1>0, <1>1
  <2>2. f \in [1..count -> Nat]
    BY <2>1, <1>2
  <2> QED
    BY <2>2
<1>8. Range(cache[r]) \subseteq 1..l
  BY <1>0, <1>1
<1>9. /\ IsInjective(f) /\ IsInjective(c)
      /\ Range(f) \intersect Range(c) = {}
      /\ Range(f) \subseteq 1..(l + short)
      /\ Range(f) \intersect 1..l \subseteq Range(cache[r])
      /\ Range(c) \subseteq Range(cache[r])
      /\ Range(cache[r]) \subseteq Range(c) \union Range(f)
      /\ 1..(l + short) \subseteq 1..l \union Range(f)
  <2>1. Takes(count, k, l, short, cache[r], f, c)
    BY <1>0, <1>1, <1>3, <1>5, <1>8 DEF Takes
  <2> QED
    BY <2>1, TakeLast
<1>10. 1..l \subseteq 1..(l + short)
  BY <1>0, <1>1
<1>11. Taken(cache[r], Allocated(r), f, c, DOMAIN m)
  BY <1>0, <1>6, <1>9, <1>10 DEF Taken
<1> QED
  BY <1>0, <1>5, <1>6, <1>7, <1>11

\* push_to_cache keeps the cache and adds the buffers pushed.
LEMMA PushToCache ==
  ASSUME NEW r \in Rank, NEW bufs \in Seq(Nat), cache[r] \in Seq(Nat)
  PROVE  /\ push_to_cache(r, bufs) \in Seq(Nat)
         /\ Range(push_to_cache(r, bufs)) = Range(cache[r]) \union Range(bufs)
         /\ /\ IsInjective(cache[r]) /\ IsInjective(bufs)
            /\ Range(cache[r]) \intersect Range(bufs) = {}
            => IsInjective(push_to_cache(r, bufs))
BY AppendList DEF push_to_cache

-----------------------------------------------------------------------------
(* Requests and messages.                                                  *)

\* The number of peers of a rank.
LEMMA Peers ==
  ASSUME NEW r \in Rank, NEW k \in Kind
  PROVE  /\ Out[k][r] \in Seq(Rank) /\ In[k][r] \in Seq(Rank)
         /\ NumOut(r, k) \in Nat /\ NumBufs(r, k) \in Nat
         /\ NumBufs(r, k) = NumOut(r, k) + Len(In[k][r])
         /\ DOMAIN Out[k][r] = 1..NumOut(r, k)
         /\ DOMAIN In[k][r] = 1..Len(In[k][r])
         /\ \A i \in DOMAIN Out[k][r] : Out[k][r][i] \in Rank
         /\ \A i \in DOMAIN In[k][r] : In[k][r][i] \in Rank
<1>1. Out[k][r] \in Seq(Rank) /\ In[k][r] \in Seq(Rank)
  BY TopologyAssumption
<1>2. /\ Len(Out[k][r]) \in Nat /\ DOMAIN Out[k][r] = 1..Len(Out[k][r])
      /\ \A i \in DOMAIN Out[k][r] : Out[k][r][i] \in Rank
  BY <1>1, SequenceFacts
<1>3. /\ Len(In[k][r]) \in Nat /\ DOMAIN In[k][r] = 1..Len(In[k][r])
      /\ \A i \in DOMAIN In[k][r] : In[k][r][i] \in Rank
  BY <1>1, SequenceFacts
<1>4. NumOut(r, k) = Len(Out[k][r]) /\ NumBufs(r, k) = Len(Out[k][r]) + Len(In[k][r])
  BY DEF NumOut, NumBufs
<1>5. NumOut(r, k) \in Nat /\ NumBufs(r, k) \in Nat
  <2> DEFINE a == Len(Out[k][r])
             b == Len(In[k][r])
  <2>1. a \in Nat /\ b \in Nat /\ NumOut(r, k) = a /\ NumBufs(r, k) = a + b
    BY <1>2, <1>3, <1>4
  <2> HIDE DEF a, b
  <2> QED
    BY <2>1
<1>6. /\ NumBufs(r, k) = NumOut(r, k) + Len(In[k][r])
      /\ DOMAIN Out[k][r] = 1..NumOut(r, k)
  BY <1>2, <1>4
<1> QED
  BY <1>1, <1>2, <1>3, <1>5, <1>6

\* The pack and the unpack buffers are different positions of an updater's list.
LEMMA BufferPositions ==
  ASSUME NEW r \in Rank, NEW k \in Kind, NEW bufs \in Seq(Nat),
         Len(bufs) = NumBufs(r, k)
  PROVE  /\ \A i \in DOMAIN Out[k][r] : i \in DOMAIN bufs /\ bufs[i] \in Nat
         /\ \A j \in DOMAIN In[k][r] : /\ NumOut(r, k) + j \in DOMAIN bufs
                                       /\ NumOut(r, k) + j \notin DOMAIN Out[k][r]
                                       /\ bufs[NumOut(r, k) + j] \in Nat
<1>1. /\ NumOut(r, k) \in Nat /\ Len(In[k][r]) \in Nat
      /\ Len(bufs) = NumOut(r, k) + Len(In[k][r])
      /\ DOMAIN Out[k][r] = 1..NumOut(r, k)
      /\ DOMAIN In[k][r] = 1..Len(In[k][r])
  BY Peers
<1>2. /\ DOMAIN bufs = 1..(NumOut(r, k) + Len(In[k][r]))
      /\ \A i \in DOMAIN bufs : bufs[i] \in Nat
  BY <1>1
<1>3. \A i \in DOMAIN Out[k][r] : i \in DOMAIN bufs
  BY <1>1, <1>2
<1>4. \A j \in DOMAIN In[k][r] : /\ NumOut(r, k) + j \in DOMAIN bufs
                                 /\ NumOut(r, k) + j \notin DOMAIN Out[k][r]
  BY <1>1, <1>2
<1> QED
  BY <1>2, <1>3, <1>4

\* The Isends of an updater: one for each of its pack buffers.
LEMMA IsendRequests ==
  ASSUME NEW r \in Rank, NEW n \in Name, NEW k \in Kind, NEW tag \in Tag,
         NEW bufs \in Seq(Nat), Len(bufs) = NumBufs(r, k), IsInjective(bufs),
         NEW o, o.kind = k, o.bufs = bufs,
         nsent \in [Rank -> [Rank -> [Tag -> Nat]]]
  PROVE  /\ IsendAll(r, n, k, tag, bufs) \subseteq Request
         /\ \A s \in IsendAll(r, n, k, tag, bufs) :
              /\ s.src = r /\ s.name = n
              /\ s.buf \in PackBuffers(r, o)
              /\ \A t \in IsendAll(r, n, k, tag, bufs) : t.buf = s.buf => t = s
<1>1. \A i \in DOMAIN Out[k][r] : i \in DOMAIN bufs /\ bufs[i] \in Nat
  BY BufferPositions
<1>2. \A i \in DOMAIN Out[k][r] : Out[k][r][i] \in Rank
  BY Peers
<1>3. \A i \in DOMAIN Out[k][r] : nsent[r][Out[k][r][i]][tag] + 1 \in Nat
  BY <1>2
<1>4. IsendAll(r, n, k, tag, bufs) \subseteq Request
  BY <1>1, <1>2, <1>3 DEF IsendAll, Request
<1>5. \A i, j \in DOMAIN Out[k][r] : bufs[i] = bufs[j] => i = j
  BY <1>1 DEF IsInjective
<1>6. ASSUME NEW s \in IsendAll(r, n, k, tag, bufs)
      PROVE  /\ s.src = r /\ s.name = n
             /\ s.buf \in PackBuffers(r, o)
             /\ \A t \in IsendAll(r, n, k, tag, bufs) : t.buf = s.buf => t = s
  <2>1. PICK i \in DOMAIN Out[k][r] :
          s = [src |-> r, dst |-> Out[k][r][i], tag |-> tag, buf |-> bufs[i], name |-> n,
               seq |-> nsent[r][Out[k][r][i]][tag] + 1]
    BY <1>6 DEF IsendAll
  <2>2. ASSUME NEW t \in IsendAll(r, n, k, tag, bufs), t.buf = s.buf PROVE t = s
    <3>1. PICK j \in DOMAIN Out[k][r] :
            t = [src |-> r, dst |-> Out[k][r][j], tag |-> tag, buf |-> bufs[j], name |-> n,
                 seq |-> nsent[r][Out[k][r][j]][tag] + 1]
      BY <2>2 DEF IsendAll
    <3>2. i = j
      BY <3>1, <2>1, <2>2, <1>5
    <3> QED
      BY <3>1, <3>2, <2>1
  <2> QED
    BY <2>1, <2>2 DEF PackBuffers
<1> QED
  BY <1>4, <1>6

\* The Irecvs of an updater: one for each of its unpack buffers.
LEMMA IrecvRequests ==
  ASSUME NEW r \in Rank, NEW n \in Name, NEW k \in Kind, NEW tag \in Tag,
         NEW bufs \in Seq(Nat), Len(bufs) = NumBufs(r, k), IsInjective(bufs),
         NEW o, o.kind = k, o.bufs = bufs,
         nrecv \in [Rank -> [Rank -> [Tag -> Nat]]]
  PROVE  /\ IrecvAll(r, n, k, tag, bufs) \subseteq Request
         /\ \A v \in IrecvAll(r, n, k, tag, bufs) :
              /\ v.dst = r /\ v.name = n
              /\ v.buf \in UnpackBuffers(r, o)
              /\ \A w \in IrecvAll(r, n, k, tag, bufs) : w.buf = v.buf => w = v
<1>1. \A j \in DOMAIN In[k][r] : /\ NumOut(r, k) + j \in DOMAIN bufs
                                 /\ bufs[NumOut(r, k) + j] \in Nat
  BY BufferPositions
<1>2. \A j \in DOMAIN In[k][r] : In[k][r][j] \in Rank
  BY Peers
<1>3. \A j \in DOMAIN In[k][r] : nrecv[r][In[k][r][j]][tag] + 1 \in Nat
  BY <1>2
<1>4. IrecvAll(r, n, k, tag, bufs) \subseteq Request
  BY <1>1, <1>2, <1>3 DEF IrecvAll, Request
<1>5. ASSUME NEW i \in DOMAIN In[k][r], NEW j \in DOMAIN In[k][r],
             bufs[NumOut(r, k) + i] = bufs[NumOut(r, k) + j]
      PROVE  i = j
  <2>1. NumOut(r, k) + i = NumOut(r, k) + j
    BY <1>1, <1>5 DEF IsInjective
  <2>2. NumOut(r, k) \in Nat /\ DOMAIN In[k][r] = 1..Len(In[k][r])
    BY Peers
  <2> QED
    BY <2>1, <2>2 DEF UnpackBuffers
<1>6. ASSUME NEW v \in IrecvAll(r, n, k, tag, bufs)
      PROVE  /\ v.dst = r /\ v.name = n
             /\ v.buf \in UnpackBuffers(r, o)
             /\ \A w \in IrecvAll(r, n, k, tag, bufs) : w.buf = v.buf => w = v
  <2>1. PICK i \in DOMAIN In[k][r] :
          v = [src |-> In[k][r][i], dst |-> r, tag |-> tag, buf |-> bufs[NumOut(r, k) + i],
               name |-> n, seq |-> nrecv[r][In[k][r][i]][tag] + 1]
    BY <1>6 DEF IrecvAll
  <2>2. ASSUME NEW w \in IrecvAll(r, n, k, tag, bufs), w.buf = v.buf PROVE w = v
    <3>1. PICK j \in DOMAIN In[k][r] :
            w = [src |-> In[k][r][j], dst |-> r, tag |-> tag, buf |-> bufs[NumOut(r, k) + j],
                 name |-> n, seq |-> nrecv[r][In[k][r][j]][tag] + 1]
      BY <2>2 DEF IrecvAll
    <3>2. i = j
      BY <3>1, <2>1, <2>2, <1>5
    <3> QED
      BY <3>1, <3>2, <2>1
  <2> QED
    BY <2>1, <2>2 DEF UnpackBuffers
<1> QED
  BY <1>4, <1>6

LEMMA CountPostedType ==
  ASSUME NEW counter \in [Rank -> [Rank -> [Tag -> Nat]]], NEW r \in Rank,
         NEW peers, NEW tag \in Tag
  PROVE  CountPosted(counter, r, peers, tag) \in [Rank -> [Rank -> [Tag -> Nat]]]
BY DEF CountPosted

\* Packing writes to the pack buffers and nowhere else.
LEMMA PackedMemory ==
  ASSUME NEW r \in Rank, NEW k \in Kind, NEW bufs \in Seq(Nat), NEW e \in Nat,
         NEW m \in Seq(Message)
  PROVE  /\ Packed(r, k, bufs, e, m) \in Seq(Message)
         /\ DOMAIN Packed(r, k, bufs, e, m) = DOMAIN m
         /\ \A b \in DOMAIN m : b \notin {bufs[i] : i \in DOMAIN Out[k][r]} =>
              Packed(r, k, bufs, e, m)[b] = m[b]
<1> DEFINE p == Packed(r, k, bufs, e, m)
<1>1. DOMAIN p = DOMAIN m
  BY DEF Packed
<1>2. \A b \in DOMAIN m : b \notin {bufs[i] : i \in DOMAIN Out[k][r]} => p[b] = m[b]
  BY DEF Packed
<1>3. ASSUME NEW b \in DOMAIN m PROVE p[b] \in Message
  <2>1. CASE \E i \in DOMAIN Out[k][r] : bufs[i] = b
    <3> DEFINE i == CHOOSE i \in DOMAIN Out[k][r] : bufs[i] = b
    <3>1. i \in DOMAIN Out[k][r]
      BY <2>1
    <3>2. Out[k][r][i] \in Rank
      BY <3>1, Peers
    <3>3. p[b] = [src |-> r, dst |-> Out[k][r][i], exch |-> e]
      BY <2>1, <1>3 DEF Packed
    <3> HIDE DEF i
    <3> QED
      BY <3>2, <3>3 DEF Message
  <2>2. CASE ~ \E i \in DOMAIN Out[k][r] : bufs[i] = b
    <3>1. p[b] = m[b]
      BY <2>2, <1>3 DEF Packed
    <3> QED
      BY <3>1, <1>3
  <2> QED
    BY <2>1, <2>2
<1>4. p \in [DOMAIN m -> Message]
  BY <1>1, <1>3 DEF Packed
<1> HIDE DEF p
<1>5. p \in Seq(Message)
  BY <1>4, SameDomain
<1> QED
  BY <1>1, <1>2, <1>5 DEF p

-----------------------------------------------------------------------------
(* How a step changes the updaters and the pools.                          *)

LEMMA InvParts == IInv <=> Types /\ PoolOK /\ ObjectShape /\ RequestsOwn
BY DEF IInv, TypeOK, PoolOK

LEMMA NextInvParts == IInv' <=> Types' /\ PoolOK' /\ ObjectShape' /\ RequestsOwn'
BY DEF IInv, TypeOK, PoolOK

\* What the invariant says of one updater.
LEMMA ObjectFacts ==
  ASSUME Types, PoolOK, ObjectShape, NEW r \in Rank, NEW n \in Name
  PROVE  /\ obj[r][n] \in Object
         /\ obj[r][n].st \in {"none", "idle", "packing", "inflight", "finished"}
         /\ obj[r][n].kind \in Kind
         /\ obj[r][n].bufs \in Seq(Nat) /\ IsInjective(obj[r][n].bufs)
         /\ obj[r][n].st \in {"idle", "packing", "inflight"} =>
              Len(obj[r][n].bufs) = NumBufs(r, obj[r][n].kind)
         /\ obj[r][n].st \in {"none", "finished"} => obj[r][n].bufs = <<>>
         /\ obj[r][n].st \in {"idle", "packing"} =>
              obj[r][n].kind = "halo" /\ obj[r][n].tag \in Tag
         /\ obj[r][n].keep \in BOOLEAN
         /\ obj[r][n].keep => obj[r][n].kind = "halo" /\ obj[r][n].tag \in Tag
         /\ obj[r][n].st = "inflight" => obj[r][n].exch \in DOMAIN halo[r]
<1>1. obj[r][n] \in Object
  BY DEF Types
<1>2. /\ obj[r][n].st \in {"none", "idle", "packing", "inflight", "finished"}
      /\ obj[r][n].kind \in Kind
      /\ obj[r][n].bufs \in Seq(Nat)
      /\ obj[r][n].keep \in BOOLEAN
  BY <1>1 DEF Object
<1>3. IsInjective(obj[r][n].bufs)
  BY DEF PoolOK, OneUser
<1> QED
  BY <1>1, <1>2, <1>3 DEF ObjectShape, WellFormed

LEMMA ObjectUpdate ==
  ASSUME obj \in [Rank -> [Name -> Object]], NEW r \in Rank, NEW n \in Name,
         NEW p \in Object, obj' = [obj EXCEPT ![r][n] = p]
  PROVE  /\ obj' \in [Rank -> [Name -> Object]]
         /\ obj'[r][n] = p
         /\ \A q \in Rank, m \in Name : (q # r \/ m # n) => obj'[q][m] = obj[q][m]
OBVIOUS

LEMMA NextObjectShape ==
  ASSUME \A q \in Rank, m \in Name : WellFormed(q, obj'[q][m], DOMAIN halo'[q])
  PROVE  ObjectShape'
BY DEF ObjectShape, WellFormed, NumBufs

\* An updater that does not change is still well formed when exchanges are added.
LEMMA StillWellFormed ==
  ASSUME ObjectShape, NEW q \in Rank, NEW m \in Name,
         NEW A, DOMAIN halo[q] \subseteq A
  PROVE  WellFormed(q, obj[q][m], A)
<1>1. WellFormed(q, obj[q][m], DOMAIN halo[q])
  BY DEF ObjectShape
<1> QED
  BY <1>1 DEF WellFormed

\* A step that moves no buffer.
LEMMA PoolSame ==
  ASSUME PoolOK, cache' = cache, garbage' = garbage,
         \A r \in Rank : DOMAIN mem'[r] = DOMAIN mem[r],
         \A r \in Rank, n \in Name : obj'[r][n].bufs = obj[r][n].bufs
  PROVE  PoolOK'
<1> SUFFICES ASSUME NEW r \in Rank
             PROVE  Pool(cache'[r], HeldBy(r)', garbage'[r], Allocated(r)')
  BY PoolOfNextState
<1>1. HeldBy(r)' = HeldBy(r) /\ Allocated(r)' = Allocated(r)
  BY DEF HeldBy, Allocated
<1> QED
  BY <1>1, PoolOfState

\* A step that changes the buffers of rank r only.
LEMMA PoolOfRank ==
  ASSUME PoolOK, NEW r \in Rank,
         Pool(cache'[r], HeldBy(r)', garbage'[r], Allocated(r)'),
         \A q \in Rank : q # r =>
           /\ cache'[q] = cache[q]
           /\ garbage'[q] = garbage[q]
           /\ DOMAIN mem'[q] = DOMAIN mem[q]
           /\ \A n \in Name : obj'[q][n].bufs = obj[q][n].bufs
  PROVE  PoolOK'
<1> SUFFICES ASSUME NEW q \in Rank, q # r
             PROVE  Pool(cache'[q], HeldBy(q)', garbage'[q], Allocated(q)')
  BY PoolOfNextState
<1>1. HeldBy(q)' = HeldBy(q) /\ Allocated(q)' = Allocated(q)
  BY DEF HeldBy, Allocated
<1>2. Pool(cache[q], HeldBy(q), garbage[q], Allocated(q))
  BY PoolOfState
<1> QED
  BY <1>1, <1>2

\* What the steps that create an updater p in variable n have in common.
Creates(r, n, k, p) ==
  /\ obj[r][n].bufs = <<>>
  /\ p \in Object /\ p.bufs = pop_from_cache(r, NumBufs(r, k))
  /\ obj' = [obj EXCEPT ![r][n] = p]
  /\ cache' = [cache EXCEPT ![r] = CacheAfterPop(r, NumBufs(r, k))]
  /\ garbage' = garbage
  /\ DOMAIN mem'[r] = DOMAIN MemAfterPop(r, NumBufs(r, k))
  /\ \A q \in Rank : q # r => DOMAIN mem'[q] = DOMAIN mem[q]

LEMMA PoolNew ==
  ASSUME Types, PoolOK, NEW r \in Rank, NEW n \in Name, NEW k \in Kind,
         NEW p, Creates(r, n, k, p)
  PROVE  PoolOK'
<1> DEFINE f == pop_from_cache(r, NumBufs(r, k))
           c == CacheAfterPop(r, NumBufs(r, k))
           m == MemAfterPop(r, NumBufs(r, k))
<1>1. cache[r] \in Seq(Nat) /\ mem[r] \in Seq(Message)
  BY DEF Types
<1>2. IsInjective(cache[r]) /\ Range(cache[r]) \subseteq Allocated(r)
  BY DEF PoolOK, BuffersAllocated, OneUser
<1>3. NumBufs(r, k) \in Nat
  BY Peers
<1>4. Taken(cache[r], Allocated(r), f, c, DOMAIN m)
  BY <1>1, <1>2, <1>3, PopFromCache
<1>5. /\ obj'[r][n] = p
      /\ \A q \in Rank, j \in Name : (q # r \/ j # n) => obj'[q][j] = obj[q][j]
  BY ObjectUpdate DEF Types, Creates
<1>6. Pool(cache[r], HeldBy(r), garbage[r], Allocated(r))
  BY PoolOfState
<1>7. Range(HeldBy(r)[n]) = {}
  BY DEF HeldBy, Range, Creates
<1>8. HeldBy(r)'[n] = f /\ \A j \in Name : j # n => HeldBy(r)'[j] = HeldBy(r)[j]
  BY <1>5 DEF HeldBy, Creates
<1>9. /\ cache'[r] = c /\ Allocated(r)' = DOMAIN m /\ garbage' = garbage
      /\ \A q \in Rank : q # r => cache'[q] = cache[q] /\ DOMAIN mem'[q] = DOMAIN mem[q]
  BY DEF Types, Allocated, Creates
<1> HIDE DEF f, c, m
<1>10. Pool(c, HeldBy(r)', garbage[r], DOMAIN m)
  <2>1. Taken(cache[r], Allocated(r), HeldBy(r)'[n], c, DOMAIN m)
    BY <1>4, <1>8
  <2> QED
    BY <2>1, <1>6, <1>7, <1>8, PoolTake
<1> QED
  BY <1>5, <1>9, <1>10, PoolOfRank

-----------------------------------------------------------------------------
(* Every step preserves the invariant.                                     *)

\* What the invariant says of the requests of one updater.
LEMMA NoRequests ==
  ASSUME Types, RequestsOwn, NEW r \in Rank, NEW n \in Name,
         obj[r][n].st \in {"none", "idle", "finished"}
  PROVE  /\ \A s \in sends : ~ (s.src = r /\ s.name = n)
         /\ \A v \in recvs : ~ (v.dst = r /\ v.name = n)
BY DEF RequestsOwn

LEMMA RequestTypes ==
  ASSUME Types
  PROVE  /\ \A s \in sends : s.src \in Rank /\ s.dst \in Rank /\ s.name \in Name
                              /\ s.tag \in Tag /\ s.seq \in Nat
         /\ \A v \in recvs : v.src \in Rank /\ v.dst \in Rank /\ v.name \in Name
BY DEF Types, Request

LEMMA NextRequests ==
  ASSUME \A s \in sends' :
           /\ obj'[s.src][s.name].st = "inflight"
           /\ s.buf \in PackBuffers(s.src, obj'[s.src][s.name])
           /\ \A t \in sends' : t.src = s.src /\ t.name = s.name /\ t.buf = s.buf => t = s,
         \A v \in recvs' :
           /\ obj'[v.dst][v.name].st \in {"packing", "inflight"}
           /\ v.buf \in UnpackBuffers(v.dst, obj'[v.dst][v.name])
           /\ \A w \in recvs' : w.dst = v.dst /\ w.name = v.name /\ w.buf = v.buf => w = v
  PROVE  RequestsOwn'
BY DEF RequestsOwn, PackBuffers, UnpackBuffers, NumOut

\* A step that posts no request and leaves the updaters in flight alone.
LEMMA RequestsSame ==
  ASSUME Types, RequestsOwn, sends' \subseteq sends, recvs' \subseteq recvs,
         \A s \in sends' : obj'[s.src][s.name] = obj[s.src][s.name],
         \A v \in recvs' : obj'[v.dst][v.name] = obj[v.dst][v.name]
  PROVE  RequestsOwn'
<1>1. ASSUME NEW s \in sends'
      PROVE  /\ obj'[s.src][s.name].st = "inflight"
             /\ s.buf \in PackBuffers(s.src, obj'[s.src][s.name])
             /\ \A t \in sends' : t.src = s.src /\ t.name = s.name /\ t.buf = s.buf => t = s
  BY <1>1 DEF RequestsOwn
<1>2. ASSUME NEW v \in recvs'
      PROVE  /\ obj'[v.dst][v.name].st \in {"packing", "inflight"}
             /\ v.buf \in UnpackBuffers(v.dst, obj'[v.dst][v.name])
             /\ \A w \in recvs' : w.dst = v.dst /\ w.name = v.name /\ w.buf = v.buf => w = v
  BY <1>2 DEF RequestsOwn
<1> QED
  BY <1>1, <1>2, NextRequests

LEMMA ExtendStep ==
  ASSUME IInv, NEW do \in DOMAIN CallResult, NEW n \in Name, Extend(do, n)
  PROVE  IInv'
<1>0. Types /\ PoolOK /\ ObjectShape /\ RequestsOwn
  BY InvParts
<1>1. UNCHANGED <<pc, lastTag, obj, garbage, cache, mem, sends, recvs, wire, nsent, nrecv, halo>>
  BY DEF Extend, rankVars, mpiVars
<1>2. Types'
  <2>1. script' \in Seq(Call)
    <3>1. [do |-> do, name |-> n] \in Call
      BY DEF Call
    <3>2. script \in Seq(Call)
      BY <1>0 DEF Types
    <3>3. script' = Append(script, [do |-> do, name |-> n])
      BY DEF Extend
    <3> QED
      BY <3>1, <3>2, <3>3
  <2>2. held' \in [Name -> {"nothing", "idle", "inflight", "inflightOnce", "finished"}]
    <3>1. CallResult[do][held[n]] \in {"nothing", "idle", "inflight", "inflightOnce", "finished"}
      <4>1. held[n] \in DOMAIN CallResult[do]
        BY DEF Extend
      <4>2. do \in {"get", "start", "startOnce", "sync", "wait", "drop"}
        BY DEF CallResult
      <4> QED
        BY <4>1, <4>2 DEF CallResult
    <3>2. held' = [held EXCEPT ![n] = CallResult[do][held[n]]]
      BY DEF Extend
    <3> QED
      BY <1>0, <3>1, <3>2 DEF Types
  <2> QED
    BY <1>0, <1>1, <2>1, <2>2 DEF Types
<1>3. PoolOK'
  BY <1>0, <1>1, PoolSame
<1>4. ObjectShape'
  BY <1>0, <1>1 DEF ObjectShape, WellFormed
<1>5. RequestsOwn'
  BY <1>0, <1>1, RequestsSame
<1> QED
  BY <1>2, <1>3, <1>4, <1>5, NextInvParts

LEMMA GetUpdaterStep ==
  ASSUME IInv, NEW r \in Rank, NEW n \in Name, GetUpdater(r, n)
  PROVE  IInv'
<1> DEFINE count == NumBufs(r, "halo")
           f == pop_from_cache(r, count)
           tag == _get_halo_tag(r)
           p == [st |-> "idle", kind |-> "halo", tag |-> tag, keep |-> TRUE,
                 bufs |-> f, exch |-> 0]
<1>0. Types /\ PoolOK /\ ObjectShape /\ RequestsOwn
  BY InvParts
<1>1. /\ UNCHANGED <<script, held, garbage, sends, recvs, wire, nsent, nrecv, halo>>
      /\ obj[r][n].st = "none" /\ tag \in Tag
      /\ obj' = [obj EXCEPT ![r][n] = p]
      /\ cache' = [cache EXCEPT ![r] = CacheAfterPop(r, count)]
      /\ mem' = [mem EXCEPT ![r] = MemAfterPop(r, count)]
      /\ lastTag' = [lastTag EXCEPT ![r] = tag]
      /\ pc' = [pc EXCEPT ![r] = @ + 1]
  BY DEF GetUpdater, New, Return, progVars, mpiVars
<1>2. "halo" \in Kind /\ count \in Nat
  BY Peers DEF Kind
<1>3. /\ f \in Seq(Nat) /\ Len(f) = count
      /\ CacheAfterPop(r, count) \in Seq(Nat) /\ MemAfterPop(r, count) \in Seq(Message)
  BY <1>0, <1>2, PopFromCache DEF Types, PoolOK, OneUser, BuffersAllocated
<1> HIDE DEF f, tag, count
<1>4. p \in Object
  BY <1>1, <1>2, <1>3 DEF Object
<1>5. Creates(r, n, "halo", p)
  BY <1>0, <1>1, <1>4, ObjectFacts DEF Creates, Types, f, count
<1>6. /\ obj' \in [Rank -> [Name -> Object]] /\ obj'[r][n] = p
      /\ \A q \in Rank, m \in Name : (q # r \/ m # n) => obj'[q][m] = obj[q][m]
  BY <1>0, <1>1, <1>4, ObjectUpdate DEF Types
<1>7. Types'
  <2>1. cache' \in [Rank -> Seq(Nat)] /\ mem' \in [Rank -> Seq(Message)]
    BY <1>0, <1>1, <1>3 DEF Types
  <2>2. pc' \in [Rank -> Nat]
    BY <1>0, <1>1 DEF Types
  <2>3. lastTag' \in [Rank -> Tag \union {0}]
    BY <1>0, <1>1 DEF Types
  <2> QED
    BY <1>0, <1>1, <1>6, <2>1, <2>2, <2>3 DEF Types
<1>8. PoolOK'
  BY <1>0, <1>2, <1>5, PoolNew
<1>9. ObjectShape'
  BY <1>0, <1>1, <1>3, <1>6 DEF ObjectShape, WellFormed, count
<1>10. RequestsOwn'
  <2>1. /\ \A s \in sends : ~ (s.src = r /\ s.name = n)
        /\ \A v \in recvs : ~ (v.dst = r /\ v.name = n)
    BY <1>0, <1>1, NoRequests
  <2> QED
    BY <1>0, <1>1, <1>6, <2>1, RequestTypes, RequestsSame
<1> QED
  BY <1>7, <1>8, <1>9, <1>10, NextInvParts

LEMMA StartRecvsStep ==
  ASSUME IInv, NEW r \in Rank, NEW n \in Name, StartRecvs(r, n)
  PROVE  IInv'
<1> DEFINE o == obj[r][n]
           p == [o EXCEPT !.st = "packing"]
           V == IrecvAll(r, n, "halo", o.tag, o.bufs)
<1>0. Types /\ PoolOK /\ ObjectShape /\ RequestsOwn
  BY InvParts
<1>1. /\ UNCHANGED <<script, held, pc, lastTag, garbage, cache, mem, sends, wire, nsent, halo>>
      /\ o.st = "idle"
      /\ obj' = [obj EXCEPT ![r][n].st = "packing"]
      /\ recvs' = recvs \union V
      /\ nrecv' = CountPosted(nrecv, r, In["halo"][r], o.tag)
  BY DEF StartRecvs, progVars
<1>2. /\ o \in Object /\ o.kind = "halo" /\ o.tag \in Tag
      /\ o.bufs \in Seq(Nat) /\ IsInjective(o.bufs)
      /\ Len(o.bufs) = NumBufs(r, "halo") /\ "halo" \in Kind
  BY <1>0, <1>1, ObjectFacts DEF Kind
<1>3. /\ V \subseteq Request
      /\ \A v \in V : /\ v.dst = r /\ v.name = n
                       /\ v.buf \in UnpackBuffers(r, o)
                       /\ \A w \in V : w.buf = v.buf => w = v
  <2>1. nrecv \in [Rank -> [Rank -> [Tag -> Nat]]]
    BY <1>0 DEF Types
  <2> DEFINE bufs == o.bufs
             tag  == o.tag
             k    == "halo"
  <2>2. /\ k \in Kind /\ tag \in Tag /\ bufs \in Seq(Nat) /\ Len(bufs) = NumBufs(r, k)
        /\ IsInjective(bufs) /\ o.kind = k /\ o.bufs = bufs
    BY <1>2
  <2> HIDE DEF bufs, tag, k, o
  <2>3. /\ IrecvAll(r, n, k, tag, bufs) \subseteq Request
        /\ \A v \in IrecvAll(r, n, k, tag, bufs) :
              /\ v.dst = r /\ v.name = n /\ v.buf \in UnpackBuffers(r, o)
              /\ \A w \in IrecvAll(r, n, k, tag, bufs) : w.buf = v.buf => w = v
    BY <2>1, <2>2, IrecvRequests
  <2> QED
    BY <2>3 DEF bufs, tag, k
<1>4. nrecv' \in [Rank -> [Rank -> [Tag -> Nat]]]
  BY <1>0, <1>1, <1>2, CountPostedType DEF Types
<1>5. p \in Object /\ p.st = "packing" /\ p.kind = o.kind /\ p.bufs = o.bufs /\ p.tag = o.tag
      /\ p.keep = o.keep
  BY <1>2 DEF Object
<1>6. /\ obj' \in [Rank -> [Name -> Object]] /\ obj'[r][n] = p
      /\ \A q \in Rank, m \in Name : (q # r \/ m # n) => obj'[q][m] = obj[q][m]
  <2>1. obj' = [obj EXCEPT ![r][n] = p]
    BY <1>1
  <2>2. obj \in [Rank -> [Name -> Object]]
    BY <1>0 DEF Types
  <2> HIDE DEF o, p
  <2> QED
    BY <1>5, <2>1, <2>2, ObjectUpdate
<1> HIDE DEF V, p
<1>7. Types'
  BY <1>0, <1>1, <1>3, <1>4, <1>6 DEF Types
<1>8. PoolOK'
  BY <1>0, <1>1, <1>5, <1>6, PoolSame
<1>9. ObjectShape'
  BY <1>0, <1>1, <1>2, <1>5, <1>6 DEF ObjectShape, WellFormed
<1>10. RequestsOwn'
  <2>1. /\ \A s \in sends : ~ (s.src = r /\ s.name = n)
        /\ \A v \in recvs : ~ (v.dst = r /\ v.name = n)
    BY <1>0, <1>1, NoRequests
  <2>2. \A s \in sends : obj'[s.src][s.name] = obj[s.src][s.name]
    BY <1>0, <1>6, <2>1, RequestTypes
  <2>3. \A v \in recvs : obj'[v.dst][v.name] = obj[v.dst][v.name]
    BY <1>0, <1>6, <2>1, RequestTypes
  <2>4. UnpackBuffers(r, p) = UnpackBuffers(r, o)
    BY <1>2, <1>5 DEF UnpackBuffers
  <2>5. ASSUME NEW v \in recvs'
        PROVE  /\ obj'[v.dst][v.name].st \in {"packing", "inflight"}
               /\ v.buf \in UnpackBuffers(v.dst, obj'[v.dst][v.name])
               /\ \A w \in recvs' : w.dst = v.dst /\ w.name = v.name /\ w.buf = v.buf => w = v
    <3>1. CASE v \in V
      BY <3>1, <1>1, <1>3, <1>5, <1>6, <2>1, <2>4
    <3>2. CASE v \in recvs
      BY <3>2, <1>0, <1>1, <1>3, <2>1, <2>3 DEF RequestsOwn
    <3> QED
      BY <3>1, <3>2, <1>1
  <2>6. ASSUME NEW s \in sends'
        PROVE  /\ obj'[s.src][s.name].st = "inflight"
               /\ s.buf \in PackBuffers(s.src, obj'[s.src][s.name])
               /\ \A t \in sends' : t.src = s.src /\ t.name = s.name /\ t.buf = s.buf => t = s
    BY <1>0, <1>1, <2>2, <2>6 DEF RequestsOwn
  <2> QED
    BY <2>5, <2>6, NextRequests
<1> QED
  BY <1>7, <1>8, <1>9, <1>10, NextInvParts

LEMMA StartOnceRecvsStep ==
  ASSUME IInv, NEW r \in Rank, NEW n \in Name, StartOnceRecvs(r, n)
  PROVE  IInv'
<1> DEFINE k == "halo"
           count == NumBufs(r, k)
           f == pop_from_cache(r, count)
           tag == _get_halo_tag(r)
           p == [st |-> "packing", kind |-> k, tag |-> tag, keep |-> FALSE,
                 bufs |-> f, exch |-> 0]
           V == IrecvAll(r, n, k, tag, f)
<1>0. Types /\ PoolOK /\ ObjectShape /\ RequestsOwn
  BY InvParts
<1>1. /\ UNCHANGED <<script, held, pc, garbage, sends, wire, nsent, halo>>
      /\ obj[r][n].st \in {"none", "finished"} /\ tag \in Tag
      /\ obj' = [obj EXCEPT ![r][n] = p]
      /\ cache' = [cache EXCEPT ![r] = CacheAfterPop(r, count)]
      /\ mem' = [mem EXCEPT ![r] = MemAfterPop(r, count)]
      /\ lastTag' = [lastTag EXCEPT ![r] = tag]
      /\ recvs' = recvs \union V
      /\ nrecv' = CountPosted(nrecv, r, In[k][r], tag)
  BY DEF StartOnceRecvs, New, progVars
<1>2. k \in Kind /\ count \in Nat
  BY Peers DEF Kind
<1>3. /\ f \in Seq(Nat) /\ Len(f) = count
      /\ CacheAfterPop(r, count) \in Seq(Nat) /\ MemAfterPop(r, count) \in Seq(Message)
      /\ IsInjective(f)
  BY <1>0, <1>2, PopFromCache DEF Types, PoolOK, OneUser, BuffersAllocated, Taken
<1>4. nrecv \in [Rank -> [Rank -> [Tag -> Nat]]] /\ obj \in [Rank -> [Name -> Object]]
  BY <1>0 DEF Types
<1>5. nrecv' \in [Rank -> [Rank -> [Tag -> Nat]]]
  BY <1>1, <1>4, CountPostedType
<1> HIDE DEF f, tag, count
<1>6. p \in Object /\ p.st = "packing" /\ p.kind = k /\ p.bufs = f /\ p.tag = tag
  BY <1>1, <1>2, <1>3 DEF Object
<1>7. Creates(r, n, k, p)
  BY <1>0, <1>1, <1>6, ObjectFacts DEF Creates, Types, f, count
<1> HIDE DEF p, k
<1>8. /\ V \subseteq Request
      /\ \A v \in V : /\ v.dst = r /\ v.name = n /\ v.buf \in UnpackBuffers(r, p)
                       /\ \A w \in V : w.buf = v.buf => w = v
  BY <1>1, <1>2, <1>3, <1>4, <1>6, IrecvRequests DEF count
<1>9. /\ obj' \in [Rank -> [Name -> Object]] /\ obj'[r][n] = p
      /\ \A q \in Rank, m \in Name : (q # r \/ m # n) => obj'[q][m] = obj[q][m]
  BY <1>1, <1>4, <1>6, ObjectUpdate
<1> HIDE DEF V
<1>10. Types'
  <2>1. cache' \in [Rank -> Seq(Nat)] /\ mem' \in [Rank -> Seq(Message)]
    BY <1>0, <1>1, <1>3 DEF Types
  <2>2. lastTag' \in [Rank -> Tag \union {0}]
    BY <1>0, <1>1 DEF Types
  <2> QED
    BY <1>0, <1>1, <1>5, <1>8, <1>9, <2>1, <2>2 DEF Types
<1>11. PoolOK'
  BY <1>0, <1>2, <1>7, PoolNew
<1>12. ObjectShape'
  BY <1>0, <1>1, <1>3, <1>6, <1>9 DEF ObjectShape, WellFormed, count, k
<1>13. RequestsOwn'
  <2>1. /\ \A s \in sends : ~ (s.src = r /\ s.name = n)
        /\ \A v \in recvs : ~ (v.dst = r /\ v.name = n)
    BY <1>0, <1>1, NoRequests
  <2>2. \A s \in sends : obj'[s.src][s.name] = obj[s.src][s.name]
    BY <1>0, <1>9, <2>1, RequestTypes
  <2>3. \A v \in recvs : obj'[v.dst][v.name] = obj[v.dst][v.name]
    BY <1>0, <1>9, <2>1, RequestTypes
  <2>4. ASSUME NEW v \in recvs'
        PROVE  /\ obj'[v.dst][v.name].st \in {"packing", "inflight"}
               /\ v.buf \in UnpackBuffers(v.dst, obj'[v.dst][v.name])
               /\ \A w \in recvs' : w.dst = v.dst /\ w.name = v.name /\ w.buf = v.buf => w = v
    <3>1. CASE v \in V
      BY <3>1, <1>1, <1>6, <1>8, <1>9, <2>1
    <3>2. CASE v \in recvs
      BY <3>2, <1>0, <1>1, <1>8, <2>1, <2>3 DEF RequestsOwn
    <3> QED
      BY <3>1, <3>2, <1>1
  <2>5. ASSUME NEW s \in sends'
        PROVE  /\ obj'[s.src][s.name].st = "inflight"
               /\ s.buf \in PackBuffers(s.src, obj'[s.src][s.name])
               /\ \A t \in sends' : t.src = s.src /\ t.name = s.name /\ t.buf = s.buf => t = s
    BY <1>0, <1>1, <2>2, <2>5 DEF RequestsOwn
  <2> QED
    BY <2>4, <2>5, NextRequests
<1> QED
  BY <1>10, <1>11, <1>12, <1>13, NextInvParts

\* An exchange that has just started, in the list of the exchanges of a rank.
LEMMA AppendExchange ==
  ASSUME Types, NEW r \in Rank, NEW k \in Kind,
         halo' = [halo EXCEPT ![r] = Append(@, [kind |-> k, done |-> FALSE, got |-> <<>>])]
  PROVE  /\ halo' \in [Rank -> Seq([kind : Kind, done : BOOLEAN, got : Seq(Message)])]
         /\ Len(halo[r]) + 1 \in Nat
         /\ Len(halo[r]) + 1 \in DOMAIN halo'[r]
         /\ \A q \in Rank : DOMAIN halo[q] \subseteq DOMAIN halo'[q]
<1> DEFINE X == [kind : Kind, done : BOOLEAN, got : Seq(Message)]
           x == [kind |-> k, done |-> FALSE, got |-> <<>>]
<1>1. x \in X
  OBVIOUS
<1>2. halo \in [Rank -> Seq(X)]
  BY DEF Types
<1> HIDE DEF X, x
<1>3. /\ Append(halo[r], x) \in Seq(X) /\ Len(halo[r]) \in Nat
      /\ DOMAIN halo[r] = 1..Len(halo[r])
      /\ DOMAIN Append(halo[r], x) = 1..(Len(halo[r]) + 1)
  BY <1>1, <1>2
<1>4. /\ halo' = [halo EXCEPT ![r] = Append(halo[r], x)]
  BY DEF x
<1>5. halo' \in [Rank -> Seq(X)] /\ halo'[r] = Append(halo[r], x)
      /\ \A q \in Rank : q # r => halo'[q] = halo[q]
  BY <1>2, <1>3, <1>4
<1>6. /\ Len(halo[r]) + 1 \in Nat
      /\ Len(halo[r]) + 1 \in 1..(Len(halo[r]) + 1)
      /\ 1..Len(halo[r]) \subseteq 1..(Len(halo[r]) + 1)
  <2> DEFINE l == Len(halo[r])
  <2>1. l \in Nat
    BY <1>3
  <2> HIDE DEF l
  <2>2. l + 1 \in Nat /\ l + 1 \in 1..(l + 1) /\ 1..l \subseteq 1..(l + 1)
    BY <2>1
  <2> QED
    BY <2>2 DEF l
<1>7. \A q \in Rank : DOMAIN halo[q] \subseteq DOMAIN halo'[q]
  BY <1>3, <1>5, <1>6
<1> QED
  BY <1>3, <1>5, <1>6, <1>7 DEF X

LEMMA PackAndSendStep ==
  ASSUME IInv, NEW r \in Rank, NEW n \in Name, PackAndSend(r, n)
  PROVE  IInv'
<1> DEFINE k == "halo"
           o == obj[r][n]
           e == Len(halo[r]) + 1
           bufs == o.bufs
           tag == o.tag
           p == [o EXCEPT !.st = "inflight", !.exch = e]
           S == IsendAll(r, n, k, tag, bufs)
<1>0. Types /\ PoolOK /\ ObjectShape /\ RequestsOwn
  BY InvParts
<1>1. /\ UNCHANGED <<script, held, lastTag, garbage, cache, recvs, wire, nrecv>>
      /\ o.st = "packing"
      /\ obj' = [obj EXCEPT ![r][n].st = "inflight", ![r][n].exch = e]
      /\ mem' = [mem EXCEPT ![r] = Packed(r, k, bufs, e, mem[r])]
      /\ sends' = sends \union S
      /\ nsent' = CountPosted(nsent, r, Out[k][r], tag)
      /\ halo' = [halo EXCEPT ![r] = Append(@, [kind |-> k, done |-> FALSE, got |-> <<>>])]
      /\ pc' = [pc EXCEPT ![r] = @ + 1]
  BY DEF PackAndSend, Return, progVars
<1>2. /\ o \in Object /\ o.kind = k /\ tag \in Tag
      /\ bufs \in Seq(Nat) /\ IsInjective(bufs)
      /\ Len(bufs) = NumBufs(r, k) /\ k \in Kind
  BY <1>0, <1>1, ObjectFacts DEF Kind
<1>3. obj' = [obj EXCEPT ![r][n] = p]
  BY <1>1
<1>4. /\ nsent \in [Rank -> [Rank -> [Tag -> Nat]]] /\ obj \in [Rank -> [Name -> Object]]
      /\ mem \in [Rank -> Seq(Message)] /\ pc \in [Rank -> Nat]
  BY <1>0 DEF Types
<1> HIDE DEF k, S
<1>5. /\ halo' \in [Rank -> Seq([kind : Kind, done : BOOLEAN, got : Seq(Message)])]
      /\ e \in Nat /\ e \in DOMAIN halo'[r]
      /\ \A q \in Rank : DOMAIN halo[q] \subseteq DOMAIN halo'[q]
  BY <1>0, <1>1, <1>2, AppendExchange
<1> HIDE DEF e
<1>6. /\ p \in Object /\ p.st = "inflight" /\ p.kind = k /\ p.bufs = bufs /\ p.exch = e
      /\ p.tag = tag
  BY <1>2, <1>5 DEF Object
<1> HIDE DEF o, bufs, tag, p
<1>7. /\ S \subseteq Request
      /\ \A s \in S : /\ s.src = r /\ s.name = n /\ s.buf \in PackBuffers(r, p)
                       /\ \A t \in S : t.buf = s.buf => t = s
  BY <1>2, <1>4, <1>6, IsendRequests DEF S
<1>8. nsent' \in [Rank -> [Rank -> [Tag -> Nat]]]
  BY <1>1, <1>2, <1>4, CountPostedType
<1>9. /\ obj' \in [Rank -> [Name -> Object]] /\ obj'[r][n] = p
      /\ \A q \in Rank, m \in Name : (q # r \/ m # n) => obj'[q][m] = obj[q][m]
  BY <1>3, <1>4, <1>6, ObjectUpdate
<1>10. /\ mem' \in [Rank -> Seq(Message)]
       /\ \A q \in Rank : DOMAIN mem'[q] = DOMAIN mem[q]
  <2>1. /\ Packed(r, k, bufs, e, mem[r]) \in Seq(Message)
        /\ DOMAIN Packed(r, k, bufs, e, mem[r]) = DOMAIN mem[r]
    BY <1>2, <1>4, <1>5, PackedMemory
  <2> QED
    BY <1>1, <1>4, <2>1
<1>11. Types'
  <2>1. pc' \in [Rank -> Nat]
    BY <1>1, <1>4
  <2> QED
    BY <1>0, <1>1, <1>5, <1>7, <1>8, <1>9, <1>10, <2>1 DEF Types
<1>12. PoolOK'
  <2>1. \A q \in Rank, m \in Name : obj'[q][m].bufs = obj[q][m].bufs
    BY <1>6, <1>9 DEF bufs, o
  <2> QED
    BY <1>0, <1>1, <1>10, <2>1, PoolSame
<1>13. ObjectShape'
  <2> SUFFICES ASSUME NEW q \in Rank, NEW m \in Name
               PROVE  WellFormed(q, obj'[q][m], DOMAIN halo'[q])
    BY NextObjectShape
  <2>1. CASE q = r /\ m = n
    BY <2>1, <1>2, <1>5, <1>6, <1>9 DEF WellFormed, k
  <2>2. CASE q # r \/ m # n
    <3>1. obj'[q][m] = obj[q][m]
      BY <2>2, <1>9
    <3> QED
      BY <3>1, <1>0, <1>5, StillWellFormed
  <2> QED
    BY <2>1, <2>2
<1>14. RequestsOwn'
  <2>1. \A s \in sends : ~ (s.src = r /\ s.name = n)
    BY <1>0, <1>1 DEF RequestsOwn, o
  <2>2. \A s \in sends : obj'[s.src][s.name] = obj[s.src][s.name]
    BY <1>0, <1>9, <2>1, RequestTypes
  <2>3. UnpackBuffers(r, p) = UnpackBuffers(r, o)
    BY <1>2, <1>6 DEF UnpackBuffers, bufs
  <2>4. ASSUME NEW v \in recvs'
        PROVE  /\ obj'[v.dst][v.name].st \in {"packing", "inflight"}
               /\ v.buf \in UnpackBuffers(v.dst, obj'[v.dst][v.name])
               /\ \A w \in recvs' : w.dst = v.dst /\ w.name = v.name /\ w.buf = v.buf => w = v
    <3>1. CASE v.dst = r /\ v.name = n
      BY <3>1, <1>0, <1>1, <1>6, <1>9, <2>3 DEF RequestsOwn, o
    <3>2. CASE ~ (v.dst = r /\ v.name = n)
      <4>1. obj'[v.dst][v.name] = obj[v.dst][v.name]
        BY <3>2, <1>0, <1>1, <1>9, RequestTypes
      <4> QED
        BY <4>1, <1>0, <1>1 DEF RequestsOwn
    <3> QED
      BY <3>1, <3>2
  <2>5. ASSUME NEW s \in sends'
        PROVE  /\ obj'[s.src][s.name].st = "inflight"
               /\ s.buf \in PackBuffers(s.src, obj'[s.src][s.name])
               /\ \A t \in sends' : t.src = s.src /\ t.name = s.name /\ t.buf = s.buf => t = s
    <3>1. CASE s \in S
      BY <3>1, <1>1, <1>6, <1>7, <1>9, <2>1
    <3>2. CASE s \in sends
      BY <3>2, <1>0, <1>1, <1>7, <2>1, <2>2 DEF RequestsOwn
    <3> QED
      BY <3>1, <3>2, <1>1
  <2> QED
    BY <2>4, <2>5, NextRequests
<1> QED
  BY <1>11, <1>12, <1>13, <1>14, NextInvParts

LEMMA StartSyncStep ==
  ASSUME IInv, NEW r \in Rank, NEW n \in Name, StartSync(r, n)
  PROVE  IInv'
<1> DEFINE k == "sync"
           count == NumBufs(r, k)
           f == pop_from_cache(r, count)
           e == Len(halo[r]) + 1
           m == MemAfterPop(r, count)
           p == [st |-> "inflight", kind |-> k, tag |-> SyncTag, keep |-> FALSE,
                 bufs |-> f, exch |-> e]
           S == IsendAll(r, n, k, SyncTag, f)
           V == IrecvAll(r, n, k, SyncTag, f)
<1>0. Types /\ PoolOK /\ ObjectShape /\ RequestsOwn
  BY InvParts
<1>1. /\ UNCHANGED <<script, held, lastTag, garbage, wire>>
      /\ obj[r][n].st \in {"none", "finished"}
      /\ obj' = [obj EXCEPT ![r][n] = p]
      /\ cache' = [cache EXCEPT ![r] = CacheAfterPop(r, count)]
      /\ mem' = [mem EXCEPT ![r] = Packed(r, k, f, e, m)]
      /\ sends' = sends \union S /\ recvs' = recvs \union V
      /\ nsent' = CountPosted(nsent, r, Out[k][r], SyncTag)
      /\ nrecv' = CountPosted(nrecv, r, In[k][r], SyncTag)
      /\ halo' = [halo EXCEPT ![r] = Append(@, [kind |-> k, done |-> FALSE, got |-> <<>>])]
      /\ pc' = [pc EXCEPT ![r] = @ + 1]
  BY DEF StartSync, New, Return, progVars
<1>2. k \in Kind /\ count \in Nat /\ SyncTag \in Tag
  <2>1. SyncTag \in Tag
    BY BoundAssumption DEF SyncTag, Tag
  <2> QED
    BY <2>1, Peers DEF Kind
<1>3. /\ f \in Seq(Nat) /\ Len(f) = count
      /\ CacheAfterPop(r, count) \in Seq(Nat) /\ m \in Seq(Message)
      /\ IsInjective(f)
  BY <1>0, <1>2, PopFromCache DEF Types, PoolOK, OneUser, BuffersAllocated, Taken
<1>4. /\ nsent \in [Rank -> [Rank -> [Tag -> Nat]]]
      /\ nrecv \in [Rank -> [Rank -> [Tag -> Nat]]]
      /\ obj \in [Rank -> [Name -> Object]]
      /\ mem \in [Rank -> Seq(Message)]
      /\ cache \in [Rank -> Seq(Nat)] /\ pc \in [Rank -> Nat]
  BY <1>0 DEF Types
<1>5. /\ nsent' \in [Rank -> [Rank -> [Tag -> Nat]]]
      /\ nrecv' \in [Rank -> [Rank -> [Tag -> Nat]]]
  BY <1>1, <1>2, <1>4, CountPostedType
<1> HIDE DEF f, count, m, k, S, V
<1>6. /\ halo' \in [Rank -> Seq([kind : Kind, done : BOOLEAN, got : Seq(Message)])]
      /\ e \in Nat /\ e \in DOMAIN halo'[r]
      /\ \A q \in Rank : DOMAIN halo[q] \subseteq DOMAIN halo'[q]
  BY <1>0, <1>1, <1>2, AppendExchange
<1> HIDE DEF e
<1>7. /\ p \in Object /\ p.st = "inflight" /\ p.kind = k /\ p.bufs = f /\ p.exch = e
      /\ ~ p.keep
  BY <1>2, <1>3, <1>6 DEF Object
<1>8. /\ mem' \in [Rank -> Seq(Message)] /\ DOMAIN mem'[r] = DOMAIN m
      /\ \A q \in Rank : q # r => mem'[q] = mem[q]
  <2>1. Packed(r, k, f, e, m) \in Seq(Message) /\ DOMAIN Packed(r, k, f, e, m) = DOMAIN m
    BY <1>2, <1>3, <1>6, PackedMemory
  <2> QED
    BY <1>1, <1>4, <2>1
<1>9. Creates(r, n, k, p)
  <2>1. obj[r][n].bufs = <<>>
    BY <1>0, <1>1, ObjectFacts
  <2> QED
    BY <1>1, <1>7, <1>8, <2>1 DEF Creates, f, count, m
<1> HIDE DEF p
<1>10. /\ S \subseteq Request
       /\ \A s \in S : /\ s.src = r /\ s.name = n /\ s.buf \in PackBuffers(r, p)
                        /\ \A t \in S : t.buf = s.buf => t = s
  <2>1. /\ Len(f) = NumBufs(r, k) /\ f \in Seq(Nat) /\ IsInjective(f) /\ p.kind = k /\ p.bufs = f
        /\ nsent \in [Rank -> [Rank -> [Tag -> Nat]]]
    BY <1>3, <1>4, <1>7 DEF count
  <2> DEFINE t == SyncTag
  <2>2. t \in Tag
    BY <1>2
  <2> HIDE DEF t
  <2>3. /\ IsendAll(r, n, k, t, f) \subseteq Request
        /\ \A s \in IsendAll(r, n, k, t, f) :
             /\ s.src = r /\ s.name = n /\ s.buf \in PackBuffers(r, p)
             /\ \A u \in IsendAll(r, n, k, t, f) : u.buf = s.buf => u = s
    BY <1>2, <2>1, <2>2, IsendRequests, SMTT(60)
  <2> QED
    BY <2>3 DEF S, t
<1>11. /\ V \subseteq Request
       /\ \A v \in V : /\ v.dst = r /\ v.name = n /\ v.buf \in UnpackBuffers(r, p)
                        /\ \A w \in V : w.buf = v.buf => w = v
  <2>1. /\ Len(f) = NumBufs(r, k) /\ f \in Seq(Nat) /\ IsInjective(f) /\ p.kind = k /\ p.bufs = f
        /\ nrecv \in [Rank -> [Rank -> [Tag -> Nat]]]
    BY <1>3, <1>4, <1>7 DEF count
  <2> DEFINE t == SyncTag
  <2>2. t \in Tag
    BY <1>2
  <2> HIDE DEF t
  <2>3. /\ IrecvAll(r, n, k, t, f) \subseteq Request
        /\ \A s \in IrecvAll(r, n, k, t, f) :
             /\ s.dst = r /\ s.name = n /\ s.buf \in UnpackBuffers(r, p)
             /\ \A u \in IrecvAll(r, n, k, t, f) : u.buf = s.buf => u = s
    BY <1>2, <2>1, <2>2, IrecvRequests, SMTT(60)
  <2> QED
    BY <2>3 DEF V, t
<1>12. /\ obj' \in [Rank -> [Name -> Object]] /\ obj'[r][n] = p
       /\ \A q \in Rank, j \in Name : (q # r \/ j # n) => obj'[q][j] = obj[q][j]
  BY <1>1, <1>4, <1>7, ObjectUpdate
<1>13. Types'
  <2>1. cache' \in [Rank -> Seq(Nat)]
    BY <1>1, <1>3, <1>4
  <2>2. pc' \in [Rank -> Nat]
    BY <1>1, <1>4
  <2> QED
    BY <1>0, <1>1, <1>5, <1>6, <1>8, <1>10, <1>11, <1>12, <2>1, <2>2 DEF Types
<1>14. PoolOK'
  BY <1>0, <1>2, <1>9, PoolNew
<1>15. ObjectShape'
  <2> SUFFICES ASSUME NEW q \in Rank, NEW j \in Name
               PROVE  WellFormed(q, obj'[q][j], DOMAIN halo'[q])
    BY NextObjectShape
  <2>1. CASE q = r /\ j = n
    BY <2>1, <1>3, <1>6, <1>7, <1>12 DEF count, WellFormed
  <2>2. CASE q # r \/ j # n
    <3>1. obj'[q][j] = obj[q][j]
      BY <2>2, <1>12
    <3> QED
      BY <3>1, <1>0, <1>6, StillWellFormed
  <2> QED
    BY <2>1, <2>2
<1>16. RequestsOwn'
  <2>1. /\ \A s \in sends : ~ (s.src = r /\ s.name = n)
        /\ \A v \in recvs : ~ (v.dst = r /\ v.name = n)
    BY <1>0, <1>1, NoRequests
  <2>2. \A s \in sends : obj'[s.src][s.name] = obj[s.src][s.name]
    BY <1>0, <1>12, <2>1, RequestTypes
  <2>3. \A v \in recvs : obj'[v.dst][v.name] = obj[v.dst][v.name]
    BY <1>0, <1>12, <2>1, RequestTypes
  <2>4. ASSUME NEW v \in recvs'
        PROVE  /\ obj'[v.dst][v.name].st \in {"packing", "inflight"}
               /\ v.buf \in UnpackBuffers(v.dst, obj'[v.dst][v.name])
               /\ \A w \in recvs' : w.dst = v.dst /\ w.name = v.name /\ w.buf = v.buf => w = v
    <3>1. CASE v \in V
      BY <3>1, <1>1, <1>7, <1>11, <1>12, <2>1
    <3>2. CASE v \in recvs
      BY <3>2, <1>0, <1>1, <1>11, <2>1, <2>3 DEF RequestsOwn
    <3> QED
      BY <3>1, <3>2, <1>1
  <2>5. ASSUME NEW s \in sends'
        PROVE  /\ obj'[s.src][s.name].st = "inflight"
               /\ s.buf \in PackBuffers(s.src, obj'[s.src][s.name])
               /\ \A t \in sends' : t.src = s.src /\ t.name = s.name /\ t.buf = s.buf => t = s
    <3>1. CASE s \in S
      BY <3>1, <1>1, <1>7, <1>10, <1>12, <2>1
    <3>2. CASE s \in sends
      BY <3>2, <1>0, <1>1, <1>10, <2>1, <2>2 DEF RequestsOwn
    <3> QED
      BY <3>1, <3>2, <1>1
  <2> QED
    BY <2>4, <2>5, NextRequests
<1> QED
  BY <1>13, <1>14, <1>15, <1>16, NextInvParts

\* What a rank unpacks is one message for each of the ranks it receives from.
LEMMA UnpackedType ==
  ASSUME Types, PoolOK, ObjectShape, NEW r \in Rank, NEW n \in Name,
         obj[r][n].st = "inflight"
  PROVE  Unpacked(r, obj[r][n]) \in Seq(Message)
<1> DEFINE o == obj[r][n]
           k == o.kind
<1>1. /\ k \in Kind /\ o.bufs \in Seq(Nat) /\ Len(o.bufs) = NumBufs(r, k)
  BY ObjectFacts
<1>2. mem[r] \in Seq(Message) /\ Range(o.bufs) \subseteq DOMAIN mem[r]
  BY DEF Types, PoolOK, BuffersAllocated, Allocated
<1>3. \A i \in DOMAIN mem[r] : mem[r][i] \in Message
  BY <1>2, SequenceFacts
<1> HIDE DEF o, k
<1>4. In[k][r] \in Seq(Rank)
  BY <1>1, Peers
<1>5. ASSUME NEW j \in DOMAIN In[k][r]
      PROVE  mem[r][o.bufs[NumOut(r, k) + j]] \in Message
  <2>1. NumOut(r, k) + j \in DOMAIN o.bufs
    BY <1>1, BufferPositions
  <2>2. o.bufs[NumOut(r, k) + j] \in DOMAIN mem[r]
    BY <2>1, <1>2 DEF Range
  <2> QED
    BY <2>2, <1>3
<1>6. Unpacked(r, o) = [j \in DOMAIN In[k][r] |-> mem[r][o.bufs[NumOut(r, k) + j]]]
  BY DEF Unpacked, k
<1>7. Unpacked(r, o) \in [DOMAIN In[k][r] -> Message]
  BY <1>5, <1>6
<1>8. Unpacked(r, o) \in Seq(Message)
  BY <1>4, <1>7, SameDomain
<1> QED
  BY <1>8 DEF o

LEMMA CompleteExchange ==
  ASSUME Types, NEW r \in Rank, NEW e \in DOMAIN halo[r], NEW got \in Seq(Message),
         halo' = [halo EXCEPT ![r][e].done = TRUE, ![r][e].got = got]
  PROVE  /\ halo' \in [Rank -> Seq([kind : Kind, done : BOOLEAN, got : Seq(Message)])]
         /\ \A q \in Rank : DOMAIN halo'[q] = DOMAIN halo[q]
<1> DEFINE X == [kind : Kind, done : BOOLEAN, got : Seq(Message)]
           x == [halo[r][e] EXCEPT !.done = TRUE, !.got = got]
<1>1. halo \in [Rank -> Seq(X)]
  BY DEF Types
<1>2. halo[r] \in Seq(X) /\ halo[r][e] \in X
  <2>1. halo[r] \in Seq(X)
    BY <1>1
  <2> HIDE DEF X
  <2> QED
    BY <2>1, SequenceFacts
<1>3. x \in X
  BY <1>2
<1>4. halo' = [halo EXCEPT ![r] = [halo[r] EXCEPT ![e] = x]]
  BY <1>1
<1> HIDE DEF X, x
<1>5. /\ [halo[r] EXCEPT ![e] = x] \in Seq(X)
      /\ DOMAIN [halo[r] EXCEPT ![e] = x] = DOMAIN halo[r]
  BY <1>2, <1>3, ExceptSequence
<1> DEFINE h == [halo[r] EXCEPT ![e] = x]
<1>6. h \in Seq(X) /\ DOMAIN h = DOMAIN halo[r] /\ halo' = [halo EXCEPT ![r] = h]
  BY <1>4, <1>5
<1> HIDE DEF h
<1>7. halo' \in [Rank -> Seq(X)] /\ \A q \in Rank : DOMAIN halo'[q] = DOMAIN halo[q]
  BY <1>1, <1>6
<1> QED
  BY <1>7 DEF X

LEMMA WaitStep ==
  ASSUME IInv, NEW r \in Rank, NEW n \in Name, Wait(r, n)
  PROVE  IInv'
<1> DEFINE o == obj[r][n]
           p == IF o.keep THEN [o EXCEPT !.st = "idle"] ELSE Finalized(o)
           c == IF o.keep THEN cache[r] ELSE push_to_cache(r, o.bufs)
<1>0. Types /\ PoolOK /\ ObjectShape /\ RequestsOwn
  BY InvParts
<1>1. /\ UNCHANGED <<script, held, lastTag, garbage, mem, sends, recvs, wire, nsent, nrecv>>
      /\ o.st = "inflight"
      /\ halo' = [halo EXCEPT ![r][o.exch].done = TRUE, ![r][o.exch].got = Unpacked(r, o)]
      /\ pc' = [pc EXCEPT ![r] = @ + 1]
  BY DEF Wait, Return, progVars, mpiVars
<1>2. /\ o \in Object /\ o.bufs \in Seq(Nat) /\ o.exch \in DOMAIN halo[r]
      /\ Len(o.bufs) = NumBufs(r, o.kind)
      /\ o.keep \in BOOLEAN /\ o.keep => o.kind = "halo" /\ o.tag \in Tag
  BY <1>0, <1>1, ObjectFacts
<1>3. /\ obj \in [Rank -> [Name -> Object]] /\ pc \in [Rank -> Nat]
      /\ cache \in [Rank -> Seq(Nat)]
  BY <1>0 DEF Types
<1>4. /\ obj' = [obj EXCEPT ![r][n] = p]
      /\ cache' = [cache EXCEPT ![r] = c]
  <2>1. CASE o.keep
    BY <2>1, <1>3 DEF Wait
  <2>2. CASE ~ o.keep
    BY <2>2, <1>3 DEF Wait
  <2> QED
    BY <2>1, <2>2
<1>5. /\ halo' \in [Rank -> Seq([kind : Kind, done : BOOLEAN, got : Seq(Message)])]
      /\ \A q \in Rank : DOMAIN halo'[q] = DOMAIN halo[q]
  <2>1. Unpacked(r, o) \in Seq(Message)
    BY <1>0, <1>1, UnpackedType
  <2> QED
    BY <2>1, <1>0, <1>1, <1>2, CompleteExchange
<1>6. /\ ~ \E s \in sends : s.src = r /\ s.name = n
      /\ ~ \E v \in recvs : v.dst = r /\ v.name = n
  BY DEF Wait, SendsComplete, RecvsComplete
<1>7. /\ cache[r] \in Seq(Nat) /\ IsInjective(cache[r]) /\ IsInjective(o.bufs)
      /\ Range(cache[r]) \intersect Range(o.bufs) = {}
  BY <1>0, <1>3 DEF PoolOK, OneUser
<1>8. /\ c \in Seq(Nat) /\ IsInjective(c)
      /\ ~ o.keep => Range(c) = Range(cache[r]) \union Range(o.bufs)
  BY <1>2, <1>7, PushToCache
<1>9. /\ p \in Object
      /\ o.keep => p.st = "idle" /\ p.bufs = o.bufs /\ p.kind = o.kind /\ p.tag = o.tag
      /\ ~ o.keep => p.st = "finished" /\ p.bufs = <<>> /\ ~ p.keep
  <2>1. /\ o.st \in {"none", "idle", "packing", "inflight", "finished"} /\ o.kind \in Kind
        /\ o.tag \in Tag \union {0} /\ o.keep \in BOOLEAN /\ o.exch \in Nat
    BY <1>2 DEF Object
  <2>2. CASE o.keep
    BY <2>1, <2>2, <1>2 DEF Object
  <2>3. CASE ~ o.keep
    <3>1. <<>> \in Seq(Nat)
      OBVIOUS
    <3>2. p = [o EXCEPT !.st = "finished", !.bufs = <<>>]
      BY <2>3 DEF Finalized
    <3> QED
      BY <3>1, <3>2, <2>1, <2>3, <1>2 DEF Object
  <2> QED
    BY <2>2, <2>3
<1> HIDE DEF p, c
<1>10. /\ obj' \in [Rank -> [Name -> Object]] /\ obj'[r][n] = p
       /\ \A q \in Rank, m \in Name : (q # r \/ m # n) => obj'[q][m] = obj[q][m]
  BY <1>3, <1>4, <1>9, ObjectUpdate
<1>11. Types'
  <2>1. pc' \in [Rank -> Nat] /\ cache' \in [Rank -> Seq(Nat)]
    <3>1. cache' \in [Rank -> Seq(Nat)]
      <4>1. c \in Seq(Nat) /\ cache' = [cache EXCEPT ![r] = c]
        BY <1>4, <1>8
      <4> QED
        BY <4>1, <1>3
    <3>2. pc' \in [Rank -> Nat]
      BY <1>1, <1>3
    <3> QED
      BY <3>1, <3>2
  <2> QED
    BY <1>0, <1>1, <1>5, <1>10, <2>1 DEF Types
<1>12. PoolOK'
  <2>1. CASE o.keep
    <3>1. cache' = cache
      BY <2>1, <1>3, <1>4 DEF c
    <3>2. \A q \in Rank, m \in Name : obj'[q][m].bufs = obj[q][m].bufs
      BY <2>1, <1>9, <1>10
    <3> QED
      BY <3>1, <3>2, <1>0, <1>1, PoolSame
  <2>2. CASE ~ o.keep
    <3>1. Pool(cache[r], HeldBy(r), garbage[r], Allocated(r))
      BY <1>0, PoolOfState
    <3>2. HeldBy(r)[n] = o.bufs
      BY DEF HeldBy
    <3>3. HeldBy(r)'[n] = <<>> /\ \A m \in Name : m # n => HeldBy(r)'[m] = HeldBy(r)[m]
      BY <2>2, <1>9, <1>10 DEF HeldBy
    <3>4. Range(HeldBy(r)'[n]) = {} /\ IsInjective(HeldBy(r)'[n])
      BY <3>3 DEF Range, IsInjective
    <3>5. Pool(c, HeldBy(r)', garbage[r], Allocated(r))
      <4>1. Range(c) = Range(cache[r]) \union Range(HeldBy(r)[n]) /\ IsInjective(c)
        <5>1. Range(c) = Range(cache[r]) \union Range(o.bufs) /\ IsInjective(c)
          BY <2>2, <1>8
        <5> QED
          BY <5>1, <3>2
      <4> DEFINE h  == HeldBy(r)
                 h2 == HeldBy(r)'
                 g  == garbage[r]
                 A  == Allocated(r)
                 c1 == cache[r]
      <4>2. /\ Pool(c1, h, g, A) /\ Range(h2[n]) = {} /\ IsInjective(h2[n])
            /\ \A m \in Name : m # n => h2[m] = h[m]
            /\ Range(c) = Range(c1) \union Range(h[n]) /\ IsInjective(c)
        BY <3>1, <3>3, <3>4, <4>1
      <4> HIDE DEF h, h2, g, A, c1
      <4>3. Pool(c, h2, g, A)
        BY <4>2, PoolFinalize
      <4> QED
        BY <4>3 DEF h2, g, A
    <3>6. /\ cache'[r] = c /\ Allocated(r)' = Allocated(r)
          /\ \A q \in Rank : q # r => cache'[q] = cache[q]
      BY <1>1, <1>3, <1>4 DEF Allocated
    <3> QED
      BY <1>0, <1>1, <1>10, <3>5, <3>6, PoolOfRank
  <2> QED
    BY <2>1, <2>2
<1>13. ObjectShape'
  <2> SUFFICES ASSUME NEW q \in Rank, NEW m \in Name
               PROVE  WellFormed(q, obj'[q][m], DOMAIN halo'[q])
    BY NextObjectShape
  <2>1. CASE q = r /\ m = n
    BY <2>1, <1>2, <1>9, <1>10 DEF WellFormed
  <2>2. CASE q # r \/ m # n
    <3>1. obj'[q][m] = obj[q][m]
      BY <2>2, <1>10
    <3> QED
      BY <3>1, <1>0, <1>5, StillWellFormed
  <2> QED
    BY <2>1, <2>2
<1>14. RequestsOwn'
  BY <1>0, <1>1, <1>6, <1>10, RequestTypes, RequestsSame
<1> QED
  BY <1>11, <1>12, <1>13, <1>14, NextInvParts

LEMMA DropStep ==
  ASSUME IInv, NEW r \in Rank, NEW n \in Name, Drop(r, n)
  PROVE  IInv'
<1> DEFINE o == obj[r][n]
<1>0. Types /\ PoolOK /\ ObjectShape /\ RequestsOwn
  BY InvParts
<1>1. /\ UNCHANGED <<script, held, lastTag, cache, mem, sends, recvs, wire, nsent, nrecv, halo>>
      /\ o.st = "idle"
      /\ garbage' = [garbage EXCEPT ![r] = garbage[r] \union {o.bufs}]
      /\ obj' = [obj EXCEPT ![r][n] = NoObj]
      /\ pc' = [pc EXCEPT ![r] = @ + 1]
  BY DEF Drop, Return, progVars, mpiVars
<1>2. NoObj \in Object /\ NoObj.bufs = <<>> /\ NoObj.st = "none" /\ ~ NoObj.keep
  BY DEF NoObj, Object, Kind
<1>3. /\ obj \in [Rank -> [Name -> Object]] /\ pc \in [Rank -> Nat]
      /\ garbage \in [Rank -> SUBSET Seq(Nat)] /\ o.bufs \in Seq(Nat)
  BY <1>0, ObjectFacts DEF Types
<1>4. /\ obj' \in [Rank -> [Name -> Object]] /\ obj'[r][n] = NoObj
      /\ \A q \in Rank, m \in Name : (q # r \/ m # n) => obj'[q][m] = obj[q][m]
  BY <1>1, <1>2, <1>3, ObjectUpdate
<1>5. Types'
  <2>1. pc' \in [Rank -> Nat]
    BY <1>1, <1>3
  <2>2. garbage' \in [Rank -> SUBSET Seq(Nat)]
    BY <1>1, <1>3
  <2> QED
    BY <1>0, <1>1, <1>4, <2>1, <2>2 DEF Types
<1>6. PoolOK'
  <2> DEFINE h  == HeldBy(r)
             h2 == HeldBy(r)'
             g  == garbage[r]
             g2 == garbage'[r]
             A  == Allocated(r)
             c  == cache[r]
  <2>1. Pool(c, h, g, A)
    BY <1>0, PoolOfState
  <2>2. h2[n] = <<>> /\ h[n] = o.bufs /\ \A m \in Name : m # n => h2[m] = h[m]
    BY <1>2, <1>4 DEF HeldBy
  <2>3. Range(h2[n]) = {} /\ IsInjective(h2[n])
    BY <2>2 DEF Range, IsInjective
  <2>4. /\ g2 = g \union {h[n]} /\ Allocated(r)' = A
        /\ \A q \in Rank : q # r => garbage'[q] = garbage[q]
    BY <1>1, <1>3, <2>2 DEF Allocated
  <2>5. Pool(c, h2, g2, A)
    <3> HIDE DEF h, h2, g, A, c, g2, o
    <3> QED
      BY <2>1, <2>2, <2>3, <2>4, PoolDrop
  <2>6. Pool(cache'[r], HeldBy(r)', garbage'[r], Allocated(r)')
    BY <1>1, <2>4, <2>5
  <2>7. ASSUME NEW q \in Rank, q # r
        PROVE  /\ cache'[q] = cache[q]
               /\ garbage'[q] = garbage[q]
               /\ DOMAIN mem'[q] = DOMAIN mem[q]
               /\ \A m \in Name : obj'[q][m].bufs = obj[q][m].bufs
    BY <2>7, <1>1, <1>4, <2>4
  <2> HIDE DEF h, h2, g, A, c, g2, o
  <2> QED
    BY <1>0, <2>6, <2>7, PoolOfRank
<1>7. ObjectShape'
  <2> SUFFICES ASSUME NEW q \in Rank, NEW m \in Name
               PROVE  WellFormed(q, obj'[q][m], DOMAIN halo'[q])
    BY NextObjectShape
  <2>1. CASE q = r /\ m = n
    BY <2>1, <1>2, <1>4 DEF WellFormed
  <2>2. CASE q # r \/ m # n
    <3>1. obj'[q][m] = obj[q][m]
      BY <2>2, <1>4
    <3> QED
      BY <3>1, <1>0, <1>1, StillWellFormed
  <2> QED
    BY <2>1, <2>2
<1>8. RequestsOwn'
  <2>1. /\ \A s \in sends : ~ (s.src = r /\ s.name = n)
        /\ \A v \in recvs : ~ (v.dst = r /\ v.name = n)
    BY <1>0, <1>1, NoRequests
  <2> QED
    BY <1>0, <1>1, <1>4, <2>1, RequestTypes, RequestsSame
<1> QED
  BY <1>5, <1>6, <1>7, <1>8, NextInvParts

LEMMA CollectStep ==
  ASSUME IInv, NEW r \in Rank, Collect(r)
  PROVE  IInv'
<1>0. Types /\ PoolOK /\ ObjectShape /\ RequestsOwn
  BY InvParts
<1>1. PICK bufs \in garbage[r] :
        /\ garbage' = [garbage EXCEPT ![r] = garbage[r] \ {bufs}]
        /\ cache' = [cache EXCEPT ![r] = push_to_cache(r, bufs)]
        /\ UNCHANGED <<progVars, pc, lastTag, obj, mem, mpiVars, halo>>
  BY DEF Collect
<1>2. UNCHANGED <<script, held, pc, lastTag, obj, mem, sends, recvs, wire, nsent, nrecv, halo>>
  BY <1>1 DEF progVars, mpiVars
<1> DEFINE c2 == push_to_cache(r, bufs)
<1>3. /\ garbage \in [Rank -> SUBSET Seq(Nat)] /\ bufs \in Seq(Nat)
      /\ cache \in [Rank -> Seq(Nat)]
  BY <1>0 DEF Types
<1>4. /\ cache[r] \in Seq(Nat) /\ IsInjective(cache[r]) /\ IsInjective(bufs)
      /\ Range(cache[r]) \intersect Range(bufs) = {}
  BY <1>0, <1>3 DEF PoolOK, OneUser
<1>5. /\ c2 \in Seq(Nat) /\ IsInjective(c2)
      /\ Range(c2) = Range(cache[r]) \union Range(bufs)
  BY <1>3, <1>4, PushToCache
<1>6. /\ cache' = [cache EXCEPT ![r] = c2]
      /\ garbage' = [garbage EXCEPT ![r] = garbage[r] \ {bufs}]
  BY <1>1
<1> HIDE DEF c2
<1>7. Types'
  <2>1. cache' \in [Rank -> Seq(Nat)]
    BY <1>3, <1>5, <1>6
  <2>2. garbage' \in [Rank -> SUBSET Seq(Nat)]
    BY <1>3, <1>6
  <2> QED
    BY <1>0, <1>2, <2>1, <2>2 DEF Types
<1>8. PoolOK'
  <2> DEFINE h == HeldBy(r)
             g == garbage[r]
             A == Allocated(r)
             c == cache[r]
  <2>1. /\ Pool(c, h, g, A) /\ bufs \in g
        /\ Range(c2) = Range(c) \union Range(bufs) /\ IsInjective(c2)
    BY <1>0, <1>5, PoolOfState
  <2>2. Pool(c2, h, g \ {bufs}, A)
    <3> HIDE DEF h, g, A, c
    <3> QED
      BY <2>1, PoolCollect
  <2>3. HeldBy(r)' = h /\ Allocated(r)' = A
    BY <1>2 DEF HeldBy, Allocated
  <2>4. /\ cache'[r] = c2 /\ garbage'[r] = g \ {bufs}
        /\ \A q \in Rank : q # r => cache'[q] = cache[q] /\ garbage'[q] = garbage[q]
    BY <1>3, <1>6
  <2>5. Pool(cache'[r], HeldBy(r)', garbage'[r], Allocated(r)')
    BY <2>2, <2>3, <2>4
  <2> QED
    BY <1>0, <1>2, <2>4, <2>5, PoolOfRank
<1>9. ObjectShape'
  BY <1>0, <1>2 DEF ObjectShape, WellFormed, NumBufs
<1>10. RequestsOwn'
  BY <1>0, <1>2, RequestsSame
<1> QED
  BY <1>7, <1>8, <1>9, <1>10, NextInvParts

\* MPI writes one element of the memory of one rank.
LEMMA WriteMemory ==
  ASSUME mem \in [Rank -> Seq(Message)], NEW d \in Rank, NEW b, NEW x \in Message,
         mem' = [mem EXCEPT ![d][b] = x]
  PROVE  /\ mem' \in [Rank -> Seq(Message)]
         /\ \A q \in Rank : DOMAIN mem'[q] = DOMAIN mem[q]
         /\ \A q \in Rank, i \in Nat : (q # d \/ i # b) => mem'[q][i] = mem[q][i]
<1> DEFINE m == [mem[d] EXCEPT ![b] = x]
<1>1. mem[d] \in Seq(Message)
  OBVIOUS
<1>2. m \in Seq(Message) /\ DOMAIN m = DOMAIN mem[d]
  BY <1>1, ExceptSequence
<1>3. \A i \in Nat : i # b => m[i] = mem[d][i]
  OBVIOUS
<1>4. mem' = [mem EXCEPT ![d] = m]
  OBVIOUS
<1> HIDE DEF m
<1>5. /\ mem' \in [Rank -> Seq(Message)] /\ mem'[d] = m
      /\ \A q \in Rank : q # d => mem'[q] = mem[q]
  BY <1>2, <1>4
<1> QED
  BY <1>2, <1>3, <1>5

\* The content of a buffer whose request is pending is a message.
LEMMA SendContent ==
  ASSUME Types, PoolOK, ObjectShape, RequestsOwn, NEW s \in sends
  PROVE  s.buf \in Nat /\ mem[s.src][s.buf] \in Message
<1> DEFINE o == obj[s.src][s.name]
<1>1. s.src \in Rank /\ s.name \in Name
  BY RequestTypes
<1>2. o.st = "inflight" /\ s.buf \in PackBuffers(s.src, o)
  BY DEF RequestsOwn
<1>3. o.bufs \in Seq(Nat) /\ o.kind \in Kind /\ Len(o.bufs) = NumBufs(s.src, o.kind)
  BY <1>1, <1>2, ObjectFacts
<1>4. Range(o.bufs) \subseteq DOMAIN mem[s.src] /\ mem[s.src] \in Seq(Message)
  BY <1>1 DEF Types, PoolOK, BuffersAllocated, Allocated
<1> HIDE DEF o
<1>5. s.buf \in Range(o.bufs) /\ s.buf \in Nat
  <2>1. PICK i \in DOMAIN Out[o.kind][s.src] : s.buf = o.bufs[i]
    BY <1>2 DEF PackBuffers
  <2>2. i \in DOMAIN o.bufs /\ o.bufs[i] \in Nat
    BY <1>1, <1>3, BufferPositions
  <2> QED
    BY <2>1, <2>2 DEF Range
<1> QED
  BY <1>4, <1>5, SequenceFacts

LEMMA BufferMessageStep ==
  ASSUME IInv, NEW s \in sends, BufferMessage(s)
  PROVE  IInv'
<1>0. Types /\ PoolOK /\ ObjectShape /\ RequestsOwn
  BY InvParts
<1> DEFINE w == [src |-> s.src, dst |-> s.dst, tag |-> s.tag, seq |-> s.seq,
                 val |-> mem[s.src][s.buf]]
<1>1. /\ UNCHANGED <<script, held, pc, lastTag, obj, garbage, cache, mem, recvs,
                      nsent, nrecv, halo>>
      /\ sends' = sends \ {s} /\ wire' = wire \union {w}
  BY DEF BufferMessage, progVars, rankVars
<1>2. w \in [src : Rank, dst : Rank, tag : Tag, seq : Nat, val : Message]
  BY <1>0, RequestTypes, SendContent
<1> HIDE DEF w
<1>3. Types'
  BY <1>0, <1>1, <1>2 DEF Types
<1>4. PoolOK'
  BY <1>0, <1>1, PoolSame
<1>5. ObjectShape'
  BY <1>0, <1>1 DEF ObjectShape, WellFormed, NumBufs
<1>6. RequestsOwn'
  BY <1>0, <1>1, RequestsSame
<1> QED
  BY <1>3, <1>4, <1>5, <1>6, NextInvParts

\* What Transfer and Deliver have in common: MPI completes receive v.
LEMMA ReceiveStep ==
  ASSUME IInv, NEW v \in recvs, NEW x \in Message,
         mem' = [mem EXCEPT ![v.dst][v.buf] = x],
         sends' \subseteq sends, recvs' \subseteq recvs, wire' \subseteq wire,
         UNCHANGED <<script, held, pc, lastTag, obj, garbage, cache, nsent, nrecv, halo>>
  PROVE  IInv'
<1>0. Types /\ PoolOK /\ ObjectShape /\ RequestsOwn
  BY InvParts
<1>1. mem \in [Rank -> Seq(Message)] /\ v.dst \in Rank
  BY <1>0, RequestTypes DEF Types
<1>2. /\ mem' \in [Rank -> Seq(Message)]
      /\ \A q \in Rank : DOMAIN mem'[q] = DOMAIN mem[q]
  BY <1>1, WriteMemory
<1>3. Types'
  BY <1>0, <1>2 DEF Types
<1>4. PoolOK'
  BY <1>0, <1>2, PoolSame
<1>5. ObjectShape'
  BY <1>0 DEF ObjectShape, WellFormed, NumBufs
<1>6. RequestsOwn'
  BY <1>0, RequestsSame
<1> QED
  BY <1>3, <1>4, <1>5, <1>6, NextInvParts

LEMMA TransferStep ==
  ASSUME IInv, NEW s \in sends, NEW v \in recvs, Transfer(s, v)
  PROVE  IInv'
<1>1. mem[s.src][s.buf] \in Message
  BY InvParts, SendContent
<1> QED
  BY <1>1, ReceiveStep DEF Transfer, progVars, rankVars

LEMMA DeliverStep ==
  ASSUME IInv, NEW w \in wire, NEW v \in recvs, Deliver(w, v)
  PROVE  IInv'
<1>1. w.val \in Message
  BY InvParts DEF Types
<1> QED
  BY <1>1, ReceiveStep DEF Deliver, progVars, rankVars

-----------------------------------------------------------------------------
(* The theorems.                                                           *)

LEMMA InitInv == Init => IInv
<1> SUFFICES ASSUME Init PROVE Types /\ PoolOK /\ ObjectShape /\ RequestsOwn
  BY InvParts
<1>1. NoObj \in Object /\ NoObj.bufs = <<>> /\ NoObj.st = "none" /\ ~ NoObj.keep
  BY DEF NoObj, Object, Kind
<1>2. \A r \in Rank, n \in Name : obj[r][n] = NoObj
  BY DEF Init
<1>3. Types
  BY <1>1 DEF Init, Types
<1>4. PoolOK
  <2> SUFFICES ASSUME NEW r \in Rank
               PROVE  Pool(cache[r], HeldBy(r), garbage[r], Allocated(r))
    BY PoolOfState
  <2>1. /\ cache[r] = <<>> /\ mem[r] = <<>> /\ garbage[r] = {}
        /\ \A n \in Name : HeldBy(r)[n] = <<>>
    BY <1>1, <1>2 DEF Init, HeldBy
  <2>2. Range(<<>>) = {} /\ IsInjective(<<>>) /\ DOMAIN <<>> = {}
    BY DEF Range, IsInjective
  <2> QED
    BY <2>1, <2>2 DEF Pool, Allocated
<1>5. ObjectShape
  BY <1>1, <1>2 DEF ObjectShape, WellFormed
<1>6. RequestsOwn
  BY DEF Init, RequestsOwn
<1> QED
  BY <1>3, <1>4, <1>5, <1>6

LEMMA StutterStep ==
  ASSUME IInv, UNCHANGED vars
  PROVE  IInv'
<1>0. Types /\ PoolOK /\ ObjectShape /\ RequestsOwn
  BY InvParts
<1>1. UNCHANGED <<script, held, pc, lastTag, obj, garbage, cache, mem, sends, recvs, wire,
                  nsent, nrecv, halo>>
  BY DEF vars, progVars, rankVars, mpiVars
<1>2. Types'
  BY <1>0, <1>1 DEF Types
<1>3. PoolOK'
  BY <1>0, <1>1, PoolSame
<1>4. ObjectShape'
  BY <1>0, <1>1 DEF ObjectShape, WellFormed, NumBufs
<1>5. RequestsOwn'
  BY <1>0, <1>1, RequestsSame
<1> QED
  BY <1>2, <1>3, <1>4, <1>5, NextInvParts

LEMMA NextInv == IInv /\ [Next]_vars => IInv'
<1> SUFFICES ASSUME IInv, [Next]_vars PROVE IInv'
  OBVIOUS
<1>1. ASSUME NEW do \in DOMAIN CallResult, NEW n \in Name, Extend(do, n) PROVE IInv'
  BY <1>1, ExtendStep
<1>2. ASSUME NEW r \in Rank, RankStep(r) PROVE IInv'
  <2> PICK n \in Name : \/ GetUpdater(r, n) \/ StartRecvs(r, n) \/ StartOnceRecvs(r, n)
                        \/ PackAndSend(r, n) \/ StartSync(r, n) \/ Wait(r, n) \/ Drop(r, n)
    BY <1>2 DEF RankStep
  <2> QED
    BY GetUpdaterStep, StartRecvsStep, StartOnceRecvsStep, PackAndSendStep, StartSyncStep,
       WaitStep, DropStep
<1>3. ASSUME NEW r \in Rank, Collect(r) PROVE IInv'
  BY <1>3, CollectStep
<1>4. CASE MpiStep
  BY <1>4, BufferMessageStep, TransferStep, DeliverStep DEF MpiStep, CompleteMatched
<1>5. CASE UNCHANGED vars
  BY <1>5, StutterStep
<1> QED
  BY <1>1, <1>2, <1>3, <1>4, <1>5 DEF Next

(***************************************************************************)
(* The inductive invariant holds in every reachable state, for every       *)
(* program the ranks may run.                                              *)
(***************************************************************************)
THEOREM Invariance == Spec => []IInv
BY InitInv, NextInv, PTL DEF Spec

(***************************************************************************)
(* Every variable has its type, and a buffer that an updater, the cache or *)
(* the garbage collector names has been allocated.                         *)
(***************************************************************************)
THEOREM TypeCorrect == Spec => []TypeOK
<1>1. IInv => TypeOK
  BY DEF IInv
<1> QED
  BY <1>1, Invariance, PTL

(***************************************************************************)
(* A buffer has one user at a time: finalize, __del__ and                  *)
(* HaloUpdateRequest.wait never put a buffer into the cache that another   *)
(* updater can still use.                                                  *)
(***************************************************************************)
THEOREM BuffersHaveOneUser == Spec => []OneUser
<1>1. IInv => OneUser
  BY DEF IInv
<1> QED
  BY <1>1, Invariance, PTL

(***************************************************************************)
(* No buffer is lost: what Buffer.pop_from_cache allocates always comes    *)
(* back to the cache or stays reachable.                                   *)
(***************************************************************************)
THEOREM NoBufferLost == Spec => []PoolConserved
<1>1. IInv => PoolConserved
  BY DEF IInv
<1> QED
  BY <1>1, Invariance, PTL

\* The buffers of a pending request are among those of its updater.
LEMMA RequestBuffers ==
  ASSUME IInv
  PROVE  /\ \A s \in sends : s.buf \in Range(obj[s.src][s.name].bufs)
         /\ \A v \in recvs : v.buf \in Range(obj[v.dst][v.name].bufs)
<1>0. Types /\ PoolOK /\ ObjectShape /\ RequestsOwn
  BY InvParts
<1>1. ASSUME NEW s \in sends PROVE s.buf \in Range(obj[s.src][s.name].bufs)
  <2> DEFINE o == obj[s.src][s.name]
  <2>1. /\ s.src \in Rank /\ s.name \in Name /\ s.buf \in PackBuffers(s.src, o)
        /\ o.st = "inflight"
    BY <1>0, RequestTypes DEF RequestsOwn
  <2>2. o.bufs \in Seq(Nat) /\ o.kind \in Kind /\ Len(o.bufs) = NumBufs(s.src, o.kind)
    BY <1>0, <2>1, ObjectFacts
  <2> HIDE DEF o
  <2>3. PICK i \in DOMAIN Out[o.kind][s.src] : s.buf = o.bufs[i]
    BY <2>1 DEF PackBuffers
  <2>4. i \in DOMAIN o.bufs
    BY <2>1, <2>2, BufferPositions
  <2> QED
    BY <2>3, <2>4 DEF Range, o
<1>2. ASSUME NEW v \in recvs PROVE v.buf \in Range(obj[v.dst][v.name].bufs)
  <2> DEFINE o == obj[v.dst][v.name]
  <2>1. /\ v.dst \in Rank /\ v.name \in Name /\ v.buf \in UnpackBuffers(v.dst, o)
        /\ o.st \in {"packing", "inflight"}
    BY <1>0, RequestTypes DEF RequestsOwn
  <2>2. o.bufs \in Seq(Nat) /\ o.kind \in Kind /\ Len(o.bufs) = NumBufs(v.dst, o.kind)
    BY <1>0, <2>1, ObjectFacts
  <2> HIDE DEF o
  <2>3. PICK j \in DOMAIN In[o.kind][v.dst] : v.buf = o.bufs[NumOut(v.dst, o.kind) + j]
    BY <2>1 DEF UnpackBuffers
  <2>4. NumOut(v.dst, o.kind) + j \in DOMAIN o.bufs
    BY <2>1, <2>2, BufferPositions
  <2> QED
    BY <2>3, <2>4 DEF Range, o
<1> QED
  BY <1>1, <1>2

\* The pack and the unpack buffers of an updater are different buffers.
LEMMA PackNotUnpack ==
  ASSUME IInv, NEW r \in Rank, NEW n \in Name, obj[r][n].st = "inflight"
  PROVE  PackBuffers(r, obj[r][n]) \intersect UnpackBuffers(r, obj[r][n]) = {}
<1>0. Types /\ PoolOK /\ ObjectShape
  BY InvParts
<1> DEFINE o == obj[r][n]
<1>1. /\ o.bufs \in Seq(Nat) /\ IsInjective(o.bufs) /\ o.kind \in Kind
      /\ Len(o.bufs) = NumBufs(r, o.kind)
  BY <1>0, ObjectFacts
<1> HIDE DEF o
<1> SUFFICES ASSUME NEW i \in DOMAIN Out[o.kind][r], NEW j \in DOMAIN In[o.kind][r],
                    o.bufs[i] = o.bufs[NumOut(r, o.kind) + j]
             PROVE  FALSE
  BY DEF PackBuffers, UnpackBuffers, o
<1>2. /\ i \in DOMAIN o.bufs /\ NumOut(r, o.kind) + j \in DOMAIN o.bufs
      /\ NumOut(r, o.kind) + j \notin DOMAIN Out[o.kind][r]
  BY <1>1, BufferPositions
<1> QED
  BY <1>1, <1>2 DEF IsInjective

LEMMA InvPending == IInv => PendingOwned
<1> SUFFICES ASSUME IInv PROVE PendingOwned
  OBVIOUS
<1>0. Types /\ PoolOK /\ ObjectShape /\ RequestsOwn /\ OneUser
  BY InvParts DEF PoolOK
<1>1. ASSUME NEW s \in sends, NEW t \in sends, t.src = s.src, t.buf = s.buf
      PROVE  t = s
  <2>1. s.name = t.name
    BY <1>0, <1>1, RequestTypes, RequestBuffers DEF OneUser
  <2> QED
    BY <1>0, <1>1, <2>1 DEF RequestsOwn
<1>2. ASSUME NEW v \in recvs, NEW w \in recvs, w.dst = v.dst, w.buf = v.buf
      PROVE  w = v
  <2>1. v.name = w.name
    BY <1>0, <1>2, RequestTypes, RequestBuffers DEF OneUser
  <2> QED
    BY <1>0, <1>2, <2>1 DEF RequestsOwn
<1>3. ASSUME NEW v \in recvs, NEW s \in sends, s.src = v.dst, s.buf = v.buf
      PROVE  FALSE
  <2>1. s.src \in Rank /\ s.name \in Name /\ v.name \in Name
    BY <1>0, RequestTypes
  <2>2. v.name = s.name
    BY <1>0, <1>3, <2>1, RequestBuffers DEF OneUser
  <2>3. /\ obj[s.src][s.name].st = "inflight"
        /\ s.buf \in PackBuffers(s.src, obj[s.src][s.name])
        /\ s.buf \in UnpackBuffers(s.src, obj[s.src][s.name])
    BY <1>0, <1>3, <2>2 DEF RequestsOwn
  <2> QED
    BY <2>1, <2>3, PackNotUnpack
<1> QED
  BY <1>0, <1>1, <1>2, <1>3 DEF PendingOwned, RequestsOwn

(***************************************************************************)
(* A buffer that MPI may still read or write belongs to the updater whose  *)
(* exchange is under way, and to one request.                              *)
(***************************************************************************)
THEOREM PendingBuffersOwned == Spec => []PendingOwned
BY Invariance, InvPending, PTL

-----------------------------------------------------------------------------
(* Pending send buffers keep their content.                                *)

Stable == \A s \in sends : s \in sends' => mem'[s.src][s.buf] = mem[s.src][s.buf]

\* A pending send buffer is allocated, and is neither cached nor another updater's.
LEMMA SendBufferPlace ==
  ASSUME IInv, NEW s \in sends
  PROVE  /\ s.src \in Rank /\ s.name \in Name /\ s.buf \in Nat
         /\ obj[s.src][s.name].st = "inflight"
         /\ s.buf \in Allocated(s.src) /\ s.buf \notin Range(cache[s.src])
         /\ \A n \in Name : n # s.name => s.buf \notin Range(obj[s.src][n].bufs)
<1>0. Types /\ PoolOK /\ ObjectShape /\ RequestsOwn /\ OneUser /\ BuffersAllocated
  BY InvParts DEF PoolOK
<1>1. s.src \in Rank /\ s.name \in Name /\ s.buf \in Nat
  BY <1>0, RequestTypes, SendContent
<1>2. obj[s.src][s.name].st = "inflight" /\ s.buf \in Range(obj[s.src][s.name].bufs)
  BY <1>0, RequestBuffers DEF RequestsOwn
<1>3. s.buf \in Allocated(s.src)
  BY <1>0, <1>1, <1>2 DEF BuffersAllocated
<1> QED
  BY <1>0, <1>1, <1>2, <1>3 DEF OneUser

\* What popping count buffers does to the memory of r.
LEMMA PopMemory ==
  ASSUME IInv, NEW r \in Rank, NEW k \in Kind
  PROVE  LET f == pop_from_cache(r, NumBufs(r, k))
             m == MemAfterPop(r, NumBufs(r, k))
         IN  /\ f \in Seq(Nat) /\ m \in Seq(Message) /\ Len(f) = NumBufs(r, k)
             /\ Range(f) \intersect Allocated(r) \subseteq Range(cache[r])
             /\ \A b \in Allocated(r) : b \in DOMAIN m /\ m[b] = mem[r][b]
<1>1. /\ cache[r] \in Seq(Nat) /\ mem[r] \in Seq(Message) /\ IsInjective(cache[r])
      /\ Range(cache[r]) \subseteq Allocated(r)
  BY InvParts DEF Types, PoolOK, OneUser, BuffersAllocated
<1>2. NumBufs(r, k) \in Nat
  BY Peers
<1> DEFINE f == pop_from_cache(r, NumBufs(r, k))
           c == CacheAfterPop(r, NumBufs(r, k))
           m == MemAfterPop(r, NumBufs(r, k))
<1>3. /\ f \in Seq(Nat) /\ m \in Seq(Message) /\ Len(f) = NumBufs(r, k)
      /\ Taken(cache[r], Allocated(r), f, c, DOMAIN m)
      /\ \A b \in Allocated(r) : m[b] = mem[r][b]
  BY <1>1, <1>2, PopFromCache
<1> HIDE DEF f, c, m
<1>4. Range(f) \intersect Allocated(r) \subseteq Range(cache[r]) /\ Allocated(r) \subseteq DOMAIN m
  BY <1>3 DEF Taken
<1> QED
  BY <1>3, <1>4 DEF f, m

LEMMA NextStable == IInv /\ [Next]_vars => Stable
<1> SUFFICES ASSUME IInv, [Next]_vars, NEW s \in sends, s \in sends'
             PROVE  mem'[s.src][s.buf] = mem[s.src][s.buf]
  BY DEF Stable
<1>0. /\ s.src \in Rank /\ s.name \in Name /\ s.buf \in Nat
      /\ obj[s.src][s.name].st = "inflight"
      /\ s.buf \in Allocated(s.src) /\ s.buf \notin Range(cache[s.src])
      /\ \A n \in Name : n # s.name => s.buf \notin Range(obj[s.src][n].bufs)
  BY SendBufferPlace
<1>m. mem \in [Rank -> Seq(Message)]
  BY InvParts DEF Types
<1>k. "halo" \in Kind /\ "sync" \in Kind
  BY DEF Kind
<1>1. ASSUME NEW do \in DOMAIN CallResult, NEW n \in Name, Extend(do, n)
      PROVE  mem'[s.src][s.buf] = mem[s.src][s.buf]
  BY <1>1 DEF Extend
<1>2. ASSUME NEW r \in Rank, RankStep(r)
      PROVE  mem'[s.src][s.buf] = mem[s.src][s.buf]
  <2>0. PICK n \in Name : \/ GetUpdater(r, n) \/ StartRecvs(r, n) \/ StartOnceRecvs(r, n)
                          \/ PackAndSend(r, n) \/ StartSync(r, n) \/ Wait(r, n) \/ Drop(r, n)
    BY <1>2 DEF RankStep
  <2>1. CASE GetUpdater(r, n) \/ StartOnceRecvs(r, n)
    <3>1. mem' = [mem EXCEPT ![r] = MemAfterPop(r, NumBufs(r, "halo"))]
      BY <2>1 DEF GetUpdater, StartOnceRecvs
    <3>2. \A b \in Allocated(r) : MemAfterPop(r, NumBufs(r, "halo"))[b] = mem[r][b]
      BY <1>k, PopMemory
    <3> QED
      BY <3>1, <3>2, <1>0, <1>m
  <2>2. CASE PackAndSend(r, n)
    <3> DEFINE o == obj[r][n]
               e == Len(halo[r]) + 1
    <3>1. /\ mem' = [mem EXCEPT ![r] = Packed(r, "halo", o.bufs, e, mem[r])]
          /\ o.st = "packing"
      BY <2>2 DEF PackAndSend
    <3>2. /\ o.bufs \in Seq(Nat) /\ o.kind = "halo" /\ Len(o.bufs) = NumBufs(r, "halo")
          /\ e \in Nat /\ mem[r] \in Seq(Message)
      <4>1. halo[r] \in Seq([kind : Kind, done : BOOLEAN, got : Seq(Message)])
        BY InvParts DEF Types
      <4>2. Len(halo[r]) \in Nat
        BY <4>1
      <4> QED
        BY <3>1, <4>2, <1>m, InvParts, ObjectFacts
    <3>3. CASE s.src = r
      <4>1. s.buf \notin Range(o.bufs)
        BY <3>1, <3>3, <1>0
      <4> HIDE DEF o, e
      <4>2. \A i \in DOMAIN Out["halo"][r] : o.bufs[i] # s.buf
        BY <3>2, <4>1, <1>k, BufferPositions DEF Range
      <4>3. s.buf \in DOMAIN mem[r]
        BY <1>0, <3>3 DEF Allocated
      <4>4. Packed(r, "halo", o.bufs, e, mem[r])[s.buf] = mem[r][s.buf]
        BY <4>2, <4>3 DEF Packed
      <4> QED
        BY <3>1, <3>3, <4>4, <1>m
    <3>4. CASE s.src # r
      BY <3>1, <3>4, <1>0, <1>m
    <3> QED
      BY <3>3, <3>4
  <2>3. CASE StartSync(r, n)
    <3> DEFINE f == pop_from_cache(r, NumBufs(r, "sync"))
               m == MemAfterPop(r, NumBufs(r, "sync"))
               e == Len(halo[r]) + 1
    <3>1. mem' = [mem EXCEPT ![r] = Packed(r, "sync", f, e, m)]
      BY <2>3 DEF StartSync
    <3>2. /\ f \in Seq(Nat) /\ Len(f) = NumBufs(r, "sync")
          /\ Range(f) \intersect Allocated(r) \subseteq Range(cache[r])
          /\ \A b \in Allocated(r) : b \in DOMAIN m /\ m[b] = mem[r][b]
      BY <1>k, PopMemory
    <3> HIDE DEF f, m, e
    <3>3. CASE s.src = r
      <4>1. s.buf \notin Range(f)
        BY <3>2, <3>3, <1>0
      <4>2. \A i \in DOMAIN Out["sync"][r] : f[i] # s.buf
        BY <3>2, <4>1, <1>k, BufferPositions DEF Range
      <4>3. s.buf \in DOMAIN m /\ m[s.buf] = mem[r][s.buf]
        BY <1>0, <3>2, <3>3
      <4>4. Packed(r, "sync", f, e, m)[s.buf] = m[s.buf]
        BY <4>2, <4>3 DEF Packed
      <4> QED
        BY <3>1, <3>3, <4>3, <4>4, <1>m
    <3>4. CASE s.src # r
      BY <3>1, <3>4, <1>0, <1>m
    <3> QED
      BY <3>3, <3>4
  <2>4. CASE StartRecvs(r, n) \/ Wait(r, n) \/ Drop(r, n)
    BY <2>4 DEF StartRecvs, Wait, Drop
  <2> QED
    BY <2>0, <2>1, <2>2, <2>3, <2>4
<1>3. ASSUME NEW r \in Rank, Collect(r)
      PROVE  mem'[s.src][s.buf] = mem[s.src][s.buf]
  BY <1>3 DEF Collect
<1>4. CASE MpiStep
  <2>1. ASSUME NEW t \in sends, BufferMessage(t)
        PROVE  mem'[s.src][s.buf] = mem[s.src][s.buf]
    BY <2>1 DEF BufferMessage
  <2>2. ASSUME NEW v \in recvs, NEW x \in Message, mem' = [mem EXCEPT ![v.dst][v.buf] = x]
        PROVE  mem'[s.src][s.buf] = mem[s.src][s.buf]
    <3>1. v.dst \in Rank /\ (s.src # v.dst \/ s.buf # v.buf)
      BY InvParts, InvPending, RequestTypes DEF PendingOwned
    <3> QED
      BY <3>1, <2>2, <1>0, <1>m, WriteMemory
  <2>3. ASSUME NEW t \in sends, NEW v \in recvs, Transfer(t, v)
        PROVE  mem'[s.src][s.buf] = mem[s.src][s.buf]
    <3>1. mem[t.src][t.buf] \in Message
      BY InvParts, SendContent
    <3> QED
      BY <3>1, <2>2, <2>3 DEF Transfer
  <2>4. ASSUME NEW w \in wire, NEW v \in recvs, Deliver(w, v)
        PROVE  mem'[s.src][s.buf] = mem[s.src][s.buf]
    <3>1. w.val \in Message
      BY InvParts DEF Types
    <3> QED
      BY <3>1, <2>2, <2>4 DEF Deliver
  <2> QED
    BY <1>4, <2>1, <2>3, <2>4 DEF MpiStep, CompleteMatched
<1>5. CASE UNCHANGED vars
  BY <1>5 DEF vars
<1> QED
  BY <1>1, <1>2, <1>3, <1>4, <1>5 DEF Next

(***************************************************************************)
(* MPI reads what the exchange packed: nothing writes to a send buffer     *)
(* between HaloUpdater.start and the completion of its Isend.              *)
(***************************************************************************)
THEOREM SendBuffersKeepContent == Spec => SendBufferStable
<1>1. IInv /\ [Next]_vars => [Stable]_vars
  BY NextStable
<1>2. Spec => [][Stable]_vars
  BY <1>1, Invariance, PTL DEF Spec
<1> QED
  BY <1>2 DEF SendBufferStable, Stable

-----------------------------------------------------------------------------
(***************************************************************************)
(* What every rank sees: what a rank holds after some calls is a function  *)
(* of the calls.                                                           *)
(*                                                                         *)
(* A history H gives, for each prefix of the script, how many tags and     *)
(* exchanges it makes and what each variable holds after it, and for each  *)
(* exchange its pattern, its tag and how many exchanges up to it send from *)
(* a to b with a tag.  A rank that has returned from i calls is in the     *)
(* state that H gives for i: so the tags and the order of the requests on  *)
(* a channel, which each rank computes alone, agree between the two ends   *)
(* of it.  The history is a witness of the invariant that module           *)
(* HaloRefinement_proofs builds, and not a variable of the model.          *)
(***************************************************************************)

-----------------------------------------------------------------------------
(* Histories.                                                              *)

Starts == {"start", "startOnce", "sync"}

View(st, kind, tag, keep, exch) ==
  [st |-> st, kind |-> kind, tag |-> tag, keep |-> keep, exch |-> exch]
Views == [st : {"none", "idle", "inflight", "finished"}, kind : Kind, tag : Nat,
          keep : BOOLEAN, exch : Nat]
NoView == View("none", "halo", 0, FALSE, 0)

Counters == [Rank -> [Rank -> [Tag -> Nat]]]
Histories ==
  [tag : [Nat -> Nat], num : [Nat -> Nat], view : [Nat -> [Name -> Views]],
   kind : [Nat -> Kind], label : [Nat -> Nat], count : [Nat -> Counters]]

\* What a variable that looks like v looks like after a call, the tag-th tag
\* and the num-th exchange of the program being the last ones.
ViewAfter(do, v, tag, num) ==
  CASE do = "get"       -> View("idle", "halo", tag, TRUE, 0)
    [] do = "start"     -> View("inflight", v.kind, v.tag, v.keep, num)
    [] do = "startOnce" -> View("inflight", "halo", tag, FALSE, num)
    [] do = "sync"      -> View("inflight", "sync", SyncTag, FALSE, num)
    [] do = "wait"      -> View(IF v.keep THEN "idle" ELSE "finished",
                                v.kind, v.tag, v.keep, v.exch)
    [] do = "drop"      -> NoView

\* Exchange e sends from a to b with tag t.
Link(H, e, a, b, t) == b \in Range(Out[H.kind[e]][a]) /\ H.label[e] = t

\* The i-th call is do on variable n.
CallEffect(H, i, do, n) ==
  /\ H.tag[i] = IF do \in {"get", "startOnce"} THEN H.tag[i - 1] + 1 ELSE H.tag[i - 1]
  /\ H.num[i] = IF do \in Starts THEN H.num[i - 1] + 1 ELSE H.num[i - 1]
  /\ H.view[i] = [H.view[i - 1] EXCEPT
                    ![n] = ViewAfter(do, H.view[i - 1][n], H.tag[i], H.num[i])]
  /\ do \in Starts => /\ H.kind[H.num[i]] = H.view[i][n].kind
                      /\ H.label[H.num[i]] = H.view[i][n].tag

\* After i calls, variables in flight hold exchanges of their own.
ViewOK(H, i) ==
  /\ \A n \in Name : H.view[i][n].st = "inflight" =>
       /\ H.view[i][n].exch \in 1..H.num[i]
       /\ H.kind[H.view[i][n].exch] = H.view[i][n].kind
       /\ H.label[H.view[i][n].exch] = H.view[i][n].tag
  /\ \A n, m \in Name :
       /\ H.view[i][n].st = "inflight" /\ H.view[i][m].st = "inflight"
       /\ H.view[i][n].exch = H.view[i][m].exch
       => n = m

StartsEmpty(H) ==
  /\ H.tag[0] = 0 /\ H.num[0] = 0 /\ \A n \in Name : H.view[0][n] = NoView
  /\ \A a, b \in Rank, t \in Tag : H.count[0][a][b][t] = 0

CallsOK(H, length) ==
  /\ \A i \in 1..length : CallEffect(H, i, script[i].do, script[i].name)
  /\ \A i \in 0..length : H.num[i] <= H.num[length] /\ ViewOK(H, i)

CountsOK(H, last) ==
  /\ \A e \in 1..last, a, b \in Rank, t \in Tag :
       H.count[e][a][b][t] =
         IF Link(H, e, a, b, t) THEN H.count[e - 1][a][b][t] + 1 ELSE H.count[e - 1][a][b][t]
  /\ \A e, f \in 0..last : e <= f =>
       \A a, b \in Rank, t \in Tag : H.count[e][a][b][t] <= H.count[f][a][b][t]

\* What the program holds, seen in the history.
HeldAs(v) ==
  CASE v.st = "none" -> "nothing"
    [] v.st = "inflight" -> IF v.keep THEN "inflight" ELSE "inflightOnce"
    [] OTHER -> v.st

HeldOK(H) == \A n \in Name : /\ held[n] = HeldAs(H.view[Len(script)][n])
                             /\ held[n] = "idle" => H.view[Len(script)][n].keep

HistoryOK(H) ==
  /\ H \in Histories
  /\ StartsEmpty(H)
  /\ CallsOK(H, Len(script))
  /\ CountsOK(H, H.num[Len(script)])

-----------------------------------------------------------------------------
(* A rank follows the history.                                             *)

Packing(r) == \E n \in Name : obj[r][n].st = "packing"

\* The calls of r whose receives are posted.
Posted(r) == IF Packing(r) THEN pc[r] + 1 ELSE pc[r]

Live(r, n) == obj[r][n].st \in {"packing", "inflight"}
ExchangeOf(r, n) == IF obj[r][n].st = "packing" THEN Len(halo[r]) + 1 ELSE obj[r][n].exch
Seen(r, n) == View(IF Live(r, n) THEN "inflight" ELSE obj[r][n].st,
                   obj[r][n].kind, obj[r][n].tag, obj[r][n].keep, ExchangeOf(r, n))

AtStart(r, n) == AtCall(r, "start", n) \/ AtCall(r, "startOnce", n)

FollowsCalls(H, r) ==
  /\ Posted(r) <= Len(script)
  /\ Len(halo[r]) = H.num[pc[r]]
  /\ \A e \in DOMAIN halo[r] : halo[r][e].kind = H.kind[e]
  /\ lastTag[r] = H.tag[Posted(r)]

FollowsViews(H, r) ==
  \A n \in Name : /\ Seen(r, n) = H.view[Posted(r)][n]
                  /\ obj[r][n].st = "packing" => AtStart(r, n)

FollowsCounts(H, r) ==
  \A q \in Rank, t \in Tag :
    /\ nsent[r][q][t] = H.count[Len(halo[r])][r][q][t]
    /\ nrecv[r][q][t] = H.count[H.num[Posted(r)]][q][r][t]

Follows(H, r) == FollowsCalls(H, r) /\ FollowsViews(H, r) /\ FollowsCounts(H, r)

-----------------------------------------------------------------------------
(* What a history says.                                                    *)

\* The types of the parts of a history.
LEMMA HistoryTypes ==
  ASSUME NEW H \in Histories
  PROVE  /\ \A i \in Nat : H.tag[i] \in Nat /\ H.num[i] \in Nat
         /\ \A i \in Nat, n \in Name : H.view[i][n] \in Views
         /\ \A e \in Nat : H.kind[e] \in Kind /\ H.label[e] \in Nat
         /\ \A e \in Nat, a, b \in Rank, t \in Tag : H.count[e][a][b][t] \in Nat
BY DEF Histories, Counters

\* Two exchanges that send on a channel with a tag are told apart by their place on it.
LEMMA SameExchange ==
  ASSUME NEW H \in Histories, NEW last \in Nat, CountsOK(H, last),
         NEW e \in 1..last, NEW f \in 0..last, NEW a \in Rank, NEW b \in Rank, NEW t \in Tag,
         Link(H, e, a, b, t)
  PROVE  f < e <=> H.count[f][a][b][t] < H.count[e][a][b][t]
<1>1. /\ H.count[e][a][b][t] = H.count[e - 1][a][b][t] + 1
      /\ e - 1 \in 0..last /\ e \in 0..last
  BY DEF CountsOK
<1>2. /\ H.count[e][a][b][t] \in Nat /\ H.count[f][a][b][t] \in Nat
      /\ H.count[e - 1][a][b][t] \in Nat
  BY <1>1, HistoryTypes
<1>3. CASE f < e
  <2>1. f <= e - 1
    BY <1>3
  <2>2. H.count[f][a][b][t] <= H.count[e - 1][a][b][t]
    BY <1>1, <2>1 DEF CountsOK
  <2> QED
    BY <1>1, <1>2, <1>3, <2>2
<1>4. CASE e <= f
  <2>1. H.count[e][a][b][t] <= H.count[f][a][b][t]
    BY <1>1, <1>4 DEF CountsOK
  <2> QED
    BY <1>2, <1>4, <2>1
<1> QED
  BY <1>3, <1>4

\* The requests of an exchange are counted by the channel and tag it sends on.
LEMMA CountSends ==
  ASSUME NEW H \in Histories, NEW last \in Nat, CountsOK(H, last),
         NEW e \in 1..last, NEW r \in Rank, NEW counter \in Counters, NEW tag \in Tag,
         H.label[e] = tag,
         \A q \in Rank, t \in Tag : counter[r][q][t] = H.count[e - 1][r][q][t]
  PROVE  \A q \in Rank, t \in Tag :
           CountPosted(counter, r, Out[H.kind[e]][r], tag)[r][q][t] = H.count[e][r][q][t]
<1> SUFFICES ASSUME NEW q \in Rank, NEW t \in Tag
             PROVE  CountPosted(counter, r, Out[H.kind[e]][r], tag)[r][q][t]
                      = H.count[e][r][q][t]
  OBVIOUS
<1>1. CountPosted(counter, r, Out[H.kind[e]][r], tag)[r][q][t] =
        IF q \in Range(Out[H.kind[e]][r]) /\ t = tag THEN counter[r][q][t] + 1
                                                     ELSE counter[r][q][t]
  BY DEF CountPosted, Counters
<1>2. H.count[e][r][q][t] =
        IF Link(H, e, r, q, t) THEN H.count[e - 1][r][q][t] + 1 ELSE H.count[e - 1][r][q][t]
  BY DEF CountsOK
<1> QED
  BY <1>1, <1>2 DEF Link

LEMMA CountRecvs ==
  ASSUME NEW H \in Histories, NEW last \in Nat, CountsOK(H, last),
         NEW e \in 1..last, NEW r \in Rank, NEW counter \in Counters, NEW tag \in Tag,
         H.label[e] = tag,
         \A q \in Rank, t \in Tag : counter[r][q][t] = H.count[e - 1][q][r][t]
  PROVE  \A q \in Rank, t \in Tag :
           CountPosted(counter, r, In[H.kind[e]][r], tag)[r][q][t] = H.count[e][q][r][t]
<1> SUFFICES ASSUME NEW q \in Rank, NEW t \in Tag
             PROVE  CountPosted(counter, r, In[H.kind[e]][r], tag)[r][q][t]
                      = H.count[e][q][r][t]
  OBVIOUS
<1>1. CountPosted(counter, r, In[H.kind[e]][r], tag)[r][q][t] =
        IF q \in Range(In[H.kind[e]][r]) /\ t = tag THEN counter[r][q][t] + 1
                                                    ELSE counter[r][q][t]
  BY DEF CountPosted, Counters
<1>2. H.count[e][q][r][t] =
        IF Link(H, e, q, r, t) THEN H.count[e - 1][q][r][t] + 1 ELSE H.count[e - 1][q][r][t]
  BY DEF CountsOK
<1>3. q \in Range(In[H.kind[e]][r]) <=> r \in Range(Out[H.kind[e]][q])
  <2>1. H.kind[e] \in Kind
    BY HistoryTypes
  <2> QED
    BY <2>1, TopologyAssumption
<1> QED
  BY <1>1, <1>2, <1>3 DEF Link

-----------------------------------------------------------------------------
(* The calls of a rank.                                                    *)

\* A rank that is at a call and has posted no receives of it is not packing.
LEMMA NotPacking ==
  ASSUME NEW H, NEW r \in Rank, Follows(H, r), NEW do, NEW n \in Name, AtCall(r, do, n),
         obj[r][n].st # "packing"
  PROVE  /\ \A m \in Name : obj[r][m].st # "packing"
         /\ ~ Packing(r) /\ Posted(r) = pc[r]
<1>1. ASSUME NEW m \in Name, obj[r][m].st = "packing" PROVE FALSE
  <2>1. AtStart(r, m)
    BY <1>1 DEF Follows, FollowsViews
  <2>2. m = n
    BY <2>1 DEF AtStart, AtCall
  <2> QED
    BY <1>1, <2>2
<1> QED
  BY <1>1 DEF Packing, Posted

LEMMA PackingOne ==
  ASSUME NEW H, NEW r \in Rank, Follows(H, r), NEW n \in Name, obj[r][n].st = "packing"
  PROVE  /\ \A m \in Name : m # n => obj[r][m].st # "packing"
         /\ Packing(r) /\ Posted(r) = pc[r] + 1 /\ AtStart(r, n)
<1>1. ASSUME NEW m \in Name, obj[r][m].st = "packing" PROVE m = n
  <2>1. AtStart(r, m) /\ AtStart(r, n)
    BY <1>1 DEF Follows, FollowsViews
  <2> QED
    BY <2>1 DEF AtStart, AtCall
<1> QED
  BY <1>1 DEF Packing, Posted, Follows, FollowsViews

\* The effect of the call a rank is at.
LEMMA CallStep ==
  ASSUME Types, NEW H, HistoryOK(H), NEW r \in Rank, NEW do, NEW n \in Name, AtCall(r, do, n)
  PROVE  /\ pc[r] \in Nat /\ pc[r] + 1 \in 1..Len(script)
         /\ CallEffect(H, pc[r] + 1, do, n)
         /\ H.num[pc[r]] <= H.num[Len(script)] /\ H.num[pc[r] + 1] <= H.num[Len(script)]
         /\ ViewOK(H, pc[r]) /\ ViewOK(H, pc[r] + 1)
<1>1. pc[r] \in Nat /\ Len(script) \in Nat /\ pc[r] < Len(script)
  BY DEF Types, AtCall
<1>2. pc[r] + 1 \in 1..Len(script) /\ pc[r] \in 0..Len(script) /\ pc[r] + 1 \in 0..Len(script)
  BY <1>1
<1>3. script[pc[r] + 1].do = do /\ script[pc[r] + 1].name = n
  BY DEF AtCall
<1> QED
  BY <1>1, <1>2, <1>3 DEF HistoryOK, CallsOK

-----------------------------------------------------------------------------
(* Each step keeps every rank on the history.                              *)

\* A rank that does not move.
LEMMA FollowsStill ==
  ASSUME NEW H, NEW q \in Rank, Follows(H, q),
         script' = script, pc'[q] = pc[q], lastTag'[q] = lastTag[q],
         \A n \in Name : obj'[q][n] = obj[q][n],
         halo'[q] = halo[q], nsent'[q] = nsent[q], nrecv'[q] = nrecv[q]
  PROVE  Follows(H, q)'
<1>1. Packing(q)' <=> Packing(q)
  BY DEF Packing
<1>2. Posted(q)' = Posted(q)
  BY <1>1 DEF Posted
<1>3. FollowsCalls(H, q)'
  BY <1>2 DEF Follows, FollowsCalls
<1>4. FollowsViews(H, q)'
  <2> SUFFICES ASSUME NEW n \in Name
               PROVE  /\ Seen(q, n)' = H.view[Posted(q)'][n]
                      /\ obj'[q][n].st = "packing" => AtStart(q, n)'
    BY DEF FollowsViews
  <2>1. Seen(q, n)' = Seen(q, n)
    BY DEF Seen, Live, ExchangeOf
  <2>2. AtStart(q, n)' <=> AtStart(q, n)
    BY DEF AtStart, AtCall
  <2>3. /\ Seen(q, n) = H.view[Posted(q)][n]
        /\ obj[q][n].st = "packing" => AtStart(q, n)
    BY DEF Follows, FollowsViews
  <2> QED
    BY <1>2, <2>1, <2>2, <2>3
<1>5. FollowsCounts(H, q)'
  BY <1>2 DEF Follows, FollowsCounts
<1> QED
  BY <1>3, <1>4, <1>5 DEF Follows

\* The views of a rank after a step that makes p of variable n.
LEMMA ViewsAfterCall ==
  ASSUME Types, NEW H, HistoryOK(H), NEW r \in Rank, Follows(H, r),
         NEW do, NEW n \in Name, AtCall(r, do, n), obj[r][n].st # "packing",
         NEW p \in Object, obj' = [obj EXCEPT ![r][n] = p],
         Posted(r)' = pc[r] + 1,
         Seen(r, n)' = ViewAfter(do, Seen(r, n), H.tag[pc[r] + 1], H.num[pc[r] + 1]),
         p.st = "packing" => AtStart(r, n)'
  PROVE  FollowsViews(H, r)'
<1>1. /\ \A m \in Name : obj[r][m].st # "packing"
      /\ Posted(r) = pc[r]
  BY NotPacking
<1>2. /\ H.view[pc[r] + 1] =
           [H.view[pc[r]] EXCEPT
              ![n] = ViewAfter(do, H.view[pc[r]][n], H.tag[pc[r] + 1], H.num[pc[r] + 1])]
      /\ H.view[pc[r]] \in [Name -> Views]
  <2>1. CallEffect(H, pc[r] + 1, do, n) /\ pc[r] \in Nat
    BY CallStep
  <2>2. (pc[r] + 1) - 1 = pc[r]
    BY <2>1
  <2>3. H \in Histories
    BY DEF HistoryOK
  <2> QED
    BY <2>1, <2>2, <2>3 DEF CallEffect, Histories
<1>3. \A m \in Name : Seen(r, m) = H.view[pc[r]][m]
  BY <1>1 DEF Follows, FollowsViews
<1>4. /\ obj'[r][n] = p
      /\ \A m \in Name : m # n => obj'[r][m] = obj[r][m]
  BY DEF Types
<1>5. ASSUME NEW m \in Name, m # n
      PROVE  Seen(r, m)' = Seen(r, m) /\ obj'[r][m].st # "packing"
  BY <1>1, <1>4, <1>5 DEF Seen, Live, ExchangeOf
<1> SUFFICES ASSUME NEW m \in Name
             PROVE  /\ Seen(r, m)' = H.view[Posted(r)'][m]
                    /\ obj'[r][m].st = "packing" => AtStart(r, m)'
  BY DEF FollowsViews
<1>6. CASE m = n
  <2>1. H.view[pc[r] + 1][n] = ViewAfter(do, Seen(r, n), H.tag[pc[r] + 1], H.num[pc[r] + 1])
    BY <1>2, <1>3
  <2> QED
    BY <1>4, <1>6, <2>1
<1>7. CASE m # n
  <2>1. H.view[pc[r] + 1][m] = Seen(r, m)
    BY <1>2, <1>3, <1>7
  <2> QED
    BY <1>5, <1>7, <2>1
<1> QED
  BY <1>6, <1>7

\* What a call that rank r is at does to its tags and exchanges.
LEMMA CallNumbers ==
  ASSUME Types, NEW H, HistoryOK(H), NEW r \in Rank, NEW do, NEW n \in Name, AtCall(r, do, n)
  PROVE  /\ pc[r] \in Nat /\ pc[r] + 1 <= Len(script)
         /\ H.tag[pc[r] + 1] = IF do \in {"get", "startOnce"} THEN H.tag[pc[r]] + 1
                                                              ELSE H.tag[pc[r]]
         /\ H.num[pc[r] + 1] = IF do \in Starts THEN H.num[pc[r]] + 1 ELSE H.num[pc[r]]
<1>1. /\ pc[r] \in Nat /\ pc[r] + 1 \in 1..Len(script)
      /\ CallEffect(H, pc[r] + 1, do, n)
  BY CallStep
<1>2. (pc[r] + 1) - 1 = pc[r] /\ Len(script) \in Nat
  BY <1>1 DEF Types
<1> QED
  BY <1>1, <1>2 DEF CallEffect

\* A call that makes no exchange.
LEMMA FollowsQuietCall ==
  ASSUME Types, NEW H, HistoryOK(H), NEW r \in Rank, Follows(H, r),
         NEW do, NEW n \in Name, AtCall(r, do, n), do \notin Starts, obj[r][n].st # "packing",
         NEW p \in Object, obj' = [obj EXCEPT ![r][n] = p], p.st # "packing",
         pc' = [pc EXCEPT ![r] = pc[r] + 1], script' = script,
         nsent' = nsent, nrecv' = nrecv,
         Len(halo'[r]) = Len(halo[r]), DOMAIN halo'[r] = DOMAIN halo[r],
         \A e \in DOMAIN halo[r] : halo'[r][e].kind = halo[r][e].kind,
         lastTag'[r] = H.tag[pc[r] + 1],
         Seen(r, n)' = ViewAfter(do, Seen(r, n), H.tag[pc[r] + 1], H.num[pc[r] + 1])
  PROVE  Follows(H, r)'
<1>1. /\ \A m \in Name : obj[r][m].st # "packing"
      /\ Posted(r) = pc[r]
  BY NotPacking
<1>2. pc'[r] = pc[r] + 1
  BY DEF Types
<1>3. ~ Packing(r)' /\ Posted(r)' = pc[r] + 1
  <2>1. \A m \in Name : obj'[r][m].st # "packing"
    BY <1>1 DEF Types
  <2> QED
    BY <1>2, <2>1 DEF Packing, Posted
<1>4. /\ pc[r] + 1 <= Len(script)
      /\ H.num[pc[r] + 1] = H.num[pc[r]]
  BY CallNumbers
<1>5. FollowsCalls(H, r)'
  BY <1>1, <1>2, <1>3, <1>4 DEF Follows, FollowsCalls
<1>6. FollowsViews(H, r)'
  BY <1>3, ViewsAfterCall
<1>7. FollowsCounts(H, r)'
  <2>1. FollowsCounts(H, r) /\ H.num[Posted(r)'] = H.num[Posted(r)]
    BY <1>1, <1>3, <1>4 DEF Follows
  <2> QED
    BY <2>1 DEF FollowsCounts
<1> QED
  BY <1>5, <1>6, <1>7 DEF Follows

LEMMA GetUpdaterFollows ==
  ASSUME IInv, NEW H, HistoryOK(H), \A q \in Rank : Follows(H, q),
         NEW r \in Rank, NEW n \in Name, GetUpdater(r, n)
  PROVE  \A q \in Rank : Follows(H, q)'
<1> DEFINE tag == _get_halo_tag(r)
           p == [st |-> "idle", kind |-> "halo", tag |-> tag, keep |-> TRUE,
                 bufs |-> pop_from_cache(r, NumBufs(r, "halo")), exch |-> 0]
<1>0. Types /\ PoolOK /\ ObjectShape /\ Types'
  BY InvParts, NextInvParts, GetUpdaterStep
<1>1. /\ AtCall(r, "get", n) /\ obj[r][n].st = "none" /\ tag \in Tag
      /\ lastTag' = [lastTag EXCEPT ![r] = tag]
      /\ obj' = [obj EXCEPT ![r][n] = p]
      /\ pc' = [pc EXCEPT ![r] = pc[r] + 1]
      /\ script' = script /\ nsent' = nsent /\ nrecv' = nrecv /\ halo' = halo
  BY DEF GetUpdater, New, Return, progVars, mpiVars
<1>2. p \in Object
  <2>1. obj'[r][n] = p
    BY <1>0, <1>1 DEF Types
  <2> QED
    BY <1>0, <2>1 DEF Types
<1>3. Posted(r) = pc[r]
  BY <1>1, NotPacking
<1>4. tag = H.tag[pc[r] + 1]
  <2>1. lastTag[r] = H.tag[pc[r]]
    BY <1>3 DEF Follows, FollowsCalls
  <2>2. H.tag[pc[r] + 1] = H.tag[pc[r]] + 1
    BY <1>0, <1>1, CallNumbers
  <2> QED
    BY <2>1, <2>2 DEF _get_halo_tag
<1>5. p.st = "idle" /\ p.kind = "halo" /\ p.tag = tag /\ p.keep = TRUE /\ p.exch = 0
  OBVIOUS
<1> HIDE DEF p, tag
<1>6. Seen(r, n)' = View("idle", "halo", tag, TRUE, 0)
  <2>1. obj'[r][n] = p
    BY <1>0, <1>1 DEF Types
  <2> QED
    BY <1>5, <2>1 DEF Seen, Live, ExchangeOf
<1>7. Follows(H, r)'
  <2>1. ViewAfter("get", Seen(r, n), H.tag[pc[r] + 1], H.num[pc[r] + 1])
          = View("idle", "halo", tag, TRUE, 0)
    BY <1>4 DEF ViewAfter
  <2>2. lastTag'[r] = H.tag[pc[r] + 1]
    BY <1>0, <1>1, <1>4 DEF Types
  <2>3. "get" \notin Starts
    BY DEF Starts
  <2>4. Follows(H, r)
    OBVIOUS
  <2> QED
    BY <1>0, <1>1, <1>2, <1>5, <1>6, <2>1, <2>2, <2>3, <2>4, FollowsQuietCall
<1>8. ASSUME NEW q \in Rank, q # r PROVE Follows(H, q)'
  <2>1. /\ pc'[q] = pc[q] /\ lastTag'[q] = lastTag[q]
        /\ \A m \in Name : obj'[q][m] = obj[q][m]
    BY <1>0, <1>1, <1>8 DEF Types
  <2> QED
    BY <1>1, <2>1, FollowsStill
<1> QED
  BY <1>7, <1>8

LEMMA DropFollows ==
  ASSUME IInv, NEW H, HistoryOK(H), \A q \in Rank : Follows(H, q),
         NEW r \in Rank, NEW n \in Name, Drop(r, n)
  PROVE  \A q \in Rank : Follows(H, q)'
<1>0. Types /\ PoolOK /\ ObjectShape
  BY InvParts
<1>1. /\ AtCall(r, "drop", n) /\ obj[r][n].st = "idle"
      /\ obj' = [obj EXCEPT ![r][n] = NoObj]
      /\ pc' = [pc EXCEPT ![r] = pc[r] + 1]
      /\ script' = script /\ nsent' = nsent /\ nrecv' = nrecv /\ halo' = halo
      /\ lastTag' = lastTag
  BY DEF Drop, Return, progVars, mpiVars
<1>2. NoObj \in Object
  BY DEF NoObj, Object, Kind
<1>3. Posted(r) = pc[r]
  BY <1>1, NotPacking
<1>4. Seen(r, n)' = NoView
  <2>1. obj'[r][n] = NoObj
    BY <1>0, <1>1 DEF Types
  <2> QED
    BY <2>1 DEF Seen, Live, ExchangeOf, NoView, NoObj
<1>5. Follows(H, r)'
  <2>1. ViewAfter("drop", Seen(r, n), H.tag[pc[r] + 1], H.num[pc[r] + 1]) = NoView
    BY DEF ViewAfter
  <2>2. lastTag'[r] = H.tag[pc[r] + 1]
    <3>1. lastTag[r] = H.tag[pc[r]]
      BY <1>3 DEF Follows, FollowsCalls
    <3>2. H.tag[pc[r] + 1] = H.tag[pc[r]]
      BY <1>0, <1>1, CallNumbers
    <3> QED
      BY <1>1, <3>1, <3>2
  <2>3. "drop" \notin Starts /\ NoObj.st # "packing"
    BY DEF Starts, NoObj
  <2>4. Follows(H, r)
    OBVIOUS
  <2> QED
    BY <1>0, <1>1, <1>2, <1>4, <2>1, <2>2, <2>3, <2>4, FollowsQuietCall
<1>6. ASSUME NEW q \in Rank, q # r PROVE Follows(H, q)'
  <2>1. pc'[q] = pc[q] /\ \A m \in Name : obj'[q][m] = obj[q][m]
    BY <1>0, <1>1, <1>6 DEF Types
  <2> QED
    BY <1>1, <2>1, FollowsStill
<1> QED
  BY <1>5, <1>6

\* What a rank's wait leaves in variable n.
Waited(o) == IF o.keep THEN [o EXCEPT !.st = "idle"] ELSE Finalized(o)

LEMMA WaitFacts ==
  ASSUME IInv, NEW r \in Rank, NEW n \in Name, Wait(r, n)
  PROVE  /\ AtCall(r, "wait", n) /\ obj[r][n].st = "inflight"
         /\ SendsComplete(r, n) /\ RecvsComplete(r, n)
         /\ obj' = [obj EXCEPT ![r][n] = Waited(obj[r][n])]
         /\ Waited(obj[r][n]) \in Object
         /\ Waited(obj[r][n]).st = IF obj[r][n].keep THEN "idle" ELSE "finished"
         /\ Waited(obj[r][n]).kind = obj[r][n].kind
         /\ Waited(obj[r][n]).tag = obj[r][n].tag
         /\ Waited(obj[r][n]).keep = obj[r][n].keep
         /\ Waited(obj[r][n]).exch = obj[r][n].exch
         /\ obj[r][n].exch \in DOMAIN halo[r]
         /\ Unpacked(r, obj[r][n]) \in Seq(Message)
         /\ halo' = [halo EXCEPT ![r][obj[r][n].exch].done = TRUE,
                                 ![r][obj[r][n].exch].got = Unpacked(r, obj[r][n])]
         /\ pc' = [pc EXCEPT ![r] = pc[r] + 1]
         /\ script' = script /\ held' = held /\ lastTag' = lastTag /\ mem' = mem
         /\ sends' = sends /\ recvs' = recvs /\ wire' = wire
         /\ nsent' = nsent /\ nrecv' = nrecv
<1> DEFINE o == obj[r][n]
<1>0. Types /\ PoolOK /\ ObjectShape
  BY InvParts
<1>1. /\ AtCall(r, "wait", n) /\ o.st = "inflight"
      /\ SendsComplete(r, n) /\ RecvsComplete(r, n)
      /\ halo' = [halo EXCEPT ![r][o.exch].done = TRUE, ![r][o.exch].got = Unpacked(r, o)]
      /\ pc' = [pc EXCEPT ![r] = pc[r] + 1]
      /\ IF o.keep THEN obj' = [obj EXCEPT ![r][n].st = "idle"]
                   ELSE obj' = [obj EXCEPT ![r][n] = Finalized(o)]
      /\ script' = script /\ held' = held /\ lastTag' = lastTag /\ mem' = mem
      /\ sends' = sends /\ recvs' = recvs /\ wire' = wire
      /\ nsent' = nsent /\ nrecv' = nrecv
  BY DEF Wait, Return, progVars, mpiVars
<1>2. o \in Object /\ o.exch \in DOMAIN halo[r]
  BY <1>0, <1>1, ObjectFacts
<1>3. obj' = [obj EXCEPT ![r][n] = Waited(o)]
  BY <1>0, <1>1 DEF Waited, Types
<1>4. Unpacked(r, o) \in Seq(Message)
  BY <1>0, <1>1, UnpackedType
<1> HIDE DEF o
<1>5. /\ Waited(o) \in Object
      /\ Waited(o).st = IF o.keep THEN "idle" ELSE "finished"
      /\ Waited(o).kind = o.kind /\ Waited(o).tag = o.tag
      /\ Waited(o).keep = o.keep /\ Waited(o).exch = o.exch
  <2>1. <<>> \in Seq(Nat)
    OBVIOUS
  <2>2. CASE o.keep
    BY <1>2, <2>2 DEF Waited, Object
  <2>3. CASE ~ o.keep
    BY <1>2, <2>1, <2>3 DEF Waited, Finalized, Object
  <2> QED
    BY <2>2, <2>3
<1> QED
  BY <1>1, <1>2, <1>3, <1>4, <1>5 DEF o

\* Completing an exchange changes nothing else of the rank's exchanges.
LEMMA ExchangeCompleted ==
  ASSUME Types, NEW r \in Rank, NEW e \in DOMAIN halo[r], NEW got \in Seq(Message),
         halo' = [halo EXCEPT ![r][e].done = TRUE, ![r][e].got = got]
  PROVE  /\ DOMAIN halo'[r] = DOMAIN halo[r] /\ Len(halo'[r]) = Len(halo[r])
         /\ halo'[r][e].done
         /\ \A f \in DOMAIN halo[r] : halo'[r][f].kind = halo[r][f].kind
         /\ \A f \in DOMAIN halo[r] : f # e => halo'[r][f] = halo[r][f]
         /\ \A q \in Rank : q # r => halo'[q] = halo[q]
<1> DEFINE X == [kind : Kind, done : BOOLEAN, got : Seq(Message)]
           x == [halo[r][e] EXCEPT !.done = TRUE, !.got = got]
<1>1. halo \in [Rank -> Seq(X)]
  BY DEF Types
<1>2. halo' \in [Rank -> Seq(X)] /\ DOMAIN halo'[r] = DOMAIN halo[r]
  BY CompleteExchange
<1>3. halo' = [halo EXCEPT ![r] = [halo[r] EXCEPT ![e] = x]]
  BY <1>1
<1> HIDE DEF X
<1>4. halo[r] \in Seq(X) /\ halo'[r] \in Seq(X)
  BY <1>1, <1>2
<1>5. Len(halo'[r]) = Len(halo[r]) /\ halo[r][e] \in X
  BY <1>2, <1>4, SequenceFacts
<1>6. x.done /\ x.kind = halo[r][e].kind
  BY <1>5 DEF X
<1> HIDE DEF x
<1>7. /\ halo'[r] = [halo[r] EXCEPT ![e] = x]
      /\ \A q \in Rank : q # r => halo'[q] = halo[q]
  BY <1>1, <1>3
<1>8. /\ halo'[r][e] = x
      /\ \A f \in DOMAIN halo[r] : f # e => halo'[r][f] = halo[r][f]
  BY <1>7
<1> QED
  BY <1>2, <1>5, <1>6, <1>7, <1>8

LEMMA WaitFollows ==
  ASSUME IInv, NEW H, HistoryOK(H), \A q \in Rank : Follows(H, q),
         NEW r \in Rank, NEW n \in Name, Wait(r, n)
  PROVE  \A q \in Rank : Follows(H, q)'
<1> DEFINE o == obj[r][n]
           p == Waited(o)
<1>0. Types /\ PoolOK /\ ObjectShape
  BY InvParts
<1>1. /\ AtCall(r, "wait", n) /\ o.st = "inflight"
      /\ obj' = [obj EXCEPT ![r][n] = p]
      /\ p \in Object
      /\ p.st = (IF o.keep THEN "idle" ELSE "finished")
      /\ p.kind = o.kind /\ p.tag = o.tag /\ p.keep = o.keep /\ p.exch = o.exch
      /\ o.exch \in DOMAIN halo[r]
      /\ pc' = [pc EXCEPT ![r] = pc[r] + 1]
      /\ script' = script /\ lastTag' = lastTag /\ nsent' = nsent /\ nrecv' = nrecv
  BY ZenonT(40), WaitFacts
<1> HIDE DEF p
<1>2. Posted(r) = pc[r]
  BY <1>1, NotPacking
<1>3. obj'[r][n] = p
  BY <1>0, <1>1 DEF Types
<1>4. Seen(r, n)' = ViewAfter("wait", Seen(r, n), H.tag[pc[r] + 1], H.num[pc[r] + 1])
  <2>1. Seen(r, n)' = View(p.st, o.kind, o.tag, o.keep, o.exch)
    BY <1>1, <1>3 DEF Seen, Live, ExchangeOf
  <2>2. Seen(r, n) = View("inflight", o.kind, o.tag, o.keep, o.exch)
    BY <1>1 DEF Seen, Live, ExchangeOf
  <2> HIDE DEF o
  <2>3. ViewAfter("wait", Seen(r, n), H.tag[pc[r] + 1], H.num[pc[r] + 1])
          = View(IF o.keep THEN "idle" ELSE "finished", o.kind, o.tag, o.keep, o.exch)
    BY <2>2 DEF ViewAfter, View
  <2> QED
    BY <1>1, <2>1, <2>3
<1>5. /\ Unpacked(r, o) \in Seq(Message)
      /\ halo' = [halo EXCEPT ![r][o.exch].done = TRUE, ![r][o.exch].got = Unpacked(r, o)]
  BY WaitFacts
<1> HIDE DEF o
<1>6. /\ DOMAIN halo'[r] = DOMAIN halo[r] /\ Len(halo'[r]) = Len(halo[r])
      /\ \A e \in DOMAIN halo[r] : halo'[r][e].kind = halo[r][e].kind
      /\ \A q \in Rank : q # r => halo'[q] = halo[q]
  BY <1>0, <1>1, <1>5, ExchangeCompleted
<1> USE DEF o
<1>7. Follows(H, r)'
  <2>1. lastTag'[r] = H.tag[pc[r] + 1]
    <3>1. lastTag[r] = H.tag[pc[r]]
      BY <1>2 DEF Follows, FollowsCalls
    <3>2. H.tag[pc[r] + 1] = H.tag[pc[r]]
      BY <1>0, <1>1, CallNumbers
    <3> QED
      BY <1>1, <3>1, <3>2
  <2>2. "wait" \notin Starts /\ p.st # "packing" /\ obj[r][n].st # "packing"
    BY <1>1 DEF Starts
  <2>3. Follows(H, r)
    OBVIOUS
  <2> QED
    BY <1>0, <1>1, <1>4, <1>6, <2>1, <2>2, <2>3, FollowsQuietCall
<1>8. ASSUME NEW q \in Rank, q # r PROVE Follows(H, q)'
  <2>1. pc'[q] = pc[q] /\ \A m \in Name : obj'[q][m] = obj[q][m]
    BY <1>0, <1>1, <1>8 DEF Types
  <2> QED
    BY <1>1, <1>6, <1>8, <2>1, FollowsStill
<1> QED
  BY <1>7, <1>8

\* Starting an exchange adds it to the rank's exchanges.
LEMMA ExchangeAppended ==
  ASSUME Types, NEW r \in Rank, NEW k \in Kind,
         halo' = [halo EXCEPT ![r] = Append(@, [kind |-> k, done |-> FALSE, got |-> <<>>])]
  PROVE  /\ Len(halo[r]) \in Nat /\ Len(halo'[r]) = Len(halo[r]) + 1
         /\ DOMAIN halo[r] = 1..Len(halo[r]) /\ DOMAIN halo'[r] = 1..(Len(halo[r]) + 1)
         /\ halo'[r][Len(halo[r]) + 1].kind = k /\ ~ halo'[r][Len(halo[r]) + 1].done
         /\ \A f \in DOMAIN halo[r] : halo'[r][f] = halo[r][f]
         /\ \A q \in Rank : q # r => halo'[q] = halo[q]
<1> DEFINE X == [kind : Kind, done : BOOLEAN, got : Seq(Message)]
           x == [kind |-> k, done |-> FALSE, got |-> <<>>]
<1>1. halo \in [Rank -> Seq(X)]
  BY DEF Types
<1>2. x \in X /\ x.kind = k /\ ~ x.done
  OBVIOUS
<1> HIDE DEF X, x
<1>3. /\ halo[r] \in Seq(X) /\ halo'[r] = Append(halo[r], x)
      /\ \A q \in Rank : q # r => halo'[q] = halo[q]
  BY <1>1 DEF x
<1>4. /\ Len(halo[r]) \in Nat /\ DOMAIN halo[r] = 1..Len(halo[r])
      /\ Len(halo'[r]) = Len(halo[r]) + 1 /\ DOMAIN halo'[r] = 1..(Len(halo[r]) + 1)
      /\ halo'[r][Len(halo[r]) + 1] = x
      /\ \A f \in 1..Len(halo[r]) : halo'[r][f] = halo[r][f]
  BY <1>1, <1>2, <1>3
<1> QED
  BY <1>2, <1>3, <1>4

\* A rank that posts the receives of an exchange and is still to pack.
LEMMA FollowsPosting ==
  ASSUME Types, NEW H, HistoryOK(H), NEW r \in Rank, Follows(H, r),
         NEW do, NEW n \in Name, AtCall(r, do, n), do \in {"start", "startOnce"},
         obj[r][n].st # "packing",
         NEW p \in Object, obj' = [obj EXCEPT ![r][n] = p], p.st = "packing", p.tag \in Tag,
         UNCHANGED <<pc, script, nsent, halo>>,
         nrecv' = CountPosted(nrecv, r, In[p.kind][r], p.tag),
         lastTag'[r] = H.tag[pc[r] + 1],
         Seen(r, n)' = ViewAfter(do, Seen(r, n), H.tag[pc[r] + 1], H.num[pc[r] + 1])
  PROVE  Follows(H, r)'
<1> DEFINE e == Len(halo[r]) + 1
           last == H.num[Len(script)]
<1>1. Posted(r) = pc[r]
  BY NotPacking
<1>2. obj'[r][n] = p
  BY DEF Types
<1>3. Packing(r)' /\ Posted(r)' = pc[r] + 1
  BY <1>2 DEF Packing, Posted
<1>4. /\ pc[r] \in Nat /\ pc[r] + 1 <= Len(script)
      /\ H.num[pc[r] + 1] = H.num[pc[r]] + 1
  BY CallNumbers DEF Starts
<1>5. Len(halo[r]) = H.num[pc[r]]
  BY DEF Follows, FollowsCalls
<1>6. FollowsCalls(H, r)'
  BY <1>3, <1>4 DEF Follows, FollowsCalls
<1>7. AtStart(r, n)'
  BY DEF AtStart, AtCall
<1>8. FollowsViews(H, r)'
  BY <1>3, <1>7, ViewsAfterCall
<1>9. /\ H \in Histories /\ last \in Nat /\ CountsOK(H, last) /\ e \in 1..last
      /\ H.kind[e] = p.kind /\ H.label[e] = p.tag
  <2>1. H \in Histories /\ CountsOK(H, last)
    BY DEF HistoryOK
  <2>2. CallEffect(H, pc[r] + 1, do, n) /\ H.num[pc[r] + 1] <= last
    BY CallStep
  <2>3. last \in Nat /\ H.num[pc[r]] \in Nat
    <3>1. Len(script) \in Nat
      BY DEF Types
    <3> QED
      BY <1>4, <2>1, <3>1, HistoryTypes
  <2>4. Seen(r, n)' = H.view[pc[r] + 1][n]
    BY <1>3, <1>8 DEF FollowsViews
  <2>5. H.view[pc[r] + 1][n].kind = p.kind /\ H.view[pc[r] + 1][n].tag = p.tag
    BY <1>2, <2>4 DEF Seen, View
  <2>6. H.kind[e] = p.kind /\ H.label[e] = p.tag
    BY <1>4, <1>5, <2>2, <2>5 DEF CallEffect, Starts
  <2> QED
    BY <1>4, <1>5, <2>1, <2>2, <2>3, <2>6
<1>10. \A q \in Rank, t \in Tag : nrecv'[r][q][t] = H.count[e][q][r][t]
  <2>1. nrecv \in Counters
    BY DEF Types, Counters
  <2>2. \A q \in Rank, t \in Tag : nrecv[r][q][t] = H.count[e - 1][q][r][t]
    <3>1. e - 1 = H.num[pc[r]]
      BY <1>4, <1>5, <1>9, HistoryTypes
    <3> QED
      BY <1>1, <3>1 DEF Follows, FollowsCounts
  <2> HIDE DEF e, last
  <2>3. \A q \in Rank, t \in Tag :
          CountPosted(nrecv, r, In[H.kind[e]][r], p.tag)[r][q][t] = H.count[e][q][r][t]
    BY <1>9, <2>1, <2>2, CountRecvs, SMTT(60)
  <2> QED
    BY <1>9, <2>3
<1>11. FollowsCounts(H, r)'
  <2>1. /\ Len(halo'[r]) = Len(halo[r]) /\ nsent' = nsent
        /\ H.num[Posted(r)'] = e
    BY <1>3, <1>4, <1>5
  <2>2. \A q \in Rank, t \in Tag : nsent[r][q][t] = H.count[Len(halo[r])][r][q][t]
    BY DEF Follows, FollowsCounts
  <2> HIDE DEF e
  <2> QED
    BY <1>10, <2>1, <2>2 DEF FollowsCounts
<1> QED
  BY <1>6, <1>8, <1>11 DEF Follows

LEMMA StartRecvsFollows ==
  ASSUME IInv, NEW H, HistoryOK(H), \A q \in Rank : Follows(H, q),
         NEW r \in Rank, NEW n \in Name, StartRecvs(r, n)
  PROVE  \A q \in Rank : Follows(H, q)'
<1> DEFINE o == obj[r][n]
           p == [o EXCEPT !.st = "packing"]
<1>0. Types /\ PoolOK /\ ObjectShape
  BY InvParts
<1>1. /\ AtCall(r, "start", n) /\ o.st = "idle"
      /\ obj' = [obj EXCEPT ![r][n] = p]
      /\ nrecv' = CountPosted(nrecv, r, In["halo"][r], o.tag)
      /\ UNCHANGED <<pc, script, nsent, halo>> /\ lastTag' = lastTag
  BY <1>0 DEF StartRecvs, progVars, Types
<1>2. o \in Object /\ o.kind = "halo" /\ o.tag \in Tag
  BY <1>0, <1>1, ObjectFacts
<1>3. /\ p \in Object /\ p.st = "packing" /\ p.kind = o.kind /\ p.tag = o.tag
      /\ p.keep = o.keep
  BY <1>2 DEF Object
<1> HIDE DEF p
<1>4. obj'[r][n] = p
  BY <1>0, <1>1 DEF Types
<1>5. Posted(r) = pc[r] /\ Follows(H, r)
  BY <1>1, NotPacking
<1>6. /\ H.tag[pc[r] + 1] = H.tag[pc[r]]
      /\ H.num[pc[r] + 1] = Len(halo[r]) + 1
  BY <1>0, <1>1, <1>5, CallNumbers DEF Starts, Follows, FollowsCalls
<1>7. Seen(r, n)' = ViewAfter("start", Seen(r, n), H.tag[pc[r] + 1], H.num[pc[r] + 1])
  <2>1. Seen(r, n)' = View("inflight", o.kind, o.tag, o.keep, Len(halo[r]) + 1)
    BY <1>1, <1>3, <1>4 DEF Seen, Live, ExchangeOf
  <2>2. Seen(r, n) = View("idle", o.kind, o.tag, o.keep, o.exch)
    BY <1>1 DEF Seen, Live, ExchangeOf
  <2> HIDE DEF o
  <2>3. ViewAfter("start", Seen(r, n), H.tag[pc[r] + 1], H.num[pc[r] + 1])
          = View("inflight", o.kind, o.tag, o.keep, Len(halo[r]) + 1)
    BY <1>6, <2>2 DEF ViewAfter, View
  <2> QED
    BY <2>1, <2>3
<1>8. AtStart(r, n)
  BY <1>1 DEF AtStart
<1>9. Follows(H, r)'
  <2>1. lastTag'[r] = H.tag[pc[r] + 1]
    BY <1>1, <1>5, <1>6 DEF Follows, FollowsCalls
  <2>2. nrecv' = CountPosted(nrecv, r, In[p.kind][r], p.tag) /\ p.tag \in Tag
    BY <1>1, <1>2, <1>3
  <2>3. o.st # "packing"
    BY <1>1
  <2> QED
    BY <1>0, <1>1, <1>3, <1>5, <1>7, <1>8, <2>1, <2>2, <2>3, FollowsPosting
<1>10. ASSUME NEW q \in Rank, q # r PROVE Follows(H, q)'
  <2>1. /\ \A m \in Name : obj'[q][m] = obj[q][m]
        /\ nrecv'[q] = nrecv[q]
    BY <1>0, <1>1, <1>10 DEF Types, CountPosted
  <2> QED
    BY <1>1, <2>1, FollowsStill
<1> QED
  BY <1>9, <1>10

LEMMA StartOnceRecvsFollows ==
  ASSUME IInv, NEW H, HistoryOK(H), \A q \in Rank : Follows(H, q),
         NEW r \in Rank, NEW n \in Name, StartOnceRecvs(r, n)
  PROVE  \A q \in Rank : Follows(H, q)'
<1> DEFINE tag == _get_halo_tag(r)
           p == [st |-> "packing", kind |-> "halo", tag |-> tag, keep |-> FALSE,
                 bufs |-> pop_from_cache(r, NumBufs(r, "halo")), exch |-> 0]
<1>0. Types /\ PoolOK /\ ObjectShape /\ Types'
  BY InvParts, NextInvParts, StartOnceRecvsStep
<1>1. /\ AtCall(r, "startOnce", n) /\ obj[r][n].st \in {"none", "finished"} /\ tag \in Tag
      /\ obj' = [obj EXCEPT ![r][n] = p]
      /\ nrecv' = CountPosted(nrecv, r, In["halo"][r], tag)
      /\ UNCHANGED <<pc, script, nsent, halo>>
      /\ lastTag' = [lastTag EXCEPT ![r] = tag]
  BY DEF StartOnceRecvs, New, progVars
<1>2. obj'[r][n] = p
  BY <1>0, <1>1 DEF Types
<1>3. /\ p \in Object /\ p.st = "packing" /\ p.kind = "halo" /\ p.tag = tag
      /\ p.keep = FALSE
  BY <1>0, <1>2 DEF Types
<1> HIDE DEF p
<1>4. Posted(r) = pc[r] /\ Follows(H, r)
  BY <1>1, NotPacking
<1>5. /\ H.tag[pc[r] + 1] = tag
      /\ H.num[pc[r] + 1] = Len(halo[r]) + 1
  BY <1>0, <1>1, <1>4, CallNumbers DEF Starts, Follows, FollowsCalls, _get_halo_tag
<1> HIDE DEF tag
<1>6. Seen(r, n)' = ViewAfter("startOnce", Seen(r, n), H.tag[pc[r] + 1], H.num[pc[r] + 1])
  <2>1. Seen(r, n)' = View("inflight", "halo", tag, FALSE, Len(halo[r]) + 1)
    BY <1>1, <1>2, <1>3 DEF Seen, Live, ExchangeOf
  <2>2. ViewAfter("startOnce", Seen(r, n), H.tag[pc[r] + 1], H.num[pc[r] + 1])
          = View("inflight", "halo", tag, FALSE, Len(halo[r]) + 1)
    BY <1>5 DEF ViewAfter
  <2> QED
    BY <2>1, <2>2
<1>7. AtStart(r, n)
  BY <1>1 DEF AtStart
<1>8. Follows(H, r)'
  <2>1. lastTag'[r] = H.tag[pc[r] + 1]
    BY <1>0, <1>1, <1>5 DEF Types
  <2>2. nrecv' = CountPosted(nrecv, r, In[p.kind][r], p.tag) /\ p.tag \in Tag
    BY <1>1, <1>3
  <2>3. obj[r][n].st # "packing"
    BY <1>1
  <2> QED
    BY <1>0, <1>1, <1>3, <1>4, <1>6, <1>7, <2>1, <2>2, <2>3, FollowsPosting
<1>9. ASSUME NEW q \in Rank, q # r PROVE Follows(H, q)'
  <2>1. /\ \A m \in Name : obj'[q][m] = obj[q][m]
        /\ nrecv'[q] = nrecv[q] /\ lastTag'[q] = lastTag[q]
    BY <1>0, <1>1, <1>9 DEF Types, CountPosted
  <2> QED
    BY <1>1, <2>1, FollowsStill
<1> QED
  BY <1>8, <1>9

\* What PackAndSend leaves in variable n.
InFlight(o, e) == [o EXCEPT !.st = "inflight", !.exch = e]

LEMMA PackFacts ==
  ASSUME IInv, NEW r \in Rank, NEW n \in Name, PackAndSend(r, n),
         NEW o, o = obj[r][n], NEW e, e = Len(halo[r]) + 1,
         NEW p, p = InFlight(o, e)
  PROVE  /\ AtStart(r, n) /\ o.st = "packing" /\ e \in Nat
         /\ o.kind = "halo" /\ o.tag \in Tag /\ o.bufs \in Seq(Nat)
         /\ Len(o.bufs) = NumBufs(r, "halo") /\ IsInjective(o.bufs)
         /\ p \in Object /\ p.st = "inflight" /\ p.exch = e /\ p.kind = "halo"
         /\ p.tag = o.tag /\ p.keep = o.keep /\ p.bufs = o.bufs
         /\ obj' = [obj EXCEPT ![r][n] = p]
         /\ mem' = [mem EXCEPT ![r] = Packed(r, "halo", o.bufs, e, mem[r])]
         /\ sends' = sends \union IsendAll(r, n, "halo", o.tag, o.bufs)
         /\ nsent' = CountPosted(nsent, r, Out["halo"][r], o.tag)
         /\ halo' = [halo EXCEPT ![r] =
                       Append(@, [kind |-> "halo", done |-> FALSE, got |-> <<>>])]
         /\ pc' = [pc EXCEPT ![r] = pc[r] + 1]
         /\ UNCHANGED <<script, held, lastTag, recvs, wire, nrecv>>
<1>0. Types /\ PoolOK /\ ObjectShape
  BY InvParts
<1>1. /\ AtStart(r, n) /\ o.st = "packing"
      /\ obj' = [obj EXCEPT ![r][n].st = "inflight", ![r][n].exch = e]
      /\ mem' = [mem EXCEPT ![r] = Packed(r, "halo", o.bufs, e, mem[r])]
      /\ sends' = sends \union IsendAll(r, n, "halo", o.tag, o.bufs)
      /\ nsent' = CountPosted(nsent, r, Out["halo"][r], o.tag)
      /\ halo' = [halo EXCEPT ![r] =
                    Append(@, [kind |-> "halo", done |-> FALSE, got |-> <<>>])]
      /\ pc' = [pc EXCEPT ![r] = pc[r] + 1]
      /\ UNCHANGED <<script, held, lastTag, recvs, wire, nrecv>>
  BY DEF PackAndSend, Return, progVars, AtStart
<1>2. /\ o \in Object /\ o.kind = "halo" /\ o.tag \in Tag /\ o.bufs \in Seq(Nat)
      /\ Len(o.bufs) = NumBufs(r, "halo") /\ IsInjective(o.bufs)
  BY <1>0, <1>1, ObjectFacts
<1>3. obj' = [obj EXCEPT ![r][n] = p]
  BY <1>1 DEF InFlight
<1>4. e \in Nat
  BY <1>0, <1>1, AppendExchange DEF Kind
<1>5. /\ p \in Object /\ p.st = "inflight" /\ p.exch = e /\ p.kind = o.kind
      /\ p.tag = o.tag /\ p.keep = o.keep /\ p.bufs = o.bufs
  BY <1>2, <1>4 DEF InFlight, Object
<1> QED
  BY <1>1, <1>2, <1>3, <1>4, <1>5

\* Whose sends are counted as the exchange that a rank packs.
LEMMA PackAndSendFollows ==
  ASSUME IInv, NEW H, HistoryOK(H), \A q \in Rank : Follows(H, q),
         NEW r \in Rank, NEW n \in Name, PackAndSend(r, n)
  PROVE  \A q \in Rank : Follows(H, q)'
<1> DEFINE o == obj[r][n]
           e == Len(halo[r]) + 1
           p == InFlight(o, e)
           last == H.num[Len(script)]
<1>0. Types /\ PoolOK /\ ObjectShape
  BY InvParts
<1>1. /\ AtStart(r, n) /\ o.st = "packing" /\ e \in Nat
      /\ o.kind = "halo" /\ o.tag \in Tag
      /\ p \in Object /\ p.st = "inflight" /\ p.exch = e /\ p.kind = "halo"
      /\ p.tag = o.tag /\ p.keep = o.keep
      /\ obj' = [obj EXCEPT ![r][n] = p]
      /\ nsent' = CountPosted(nsent, r, Out["halo"][r], o.tag)
      /\ pc' = [pc EXCEPT ![r] = pc[r] + 1]
      /\ UNCHANGED <<script, lastTag, nrecv>>
  BY PackFacts
<1>2. /\ \A m \in Name : m # n => obj[r][m].st # "packing"
      /\ Posted(r) = pc[r] + 1 /\ Follows(H, r)
  BY <1>1, PackingOne
<1>3. /\ Len(halo[r]) \in Nat /\ Len(halo'[r]) = e
      /\ DOMAIN halo[r] = 1..Len(halo[r]) /\ DOMAIN halo'[r] = 1..e
      /\ halo'[r][e].kind = "halo"
      /\ \A f \in DOMAIN halo[r] : halo'[r][f] = halo[r][f]
      /\ \A q \in Rank : q # r => halo'[q] = halo[q]
  <2>1. halo' = [halo EXCEPT ![r] =
                   Append(@, [kind |-> "halo", done |-> FALSE, got |-> <<>>])]
    BY PackFacts
  <2>2. "halo" \in Kind
    BY DEF Kind
  <2> QED
    BY <1>0, <2>1, <2>2, ExchangeAppended
<1> HIDE DEF p
<1>4. /\ obj'[r][n] = p /\ \A m \in Name : m # n => obj'[r][m] = obj[r][m]
      /\ pc'[r] = pc[r] + 1 /\ pc[r] \in Nat
  BY <1>0, <1>1 DEF Types
<1>5. ~ Packing(r)' /\ Posted(r)' = pc[r] + 1
  <2>1. \A m \in Name : obj'[r][m].st # "packing"
    BY <1>1, <1>2, <1>4
  <2> QED
    BY <1>4, <2>1 DEF Packing, Posted
<1>6. /\ H.num[pc[r] + 1] = e /\ e - 1 = Len(halo[r])
      /\ H.num[pc[r] + 1] <= last /\ ViewOK(H, pc[r] + 1)
  <2>1. PICK do \in {"start", "startOnce"} : AtCall(r, do, n)
    BY <1>1 DEF AtStart
  <2>2. H.num[pc[r] + 1] = H.num[pc[r]] + 1
    BY <1>0, <2>1, CallNumbers DEF Starts
  <2>3. Len(halo[r]) = H.num[pc[r]]
    BY <1>2 DEF Follows, FollowsCalls
  <2>4. H.num[pc[r] + 1] <= last /\ ViewOK(H, pc[r] + 1)
    BY <1>0, <2>1, CallStep
  <2> QED
    BY <1>3, <2>2, <2>3, <2>4
<1>7. /\ H \in Histories /\ CountsOK(H, last) /\ last \in Nat /\ e \in 1..last
  <2>1. H \in Histories /\ CountsOK(H, last)
    BY DEF HistoryOK
  <2>2. Len(script) \in Nat
    BY <1>0 DEF Types
  <2>3. last \in Nat
    BY <2>1, <2>2, HistoryTypes
  <2> QED
    BY <1>3, <1>6, <2>1, <2>3
<1>8. H.kind[e] = "halo" /\ H.label[e] = o.tag
  <2>1. Seen(r, n) = H.view[pc[r] + 1][n]
    BY <1>2 DEF Follows, FollowsViews
  <2>2. Seen(r, n) = View("inflight", o.kind, o.tag, o.keep, e)
    BY <1>1 DEF Seen, Live, ExchangeOf
  <2> HIDE DEF o, e
  <2>3. /\ H.view[pc[r] + 1][n].st = "inflight" /\ H.view[pc[r] + 1][n].exch = e
        /\ H.view[pc[r] + 1][n].kind = o.kind /\ H.view[pc[r] + 1][n].tag = o.tag
    BY <2>1, <2>2 DEF View
  <2> QED
    BY <1>1, <1>6, <2>3 DEF ViewOK
<1>9. FollowsCalls(H, r)'
  <2>1. \A f \in DOMAIN halo'[r] : halo'[r][f].kind = H.kind[f]
    <3> TAKE f \in DOMAIN halo'[r]
    <3>1. CASE f = e
      BY <1>3, <1>8, <3>1
    <3>2. CASE f # e
      <4>1. f \in DOMAIN halo[r]
        BY <1>3, <3>2
      <4> QED
        BY <1>2, <1>3, <4>1 DEF Follows, FollowsCalls
    <3> QED
      BY <3>1, <3>2
  <2>2. /\ Posted(r) <= Len(script) /\ lastTag[r] = H.tag[Posted(r)]
    BY <1>2 DEF Follows, FollowsCalls
  <2> QED
    BY <1>1, <1>2, <1>3, <1>4, <1>5, <1>6, <2>1, <2>2 DEF FollowsCalls
<1>10. FollowsViews(H, r)'
  <2> SUFFICES ASSUME NEW m \in Name
               PROVE  /\ Seen(r, m)' = H.view[Posted(r)'][m]
                      /\ obj'[r][m].st # "packing"
    BY DEF FollowsViews
  <2>1. Seen(r, m) = H.view[pc[r] + 1][m]
    BY <1>2 DEF Follows, FollowsViews
  <2>2. CASE m = n
    <3>1. Seen(r, n)' = View("inflight", o.kind, o.tag, o.keep, e)
      BY <1>1, <1>4 DEF Seen, Live, ExchangeOf
    <3>2. Seen(r, n) = View("inflight", o.kind, o.tag, o.keep, e)
      BY <1>1 DEF Seen, Live, ExchangeOf
    <3> QED
      BY <1>1, <1>4, <1>5, <2>1, <2>2, <3>1, <3>2
  <2>3. CASE m # n
    <3>1. Seen(r, m)' = Seen(r, m)
      BY <1>2, <1>4, <2>3 DEF Seen, Live, ExchangeOf
    <3> QED
      BY <1>2, <1>4, <1>5, <2>1, <2>3, <3>1
  <2> QED
    BY <2>2, <2>3
<1>11. FollowsCounts(H, r)'
  <2>1. \A q \in Rank, t \in Tag : /\ nsent[r][q][t] = H.count[e - 1][r][q][t]
                                   /\ nrecv[r][q][t] = H.count[H.num[pc[r] + 1]][q][r][t]
    BY <1>2, <1>6 DEF Follows, FollowsCounts
  <2>2. nsent \in Counters
    BY <1>0 DEF Types, Counters
  <2> DEFINE tag == o.tag
  <2>3. tag \in Tag /\ H.label[e] = tag
    BY <1>1, <1>8
  <2> HIDE DEF e, last, tag
  <2>4. \A q \in Rank, t \in Tag :
          CountPosted(nsent, r, Out[H.kind[e]][r], tag)[r][q][t] = H.count[e][r][q][t]
    BY <1>7, <2>1, <2>2, <2>3, CountSends, SMTT(60)
  <2>5. nsent' = CountPosted(nsent, r, Out[H.kind[e]][r], tag)
    BY <1>1, <1>8 DEF tag
  <2>6. \A q \in Rank, t \in Tag : nsent'[r][q][t] = H.count[Len(halo'[r])][r][q][t]
    BY <1>3, <2>4, <2>5
  <2>7. nrecv' = nrecv
    BY <1>1
  <2> QED
    BY <1>5, <2>1, <2>6, <2>7 DEF FollowsCounts
<1>12. ASSUME NEW q \in Rank, q # r PROVE Follows(H, q)'
  <2>1. /\ pc'[q] = pc[q] /\ \A m \in Name : obj'[q][m] = obj[q][m]
        /\ nsent'[q] = nsent[q]
    BY <1>0, <1>1, <1>12 DEF Types, CountPosted
  <2> QED
    BY <1>1, <1>3, <1>12, <2>1, FollowsStill
<1> QED
  BY <1>9, <1>10, <1>11, <1>12 DEF Follows

\* What StartSync leaves in its variable.
SyncRequest(f, e) ==
  [st |-> "inflight", kind |-> "sync", tag |-> SyncTag, keep |-> FALSE,
   bufs |-> f, exch |-> e]

\* What is known of StartSync(r, n): its buffers f, exchange e and request p.
SyncStep(r, n, f, e, p) ==
  /\ AtCall(r, "sync", n) /\ obj[r][n].st \in {"none", "finished"}
  /\ e \in Nat /\ SyncTag \in Tag
  /\ f \in Seq(Nat) /\ Len(f) = NumBufs(r, "sync") /\ IsInjective(f)
  /\ p \in Object /\ p.st = "inflight" /\ p.exch = e /\ p.kind = "sync"
  /\ p.tag = SyncTag /\ p.keep = FALSE /\ p.bufs = f
  /\ obj' = [obj EXCEPT ![r][n] = p]
  /\ mem' = [mem EXCEPT ![r] =
               Packed(r, "sync", f, e, MemAfterPop(r, NumBufs(r, "sync")))]
  /\ sends' = sends \union IsendAll(r, n, "sync", SyncTag, f)
  /\ recvs' = recvs \union IrecvAll(r, n, "sync", SyncTag, f)
  /\ nsent' = CountPosted(nsent, r, Out["sync"][r], SyncTag)
  /\ nrecv' = CountPosted(nrecv, r, In["sync"][r], SyncTag)
  /\ halo' = [halo EXCEPT ![r] =
                Append(@, [kind |-> "sync", done |-> FALSE, got |-> <<>>])]
  /\ pc' = [pc EXCEPT ![r] = pc[r] + 1]
  /\ UNCHANGED <<script, held, lastTag, wire>>

LEMMA StartSyncFacts ==
  ASSUME IInv, NEW r \in Rank, NEW n \in Name, StartSync(r, n)
  PROVE  LET f == pop_from_cache(r, NumBufs(r, "sync"))
             e == Len(halo[r]) + 1
         IN  SyncStep(r, n, f, e, SyncRequest(f, e))
<1> DEFINE f == pop_from_cache(r, NumBufs(r, "sync"))
           e == Len(halo[r]) + 1
           p == SyncRequest(f, e)
<1>0. Types /\ PoolOK /\ ObjectShape
  BY InvParts
<1>1. /\ AtCall(r, "sync", n) /\ obj[r][n].st \in {"none", "finished"}
      /\ obj' = [obj EXCEPT ![r][n] = p]
      /\ mem' = [mem EXCEPT ![r] =
                   Packed(r, "sync", f, e, MemAfterPop(r, NumBufs(r, "sync")))]
      /\ sends' = sends \union IsendAll(r, n, "sync", SyncTag, f)
      /\ recvs' = recvs \union IrecvAll(r, n, "sync", SyncTag, f)
      /\ nsent' = CountPosted(nsent, r, Out["sync"][r], SyncTag)
      /\ nrecv' = CountPosted(nrecv, r, In["sync"][r], SyncTag)
      /\ halo' = [halo EXCEPT ![r] =
                    Append(@, [kind |-> "sync", done |-> FALSE, got |-> <<>>])]
      /\ pc' = [pc EXCEPT ![r] = pc[r] + 1]
      /\ UNCHANGED <<script, held, lastTag, wire>>
  BY DEF StartSync, New, Return, progVars, SyncRequest
<1>2. "sync" \in Kind
  BY DEF Kind
<1>3. e \in Nat
  BY <1>0, <1>1, <1>2, AppendExchange
<1> HIDE DEF e
<1>4. SyncTag \in Tag
  BY BoundAssumption DEF SyncTag, Tag
<1>5. f \in Seq(Nat) /\ Len(f) = NumBufs(r, "sync") /\ IsInjective(f)
  <2>1. /\ cache[r] \in Seq(Nat) /\ mem[r] \in Seq(Message) /\ IsInjective(cache[r])
        /\ Range(cache[r]) \subseteq Allocated(r)
    BY <1>0 DEF Types, PoolOK, OneUser, BuffersAllocated
  <2>2. NumBufs(r, "sync") \in Nat
    BY <1>2, Peers
  <2>3. /\ f \in Seq(Nat) /\ Len(f) = NumBufs(r, "sync")
        /\ Taken(cache[r], Allocated(r), f, CacheAfterPop(r, NumBufs(r, "sync")),
                 DOMAIN MemAfterPop(r, NumBufs(r, "sync")))
    BY <2>1, <2>2, PopFromCache
  <2> HIDE DEF f
  <2> QED
    BY <2>3 DEF Taken
<1> HIDE DEF f
<1>6. /\ p \in Object /\ p.st = "inflight" /\ p.exch = e /\ p.kind = "sync"
      /\ p.tag = SyncTag /\ p.keep = FALSE /\ p.bufs = f
  BY <1>2, <1>3, <1>4, <1>5 DEF SyncRequest, Object
<1> HIDE DEF p
<1>7. SyncStep(r, n, f, e, p)
  BY <1>1, <1>3, <1>4, <1>5, <1>6 DEF SyncStep
<1> QED
  BY <1>7 DEF p, f, e

LEMMA StartSyncFollows ==
  ASSUME IInv, NEW H, HistoryOK(H), \A q \in Rank : Follows(H, q),
         NEW r \in Rank, NEW n \in Name, StartSync(r, n)
  PROVE  \A q \in Rank : Follows(H, q)'
<1> DEFINE f == pop_from_cache(r, NumBufs(r, "sync"))
           e == Len(halo[r]) + 1
           p == SyncRequest(f, e)
           last == H.num[Len(script)]
<1>0. Types /\ PoolOK /\ ObjectShape
  BY InvParts
<1>1. /\ AtCall(r, "sync", n) /\ obj[r][n].st \in {"none", "finished"}
      /\ e \in Nat /\ SyncTag \in Tag
      /\ p \in Object /\ p.st = "inflight" /\ p.exch = e /\ p.kind = "sync"
      /\ p.tag = SyncTag /\ p.keep = FALSE
      /\ obj' = [obj EXCEPT ![r][n] = p]
      /\ nsent' = CountPosted(nsent, r, Out["sync"][r], SyncTag)
      /\ nrecv' = CountPosted(nrecv, r, In["sync"][r], SyncTag)
      /\ pc' = [pc EXCEPT ![r] = pc[r] + 1]
      /\ UNCHANGED <<script, lastTag>>
      /\ halo' = [halo EXCEPT ![r] =
                    Append(@, [kind |-> "sync", done |-> FALSE, got |-> <<>>])]
  <2>1. SyncStep(r, n, f, e, p)
    BY StartSyncFacts
  <2> HIDE DEF f, e, p
  <2> QED
    BY <2>1 DEF SyncStep
<1>2. /\ \A m \in Name : obj[r][m].st # "packing"
      /\ Posted(r) = pc[r] /\ Follows(H, r)
  BY <1>1, NotPacking
<1>3. /\ Len(halo[r]) \in Nat /\ Len(halo'[r]) = e
      /\ DOMAIN halo[r] = 1..Len(halo[r]) /\ DOMAIN halo'[r] = 1..e
      /\ halo'[r][e].kind = "sync"
      /\ \A g \in DOMAIN halo[r] : halo'[r][g] = halo[r][g]
      /\ \A q \in Rank : q # r => halo'[q] = halo[q]
  <2>1. "sync" \in Kind
    BY DEF Kind
  <2> QED
    BY <1>0, <1>1, <2>1, ExchangeAppended
<1> HIDE DEF p
<1>4. /\ obj'[r][n] = p /\ \A m \in Name : m # n => obj'[r][m] = obj[r][m]
      /\ pc'[r] = pc[r] + 1 /\ pc[r] \in Nat
  BY <1>0, <1>1 DEF Types
<1>5. ~ Packing(r)' /\ Posted(r)' = pc[r] + 1
  <2>1. \A m \in Name : obj'[r][m].st # "packing"
    BY <1>1, <1>2, <1>4
  <2> QED
    BY <1>4, <2>1 DEF Packing, Posted
<1>6. /\ H.num[pc[r] + 1] = e /\ e - 1 = Len(halo[r]) /\ H.num[pc[r]] = Len(halo[r])
      /\ H.tag[pc[r] + 1] = H.tag[pc[r]] /\ pc[r] + 1 <= Len(script)
      /\ H.num[pc[r] + 1] <= last /\ CallEffect(H, pc[r] + 1, "sync", n)
  <2>1. /\ H.num[pc[r] + 1] = H.num[pc[r]] + 1 /\ H.tag[pc[r] + 1] = H.tag[pc[r]]
        /\ pc[r] + 1 <= Len(script)
    BY <1>0, <1>1, CallNumbers DEF Starts
  <2>2. Len(halo[r]) = H.num[pc[r]]
    BY <1>2 DEF Follows, FollowsCalls
  <2>3. H.num[pc[r] + 1] <= last /\ CallEffect(H, pc[r] + 1, "sync", n)
    BY <1>0, <1>1, CallStep
  <2> QED
    BY <1>3, <2>1, <2>2, <2>3
<1>7. /\ H \in Histories /\ CountsOK(H, last) /\ last \in Nat /\ e \in 1..last
  <2>1. H \in Histories /\ CountsOK(H, last)
    BY DEF HistoryOK
  <2>2. Len(script) \in Nat
    BY <1>0 DEF Types
  <2>3. last \in Nat
    BY <2>1, <2>2, HistoryTypes
  <2> QED
    BY <1>3, <1>6, <2>1, <2>3
<1>8. FollowsViews(H, r)'
  <2>1. Seen(r, n)' = View("inflight", "sync", SyncTag, FALSE, e)
    BY <1>1, <1>4 DEF Seen, Live, ExchangeOf
  <2>2. ViewAfter("sync", Seen(r, n), H.tag[pc[r] + 1], H.num[pc[r] + 1])
          = View("inflight", "sync", SyncTag, FALSE, e)
    BY <1>6 DEF ViewAfter
  <2>3. obj[r][n].st # "packing" /\ p.st # "packing"
    BY <1>1
  <2> HIDE DEF e
  <2> QED
    BY <1>0, <1>1, <1>2, <1>5, <2>1, <2>2, <2>3, ViewsAfterCall
<1>9. H.kind[e] = "sync" /\ H.label[e] = SyncTag
  <2>1. Seen(r, n)' = H.view[pc[r] + 1][n]
    BY <1>5, <1>8 DEF FollowsViews
  <2>2. H.view[pc[r] + 1][n].kind = "sync" /\ H.view[pc[r] + 1][n].tag = SyncTag
    BY <1>1, <1>4, <2>1 DEF Seen, View
  <2> QED
    BY <1>6, <2>2 DEF CallEffect, Starts
<1>10. FollowsCalls(H, r)'
  <2>1. \A g \in DOMAIN halo'[r] : halo'[r][g].kind = H.kind[g]
    <3> TAKE g \in DOMAIN halo'[r]
    <3>1. CASE g = e
      BY <1>3, <1>9, <3>1
    <3>2. CASE g # e
      <4>1. g \in DOMAIN halo[r]
        BY <1>3, <3>2
      <4> QED
        BY <1>2, <1>3, <4>1 DEF Follows, FollowsCalls
    <3> QED
      BY <3>1, <3>2
  <2>2. lastTag[r] = H.tag[pc[r]]
    BY <1>2 DEF Follows, FollowsCalls
  <2> QED
    BY <1>1, <1>3, <1>4, <1>5, <1>6, <2>1, <2>2 DEF FollowsCalls
<1>11. FollowsCounts(H, r)'
  <2>1. /\ \A q \in Rank, t \in Tag : nsent[r][q][t] = H.count[e - 1][r][q][t]
        /\ \A q \in Rank, t \in Tag : nrecv[r][q][t] = H.count[e - 1][q][r][t]
    BY <1>2, <1>6 DEF Follows, FollowsCounts
  <2>2. nsent \in Counters /\ nrecv \in Counters
    BY <1>0 DEF Types, Counters
  <2>3. SyncTag \in Tag /\ H.label[e] = SyncTag
    BY <1>1, <1>9
  <2> HIDE DEF e, last
  <2>4. \A q \in Rank, t \in Tag :
          CountPosted(nsent, r, Out[H.kind[e]][r], SyncTag)[r][q][t] = H.count[e][r][q][t]
    BY <1>7, <2>1, <2>2, <2>3, CountSends, SMTT(60)
  <2>5. \A q \in Rank, t \in Tag :
          CountPosted(nrecv, r, In[H.kind[e]][r], SyncTag)[r][q][t] = H.count[e][q][r][t]
    BY <1>7, <2>1, <2>2, <2>3, CountRecvs, SMTT(60)
  <2>6. \A q \in Rank, t \in Tag : nsent'[r][q][t] = H.count[Len(halo'[r])][r][q][t]
    BY <1>1, <1>3, <1>9, <2>4
  <2>7. \A q \in Rank, t \in Tag : nrecv'[r][q][t] = H.count[H.num[Posted(r)']][q][r][t]
    BY <1>1, <1>5, <1>6, <1>9, <2>5
  <2> QED
    BY <2>6, <2>7 DEF FollowsCounts
<1>12. ASSUME NEW q \in Rank, q # r PROVE Follows(H, q)'
  <2>1. /\ pc'[q] = pc[q] /\ \A m \in Name : obj'[q][m] = obj[q][m]
        /\ nsent'[q] = nsent[q] /\ nrecv'[q] = nrecv[q]
    BY <1>0, <1>1, <1>12 DEF Types, CountPosted
  <2> QED
    BY <1>1, <1>3, <1>12, <2>1, FollowsStill
<1> QED
  BY <1>8, <1>10, <1>11, <1>12 DEF Follows


-----------------------------------------------------------------------------
(* The program makes one more call: the history grows.                     *)

Calls == {"get", "start", "startOnce", "sync", "wait", "drop"}

LEMMA CallNames == DOMAIN CallResult = Calls
BY DEF CallResult, Calls

LEMMA ViewType ==
  ASSUME NEW do \in Calls, NEW v \in Views, NEW tag \in Nat, NEW num \in Nat
  PROVE  /\ ViewAfter(do, v, tag, num) \in Views
         /\ do \notin Starts => ViewAfter(do, v, tag, num).st # "inflight"
         /\ do \in Starts => /\ ViewAfter(do, v, tag, num).st = "inflight"
                             /\ ViewAfter(do, v, tag, num).exch = num
<1>1. "halo" \in Kind /\ "sync" \in Kind /\ SyncTag \in Nat
  BY DEF Kind, SyncTag
<1>2. v.kind \in Kind /\ v.tag \in Nat /\ v.keep \in BOOLEAN /\ v.exch \in Nat
  BY DEF Views
<1>3. CASE do = "get"
  BY <1>1, <1>3 DEF ViewAfter, View, Views, Starts
<1>4. CASE do = "start"
  BY <1>2, <1>4 DEF ViewAfter, View, Views, Starts
<1>5. CASE do = "startOnce"
  BY <1>1, <1>5 DEF ViewAfter, View, Views, Starts
<1>6. CASE do = "sync"
  BY <1>1, <1>6 DEF ViewAfter, View, Views, Starts
<1>7. CASE do = "wait"
  <2>1. ViewAfter(do, v, tag, num) =
          View(IF v.keep THEN "idle" ELSE "finished", v.kind, v.tag, v.keep, v.exch)
    BY <1>7 DEF ViewAfter
  <2>2. do \notin Starts
    BY <1>7 DEF Starts
  <2>3. CASE v.keep
    BY <1>2, <2>1, <2>2, <2>3 DEF View, Views
  <2>4. CASE ~ v.keep
    BY <1>2, <2>1, <2>2, <2>4 DEF View, Views
  <2> QED
    BY <2>3, <2>4
<1>8. CASE do = "drop"
  BY <1>1, <1>8 DEF ViewAfter, View, Views, Starts, NoView
<1> QED
  BY <1>3, <1>4, <1>5, <1>6, <1>7, <1>8 DEF Calls

\* G is H with one more call, do on variable n.
Grown(G, H, do, n) ==
  /\ G \in Histories
  /\ \A i \in 0..Len(script) :
       G.tag[i] = H.tag[i] /\ G.num[i] = H.num[i] /\ G.view[i] = H.view[i]
  /\ \A e \in 0..H.num[Len(script)] :
       G.kind[e] = H.kind[e] /\ G.label[e] = H.label[e] /\ G.count[e] = H.count[e]
  /\ CallEffect(G, Len(script) + 1, do, n)
  /\ do \in Starts => \A a, b \in Rank, t \in Tag :
       G.count[G.num[Len(script) + 1]][a][b][t] =
         IF Link(G, G.num[Len(script) + 1], a, b, t)
         THEN H.count[H.num[Len(script)]][a][b][t] + 1
         ELSE H.count[H.num[Len(script)]][a][b][t]

LEMMA HistoryGrows ==
  ASSUME Types, NEW H \in Histories, NEW do \in Calls, NEW n \in Name
  PROVE  \E G : Grown(G, H, do, n)
<1> DEFINE l == Len(script)
           tag == IF do \in {"get", "startOnce"} THEN H.tag[l] + 1 ELSE H.tag[l]
           num == IF do \in Starts THEN H.num[l] + 1 ELSE H.num[l]
           v == ViewAfter(do, H.view[l][n], tag, num)
           c == H.count[H.num[l]]
           next == [a \in Rank |-> [b \in Rank |-> [t \in Tag |->
                      IF b \in Range(Out[v.kind][a]) /\ v.tag = t THEN c[a][b][t] + 1
                                                                   ELSE c[a][b][t]]]]
           G == [tag |-> [H.tag EXCEPT ![l + 1] = tag],
                 num |-> [H.num EXCEPT ![l + 1] = num],
                 view |-> [H.view EXCEPT ![l + 1] = [H.view[l] EXCEPT ![n] = v]],
                 kind |-> IF do \in Starts THEN [H.kind EXCEPT ![num] = v.kind] ELSE H.kind,
                 label |-> IF do \in Starts THEN [H.label EXCEPT ![num] = v.tag] ELSE H.label,
                 count |-> IF do \in Starts THEN [H.count EXCEPT ![num] = next] ELSE H.count]
<1>1. /\ H.tag \in [Nat -> Nat] /\ H.num \in [Nat -> Nat]
      /\ H.view \in [Nat -> [Name -> Views]] /\ H.kind \in [Nat -> Kind]
      /\ H.label \in [Nat -> Nat] /\ H.count \in [Nat -> Counters]
  BY DEF Histories
<1>2. l \in Nat /\ l + 1 \in Nat /\ \A i \in 0..l : i \in Nat /\ i # l + 1
  BY DEF Types
<1>3. /\ H.tag[l] \in Nat /\ H.num[l] \in Nat
      /\ H.view[l] \in [Name -> Views] /\ H.view[l][n] \in Views /\ c \in Counters
  BY <1>1, <1>2
<1>4. tag \in Nat /\ num \in Nat
  BY <1>3
<1>5. v \in Views
  <2> HIDE DEF tag, num, l
  <2> QED
    BY <1>3, <1>4, ViewType
<1>6. do \in Starts => num = H.num[l] + 1 /\ \A e \in 0..H.num[l] : e \in Nat /\ e # num
  BY <1>3
<1>7. v.kind \in Kind /\ v.tag \in Nat
  BY <1>5 DEF Views
<1>8. next \in Counters
  <2> HIDE DEF v, c
  <2> QED
    BY <1>3 DEF Counters
<1>9. /\ G.tag = [H.tag EXCEPT ![l + 1] = tag]
      /\ G.num = [H.num EXCEPT ![l + 1] = num]
      /\ G.view = [H.view EXCEPT ![l + 1] = [H.view[l] EXCEPT ![n] = v]]
      /\ G.kind = (IF do \in Starts THEN [H.kind EXCEPT ![num] = v.kind] ELSE H.kind)
      /\ G.label = (IF do \in Starts THEN [H.label EXCEPT ![num] = v.tag] ELSE H.label)
      /\ G.count = (IF do \in Starts THEN [H.count EXCEPT ![num] = next] ELSE H.count)
  OBVIOUS
<1>10. G \in Histories
  <2>1. [H.tag EXCEPT ![l + 1] = tag] \in [Nat -> Nat]
    BY <1>1, <1>4
  <2>2. [H.num EXCEPT ![l + 1] = num] \in [Nat -> Nat]
    BY <1>1, <1>4
  <2>3. [H.view EXCEPT ![l + 1] = [H.view[l] EXCEPT ![n] = v]] \in [Nat -> [Name -> Views]]
    <3> HIDE DEF v
    <3>1. [H.view[l] EXCEPT ![n] = v] \in [Name -> Views]
      BY <1>3, <1>5
    <3> QED
      BY <1>1, <3>1
  <2>4. (IF do \in Starts THEN [H.kind EXCEPT ![num] = v.kind] ELSE H.kind) \in [Nat -> Kind]
    <3> HIDE DEF v, num
    <3> QED
      BY <1>1, <1>7
  <2>5. (IF do \in Starts THEN [H.label EXCEPT ![num] = v.tag] ELSE H.label) \in [Nat -> Nat]
    <3> HIDE DEF v, num
    <3> QED
      BY <1>1, <1>7
  <2>6. (IF do \in Starts THEN [H.count EXCEPT ![num] = next] ELSE H.count)
          \in [Nat -> Counters]
    <3> HIDE DEF next, num
    <3> QED
      BY <1>1, <1>8
  <2> HIDE DEF l, tag, num, v, c, next
  <2> QED
    BY <2>1, <2>2, <2>3, <2>4, <2>5, <2>6 DEF Histories
<1>11. \A a, b \in Rank, t \in Tag :
         next[a][b][t] = IF b \in Range(Out[v.kind][a]) /\ v.tag = t
                         THEN c[a][b][t] + 1 ELSE c[a][b][t]
  <2> HIDE DEF v, c
  <2> QED
    OBVIOUS
<1>12. H.tag[l] = H.tag[(l + 1) - 1] /\ H.num[l] = H.num[(l + 1) - 1]
       /\ H.view[l] = H.view[(l + 1) - 1] /\ (l + 1) - 1 = l
  BY <1>2
<1>13. /\ tag = IF do \in {"get", "startOnce"} THEN H.tag[l] + 1 ELSE H.tag[l]
       /\ num = IF do \in Starts THEN H.num[l] + 1 ELSE H.num[l]
       /\ v = ViewAfter(do, H.view[l][n], tag, num)
       /\ c = H.count[H.num[l]]
  OBVIOUS
<1> HIDE DEF G, tag, num, v, c, next
<1>14. \A i \in 0..l : G.tag[i] = H.tag[i] /\ G.num[i] = H.num[i] /\ G.view[i] = H.view[i]
  <2> HIDE DEF l
  <2> QED
    BY <1>1, <1>2, <1>9
<1>15. \A e \in 0..H.num[l] :
         G.kind[e] = H.kind[e] /\ G.label[e] = H.label[e] /\ G.count[e] = H.count[e]
  <2> HIDE DEF l
  <2>1. CASE do \in Starts
    BY <1>1, <1>6, <1>9, <2>1
  <2>2. CASE do \notin Starts
    BY <1>9, <2>2
  <2> QED
    BY <2>1, <2>2
<1>16. /\ G.tag[l + 1] = tag /\ G.num[l + 1] = num
       /\ G.view[l + 1] = [H.view[l] EXCEPT ![n] = v]
       /\ G.view[l + 1][n] = v
       /\ do \in Starts => G.kind[num] = v.kind /\ G.label[num] = v.tag /\ G.count[num] = next
  <2> HIDE DEF l
  <2>1. G.tag[l + 1] = tag /\ G.num[l + 1] = num
    BY <1>1, <1>2, <1>9
  <2>2. G.view[l + 1] = [H.view[l] EXCEPT ![n] = v]
    BY <1>1, <1>2, <1>9
  <2>3. G.view[l + 1][n] = v
    BY <1>3, <2>2
  <2>4. ASSUME do \in Starts
        PROVE  G.kind[num] = v.kind /\ G.label[num] = v.tag /\ G.count[num] = next
    <3>1. G.kind = [H.kind EXCEPT ![num] = v.kind]
      BY <1>9, <2>4
    <3>2. G.label = [H.label EXCEPT ![num] = v.tag]
      BY <1>9, <2>4
    <3>3. G.count = [H.count EXCEPT ![num] = next]
      BY <1>9, <2>4
    <3> QED
      BY <1>1, <1>4, <3>1, <3>2, <3>3
  <2> QED
    BY <2>1, <2>2, <2>3, <2>4
<1>17. CallEffect(G, l + 1, do, n)
  <2>1. G.tag[l] = H.tag[l] /\ G.num[l] = H.num[l] /\ G.view[l] = H.view[l]
    <3>1. l \in 0..l
      BY <1>2
    <3> QED
      BY <1>14, <3>1
  <2> HIDE DEF l
  <2> QED
    BY <1>12, <1>13, <1>16, <2>1 DEF CallEffect
<1>18. do \in Starts => \A a, b \in Rank, t \in Tag :
         G.count[G.num[l + 1]][a][b][t] =
           IF Link(G, G.num[l + 1], a, b, t) THEN H.count[H.num[l]][a][b][t] + 1
                                             ELSE H.count[H.num[l]][a][b][t]
  <2> SUFFICES ASSUME do \in Starts, NEW a \in Rank, NEW b \in Rank, NEW t \in Tag
               PROVE  G.count[G.num[l + 1]][a][b][t] =
                        IF Link(G, G.num[l + 1], a, b, t) THEN c[a][b][t] + 1 ELSE c[a][b][t]
    BY <1>13
  <2> HIDE DEF l
  <2>1. /\ G.num[l + 1] = num /\ G.kind[num] = v.kind /\ G.label[num] = v.tag
        /\ G.count[num] = next
    BY <1>16
  <2>2. Link(G, num, a, b, t) <=> b \in Range(Out[v.kind][a]) /\ v.tag = t
    BY <2>1 DEF Link
  <2> QED
    BY <1>11, <2>1, <2>2
<1>19. Grown(G, H, do, n)
  BY <1>10, <1>14, <1>15, <1>17, <1>18 DEF Grown
<1> QED
  BY <1>19

\* What the first calls and exchanges of a history range over.
LEMMA HistoryBounds ==
  ASSUME Types, NEW H, HistoryOK(H)
  PROVE  /\ H \in Histories /\ Len(script) \in Nat /\ H.num[Len(script)] \in Nat
         /\ \A i \in 0..Len(script) : H.num[i] \in 0..H.num[Len(script)]
         /\ CountsOK(H, H.num[Len(script)])
<1>1. H \in Histories /\ Len(script) \in Nat
  BY DEF HistoryOK, Types
<1>2. \A i \in Nat : H.num[i] \in Nat
  BY <1>1, HistoryTypes
<1>3. \A i \in 0..Len(script) : H.num[i] <= H.num[Len(script)]
  BY DEF HistoryOK, CallsOK
<1> QED
  BY <1>1, <1>2, <1>3 DEF HistoryOK

LEMMA GrownFollows ==
  ASSUME Types, NEW H, HistoryOK(H), NEW r \in Rank, Follows(H, r),
         NEW do, NEW n, NEW G, Grown(G, H, do, n), DOMAIN halo[r] = 1..Len(halo[r]),
         Len(script') = Len(script) + 1, \A i \in 1..Len(script) : script'[i] = script[i],
         UNCHANGED <<pc, lastTag, obj, nsent, nrecv, halo>>
  PROVE  Follows(G, r)'
<1> DEFINE l == Len(script)
           last == H.num[l]
<1>1. /\ l \in Nat /\ last \in Nat
      /\ \A i \in 0..l : H.num[i] \in 0..last
  BY HistoryBounds
<1>2. /\ \A i \in 0..l : G.tag[i] = H.tag[i] /\ G.num[i] = H.num[i] /\ G.view[i] = H.view[i]
      /\ \A e \in 0..last :
           G.kind[e] = H.kind[e] /\ G.label[e] = H.label[e] /\ G.count[e] = H.count[e]
  BY DEF Grown
<1>3. pc[r] \in 0..l /\ Posted(r) \in 0..l /\ Posted(r)' = Posted(r)
  <2>1. Posted(r) <= l /\ pc[r] \in Nat
    BY DEF Follows, FollowsCalls, Types
  <2>2. Posted(r)' = Posted(r)
    BY DEF Posted, Packing
  <2> QED
    BY <1>1, <2>1, <2>2 DEF Posted
<1>4. Len(halo[r]) = H.num[pc[r]] /\ Len(halo[r]) \in 0..last
  BY <1>1, <1>3 DEF Follows, FollowsCalls
<1>5. FollowsCalls(G, r)'
  <2>1. \A e \in DOMAIN halo[r] : halo[r][e].kind = G.kind[e]
    <3> TAKE e \in DOMAIN halo[r]
    <3>1. e \in 0..last
      BY <1>1, <1>4
    <3>2. halo[r][e].kind = H.kind[e]
      BY DEF Follows, FollowsCalls
    <3> QED
      BY <1>2, <3>1, <3>2
  <2>2. lastTag[r] = H.tag[Posted(r)] /\ Posted(r) <= l
    BY DEF Follows, FollowsCalls
  <2>3. Posted(r) <= l + 1
    BY <1>1, <1>3
  <2> QED
    BY <1>2, <1>3, <1>4, <2>1, <2>2, <2>3 DEF FollowsCalls
<1>6. FollowsViews(G, r)'
  <2> SUFFICES ASSUME NEW m \in Name
               PROVE  /\ Seen(r, m)' = G.view[Posted(r)'][m]
                      /\ obj'[r][m].st = "packing" => AtStart(r, m)'
    BY DEF FollowsViews
  <2>1. Seen(r, m)' = Seen(r, m)
    BY DEF Seen, Live, ExchangeOf
  <2>2. /\ Seen(r, m) = H.view[Posted(r)][m]
        /\ obj[r][m].st = "packing" => AtStart(r, m)
    BY DEF Follows, FollowsViews
  <2>3. AtStart(r, m) => AtStart(r, m)'
    <3>1. ASSUME NEW d, AtCall(r, d, m) PROVE AtCall(r, d, m)'
      <4>1. pc[r] < l /\ script[pc[r] + 1] = [do |-> d, name |-> m]
        BY <3>1 DEF AtCall
      <4>2. pc[r] + 1 \in 1..l /\ pc[r] < l + 1
        BY <1>1, <1>3, <4>1
      <4> QED
        BY <4>1, <4>2 DEF AtCall
    <3> QED
      BY <3>1 DEF AtStart
  <2> QED
    BY <1>2, <1>3, <2>1, <2>2, <2>3
<1>7. FollowsCounts(G, r)'
  <2>1. /\ G.count[Len(halo[r])] = H.count[Len(halo[r])]
        /\ G.num[Posted(r)] = H.num[Posted(r)] /\ H.num[Posted(r)] \in 0..last
    BY <1>1, <1>2, <1>3, <1>4
  <2>2. G.count[G.num[Posted(r)]] = H.count[H.num[Posted(r)]]
    BY <1>2, <2>1
  <2> QED
    BY <1>3, <2>1, <2>2 DEF Follows, FollowsCounts
<1> QED
  BY <1>5, <1>6, <1>7 DEF Follows

\* The variables that are in flight after one more call.
LEMMA GrownView ==
  ASSUME Types, NEW H, HistoryOK(H), NEW do \in Calls, NEW n \in Name,
         NEW G, Grown(G, H, do, n)
  PROVE  ViewOK(G, Len(script) + 1)
<1> DEFINE l == Len(script)
           last == H.num[l]
           v == ViewAfter(do, H.view[l][n], G.tag[l + 1], G.num[l + 1])
<1>1. H \in Histories /\ l \in Nat /\ l \in 0..l /\ last \in Nat /\ (l + 1) - 1 = l
  BY HistoryBounds
<1>2. /\ H.view[l] \in [Name -> Views]
      /\ G.num[l + 1] \in Nat /\ G.tag[l + 1] \in Nat
  <2>1. G \in Histories /\ l + 1 \in Nat
    BY <1>1 DEF Grown
  <2> HIDE DEF l
  <2> QED
    BY <1>1, <2>1 DEF Histories
<1>3. G.tag[l] = H.tag[l] /\ G.num[l] = last /\ G.view[l] = H.view[l]
  BY <1>1 DEF Grown
<1>4. /\ G.num[l + 1] = IF do \in Starts THEN last + 1 ELSE last
      /\ G.view[l + 1] = [H.view[l] EXCEPT ![n] = v]
      /\ do \in Starts => /\ G.kind[G.num[l + 1]] = G.view[l + 1][n].kind
                          /\ G.label[G.num[l + 1]] = G.view[l + 1][n].tag
  <2>1. CallEffect(G, l + 1, do, n)
    BY DEF Grown
  <2> HIDE DEF l
  <2> QED
    BY <1>1, <1>3, <2>1 DEF CallEffect
<1>5. /\ do \notin Starts => v.st # "inflight"
      /\ do \in Starts => v.st = "inflight" /\ v.exch = G.num[l + 1]
  <2>1. H.view[l][n] \in Views
    BY <1>2
  <2> HIDE DEF l
  <2> QED
    BY <1>2, <2>1, ViewType
<1>6. /\ G.view[l + 1][n] = v
      /\ \A m \in Name : m # n => G.view[l + 1][m] = H.view[l][m]
  <2> HIDE DEF l, v
  <2> QED
    BY <1>2, <1>4
<1>7. ViewOK(H, l)
  BY <1>1 DEF HistoryOK, CallsOK
<1>8. \A e \in 1..last : G.kind[e] = H.kind[e] /\ G.label[e] = H.label[e]
  <2>1. \A e \in 1..last : e \in 0..last
    BY <1>1
  <2> QED
    BY <2>1 DEF Grown
<1> HIDE DEF v, l, last
<1>9. ASSUME NEW m \in Name, m # n, H.view[l][m].st = "inflight"
      PROVE  /\ H.view[l][m].exch \in 1..last
             /\ G.kind[H.view[l][m].exch] = H.view[l][m].kind
             /\ G.label[H.view[l][m].exch] = H.view[l][m].tag
  <2>1. /\ H.view[l][m].exch \in 1..last
        /\ H.kind[H.view[l][m].exch] = H.view[l][m].kind
        /\ H.label[H.view[l][m].exch] = H.view[l][m].tag
    BY <1>7, <1>9 DEF ViewOK, last
  <2> QED
    BY <1>8, <2>1
<1>10. ASSUME NEW m \in Name, G.view[l + 1][m].st = "inflight"
       PROVE  /\ G.view[l + 1][m].exch \in 1..G.num[l + 1]
              /\ G.kind[G.view[l + 1][m].exch] = G.view[l + 1][m].kind
              /\ G.label[G.view[l + 1][m].exch] = G.view[l + 1][m].tag
  <2>1. CASE m = n
    <3>1. do \in Starts /\ G.view[l + 1][m].exch = G.num[l + 1]
      BY <1>5, <1>6, <1>10, <2>1
    <3>2. G.num[l + 1] \in 1..G.num[l + 1]
      BY <1>1, <1>4, <3>1
    <3> QED
      BY <1>4, <2>1, <3>1, <3>2
  <2>2. CASE m # n
    <3>1. last <= G.num[l + 1]
      BY <1>1, <1>4
    <3>2. G.view[l + 1][m] = H.view[l][m]
      BY <1>6, <2>2
    <3> QED
      BY <1>1, <1>2, <1>9, <1>10, <2>2, <3>1, <3>2
  <2> QED
    BY <2>1, <2>2
<1>11. ASSUME NEW m \in Name, NEW k \in Name,
              G.view[l + 1][m].st = "inflight", G.view[l + 1][k].st = "inflight",
              G.view[l + 1][m].exch = G.view[l + 1][k].exch
       PROVE  m = k
  <2>1. ASSUME NEW x \in Name, x # n, G.view[l + 1][x].st = "inflight",
               G.view[l + 1][n].st = "inflight"
        PROVE  G.view[l + 1][x].exch # G.view[l + 1][n].exch
    <3>1. G.view[l + 1][x] = H.view[l][x] /\ H.view[l][x].exch \in 1..last
      BY <1>6, <1>9, <2>1
    <3>2. G.view[l + 1][n].exch = last + 1
      BY <1>4, <1>5, <1>6, <2>1
    <3> QED
      BY <1>1, <3>1, <3>2
  <2>2. CASE m = n \/ k = n
    BY <1>11, <2>1, <2>2
  <2>3. CASE m # n /\ k # n
    <3>1. G.view[l + 1][m] = H.view[l][m] /\ G.view[l + 1][k] = H.view[l][k]
      BY <1>6, <2>3
    <3> QED
      BY <1>7, <1>11, <3>1 DEF ViewOK
  <2> QED
    BY <2>2, <2>3
<1>12. ViewOK(G, l + 1)
  BY <1>10, <1>11 DEF ViewOK
<1> QED
  BY <1>12 DEF l

\* The counts of one more exchange.
LEMMA GrownCounts ==
  ASSUME Types, NEW H, HistoryOK(H), NEW do \in Calls, NEW n \in Name,
         NEW G, Grown(G, H, do, n)
  PROVE  CountsOK(G, G.num[Len(script) + 1])
<1> DEFINE l == Len(script)
           last == H.num[l]
<1>1. H \in Histories /\ l \in Nat /\ l \in 0..l /\ last \in Nat /\ (l + 1) - 1 = l
  BY HistoryBounds
<1>2. G \in Histories /\ G.num[l] = last
  BY <1>1 DEF Grown
<1>3. G.num[l + 1] = IF do \in Starts THEN last + 1 ELSE last
  <2>1. CallEffect(G, l + 1, do, n)
    BY DEF Grown
  <2> HIDE DEF l
  <2> QED
    BY <1>1, <1>2, <2>1 DEF CallEffect
<1>4. \A e \in 0..last :
        G.kind[e] = H.kind[e] /\ G.label[e] = H.label[e] /\ G.count[e] = H.count[e]
  BY DEF Grown
<1>5. do \in Starts => \A a, b \in Rank, t \in Tag :
        G.count[last + 1][a][b][t] = IF Link(G, last + 1, a, b, t)
                                     THEN G.count[last][a][b][t] + 1
                                     ELSE G.count[last][a][b][t]
  <2>1. last \in 0..last
    BY <1>1
  <2>2. G.count[last] = H.count[last]
    BY <1>4, <2>1
  <2>3. do \in Starts => G.num[l + 1] = last + 1
    BY <1>3
  <2>4. do \in Starts => \A a, b \in Rank, t \in Tag :
          G.count[G.num[l + 1]][a][b][t] =
            IF Link(G, G.num[l + 1], a, b, t) THEN H.count[last][a][b][t] + 1
                                              ELSE H.count[last][a][b][t]
    BY DEF Grown
  <2> HIDE DEF l, last
  <2> QED
    BY <2>2, <2>3, <2>4
<1>6. CountsOK(H, last)
  BY HistoryBounds
<1> HIDE DEF l, last
<1>7. \A e \in Nat, a, b \in Rank, t \in Tag : G.count[e][a][b][t] \in Nat
  BY <1>2, HistoryTypes
<1>8. ASSUME NEW e \in 1..last, NEW a \in Rank, NEW b \in Rank, NEW t \in Tag
      PROVE  G.count[e][a][b][t] = IF Link(G, e, a, b, t) THEN G.count[e - 1][a][b][t] + 1
                                                          ELSE G.count[e - 1][a][b][t]
  <2>1. e \in 0..last /\ e - 1 \in 0..last
    BY <1>1
  <2>2. /\ G.kind[e] = H.kind[e] /\ G.label[e] = H.label[e] /\ G.count[e] = H.count[e]
        /\ G.count[e - 1] = H.count[e - 1]
    BY <1>4, <2>1
  <2>3. Link(G, e, a, b, t) <=> Link(H, e, a, b, t)
    BY <2>2 DEF Link
  <2>4. H.count[e][a][b][t] = IF Link(H, e, a, b, t) THEN H.count[e - 1][a][b][t] + 1
                                                     ELSE H.count[e - 1][a][b][t]
    BY <1>6 DEF CountsOK
  <2> QED
    BY <2>2, <2>3, <2>4
<1>9. ASSUME NEW e \in 0..last, NEW f \in 0..last, e <= f,
             NEW a \in Rank, NEW b \in Rank, NEW t \in Tag
      PROVE  G.count[e][a][b][t] <= G.count[f][a][b][t]
  <2>1. H.count[e][a][b][t] <= H.count[f][a][b][t]
    BY <1>6, <1>9 DEF CountsOK
  <2> QED
    BY <1>4, <2>1
<1>10. CASE do \notin Starts
  <2>1. G.num[l + 1] = last
    BY <1>3, <1>10
  <2>2. CountsOK(G, last)
    BY <1>8, <1>9 DEF CountsOK
  <2> QED
    BY <2>1, <2>2 DEF l
<1>11. CASE do \in Starts
  <2>1. G.num[l + 1] = last + 1
    BY <1>3, <1>11
  <2>2. \A e \in 1..(last + 1), a, b \in Rank, t \in Tag :
          G.count[e][a][b][t] = IF Link(G, e, a, b, t) THEN G.count[e - 1][a][b][t] + 1
                                                       ELSE G.count[e - 1][a][b][t]
    <3> TAKE e \in 1..(last + 1), a \in Rank, b \in Rank, t \in Tag
    <3>1. CASE e \in 1..last
      BY <1>8, <3>1
    <3>2. CASE e = last + 1
      <4>1. e - 1 = last
        BY <1>1, <3>2
      <4> QED
        BY <1>5, <1>11, <3>2, <4>1
    <3>3. e \in 1..last \/ e = last + 1
      BY <1>1
    <3> QED
      BY <3>1, <3>2, <3>3
  <2>3. \A e, f \in 0..(last + 1) : e <= f =>
          \A a, b \in Rank, t \in Tag : G.count[e][a][b][t] <= G.count[f][a][b][t]
    <3> SUFFICES ASSUME NEW e \in 0..(last + 1), NEW f \in 0..(last + 1), e <= f,
                        NEW a \in Rank, NEW b \in Rank, NEW t \in Tag
                 PROVE  G.count[e][a][b][t] <= G.count[f][a][b][t]
      OBVIOUS
    <3>1. \A x \in 0..(last + 1) : G.count[x][a][b][t] \in Nat
      <4>1. \A x \in 0..(last + 1) : x \in Nat
        BY <1>1
      <4> QED
        BY <1>7, <4>1
    <3>2. G.count[last][a][b][t] <= G.count[last + 1][a][b][t]
      <4>1. last \in 0..(last + 1) /\ last + 1 \in 0..(last + 1)
        BY <1>1
      <4> QED
        BY <1>5, <1>11, <3>1, <4>1
    <3>3. CASE f \in 0..last
      <4>1. e \in 0..last
        BY <1>1, <3>3
      <4> QED
        BY <1>9, <3>3, <4>1
    <3>4. CASE f = last + 1 /\ e \in 0..last
      <4>1. last \in 0..last /\ e <= last /\ last \in 0..(last + 1)
        BY <1>1, <3>4
      <4>2. G.count[e][a][b][t] <= G.count[last][a][b][t]
        BY <1>9, <3>4, <4>1
      <4> QED
        BY <3>1, <3>2, <3>4, <4>1, <4>2
    <3>5. CASE f = last + 1 /\ e = last + 1
      BY <3>1, <3>5
    <3>6. \/ f \in 0..last
          \/ f = last + 1 /\ e \in 0..last
          \/ f = last + 1 /\ e = last + 1
      BY <1>1
    <3> QED
      BY <3>3, <3>4, <3>5, <3>6
  <2>4. CountsOK(G, last + 1)
    <3>1. \A e \in 1..(last + 1), a, b \in Rank, t \in Tag :
            G.count[e][a][b][t] = IF Link(G, e, a, b, t) THEN G.count[e - 1][a][b][t] + 1
                                                         ELSE G.count[e - 1][a][b][t]
      BY <2>2
    <3> QED
      BY <2>3, <3>1 DEF CountsOK
  <2> QED
    BY <2>1, <2>4 DEF l
<1> QED
  BY <1>10, <1>11

\* The script of a history with one more call.
LEMMA GrownHistory ==
  ASSUME Types, NEW H, HistoryOK(H), NEW do \in Calls, NEW n \in Name,
         NEW G, Grown(G, H, do, n), script' = Append(script, [do |-> do, name |-> n])
  PROVE  HistoryOK(G)'
<1> DEFINE l == Len(script)
           last == H.num[l]
<1>1. /\ H \in Histories /\ G \in Histories /\ l \in Nat /\ last \in Nat
      /\ \A i \in 0..l : H.num[i] \in 0..last
  BY HistoryBounds DEF Grown
<1>2. Len(script') = l + 1 /\ Len(script)' = l + 1
  BY DEF Types
<1>3. /\ script'[l + 1].do = do /\ script'[l + 1].name = n
      /\ \A i \in 1..l : script'[i] = script[i]
  BY DEF Types
<1>4. /\ \A i \in 0..l : G.tag[i] = H.tag[i] /\ G.num[i] = H.num[i] /\ G.view[i] = H.view[i]
      /\ \A e \in 0..last :
           G.kind[e] = H.kind[e] /\ G.label[e] = H.label[e] /\ G.count[e] = H.count[e]
  BY DEF Grown
<1>5. CallEffect(G, l + 1, do, n)
  BY DEF Grown
<1>6. StartsEmpty(H) /\ CallsOK(H, l)
  BY DEF HistoryOK
<1>7. ViewOK(G, l + 1) /\ CountsOK(G, G.num[l + 1])
  BY GrownView, GrownCounts
<1> HIDE DEF l, last
<1>8. StartsEmpty(G)
  <2>1. 0 \in 0..l /\ 0 \in 0..last
    BY <1>1
  <2> QED
    BY <1>4, <1>6, <2>1 DEF StartsEmpty
<1>9. ASSUME NEW i \in 1..l PROVE CallEffect(G, i, script[i].do, script[i].name)
  <2>1. CallEffect(H, i, script[i].do, script[i].name)
    BY <1>6 DEF CallsOK
  <2>2. i \in 0..l /\ i - 1 \in 0..l
    BY <1>1
  <2>3. /\ G.tag[i] = H.tag[i] /\ G.num[i] = H.num[i] /\ G.view[i] = H.view[i]
        /\ G.tag[i - 1] = H.tag[i - 1] /\ G.num[i - 1] = H.num[i - 1]
        /\ G.view[i - 1] = H.view[i - 1]
        /\ G.kind[H.num[i]] = H.kind[H.num[i]] /\ G.label[H.num[i]] = H.label[H.num[i]]
    BY <1>1, <1>4, <2>2
  <2> QED
    BY <2>1, <2>3 DEF CallEffect
<1>10. ASSUME NEW i \in 0..l PROVE ViewOK(G, i)
  <2>1. ViewOK(H, i)
    BY <1>6 DEF CallsOK
  <2>2. G.view[i] = H.view[i] /\ G.num[i] = H.num[i] /\ H.num[i] \in 0..last
    BY <1>1, <1>4
  <2>3. \A e \in 1..H.num[i] : G.kind[e] = H.kind[e] /\ G.label[e] = H.label[e]
    <3>1. \A e \in 1..H.num[i] : e \in 0..last
      BY <1>1, <2>2
    <3> QED
      BY <1>4, <3>1
  <2> QED
    BY <2>1, <2>2, <2>3 DEF ViewOK
<1>11. ASSUME NEW i \in 0..(l + 1) PROVE G.num[i] <= G.num[l + 1] /\ ViewOK(G, i)
  <2>1. l \in 0..l /\ (l + 1) - 1 = l
    BY <1>1
  <2>2. G.num[l] = last
    BY <1>4, <2>1 DEF last
  <2>3. G.num[l + 1] = IF do \in Starts THEN last + 1 ELSE last
    BY <1>5, <2>1, <2>2 DEF CallEffect
  <2>4. CASE i \in 0..l
    <3>1. G.num[i] \in 0..last
      BY <1>1, <1>4, <2>4
    <3> QED
      BY <1>1, <1>10, <2>3, <2>4, <3>1
  <2>5. CASE i = l + 1
    <3>1. G.num[l + 1] \in Nat
      BY <1>1, <2>3
    <3> QED
      BY <1>7, <2>5, <3>1
  <2> QED
    BY <1>1, <2>4, <2>5
<1>12. ASSUME NEW i \in 1..(l + 1)
       PROVE  CallEffect(G, i, script'[i].do, script'[i].name)
  <2>1. CASE i \in 1..l
    BY <1>3, <1>9, <2>1
  <2>2. CASE i = l + 1
    BY <1>3, <1>5, <2>2
  <2>3. i \in 1..l \/ i = l + 1
    BY <1>1
  <2> QED
    BY <2>1, <2>2, <2>3
<1>13. CallsOK(G, Len(script))'
  <2>1. /\ \A i \in 1..(l + 1) : CallEffect(G, i, script'[i].do, script'[i].name)
        /\ \A i \in 0..(l + 1) : G.num[i] <= G.num[l + 1] /\ ViewOK(G, i)
    BY <1>11, <1>12
  <2> QED
    BY <1>2, <2>1 DEF CallsOK
<1>14. StartsEmpty(G)'
  BY <1>8 DEF StartsEmpty
<1>15. CountsOK(G, G.num[Len(script)])'
  <2>1. PICK last1 : last1 = G.num[l + 1]
    OBVIOUS
  <2>2. CountsOK(G, last1)'
    BY <1>7, <2>1 DEF CountsOK, Link
  <2>3. G.num[Len(script)]' = last1
    BY <1>2, <2>1
  <2> QED
    BY <2>2, <2>3
<1> QED
  BY <1>1, <1>13, <1>14, <1>15 DEF HistoryOK

\* The program holds what the history says after one more call.
LEMMA GrownHeld ==
  ASSUME Types, NEW H, HistoryOK(H), HeldOK(H), NEW do \in Calls, NEW n \in Name,
         NEW G, Grown(G, H, do, n), Extend(do, n)
  PROVE  HeldOK(G)'
<1> DEFINE l == Len(script)
           v == H.view[l][n]
           x == ViewAfter(do, v, G.tag[l + 1], G.num[l + 1])
<1>1. H \in Histories /\ l \in Nat /\ l \in 0..l /\ (l + 1) - 1 = l
  BY HistoryBounds
<1>2. H.view[l] \in [Name -> Views]
  BY <1>1 DEF Histories
<1>3. /\ held[n] \in DOMAIN CallResult[do]
      /\ held' = [held EXCEPT ![n] = CallResult[do][held[n]]]
      /\ held \in [Name -> {"nothing", "idle", "inflight", "inflightOnce", "finished"}]
      /\ Len(script') = l + 1
  BY DEF Extend, Types
<1>4. G.view[l + 1] = [H.view[l] EXCEPT ![n] = x]
  <2>1. CallEffect(G, l + 1, do, n) /\ G.view[l] = H.view[l]
    BY <1>1 DEF Grown
  <2> HIDE DEF l
  <2> QED
    BY <1>1, <2>1 DEF CallEffect
<1>5. held[n] = HeldAs(v) /\ (held[n] = "idle" => v.keep) /\ v \in Views
  BY <1>2 DEF HeldOK
<1>6. CallResult[do][held[n]] = HeldAs(x) /\ (CallResult[do][held[n]] = "idle" => x.keep)
  <2> HIDE DEF v, l
  <2>0. /\ v.st \in {"none", "idle", "inflight", "finished"} /\ v.keep \in BOOLEAN
        /\ held[n] = CASE v.st = "none" -> "nothing"
                       [] v.st = "inflight" -> IF v.keep THEN "inflight" ELSE "inflightOnce"
                       [] OTHER -> v.st
    BY <1>5 DEF Views, HeldAs
  <2>1. CASE do = "get"
    <3>1. held[n] = "nothing" /\ CallResult[do][held[n]] = "idle"
      BY <1>3, <2>1 DEF CallResult
    <3>2. x.st = "idle" /\ x.keep
      BY <2>1 DEF ViewAfter, View
    <3> HIDE DEF x
    <3> QED
      BY <3>1, <3>2 DEF HeldAs
  <2>2. CASE do = "start"
    <3>1. held[n] = "idle" /\ CallResult[do][held[n]] = "inflight"
      BY <1>3, <2>2 DEF CallResult
    <3>2. x.st = "inflight" /\ x.keep
      BY <1>5, <2>2, <3>1 DEF ViewAfter, View
    <3> HIDE DEF x
    <3> QED
      BY <3>1, <3>2 DEF HeldAs
  <2>3. CASE do \in {"startOnce", "sync"}
    <3>1. CallResult[do][held[n]] = "inflightOnce"
      BY <1>3, <2>3 DEF CallResult
    <3>2. x.st = "inflight" /\ ~ x.keep
      BY <2>3 DEF ViewAfter, View
    <3> HIDE DEF x
    <3> QED
      BY <3>1, <3>2 DEF HeldAs
  <2>4. CASE do = "wait"
    <3>1. held[n] \in {"inflight", "inflightOnce"}
      BY <1>3, <2>4 DEF CallResult
    <3>2. v.st = "inflight"
      BY <2>0, <3>1
    <3>3. x = View(IF v.keep THEN "idle" ELSE "finished", v.kind, v.tag, v.keep, v.exch)
      BY <2>4 DEF ViewAfter
    <3>4. CASE v.keep
      <4>1. held[n] = "inflight"
        BY <1>5, <3>2, <3>4 DEF HeldAs
      <4>2. CallResult[do][held[n]] = "idle"
        BY <2>4, <4>1 DEF CallResult
      <4>3. x.st = "idle" /\ x.keep
        BY <3>3, <3>4 DEF View
      <4> HIDE DEF x
      <4> QED
        BY <4>2, <4>3 DEF HeldAs
    <3>5. CASE ~ v.keep
      <4>1. held[n] = "inflightOnce"
        BY <1>5, <3>2, <3>5 DEF HeldAs
      <4>2. CallResult[do][held[n]] = "finished"
        BY <2>4, <4>1 DEF CallResult
      <4>3. x.st = "finished"
        BY <3>3, <3>5 DEF View
      <4> HIDE DEF x
      <4> QED
        BY <4>2, <4>3 DEF HeldAs
    <3> QED
      BY <3>4, <3>5
  <2>5. CASE do = "drop"
    <3>1. CallResult[do][held[n]] = "nothing"
      BY <1>3, <2>5 DEF CallResult
    <3>2. x.st = "none"
      BY <2>5 DEF ViewAfter, View, NoView
    <3> HIDE DEF x
    <3> QED
      BY <3>1, <3>2 DEF HeldAs
  <2> QED
    BY <2>1, <2>2, <2>3, <2>4, <2>5 DEF Calls
<1> HIDE DEF x, v
<1>7. ASSUME NEW m \in Name
      PROVE  /\ held'[m] = HeldAs(G.view[l + 1][m])
             /\ held'[m] = "idle" => G.view[l + 1][m].keep
  <2> HIDE DEF l
  <2>1. CASE m = n
    BY <1>2, <1>3, <1>4, <1>6, <2>1
  <2>2. CASE m # n
    <3>1. held'[m] = held[m] /\ G.view[l + 1][m] = H.view[l][m]
      BY <1>2, <1>3, <1>4, <2>2
    <3> QED
      BY <3>1 DEF HeldOK, l
  <2> QED
    BY <2>1, <2>2
<1> QED
  BY <1>3, <1>7 DEF HeldOK
=============================================================================
