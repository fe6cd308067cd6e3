--------------------- MODULE CompilationHandshake_proofs ---------------------
(***************************************************************************)
(* No rank builds a stencil before its compiling rank has, and the untyped *)
(* message that lets it go on is the one it waits for, for every layout,   *)
(* every program and every choice of the messages MPI buffers.             *)
(*                                                                         *)
(* The place of a message is the operation of the program that sends it.   *)
(* All ranks run the same program, so each channel holds the messages of   *)
(* a set of places that the progress of its two ends determines, in the    *)
(* order of the places: those the source has sent and the destination has  *)
(* not taken.  A rank that waits for a compiler is at a place whose        *)
(* earlier messages it has all taken, so the head of the channel, which    *)
(* the receive takes whatever it is, is the message of that place.         *)
(***************************************************************************)
EXTENDS CompilationHandshake, FiniteSetTheorems, TLAPS

-----------------------------------------------------------------------------
(* Places.                                                                 *)

Places(prog) == {p \in 1..Len(prog) : prog[p] \in {"build", "start"}}

\* The message that an operation sends.
MessageOf(prog, p) ==
  IF prog[p] = "build" THEN Done(CountUpTo(prog, p, "build"))
                       ELSE Halo(CountUpTo(prog, p, "start"))

LEMMA CountFinite ==
  ASSUME NEW prog, NEW i \in Nat, NEW op
  PROVE  IsFiniteSet({k \in 1..i : prog[k] = op}) /\ CountUpTo(prog, i, op) \in Nat
<1>1. IsFiniteSet(1..i)
  BY FS_Interval
<1>2. IsFiniteSet({k \in 1..i : prog[k] = op})
  BY <1>1, FS_Subset
<1> QED
  BY <1>2, FS_CardinalityType DEF CountUpTo

LEMMA CountNone == ASSUME NEW prog, NEW op PROVE CountUpTo(prog, 0, op) = 0
<1>1. {k \in 1..0 : prog[k] = op} = {}
  OBVIOUS
<1> QED
  BY <1>1, FS_EmptySet DEF CountUpTo

LEMMA CountOne ==
  ASSUME NEW prog, NEW i \in Nat, i > 0, NEW op
  PROVE  CountUpTo(prog, i, op) =
           IF prog[i] = op THEN CountUpTo(prog, i - 1, op) + 1 ELSE CountUpTo(prog, i - 1, op)
<1> DEFINE before == {k \in 1..(i - 1) : prog[k] = op}
           upTo == {k \in 1..i : prog[k] = op}
<1>1. IsFiniteSet(before)
  <2>1. i - 1 \in Nat
    OBVIOUS
  <2> QED
    BY <2>1, CountFinite
<1>2. CASE prog[i] = op
  <2>1. upTo = before \union {i} /\ i \notin before
    BY <1>2
  <2>2. Cardinality(upTo) = Cardinality(before) + 1
    BY <1>1, <2>1, FS_AddElement
  <2> QED
    BY <1>2, <2>2 DEF CountUpTo
<1>3. CASE prog[i] # op
  <2>1. upTo = before
    BY <1>3
  <2> QED
    BY <1>3, <2>1 DEF CountUpTo
<1> QED
  BY <1>2, <1>3

LEMMA CountGrows ==
  ASSUME NEW prog, NEW i \in Nat, NEW j \in Nat, i <= j, NEW op
  PROVE  CountUpTo(prog, i, op) <= CountUpTo(prog, j, op)
<1>1. {k \in 1..i : prog[k] = op} \subseteq {k \in 1..j : prog[k] = op}
  OBVIOUS
<1>2. IsFiniteSet({k \in 1..j : prog[k] = op})
  BY CountFinite
<1> QED
  BY <1>1, <1>2, FS_Subset DEF CountUpTo

\* The operations of one kind are numbered in the order of the program.
LEMMA CountAt ==
  ASSUME NEW prog, NEW i \in Nat, NEW j \in Nat, j > 0, NEW op, prog[j] = op
  PROVE  i < j <=> CountUpTo(prog, i, op) < CountUpTo(prog, j, op)
<1>1. /\ CountUpTo(prog, i, op) \in Nat /\ CountUpTo(prog, j, op) \in Nat
      /\ CountUpTo(prog, j - 1, op) \in Nat /\ j - 1 \in Nat
  <2>1. j - 1 \in Nat
    OBVIOUS
  <2> QED
    BY <2>1, CountFinite
<1>2. CountUpTo(prog, j, op) = CountUpTo(prog, j - 1, op) + 1
  BY CountOne
<1>3. CASE i < j
  <2>1. i <= j - 1
    BY <1>3
  <2>2. CountUpTo(prog, i, op) <= CountUpTo(prog, j - 1, op)
    BY <1>1, <2>1, CountGrows
  <2> QED
    BY <1>1, <1>2, <1>3, <2>2
<1>4. CASE j <= i
  <2>1. CountUpTo(prog, j, op) <= CountUpTo(prog, i, op)
    BY <1>4, CountGrows
  <2> QED
    BY <1>1, <1>4, <2>1
<1> QED
  BY <1>3, <1>4

\* A message tells its place.
LEMMA PlaceOfMessage ==
  ASSUME NEW prog, Len(prog) \in Nat, NEW p \in Places(prog), NEW q \in Places(prog),
         MessageOf(prog, p) = MessageOf(prog, q)
  PROVE  p = q
<1>1. /\ p \in Nat /\ q \in Nat /\ p > 0 /\ q > 0
      /\ prog[p] \in {"build", "start"} /\ prog[q] \in {"build", "start"}
  BY DEF Places
<1>2. ASSUME NEW op, prog[p] = op, prog[q] = op,
             CountUpTo(prog, p, op) = CountUpTo(prog, q, op)
      PROVE  p = q
  <2>1. CountUpTo(prog, p, op) \in Nat
    BY <1>1, CountFinite
  <2>2. (p < q <=> CountUpTo(prog, p, op) < CountUpTo(prog, q, op))
        /\ (q < p <=> CountUpTo(prog, q, op) < CountUpTo(prog, p, op))
    BY <1>1, <1>2, CountAt
  <2> QED
    BY <1>1, <1>2, <2>1, <2>2
<1>3. CASE prog[p] = "build" /\ prog[q] = "build"
  BY <1>2, <1>3 DEF MessageOf, Done
<1>4. CASE prog[p] = "start" /\ prog[q] = "start"
  BY <1>2, <1>4 DEF MessageOf, Halo
<1>5. CASE prog[p] # prog[q]
  BY <1>1, <1>5 DEF MessageOf, Halo, Done
<1> QED
  BY <1>1, <1>3, <1>4, <1>5

-----------------------------------------------------------------------------
(* Channels.                                                               *)

Messages == {Done(k) : k \in Nat} \union {Halo(n) : n \in Nat}

\* The channel c holds the messages of the places P, in their order.
Holds(prog, c, P) ==
  /\ c \in Seq(Messages)
  /\ P \subseteq Places(prog)
  /\ \A i \in 1..Len(c) : \E p \in P : c[i] = MessageOf(prog, p)
  /\ \A p \in P : \E i \in 1..Len(c) : c[i] = MessageOf(prog, p)
  /\ \A i, j \in 1..Len(c), p, q \in P :
       i < j /\ c[i] = MessageOf(prog, p) /\ c[j] = MessageOf(prog, q) => p < q

LEMMA MessageType ==
  ASSUME NEW prog, Len(prog) \in Nat, NEW p \in Places(prog)
  PROVE  MessageOf(prog, p) \in Messages
<1>1. p \in Nat
  BY DEF Places
<1> QED
  BY <1>1, CountFinite DEF MessageOf, Messages

LEMMA HoldsNothing ==
  ASSUME NEW prog
  PROVE  /\ Holds(prog, <<>>, {})
         /\ \A c : Holds(prog, c, {}) => c = <<>>
<1>1. Holds(prog, <<>>, {})
  BY DEF Holds
<1>2. ASSUME NEW c, Holds(prog, c, {}) PROVE c = <<>>
  BY <1>2 DEF Holds
<1> QED
  BY <1>1, <1>2

\* Removing the message at position k.
LEMMA HoldsWithout ==
  ASSUME NEW prog, Len(prog) \in Nat, NEW c, NEW P, Holds(prog, c, P),
         NEW k \in 1..Len(c), NEW p \in P, c[k] = MessageOf(prog, p),
         NEW d \in Seq(Messages), Len(d) = Len(c) - 1,
         \A i \in 1..Len(d) : d[i] = IF i < k THEN c[i] ELSE c[i + 1]
  PROVE  Holds(prog, d, P \ {p})
<1>1. c \in Seq(Messages) /\ Len(c) \in Nat /\ P \subseteq Places(prog)
  BY DEF Holds
<1>2. \A i \in 1..Len(c) : i # k => c[i] # MessageOf(prog, p)
  <2> SUFFICES ASSUME NEW i \in 1..Len(c), i # k, c[i] = MessageOf(prog, p) PROVE FALSE
    OBVIOUS
  <2>1. p \in Nat
    BY <1>1 DEF Places
  <2>2. CASE i < k
    BY <2>1, <2>2, SMTT(30) DEF Holds
  <2>3. CASE k < i
    BY <2>1, <2>3 DEF Holds
  <2> QED
    BY <1>1, <2>2, <2>3
<1> DEFINE from(i) == IF i < k THEN i ELSE i + 1
<1>3. \A i \in 1..Len(d) : from(i) \in 1..Len(c) /\ from(i) # k /\ d[i] = c[from(i)]
  BY <1>1
<1>4. \A i, j \in 1..Len(d) : i < j => from(i) < from(j)
  BY <1>1
<1>5. \A i \in 1..Len(c) : i # k => \E j \in 1..Len(d) : from(j) = i
  <2> TAKE i \in 1..Len(c)
  <2> HAVE i # k
  <2>1. CASE i < k
    <3>1. i \in 1..Len(d) /\ from(i) = i
      BY <1>1, <2>1
    <3> QED
      BY <3>1
  <2>2. CASE k < i
    <3>1. i - 1 \in 1..Len(d) /\ from(i - 1) = i
      BY <1>1, <2>2
    <3> QED
      BY <3>1
  <2> QED
    BY <1>1, <2>1, <2>2
<1> HIDE DEF from
<1>6. ASSUME NEW i \in 1..Len(d) PROVE \E q \in P \ {p} : d[i] = MessageOf(prog, q)
  <2>1. PICK q \in P : c[from(i)] = MessageOf(prog, q)
    BY <1>3 DEF Holds
  <2>2. q # p
    BY <1>2, <1>3, <2>1
  <2> QED
    BY <1>3, <2>1, <2>2
<1>7. ASSUME NEW q \in P \ {p} PROVE \E i \in 1..Len(d) : d[i] = MessageOf(prog, q)
  <2>1. PICK i \in 1..Len(c) : c[i] = MessageOf(prog, q)
    BY DEF Holds
  <2>2. i # k
    BY <1>1, <2>1, PlaceOfMessage
  <2>3. PICK j \in 1..Len(d) : from(j) = i
    BY <1>5, <2>2
  <2>4. d[j] = c[from(j)]
    BY <1>3
  <2> QED
    BY <2>1, <2>3, <2>4
<1>8. ASSUME NEW i \in 1..Len(d), NEW j \in 1..Len(d), NEW q \in P \ {p}, NEW s \in P \ {p},
             i < j, d[i] = MessageOf(prog, q), d[j] = MessageOf(prog, s)
      PROVE  q < s
  <2>1. from(i) < from(j) /\ c[from(i)] = MessageOf(prog, q) /\ c[from(j)] = MessageOf(prog, s)
    BY <1>3, <1>4, <1>8
  <2> QED
    BY <1>3, <2>1 DEF Holds
<1> QED
  BY <1>1, <1>6, <1>7, <1>8 DEF Holds

\* The head of a channel is the message of the first place.
LEMMA HoldsHead ==
  ASSUME NEW prog, Len(prog) \in Nat, NEW c, NEW P, Holds(prog, c, P),
         NEW p \in P, \A q \in P : p <= q
  PROVE  Head(c) = MessageOf(prog, p) /\ Holds(prog, Tail(c), P \ {p})
<1>1. c \in Seq(Messages) /\ Len(c) \in Nat /\ P \subseteq Places(prog)
  BY DEF Holds
<1>2. PICK i \in 1..Len(c) : c[i] = MessageOf(prog, p)
  BY DEF Holds
<1>3. 1 \in 1..Len(c) /\ c # <<>>
  BY <1>1
<1>4. PICK q \in P : c[1] = MessageOf(prog, q)
  BY <1>3 DEF Holds
<1>5. p \in Nat /\ q \in Nat /\ p <= q
  BY <1>1 DEF Places
<1>6. c[1] = MessageOf(prog, p)
  <2>1. CASE i = 1
    BY <1>2, <2>1
  <2>2. CASE 1 < i
    <3>1. q < p
      BY <1>2, <1>3, <1>4, <2>2 DEF Holds
    <3> QED
      BY <1>5, <3>1
  <2> QED
    BY <1>1, <2>1, <2>2
<1>7. /\ Tail(c) \in Seq(Messages) /\ Len(Tail(c)) = Len(c) - 1
      /\ \A j \in 1..Len(Tail(c)) : Tail(c)[j] = IF j < 1 THEN c[j] ELSE c[j + 1]
  BY <1>1, <1>3
<1>8. Holds(prog, Tail(c), P \ {p})
  <2> DEFINE d == Tail(c)
  <2> HIDE DEF d
  <2>1. /\ d \in Seq(Messages) /\ Len(d) = Len(c) - 1
        /\ \A j \in 1..Len(d) : d[j] = IF j < 1 THEN c[j] ELSE c[j + 1]
    BY <1>7 DEF d
  <2>2. Holds(prog, d, P \ {p})
    BY <1>3, <1>6, <2>1, HoldsWithout
  <2> QED
    BY <2>2 DEF d
<1> QED
  BY <1>1, <1>3, <1>6, <1>8

LEMMA HoldsAppend ==
  ASSUME NEW prog, Len(prog) \in Nat, NEW c, NEW P, Holds(prog, c, P),
         NEW p \in Places(prog), \A q \in P : q < p
  PROVE  Holds(prog, Append(c, MessageOf(prog, p)), P \union {p})
<1> DEFINE m == MessageOf(prog, p)
           d == Append(c, m)
<1>1. c \in Seq(Messages) /\ Len(c) \in Nat /\ P \subseteq Places(prog)
  BY DEF Holds
<1>2. m \in Messages
  BY MessageType
<1> HIDE DEF m
<1>3. /\ d \in Seq(Messages) /\ Len(d) = Len(c) + 1 /\ d[Len(c) + 1] = m
      /\ \A i \in 1..Len(c) : d[i] = c[i]
  BY <1>1, <1>2
<1> HIDE DEF d
<1>4. \A i \in 1..Len(d) : i \in 1..Len(c) \/ i = Len(c) + 1
  BY <1>1, <1>3
<1>5. \A i \in 1..Len(c) : i \in 1..Len(d)
  BY <1>1, <1>3
<1>6. \A q \in P : MessageOf(prog, q) # m
  <2> SUFFICES ASSUME NEW q \in P, MessageOf(prog, q) = m PROVE FALSE
    OBVIOUS
  <2>1. q = p /\ q \in Nat
    BY <1>1, PlaceOfMessage DEF m, Places
  <2> QED
    BY <2>1
<1>7. ASSUME NEW i \in 1..Len(d) PROVE \E q \in P \union {p} : d[i] = MessageOf(prog, q)
  <2>1. CASE i \in 1..Len(c)
    BY <1>3, <2>1 DEF Holds
  <2>2. CASE i = Len(c) + 1
    BY <1>3, <2>2 DEF m
  <2> QED
    BY <1>4, <2>1, <2>2
<1>8. ASSUME NEW q \in P \union {p} PROVE \E i \in 1..Len(d) : d[i] = MessageOf(prog, q)
  <2>1. CASE q \in P
    BY <1>3, <1>5, <2>1 DEF Holds
  <2>2. CASE q = p
    <3>1. Len(c) + 1 \in 1..Len(d)
      BY <1>1, <1>3
    <3> QED
      BY <1>3, <2>2, <3>1 DEF m
  <2> QED
    BY <2>1, <2>2
<1>9. ASSUME NEW i \in 1..Len(d), NEW j \in 1..Len(d), NEW q \in P \union {p},
             NEW s \in P \union {p}, i < j, d[i] = MessageOf(prog, q), d[j] = MessageOf(prog, s)
      PROVE  q < s
  <2>1. i \in 1..Len(c) /\ d[i] = c[i]
    BY <1>1, <1>3, <1>9
  <2>2. PICK q1 \in P : c[i] = MessageOf(prog, q1)
    BY <2>1 DEF Holds
  <2>3. q \in P
    BY <1>6, <1>9, <2>1, <2>2 DEF m
  <2>4. CASE s = p
    BY <2>3, <2>4
  <2>5. CASE s # p
    <3>1. j \in 1..Len(c)
      <4>1. d[j] # m
        BY <1>6, <1>9, <2>5
      <4> QED
        BY <1>3, <1>4, <4>1
    <3> QED
      BY <1>3, <1>9, <2>1, <2>3, <2>5, <3>1 DEF Holds
  <2> QED
    BY <2>4, <2>5
<1>10. P \union {p} \subseteq Places(prog)
  BY <1>1
<1>11. Holds(prog, d, P \union {p})
  BY <1>3, <1>7, <1>8, <1>9, <1>10 DEF Holds
<1> QED
  BY <1>11 DEF d, m

LEMMA RemoveOne ==
  ASSUME NEW S, NEW c \in Seq(S), NEW e, NEW k \in 1..Len(c), c[k] = e,
         \A i \in 1..Len(c) : c[i] = e => i = k
  PROVE  /\ RemoveFirst(c, e) \in Seq(S) /\ Len(RemoveFirst(c, e)) = Len(c) - 1
         /\ \A i \in 1..(Len(c) - 1) :
              RemoveFirst(c, e)[i] = IF i < k THEN c[i] ELSE c[i + 1]
<1>1. {i \in 1..Len(c) : c[i] = e} = {k}
  OBVIOUS
<1>2. (CHOOSE x \in {k} : \A y \in {k} : x <= y) = k
  OBVIOUS
<1>3. SelectInSeq(c, LAMBDA v : v = e) = k
  BY <1>1, <1>2 DEF SelectInSeq, Min
<1>4. RemoveFirst(c, e) = SubSeq(c, 1, k - 1) \o SubSeq(c, k + 1, Len(c))
  BY <1>3 DEF RemoveFirst, RemoveAt
<1>5. Len(c) \in Nat /\ k \in Nat
  OBVIOUS
<1>6. SubSeq(c, 1, k - 1) \in Seq(S) /\ Len(SubSeq(c, 1, k - 1)) = k - 1
      /\ \A i \in 1..(k - 1) : SubSeq(c, 1, k - 1)[i] = c[i]
  BY <1>5
<1>7. SubSeq(c, k + 1, Len(c)) \in Seq(S) /\ Len(SubSeq(c, k + 1, Len(c))) = Len(c) - k
      /\ \A i \in 1..(Len(c) - k) : SubSeq(c, k + 1, Len(c))[i] = c[i + k]
  BY <1>5
<1> DEFINE a == SubSeq(c, 1, k - 1)
           b == SubSeq(c, k + 1, Len(c))
<1> HIDE DEF a, b
<1>8. /\ a \in Seq(S) /\ Len(a) = k - 1 /\ \A i \in 1..(k - 1) : a[i] = c[i]
      /\ b \in Seq(S) /\ Len(b) = Len(c) - k /\ \A i \in 1..(Len(c) - k) : b[i] = c[i + k]
      /\ RemoveFirst(c, e) = a \o b
  BY <1>4, <1>6, <1>7 DEF a, b
<1>9. a \o b \in Seq(S) /\ Len(a \o b) = Len(c) - 1
  <2>1. a \in Seq(S) /\ b \in Seq(S) /\ Len(a) = k - 1 /\ Len(b) = Len(c) - k
    BY <1>8
  <2>2. a \o b \in Seq(S) /\ Len(a \o b) = Len(a) + Len(b)
    BY <2>1, SMTT(30)
  <2> QED
    BY <1>5, <2>1, <2>2
<1>10. ASSUME NEW i \in 1..(Len(c) - 1) PROVE (a \o b)[i] = IF i < k THEN c[i] ELSE c[i + 1]
  <2>1. CASE i < k
    BY <1>5, <1>8, <2>1
  <2>2. CASE k <= i
    <3>1. (a \o b)[i] = b[i - Len(a)]
      BY <1>5, <1>8, <2>2
    <3>2. i - Len(a) \in 1..(Len(c) - k) /\ (i - Len(a)) + k = i + 1
      BY <1>5, <1>8, <2>2
    <3> QED
      BY <1>8, <2>2, <3>1, <3>2
  <2>3. i < k \/ k <= i
    BY <1>5
  <2> QED
    BY <2>1, <2>2, <2>3
<1> QED
  BY <1>8, <1>9, <1>10

LEMMA HoldsRemove ==
  ASSUME NEW prog, Len(prog) \in Nat, NEW c, NEW P, Holds(prog, c, P), NEW p \in Places(prog)
  PROVE  Holds(prog, RemoveFirst(c, MessageOf(prog, p)), P \ {p})
<1> DEFINE m == MessageOf(prog, p)
           d == RemoveFirst(c, m)
<1>1. c \in Seq(Messages) /\ Len(c) \in Nat /\ P \subseteq Places(prog)
  BY DEF Holds
<1>2. CASE p \in P
  <2>1. PICK k \in 1..Len(c) : c[k] = m
    BY <1>2 DEF Holds
  <2>2. \A i \in 1..Len(c) : c[i] = m => i = k
    <3> SUFFICES ASSUME NEW i \in 1..Len(c), c[i] = m, i # k PROVE FALSE
      OBVIOUS
    <3>1. p \in Nat /\ ~ p < p
      BY DEF Places
    <3>2. i < k \/ k < i
      BY <1>1
    <3> QED
      BY <1>2, <2>1, <3>1, <3>2 DEF Holds
  <2> HIDE DEF m
  <2>3. /\ d \in Seq(Messages) /\ Len(d) = Len(c) - 1
        /\ \A i \in 1..(Len(c) - 1) : d[i] = IF i < k THEN c[i] ELSE c[i + 1]
    BY <1>1, <2>1, <2>2, RemoveOne
  <2> HIDE DEF d
  <2>4. c[k] = MessageOf(prog, p)
    BY <2>1 DEF m
  <2>5. Holds(prog, d, P \ {p})
    BY <1>2, <2>3, <2>4, HoldsWithout
  <2> QED
    BY <2>5 DEF d, m
<1>3. CASE p \notin P
  <2>1. ~ \E i \in 1..Len(c) : c[i] = m
    <3> SUFFICES ASSUME NEW i \in 1..Len(c), c[i] = m PROVE FALSE
      OBVIOUS
    <3>1. PICK q \in P : c[i] = MessageOf(prog, q)
      BY DEF Holds
    <3> QED
      BY <1>1, <1>3, <3>1, PlaceOfMessage
  <2> HIDE DEF m
  <2>2. d = c
    BY <2>1 DEF RemoveFirst
  <2>3. P \ {p} = P
    BY <1>3
  <2> QED
    BY <2>2, <2>3 DEF m
<1> QED
  BY <1>2, <1>3

-----------------------------------------------------------------------------
(* Ranks.                                                                  *)

LEMMA Division ==
  ASSUME NEW t \in Nat \ {0}, NEW r \in Nat
  PROVE  /\ r \div t \in Nat /\ r % t \in 0..(t - 1) /\ r = (r \div t) * t + (r % t)
         /\ r < t => r % t = r
<1>1. r \div t \in Nat /\ r % t \in 0..(t - 1) /\ r = t * (r \div t) + (r % t)
  OBVIOUS
<1>2. t * (r \div t) = (r \div t) * t
  BY <1>1
<1>3. ASSUME r < t PROVE r % t = r
  <2>1. r \div t = 0
    BY <1>1, <1>3
  <2> QED
    BY <1>1, <2>1
<1> QED
  BY <1>1, <1>2, <1>3

LEMMA Remainder ==
  ASSUME NEW t \in Nat \ {0}, NEW n \in Nat, NEW c \in 0..(t - 1)
  PROVE  (n * t + c) % t = c
<1> DEFINE r == n * t + c
           q == r \div t
           x == r % t
<1>1. n * t \in Nat /\ r \in Nat
  OBVIOUS
<1>2. q \in Nat /\ x \in 0..(t - 1) /\ r = q * t + x
  BY <1>1, Division
<1>3. n * t + c = q * t + x
  BY <1>2
<1> HIDE DEF r, q, x
<1>4. (n - q) * t = x - c
  BY <1>2, <1>3
<1>5. x - c < t /\ x - c > -t
  BY <1>2
<1>6. n - q = 0
  BY <1>2, <1>4, <1>5
<1>7. x = c
  BY <1>2, <1>4, <1>6
<1> QED
  BY <1>7 DEF x, r

LEMMA TileSize == tile_ranks(Layout) \in Nat \ {0}
<1>1. Layout[1] \in Nat \ {0} /\ Layout[2] \in Nat \ {0}
  <2>1. Layout \in Seq(Nat \ {0}) /\ Len(Layout) = 2
    BY HandshakeAssumption
  <2> QED
    BY <2>1
<1>2. \A i, j \in Nat \ {0} : i * j \in Nat \ {0}
  OBVIOUS
<1> QED
  BY <1>1, <1>2 DEF tile_ranks

\* On the cubed sphere the first tile compiles, each of its ranks for five others.
LEMMA Compilers ==
  ASSUME Cube
  PROVE  /\ \A r \in Ranks : /\ compiling_equivalent(r) \in Ranks
                             /\ is_compiling(compiling_equivalent(r))
         /\ \A r \in Ranks : is_compiling(r) => compiling_equivalent(r) = r
         /\ \A r \in Ranks, n \in 1..5 : is_compiling(r) =>
              /\ Told(r, n) \in Ranks /\ ~ is_compiling(Told(r, n))
              /\ compiling_equivalent(Told(r, n)) = r
         /\ \A r \in Ranks : ~ is_compiling(r) =>
              \E n \in 1..5 : r = Told(compiling_equivalent(r), n)
         /\ \A r \in Ranks, n, m \in 1..5 : Told(r, n) = Told(r, m) => n = m
         /\ Size > 1
<1> DEFINE t == tile_ranks(Layout)
<1>1. t \in Nat \ {0}
  BY TileSize
<1>2. Size = t * 6
  BY DEF Size
<1>3. tile_size = t
  <2> HIDE DEF t
  <2> QED
    BY <1>1, <1>2 DEF tile_size
<1>4. \A r : compiling_equivalent(r) = r % t
  BY DEF compiling_equivalent
<1>5. \A r, n : Told(r, n) = n * t + r
  BY <1>3 DEF Told
<1> HIDE DEF t
<1>6. \A r \in Ranks : r \in Nat /\ r < t * 6 /\ (is_compiling(r) <=> r < t)
  BY <1>1, <1>2 DEF Ranks, is_compiling
<1>7. \A r \in Nat : r < t * 6 => r \in Ranks
  BY <1>1, <1>2 DEF Ranks
<1>8. ASSUME NEW r \in Ranks
      PROVE  compiling_equivalent(r) \in Ranks /\ is_compiling(compiling_equivalent(r))
  <2>1. r % t \in 0..(t - 1)
    BY <1>1, <1>6, Division
  <2>2. r % t \in Nat /\ r % t < t /\ r % t < t * 6
    BY <1>1, <2>1
  <2> QED
    BY <1>4, <1>6, <1>7, <2>2
<1>9. ASSUME NEW r \in Ranks, is_compiling(r) PROVE compiling_equivalent(r) = r
  BY <1>1, <1>4, <1>6, <1>9, Division
<1>10. ASSUME NEW r \in Ranks, NEW n \in 1..5, is_compiling(r)
       PROVE  /\ Told(r, n) \in Ranks /\ ~ is_compiling(Told(r, n))
              /\ compiling_equivalent(Told(r, n)) = r
  <2>1. r \in Nat /\ r < t /\ n \in Nat
    BY <1>6, <1>10
  <2>2. n * t + r \in Nat /\ n * t + r < t * 6 /\ ~ n * t + r < t
    <3>1. n = 1 \/ n = 2 \/ n = 3 \/ n = 4 \/ n = 5
      OBVIOUS
    <3> QED
      BY <1>1, <2>1, <3>1
  <2>3. (n * t + r) % t = r
    BY <1>1, <2>1, Remainder
  <2> QED
    BY <1>4, <1>5, <1>6, <1>7, <2>2, <2>3
<1>11. ASSUME NEW r \in Ranks, ~ is_compiling(r)
       PROVE  \E n \in 1..5 : r = Told(compiling_equivalent(r), n)
  <2> DEFINE n == r \div t
             c == r % t
  <2>1. n \in Nat /\ c \in 0..(t - 1) /\ r = n * t + c
    BY <1>1, <1>6, Division
  <2>2. r \in Nat /\ r < t * 6 /\ ~ r < t
    BY <1>6, <1>11
  <2>3. r = Told(compiling_equivalent(r), n)
    BY <1>4, <1>5, <2>1
  <2> HIDE DEF n, c
  <2>4. n # 0
    BY <1>1, <2>1, <2>2
  <2>5. n < 6
    <3> SUFFICES ASSUME n >= 6 PROVE FALSE
      BY <2>1
    <3>1. n * t >= 6 * t
      <4>1. n - 6 \in Nat
        BY <2>1
      <4>2. (n - 6) * t \in Nat
        BY <1>1, <4>1
      <4>3. n * t = (n - 6) * t + 6 * t
        BY <1>1, <2>1
      <4> QED
        BY <1>1, <4>2, <4>3
    <3> QED
      BY <1>1, <2>1, <2>2, <3>1
  <2>6. n \in 1..5
    BY <2>1, <2>4, <2>5
  <2> QED
    BY <2>3, <2>6
<1>12. ASSUME NEW r \in Ranks, NEW n \in 1..5, NEW m \in 1..5, Told(r, n) = Told(r, m)
       PROVE  n = m
  <2>1. n * t + r = m * t + r /\ r \in Nat
    BY <1>5, <1>6, <1>12
  <2>2. (n - m) * t = 0
    BY <1>1, <2>1
  <2> QED
    BY <1>1, <2>2
<1>13. Size > 1
  BY <1>1, <1>2
<1> QED
  BY <1>8, <1>9, <1>10, <1>11, <1>12, <1>13

\* On a tile alone, a rank waits for itself.
LEMMA NoCompilers ==
  ASSUME ~ Cube, NEW r \in Ranks
  PROVE  compiling_equivalent(r) = r
<1> DEFINE t == tile_ranks(Layout)
<1>1. t \in Nat \ {0}
  BY TileSize
<1>2. Size = t * 1
  BY DEF Size
<1>3. compiling_equivalent(r) = r % t
  BY DEF compiling_equivalent
<1> HIDE DEF t
<1>4. r \in Nat /\ r < t
  BY <1>1, <1>2 DEF Ranks
<1> QED
  BY <1>1, <1>3, <1>4, Division

-----------------------------------------------------------------------------
(* The inductive invariant.                                                *)

\* What the actions need to be defined: the domains and the types.
TypesOK ==
  /\ program \in Seq(Ops)
  /\ Cube \/ \A p \in 1..Len(program) : program[p] # "start"
  /\ pos \in [Ranks -> Nat \ {0}]
  /\ stage \in [Ranks -> {"ready", "heard", "telling", "sending"}]
  /\ other \in [Ranks -> 1..5]
  /\ built \in [Ranks -> Nat]
  /\ DOMAIN heard = Ranks
  /\ DOMAIN channel = Ranks /\ \A s \in Ranks : DOMAIN channel[s] = Ranks

\* A compiling rank that has built a stencil and not told it to every tile.
IsTelling(r) == stage[r] \in {"telling", "sending"}

RankOK(r) ==
  /\ stage[r] # "ready" => At(r, "build")
  /\ stage[r] = "heard" => ~ is_compiling(r)
  /\ IsTelling(r) => is_compiling(r)
  /\ built[r] = CountUpTo(program, pos[r] - 1, "build") + (IF IsTelling(r) THEN 1 ELSE 0)

StageOK == \A r \in Ranks : RankOK(r)

\* On a tile alone, a rank that does not compile waits for itself, for ever.
AloneOK ==
  Cube \/ \A r \in Ranks : ~ is_compiling(r) => channel[r][r] = <<>> /\ stage[r] # "heard"

\* s has told d about the stencil it is in.
HasTold(s, d) ==
  \E n \in 1..5 : /\ d = Told(s, n)
                  /\ \/ IsTelling(s) /\ n < other[s]
                     \/ stage[s] = "sending" /\ n = other[s]

\* s has sent d the message of place p, d has taken it.
HasSent(s, d, p) == p < pos[s] \/ (p = pos[s] /\ HasTold(s, d))
HasTaken(d, p)   == p < pos[d] \/ (p = pos[d] /\ stage[d] = "heard")

\* The message of place p goes from s to d.
Addressed(s, d, p) ==
  IF program[p] = "build" THEN ~ is_compiling(d) /\ compiling_equivalent(d) = s
                          ELSE d \in Neighbours(s)

Pending(s, d) ==
  {p \in Places(program) : Addressed(s, d, p) /\ HasSent(s, d, p) /\ ~ HasTaken(d, p)}

ChannelOK(s, d) == Holds(program, channel[s][d], Pending(s, d))
ChannelsOK == \A s, d \in Ranks : ChannelOK(s, d)

\* A waiting rank has been told what it has heard, and heard of its stencil.
HeardOK(d) ==
  /\ \A p \in Places(program) : program[p] = "build" /\ HasTaken(d, p) =>
       HasSent(compiling_equivalent(d), d, p)
  /\ stage[d] = "heard" =>
       /\ heard[d] = Done(built[d] + 1)
       /\ built[d] + 1 <= built[compiling_equivalent(d)]

WaitersOK == \A d \in Ranks : ~ is_compiling(d) => HeardOK(d)

IInv ==
  /\ TypesOK
  /\ StageOK
  /\ CompiledFirst
  /\ AloneOK
  /\ Cube => ChannelsOK /\ WaitersOK

-----------------------------------------------------------------------------
(* The progress of a rank.                                                 *)

LEMMA Progress ==
  ASSUME TypesOK, StageOK, NEW r \in Ranks
  PROVE  /\ Len(program) \in Nat /\ pos[r] \in Nat /\ pos[r] > 0 /\ other[r] \in 1..5
         /\ built[r] \in Nat /\ CountUpTo(program, pos[r] - 1, "build") \in Nat
         /\ \A op : At(r, op) => pos[r] \in 1..Len(program) /\ program[pos[r]] = op
         /\ \A op : op \in {"build", "start"} /\ At(r, op) => pos[r] \in Places(program)
         /\ At(r, "build") =>
              CountUpTo(program, pos[r], "build") = CountUpTo(program, pos[r] - 1, "build") + 1
<1>1. /\ Len(program) \in Nat /\ pos[r] \in Nat /\ pos[r] > 0 /\ other[r] \in 1..5
      /\ built[r] \in Nat
  BY DEF TypesOK
<1>2. pos[r] - 1 \in Nat
  BY <1>1
<1>3. CountUpTo(program, pos[r] - 1, "build") \in Nat
  BY <1>2, CountFinite
<1>4. \A op : At(r, op) => pos[r] \in 1..Len(program) /\ program[pos[r]] = op
  BY <1>1 DEF At, Finished
<1>5. At(r, "build") =>
        CountUpTo(program, pos[r], "build") = CountUpTo(program, pos[r] - 1, "build") + 1
  BY <1>1, <1>4, CountOne
<1> QED
  BY <1>1, <1>3, <1>4, <1>5 DEF Places

\* The rank's own state after a step that returns from the operation.
LEMMA Returns ==
  ASSUME TypesOK, StageOK, NEW r \in Ranks, Return(r), UNCHANGED program,
         NEW op \in Ops, At(r, op),
         built'[r] = CountUpTo(program, pos[r] - 1, "build") + (IF op = "build" THEN 1 ELSE 0),
         built' \in [Ranks -> Nat]
  PROVE  RankOK(r)' /\ pos' \in [Ranks -> Nat \ {0}]
         /\ stage' \in [Ranks -> {"ready", "heard", "telling", "sending"}]
<1>1. pos'[r] = pos[r] + 1 /\ stage'[r] = "ready"
  BY DEF Return, TypesOK
<1>2. pos' \in [Ranks -> Nat \ {0}] /\ stage' \in [Ranks -> {"ready", "heard", "telling", "sending"}]
  BY DEF Return, TypesOK
<1>3. pos[r] \in Nat /\ pos[r] > 0 /\ program[pos[r]] = op
  BY Progress
<1>4. CountUpTo(program, pos[r], "build") = built'[r]
  <2>1. CountUpTo(program, pos[r] - 1, "build") \in Nat
    BY Progress
  <2>2. CountUpTo(program, pos[r], "build") =
          IF program[pos[r]] = "build" THEN CountUpTo(program, pos[r] - 1, "build") + 1
                                       ELSE CountUpTo(program, pos[r] - 1, "build")
    BY <1>3, CountOne
  <2> QED
    BY <1>3, <2>1, <2>2
<1>5. pos'[r] - 1 = pos[r]
  BY <1>1, <1>3
<1>6. CountUpTo(program, pos[r], "build") \in Nat
  BY <1>3, CountFinite
<1>7. CountUpTo(program', pos'[r] - 1, "build") = built'[r] /\ built'[r] \in Nat
  BY <1>4, <1>5, <1>6
<1>8. ~ IsTelling(r)'
  BY <1>1 DEF IsTelling
<1> QED
  BY <1>1, <1>2, <1>7, <1>8 DEF RankOK

\* A rank that makes no step stays as it is.
LEMMA Stays ==
  ASSUME NEW q \in Ranks, RankOK(q), UNCHANGED <<program, pos[q], stage[q], built[q]>>
  PROVE  RankOK(q)'
  BY DEF RankOK, At, Finished, IsTelling

-----------------------------------------------------------------------------
(* Every step keeps the types and the progress of the ranks.               *)

LEMMA BlockStage ==
  ASSUME TypesOK, StageOK, AloneOK, NEW r \in Ranks, Block(r)
  PROVE  TypesOK' /\ StageOK' /\ AloneOK' /\ Cube
<1>1. Cube
  BY NoCompilers DEF AloneOK, Block
<1>2. TypesOK'
  BY DEF TypesOK, Block
<1>3. ASSUME NEW q \in Ranks PROVE RankOK(q)'
  <2>1. CASE q = r
    <3>1. stage'[r] = "heard" /\ stage[r] = "ready"
      BY DEF Block, TypesOK
    <3>2. RankOK(r)
      BY DEF StageOK
    <3> QED
      BY <2>1, <3>1, <3>2 DEF RankOK, IsTelling, Block, At, Finished
  <2>2. CASE q # r
    <3>1. UNCHANGED <<program, pos[q], stage[q], built[q]>>
      BY <2>2 DEF Block, TypesOK
    <3> QED
      BY <3>1, Stays DEF StageOK
  <2> QED
    BY <2>1, <2>2
<1> QED
  BY <1>1, <1>2, <1>3 DEF StageOK, AloneOK

LEMMA ConstructStage ==
  ASSUME TypesOK, StageOK, AloneOK, NEW r \in Ranks, Construct(r)
  PROVE  TypesOK' /\ StageOK' /\ AloneOK'
<1>1. UNCHANGED <<program, heard, channel>> /\ built' = [built EXCEPT ![r] = @ + 1]
      /\ At(r, "build") /\ stage[r] \in {"ready", "heard"}
  BY DEF Construct
<1>2. built' \in [Ranks -> Nat] /\ built'[r] = built[r] + 1
      /\ \A q \in Ranks : q # r => built'[q] = built[q]
  BY <1>1 DEF TypesOK
<1>3. built'[r] = CountUpTo(program, pos[r] - 1, "build") + 1
  <2>1. RankOK(r) /\ CountUpTo(program, pos[r] - 1, "build") \in Nat
    BY Progress DEF StageOK
  <2> QED
    BY <1>1, <1>2, <2>1 DEF RankOK, IsTelling
<1>4. CASE is_compiling(r) /\ Size > 1
  <2>1. stage' = [stage EXCEPT ![r] = "telling"] /\ other' = [other EXCEPT ![r] = 1]
        /\ UNCHANGED pos
    BY <1>4 DEF Construct
  <2>2. TypesOK'
    BY <1>1, <1>2, <2>1 DEF TypesOK
  <2>3. stage'[r] = "telling" /\ \A q \in Ranks : q # r => stage'[q] = stage[q]
    BY <2>1 DEF TypesOK
  <2>4. RankOK(r)'
    BY <1>1, <1>3, <1>4, <2>1, <2>3 DEF RankOK, IsTelling, At, Finished
  <2>5. ASSUME NEW q \in Ranks, q # r PROVE RankOK(q)'
    <3>1. UNCHANGED <<program, pos[q], stage[q], built[q]>>
      BY <1>1, <1>2, <2>1, <2>3, <2>5
    <3> QED
      BY <3>1, Stays DEF StageOK
  <2>6. AloneOK'
    BY <1>1, <2>3 DEF AloneOK
  <2> QED
    BY <2>2, <2>4, <2>5, <2>6 DEF StageOK
<1>5. CASE ~ (is_compiling(r) /\ Size > 1)
  <2>1. Return(r) /\ UNCHANGED other
    BY <1>5 DEF Construct
  <2>2. /\ RankOK(r)' /\ pos' \in [Ranks -> Nat \ {0}]
        /\ stage' \in [Ranks -> {"ready", "heard", "telling", "sending"}]
    BY <1>1, <1>2, <1>3, <2>1, Returns DEF Ops
  <2>3. TypesOK'
    BY <1>1, <1>2, <2>1, <2>2 DEF TypesOK
  <2>4. stage'[r] = "ready" /\ \A q \in Ranks : q # r => stage'[q] = stage[q] /\ pos'[q] = pos[q]
    BY <2>1 DEF TypesOK, Return
  <2>5. ASSUME NEW q \in Ranks, q # r PROVE RankOK(q)'
    <3>1. UNCHANGED <<program, pos[q], stage[q], built[q]>>
      BY <1>1, <1>2, <2>4, <2>5
    <3> QED
      BY <3>1, Stays DEF StageOK
  <2>6. AloneOK'
    BY <1>1, <2>4 DEF AloneOK
  <2> QED
    BY <2>2, <2>3, <2>5, <2>6 DEF StageOK
<1> QED
  BY <1>4, <1>5

LEMMA TellStage ==
  ASSUME TypesOK, StageOK, AloneOK, NEW r \in Ranks, Tell(r)
  PROVE  TypesOK' /\ StageOK' /\ AloneOK'
<1>1. UNCHANGED <<program, pos, other, built, heard>> /\ stage[r] = "telling"
      /\ stage' = [stage EXCEPT ![r] = "sending"]
      /\ channel' = [channel EXCEPT ![r][Told(r, other[r])] = Append(@, Done(built[r]))]
  BY DEF Tell
<1>2. stage'[r] = "sending" /\ \A q \in Ranks : q # r => stage'[q] = stage[q]
  BY <1>1 DEF TypesOK
<1>3. DOMAIN channel' = Ranks /\ \A s \in Ranks : DOMAIN channel'[s] = Ranks
  BY <1>1 DEF TypesOK
<1>4. TypesOK'
  BY <1>1, <1>3 DEF TypesOK
<1>5. RankOK(r)
  BY DEF StageOK
<1>6. RankOK(r)'
  BY <1>1, <1>2, <1>5 DEF RankOK, IsTelling, At, Finished
<1>7. ASSUME NEW q \in Ranks, q # r PROVE RankOK(q)'
  <2>1. UNCHANGED <<program, pos[q], stage[q], built[q]>>
    BY <1>1, <1>2, <1>7
  <2> QED
    BY <2>1, Stays DEF StageOK
<1>8. AloneOK'
  <2>1. is_compiling(r)
    BY <1>1, <1>5 DEF RankOK, IsTelling
  <2>2. \A q \in Ranks : q # r => channel'[q] = channel[q]
    BY <1>1 DEF TypesOK
  <2> QED
    BY <1>2, <2>1, <2>2 DEF AloneOK
<1> QED
  BY <1>4, <1>6, <1>7, <1>8 DEF StageOK

LEMMA SendReturnsStage ==
  ASSUME TypesOK, StageOK, AloneOK, NEW r \in Ranks, SendReturns(r)
  PROVE  TypesOK' /\ StageOK' /\ AloneOK'
<1>1. UNCHANGED <<program, built, heard, channel>> /\ stage[r] = "sending"
  BY DEF SendReturns
<1>2. RankOK(r) /\ other[r] \in 1..5 /\ CountUpTo(program, pos[r] - 1, "build") \in Nat
  BY Progress DEF StageOK
<1>3. CASE other[r] < 5
  <2>1. stage' = [stage EXCEPT ![r] = "telling"] /\ UNCHANGED pos
        /\ other' = [other EXCEPT ![r] = @ + 1]
    BY <1>3 DEF SendReturns, LastTile
  <2>2. other' \in [Ranks -> 1..5]
    <3>1. other[r] + 1 \in 1..5
      BY <1>2, <1>3
    <3> QED
      BY <2>1, <3>1 DEF TypesOK
  <2>3. TypesOK'
    BY <1>1, <2>1, <2>2 DEF TypesOK
  <2>4. stage'[r] = "telling" /\ \A q \in Ranks : q # r => stage'[q] = stage[q]
    BY <2>1 DEF TypesOK
  <2>5. RankOK(r)'
    BY <1>1, <1>2, <2>1, <2>4 DEF RankOK, IsTelling, At, Finished
  <2>6. ASSUME NEW q \in Ranks, q # r PROVE RankOK(q)'
    <3>1. UNCHANGED <<program, pos[q], stage[q], built[q]>>
      BY <1>1, <2>1, <2>4, <2>6
    <3> QED
      BY <3>1, Stays DEF StageOK
  <2>7. AloneOK'
    BY <1>1, <2>4 DEF AloneOK
  <2> QED
    BY <2>3, <2>5, <2>6, <2>7 DEF StageOK
<1>4. CASE ~ other[r] < 5
  <2>1. Return(r) /\ UNCHANGED other
    BY <1>4 DEF SendReturns, LastTile
  <2>2. At(r, "build") /\ built[r] = CountUpTo(program, pos[r] - 1, "build") + 1
    BY <1>1, <1>2 DEF RankOK, IsTelling
  <2>3. built' = built /\ built' \in [Ranks -> Nat]
    BY <1>1 DEF TypesOK
  <2>4. /\ RankOK(r)' /\ pos' \in [Ranks -> Nat \ {0}]
        /\ stage' \in [Ranks -> {"ready", "heard", "telling", "sending"}]
    BY <1>1, <2>1, <2>2, <2>3, Returns DEF Ops
  <2>5. TypesOK'
    BY <1>1, <2>1, <2>3, <2>4 DEF TypesOK
  <2>6. stage'[r] = "ready" /\ \A q \in Ranks : q # r => stage'[q] = stage[q] /\ pos'[q] = pos[q]
    BY <2>1 DEF TypesOK, Return
  <2>7. ASSUME NEW q \in Ranks, q # r PROVE RankOK(q)'
    <3>1. UNCHANGED <<program, pos[q], stage[q], built[q]>>
      BY <1>1, <2>6, <2>7
    <3> QED
      BY <3>1, Stays DEF StageOK
  <2>8. AloneOK'
    BY <1>1, <2>6 DEF AloneOK
  <2> QED
    BY <2>4, <2>5, <2>7, <2>8 DEF StageOK
<1> QED
  BY <1>3, <1>4

\* The two halves of an exchange.
LEMMA ExchangeStage ==
  ASSUME TypesOK, StageOK, AloneOK, NEW r \in Ranks, StartExchange(r) \/ WaitExchange(r)
  PROVE  TypesOK' /\ StageOK' /\ AloneOK'
<1>1. /\ UNCHANGED <<program, other, built, heard>> /\ Return(r)
      /\ (At(r, "start") /\ StartExchange(r)) \/ (At(r, "wait") /\ UNCHANGED channel)
  BY DEF StartExchange, WaitExchange
<1>2. PICK op \in {"start", "wait"} : At(r, op)
  BY <1>1
<1>3. stage[r] = "ready" /\ built[r] = CountUpTo(program, pos[r] - 1, "build") + 0
  <2>1. RankOK(r) /\ CountUpTo(program, pos[r] - 1, "build") \in Nat
    BY Progress DEF StageOK
  <2>2. ~ At(r, "build")
    BY <1>2 DEF At
  <2>3. stage[r] = "ready"
    BY <2>1, <2>2 DEF RankOK
  <2> QED
    BY <2>1, <2>3 DEF RankOK, IsTelling
<1>4. built' = built /\ built' \in [Ranks -> Nat]
  BY <1>1 DEF TypesOK
<1>5. /\ RankOK(r)' /\ pos' \in [Ranks -> Nat \ {0}]
      /\ stage' \in [Ranks -> {"ready", "heard", "telling", "sending"}]
  <2>1. op \in Ops /\ op # "build"
    BY DEF Ops
  <2> QED
    BY <1>1, <1>2, <1>3, <1>4, <2>1, Returns
<1>6. DOMAIN channel' = Ranks /\ \A s \in Ranks : DOMAIN channel'[s] = Ranks
  <2>1. CASE StartExchange(r)
    BY <2>1 DEF StartExchange
  <2>2. CASE UNCHANGED channel
    BY <2>2 DEF TypesOK
  <2> QED
    BY <1>1, <2>1, <2>2
<1>7. TypesOK'
  BY <1>1, <1>4, <1>5, <1>6 DEF TypesOK
<1>8. stage'[r] = "ready" /\ \A q \in Ranks : q # r => stage'[q] = stage[q] /\ pos'[q] = pos[q]
  BY <1>1 DEF TypesOK, Return
<1>9. ASSUME NEW q \in Ranks, q # r PROVE RankOK(q)'
  <2>1. UNCHANGED <<program, pos[q], stage[q], built[q]>>
    BY <1>1, <1>8, <1>9
  <2> QED
    BY <2>1, Stays DEF StageOK
<1>10. AloneOK'
  <2>1. Cube \/ UNCHANGED channel
    <3>1. At(r, "start") => Cube
      <4>1. At(r, "start") => pos[r] \in 1..Len(program) /\ program[pos[r]] = "start"
        BY Progress
      <4> QED
        BY <4>1 DEF TypesOK
    <3> QED
      BY <1>1, <3>1
  <2> QED
    BY <1>8, <2>1 DEF AloneOK
<1> QED
  BY <1>5, <1>7, <1>9, <1>10 DEF StageOK

-----------------------------------------------------------------------------
(* Every step keeps the channels and what the waiting ranks have heard.    *)

\* Every message that waits for compilation is addressed to the rank that waits.
LEMMA WaitIsAddressed ==
  ASSUME NEW d \in Ranks, ~ is_compiling(d), NEW p \in Places(program), program[p] = "build"
  PROVE  Addressed(compiling_equivalent(d), d, p)
  BY DEF Addressed

\* A step that moves no message.
LEMMA Quiet ==
  ASSUME TypesOK, Cube, ChannelsOK, WaitersOK, UNCHANGED <<program, channel, heard>>,
         \A s, d \in Ranks, p \in Places(program) : Addressed(s, d, p) =>
            (HasSent(s, d, p)' <=> HasSent(s, d, p)) /\ (HasTaken(d, p)' <=> HasTaken(d, p)),
         \A d \in Ranks : stage'[d] = "heard" => stage[d] = "heard" /\ built'[d] = built[d],
         \A d \in Ranks : built'[d] \in Nat /\ built[d] <= built'[d]
  PROVE  ChannelsOK' /\ WaitersOK'
<1>1. ASSUME NEW s \in Ranks, NEW d \in Ranks PROVE ChannelOK(s, d)'
  <2>1. \A p : Addressed(s, d, p)' <=> Addressed(s, d, p)
    BY DEF Addressed
  <2>2. Pending(s, d)' = Pending(s, d)
    BY <2>1 DEF Pending
  <2> QED
    BY <2>2 DEF ChannelsOK, ChannelOK
<1>2. ASSUME NEW d \in Ranks, ~ is_compiling(d) PROVE HeardOK(d)'
  <2> DEFINE c == compiling_equivalent(d)
  <2>1. c \in Ranks
    BY Compilers
  <2>2. HeardOK(d)
    BY <1>2 DEF WaitersOK
  <2>3. ASSUME NEW p \in Places(program), program[p] = "build", HasTaken(d, p)'
        PROVE  HasSent(c, d, p)'
    <3>1. Addressed(c, d, p)
      BY <1>2, <2>3, WaitIsAddressed
    <3>2. HasTaken(d, p)
      BY <2>1, <2>3, <3>1
    <3>3. HasSent(c, d, p)
      BY <2>2, <2>3, <3>2 DEF HeardOK
    <3> QED
      BY <2>1, <3>1, <3>3
  <2>4. ASSUME stage'[d] = "heard"
        PROVE  heard'[d] = Done(built'[d] + 1) /\ built'[d] + 1 <= built'[c]
    <3>1. heard[d] = Done(built[d] + 1) /\ built[d] + 1 <= built[c] /\ built'[d] = built[d]
      BY <2>2, <2>4 DEF HeardOK
    <3>2. built[d] \in Nat /\ built[c] \in Nat /\ built'[c] \in Nat /\ built[c] <= built'[c]
      BY <2>1 DEF TypesOK
    <3> QED
      BY <3>1, <3>2
  <2> QED
    BY <2>3, <2>4 DEF HeardOK
<1> QED
  BY <1>1, <1>2 DEF ChannelsOK, WaitersOK

\* What a rank has told changes with its own stage only.
LEMMA TellsNobody ==
  ASSUME NEW s \in Ranks, ~ IsTelling(s)
  PROVE  \A d, p : HasSent(s, d, p) <=> p < pos[s]
  BY DEF HasSent, HasTold, IsTelling

LEMMA OthersStay ==
  ASSUME NEW q \in Ranks, UNCHANGED <<pos[q], stage[q], other[q]>>
  PROVE  /\ \A d, p : HasSent(q, d, p)' <=> HasSent(q, d, p)
         /\ \A p : HasTaken(q, p)' <=> HasTaken(q, p)
  BY DEF HasSent, HasTold, HasTaken, IsTelling

LEMMA ConstructChannels ==
  ASSUME TypesOK, StageOK, Cube, ChannelsOK, WaitersOK, TypesOK', StageOK',
         NEW r \in Ranks, Construct(r)
  PROVE  ChannelsOK' /\ WaitersOK'
<1>1. UNCHANGED <<program, heard, channel>> /\ built' = [built EXCEPT ![r] = @ + 1]
      /\ At(r, "build") /\ stage[r] = IF is_compiling(r) THEN "ready" ELSE "heard"
  BY DEF Construct
<1>2. /\ pos[r] \in Nat /\ program[pos[r]] = "build" /\ Size > 1 /\ RankOK(r)
  BY <1>1, Progress, Compilers DEF StageOK
<1>3. stage'[r] # "heard"
      /\ \A q \in Ranks : q # r => UNCHANGED <<pos[q], stage[q], other[q], built[q]>>
  <2>1. CASE is_compiling(r)
    BY <1>2, <2>1 DEF Construct, TypesOK
  <2>2. CASE ~ is_compiling(r)
    BY <1>2, <2>2 DEF Construct, Return, TypesOK
  <2> QED
    BY <2>1, <2>2
<1>4. \A d \in Ranks : stage'[d] = "heard" => stage[d] = "heard" /\ built'[d] = built[d]
  BY <1>3
<1>5. \A d \in Ranks : built'[d] \in Nat /\ built[d] <= built'[d]
  BY <1>1 DEF TypesOK
<1>6. ASSUME NEW s \in Ranks, NEW d \in Ranks, NEW p \in Places(program), Addressed(s, d, p)
      PROVE  (HasSent(s, d, p)' <=> HasSent(s, d, p)) /\ (HasTaken(d, p)' <=> HasTaken(d, p))
  <2>1. p \in Nat
    BY DEF Places
  <2>2. CASE is_compiling(r)
    <3>1. pos' = pos /\ stage'[r] = "telling" /\ other'[r] = 1 /\ stage[r] = "ready"
      BY <1>1, <1>2, <2>2 DEF Construct, TypesOK
    <3>2. HasSent(r, d, p)' <=> HasSent(r, d, p)
      <4>1. ~ HasTold(r, d)' /\ ~ HasTold(r, d)
        BY <3>1 DEF HasTold, IsTelling
      <4> QED
        BY <3>1, <4>1 DEF HasSent
    <3>3. HasTaken(r, p)' <=> HasTaken(r, p)
      BY <3>1 DEF HasTaken
    <3> QED
      BY <1>3, <3>2, <3>3, OthersStay
  <2>3. CASE ~ is_compiling(r)
    <3>1. pos'[r] = pos[r] + 1 /\ stage'[r] = "ready" /\ stage[r] = "heard"
      BY <1>1, <2>3 DEF Construct, Return, TypesOK
    <3>2. s = r => (HasSent(s, d, p)' <=> HasSent(s, d, p))
      <4> SUFFICES ASSUME s = r PROVE HasSent(r, d, p)' <=> HasSent(r, d, p)
        OBVIOUS
      <4>1. p # pos[r]
        BY <1>2, <1>6, <2>3, Compilers DEF Addressed
      <4>2. ~ HasTold(r, d)' /\ ~ HasTold(r, d)
        BY <3>1 DEF HasTold, IsTelling
      <4> QED
        BY <1>2, <2>1, <3>1, <4>1, <4>2 DEF HasSent
    <3>3. HasTaken(r, p)' <=> HasTaken(r, p)
      BY <1>2, <2>1, <3>1 DEF HasTaken
    <3> QED
      BY <1>3, <3>2, <3>3, OthersStay
  <2> QED
    BY <2>2, <2>3
<1> QED
  BY <1>1, <1>4, <1>5, <1>6, Quiet

LEMMA SendReturnsChannels ==
  ASSUME TypesOK, StageOK, Cube, ChannelsOK, WaitersOK, TypesOK', StageOK',
         NEW r \in Ranks, SendReturns(r)
  PROVE  ChannelsOK' /\ WaitersOK'
<1>1. UNCHANGED <<program, built, heard, channel>> /\ stage[r] = "sending"
  BY DEF SendReturns
<1>2. RankOK(r)
  BY DEF StageOK
<1>3. is_compiling(r) /\ At(r, "build")
  BY <1>1, <1>2 DEF RankOK, IsTelling
<1>4. pos[r] \in Nat /\ program[pos[r]] = "build" /\ other[r] \in 1..5
  BY <1>3, Progress
<1>5. stage'[r] # "heard" /\ \A q \in Ranks : q # r => UNCHANGED <<pos[q], stage[q], other[q]>>
  BY DEF SendReturns, Return, TypesOK
<1>6. \A d \in Ranks : stage'[d] = "heard" => stage[d] = "heard" /\ built'[d] = built[d]
  BY <1>1, <1>5
<1>7. \A d \in Ranks : built'[d] \in Nat /\ built[d] <= built'[d]
  BY <1>1 DEF TypesOK
<1>8. ASSUME NEW s \in Ranks, NEW d \in Ranks, NEW p \in Places(program), Addressed(s, d, p)
      PROVE  (HasSent(s, d, p)' <=> HasSent(s, d, p)) /\ (HasTaken(d, p)' <=> HasTaken(d, p))
  <2>1. p \in Nat
    BY DEF Places
  <2>2. CASE other[r] < 5
    <3>1. pos' = pos /\ stage'[r] = "telling" /\ other'[r] = other[r] + 1
      BY <2>2 DEF SendReturns, LastTile, TypesOK
    <3>2. HasTold(r, d)' <=> HasTold(r, d)
      <4>1. \A n \in 1..5 : n < other[r] + 1 <=> n < other[r] \/ n = other[r]
        BY <1>4
      <4> QED
        BY <1>1, <3>1, <4>1 DEF HasTold, IsTelling
    <3>3. HasSent(r, d, p)' <=> HasSent(r, d, p)
      BY <3>1, <3>2 DEF HasSent
    <3>4. HasTaken(r, p)' <=> HasTaken(r, p)
      BY <1>1, <3>1 DEF HasTaken
    <3> QED
      BY <1>5, <3>3, <3>4, OthersStay
  <2>3. CASE ~ other[r] < 5
    <3>1. pos'[r] = pos[r] + 1 /\ stage'[r] = "ready" /\ other[r] = 5
      BY <1>4, <2>3 DEF SendReturns, LastTile, Return, TypesOK
    <3>2. s = r => (HasSent(s, d, p)' <=> HasSent(s, d, p))
      <4> SUFFICES ASSUME s = r PROVE HasSent(r, d, p)' <=> HasSent(r, d, p)
        OBVIOUS
      <4>1. ~ HasTold(r, d)'
        BY <3>1 DEF HasTold, IsTelling
      <4>2. p = pos[r] => HasTold(r, d)
        <5> SUFFICES ASSUME p = pos[r] PROVE HasTold(r, d)
          OBVIOUS
        <5>1. ~ is_compiling(d) /\ compiling_equivalent(d) = r
          BY <1>4, <1>8 DEF Addressed
        <5>2. PICK n \in 1..5 : d = Told(r, n)
          BY <5>1, Compilers
        <5>3. n < 5 \/ n = 5
          OBVIOUS
        <5> QED
          BY <1>1, <3>1, <5>2, <5>3 DEF HasTold, IsTelling
      <4> QED
        BY <1>4, <2>1, <3>1, <4>1, <4>2 DEF HasSent
    <3>3. d = r => (HasTaken(d, p)' <=> HasTaken(d, p))
      <4> SUFFICES ASSUME d = r PROVE HasTaken(r, p)' <=> HasTaken(r, p)
        OBVIOUS
      <4>1. p # pos[r]
        BY <1>3, <1>4, <1>8 DEF Addressed
      <4> QED
        BY <1>1, <1>4, <2>1, <3>1, <4>1 DEF HasTaken
    <3> QED
      BY <1>5, <3>2, <3>3, OthersStay
  <2> QED
    BY <2>2, <2>3
<1> QED
  BY <1>1, <1>6, <1>7, <1>8, Quiet

LEMMA WaitExchangeChannels ==
  ASSUME TypesOK, StageOK, Cube, ChannelsOK, WaitersOK, NEW r \in Ranks, WaitExchange(r)
  PROVE  ChannelsOK' /\ WaitersOK'
<1>1. UNCHANGED <<program, built, heard, channel, other>> /\ Return(r) /\ At(r, "wait")
  BY DEF WaitExchange
<1>2. pos[r] \in Nat /\ program[pos[r]] = "wait" /\ RankOK(r)
  BY <1>1, Progress DEF StageOK
<1>3. stage[r] = "ready"
  BY <1>1, <1>2 DEF RankOK, At
<1>4. pos'[r] = pos[r] + 1 /\ stage'[r] = "ready"
      /\ \A q \in Ranks : q # r => UNCHANGED <<pos[q], stage[q], other[q]>>
  BY <1>1 DEF Return, TypesOK
<1>5. \A d \in Ranks : stage'[d] = "heard" => stage[d] = "heard" /\ built'[d] = built[d]
  BY <1>1, <1>4
<1>6. \A d \in Ranks : built'[d] \in Nat /\ built[d] <= built'[d]
  BY <1>1 DEF TypesOK
<1>7. ASSUME NEW s \in Ranks, NEW d \in Ranks, NEW p \in Places(program), Addressed(s, d, p)
      PROVE  (HasSent(s, d, p)' <=> HasSent(s, d, p)) /\ (HasTaken(d, p)' <=> HasTaken(d, p))
  <2>1. p \in Nat /\ p # pos[r]
    BY <1>2 DEF Places
  <2>2. HasSent(r, d, p)' <=> HasSent(r, d, p)
    <3>1. ~ HasTold(r, d)' /\ ~ HasTold(r, d)
      BY <1>3, <1>4 DEF HasTold, IsTelling
    <3> QED
      BY <1>2, <1>4, <2>1, <3>1 DEF HasSent
  <2>3. HasTaken(r, p)' <=> HasTaken(r, p)
    BY <1>2, <1>3, <1>4, <2>1 DEF HasTaken
  <2> QED
    BY <1>4, <2>2, <2>3, OthersStay
<1> QED
  BY <1>1, <1>5, <1>6, <1>7, Quiet

\* A waiting rank takes the message of the stencil it is at.
LEMMA BlockChannels ==
  ASSUME TypesOK, StageOK, Cube, ChannelsOK, WaitersOK, TypesOK', NEW r \in Ranks, Block(r)
  PROVE  ChannelsOK' /\ WaitersOK'
<1> DEFINE c == compiling_equivalent(r)
           place == pos[r]
<1>1. /\ UNCHANGED <<program, pos, other, built>>
      /\ At(r, "build") /\ stage[r] = "ready" /\ ~ is_compiling(r) /\ channel[c][r] # <<>>
      /\ heard' = [heard EXCEPT ![r] = Head(channel[c][r])]
      /\ channel' = [channel EXCEPT ![c][r] = Tail(@)]
      /\ stage' = [stage EXCEPT ![r] = "heard"]
  BY DEF Block
<1>2. /\ place \in Places(program) /\ program[place] = "build" /\ place \in Nat
      /\ Len(program) \in Nat /\ c \in Ranks /\ c # r
  BY <1>1, Progress, Compilers
<1>3. stage'[r] = "heard" /\ \A q \in Ranks : q # r => stage'[q] = stage[q]
  BY <1>1 DEF TypesOK
<1> HIDE DEF c, place
<1>4. \A s, d \in Ranks : \A p : HasSent(s, d, p)' <=> HasSent(s, d, p)
  <2>1. \A d, p : HasSent(r, d, p)' <=> HasSent(r, d, p)
    BY <1>1, <1>3 DEF HasSent, HasTold, IsTelling
  <2> QED
    BY <1>1, <1>3, <2>1, OthersStay
<1>5. \A p : HasTaken(r, p)' <=> HasTaken(r, p) \/ p = place
  BY <1>1, <1>3 DEF HasTaken, place
<1>6. \A d \in Ranks : \A p : d # r => (HasTaken(d, p)' <=> HasTaken(d, p))
  BY <1>1, <1>3, OthersStay
<1>7. \A s, d, p : Addressed(s, d, p)' <=> Addressed(s, d, p)
  BY <1>1 DEF Addressed
<1>8. ChannelOK(c, r)
  BY <1>2 DEF ChannelsOK
<1>9. \A p \in Pending(c, r) : place <= p /\ p \in Nat /\ HasSent(c, r, p)
  <2> TAKE p \in Pending(c, r)
  <2>1. p \in Nat /\ HasSent(c, r, p) /\ ~ HasTaken(r, p)
    BY DEF Pending, Places
  <2> QED
    BY <1>2, <2>1 DEF HasTaken, place
<1>10. HasSent(c, r, place)
  <2>1. Pending(c, r) # {}
    BY <1>1, <1>8, HoldsNothing DEF ChannelOK
  <2>2. PICK p \in Pending(c, r) : TRUE
    BY <2>1
  <2>3. place <= p /\ p \in Nat /\ HasSent(c, r, p)
    BY <1>9
  <2>4. CASE p = place
    BY <2>3, <2>4
  <2>5. CASE place < p
    <3>1. p <= pos[c] /\ pos[c] \in Nat
      BY <1>2, <2>3 DEF HasSent, TypesOK
    <3> QED
      BY <1>2, <2>3, <2>5, <3>1 DEF HasSent
  <2> QED
    BY <1>2, <2>3, <2>4, <2>5
<1>11. Addressed(c, r, place)
  BY <1>1, <1>2, WaitIsAddressed DEF c
<1>12. place \in Pending(c, r)
  <2>1. ~ HasTaken(r, place)
    BY <1>1, <1>2 DEF HasTaken, place
  <2> QED
    BY <1>2, <1>10, <1>11, <2>1 DEF Pending
<1>13. Head(channel[c][r]) = MessageOf(program, place)
       /\ Holds(program, Tail(channel[c][r]), Pending(c, r) \ {place})
  BY <1>2, <1>8, <1>9, <1>12, HoldsHead DEF ChannelOK
<1>14. Pending(c, r)' = Pending(c, r) \ {place}
  BY <1>1, <1>2, <1>4, <1>5, <1>7 DEF Pending
<1>15. ASSUME NEW s \in Ranks, NEW d \in Ranks PROVE ChannelOK(s, d)'
  <2>1. CASE s = c /\ d = r
    <3>1. channel'[c][r] = Tail(channel[c][r])
      BY <1>1, <1>2 DEF TypesOK
    <3> QED
      BY <1>1, <1>13, <1>14, <2>1, <3>1 DEF ChannelOK
  <2>2. CASE ~ (s = c /\ d = r)
    <3>1. channel'[s][d] = channel[s][d]
      BY <1>1, <1>2, <2>2 DEF TypesOK
    <3>2. ASSUME NEW p \in Places(program), Addressed(s, d, p)
          PROVE  HasTaken(d, p)' <=> HasTaken(d, p)
      <4>1. CASE d = r
        <5>1. s # c
          BY <2>2, <4>1
        <5>2. p # place
          BY <1>2, <3>2, <4>1, <5>1 DEF Addressed, c
        <5> QED
          BY <1>5, <4>1, <5>2
      <4> QED
        BY <1>6, <4>1
    <3>3. Pending(s, d)' = Pending(s, d)
      BY <1>1, <1>4, <1>7, <3>2 DEF Pending
    <3> QED
      BY <1>1, <3>1, <3>3 DEF ChannelsOK, ChannelOK
  <2> QED
    BY <2>1, <2>2
<1>16. HeardOK(r)'
  <2>1. HeardOK(r)
    BY <1>1 DEF WaitersOK
  <2>2. ASSUME NEW p \in Places(program), program[p] = "build", HasTaken(r, p)'
        PROVE  HasSent(c, r, p)'
    BY <1>2, <1>4, <1>5, <1>10, <2>1, <2>2 DEF HeardOK, c
  <2>3. heard'[r] = Done(built[r] + 1) /\ built'[r] = built[r]
    <3>1. built[r] + 1 = CountUpTo(program, place, "build")
      <4>1. RankOK(r)
        BY DEF StageOK
      <4>2. built[r] = CountUpTo(program, place - 1, "build") + 0
        BY <1>1, <4>1 DEF RankOK, IsTelling, place
      <4> QED
        BY <1>1, <4>2, Progress DEF place
    <3>2. heard'[r] = MessageOf(program, place)
      BY <1>1, <1>13 DEF TypesOK
    <3> QED
      BY <1>1, <1>2, <3>1, <3>2 DEF MessageOf
  <2>4. built[r] + 1 <= built[c]
    <3>1. built[r] + 1 = CountUpTo(program, place, "build")
      <4>1. RankOK(r)
        BY DEF StageOK
      <4>2. built[r] = CountUpTo(program, place - 1, "build") + 0
        BY <1>1, <4>1 DEF RankOK, IsTelling, place
      <4> QED
        BY <1>1, <4>2, Progress DEF place
    <3>2. RankOK(c) /\ pos[c] \in Nat /\ pos[c] > 0
          /\ built[c] \in Nat /\ CountUpTo(program, pos[c] - 1, "build") \in Nat
      BY <1>2, Progress DEF StageOK
    <3>3. CASE place < pos[c]
      <4>1. pos[c] - 1 \in Nat /\ place <= pos[c] - 1
        BY <1>2, <3>2, <3>3
      <4>2. CountUpTo(program, place, "build") <= CountUpTo(program, pos[c] - 1, "build")
        BY <1>2, <4>1, CountGrows
      <4>3. CountUpTo(program, pos[c] - 1, "build") <= built[c]
        BY <3>2 DEF RankOK
      <4>4. built[r] + 1 \in Nat
        BY Progress
      <4> QED
        BY <3>1, <3>2, <4>2, <4>3, <4>4
    <3>4. CASE place = pos[c] /\ HasTold(c, r)
      <4>1. IsTelling(c)
        BY <3>4 DEF HasTold, IsTelling
      <4>2. built[c] = CountUpTo(program, place - 1, "build") + 1
        BY <3>2, <3>4, <4>1 DEF RankOK
      <4>3. CountUpTo(program, place, "build") = CountUpTo(program, place - 1, "build") + 1
        BY <1>1, Progress DEF place
      <4>4. built[r] + 1 \in Nat
        BY Progress
      <4> QED
        BY <3>1, <4>2, <4>3, <4>4
    <3> QED
      BY <1>10, <3>3, <3>4 DEF HasSent
  <2> QED
    BY <1>1, <2>2, <2>3, <2>4 DEF HeardOK, c
<1>17. ASSUME NEW d \in Ranks, ~ is_compiling(d), d # r PROVE HeardOK(d)'
  <2>1. HeardOK(d) /\ compiling_equivalent(d) \in Ranks
    BY <1>17, Compilers DEF WaitersOK
  <2>2. heard'[d] = heard[d] /\ stage'[d] = stage[d]
    BY <1>1, <1>3, <1>17 DEF TypesOK
  <2> QED
    BY <1>1, <1>4, <1>6, <1>17, <2>1, <2>2 DEF HeardOK
<1> QED
  BY <1>15, <1>16, <1>17 DEF ChannelsOK, WaitersOK

LEMMA TellChannels ==
  ASSUME TypesOK, StageOK, Cube, ChannelsOK, WaitersOK, NEW r \in Ranks, Tell(r)
  PROVE  ChannelsOK' /\ WaitersOK'
<1> DEFINE place == pos[r]
<1>0. PICK t : t = Told(r, other[r])
  OBVIOUS
<1>1. /\ UNCHANGED <<program, pos, other, built, heard>> /\ stage[r] = "telling"
      /\ stage' = [stage EXCEPT ![r] = "sending"]
      /\ channel' = [channel EXCEPT ![r][t] = Append(@, Done(built[r]))]
  BY <1>0 DEF Tell
<1>2. RankOK(r) /\ other[r] \in 1..5
  BY Progress DEF StageOK
<1>3. is_compiling(r) /\ At(r, "build")
      /\ built[r] = CountUpTo(program, place - 1, "build") + 1
  BY <1>1, <1>2 DEF RankOK, IsTelling
<1>4. /\ place \in Places(program) /\ program[place] = "build" /\ place \in Nat
      /\ Len(program) \in Nat /\ MessageOf(program, place) = Done(built[r])
  BY <1>3, Progress DEF MessageOf
<1>5. t \in Ranks /\ ~ is_compiling(t) /\ compiling_equivalent(t) = r
  BY <1>0, <1>2, <1>3, Compilers
<1>6. stage'[r] = "sending" /\ \A q \in Ranks : q # r => stage'[q] = stage[q]
  BY <1>1 DEF TypesOK
<1>7. \A d : HasTold(r, d)' <=> HasTold(r, d) \/ d = t
  BY <1>0, <1>1, <1>2, <1>6 DEF HasTold, IsTelling
<1>8. ~ HasTold(r, t)
  <2> SUFFICES ASSUME HasTold(r, t) PROVE FALSE
    OBVIOUS
  <2>1. PICK n \in 1..5 : t = Told(r, n) /\ n < other[r]
    BY <1>1 DEF HasTold
  <2>2. n = other[r]
    BY <1>0, <1>2, <1>3, <2>1, Compilers
  <2> QED
    BY <1>2, <2>1, <2>2
<1> HIDE DEF place
<1>9. \A d, p : HasSent(r, d, p)' <=> HasSent(r, d, p) \/ (d = t /\ p = place)
  BY <1>1, <1>7 DEF HasSent, place
<1>10. \A s, d \in Ranks : \A p : s # r => (HasSent(s, d, p)' <=> HasSent(s, d, p))
  BY <1>1, <1>6, OthersStay
<1>11. \A d \in Ranks : \A p : HasTaken(d, p)' <=> HasTaken(d, p)
  <2>1. \A p : HasTaken(r, p)' <=> HasTaken(r, p)
    BY <1>1, <1>6 DEF HasTaken
  <2> QED
    BY <1>1, <1>6, <2>1, OthersStay
<1>12. \A s, d, p : Addressed(s, d, p)' <=> Addressed(s, d, p)
  BY <1>1 DEF Addressed
<1>13. ~ HasTaken(t, place)
  <2> SUFFICES ASSUME HasTaken(t, place) PROVE FALSE
    OBVIOUS
  <2>1. HasSent(r, t, place)
    BY <1>4, <1>5 DEF WaitersOK, HeardOK
  <2> QED
    BY <1>4, <1>8, <2>1 DEF HasSent, place
<1>14. Addressed(r, t, place)
  BY <1>4, <1>5 DEF Addressed
<1>15. Pending(r, t)' = Pending(r, t) \union {place}
  BY <1>1, <1>4, <1>5, <1>9, <1>11, <1>12, <1>13, <1>14 DEF Pending
<1>16. \A p \in Pending(r, t) : p < place
  BY <1>8 DEF Pending, HasSent, place
<1>17. ASSUME NEW s \in Ranks, NEW d \in Ranks PROVE ChannelOK(s, d)'
  <2>1. CASE s = r /\ d = t
    <3>1. channel'[r][t] = Append(channel[r][t], MessageOf(program, place))
      BY <1>1, <1>4, <1>5 DEF TypesOK
    <3>2. Holds(program, channel[r][t], Pending(r, t))
      BY <1>5 DEF ChannelsOK, ChannelOK
    <3>3. Holds(program, channel'[r][t], Pending(r, t) \union {place})
      BY <1>4, <1>16, <3>1, <3>2, HoldsAppend
    <3> QED
      BY <1>1, <1>15, <2>1, <3>3 DEF ChannelOK
  <2>2. CASE ~ (s = r /\ d = t)
    <3>1. channel'[s][d] = channel[s][d]
      BY <1>1, <1>5, <2>2 DEF TypesOK
    <3>2. \A p : HasSent(s, d, p)' <=> HasSent(s, d, p)
      BY <1>9, <1>10, <2>2
    <3>3. Pending(s, d)' = Pending(s, d)
      BY <1>1, <1>11, <1>12, <3>2 DEF Pending
    <3> QED
      BY <1>1, <3>1, <3>3 DEF ChannelsOK, ChannelOK
  <2> QED
    BY <2>1, <2>2
<1>18. ASSUME NEW d \in Ranks, ~ is_compiling(d) PROVE HeardOK(d)'
  <2>1. HeardOK(d) /\ compiling_equivalent(d) \in Ranks
    BY <1>18, Compilers DEF WaitersOK
  <2>2. stage'[d] = "heard" => stage[d] = "heard"
    BY <1>6
  <2>3. \A p : HasSent(compiling_equivalent(d), d, p) => HasSent(compiling_equivalent(d), d, p)'
    BY <1>9, <1>10, <2>1
  <2> QED
    BY <1>1, <1>11, <1>18, <2>1, <2>2, <2>3 DEF HeardOK
<1> QED
  BY <1>17, <1>18 DEF ChannelsOK, WaitersOK

\* Both ends of an exchange name it by its place.
LEMMA ExchangeOfPlace ==
  ASSUME TypesOK, StageOK, NEW r \in Ranks, NEW d \in Ranks, At(r, "start")
  PROVE  /\ MessageOf(program, pos[r]) = Halo(CountUpTo(program, pos[r], "start"))
         /\ CountUpTo(program, pos[r], "start") \in Posted(d) <=> HasTaken(d, pos[r])
<1> DEFINE n == CountUpTo(program, pos[r], "start")
           m == CountUpTo(program, pos[d] - 1, "start")
<1>1. /\ pos[r] \in Nat /\ pos[r] > 0 /\ program[pos[r]] = "start"
      /\ pos[d] \in Nat /\ pos[d] > 0 /\ pos[d] - 1 \in Nat /\ RankOK(d)
  <2>1. pos[r] \in Nat /\ pos[r] > 0 /\ program[pos[r]] = "start"
    BY Progress
  <2>2. pos[d] \in Nat /\ pos[d] > 0 /\ RankOK(d)
    BY Progress DEF StageOK
  <2> QED
    BY <2>1, <2>2
<1>2. HasTaken(d, pos[r]) <=> pos[r] < pos[d]
  BY <1>1 DEF HasTaken, RankOK, At
<1>3. /\ n \in Nat /\ m \in Nat /\ CountUpTo(program, pos[r] - 1, "start") \in Nat
      /\ n = CountUpTo(program, pos[r] - 1, "start") + 1
  <2>1. pos[r] - 1 \in Nat
    BY <1>1
  <2> QED
    BY <1>1, <2>1, CountFinite, CountOne
<1>4. pos[d] - 1 < pos[r] <=> m < n
  BY <1>1, CountAt
<1>5. Posted(d) = 1..m
  BY DEF Posted
<1> HIDE DEF n, m
<1>6. n \in 1..m <=> ~ m < n
  BY <1>3
<1>7. pos[d] - 1 < pos[r] <=> ~ pos[r] < pos[d]
  BY <1>1
<1> QED
  BY <1>1, <1>2, <1>4, <1>5, <1>6, <1>7 DEF n, MessageOf

LEMMA StartExchangeChannels ==
  ASSUME TypesOK, StageOK, Cube, ChannelsOK, WaitersOK, NEW r \in Ranks, StartExchange(r)
  PROVE  ChannelsOK' /\ WaitersOK'
<1>0. PICK place : place = pos[r]
  OBVIOUS
<1>1. UNCHANGED <<program, built, heard, other>> /\ Return(r) /\ At(r, "start")
  BY DEF StartExchange
<1>2. /\ place \in Places(program) /\ program[place] = "start" /\ place \in Nat
      /\ Len(program) \in Nat /\ RankOK(r)
  BY <1>0, <1>1, Progress DEF StageOK
<1>3. stage[r] = "ready"
  BY <1>0, <1>2 DEF RankOK, At
<1>4. pos'[r] = place + 1 /\ stage'[r] = "ready"
      /\ \A q \in Ranks : q # r => UNCHANGED <<pos[q], stage[q], other[q]>>
  BY <1>0, <1>1 DEF Return, TypesOK
<1>5. PICK halo : halo = MessageOf(program, place)
  OBVIOUS
<1>6. \A s, d \in Ranks : channel'[s][d] =
        IF d = r /\ s \in Neighbours(r) THEN RemoveFirst(channel[s][d], halo)
        ELSE IF s = r /\ d \in Neighbours(r) /\ ~ HasTaken(d, place)
             THEN Append(channel[s][d], halo)
        ELSE channel[s][d]
  <2>1. halo = Halo(CountUpTo(program, pos[r], "start"))
    BY <1>0, <1>1, <1>5, ExchangeOfPlace
  <2>2. \A d \in Ranks :
          CountUpTo(program, pos[r], "start") \in Posted(d) <=> HasTaken(d, place)
    BY <1>0, <1>1, ExchangeOfPlace
  <2>3. \A s, d \in Ranks : channel'[s][d] =
          IF d = r /\ s \in Neighbours(r) THEN RemoveFirst(channel[s][d], halo)
          ELSE IF (s = r /\ d \in Neighbours(r)) /\ CountUpTo(program, pos[r], "start") \notin Posted(d)
               THEN Append(channel[s][d], halo)
          ELSE channel[s][d]
    BY <2>1 DEF StartExchange
  <2> QED
    BY <2>2, <2>3
<1>7. \A d, p : p \in Nat =>
        /\ HasSent(r, d, p) <=> p < place
        /\ HasSent(r, d, p)' <=> HasSent(r, d, p) \/ p = place
        /\ HasTaken(r, p) <=> p < place
        /\ HasTaken(r, p)' <=> HasTaken(r, p) \/ p = place
  <2>1. \A d : ~ HasTold(r, d)' /\ ~ HasTold(r, d)
    BY <1>3, <1>4 DEF HasTold, IsTelling
  <2>2. \A p \in Nat : p < place + 1 <=> p < place \/ p = place
    BY <1>2
  <2> QED
    BY <1>0, <1>3, <1>4, <2>1, <2>2 DEF HasSent, HasTaken
<1>8. \A q \in Ranks : \A d, p : q # r => /\ HasSent(q, d, p)' <=> HasSent(q, d, p)
                                          /\ HasTaken(q, p)' <=> HasTaken(q, p)
  BY <1>4, OthersStay
<1>9. \A s, d, p : Addressed(s, d, p)' <=> Addressed(s, d, p)
  BY <1>1 DEF Addressed
<1>10. \A s, d : Addressed(s, d, place) <=> d \in Neighbours(s)
  BY <1>2 DEF Addressed
<1>11. \A p \in Places(program) : p \in Nat
  BY DEF Places
<1>12. ASSUME NEW s \in Ranks, NEW d \in Ranks PROVE ChannelOK(s, d)'
  <2>1. Holds(program, channel[s][d], Pending(s, d)) /\ program' = program
    BY <1>1 DEF ChannelsOK, ChannelOK
  <2>2. CASE d = r /\ s \in Neighbours(r)
    <3>1. Holds(program, RemoveFirst(channel[s][d], halo), Pending(s, d) \ {place})
      BY <1>2, <1>5, <2>1, HoldsRemove
    <3>2. ASSUME NEW p \in Places(program)
          PROVE  HasSent(s, d, p)' /\ ~ HasTaken(d, p)'
                   <=> (HasSent(s, d, p) /\ ~ HasTaken(d, p)) /\ p # place
      <4>1. CASE s = r
        BY <1>7, <1>11, <2>2, <4>1
      <4>2. CASE s # r
        BY <1>7, <1>8, <1>11, <2>2, <4>2
      <4> QED
        BY <4>1, <4>2
    <3>3. Pending(s, d)' = Pending(s, d) \ {place}
      BY <1>9, <2>1, <3>2 DEF Pending
    <3> QED
      BY <1>6, <2>1, <2>2, <3>1, <3>3 DEF ChannelOK
  <2>3. CASE s = r /\ d \in Neighbours(r) /\ d # r /\ ~ HasTaken(d, place)
    <3>1. \A p \in Pending(s, d) : p < place
      BY <1>7, <1>11, <2>3 DEF Pending
    <3>2. Holds(program, Append(channel[s][d], halo), Pending(s, d) \union {place})
      BY <1>2, <1>5, <2>1, <3>1, HoldsAppend
    <3>3. ASSUME NEW p \in Places(program), Addressed(s, d, p)
          PROVE  HasSent(s, d, p)' /\ ~ HasTaken(d, p)'
                   <=> (HasSent(s, d, p) /\ ~ HasTaken(d, p)) \/ p = place
      BY <1>7, <1>8, <1>11, <2>3
    <3>4. Addressed(s, d, place)
      BY <1>10, <2>3
    <3>5. Pending(s, d)' = Pending(s, d) \union {place}
      BY <1>2, <1>9, <2>1, <3>3, <3>4 DEF Pending
    <3> QED
      BY <1>6, <2>1, <2>3, <3>2, <3>5 DEF ChannelOK
  <2>4. CASE /\ ~ (d = r /\ s \in Neighbours(r))
             /\ ~ (s = r /\ d \in Neighbours(r) /\ ~ HasTaken(d, place))
    <3>1. channel'[s][d] = channel[s][d]
      BY <1>6, <2>4
    <3>2. ASSUME NEW p \in Places(program), Addressed(s, d, p)
          PROVE  HasSent(s, d, p)' /\ ~ HasTaken(d, p)' <=> HasSent(s, d, p) /\ ~ HasTaken(d, p)
      <4>1. CASE d = r
        <5>1. p # place
          BY <1>10, <2>4, <3>2, <4>1, LinksAssumption
        <5> QED
          BY <1>7, <1>8, <1>11, <4>1, <5>1
      <4>2. CASE d # r /\ s = r
        <5>1. p = place => HasTaken(d, place)
          BY <1>10, <2>4, <3>2, <4>2
        <5> QED
          BY <1>7, <1>8, <1>11, <4>2, <5>1
      <4>3. CASE d # r /\ s # r
        BY <1>8, <4>3
      <4> QED
        BY <4>1, <4>2, <4>3
    <3>3. Pending(s, d)' = Pending(s, d)
      BY <1>9, <2>1, <3>2 DEF Pending
    <3> QED
      BY <2>1, <3>1, <3>3 DEF ChannelOK
  <2> QED
    BY <2>2, <2>3, <2>4
<1>13. ASSUME NEW d \in Ranks, ~ is_compiling(d) PROVE HeardOK(d)'
  <2>1. HeardOK(d) /\ compiling_equivalent(d) \in Ranks /\ compiling_equivalent(d) # d
    BY <1>13, Compilers DEF WaitersOK
  <2>2. stage'[d] = "heard" => stage[d] = "heard"
    BY <1>4
  <2>3. ASSUME NEW p \in Places(program), program[p] = "build", HasTaken(d, p)'
        PROVE  HasSent(compiling_equivalent(d), d, p)'
    <3>1. HasTaken(d, p)
      BY <1>2, <1>7, <1>8, <1>11, <2>3
    <3>2. HasSent(compiling_equivalent(d), d, p)
      BY <2>1, <2>3, <3>1 DEF HeardOK
    <3> QED
      BY <1>7, <1>8, <1>11, <2>1, <3>2
  <2> QED
    BY <1>1, <2>1, <2>2, <2>3 DEF HeardOK
<1> QED
  BY <1>12, <1>13 DEF ChannelsOK, WaitersOK

-----------------------------------------------------------------------------
(* The invariant.                                                          *)

LEMMA ConstructCompiledFirst ==
  ASSUME TypesOK, StageOK, CompiledFirst, Cube => WaitersOK, NEW r \in Ranks, Construct(r)
  PROVE  CompiledFirst'
<1> SUFFICES ASSUME NEW q \in Ranks PROVE built'[q] <= built'[compiling_equivalent(q)]
  BY DEF CompiledFirst
<1> DEFINE c == compiling_equivalent(q)
<1>1. \A d \in Ranks : built[d] \in Nat /\ built'[d] = built[d] + (IF d = r THEN 1 ELSE 0)
  BY DEF TypesOK, Construct
<1>2. CASE c = q
  BY <1>1, <1>2
<1>3. CASE c # q
  <2>1. Cube
    BY <1>3, NoCompilers
  <2>2. c \in Ranks /\ ~ is_compiling(q) /\ built[q] <= built[c]
    BY <1>3, <2>1, Compilers DEF CompiledFirst
  <2>3. CASE q = r
    <3>1. stage[q] = "heard"
      BY <2>2, <2>3 DEF Construct
    <3>2. built[q] + 1 <= built[c]
      BY <2>1, <2>2, <3>1 DEF WaitersOK, HeardOK
    <3> QED
      BY <1>1, <1>3, <2>2, <2>3, <3>2
  <2>4. CASE q # r
    BY <1>1, <2>2, <2>4
  <2> QED
    BY <2>3, <2>4
<1> QED
  BY <1>2, <1>3

LEMMA InitInvariant == ASSUME Init PROVE IInv
<1>1. /\ program \in Seq(Ops) /\ IsProgram(program)
      /\ pos = [r \in Ranks |-> 1] /\ stage = [r \in Ranks |-> "ready"]
      /\ other = [r \in Ranks |-> 1] /\ built = [r \in Ranks |-> 0]
      /\ heard = [r \in Ranks |-> Done(0)]
      /\ channel = [s \in Ranks |-> [d \in Ranks |-> <<>>]]
  BY DEF Init, BoundedSeq, SeqOf
<1>2. TypesOK
  <2>1. Cube \/ \A p \in 1..Len(program) : program[p] # "start"
    <3>1. \A p \in 1..Len(program) : program[p] = "start" => Contains(program, "start")
      BY <1>1 DEF Contains
    <3> QED
      BY <1>1, <3>1 DEF IsProgram
  <2> QED
    BY <1>1, <2>1 DEF TypesOK
<1>3. StageOK
  <2> SUFFICES ASSUME NEW r \in Ranks PROVE RankOK(r)
    BY DEF StageOK
  <2>1. pos[r] = 1 /\ stage[r] = "ready" /\ built[r] = 0 /\ pos[r] - 1 = 0
    BY <1>1
  <2>2. CountUpTo(program, pos[r] - 1, "build") = 0
    BY <2>1, CountNone
  <2> QED
    BY <2>1, <2>2 DEF RankOK, IsTelling
<1>4. CompiledFirst
  <2> SUFFICES ASSUME NEW r \in Ranks PROVE built[r] <= built[compiling_equivalent(r)]
    BY DEF CompiledFirst
  <2>1. compiling_equivalent(r) \in Ranks
    BY Compilers, NoCompilers
  <2> QED
    BY <1>1, <2>1
<1>5. AloneOK
  BY <1>1 DEF AloneOK
<1>6. ChannelsOK
  <2> SUFFICES ASSUME NEW s \in Ranks, NEW d \in Ranks PROVE ChannelOK(s, d)
    BY DEF ChannelsOK
  <2>1. Pending(s, d) = {}
    <3> SUFFICES ASSUME NEW p \in Pending(s, d) PROVE FALSE
      OBVIOUS
    <3>1. p \in Nat /\ p > 0 /\ HasSent(s, d, p)
      BY DEF Pending, Places
    <3>2. ~ HasTold(s, d) /\ pos[s] = 1
      BY <1>1 DEF HasTold, IsTelling
    <3> QED
      BY <3>1, <3>2 DEF HasSent
  <2> QED
    BY <1>1, <2>1, HoldsNothing DEF ChannelOK
<1>7. WaitersOK
  <2> SUFFICES ASSUME NEW d \in Ranks PROVE HeardOK(d)
    BY DEF WaitersOK
  <2>1. pos[d] = 1 /\ stage[d] = "ready"
    BY <1>1
  <2>2. \A p \in Places(program) : ~ HasTaken(d, p)
    BY <2>1 DEF HasTaken, Places
  <2> QED
    BY <2>1, <2>2 DEF HeardOK
<1> QED
  BY <1>2, <1>3, <1>4, <1>5, <1>6, <1>7 DEF IInv

LEMMA StepInvariant == ASSUME IInv, [Next]_vars PROVE IInv'
<1>1. TypesOK /\ StageOK /\ CompiledFirst /\ AloneOK /\ (Cube => ChannelsOK /\ WaitersOK)
  BY DEF IInv
<1>2. ASSUME UNCHANGED vars PROVE IInv'
  <2>1. UNCHANGED <<program, pos, stage, other, built, heard, channel>>
    BY <1>2 DEF vars
  <2>2. TypesOK' /\ CompiledFirst' /\ AloneOK'
    BY <1>1, <2>1 DEF TypesOK, CompiledFirst, AloneOK
  <2>3. StageOK'
    BY <1>1, <2>1, Stays DEF StageOK
  <2>4. ASSUME Cube PROVE ChannelsOK' /\ WaitersOK'
    <3>1. \A s, d \in Ranks : \A p : /\ HasSent(s, d, p)' <=> HasSent(s, d, p)
                                     /\ HasTaken(d, p)' <=> HasTaken(d, p)
      BY <2>1, OthersStay
    <3>2. \A d \in Ranks : built'[d] \in Nat /\ built[d] <= built'[d]
      BY <1>1, <2>1 DEF TypesOK
    <3> QED
      BY <1>1, <2>1, <2>4, <3>1, <3>2, Quiet
  <2> QED
    BY <2>2, <2>3, <2>4 DEF IInv
<1>3. ASSUME NEW r \in Ranks, Block(r) PROVE IInv'
  <2>1. TypesOK' /\ StageOK' /\ AloneOK' /\ Cube
    BY <1>1, <1>3, BlockStage
  <2>2. ChannelsOK' /\ WaitersOK'
    BY <1>1, <1>3, <2>1, BlockChannels
  <2>3. CompiledFirst'
    BY <1>1, <1>3 DEF CompiledFirst, Block
  <2> QED
    BY <2>1, <2>2, <2>3 DEF IInv
<1>4. ASSUME NEW r \in Ranks, Construct(r) PROVE IInv'
  <2>1. TypesOK' /\ StageOK' /\ AloneOK'
    BY <1>1, <1>4, ConstructStage
  <2>2. Cube => ChannelsOK' /\ WaitersOK'
    BY <1>1, <1>4, <2>1, ConstructChannels
  <2>3. CompiledFirst'
    BY <1>1, <1>4, ConstructCompiledFirst
  <2> QED
    BY <2>1, <2>2, <2>3 DEF IInv
<1>5. ASSUME NEW r \in Ranks, Tell(r) PROVE IInv'
  <2>1. TypesOK' /\ StageOK' /\ AloneOK'
    BY <1>1, <1>5, TellStage
  <2>2. Cube => ChannelsOK' /\ WaitersOK'
    BY <1>1, <1>5, TellChannels
  <2>3. CompiledFirst'
    BY <1>1, <1>5 DEF CompiledFirst, Tell
  <2> QED
    BY <2>1, <2>2, <2>3 DEF IInv
<1>6. ASSUME NEW r \in Ranks, SendReturns(r) PROVE IInv'
  <2>1. TypesOK' /\ StageOK' /\ AloneOK'
    BY <1>1, <1>6, SendReturnsStage
  <2>2. Cube => ChannelsOK' /\ WaitersOK'
    BY <1>1, <1>6, <2>1, SendReturnsChannels
  <2>3. CompiledFirst'
    BY <1>1, <1>6 DEF CompiledFirst, SendReturns
  <2> QED
    BY <2>1, <2>2, <2>3 DEF IInv
<1>7. ASSUME NEW r \in Ranks, StartExchange(r) PROVE IInv'
  <2>1. TypesOK' /\ StageOK' /\ AloneOK'
    BY <1>1, <1>7, ExchangeStage
  <2>2. Cube => ChannelsOK' /\ WaitersOK'
    BY <1>1, <1>7, StartExchangeChannels
  <2>3. CompiledFirst'
    BY <1>1, <1>7 DEF CompiledFirst, StartExchange
  <2> QED
    BY <2>1, <2>2, <2>3 DEF IInv
<1>8. ASSUME NEW r \in Ranks, WaitExchange(r) PROVE IInv'
  <2>1. TypesOK' /\ StageOK' /\ AloneOK'
    BY <1>1, <1>8, ExchangeStage
  <2>2. Cube => ChannelsOK' /\ WaitersOK'
    BY <1>1, <1>8, WaitExchangeChannels
  <2>3. CompiledFirst'
    BY <1>1, <1>8 DEF CompiledFirst, WaitExchange
  <2> QED
    BY <2>1, <2>2, <2>3 DEF IInv
<1> QED
  BY <1>2, <1>3, <1>4, <1>5, <1>6, <1>7, <1>8 DEF Next, RankStep

LEMMA Invariant == Spec => []IInv
  BY InitInvariant, StepInvariant, PTL DEF Spec

-----------------------------------------------------------------------------
(* The theorems.                                                           *)

\* No rank loads a stencil from the cache before the rank that compiles for it
\* has built that stencil.
THEOREM CompilerIsFirst == Spec => []CompiledFirst
<1>1. IInv => CompiledFirst
  BY DEF IInv
<1> QED
  BY <1>1, Invariant, PTL

\* The untagged message that lets a rank go on is the one about the stencil it is
\* about to build: no message of another stencil, and no halo.
THEOREM AnswersAreHeard == Spec => []HeardIsTheAnswer
<1>1. ASSUME IInv PROVE HeardIsTheAnswer
  <2> SUFFICES ASSUME NEW r \in Ranks, stage[r] = "heard" PROVE heard[r] = Done(built[r] + 1)
    BY DEF HeardIsTheAnswer
  <2>1. ~ is_compiling(r)
    BY <1>1 DEF IInv, StageOK, RankOK
  <2>2. Cube
    BY <1>1, <2>1 DEF IInv, AloneOK
  <2> QED
    BY <1>1, <2>1, <2>2 DEF IInv, WaitersOK, HeardOK
<1> QED
  BY <1>1, Invariant, PTL

\* On the cubed sphere, two ranks that have ended leave no message between them:
\* every rank told is a rank that waits, and every halo sent is received.
THEOREM ChannelsEndEmpty == ASSUME Cube PROVE Spec => []NothingLeft
<1>1. ASSUME IInv PROVE NothingLeft
  <2> SUFFICES ASSUME NEW s \in Ranks, NEW d \in Ranks, Finished(s), Finished(d)
               PROVE  channel[s][d] = <<>>
    BY DEF NothingLeft
  <2>1. Holds(program, channel[s][d], Pending(s, d)) /\ TypesOK
    BY <1>1 DEF IInv, ChannelsOK, ChannelOK
  <2>2. Pending(s, d) = {}
    BY <2>1 DEF Pending, HasTaken, Places, Finished, TypesOK
  <2> QED
    BY <2>1, <2>2, HoldsNothing
<1> QED
  BY <1>1, Invariant, PTL
=============================================================================
