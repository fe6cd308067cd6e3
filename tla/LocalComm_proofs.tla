--------------------------- MODULE LocalComm_proofs ---------------------------
(***************************************************************************)
(* Communicators without MPI do what MPI would do, for any ranks, tiles,   *)
(* channels and length of the program, where the caller keeps the rule     *)
(* each theorem names.                                                     *)
(*                                                                         *)
(* The two halves share no state but the calls: the messages of a channel, *)
(* and the communicators of the tiles with their collectives.              *)
(***************************************************************************)
EXTENDS LocalComm, FiniteSetTheorems, TLAPS

-----------------------------------------------------------------------------
(* Point to point: a key has received its first f messages, in the first f *)
(* receives posted, and the others wait in the order they were sent.       *)

KeyOK(k, f) ==
  /\ f <= Len(received[k])
  /\ \A n \in 1..Len(received[k]) : received[k][n] = IF n <= f THEN n ELSE Pending
  /\ IF k \in DOMAIN send_recv
     THEN /\ send_recv[k] \in Seq(Nat)
          /\ Len(send_recv[k]) = sent[k] - f
          /\ \A i \in 1..Len(send_recv[k]) : send_recv[k][i] = f + i
     ELSE sent[k] = 0 /\ f = 0

MessagesOK ==
  /\ sent \in [Keys -> Nat] /\ received \in [Keys -> Seq(Nat)]
  /\ \A k \in Keys : \E f \in Nat : KeyOK(k, f)

\* The queue of a key after its oldest message is taken.
LEMMA TakeOldest ==
  ASSUME NEW q \in Seq(Nat), q # <<>>
  PROVE  /\ q[1] \in Nat /\ RemoveAt(q, 1) \in Seq(Nat) /\ Len(q) > 0
         /\ Len(RemoveAt(q, 1)) = Len(q) - 1
         /\ \A i \in 1..(Len(q) - 1) : RemoveAt(q, 1)[i] = q[i + 1]
<1>1. Len(q) \in Nat /\ Len(q) > 0
  OBVIOUS
<1>2. SubSeq(q, 1, 0) = <<>>
  OBVIOUS
<1>3. /\ SubSeq(q, 2, Len(q)) \in Seq(Nat) /\ Len(SubSeq(q, 2, Len(q))) = Len(q) - 1
      /\ \A i \in 1..(Len(q) - 1) : SubSeq(q, 2, Len(q))[i] = q[i + 1]
  <2>1. PICK k \in 1..Len(q) : k = 1
    BY <1>1
  <2>2. /\ SubSeq(q, k + 1, Len(q)) \in Seq(Nat) /\ Len(SubSeq(q, k + 1, Len(q))) = Len(q) - k
        /\ \A i \in 1..(Len(q) - k) : SubSeq(q, k + 1, Len(q))[i] = q[i + k]
    BY <1>1
  <2> QED
    BY <2>1, <2>2
<1>4. RemoveAt(q, 1) = SubSeq(q, 1, 0) \o SubSeq(q, 2, Len(q))
  BY DEF RemoveAt
<1> DEFINE rest == SubSeq(q, 2, Len(q))
<1> HIDE DEF rest
<1>5. rest \in Seq(Nat) /\ RemoveAt(q, 1) = <<>> \o rest
  BY <1>2, <1>3, <1>4 DEF rest
<1>6. RemoveAt(q, 1) = rest
  BY <1>5
<1>7. rest \in Seq(Nat) /\ Len(rest) = Len(q) - 1 /\ \A i \in 1..(Len(q) - 1) : rest[i] = q[i + 1]
  BY <1>3 DEF rest
<1>8. q[1] \in Nat
  BY <1>1
<1> QED
  BY <1>1, <1>6, <1>7, <1>8

\* A step that leaves a key alone.
LEMMA KeyStays ==
  ASSUME NEW k, NEW f, KeyOK(k, f), UNCHANGED <<sent[k], received[k]>>,
         k \in DOMAIN send_recv' <=> k \in DOMAIN send_recv,
         k \in DOMAIN send_recv => UNCHANGED send_recv[k]
  PROVE  KeyOK(k, f)'
  BY DEF KeyOK

\* The n-th receive of a key has not got its message, or is about to be posted.
Open(k, n) ==
  \/ n = Len(received[k]) + 1
  \/ n \in 1..Len(received[k]) /\ received[k][n] = Pending

\* The receive that is taken next is the first one without a message.
LEMMA TakeMessages ==
  ASSUME MessagesOK, "wait_in_order" \in Discipline,
         NEW k \in Keys, NEW n, Open(k, n), InOrder(k, n), Take(k, n)
  PROVE  MessagesOK'
<1>1. PICK f \in Nat : KeyOK(k, f)
  BY DEF MessagesOK
<1>2. /\ received[k] \in Seq(Nat) /\ Len(received[k]) \in Nat /\ sent[k] \in Nat
      /\ received \in [Keys -> Seq(Nat)] /\ sent \in [Keys -> Nat]
  BY DEF MessagesOK
<1>3. f <= Len(received[k])
      /\ \A m \in 1..Len(received[k]) : received[k][m] = IF m <= f THEN m ELSE Pending
  BY <1>1 DEF KeyOK
<1>0. n \in 1..(Len(received[k]) + 1) /\ n \in Nat /\ n > 0
      /\ (n <= Len(received[k]) => received[k][n] = Pending)
  BY <1>2 DEF Open
<1>4. n = f + 1
  <2>1. \A p \in 1..(n - 1) : received[k][p] # Pending
    BY DEF InOrder
  <2>2. ~ n > f + 1
    <3> SUFFICES ASSUME n > f + 1 PROVE FALSE
      OBVIOUS
    <3>1. f + 1 \in 1..(n - 1) /\ f + 1 \in 1..Len(received[k]) /\ ~ f + 1 <= f
      BY <1>0, <1>2
    <3> QED
      BY <1>3, <2>1, <3>1
  <2>3. ~ n <= f
    <3> SUFFICES ASSUME n <= f PROVE FALSE
      OBVIOUS
    <3>1. n \in 1..Len(received[k]) /\ received[k][n] = Pending
      BY <1>0, <1>2, <1>3
    <3>2. received[k][n] = n
      BY <1>3, <3>1
    <3> QED
      BY <1>0, <3>1, <3>2 DEF Pending
  <2> QED
    BY <1>0, <2>2, <2>3
<1>5. k \in DOMAIN send_recv /\ UNCHANGED sent
  BY DEF Take
<1>6. /\ send_recv[k] \in Seq(Nat) /\ Len(send_recv[k]) = sent[k] - f
      /\ \A i \in 1..Len(send_recv[k]) : send_recv[k][i] = f + i
  BY <1>1, <1>5 DEF KeyOK
<1>7. CASE send_recv[k] = <<>>
  <2>1. UNCHANGED <<received, send_recv, sent>>
    BY <1>5, <1>7 DEF Take
  <2>2. ASSUME NEW j \in Keys PROVE \E g \in Nat : KeyOK(j, g)'
    <3>1. PICK g \in Nat : KeyOK(j, g)
      BY DEF MessagesOK
    <3>2. KeyOK(j, g)'
      BY <2>1, <3>1, KeyStays
    <3> QED
      BY <3>2
  <2>3. \A j \in Keys : \E g \in Nat : KeyOK(j, g)'
    BY <2>2
  <2> QED
    BY <2>1, <2>3 DEF MessagesOK
<1>8. CASE send_recv[k] # <<>>
  <2> DEFINE e == send_recv[k][1]
             got == IF n > Len(received[k]) THEN Append(received[k], e)
                    ELSE [received[k] EXCEPT ![n] = e]
  <2>1. /\ received' = [received EXCEPT ![k] = got]
        /\ send_recv' = [send_recv EXCEPT ![k] = RemoveAt(send_recv[k], 1)]
    BY <1>8 DEF Take, popped
  <2>2. e = n /\ e \in Nat
    <3>1. Len(send_recv[k]) > 0 /\ Len(send_recv[k]) \in Nat
      BY <1>6, <1>8, TakeOldest
    <3>2. e = f + 1
      BY <1>6, <3>1
    <3> QED
      BY <1>0, <1>4, <3>2
  <2>3. /\ got \in Seq(Nat) /\ n <= Len(got) /\ Len(got) \in Nat
        /\ \A m \in 1..Len(got) : got[m] = IF m <= n THEN m ELSE Pending
    <3> HIDE DEF e
    <3>1. CASE n > Len(received[k])
      <4>1. n = Len(received[k]) + 1 /\ f = Len(received[k])
        BY <1>0, <1>2, <1>3, <1>4, <3>1
      <4>2. got = Append(received[k], n)
        BY <2>2, <3>1
      <4>3. got \in Seq(Nat) /\ Len(got) = n /\ got[n] = n
            /\ \A m \in 1..Len(received[k]) : got[m] = received[k][m]
        BY <1>2, <4>1, <4>2
      <4>4. ASSUME NEW m \in 1..n PROVE got[m] = m
        <5>1. m \in 1..Len(received[k]) \/ m = n
          BY <1>2, <4>1
        <5> QED
          BY <1>3, <4>1, <4>3, <5>1
      <4> HIDE DEF got
      <4> QED
        BY <4>3, <4>4
    <3>2. CASE n <= Len(received[k])
      <4>1. got = [received[k] EXCEPT ![n] = n]
        BY <1>2, <2>2, <3>2
      <4>2. got \in Seq(Nat) /\ Len(got) = Len(received[k])
            /\ \A m \in 1..Len(received[k]) : got[m] = IF m = n THEN n ELSE received[k][m]
        BY <1>0, <1>2, <3>2, <4>1
      <4> HIDE DEF got
      <4>3. ASSUME NEW m \in 1..Len(received[k]) PROVE got[m] = IF m <= n THEN m ELSE Pending
        BY <1>0, <1>2, <1>3, <1>4, <4>2
      <4> QED
        BY <1>0, <1>2, <3>2, <4>2, <4>3
    <3> QED
      BY <1>0, <1>2, <3>1, <3>2
  <2> HIDE DEF got, e
  <2>4. received' \in [Keys -> Seq(Nat)] /\ sent' \in [Keys -> Nat]
    BY <1>2, <1>5, <2>1, <2>3
  <2>5. KeyOK(k, n)'
    <3>1. received'[k] = got /\ k \in DOMAIN send_recv'
          /\ send_recv'[k] = RemoveAt(send_recv[k], 1)
      BY <1>2, <1>5, <2>1
    <3>2. /\ RemoveAt(send_recv[k], 1) \in Seq(Nat) /\ Len(send_recv[k]) > 0
          /\ Len(RemoveAt(send_recv[k], 1)) = Len(send_recv[k]) - 1
          /\ \A i \in 1..(Len(send_recv[k]) - 1) : RemoveAt(send_recv[k], 1)[i] = send_recv[k][i + 1]
      BY <1>6, <1>8, TakeOldest
    <3>3. \A i \in 1..Len(RemoveAt(send_recv[k], 1)) : RemoveAt(send_recv[k], 1)[i] = n + i
      <4> TAKE i \in 1..Len(RemoveAt(send_recv[k], 1))
      <4>1. Len(send_recv[k]) \in Nat
        BY <1>6
      <4>2. i \in 1..(Len(send_recv[k]) - 1) /\ i + 1 \in 1..Len(send_recv[k])
        BY <3>2, <4>1
      <4>3. RemoveAt(send_recv[k], 1)[i] = f + (i + 1)
        BY <1>6, <3>2, <4>2
      <4> QED
        <5>1. i \in Nat /\ f + (i + 1) = (f + 1) + i
          BY <4>2
        <5> QED
          BY <1>4, <4>3, <5>1
    <3>4. Len(RemoveAt(send_recv[k], 1)) = sent'[k] - n
      BY <1>2, <1>4, <1>5, <1>6, <3>2
    <3> QED
      BY <2>3, <3>1, <3>2, <3>3, <3>4 DEF KeyOK
  <2>6. ASSUME NEW j \in Keys, j # k PROVE \E g \in Nat : KeyOK(j, g)'
    <3>1. PICK g \in Nat : KeyOK(j, g)
      BY DEF MessagesOK
    <3>2. KeyOK(j, g)'
      BY <1>2, <1>5, <2>1, <2>6, <3>1, KeyStays
    <3> QED
      BY <3>2
  <2>7. \A j \in Keys : \E g \in Nat : KeyOK(j, g)'
    BY <1>0, <2>5, <2>6
  <2> QED
    BY <2>4, <2>7 DEF MessagesOK
<1> QED
  BY <1>7, <1>8

LEMMA SendMessages ==
  ASSUME MessagesOK, NEW k \in Keys, Send(k)
  PROVE  MessagesOK'
<1>1. PICK f \in Nat : KeyOK(k, f)
  BY DEF MessagesOK
<1>2. /\ received \in [Keys -> Seq(Nat)] /\ sent \in [Keys -> Nat] /\ sent[k] \in Nat
  BY DEF MessagesOK
<1>3. /\ sent' = [sent EXCEPT ![k] = @ + 1] /\ UNCHANGED received
      /\ send_recv' = [j \in DOMAIN send_recv \cup {k} |->
                         IF j # k THEN send_recv[j]
                         ELSE IF k \in DOMAIN send_recv THEN Append(send_recv[k], sent'[k])
                         ELSE <<sent'[k]>>]
  BY DEF Send
<1>4. sent'[k] = sent[k] + 1 /\ sent' \in [Keys -> Nat] /\ k \in DOMAIN send_recv'
  BY <1>2, <1>3
<1>5. KeyOK(k, f)'
  <2>1. CASE k \in DOMAIN send_recv
    <3> DEFINE q == send_recv[k]
               p == Append(q, sent[k] + 1)
    <3>1. send_recv'[k] = p
      BY <1>3, <1>4, <2>1
    <3>2. q \in Seq(Nat) /\ Len(q) = sent[k] - f /\ \A i \in 1..Len(q) : q[i] = f + i
      BY <1>1, <2>1 DEF KeyOK
    <3> HIDE DEF q
    <3>3. /\ p \in Seq(Nat) /\ Len(p) = Len(q) + 1 /\ p[Len(q) + 1] = sent[k] + 1
          /\ \A i \in 1..Len(q) : p[i] = q[i]
      BY <1>2, <3>2
    <3> HIDE DEF p
    <3>4. Len(p) = sent'[k] - f
      BY <1>2, <1>4, <3>2, <3>3
    <3>5. \A i \in 1..Len(p) : p[i] = f + i
      <4> TAKE i \in 1..Len(p)
      <4>1. i \in 1..Len(q) \/ i = Len(q) + 1
        BY <3>2, <3>3
      <4>2. f + (Len(q) + 1) = sent[k] + 1
        BY <1>2, <3>2
      <4> QED
        BY <3>2, <3>3, <4>1, <4>2
    <3> QED
      BY <1>1, <1>3, <1>4, <3>1, <3>3, <3>4, <3>5 DEF KeyOK
  <2>2. CASE k \notin DOMAIN send_recv
    <3>1. send_recv'[k] = <<sent[k] + 1>>
      BY <1>3, <1>4, <2>2
    <3>2. sent[k] = 0 /\ f = 0
      BY <1>1, <2>2 DEF KeyOK
    <3>3. send_recv'[k] = <<1>> /\ sent'[k] = 1
      BY <1>4, <3>1, <3>2
    <3> QED
      BY <1>1, <1>3, <1>4, <3>2, <3>3 DEF KeyOK
  <2> QED
    BY <2>1, <2>2
<1>6. ASSUME NEW j \in Keys, j # k PROVE \E g \in Nat : KeyOK(j, g)'
  <2>1. PICK g \in Nat : KeyOK(j, g)
    BY DEF MessagesOK
  <2>2. KeyOK(j, g)'
    BY <1>2, <1>3, <1>6, <2>1, KeyStays
  <2> QED
    BY <2>2
<1>7. \A j \in Keys : \E g \in Nat : KeyOK(j, g)'
  BY <1>5, <1>6
<1> QED
  BY <1>2, <1>3, <1>4, <1>7 DEF MessagesOK

LEMMA IrecvMessages ==
  ASSUME MessagesOK, NEW k \in Keys, Irecv(k)
  PROVE  MessagesOK'
<1>1. PICK f \in Nat : KeyOK(k, f)
  BY DEF MessagesOK
<1>2. /\ received \in [Keys -> Seq(Nat)] /\ sent \in [Keys -> Nat] /\ received[k] \in Seq(Nat)
  BY DEF MessagesOK
<1>3. received' = [received EXCEPT ![k] = Append(@, 0)] /\ UNCHANGED <<sent, send_recv>>
  BY DEF Irecv, Pending
<1> DEFINE q == received[k]
           p == Append(q, 0)
<1>4. received'[k] = p
  BY <1>2, <1>3
<1>5. f <= Len(q) /\ \A n \in 1..Len(q) : q[n] = IF n <= f THEN n ELSE Pending
  BY <1>1 DEF KeyOK
<1>6. q \in Seq(Nat)
  BY <1>2
<1> HIDE DEF q
<1>7. /\ p \in Seq(Nat) /\ Len(p) = Len(q) + 1 /\ p[Len(q) + 1] = Pending /\ Len(q) \in Nat
      /\ \A i \in 1..Len(q) : p[i] = q[i]
  BY <1>6 DEF Pending
<1> HIDE DEF p
<1>8. \A n \in 1..Len(p) : p[n] = IF n <= f THEN n ELSE Pending
  <2> TAKE n \in 1..Len(p)
  <2>1. n \in 1..Len(q) \/ (n = Len(q) + 1 /\ ~ n <= f)
    BY <1>5, <1>7
  <2> QED
    BY <1>5, <1>7, <2>1
<1>9. f <= Len(p)
  BY <1>5, <1>7
<1>10. KeyOK(k, f)'
  BY <1>1, <1>3, <1>4, <1>8, <1>9 DEF KeyOK
<1>11. ASSUME NEW j \in Keys, j # k PROVE \E g \in Nat : KeyOK(j, g)'
  <2>1. PICK g \in Nat : KeyOK(j, g)
    BY DEF MessagesOK
  <2>2. KeyOK(j, g)'
    BY <1>2, <1>3, <1>11, <2>1, KeyStays
  <2> QED
    BY <2>2
<1>12. \A j \in Keys : \E g \in Nat : KeyOK(j, g)'
  BY <1>10, <1>11
<1>13. received' \in [Keys -> Seq(Nat)]
  BY <1>2, <1>3, <1>6, <1>7 DEF p, q
<1> QED
  BY <1>2, <1>3, <1>12, <1>13 DEF MessagesOK

-----------------------------------------------------------------------------
(* The communicators of the tiles.                                         *)

\* The ranks of tile c that have split.
HaveSplit(c) == {q \in Members(c) : rank[q] # NoComm}

SplitOK ==
  /\ rank \in [Ranks -> Int] /\ total_ranks \in [Ranks -> Int]
  /\ split_comms \in [Colors -> Seq(Ranks)]
  /\ \A r, q \in Ranks : q < r /\ rank[r] # NoComm => rank[q] # NoComm
  /\ \A r \in Ranks : rank[r] # NoComm =>
       rank[r] = MpiRank(r) /\ total_ranks[r] = Len(split_comms[Tile[r]])
  /\ \A c \in Colors :
       /\ Len(split_comms[c]) = Cardinality(HaveSplit(c))
       /\ \A q \in Ranks : Contains(split_comms[c], q) <=> q \in HaveSplit(c)
       /\ split_comms[c] # <<>> => \A q \in HaveSplit(c) : rank[Head(split_comms[c])] <= rank[q]

LEMMA RanksFinite ==
  /\ \A r \in Ranks : r \in Nat /\ Tile[r] \in Colors /\ r \in Members(Tile[r])
  /\ \A c : IsFiniteSet(Members(c)) /\ Cardinality(Members(c)) \in Nat
  /\ \A r \in Ranks : MpiRank(r) \in Nat
<1>1. IsFiniteSet(Ranks) /\ Ranks = 0 .. Cardinality(Ranks) - 1
  BY LocalCommAssumption
<1>2. Cardinality(Ranks) \in Nat
  BY <1>1, FS_CardinalityType
<1>3. \A r \in Ranks : r \in Nat
  <2> DEFINE n == Cardinality(Ranks)
  <2> HIDE DEF n
  <2>1. Ranks = 0 .. n - 1 /\ n \in Nat
    BY <1>1, <1>2 DEF n
  <2> QED
    BY <2>1
<1>4. \A c : Members(c) \subseteq Ranks
  BY DEF Members
<1>5. \A c : IsFiniteSet(Members(c)) /\ Cardinality(Members(c)) \in Nat
  BY <1>1, <1>4, FS_Subset, FS_CardinalityType
<1>6. ASSUME NEW r \in Ranks PROVE MpiRank(r) \in Nat
  <2>1. {q \in Members(Tile[r]) : q < r} \subseteq Members(Tile[r])
    OBVIOUS
  <2> QED
    BY <1>5, <2>1, FS_Subset, FS_CardinalityType DEF MpiRank
<1> QED
  BY <1>3, <1>5, <1>6 DEF Colors, Members

\* The ranks MPI gives grow with the rank.
LEMMA MpiRanks ==
  ASSUME NEW r \in Ranks, NEW q \in Ranks, Tile[q] = Tile[r], q < r
  PROVE  MpiRank(q) < MpiRank(r)
<1> DEFINE A == {p \in Members(Tile[q]) : p < q}
           B == {p \in Members(Tile[r]) : p < r}
<1>1. r \in Nat /\ q \in Nat /\ q \in Members(Tile[r])
      /\ \A p \in Members(Tile[r]) : p \in Nat
  BY RanksFinite DEF Members
<1>2. A \subseteq B /\ q \in B /\ q \notin A
  <2>1. A = {p \in Members(Tile[r]) : p < q}
    OBVIOUS
  <2>2. \A p \in Members(Tile[r]) : p < q => p < r
    BY <1>1
  <2>3. ~ q < q
    BY <1>1
  <2> QED
    BY <1>1, <2>1, <2>2, <2>3
<1>3. IsFiniteSet(B)
  BY RanksFinite, FS_Subset
<1>4. Cardinality(A) <= Cardinality(B) /\ (Cardinality(A) = Cardinality(B) => A = B)
  BY <1>2, <1>3, FS_Subset
<1>5. Cardinality(A) # Cardinality(B)
  BY <1>2, <1>4
<1>6. Cardinality(A) \in Nat /\ Cardinality(B) \in Nat
  BY RanksFinite DEF MpiRank
<1> HIDE DEF A, B
<1>7. Cardinality(A) < Cardinality(B)
  BY <1>4, <1>5, <1>6
<1> QED
  BY <1>7 DEF A, B, MpiRank

\* A rank that splits in order gets the number MPI gives it.
LEMMA SplitSteps ==
  ASSUME SplitOK, "split_in_order" \in Discipline, NEW r \in Ranks, Split(r)
  PROVE  SplitOK'
<1> DEFINE c == Tile[r]
<1>1. /\ rank[r] = NoComm /\ \A q \in Ranks : q < r => rank[q] # NoComm
      /\ rank' = [rank EXCEPT ![r] = Len(split_comms[c])]
      /\ total_ranks' = [q \in Ranks |-> IF q = r \/ Contains(split_comms[c], q)
                                         THEN Len(split_comms[c]) + 1 ELSE total_ranks[q]]
      /\ split_comms' = [split_comms EXCEPT ![c] = Append(@, r)]
  BY DEF Split, resized
<1>2. c \in Colors /\ r \in Members(c) /\ r \in Nat /\ (\A q \in Ranks : q \in Nat)
  BY RanksFinite
<1>3. /\ rank \in [Ranks -> Int] /\ total_ranks \in [Ranks -> Int]
      /\ split_comms \in [Colors -> Seq(Ranks)] /\ split_comms[c] \in Seq(Ranks)
      /\ Len(split_comms[c]) \in Nat
  BY <1>2 DEF SplitOK
<1>4. \A q \in Ranks : rank[q] # NoComm => q < r
  <2> SUFFICES ASSUME NEW q \in Ranks, rank[q] # NoComm, ~ q < r PROVE FALSE
    OBVIOUS
  <2>1. q # r /\ r < q
    BY <1>1, <1>2
  <2> QED
    BY <1>1, <2>1 DEF SplitOK
<1>5. HaveSplit(c) = {q \in Members(c) : q < r}
  BY <1>1, <1>4 DEF HaveSplit, Members
<1>6. Len(split_comms[c]) = MpiRank(r) /\ MpiRank(r) \in Nat
  BY <1>2, <1>5, RanksFinite DEF SplitOK, MpiRank
<1>7. /\ rank'[r] = MpiRank(r) /\ rank'[r] # NoComm
      /\ \A q \in Ranks : q # r => rank'[q] = rank[q]
  BY <1>1, <1>3, <1>6 DEF NoComm
<1> HIDE DEF c
<1>8. /\ \A d \in Colors : d # c => split_comms'[d] = split_comms[d]
      /\ split_comms'[c] = Append(split_comms[c], r)
  BY <1>1, <1>2, <1>3
<1>9. rank' \in [Ranks -> Int] /\ total_ranks' \in [Ranks -> Int]
      /\ split_comms' \in [Colors -> Seq(Ranks)]
  BY <1>1, <1>2, <1>3
<1>10. /\ Len(split_comms'[c]) = Len(split_comms[c]) + 1
       /\ \A q \in Ranks : Contains(split_comms'[c], q) <=> Contains(split_comms[c], q) \/ q = r
       /\ split_comms[c] # <<>> => Head(split_comms'[c]) = Head(split_comms[c])
       /\ split_comms[c] = <<>> => Head(split_comms'[c]) = r
  <2> DEFINE s == split_comms[c]
             t == Append(s, r)
  <2>1. s \in Seq(Ranks) /\ split_comms'[c] = t
    BY <1>3, <1>8
  <2> HIDE DEF s
  <2>2. /\ t \in Seq(Ranks) /\ Len(t) = Len(s) + 1 /\ Len(s) \in Nat /\ t[Len(s) + 1] = r
        /\ \A i \in 1..Len(s) : t[i] = s[i]
    BY <2>1
  <2>3. (s # <<>> => Head(t) = Head(s)) /\ (s = <<>> => Head(t) = r)
    BY <2>1
  <2> HIDE DEF t
  <2>4. \A i \in 1..Len(t) : i \in 1..Len(s) \/ i = Len(s) + 1
    BY <2>2
  <2>5. (\A i \in 1..Len(s) : i \in 1..Len(t)) /\ Len(s) + 1 \in 1..Len(t)
    BY <2>2
  <2>6. \A q \in Ranks : Contains(t, q) <=> Contains(s, q) \/ q = r
    BY <2>2, <2>4, <2>5 DEF Contains
  <2> QED
    BY <2>1, <2>2, <2>3, <2>6 DEF s
<1>11. HaveSplit(c)' = HaveSplit(c) \union {r} /\ r \notin HaveSplit(c)
  BY <1>1, <1>2, <1>7 DEF HaveSplit, Members
<1>12. \A d \in Colors : d # c => HaveSplit(d)' = HaveSplit(d)
  BY <1>2, <1>7 DEF HaveSplit, Members, c
<1>13. IsFiniteSet(HaveSplit(c))
  BY RanksFinite, FS_Subset DEF HaveSplit
<1>14. Cardinality(HaveSplit(c)') = Len(split_comms'[c])
  <2>1. Cardinality(HaveSplit(c) \union {r}) = Cardinality(HaveSplit(c)) + 1
    BY <1>11, <1>13, FS_AddElement
  <2>2. Cardinality(HaveSplit(c)) = Len(split_comms[c])
    BY <1>2 DEF SplitOK
  <2> QED
    BY <1>10, <1>11, <2>1, <2>2
<1>15. ASSUME NEW p \in Ranks, NEW q \in Ranks, q < p, rank'[p] # NoComm PROVE rank'[q] # NoComm
  <2>1. CASE p = r
    BY <1>1, <1>2, <1>7, <1>15, <2>1
  <2>2. CASE p # r
    BY <1>7, <1>15, <2>2 DEF SplitOK
  <2> QED
    BY <2>1, <2>2
<1>16. ASSUME NEW q \in Ranks, rank'[q] # NoComm
       PROVE  rank'[q] = MpiRank(q) /\ total_ranks'[q] = Len(split_comms'[Tile[q]])
  <2>1. CASE q = r
    BY <1>1, <1>2, <1>7, <1>10, <2>1 DEF c
  <2>2. CASE q # r
    <3>1. rank'[q] = rank[q] /\ rank[q] = MpiRank(q) /\ total_ranks[q] = Len(split_comms[Tile[q]])
      BY <1>7, <1>16, <2>2 DEF SplitOK
    <3>2. Contains(split_comms[c], q) <=> Tile[q] = c
      BY <1>2, <1>7, <1>16, <2>2 DEF SplitOK, HaveSplit, Members
    <3>3. total_ranks'[q] = IF Tile[q] = c THEN Len(split_comms[c]) + 1 ELSE total_ranks[q]
      BY <1>1, <2>2, <3>2
    <3>4. Tile[q] \in Colors
      BY RanksFinite
    <3> QED
      BY <1>8, <1>10, <3>1, <3>3, <3>4
  <2> QED
    BY <2>1, <2>2
<1>17. ASSUME NEW d \in Colors
       PROVE  /\ Len(split_comms'[d]) = Cardinality(HaveSplit(d)')
              /\ \A q \in Ranks : Contains(split_comms'[d], q) <=> q \in HaveSplit(d)'
              /\ split_comms'[d] # <<>> =>
                   \A q \in HaveSplit(d)' : rank'[Head(split_comms'[d])] <= rank'[q]
  <2>1. CASE d # c
    <3>1. split_comms'[d] = split_comms[d] /\ HaveSplit(d)' = HaveSplit(d)
      BY <1>8, <1>12, <2>1
    <3>2. \A q \in Members(d) : q # r
      BY <2>1 DEF Members, c
    <3>3. split_comms[d] # <<>> => Head(split_comms[d]) \in Ranks /\ Head(split_comms[d]) # r
      <4> SUFFICES ASSUME split_comms[d] # <<>>
                   PROVE  Head(split_comms[d]) \in Ranks /\ Head(split_comms[d]) # r
        OBVIOUS
      <4>1. split_comms[d] \in Seq(Ranks)
        BY <1>3
      <4>2. Head(split_comms[d]) = split_comms[d][1] /\ 1 \in 1..Len(split_comms[d])
            /\ Head(split_comms[d]) \in Ranks
        BY <4>1
      <4>3. Head(split_comms[d]) \in HaveSplit(d)
        BY <4>2 DEF SplitOK, Contains
      <4> QED
        BY <3>2, <4>2, <4>3 DEF HaveSplit
    <3>4. \A q \in HaveSplit(d) : q \in Ranks /\ q # r
      BY <3>2 DEF HaveSplit, Members
    <3>5. split_comms[d] # <<>> => \A q \in HaveSplit(d) : rank[Head(split_comms[d])] <= rank[q]
      BY DEF SplitOK
    <3>6. Len(split_comms[d]) = Cardinality(HaveSplit(d))
          /\ \A q \in Ranks : Contains(split_comms[d], q) <=> q \in HaveSplit(d)
      BY DEF SplitOK
    <3> QED
      BY <1>7, <3>1, <3>3, <3>4, <3>5, <3>6
  <2>2. CASE d = c
    <3>1. \A q \in Ranks : Contains(split_comms'[c], q) <=> q \in HaveSplit(c)'
      BY <1>2, <1>10, <1>11 DEF SplitOK
    <3>2. \A q \in HaveSplit(c)' : rank'[Head(split_comms'[c])] <= rank'[q]
      <4>1. CASE split_comms[c] = <<>>
        <5>1. HaveSplit(c) = {}
          BY <1>2, <1>13, <4>1, FS_EmptySet DEF SplitOK
        <5> QED
          BY <1>6, <1>7, <1>10, <1>11, <4>1, <5>1
      <4>2. CASE split_comms[c] # <<>>
        <5> DEFINE h == Head(split_comms[c])
        <5>1. h \in HaveSplit(c)
          <6>1. h = split_comms[c][1] /\ 1 \in 1..Len(split_comms[c]) /\ h \in Ranks
            BY <1>3, <4>2
          <6> QED
            BY <1>2, <6>1 DEF SplitOK, Contains
        <5> HIDE DEF h
        <5>2. h \in Ranks /\ h # r /\ h < r /\ Tile[h] = Tile[r] /\ rank[h] = MpiRank(h)
          BY <1>4, <1>11, <5>1 DEF HaveSplit, Members, c, SplitOK
        <5>3. MpiRank(h) < MpiRank(r) /\ MpiRank(h) \in Nat
          BY <5>2, MpiRanks, RanksFinite
        <5>4. \A q \in HaveSplit(c) : rank[h] <= rank[q] /\ q \in Ranks /\ q # r
          BY <1>2, <1>11, <4>2 DEF SplitOK, HaveSplit, Members, h
        <5>5. Head(split_comms'[c]) = h
          BY <1>10, <4>2 DEF h
        <5> QED
          BY <1>6, <1>7, <1>11, <5>2, <5>3, <5>4, <5>5
      <4> QED
        BY <4>1, <4>2
    <3> QED
      BY <1>14, <2>2, <3>1, <3>2
  <2> QED
    BY <2>1, <2>2
<1>18. MpiRank(r)' = MpiRank(r)
  BY DEF MpiRank
<1>19. \A q \in Ranks : rank'[q] # NoComm =>
         rank'[q] = MpiRank(q) /\ total_ranks'[q] = Len(split_comms'[Tile[q]])
  BY <1>16
<1>20. \A p, q \in Ranks : q < p /\ rank'[p] # NoComm => rank'[q] # NoComm
  BY <1>15
<1> QED
  BY <1>9, <1>17, <1>19, <1>20 DEF SplitOK

-----------------------------------------------------------------------------
(* The root of a tile.                                                     *)

AllSplit == \A q \in Ranks : rank[q] # NoComm

LEMMA MpiRankBound ==
  ASSUME NEW r \in Ranks
  PROVE  MpiRank(r) \in 0..(Cardinality(Members(Tile[r])) - 1)
<1> DEFINE below == {q \in Members(Tile[r]) : q < r}
<1>1. /\ MpiRank(r) \in Nat /\ IsFiniteSet(Members(Tile[r])) /\ r \in Members(Tile[r])
      /\ Cardinality(Members(Tile[r])) \in Nat /\ r \in Nat
  BY RanksFinite
<1>2. below \subseteq Members(Tile[r]) /\ below # Members(Tile[r])
  BY <1>1
<1>3. /\ Cardinality(below) <= Cardinality(Members(Tile[r]))
      /\ Cardinality(below) # Cardinality(Members(Tile[r]))
  BY <1>1, <1>2, FS_Subset
<1>4. Cardinality(below) = MpiRank(r)
  BY DEF MpiRank
<1> HIDE DEF below
<1> QED
  BY <1>1, <1>3, <1>4

\* The first rank of a tile is its only root.
LEMMA Root ==
  ASSUME SplitOK, AllSplit, NEW r \in Ranks
  PROVE  /\ Head(split_comms[Tile[r]]) \in Members(Tile[r])
         /\ rank[Head(split_comms[Tile[r]])] = 0
         /\ \A q \in Members(Tile[r]) : q \in Ranks /\ rank[q] = MpiRank(q)
              /\ (rank[q] = 0 => q = Head(split_comms[Tile[r]]))
         /\ total_ranks[r] = Cardinality(Members(Tile[r]))
<1> DEFINE c == Tile[r]
           h == Head(split_comms[c])
<1>1. c \in Colors /\ r \in Members(c) /\ IsFiniteSet(Members(c))
  BY RanksFinite
<1>2. HaveSplit(c) = Members(c)
  BY DEF HaveSplit, AllSplit, Members
<1>3. /\ split_comms[c] \in Seq(Ranks) /\ Len(split_comms[c]) = Cardinality(Members(c))
      /\ \A q \in Ranks : Contains(split_comms[c], q) <=> q \in Members(c)
  BY <1>1, <1>2 DEF SplitOK
<1>4. split_comms[c] # <<>>
  <2>1. Contains(split_comms[c], r)
    BY <1>1, <1>3
  <2> QED
    BY <1>3, <2>1 DEF Contains
<1>5. h \in Members(c)
  <2>1. h = split_comms[c][1] /\ 1 \in 1..Len(split_comms[c]) /\ h \in Ranks
    BY <1>3, <1>4
  <2> QED
    BY <1>3, <2>1 DEF Contains
<1>6. \A q \in Members(c) : q \in Ranks /\ rank[q] = MpiRank(q) /\ rank[h] <= rank[q]
                            /\ Tile[q] = c /\ MpiRank(q) \in Nat
  BY <1>1, <1>2, <1>4, RanksFinite DEF SplitOK, AllSplit, Members
<1>7. total_ranks[r] = Cardinality(Members(c))
  BY <1>3 DEF SplitOK, AllSplit
<1> HIDE DEF h
<1>8. \A q \in Members(c) : ~ q < h
  <2> SUFFICES ASSUME NEW q \in Members(c), q < h PROVE FALSE
    OBVIOUS
  <2>1. MpiRank(q) < MpiRank(h)
    BY <1>5, <1>6, MpiRanks
  <2> QED
    BY <1>5, <1>6, <2>1
<1>9. MpiRank(h) = 0
  <2>1. {q \in Members(Tile[h]) : q < h} = {}
    BY <1>5, <1>6, <1>8
  <2> QED
    BY <2>1, FS_EmptySet DEF MpiRank
<1>10. ASSUME NEW q \in Members(c), rank[q] = 0 PROVE q = h
  <2> SUFFICES ASSUME q # h PROVE FALSE
    OBVIOUS
  <2>1. q \in Nat /\ h \in Nat /\ q \in Ranks /\ h \in Ranks
    BY <1>5, <1>6, RanksFinite
  <2>2. h < q
    BY <1>8, <2>1
  <2>3. MpiRank(h) < MpiRank(q)
    BY <1>5, <1>6, <2>2, MpiRanks
  <2> QED
    BY <1>6, <1>9, <1>10, <2>3
<1> QED
  BY <1>5, <1>6, <1>7, <1>9, <1>10 DEF h

-----------------------------------------------------------------------------
(* Collectives: the n-th element of a list, or of a rank's slot in the     *)
(* gather buffer, is of the n-th call.                                     *)

Gathered == {<<>>} \union (Nat \X Ranks)

ListsOK ==
  /\ i_buffer \in [Ranks -> [Collectives -> Nat]]
  /\ buffer \in [Colors -> [Collectives -> Seq(Nat)]]
  /\ \A r \in Ranks, t \in Collectives : ~ ended[r] => i_buffer[r][t] = made[r][t]
  /\ \A c \in Colors, t \in Collectives :
       \A i \in 1..Len(buffer[c][t]) : buffer[c][t][i] = i
  /\ \A r \in Ranks, t \in Collectives :
       rank[r] = 0 => Len(buffer[Tile[r]][t]) = made[r][t]

\* A rank is at most one gather ahead of the root.
GathersOK ==
  /\ gather_buffer \in [Colors -> Seq(Gathered)]
  /\ \A r \in Ranks : rank[r] = 0 => \A q \in Members(Tile[r]) :
       made[q]["gather"] = made[r]["gather"] \/ made[q]["gather"] = made[r]["gather"] + 1
  /\ \A c \in Colors : gather_buffer[c] # <<>> =>
       /\ Len(gather_buffer[c]) = Cardinality(Members(c))
       /\ \A q \in Members(c) : MpiRank(q) # 0 =>
            gather_buffer[c][MpiRank(q) + 1] =
              IF made[q]["gather"] = 0 THEN None ELSE <<made[q]["gather"], q>>
  /\ \A c \in Colors : gather_buffer[c] = <<>> =>
       \A q \in Members(c) : made[q]["gather"] = 0

RoundsOK ==
  /\ made \in [Ranks -> [AllCollectives -> Nat]]
  /\ ended \in [Ranks -> BOOLEAN]
  /\ AllSplit \/ /\ \A r \in Ranks, t \in AllCollectives : made[r][t] = 0
                 /\ \A c \in Colors, t \in Collectives : buffer[c][t] = <<>>
                 /\ \A c \in Colors : gather_buffer[c] = <<>>
  /\ ListsOK
  /\ GathersOK
  /\ RoundsMatch

\* The rules of the caller under which every call returns what MPI's would.
Disciplined == {"split_in_order", "gather_in_rounds"} \subseteq Discipline

\* A step of another kind: it may end a program, no more.
LEMMA RoundsStay ==
  ASSUME RoundsOK, UNCHANGED rounds, UNCHANGED rank, ended' \in [Ranks -> BOOLEAN],
         \A r \in Ranks : ended[r] => ended'[r]
  PROVE  RoundsOK'
<1>1. UNCHANGED <<buffer, i_buffer, gather_buffer, made, returned, rank>>
  BY DEF rounds
<1>2. ListsOK'
  BY <1>1 DEF RoundsOK, ListsOK
<1>3. GathersOK'
  BY <1>1 DEF RoundsOK, GathersOK
<1>4. RoundsMatch'
  BY <1>1 DEF RoundsOK, RoundsMatch
<1>5. AllSplit' <=> AllSplit
  BY <1>1 DEF AllSplit
<1> QED
  BY <1>1, <1>2, <1>3, <1>4, <1>5 DEF RoundsOK

LEMMA SplitRounds ==
  ASSUME RoundsOK, SplitOK, NEW r \in Ranks, Split(r)
  PROVE  RoundsOK'
<1>1. UNCHANGED <<buffer, i_buffer, gather_buffer, made, returned, ended>> /\ rank[r] = NoComm
  BY DEF Split, rounds
<1>2. /\ \A q \in Ranks, t \in AllCollectives : made[q][t] = 0
      /\ \A c \in Colors, t \in Collectives : buffer[c][t] = <<>>
      /\ \A c \in Colors : gather_buffer[c] = <<>>
  BY <1>1 DEF RoundsOK, AllSplit
<1>3. \A q \in Ranks : Tile[q] \in Colors /\ \A p \in Members(Tile[q]) : p \in Ranks
  BY RanksFinite DEF Members
<1>4. "gather" \in AllCollectives /\ Collectives \subseteq AllCollectives
  BY DEF AllCollectives, Collectives
<1>5. ListsOK'
  <2>1. \A q \in Ranks, t \in Collectives : Len(buffer[Tile[q]][t]) = made[q][t]
    BY <1>2, <1>3, <1>4
  <2> QED
    BY <1>1, <2>1 DEF RoundsOK, ListsOK
<1>6. GathersOK'
  <2>1. \A q \in Ranks : \A p \in Members(Tile[q]) : made[p]["gather"] = made[q]["gather"]
    BY <1>2, <1>3, <1>4
  <2> QED
    BY <1>1, <2>1 DEF RoundsOK, GathersOK
<1>7. RoundsMatch'
  BY <1>1 DEF RoundsOK, RoundsMatch
<1> QED
  BY <1>1, <1>2, <1>5, <1>6, <1>7 DEF RoundsOK

\* The calls of a kind that return are counted; the others stay.
LEMMA Counted ==
  ASSUME RoundsOK, NEW r \in Ranks, NEW t \in AllCollectives, NEW value, Returns(r, t, value)
  PROVE  /\ made' \in [Ranks -> [AllCollectives -> Nat]]
         /\ made'[r][t] = made[r][t] + 1
         /\ \A q \in Ranks, u \in AllCollectives :
              q # r \/ u # t => made'[q][u] = made[q][u]
         /\ returned'[t] = returned[t] \union {[by |-> r, nth |-> made[r][t] + 1, got |-> value]}
              \/ t \notin DOMAIN returned
         /\ \A u \in AllCollectives : u # t => returned'[u] = returned[u]
<1>1. made' = [made EXCEPT ![r][t] = @ + 1]
  BY DEF Returns
<1>2. made \in [Ranks -> [AllCollectives -> Nat]]
  BY DEF RoundsOK
<1>3. made[r] \in [AllCollectives -> Nat] /\ made[r][t] \in Nat
  BY <1>2
<1>4. /\ made' \in [Ranks -> [AllCollectives -> Nat]]
      /\ made'[r][t] = made[r][t] + 1
      /\ \A q \in Ranks, u \in AllCollectives : q # r \/ u # t => made'[q][u] = made[q][u]
  BY <1>1, <1>2, <1>3
<1>5. /\ returned'[t] = returned[t] \union {[by |-> r, nth |-> made[r][t] + 1, got |-> value]}
           \/ t \notin DOMAIN returned
      /\ \A u \in AllCollectives : u # t => returned'[u] = returned[u]
  BY DEF Returns
<1> QED
  BY <1>4, <1>5

LEMMA BufferRounds ==
  ASSUME RoundsOK, SplitOK, Disciplined, NEW r \in Ranks, NEW t \in Collectives,
         _get_buffer(r, t)
  PROVE  RoundsOK'
<1>1. PICK c : c = Tile[r]
  OBVIOUS
<1>2. PICK list : list = IF isRoot(r) THEN Append(buffer[c][t], made[r][t] + 1) ELSE buffer[c][t]
  OBVIOUS
<1>3. PICK i : i = i_buffer[r][t] + 1
  OBVIOUS
<1>4. /\ HasTile(r) /\ ~ ended[r]
      /\ i_buffer' = [i_buffer EXCEPT ![r][t] = @ + 1]
      /\ buffer' = [buffer EXCEPT ![c][t] = list]
      /\ \/ /\ i <= Len(list)
            /\ Returns(r, t, IF t = "scatter" THEN <<list[i], rank[r]>> ELSE <<list[i]>>)
            /\ UNCHANGED ended
         \/ i > Len(list) /\ IndexError(r) /\ UNCHANGED <<made, returned>>
      /\ UNCHANGED <<rank, gather_buffer>>
  BY <1>1, <1>2, <1>3 DEF _get_buffer, Called, advanced, tiles
<1>5. AllSplit
  BY <1>4 DEF HasTile, Disciplined, AllSplit
<1>6. /\ c \in Colors /\ r \in Members(c) /\ t \in AllCollectives /\ t # "gather"
      /\ "gather" \in AllCollectives /\ Collectives \subseteq AllCollectives
  BY <1>1, RanksFinite DEF AllCollectives, Collectives
<1>7. /\ i_buffer \in [Ranks -> [Collectives -> Nat]] /\ made \in [Ranks -> [AllCollectives -> Nat]]
      /\ buffer \in [Colors -> [Collectives -> Seq(Nat)]] /\ ended \in [Ranks -> BOOLEAN]
  BY DEF RoundsOK, ListsOK
<1>8. /\ buffer[c][t] \in Seq(Nat) /\ made[r][t] \in Nat /\ i_buffer[r][t] = made[r][t]
      /\ \A j \in 1..Len(buffer[c][t]) : buffer[c][t][j] = j
      /\ isRoot(r) => Len(buffer[c][t]) = made[r][t]
  BY <1>1, <1>4, <1>6, <1>7 DEF RoundsOK, ListsOK, isRoot
<1>9. i = made[r][t] + 1 /\ i \in Nat /\ i > 0
  BY <1>3, <1>8
<1>10. /\ list \in Seq(Nat) /\ \A j \in 1..Len(list) : list[j] = j
       /\ isRoot(r) => Len(list) = i
       /\ ~ isRoot(r) => list = buffer[c][t]
  <2>1. CASE isRoot(r)
    <3>1. PICK b : b = buffer[c][t]
      OBVIOUS
    <3>2. list = Append(b, i) /\ b \in Seq(Nat) /\ Len(b) + 1 = i /\ \A j \in 1..Len(b) : b[j] = j
      BY <1>2, <1>8, <1>9, <2>1, <3>1
    <3>3. list \in Seq(Nat) /\ Len(list) = i /\ list[i] = i /\ \A j \in 1..Len(b) : list[j] = b[j]
      BY <1>9, <3>2
    <3>4. \A j \in 1..Len(list) : j \in 1..Len(b) \/ j = i
      BY <1>9, <3>2, <3>3
    <3> QED
      BY <2>1, <3>2, <3>3, <3>4
  <2>2. CASE ~ isRoot(r)
    BY <1>2, <1>8, <2>2
  <2> QED
    BY <2>1, <2>2
<1>11. /\ buffer' \in [Colors -> [Collectives -> Seq(Nat)]] /\ buffer'[c][t] = list
       /\ \A d \in Colors, u \in Collectives : d # c \/ u # t => buffer'[d][u] = buffer[d][u]
  BY <1>4, <1>6, <1>7, <1>10
<1>12. /\ i_buffer' \in [Ranks -> [Collectives -> Nat]] /\ i_buffer'[r][t] = i
       /\ \A q \in Ranks, u \in Collectives : q # r \/ u # t => i_buffer'[q][u] = i_buffer[q][u]
  <2>1. i_buffer[r] \in [Collectives -> Nat] /\ i_buffer[r][t] \in Nat
    BY <1>7
  <2> QED
    BY <1>3, <1>4, <1>7, <2>1
<1>13. isRoot(r) => i <= Len(list)
  BY <1>9, <1>10
<1>14. /\ made' \in [Ranks -> [AllCollectives -> Nat]] /\ ended' \in [Ranks -> BOOLEAN]
       /\ \A q \in Ranks, u \in AllCollectives : q # r \/ u # t => made'[q][u] = made[q][u]
       /\ \A q \in Ranks : q # r => ended'[q] = ended[q]
       /\ ~ ended'[r] => made'[r][t] = i
       /\ isRoot(r) => made'[r][t] = i
  <2>1. CASE Returns(r, t, IF t = "scatter" THEN <<list[i], rank[r]>> ELSE <<list[i]>>)
             /\ UNCHANGED ended
    BY <1>6, <1>7, <1>9, <2>1, Counted
  <2>2. CASE i > Len(list) /\ IndexError(r) /\ UNCHANGED <<made, returned>>
    <3>1. ~ isRoot(r)
      <4>1. Len(list) \in Nat
        BY <1>10
      <4> QED
        BY <1>9, <1>13, <2>2, <4>1
    <3>2. ended' \in [Ranks -> BOOLEAN] /\ ended'[r] = TRUE
          /\ \A q \in Ranks : q # r => ended'[q] = ended[q]
      BY <1>7, <2>2 DEF IndexError
    <3> QED
      BY <1>7, <2>2, <3>1, <3>2
  <2> QED
    BY <1>4, <2>1, <2>2
<1>15. ListsOK'
  <2>1. ASSUME NEW q \in Ranks, NEW u \in Collectives, ~ ended'[q]
        PROVE  i_buffer'[q][u] = made'[q][u]
    <3>1. CASE q = r /\ u = t
      BY <1>12, <1>14, <2>1, <3>1
    <3>2. CASE q # r \/ u # t
      <4>1. ~ ended[q]
        BY <1>4, <1>14, <2>1
      <4>2. i_buffer[q][u] = made[q][u]
        BY <4>1 DEF RoundsOK, ListsOK
      <4> QED
        BY <1>6, <1>12, <1>14, <3>2, <4>2
    <3> QED
      BY <3>1, <3>2
  <2>2. ASSUME NEW d \in Colors, NEW u \in Collectives, NEW j \in 1..Len(buffer'[d][u])
        PROVE  buffer'[d][u][j] = j
    <3>1. CASE d = c /\ u = t
      BY <1>10, <1>11, <2>2, <3>1
    <3>2. CASE d # c \/ u # t
      BY <1>11, <2>2, <3>2 DEF RoundsOK, ListsOK
    <3> QED
      BY <3>1, <3>2
  <2>3. ASSUME NEW q \in Ranks, NEW u \in Collectives, rank[q] = 0
        PROVE  Len(buffer'[Tile[q]][u]) = made'[q][u]
    <3>1. Tile[q] \in Colors /\ Len(buffer[Tile[q]][u]) = made[q][u]
      BY <2>3, RanksFinite DEF RoundsOK, ListsOK
    <3>2. CASE q = r /\ u = t
      BY <1>1, <1>10, <1>11, <1>14, <2>3, <3>2 DEF isRoot
    <3>3. CASE q # r /\ Tile[q] = c /\ u = t
      <4>1. ~ isRoot(r)
        <5>1. q \in Members(c)
          BY <3>3 DEF Members
        <5> QED
          BY <1>1, <1>5, <1>6, <2>3, <3>3, <5>1, Root DEF isRoot
      <4> QED
        BY <1>6, <1>10, <1>11, <1>14, <3>1, <3>3, <4>1
    <3>4. CASE u # t \/ Tile[q] # c
      BY <1>1, <1>6, <1>11, <1>14, <3>1, <3>4
    <3> QED
      BY <3>2, <3>3, <3>4
  <2>4. \A q \in Ranks, u \in Collectives : ~ ended'[q] => i_buffer'[q][u] = made'[q][u]
    BY <2>1
  <2>5. \A d \in Colors, u \in Collectives :
          \A j \in 1..Len(buffer'[d][u]) : buffer'[d][u][j] = j
    BY <2>2
  <2>6. \A q \in Ranks, u \in Collectives :
          rank'[q] = 0 => Len(buffer'[Tile[q]][u]) = made'[q][u]
    BY <1>4, <2>3
  <2>7. i_buffer' \in [Ranks -> [Collectives -> Nat]]
        /\ buffer' \in [Colors -> [Collectives -> Seq(Nat)]]
    BY <1>11, <1>12
  <2> QED
    BY <2>4, <2>5, <2>6, <2>7 DEF ListsOK
<1>16. GathersOK'
  <2>1. \A q \in Ranks : made'[q]["gather"] = made[q]["gather"]
    BY <1>6, <1>14
  <2>2. \A d : Members(d) \subseteq Ranks
    BY DEF Members
  <2> QED
    BY <1>4, <2>1, <2>2 DEF RoundsOK, GathersOK
<1>17. RoundsMatch'
  <2>1. CASE UNCHANGED returned
    BY <2>1 DEF RoundsOK, RoundsMatch
  <2>2. CASE Returns(r, t, IF t = "scatter" THEN <<list[i], rank[r]>> ELSE <<list[i]>>)
             /\ i <= Len(list)
    <3>1. list[i] = i
      <4>1. i \in 1..Len(list)
        BY <1>9, <1>10, <2>2
      <4> QED
        BY <1>10, <4>1
    <3>2. rank[r] = MpiRank(r)
      BY <1>1, <1>5, <1>6, Root
    <3> DEFINE new == [by |-> r, nth |-> i,
                       got |-> IF t = "scatter" THEN <<list[i], rank[r]>> ELSE <<list[i]>>]
    <3>3. returned' = [returned EXCEPT ![t] = @ \union {new}]
      BY <1>9, <2>2 DEF Returns
    <3>4. /\ t = "scatter" => new.got = <<new.nth, MpiRank(new.by)>>
          /\ t # "scatter" => new.got = <<new.nth>>
      BY <3>1, <3>2
    <3> HIDE DEF new
    <3>5. \A u : \A x \in returned'[u] : x \in returned[u] \/ (u = t /\ x = new)
      BY <3>3
    <3>6. t # "scatter" <=> t = "bcast"
      BY DEF Collectives
    <3>7. \A x \in returned'["bcast"] : x.got = <<x.nth>>
      BY <3>4, <3>5, <3>6 DEF RoundsOK, RoundsMatch
    <3>8. \A x \in returned'["scatter"] : x.got = <<x.nth, MpiRank(x.by)>>
      BY <3>4, <3>5 DEF RoundsOK, RoundsMatch
    <3>9. \A x \in returned'["gather"] : x \in returned["gather"]
      BY <1>6, <3>5
    <3> QED
      BY <3>7, <3>8, <3>9 DEF RoundsOK, RoundsMatch
  <2> QED
    BY <1>4, <2>1, <2>2
<1> QED
  BY <1>4, <1>5, <1>14, <1>15, <1>16, <1>17 DEF RoundsOK, AllSplit

LEMMA GatherRounds ==
  ASSUME RoundsOK, SplitOK, Disciplined, NEW r \in Ranks, Gather(r)
  PROVE  RoundsOK'
<1>1. PICK c : c = Tile[r]
  OBVIOUS
<1>2. PICK buf : buf = IF gather_buffer[c] # <<>> THEN gather_buffer[c]
                       ELSE [i \in 1 .. total_ranks[r] |-> None]
  OBVIOUS
<1>3. PICK filled : filled = [buf EXCEPT ![slot(r) + 1] = <<made[r]["gather"] + 1, r>>]
  OBVIOUS
<1>4. /\ HasTile(r) /\ MayGather(r)
      /\ gather_buffer' = [gather_buffer EXCEPT ![c] = filled]
      /\ \/ /\ slot(r) < Len(buf) /\ ~ (isRoot(r) /\ Contains(filled, None))
            /\ Returns(r, "gather", IF isRoot(r) THEN filled ELSE <<>>)
            /\ UNCHANGED ended
         \/ /\ slot(r) >= Len(buf) \/ (isRoot(r) /\ Contains(filled, None))
            /\ ended' = [ended EXCEPT ![r] = slot(r) >= Len(buf)]
            /\ UNCHANGED <<made, returned>>
      /\ UNCHANGED <<rank, buffer, i_buffer>> /\ ~ ended[r]
  BY <1>1, <1>2, <1>3 DEF Gather, Called, tiles
<1>5. AllSplit
  BY <1>4 DEF HasTile, Disciplined, AllSplit
<1>6. /\ c \in Colors /\ r \in Members(c) /\ "gather" \in AllCollectives
      /\ Collectives \subseteq AllCollectives /\ "gather" \notin Collectives
      /\ \A q \in Members(c) : q \in Ranks /\ Tile[q] = c
  BY <1>1, RanksFinite DEF AllCollectives, Collectives, Members
<1>7. /\ made \in [Ranks -> [AllCollectives -> Nat]] /\ ended \in [Ranks -> BOOLEAN]
      /\ gather_buffer \in [Colors -> Seq(Gathered)]
  BY DEF RoundsOK, GathersOK
<1>8. PICK size : size = Cardinality(Members(c))
  OBVIOUS
<1>9. PICK root : root = Head(split_comms[c])
  OBVIOUS
<1>10. /\ size \in Nat /\ total_ranks[r] = size /\ root \in Members(c) /\ rank[root] = 0
       /\ \A q \in Members(c) : rank[q] = MpiRank(q) /\ (rank[q] = 0 => q = root)
  BY <1>1, <1>5, <1>8, <1>9, RanksFinite, Root
<1>11. \A q \in Members(c) : MpiRank(q) \in 0..(size - 1)
  BY <1>6, <1>8, MpiRankBound
<1>12. \A p, q \in Members(c) : p # q => MpiRank(p) # MpiRank(q)
  <2> SUFFICES ASSUME NEW p \in Members(c), NEW q \in Members(c), p # q,
                      MpiRank(p) = MpiRank(q)
               PROVE  FALSE
    OBVIOUS
  <2>1. p \in Nat /\ q \in Nat /\ p \in Ranks /\ q \in Ranks /\ Tile[p] = Tile[q]
        /\ MpiRank(p) \in Nat
    BY <1>6, RanksFinite
  <2>2. p < q \/ q < p
    BY <2>1
  <2>3. MpiRank(p) < MpiRank(q) \/ MpiRank(q) < MpiRank(p)
    BY <2>1, <2>2, MpiRanks
  <2> QED
    BY <2>1, <2>3
<1> DEFINE done(q) == made[q]["gather"]
<1>13. \A q \in Members(c) : done(q) \in Nat /\ (done(q) = done(root) \/ done(q) = done(root) + 1)
  BY <1>6, <1>7, <1>10 DEF RoundsOK, GathersOK
<1>14. /\ buf \in Seq(Gathered) /\ Len(buf) = size
       /\ \A q \in Members(c) : MpiRank(q) # 0 =>
            buf[MpiRank(q) + 1] = IF done(q) = 0 THEN None ELSE <<done(q), q>>
  <2>1. CASE gather_buffer[c] # <<>>
    <3>1. buf = gather_buffer[c] /\ gather_buffer[c] \in Seq(Gathered)
      BY <1>2, <1>6, <1>7, <2>1
    <3> QED
      BY <1>6, <1>8, <2>1, <3>1 DEF RoundsOK, GathersOK
  <2>2. CASE gather_buffer[c] = <<>>
    <3>1. buf = [i \in 1 .. size |-> None]
      BY <1>2, <1>10, <2>2
    <3>2. None \in Gathered
      BY DEF None, Gathered
    <3>3. buf \in Seq(Gathered) /\ Len(buf) = size /\ \A i \in 1..size : buf[i] = None
      BY <1>10, <3>1, <3>2
    <3>4. \A q \in Members(c) : MpiRank(q) + 1 \in 1..size /\ done(q) = 0
      <4>1. \A q \in Members(c) : done(q) = 0
        BY <1>6, <2>2 DEF RoundsOK, GathersOK
      <4>2. ASSUME NEW q \in Members(c) PROVE MpiRank(q) + 1 \in 1..size
        <5>1. MpiRank(q) \in 0..(size - 1)
          BY <1>11
        <5> QED
          BY <1>10, <5>1
      <4> QED
        BY <4>1, <4>2
    <3> HIDE DEF done
    <3> QED
      BY <3>3, <3>4
  <2> QED
    BY <2>1, <2>2
<1>15. /\ slot(r) = MpiRank(r) /\ slot(r) < Len(buf)
       /\ filled \in Seq(Gathered) /\ Len(filled) = size /\ filled # <<>>
       /\ filled[MpiRank(r) + 1] = <<done(r) + 1, r>>
       /\ \A q \in Members(c) : q # r => filled[MpiRank(q) + 1] = buf[MpiRank(q) + 1]
  <2>1. slot(r) = MpiRank(r) /\ MpiRank(r) \in 0..(size - 1)
    BY <1>6, <1>10, <1>11 DEF slot
  <2>2. PICK m : m = MpiRank(r) + 1
    OBVIOUS
  <2>3. m \in 1..size /\ slot(r) < size /\ m \in Nat
    BY <1>10, <2>1, <2>2
  <2>4. PICK new : new = <<done(r) + 1, r>>
    OBVIOUS
  <2>5. new \in Gathered
    BY <1>6, <1>13, <2>4 DEF Gathered
  <2>6. filled = [buf EXCEPT ![m] = new]
    BY <1>3, <2>1, <2>2, <2>4
  <2>7. /\ filled \in Seq(Gathered) /\ Len(filled) = size /\ filled[m] = new
        /\ \A i \in 1..size : i # m => filled[i] = buf[i]
    BY <1>10, <1>14, <2>3, <2>5, <2>6
  <2>8. filled # <<>>
    BY <2>3, <2>7
  <2>9. \A q \in Members(c) : q # r => MpiRank(q) + 1 \in 1..size /\ MpiRank(q) + 1 # m
    <3> SUFFICES ASSUME NEW q \in Members(c), q # r
                 PROVE  MpiRank(q) + 1 \in 1..size /\ MpiRank(q) + 1 # m
      OBVIOUS
    <3>1. MpiRank(q) \in 0..(size - 1) /\ MpiRank(q) # MpiRank(r)
      BY <1>6, <1>11, <1>12
    <3> QED
      BY <1>10, <2>1, <2>2, <3>1
  <2> HIDE DEF done
  <2> QED
    BY <1>14, <2>1, <2>2, <2>3, <2>4, <2>7, <2>8, <2>9
<1>16. /\ gather_buffer' \in [Colors -> Seq(Gathered)] /\ gather_buffer'[c] = filled
       /\ \A d \in Colors : d # c => gather_buffer'[d] = gather_buffer[d]
  BY <1>4, <1>6, <1>7, <1>15
<1>17. isRoot(r) <=> r = root
  BY <1>6, <1>10 DEF isRoot
<1>18. r # root => done(r) = done(root)
  BY <1>1, <1>4, <1>9 DEF MayGather, Disciplined
<1>19. r = root => done(r) = 0 \/ \A q \in Members(c) \ {r} : done(q) > done(r)
  BY <1>1, <1>4, <1>9 DEF MayGather, Disciplined
<1> DEFINE new == [by |-> r, nth |-> done(r) + 1, got |-> IF isRoot(r) THEN filled ELSE <<>>]
           Returned == /\ Returns(r, "gather", IF isRoot(r) THEN filled ELSE <<>>)
                       /\ ~ (isRoot(r) /\ Contains(filled, None))
           Raised == isRoot(r) /\ UNCHANGED <<made, returned>>
<1>20. (Returned \/ Raised) /\ ended' \in [Ranks -> BOOLEAN]
       /\ \A q \in Ranks : ended'[q] = ended[q]
  <2>1. ~ slot(r) >= Len(buf)
    <3>1. slot(r) \in 0..(size - 1)
      BY <1>6, <1>11, <1>15
    <3> QED
      BY <1>10, <1>14, <3>1
  <2>2. CASE UNCHANGED ended /\ Returned
    BY <1>7, <2>2
  <2>3. CASE /\ isRoot(r) /\ Contains(filled, None)
             /\ ended' = [ended EXCEPT ![r] = slot(r) >= Len(buf)]
             /\ UNCHANGED <<made, returned>>
    <3>1. ended[r] = FALSE /\ (slot(r) >= Len(buf)) = FALSE
      BY <1>4, <1>7, <2>1
    <3>2. ended' = [ended EXCEPT ![r] = FALSE]
      BY <2>3, <3>1
    <3>3. \A q \in Ranks : ended'[q] = ended[q]
      BY <1>7, <3>1, <3>2
    <3>4. ended' \in [Ranks -> BOOLEAN]
      BY <1>7, <3>2
    <3> QED
      BY <2>3, <3>3, <3>4
  <2> HIDE DEF done
  <2> QED
    BY <1>4, <2>1, <2>2, <2>3
<1>21. /\ made' \in [Ranks -> [AllCollectives -> Nat]]
       /\ \A q \in Ranks, u \in AllCollectives :
            q # r \/ u # "gather" => made'[q][u] = made[q][u]
       /\ Returned => made'[r]["gather"] = done(r) + 1
  <2>1. CASE Returned
    BY <1>6, <2>1, Counted
  <2>2. CASE Raised /\ ~ Returned
    BY <1>7, <2>2
  <2> QED
    BY <1>20, <2>1, <2>2
<1>22. ASSUME Returned, r = root, NEW q \in Members(c), q # r
       PROVE  done(q) = done(r) + 1
  <2>1. CASE done(r) = 0
    <3>1. MpiRank(q) # 0 /\ MpiRank(q) \in 0..(size - 1)
      BY <1>6, <1>10, <1>11, <1>12, <1>22
    <3>2. MpiRank(q) + 1 \in 1..Len(filled)
      BY <1>10, <1>15, <3>1
    <3>3. filled[MpiRank(q) + 1] # None
      BY <1>17, <1>22, <3>2 DEF Contains
    <3>4. done(q) # 0
      BY <1>14, <1>15, <1>22, <3>1, <3>3
    <3> QED
      BY <1>13, <1>22, <2>1, <3>4
  <2>2. CASE done(q) > done(r)
    BY <1>13, <1>22, <2>2
  <2> QED
    BY <1>19, <1>22, <2>1, <2>2
<1>23. ListsOK'
  <2>1. \A q \in Ranks, u \in Collectives : made'[q][u] = made[q][u]
    BY <1>6, <1>21
  <2>2. UNCHANGED <<rank, buffer, i_buffer>>
    BY <1>4
  <2>3. \A q \in Ranks, u \in Collectives : ~ ended'[q] => i_buffer'[q][u] = made'[q][u]
    BY <1>20, <2>1, <2>2 DEF RoundsOK, ListsOK
  <2>4. \A q \in Ranks, u \in Collectives :
          rank'[q] = 0 => Len(buffer'[Tile[q]][u]) = made'[q][u]
    BY <2>1, <2>2 DEF RoundsOK, ListsOK
  <2>5. /\ i_buffer' \in [Ranks -> [Collectives -> Nat]]
        /\ buffer' \in [Colors -> [Collectives -> Seq(Nat)]]
        /\ \A d \in Colors, u \in Collectives :
             \A i \in 1..Len(buffer'[d][u]) : buffer'[d][u][i] = i
    BY <2>2 DEF RoundsOK, ListsOK
  <2> QED
    BY <2>3, <2>4, <2>5 DEF ListsOK
<1>24. GathersOK'
  <2>1. ASSUME NEW p \in Ranks, rank[p] = 0, NEW q \in Members(Tile[p])
        PROVE  made'[q]["gather"] = made'[p]["gather"]
               \/ made'[q]["gather"] = made'[p]["gather"] + 1
    <3>1. q \in Ranks /\ p \in Members(Tile[p]) /\ Tile[q] = Tile[p]
      BY DEF Members
    <3>2. made[q]["gather"] = made[p]["gather"] \/ made[q]["gather"] = made[p]["gather"] + 1
      BY <2>1 DEF RoundsOK, GathersOK
    <3>3. CASE Tile[p] # c
      <4>1. p # r /\ q # r
        BY <1>1, <3>1, <3>3
      <4>2. made'[q]["gather"] = made[q]["gather"] /\ made'[p]["gather"] = made[p]["gather"]
        BY <1>6, <1>21, <3>1, <4>1
      <4> QED
        BY <3>2, <4>2
    <3>4. CASE Tile[p] = c /\ Returned
      <4>1. p = root /\ q \in Members(c)
        BY <1>10, <2>1, <3>1, <3>4
      <4>2. CASE r = root
        <5>1. made'[p]["gather"] = done(r) + 1
          BY <1>21, <3>4, <4>1, <4>2
        <5>2. q # r => made'[q]["gather"] = done(r) + 1
          BY <1>6, <1>21, <1>22, <3>1, <3>4, <4>1, <4>2
        <5> QED
          BY <4>1, <4>2, <5>1, <5>2
      <4>3. CASE r # root
        <5>1. made'[p]["gather"] = done(root)
          BY <1>6, <1>21, <4>1, <4>3
        <5>2. q = r => made'[q]["gather"] = done(root) + 1
          BY <1>18, <1>21, <3>4, <4>3
        <5>3. q # r => made'[q]["gather"] = done(q)
          BY <1>6, <1>21, <3>1
        <5> QED
          BY <3>2, <4>1, <5>1, <5>2, <5>3
      <4> QED
        BY <4>2, <4>3
    <3>5. CASE Raised
      BY <3>2, <3>5
    <3> QED
      BY <1>20, <3>3, <3>4, <3>5
  <2>2. ASSUME NEW q \in Members(c), MpiRank(q) # 0
        PROVE  filled[MpiRank(q) + 1] =
                 IF made'[q]["gather"] = 0 THEN None ELSE <<made'[q]["gather"], q>>
    <3>1. q # root /\ q \in Ranks
      BY <1>6, <1>10, <2>2
    <3>2. CASE q = r
      <4>1. Returned
        BY <1>17, <1>20, <3>1, <3>2
      <4>2. made'[q]["gather"] = done(r) + 1 /\ done(r) \in Nat
        BY <1>6, <1>13, <1>21, <3>2, <4>1
      <4>3. made'[q]["gather"] # 0
        BY <4>2
      <4> QED
        BY <1>15, <3>2, <4>2, <4>3
    <3>3. CASE q # r
      <4>1. made'[q]["gather"] = done(q)
        BY <1>6, <1>21, <3>1, <3>3
      <4> QED
        BY <1>14, <1>15, <2>2, <3>3, <4>1
    <3> QED
      BY <3>2, <3>3
  <2>3. ASSUME NEW d \in Colors, d # c, NEW q \in Members(d)
        PROVE  made'[q]["gather"] = made[q]["gather"]
    <3>1. q \in Ranks /\ q # r
      BY <1>1, <2>3 DEF Members
    <3> QED
      BY <1>6, <1>21, <3>1
  <2>4. \A d \in Colors : gather_buffer'[d] # <<>> =>
          /\ Len(gather_buffer'[d]) = Cardinality(Members(d))
          /\ \A q \in Members(d) : MpiRank(q) # 0 =>
               gather_buffer'[d][MpiRank(q) + 1] =
                 IF made'[q]["gather"] = 0 THEN None ELSE <<made'[q]["gather"], q>>
    <3> TAKE d \in Colors
    <3>1. CASE d = c
      BY <1>8, <1>15, <1>16, <2>2, <3>1
    <3>2. CASE d # c
      <4>1. gather_buffer'[d] = gather_buffer[d]
        BY <1>16, <3>2
      <4>2. \A q \in Members(d) : made'[q]["gather"] = made[q]["gather"]
        BY <2>3, <3>2
      <4> QED
        BY <4>1, <4>2 DEF RoundsOK, GathersOK
    <3> QED
      BY <3>1, <3>2
  <2>5. \A d \in Colors : gather_buffer'[d] = <<>> =>
          \A q \in Members(d) : made'[q]["gather"] = 0
    <3> TAKE d \in Colors
    <3>1. CASE d = c
      BY <1>15, <1>16, <3>1
    <3>2. CASE d # c
      BY <1>16, <2>3, <3>2 DEF RoundsOK, GathersOK
    <3> QED
      BY <3>1, <3>2
  <2>6. \A p \in Ranks : rank'[p] = 0 => \A q \in Members(Tile[p]) :
          made'[q]["gather"] = made'[p]["gather"]
          \/ made'[q]["gather"] = made'[p]["gather"] + 1
    BY <1>4, <2>1
  <2>7. gather_buffer' \in [Colors -> Seq(Gathered)]
    BY <1>16
  <2> QED
    BY <2>4, <2>5, <2>6, <2>7 DEF GathersOK
<1>25. RoundsMatch'
  <2>1. CASE Raised
    BY <2>1 DEF RoundsOK, RoundsMatch
  <2>2. CASE Returned
    <3>1. returned' = [returned EXCEPT !["gather"] = @ \union {new}]
      BY <2>2 DEF Returns
    <3>2. ASSUME MpiRank(r) = 0
          PROVE  /\ new.by = r /\ new.nth = done(r) + 1 /\ new.got = filled /\ r = root
      BY <1>6, <1>10, <1>17, <3>2 DEF isRoot
    <3>3. ASSUME MpiRank(r) = 0, NEW q \in Members(c)
          PROVE  filled[MpiRank(q) + 1] = <<done(r) + 1, q>>
      <4>1. r = root
        BY <3>2, <3>3
      <4>2. CASE q = r
        BY <1>15, <4>2
      <4>3. CASE q # r
        <5>1. done(q) = done(r) + 1 /\ done(r) \in Nat
          BY <1>6, <1>13, <1>22, <2>2, <4>1, <4>3
        <5>2. MpiRank(q) # 0 /\ done(q) # 0
          BY <1>6, <1>12, <3>3, <4>3, <5>1
        <5> QED
          BY <1>14, <1>15, <4>3, <5>1, <5>2
      <4> QED
        BY <4>2, <4>3
    <3>4. MpiRank(new.by) = 0 =>
            /\ Len(new.got) = Cardinality(Members(Tile[new.by]))
            /\ \A q \in Members(Tile[new.by]) : new.got[MpiRank(q) + 1] = <<new.nth, q>>
      <4>1. new.by = r
        OBVIOUS
      <4> HIDE DEF new
      <4> QED
        BY <1>1, <1>8, <1>15, <3>2, <3>3, <4>1
    <3> HIDE DEF new
    <3>5. \A x \in returned'["gather"] : x \in returned["gather"] \/ x = new
      BY <3>1
    <3>6. \A x \in returned'["gather"] : MpiRank(x.by) = 0 =>
            /\ Len(x.got) = Cardinality(Members(Tile[x.by]))
            /\ \A q \in Members(Tile[x.by]) : x.got[MpiRank(q) + 1] = <<x.nth, q>>
      BY <3>4, <3>5 DEF RoundsOK, RoundsMatch
    <3>7. returned'["bcast"] = returned["bcast"] /\ returned'["scatter"] = returned["scatter"]
      BY <3>1
    <3> QED
      BY <3>6, <3>7 DEF RoundsOK, RoundsMatch
  <2> QED
    BY <1>20, <2>1, <2>2
<1>26. AllSplit'
  BY <1>4, <1>5 DEF AllSplit
<1> QED
  BY <1>20, <1>21, <1>23, <1>24, <1>25, <1>26 DEF RoundsOK

-----------------------------------------------------------------------------
(* The initial states and the steps.                                       *)

LEMMA InitMessages == Init => MessagesOK
<1> SUFFICES ASSUME Init PROVE MessagesOK
  OBVIOUS
<1>1. /\ send_recv = <<>> /\ sent = [k \in Keys |-> 0] /\ received = [k \in Keys |-> <<>>]
  BY DEF Init
<1>2. \A k \in Keys : sent[k] = 0 /\ received[k] = <<>> /\ Len(received[k]) = 0
  BY <1>1
<1>3. \A k : k \notin DOMAIN send_recv
  <2>1. DOMAIN send_recv = {}
    BY <1>1
  <2> QED
    BY <2>1
<1>4. \A k \in Keys : KeyOK(k, 0)
  BY <1>2, <1>3 DEF KeyOK
<1>5. sent \in [Keys -> Nat] /\ received \in [Keys -> Seq(Nat)]
  BY <1>1
<1> QED
  BY <1>4, <1>5 DEF MessagesOK

LEMMA InitSplit == Init => SplitOK
<1> SUFFICES ASSUME Init PROVE SplitOK
  OBVIOUS
<1>1. /\ rank = [r \in Ranks |-> NoComm] /\ total_ranks = [r \in Ranks |-> NoComm]
      /\ split_comms = [c \in Colors |-> <<>>]
  BY DEF Init
<1>2. \A r \in Ranks : rank[r] = NoComm
  BY <1>1
<1>3. \A c : HaveSplit(c) = {}
  BY <1>2 DEF HaveSplit, Members
<1>4. \A c \in Colors : split_comms[c] = <<>> /\ Len(split_comms[c]) = 0
  BY <1>1
<1>5. \A c \in Colors : \A q \in Ranks : ~ Contains(split_comms[c], q)
  BY <1>4 DEF Contains
<1>6. /\ rank \in [Ranks -> Int] /\ total_ranks \in [Ranks -> Int]
      /\ split_comms \in [Colors -> Seq(Ranks)]
  BY <1>1 DEF NoComm
<1>7. \A c \in Colors : Len(split_comms[c]) = Cardinality(HaveSplit(c))
  BY <1>3, <1>4, FS_EmptySet
<1> QED
  BY <1>2, <1>3, <1>4, <1>5, <1>6, <1>7 DEF SplitOK

LEMMA InitRounds == Init => RoundsOK
<1> SUFFICES ASSUME Init PROVE RoundsOK
  OBVIOUS
<1>1. /\ buffer = [c \in Colors |-> [t \in Collectives |-> <<>>]]
      /\ i_buffer = [r \in Ranks |-> [t \in Collectives |-> 0]]
      /\ gather_buffer = [c \in Colors |-> <<>>]
      /\ made = [r \in Ranks |-> [t \in AllCollectives |-> 0]]
      /\ returned = [t \in AllCollectives |-> {}] /\ ended = [r \in Ranks |-> FALSE]
      /\ rank = [r \in Ranks |-> NoComm]
  BY DEF Init
<1>2. /\ Collectives \subseteq AllCollectives
      /\ {"bcast", "scatter", "gather"} \subseteq AllCollectives
  BY DEF Collectives, AllCollectives
<1>3. /\ \A r \in Ranks, t \in AllCollectives : made[r][t] = 0
      /\ \A r \in Ranks, t \in Collectives : i_buffer[r][t] = 0
      /\ \A c \in Colors, t \in Collectives : buffer[c][t] = <<>>
      /\ \A c \in Colors : gather_buffer[c] = <<>>
      /\ \A r \in Ranks : rank[r] # 0
  BY <1>1 DEF NoComm
<1>4. ListsOK
  <2>1. /\ i_buffer \in [Ranks -> [Collectives -> Nat]]
        /\ buffer \in [Colors -> [Collectives -> Seq(Nat)]]
    BY <1>1
  <2> QED
    BY <1>2, <1>3, <2>1 DEF ListsOK
<1>5. GathersOK
  <2>1. gather_buffer \in [Colors -> Seq(Gathered)]
    BY <1>1
  <2>2. \A c : \A q \in Members(c) : q \in Ranks
    BY DEF Members
  <2> QED
    BY <1>2, <1>3, <2>1, <2>2 DEF GathersOK
<1>6. RoundsMatch
  <2>1. returned["bcast"] = {} /\ returned["scatter"] = {} /\ returned["gather"] = {}
    BY <1>1, <1>2
  <2> QED
    BY <2>1 DEF RoundsMatch
<1>7. made \in [Ranks -> [AllCollectives -> Nat]] /\ ended \in [Ranks -> BOOLEAN]
  BY <1>1
<1> QED
  BY <1>3, <1>4, <1>5, <1>6, <1>7 DEF RoundsOK

\* Messages are left alone by Split and by the collectives.
LEMMA MessagesStep ==
  ASSUME MessagesOK, "wait_in_order" \in Discipline, [Next]_vars
  PROVE  MessagesOK'
<1>1. CASE UNCHANGED messages
  <2>1. UNCHANGED <<send_recv, sent, received>>
    BY <1>1 DEF messages
  <2> QED
    BY <2>1 DEF MessagesOK, KeyOK
<1>2. ASSUME NEW k \in Keys, Send(k) PROVE MessagesOK'
  BY <1>2, SendMessages
<1>3. ASSUME NEW k \in Keys, Irecv(k) PROVE MessagesOK'
  BY <1>3, IrecvMessages
<1>4. ASSUME NEW k \in Keys, Recv(k) PROVE MessagesOK'
  <2>1. PICK n : n = Len(received[k]) + 1
    OBVIOUS
  <2>2. InOrder(k, n) /\ Take(k, n)
    BY <1>4, <2>1 DEF Recv
  <2>3. Open(k, n)
    BY <2>1 DEF Open
  <2> QED
    BY <2>2, <2>3, TakeMessages
<1>5. ASSUME NEW k \in Keys, wait(k) PROVE MessagesOK'
  <2>1. PICK n \in 1..Len(received[k]) :
          received[k][n] = Pending /\ InOrder(k, n) /\ Take(k, n)
    BY <1>5 DEF wait
  <2>2. Open(k, n)
    BY <2>1 DEF Open
  <2> QED
    BY <2>1, <2>2, TakeMessages
<1>6. ASSUME NEW r \in Ranks, Split(r) \/ Gather(r) PROVE UNCHANGED messages
  BY <1>6 DEF Split, Gather
<1>7. ASSUME NEW r \in Ranks, NEW t \in Collectives, _get_buffer(r, t) PROVE UNCHANGED messages
  BY <1>7 DEF _get_buffer
<1>8. CASE UNCHANGED vars
  BY <1>1, <1>8 DEF vars
<1> QED
  BY <1>1, <1>2, <1>3, <1>4, <1>5, <1>6, <1>7, <1>8 DEF Next

\* A message step: the rounds and the tiles are left alone, a program may end.
LEMMA MessageSteps ==
  ASSUME RoundsOK, NEW k \in Keys, Send(k) \/ Recv(k) \/ Irecv(k) \/ wait(k)
  PROVE  /\ UNCHANGED <<tiles, rounds>> /\ ended' \in [Ranks -> BOOLEAN]
         /\ \A r \in Ranks : ended[r] => ended'[r]
<1>1. ended \in [Ranks -> BOOLEAN]
  BY DEF RoundsOK
<1>2. CASE UNCHANGED <<tiles, rounds, ended>>
  BY <1>1, <1>2
<1>3. ASSUME NEW n, Take(k, n)
      PROVE  UNCHANGED <<tiles, rounds>> /\ (UNCHANGED ended \/ IndexError(k[2]))
  BY <1>3 DEF Take
<1>4. CASE UNCHANGED <<tiles, rounds>> /\ IndexError(k[2])
  BY <1>1, <1>4 DEF IndexError
<1>5. Send(k) \/ Irecv(k) => UNCHANGED <<tiles, rounds, ended>>
  BY DEF Send, Irecv
<1>6. Recv(k) => \E n : Take(k, n)
  BY DEF Recv
<1>7. wait(k) => \E n : Take(k, n)
  BY DEF wait
<1> QED
  BY <1>2, <1>3, <1>4, <1>5, <1>6, <1>7

LEMMA SplitStep ==
  ASSUME SplitOK, "split_in_order" \in Discipline, [Next]_vars
  PROVE  SplitOK'
<1>1. CASE UNCHANGED tiles
  <2>1. UNCHANGED <<split_comms, rank, total_ranks>>
    BY <1>1 DEF tiles
  <2>2. \A c : UNCHANGED HaveSplit(c)
    BY <2>1 DEF HaveSplit
  <2> QED
    BY <2>1, <2>2 DEF SplitOK
<1>2. ASSUME NEW r \in Ranks, Split(r) PROVE SplitOK'
  BY <1>2, SplitSteps
<1>3. ASSUME NEW k \in Keys, Send(k) \/ Recv(k) \/ Irecv(k) \/ wait(k) PROVE UNCHANGED tiles
  BY <1>3 DEF Send, Recv, Irecv, wait, Take
<1>4. ASSUME NEW r \in Ranks, Gather(r) PROVE UNCHANGED tiles
  BY <1>4 DEF Gather
<1>5. ASSUME NEW r \in Ranks, NEW t \in Collectives, _get_buffer(r, t) PROVE UNCHANGED tiles
  BY <1>5 DEF _get_buffer
<1>6. CASE UNCHANGED vars
  BY <1>1, <1>6 DEF vars
<1> QED
  BY <1>1, <1>2, <1>3, <1>4, <1>5, <1>6 DEF Next

LEMMA RoundsStep ==
  ASSUME RoundsOK, SplitOK, Disciplined, [Next]_vars
  PROVE  RoundsOK'
<1>1. ASSUME NEW k \in Keys, Send(k) \/ Recv(k) \/ Irecv(k) \/ wait(k) PROVE RoundsOK'
  <2>1. UNCHANGED rank
    BY <1>1, MessageSteps DEF tiles
  <2> QED
    BY <1>1, <2>1, MessageSteps, RoundsStay
<1>2. ASSUME NEW r \in Ranks, Split(r) PROVE RoundsOK'
  BY <1>2, SplitRounds
<1>3. ASSUME NEW r \in Ranks, Gather(r) PROVE RoundsOK'
  BY <1>3, GatherRounds
<1>4. ASSUME NEW r \in Ranks, NEW t \in Collectives, _get_buffer(r, t) PROVE RoundsOK'
  BY <1>4, BufferRounds
<1>5. CASE UNCHANGED vars
  <2>1. UNCHANGED <<rounds, rank, ended>>
    BY <1>5 DEF vars, tiles
  <2>2. ended \in [Ranks -> BOOLEAN]
    BY DEF RoundsOK
  <2> QED
    BY <2>1, <2>2, RoundsStay
<1> QED
  BY <1>1, <1>2, <1>3, <1>4, <1>5 DEF Next

-----------------------------------------------------------------------------

\* Where the receives of a key are waited for in the order they were posted, the n-th
\* of them gets the n-th message sent (_put_send_recv, _get_send_recv, AsyncResult.wait).
THEOREM ReceivesAsSent ==
  ASSUME "wait_in_order" \in Discipline
  PROVE  Spec => []ReceivesMatchSends
<1>1. Init => MessagesOK
  BY InitMessages
<1>2. MessagesOK /\ [Next]_vars => MessagesOK'
  BY MessagesStep
<1>3. MessagesOK => ReceivesMatchSends
  BY DEF MessagesOK, KeyOK, ReceivesMatchSends
<1> QED
  BY <1>1, <1>2, <1>3, PTL DEF Spec

\* Where the ranks split in their order, the communicator of a tile, once all its ranks
\* have split, numbers them as MPI's Split does and tells them all its size (Split).
THEOREM RanksAsMpi ==
  ASSUME "split_in_order" \in Discipline
  PROVE  Spec => []SplitAsMpi
<1>1. Init => SplitOK
  BY InitSplit
<1>2. SplitOK /\ [Next]_vars => SplitOK'
  BY SplitStep
<1>3. SplitOK => SplitAsMpi
  <2> SUFFICES ASSUME SplitOK, NEW c \in Colors,
                      Len(split_comms[c]) = Cardinality(Members(c)), NEW r \in Members(c)
               PROVE  rank[r] = MpiRank(r) /\ total_ranks[r] = Cardinality(Members(c))
    BY DEF SplitAsMpi
  <2>1. HaveSplit(c) \subseteq Members(c) /\ Cardinality(HaveSplit(c)) = Cardinality(Members(c))
    BY DEF SplitOK, HaveSplit
  <2>2. HaveSplit(c) = Members(c)
    BY <2>1, RanksFinite, FS_Subset
  <2>3. r \in Ranks /\ Tile[r] = c /\ rank[r] # NoComm
    BY <2>2 DEF HaveSplit, Members
  <2> QED
    BY <2>3 DEF SplitOK
<1> QED
  BY <1>1, <1>2, <1>3, PTL DEF Spec

\* Where the ranks also gather in rounds, every collective returns what the ranks
\* provided in the same round, with the element of each rank at its place (bcast,
\* Scatter and Gather).
THEOREM RoundsAsMpi ==
  ASSUME Disciplined
  PROVE  Spec => []RoundsMatch
<1>1. Init => SplitOK /\ RoundsOK
  BY InitSplit, InitRounds
<1>2. SplitOK /\ RoundsOK /\ [Next]_vars => (SplitOK /\ RoundsOK)'
  <2>1. "split_in_order" \in Discipline
    BY DEF Disciplined
  <2> QED
    BY <2>1, SplitStep, RoundsStep
<1>3. RoundsOK => RoundsMatch
  BY DEF RoundsOK
<1> QED
  BY <1>1, <1>2, <1>3, PTL DEF Spec
=============================================================================
