-------------------------- MODULE CachingComm_proofs --------------------------
(***************************************************************************)
(* A recorded communication is replayed as it was, for any program of the  *)
(* calls considered, any length and any number of communicators, where the *)
(* program waits for its receives in order and takes nothing between a     *)
(* receive and its wait, nor after a gather to another rank.               *)
(*                                                                         *)
(* The argument is that each list is in the order of the calls that take   *)
(* its elements.  Then an element has been taken when, and only when, its  *)
(* call has been replayed, and the next element of the list is that of the *)
(* first call still to be replayed.                                        *)
(***************************************************************************)
EXTENDS CachingComm, SequenceTheorems, Functions, TLAPS

-----------------------------------------------------------------------------
(* The program.                                                            *)

\* Call i takes an element of list l when it is replayed, and which one it should be.
Consumes(i, c, l) ==
  /\ i \in DOMAIN script /\ script[i].op \notin {"wait", "GatherOther"}
  /\ script[i].comm = c /\ ListOf(script[i].op) = l
Wanted(i) == IF script[i].op = "Split" THEN script[i].arg ELSE i

\* Communicators are used after the Split that made them, numbered in its order, and
\* a wait is for an earlier Irecv.
ProgramOK ==
  /\ script \in Seq([op : Calls \union {"wait"}, comm : Comms, arg : Nat])
  /\ Len(script) <= MaxRecordedCalls /\ comms \in Comms
  /\ \A i \in DOMAIN script : script[i].comm \in 1..comms
  /\ \A i \in DOMAIN script : script[i].comm # 1 =>
       \E j \in 1..(i - 1) : script[j].op = "Split" /\ script[j].arg = script[i].comm
  /\ \A c \in 2..comms : \E i \in DOMAIN script : script[i].op = "Split" /\ script[i].arg = c
  /\ \A i \in DOMAIN script : script[i].op = "Split" => script[i].arg \in 2..comms
  /\ \A i, j \in DOMAIN script :
       i < j /\ script[i].op = "Split" /\ script[j].op = "Split" => script[i].arg < script[j].arg
  /\ \A i \in DOMAIN script : script[i].op = "wait" =>
       script[i].arg \in 1..(i - 1) /\ script[script[i].arg].op = "Irecv"

-----------------------------------------------------------------------------
(* What the writer has recorded of it.                                     *)

\* A list holds elements that its calls want, in their order, and at its end the
\* None of calls that receive nothing.
InOrder(c, l) ==
  /\ \A j \in DOMAIN recorded[c][l] : recorded[c][l][j] # NoValue =>
       \E i \in DOMAIN script : Consumes(i, c, l) /\ recorded[c][l][j] = Wanted(i)
  /\ \A j, k \in DOMAIN recorded[c][l] : j < k /\ recorded[c][l][k] # NoValue =>
       recorded[c][l][j] # NoValue /\ recorded[c][l][j] < recorded[c][l][k]
  /\ l # "received_buffers" => \A j \in DOMAIN recorded[c][l] : recorded[c][l][j] # NoValue

\* The receives that are pending come after all that is recorded.
PendingOK(c) ==
  /\ \A p \in DOMAIN pending[c] :
       Consumes(pending[c][p], c, "received_buffers") /\ script[pending[c][p]].op = "Irecv"
  /\ \A p, q \in DOMAIN pending[c] : p < q => pending[c][p] < pending[c][q]
  /\ \A p \in DOMAIN pending[c], j \in DOMAIN recorded[c].received_buffers :
       recorded[c].received_buffers[j] # NoValue
         /\ recorded[c].received_buffers[j] < pending[c][p]

\* No call is forgotten.
Kept(c, l) ==
  \A i \in DOMAIN script : Consumes(i, c, l) =>
    \/ \E j \in DOMAIN recorded[c][l] : recorded[c][l][j] = Wanted(i)
    \/ l = "received_buffers" /\ \E p \in DOMAIN pending[c] : pending[c][p] = i

RecordedOK ==
  /\ recorded \in [Comms -> [Lists -> Seq(Nat)]] /\ pending \in [Comms -> Seq(Nat)]
  /\ \A c \in Comms : PendingOK(c)
  /\ \A c \in Comms, l \in Lists : InOrder(c, l) /\ Kept(c, l)

-----------------------------------------------------------------------------
(* What the reader has done.                                               *)

\* An element has been taken when its call has been replayed.
TakenOK(c, l) ==
  \A j \in DOMAIN recorded[c][l], i \in DOMAIN script :
    Consumes(i, c, l) /\ recorded[c][l][j] = Wanted(i) =>
      (j <= index[c][l] <=> i <= Len(replayed))

ReplayOK ==
  /\ saved \in BOOLEAN
  /\ saved => \A c \in Comms : pending[c] = <<>>
  /\ ~ saved => replayed = <<>>
  /\ replayed \in Seq(Int) /\ Len(replayed) <= Len(script)
  /\ index \in [Comms -> [Lists -> Nat]]
  /\ ~ saved => \A c \in Comms, l \in Lists : index[c][l] = 0
  /\ held \in [1..MaxRecordedCalls -> Int] /\ reader_of \in [Comms -> Int] /\ reader_of[1] = 1
  /\ \A i \in 1..Len(replayed) : script[i].op = "Irecv" => held[i] = i
  /\ \A i \in 1..Len(replayed) : script[i].op = "Split" => reader_of[script[i].arg] = script[i].arg
  /\ ReplayFaithful
  /\ \A c \in Comms, l \in Lists : TakenOK(c, l)

IInv == ProgramOK /\ RecordedOK /\ ReplayOK

-----------------------------------------------------------------------------
(* Recording.                                                              *)

Grows(op, c, arg) ==
  /\ op \in Calls \union {"wait"} /\ c \in Comms /\ arg \in Nat
  /\ Call(op, c, arg)
  /\ op = "Split" => arg = comms + 1 /\ comms' = comms + 1 /\ comms < MaxComms
  /\ op # "Split" => comms' = comms
  /\ op = "wait" => arg \in 1..Len(script) /\ script[arg].op = "Irecv"

\* A call more leaves those before it as they were.
LEMMA OneCallMore ==
  ASSUME ProgramOK, NEW op, NEW c, NEW arg, Grows(op, c, arg)
  PROVE  /\ Len(script) \in Nat /\ DOMAIN script = 1..Len(script)
         /\ script' \in Seq([op : Calls \union {"wait"}, comm : Comms, arg : Nat])
         /\ Len(script') = Len(script) + 1 /\ DOMAIN script' = 1..(Len(script) + 1)
         /\ \A i \in DOMAIN script : script'[i] = script[i]
         /\ script'[Len(script) + 1].op = op /\ script'[Len(script) + 1].comm = c
         /\ script'[Len(script) + 1].arg = arg
<1> DEFINE S == [op : Calls \union {"wait"}, comm : Comms, arg : Nat]
<1>1. PICK x \in S : x = [op |-> op, comm |-> c, arg |-> arg]
  BY DEF Grows
<1>2. script \in Seq(S) /\ script' = Append(script, x)
  BY <1>1 DEF Grows, Call, ProgramOK
<1>3. x.op = op /\ x.comm = c /\ x.arg = arg
  BY <1>1
<1> HIDE DEF S
<1>4. /\ script' \in Seq(S) /\ Len(script) \in Nat /\ DOMAIN script = 1..Len(script)
      /\ Len(script') = Len(script) + 1 /\ DOMAIN script' = 1..(Len(script) + 1)
      /\ \A i \in DOMAIN script : script'[i] = script[i]
      /\ script'[Len(script) + 1] = x
  BY <1>2
<1> QED
  BY <1>3, <1>4 DEF S

LEMMA ProgramGrows ==
  ASSUME ProgramOK, NEW op, NEW c, NEW arg, Grows(op, c, arg)
  PROVE  ProgramOK'
<1> DEFINE n == Len(script) + 1
<1>1. /\ Len(script) \in Nat /\ DOMAIN script = 1..Len(script)
      /\ script' \in Seq([op : Calls \union {"wait"}, comm : Comms, arg : Nat])
      /\ Len(script') = n /\ DOMAIN script' = 1..n
      /\ \A i \in DOMAIN script : script'[i] = script[i]
      /\ script'[n].op = op /\ script'[n].comm = c
      /\ script'[n].arg = arg
  BY OneCallMore
<1>2. /\ comms \in Nat /\ comms >= 1 /\ MaxComms \in Nat /\ comms' \in Comms
      /\ comms' \in {comms, comms + 1} /\ comms' \in Nat
  BY CallsAssumption DEF ProgramOK, Grows, Comms
<1>3. Len(script) < MaxRecordedCalls /\ c \in 1..comms /\ MaxRecordedCalls \in Nat
  BY <1>2, CallsAssumption DEF Grows, Call, Comms
<1> HIDE DEF n
<1>n. n = Len(script) + 1
  BY DEF n
<1>i. \A i \in DOMAIN script' : i \in DOMAIN script \/ i = n
  BY <1>1, <1>n
<1>4. \A i \in DOMAIN script' : script'[i].comm \in 1..comms'
  BY <1>1, <1>i, <1>2, <1>3 DEF ProgramOK
<1>5. \A i \in DOMAIN script' : script'[i].comm # 1 =>
        \E j \in 1..(i - 1) : script'[j].op = "Split" /\ script'[j].arg = script'[i].comm
  <2> SUFFICES ASSUME NEW i \in DOMAIN script', script'[i].comm # 1
               PROVE  \E j \in 1..(i - 1) : script'[j].op = "Split" /\ script'[j].arg = script'[i].comm
    OBVIOUS
  <2>1. CASE i \in DOMAIN script
    <3>1. PICK j \in 1..(i - 1) : script[j].op = "Split" /\ script[j].arg = script[i].comm
      BY <2>1, <1>1 DEF ProgramOK
    <3>2. j \in DOMAIN script
      BY <2>1, <1>1
    <3> QED
      BY <3>1, <3>2, <2>1, <1>1
  <2>2. CASE i = n
    <3>1. c \in 2..comms
      BY <2>2, <1>1, <1>3, <1>2
    <3>2. PICK j \in DOMAIN script : script[j].op = "Split" /\ script[j].arg = c
      BY <3>1 DEF ProgramOK
    <3>3. j \in 1..(i - 1)
      BY <2>2, <1>n, <1>1
    <3> QED
      BY <3>2, <3>3, <2>2, <1>1
  <2> QED
    BY <2>1, <2>2, <1>i
<1>6. \A d \in 2..comms' : \E i \in DOMAIN script' : script'[i].op = "Split" /\ script'[i].arg = d
  <2> SUFFICES ASSUME NEW d \in 2..comms'
               PROVE  \E i \in DOMAIN script' : script'[i].op = "Split" /\ script'[i].arg = d
    OBVIOUS
  <2>1. CASE d \in 2..comms
    <3>1. PICK i \in DOMAIN script : script[i].op = "Split" /\ script[i].arg = d
      BY <2>1 DEF ProgramOK
    <3>2. i \in DOMAIN script'
      BY <1>1, <1>n
    <3> QED
      BY <3>1, <3>2, <1>1
  <2>2. CASE d \notin 2..comms
    <3>1. d = comms + 1 /\ op = "Split" /\ arg = d
      BY <2>2, <1>2 DEF Grows
    <3>2. n \in DOMAIN script'
      BY <1>1, <1>n
    <3> QED
      BY <3>1, <3>2, <1>1
  <2> QED
    BY <2>1, <2>2
<1>7. \A i \in DOMAIN script' : script'[i].op = "Split" => script'[i].arg \in 2..comms'
  <2> SUFFICES ASSUME NEW i \in DOMAIN script', script'[i].op = "Split"
               PROVE  script'[i].arg \in 2..comms'
    OBVIOUS
  <2>1. CASE i \in DOMAIN script
    <3>1. script[i].arg \in 2..comms
      BY <2>1, <1>1 DEF ProgramOK
    <3> QED
      BY <3>1, <2>1, <1>1, <1>2
  <2>2. CASE i = n
    BY <2>2, <1>1, <1>2 DEF Grows
  <2> QED
    BY <2>1, <2>2, <1>i
<1>8. \A i, j \in DOMAIN script' :
        i < j /\ script'[i].op = "Split" /\ script'[j].op = "Split" => script'[i].arg < script'[j].arg
  <2> SUFFICES ASSUME NEW i \in DOMAIN script', NEW j \in DOMAIN script',
                      i < j, script'[i].op = "Split", script'[j].op = "Split"
               PROVE  script'[i].arg < script'[j].arg
    OBVIOUS
  <2>1. i \in DOMAIN script
    BY <1>1, <1>n
  <2>2. CASE j \in DOMAIN script
    BY <2>1, <2>2, <1>1 DEF ProgramOK
  <2>3. CASE j = n
    <3>1. script[i].arg \in 2..comms
      BY <2>1, <1>1 DEF ProgramOK
    <3>2. script'[j].arg = comms + 1
      BY <2>3, <1>1 DEF Grows
    <3> QED
      BY <3>1, <3>2, <2>1, <1>1, <1>2
  <2> QED
    BY <2>2, <2>3, <1>i
<1>9. \A i \in DOMAIN script' : script'[i].op = "wait" =>
        script'[i].arg \in 1..(i - 1) /\ script'[script'[i].arg].op = "Irecv"
  <2> SUFFICES ASSUME NEW i \in DOMAIN script', script'[i].op = "wait"
               PROVE  script'[i].arg \in 1..(i - 1) /\ script'[script'[i].arg].op = "Irecv"
    OBVIOUS
  <2>1. CASE i \in DOMAIN script
    <3>1. PICK a : a = script[i].arg /\ a \in 1..(i - 1) /\ script[a].op = "Irecv"
      BY <2>1, <1>1 DEF ProgramOK
    <3>2. a \in DOMAIN script
      BY <3>1, <2>1, <1>1
    <3> QED
      BY <3>1, <3>2, <2>1, <1>1
  <2>2. CASE i = n
    <3>1. arg \in 1..Len(script) /\ script[arg].op = "Irecv" /\ script'[i].arg = arg
      BY <2>2, <1>1 DEF Grows
    <3> QED
      BY <3>1, <2>2, <1>1, <1>n
  <2> QED
    BY <2>1, <2>2, <1>i
<1>10. Len(script') <= MaxRecordedCalls
  BY <1>1, <1>n, <1>3
<1> QED
  BY <1>1, <1>2, <1>4, <1>5, <1>6, <1>7, <1>8, <1>9, <1>10 DEF ProgramOK

\* Which calls take the elements of which list, with one call more.
LEMMA ConsumersGrow ==
  ASSUME ProgramOK, NEW op, NEW c, NEW arg, Grows(op, c, arg), NEW n, n = Len(script) + 1
  PROVE  /\ \A i \in DOMAIN script : /\ i \in DOMAIN script'
                                     /\ Wanted(i)' = Wanted(i)
                                     /\ script'[i] = script[i]
         /\ \A i \in DOMAIN script, d \in Comms, l \in Lists :
              Consumes(i, d, l)' <=> Consumes(i, d, l)
         /\ \A d \in Comms, l \in Lists :
              Consumes(n, d, l)'
                <=> op \notin {"wait", "GatherOther"} /\ d = c /\ l = ListOf(op)
         /\ Wanted(n)' = IF op = "Split" THEN comms + 1 ELSE n
         /\ DOMAIN script = 1..Len(script) /\ Len(script) \in Nat
         /\ DOMAIN script' = 1..n
<1>1. /\ Len(script) \in Nat /\ DOMAIN script = 1..Len(script)
      /\ DOMAIN script' = 1..n
      /\ \A i \in DOMAIN script : script'[i] = script[i]
      /\ script'[n].op = op /\ script'[n].comm = c
      /\ script'[n].arg = arg
  BY OneCallMore
<1>2. n \in 1..n
  BY <1>1
<1>3. \A i \in DOMAIN script : i \in DOMAIN script'
  BY <1>1
<1>4. \A i \in DOMAIN script : Wanted(i)' = Wanted(i)
  BY <1>1 DEF Wanted
<1>5. \A i \in DOMAIN script, d \in Comms, l \in Lists : Consumes(i, d, l)' <=> Consumes(i, d, l)
  <2> SUFFICES ASSUME NEW i \in DOMAIN script, NEW d \in Comms, NEW l \in Lists
               PROVE  Consumes(i, d, l)' <=> Consumes(i, d, l)
    OBVIOUS
  <2>1. script'[i] = script[i] /\ i \in DOMAIN script'
    BY <1>1, <1>3
  <2> QED
    BY <2>1 DEF Consumes, ListOf
<1>6. \A d \in Comms, l \in Lists :
        Consumes(n, d, l)' <=> op \notin {"wait", "GatherOther"} /\ d = c /\ l = ListOf(op)
  BY <1>1, <1>2 DEF Consumes, ListOf
<1>7. Wanted(n)' = IF op = "Split" THEN comms + 1 ELSE n
  BY <1>1 DEF Wanted, Grows
<1> QED
  BY <1>1, <1>3, <1>4, <1>5, <1>6, <1>7

-----------------------------------------------------------------------------
(* Lists.                                                                  *)

\* Adding an element at the end of a list.
LEMMA AppendOne ==
  ASSUME NEW S, NEW s \in Seq(S), NEW x \in S
  PROVE  /\ Append(s, x) \in Seq(S) /\ Len(s) \in Nat
         /\ DOMAIN s = 1..Len(s) /\ DOMAIN Append(s, x) = 1..(Len(s) + 1)
         /\ \A j \in DOMAIN s : Append(s, x)[j] = s[j]
         /\ Append(s, x)[Len(s) + 1] = x
OBVIOUS

\* Removing the first element of a list.
LEMMA RemoveFirstOne ==
  ASSUME NEW q \in Seq(Nat), q # <<>>
  PROVE  /\ 1 \in DOMAIN q /\ Len(q) \in Nat /\ DOMAIN q = 1..Len(q)
         /\ RemoveAt(q, 1) \in Seq(Nat)
         /\ DOMAIN RemoveAt(q, 1) = 1..(Len(q) - 1)
         /\ \A i \in 1..(Len(q) - 1) : RemoveAt(q, 1)[i] = q[i + 1]
<1>1. Len(q) \in Nat /\ Len(q) > 0 /\ DOMAIN q = 1..Len(q)
  OBVIOUS
<1>2. SubSeq(q, 1, 0) = <<>>
  OBVIOUS
<1>3. /\ SubSeq(q, 2, Len(q)) \in Seq(Nat) /\ Len(SubSeq(q, 2, Len(q))) = Len(q) - 1
      /\ \A i \in 1..(Len(q) - 1) : SubSeq(q, 2, Len(q))[i] = q[i + 1]
  BY <1>1, HeadTailProperties, TailIsSubSeq
<1>4. PICK rest \in Seq(Nat) : rest = SubSeq(q, 2, Len(q))
  BY <1>3
<1>5. RemoveAt(q, 1) = <<>> \o rest
  BY <1>2, <1>4 DEF RemoveAt
<1>6. RemoveAt(q, 1) = rest
  BY <1>5
<1>7. DOMAIN rest = 1..(Len(q) - 1)
  BY <1>3, <1>4
<1>8. 1 \in DOMAIN q
  BY <1>1
<1> QED
  BY <1>1, <1>3, <1>4, <1>6, <1>7, <1>8

\* The elements that the calls of a list want are in the order of the calls.
LEMMA WantedInOrder ==
  ASSUME ProgramOK, NEW c \in Comms, NEW l \in Lists
  PROVE  /\ DOMAIN script = 1..Len(script) /\ Len(script) \in Nat /\ comms \in Nat
         /\ \A i \in DOMAIN script : Consumes(i, c, l) =>
              /\ Wanted(i) \in Nat /\ Wanted(i) # NoValue
              /\ l = "split_data" => Wanted(i) \in 2..comms
              /\ l # "split_data" => Wanted(i) = i
         /\ \A i, j \in DOMAIN script : Consumes(i, c, l) /\ Consumes(j, c, l) /\ i < j =>
              Wanted(i) < Wanted(j)
<1>1. DOMAIN script = 1..Len(script) /\ Len(script) \in Nat
  BY DEF ProgramOK
<1>2. \A i \in DOMAIN script : Consumes(i, c, l) => (script[i].op = "Split" <=> l = "split_data")
  BY DEF Consumes, ListOf
<1>3. comms \in Nat
  BY DEF ProgramOK, Comms
<1>4. \A i \in DOMAIN script : Consumes(i, c, l) =>
        /\ l = "split_data" => Wanted(i) \in 2..comms
        /\ l # "split_data" => Wanted(i) = i
  BY <1>2 DEF ProgramOK, Wanted
<1>5. \A i, j \in DOMAIN script : Consumes(i, c, l) /\ Consumes(j, c, l) /\ i < j =>
        Wanted(i) < Wanted(j)
  BY <1>2, <1>4 DEF ProgramOK, Wanted
<1>6. \A i \in DOMAIN script : Consumes(i, c, l) => Wanted(i) \in Nat /\ Wanted(i) # NoValue
  BY <1>1, <1>3, <1>4 DEF NoValue
<1> QED
  BY <1>1, <1>3, <1>4, <1>5, <1>6

-----------------------------------------------------------------------------
(* What one call more does to a list.                                      *)

\* A call that takes nothing of a list and leaves it alone.
LEMMA ListUntouched ==
  ASSUME ProgramOK, NEW op, NEW c, NEW arg, Grows(op, c, arg),
         NEW d \in Comms, NEW l \in Lists, InOrder(d, l), Kept(d, l),
         recorded'[d][l] = recorded[d][l],
         l = "received_buffers" => pending'[d] = pending[d],
         op \in {"wait", "GatherOther"} \/ d # c \/ l # ListOf(op)
  PROVE  InOrder(d, l)' /\ Kept(d, l)'
<1>1. PICK n : n = Len(script) + 1
  OBVIOUS
<1>2. /\ \A i \in DOMAIN script : i \in DOMAIN script' /\ Wanted(i)' = Wanted(i)
      /\ \A i \in DOMAIN script : Consumes(i, d, l)' <=> Consumes(i, d, l)
      /\ ~ Consumes(n, d, l)'
      /\ DOMAIN script = 1..Len(script) /\ Len(script) \in Nat
      /\ DOMAIN script' = 1..n
  BY <1>1, ConsumersGrow
<1>3. \A i \in DOMAIN script' : i \in DOMAIN script \/ i = n
  BY <1>1, <1>2
<1>4. PICK W : W = recorded[d][l] /\ W = recorded'[d][l]
  OBVIOUS
<1>5. PICK P : P = pending[d]
  OBVIOUS
<1>6. InOrder(d, l)'
  BY <1>2, <1>4 DEF InOrder
<1>7. Kept(d, l)'
  BY <1>2, <1>3, <1>4, <1>5 DEF Kept
<1> QED
  BY <1>6, <1>7

\* The receives that are pending, when none is added or removed, and nothing recorded
\* behind them.
LEMMA PendingUntouched ==
  ASSUME ProgramOK, NEW op, NEW c, NEW arg, Grows(op, c, arg),
         NEW d \in Comms, PendingOK(d), pending'[d] = pending[d],
         pending[d] = <<>> \/ recorded'[d].received_buffers = recorded[d].received_buffers
  PROVE  PendingOK(d)'
<1>1. PICK n : n = Len(script) + 1
  OBVIOUS
<1>0. "received_buffers" \in Lists
  BY DEF Lists
<1>2. /\ \A i \in DOMAIN script : i \in DOMAIN script' /\ script'[i] = script[i]
      /\ \A i \in DOMAIN script : Consumes(i, d, "received_buffers")' <=> Consumes(i, d, "received_buffers")
  BY <1>0, <1>1, ConsumersGrow
<1>3. PICK P : P = pending[d] /\ P = pending'[d]
  OBVIOUS
<1>4. CASE pending[d] = <<>>
  <2>1. DOMAIN P = {}
    BY <1>3, <1>4
  <2> QED
    BY <2>1, <1>3 DEF PendingOK
<1>5. CASE recorded'[d].received_buffers = recorded[d].received_buffers
  <2>1. \A p \in DOMAIN P : /\ P[p] \in DOMAIN script
                            /\ Consumes(P[p], d, "received_buffers") /\ script[P[p]].op = "Irecv"
    BY <1>3 DEF PendingOK, Consumes
  <2>2. \A p \in DOMAIN P : Consumes(P[p], d, "received_buffers")' /\ script'[P[p]].op = "Irecv"
    BY <2>1, <1>2
  <2>3. PICK W : W = recorded[d].received_buffers /\ W = recorded'[d].received_buffers
    BY <1>5
  <2> QED
    BY <2>2, <2>3, <1>3 DEF PendingOK
<1> QED
  BY <1>4, <1>5

\* List l, which was W, gets what the call wants.
Stores(op, c, l, v, W) ==
  /\ op \notin {"wait", "GatherOther", "Irecv"} /\ l = ListOf(op)
  /\ v = IF op = "Split" THEN comms + 1 ELSE Len(script) + 1
  /\ W = recorded[c][l] /\ recorded'[c][l] = Append(W, v)
  /\ InOrder(c, l) /\ Kept(c, l) /\ \A j \in DOMAIN W : W[j] # NoValue
  /\ l = "received_buffers" => pending[c] = <<>>

\* A call that is recorded when it is made.
LEMMA ListAppended ==
  ASSUME ProgramOK, NEW op, NEW c \in Comms, NEW arg, Grows(op, c, arg),
         NEW l \in Lists, NEW v \in Nat, NEW W \in Seq(Nat), Stores(op, c, l, v, W)
  PROVE  InOrder(c, l)' /\ Kept(c, l)'
<1>0. /\ op \notin {"wait", "GatherOther", "Irecv"} /\ l = ListOf(op)
      /\ v = IF op = "Split" THEN comms + 1 ELSE Len(script) + 1
      /\ W = recorded[c][l] /\ recorded'[c][l] = Append(W, v)
      /\ InOrder(c, l) /\ Kept(c, l) /\ \A j \in DOMAIN W : W[j] # NoValue
      /\ l = "received_buffers" => pending[c] = <<>>
  BY DEF Stores
<1> USE <1>0
<1>1. PICK n : n = Len(script) + 1
  OBVIOUS
<1>2. /\ \A i \in DOMAIN script : i \in DOMAIN script' /\ Wanted(i)' = Wanted(i)
      /\ \A i \in DOMAIN script : Consumes(i, c, l)' <=> Consumes(i, c, l)
      /\ Consumes(n, c, l)' /\ Wanted(n)' = v
      /\ DOMAIN script = 1..Len(script) /\ Len(script) \in Nat
      /\ DOMAIN script' = 1..n
  BY <1>1, ConsumersGrow
<1>3. n \in DOMAIN script' /\ \A i \in DOMAIN script' : i \in DOMAIN script \/ i = n
  BY <1>1, <1>2
<1>4. PICK V, m : /\ V = Append(W, v) /\ V = recorded'[c][l] /\ m = Len(W) + 1
  OBVIOUS
<1>5. /\ V \in Seq(Nat) /\ Len(W) \in Nat /\ DOMAIN W = 1..Len(W) /\ DOMAIN V = 1..m
      /\ \A j \in DOMAIN W : V[j] = W[j] /\ V[m] = v
      /\ V[m] = v
  BY <1>4, AppendOne
<1>6. m \in DOMAIN V /\ \A j \in DOMAIN V : j \in DOMAIN W \/ j = m
  BY <1>4, <1>5
<1>7. v # NoValue
  <2>1. comms \in Nat
    BY DEF ProgramOK, Comms
  <2> QED
    BY <2>1, <1>2 DEF NoValue
<1>8. \A j \in DOMAIN W : \E i \in DOMAIN script : Consumes(i, c, l) /\ W[j] = Wanted(i)
  BY DEF InOrder
<1>9. \A j \in DOMAIN W : W[j] < v
  <2> SUFFICES ASSUME NEW j \in DOMAIN W PROVE W[j] < v
    OBVIOUS
  <2>1. PICK i \in DOMAIN script : Consumes(i, c, l) /\ W[j] = Wanted(i)
    BY <1>8
  <2>2. /\ l = "split_data" => Wanted(i) \in 2..comms
        /\ l # "split_data" => Wanted(i) = i
        /\ comms \in Nat
    BY <2>1, WantedInOrder
  <2>3. l = "split_data" <=> op = "Split"
    BY DEF ListOf
  <2> QED
    BY <2>1, <2>2, <2>3, <1>2
<1>10. \A j \in DOMAIN V : V[j] # NoValue
  BY <1>5, <1>6, <1>7
<1>11. \A j \in DOMAIN V : \E i \in DOMAIN script' : Consumes(i, c, l)' /\ V[j] = Wanted(i)'
  <2> SUFFICES ASSUME NEW j \in DOMAIN V
               PROVE  \E i \in DOMAIN script' : Consumes(i, c, l)' /\ V[j] = Wanted(i)'
    OBVIOUS
  <2>1. CASE j \in DOMAIN W
    <3>1. PICK i \in DOMAIN script : Consumes(i, c, l) /\ W[j] = Wanted(i)
      BY <2>1, <1>8
    <3> QED
      BY <3>1, <2>1, <1>2, <1>5
  <2>2. CASE j = m
    BY <2>2, <1>2, <1>3, <1>5
  <2> QED
    BY <2>1, <2>2, <1>6
<1>12. \A j, k \in DOMAIN V : j < k => V[j] < V[k]
  <2> SUFFICES ASSUME NEW j \in DOMAIN V, NEW k \in DOMAIN V, j < k
               PROVE  V[j] < V[k]
    OBVIOUS
  <2>1. j \in DOMAIN W
    BY <1>4, <1>5
  <2>2. CASE k \in DOMAIN W
    <3>1. W[j] < W[k]
      BY <2>1, <2>2 DEF InOrder
    <3> QED
      BY <3>1, <2>1, <2>2, <1>5
  <2>3. CASE k = m
    BY <2>1, <2>3, <1>5, <1>9
  <2> QED
    BY <2>2, <2>3, <1>6
<1>13. InOrder(c, l)'
  BY <1>4, <1>10, <1>11, <1>12 DEF InOrder
<1>14. Kept(c, l)'
  <2> SUFFICES ASSUME NEW i \in DOMAIN script', Consumes(i, c, l)'
               PROVE  \E j \in DOMAIN V : V[j] = Wanted(i)'
    BY <1>4 DEF Kept
  <2>1. CASE i \in DOMAIN script
    <3>1. Consumes(i, c, l)
      BY <2>1, <1>2
    <3>2. l # "received_buffers" \/ DOMAIN pending[c] = {}
      OBVIOUS
    <3>3. PICK j \in DOMAIN W : W[j] = Wanted(i)
      BY <2>1, <3>1, <3>2 DEF Kept
    <3>4. j \in DOMAIN V /\ V[j] = Wanted(i)'
      BY <3>3, <2>1, <1>2, <1>4, <1>5
    <3> QED
      BY <3>4
  <2>2. CASE i = n
    BY <2>2, <1>2, <1>5, <1>6
  <2> QED
    BY <2>1, <2>2, <1>3
<1> QED
  BY <1>13, <1>14

\* Gather on a rank that is not the root.
LEMMA NoneAppended ==
  ASSUME ProgramOK, NEW c \in Comms, NEW arg, Grows("GatherOther", c, arg),
         NEW l \in Lists, l = "received_buffers",
         NEW W \in Seq(Nat), W = recorded[c][l], recorded'[c][l] = Append(W, NoValue),
         InOrder(c, l), Kept(c, l), pending[c] = <<>>
  PROVE  InOrder(c, l)' /\ Kept(c, l)'
<1>1. PICK n : n = Len(script) + 1
  OBVIOUS
<1>2. /\ \A i \in DOMAIN script : i \in DOMAIN script' /\ Wanted(i)' = Wanted(i)
      /\ \A i \in DOMAIN script : Consumes(i, c, l)' <=> Consumes(i, c, l)
      /\ ~ Consumes(n, c, l)'
      /\ DOMAIN script = 1..Len(script) /\ Len(script) \in Nat
      /\ DOMAIN script' = 1..n
  BY <1>1, ConsumersGrow
<1>3. \A i \in DOMAIN script' : i \in DOMAIN script \/ i = n
  BY <1>1, <1>2
<1>4. PICK V, m : /\ V = Append(W, NoValue) /\ V = recorded'[c][l] /\ m = Len(W) + 1
  OBVIOUS
<1>5. /\ V \in Seq(Nat) /\ Len(W) \in Nat /\ DOMAIN W = 1..Len(W) /\ DOMAIN V = 1..m
      /\ \A j \in DOMAIN W : V[j] = W[j]
      /\ V[m] = NoValue
  BY <1>4, AppendOne DEF NoValue
<1>6. \A j \in DOMAIN V : V[j] # NoValue => j \in DOMAIN W
  BY <1>4, <1>5
<1>7. \A j \in DOMAIN V : V[j] # NoValue =>
        \E i \in DOMAIN script' : Consumes(i, c, l)' /\ V[j] = Wanted(i)'
  <2> SUFFICES ASSUME NEW j \in DOMAIN V, V[j] # NoValue
               PROVE  \E i \in DOMAIN script' : Consumes(i, c, l)' /\ V[j] = Wanted(i)'
    OBVIOUS
  <2>1. j \in DOMAIN W /\ V[j] = W[j]
    BY <1>5, <1>6
  <2>2. PICK i \in DOMAIN script : Consumes(i, c, l) /\ W[j] = Wanted(i)
    BY <2>1 DEF InOrder
  <2> QED
    BY <2>1, <2>2, <1>2
<1>8. \A j, k \in DOMAIN V : j < k /\ V[k] # NoValue => V[j] # NoValue /\ V[j] < V[k]
  <2> SUFFICES ASSUME NEW j \in DOMAIN V, NEW k \in DOMAIN V, j < k, V[k] # NoValue
               PROVE  V[j] # NoValue /\ V[j] < V[k]
    OBVIOUS
  <2>1. k \in DOMAIN W /\ j \in DOMAIN W
    BY <1>4, <1>5, <1>6
  <2> QED
    BY <2>1, <1>5 DEF InOrder
<1>9. InOrder(c, l)'
  BY <1>4, <1>7, <1>8 DEF InOrder
<1>10. Kept(c, l)'
  <2> SUFFICES ASSUME NEW i \in DOMAIN script', Consumes(i, c, l)'
               PROVE  \E j \in DOMAIN V : V[j] = Wanted(i)'
    BY <1>4 DEF Kept
  <2>1. i \in DOMAIN script /\ Consumes(i, c, l)
    BY <1>2, <1>3
  <2>2. DOMAIN pending[c] = {}
    OBVIOUS
  <2>3. PICK j \in DOMAIN W : W[j] = Wanted(i)
    BY <2>1, <2>2 DEF Kept
  <2>4. j \in DOMAIN V /\ V[j] = Wanted(i)'
    BY <2>3, <2>1, <1>2, <1>4, <1>5
  <2> QED
    BY <2>4
<1> QED
  BY <1>9, <1>10

\* Irecv.
LEMMA ReceivePosted ==
  ASSUME ProgramOK, NEW c \in Comms, NEW arg, Grows("Irecv", c, arg),
         NEW l \in Lists, l = "received_buffers",
         NEW n, n = Len(script) + 1,
         NEW W \in Seq(Nat), W = recorded[c][l], recorded'[c][l] = W,
         NEW P \in Seq(Nat), P = pending[c], pending'[c] = Append(P, n),
         InOrder(c, l), Kept(c, l), PendingOK(c), \A j \in DOMAIN W : W[j] # NoValue
  PROVE  InOrder(c, l)' /\ Kept(c, l)' /\ PendingOK(c)'
<1>1. /\ \A i \in DOMAIN script : /\ i \in DOMAIN script' /\ Wanted(i)' = Wanted(i)
                                  /\ script'[i] = script[i]
      /\ \A i \in DOMAIN script : Consumes(i, c, l)' <=> Consumes(i, c, l)
      /\ Consumes(n, c, l)' /\ Wanted(n)' = n
      /\ DOMAIN script = 1..Len(script) /\ Len(script) \in Nat
      /\ DOMAIN script' = 1..n
  BY ConsumersGrow DEF ListOf
<1>2. n \in DOMAIN script' /\ \A i \in DOMAIN script' : i \in DOMAIN script \/ i = n
  BY <1>1
<1>3. script'[n].op = "Irecv"
  BY OneCallMore
<1>4. PICK Q, m : Q = Append(P, n) /\ Q = pending'[c] /\ m = Len(P) + 1
  OBVIOUS
<1>5. /\ Q \in Seq(Nat) /\ Len(P) \in Nat /\ DOMAIN P = 1..Len(P) /\ DOMAIN Q = 1..m
      /\ \A p \in DOMAIN P : Q[p] = P[p]
      /\ Q[m] = n
  <2>1. n \in Nat
    BY <1>1
  <2> QED
    BY <2>1, <1>4, AppendOne
<1>6. m \in DOMAIN Q /\ \A p \in DOMAIN Q : p \in DOMAIN P \/ p = m
  BY <1>4, <1>5
<1>7. InOrder(c, l)'
  BY <1>1 DEF InOrder
<1>8. Kept(c, l)'
  <2> SUFFICES ASSUME NEW i \in DOMAIN script', Consumes(i, c, l)'
               PROVE  \/ \E j \in DOMAIN W : W[j] = Wanted(i)'
                      \/ \E p \in DOMAIN Q : Q[p] = i
    BY <1>4 DEF Kept
  <2>1. CASE i \in DOMAIN script
    <3>1. \/ \E j \in DOMAIN W : W[j] = Wanted(i)
          \/ \E p \in DOMAIN P : P[p] = i
      BY <2>1, <1>1 DEF Kept
    <3>2. ASSUME NEW p \in DOMAIN P, P[p] = i PROVE p \in DOMAIN Q /\ Q[p] = i
      BY <3>2, <1>4, <1>5
    <3> QED
      BY <3>1, <3>2, <2>1, <1>1
  <2>2. CASE i = n
    BY <2>2, <1>5, <1>6
  <2> QED
    BY <2>1, <2>2, <1>2
<1>9. \A p \in DOMAIN P : P[p] \in DOMAIN script /\ Consumes(P[p], c, l) /\ script[P[p]].op = "Irecv"
  BY DEF PendingOK, Consumes
<1>10. \A p \in DOMAIN Q : Consumes(Q[p], c, l)' /\ script'[Q[p]].op = "Irecv"
  <2> SUFFICES ASSUME NEW p \in DOMAIN Q PROVE Consumes(Q[p], c, l)' /\ script'[Q[p]].op = "Irecv"
    OBVIOUS
  <2>1. CASE p \in DOMAIN P
    <3>1. PICK i \in DOMAIN script : i = P[p] /\ Consumes(i, c, l) /\ script[i].op = "Irecv"
      BY <2>1, <1>9
    <3>2. Consumes(i, c, l)' /\ script'[i].op = "Irecv"
      BY <3>1, <1>1
    <3> QED
      BY <3>1, <3>2, <2>1, <1>5
  <2>2. CASE p = m
    BY <2>2, <1>1, <1>3, <1>5
  <2> QED
    BY <2>1, <2>2, <1>6
<1>11. \A p, q \in DOMAIN Q : p < q => Q[p] < Q[q]
  <2> SUFFICES ASSUME NEW p \in DOMAIN Q, NEW q \in DOMAIN Q, p < q PROVE Q[p] < Q[q]
    OBVIOUS
  <2>1. p \in DOMAIN P
    BY <1>4, <1>5
  <2>2. CASE q \in DOMAIN P
    BY <2>1, <2>2, <1>5 DEF PendingOK
  <2>3. CASE q = m
    <3>1. P[p] \in 1..Len(script)
      BY <2>1, <1>1, <1>9
    <3> QED
      BY <3>1, <2>1, <2>3, <1>1, <1>5
  <2> QED
    BY <2>2, <2>3, <1>6
<1>12. \A p \in DOMAIN Q, j \in DOMAIN W : W[j] # NoValue /\ W[j] < Q[p]
  <2> SUFFICES ASSUME NEW p \in DOMAIN Q, NEW j \in DOMAIN W PROVE W[j] < Q[p]
    OBVIOUS
  <2>1. CASE p \in DOMAIN P
    BY <2>1, <1>5 DEF PendingOK
  <2>2. CASE p = m
    <3>1. PICK i \in DOMAIN script : Consumes(i, c, l) /\ W[j] = Wanted(i)
      BY DEF InOrder
    <3>2. Wanted(i) = i
      BY <3>1, WantedInOrder
    <3> QED
      BY <3>1, <3>2, <2>2, <1>1, <1>5
  <2> QED
    BY <2>1, <2>2, <1>6
<1>13. PendingOK(c)'
  <2>1. recorded'[c].received_buffers = W
    OBVIOUS
  <2> QED
    BY <2>1, <1>4, <1>10, <1>11, <1>12 DEF PendingOK
<1> QED
  BY <1>7, <1>8, <1>13

\* The wait for the oldest receive.
LEMMA ReceiveWaited ==
  ASSUME ProgramOK, NEW c \in Comms, NEW arg, Grows("wait", c, arg),
         NEW l \in Lists, l = "received_buffers",
         NEW P \in Seq(Nat), P = pending[c], P # <<>>, pending'[c] = RemoveAt(P, 1),
         NEW v \in Nat, v = P[1],
         NEW W \in Seq(Nat), W = recorded[c][l], recorded'[c][l] = Append(W, v),
         InOrder(c, l), Kept(c, l), PendingOK(c)
  PROVE  InOrder(c, l)' /\ Kept(c, l)' /\ PendingOK(c)'
<1>1. PICK n : n = Len(script) + 1
  OBVIOUS
<1>2. /\ \A i \in DOMAIN script : /\ i \in DOMAIN script' /\ Wanted(i)' = Wanted(i)
                                  /\ script'[i] = script[i]
      /\ \A i \in DOMAIN script : Consumes(i, c, l)' <=> Consumes(i, c, l)
      /\ ~ Consumes(n, c, l)'
      /\ DOMAIN script = 1..Len(script) /\ Len(script) \in Nat
      /\ DOMAIN script' = 1..n
  BY <1>1, ConsumersGrow
<1>3. \A i \in DOMAIN script' : i \in DOMAIN script \/ i = n
  BY <1>1, <1>2
<1>4. PICK V, Q, m : /\ V = Append(W, v) /\ V = recorded'[c][l] /\ m = Len(W) + 1
                     /\ Q = RemoveAt(P, 1) /\ Q = pending'[c]
  OBVIOUS
<1>5. /\ V \in Seq(Nat) /\ Len(W) \in Nat /\ DOMAIN W = 1..Len(W) /\ DOMAIN V = 1..m
      /\ \A j \in DOMAIN W : V[j] = W[j]
      /\ V[m] = v
  BY <1>4, AppendOne
<1>6. m \in DOMAIN V /\ \A j \in DOMAIN V : j \in DOMAIN W \/ j = m
  BY <1>4, <1>5
<1>b. \A j, k \in DOMAIN V : j < k => j \in DOMAIN W
  BY <1>4, <1>5
<1>0. /\ 1 \in DOMAIN P /\ Len(P) \in Nat /\ DOMAIN P = 1..Len(P)
      /\ RemoveAt(P, 1) \in Seq(Nat)
      /\ DOMAIN RemoveAt(P, 1) = 1..(Len(P) - 1)
      /\ \A i \in 1..(Len(P) - 1) : RemoveAt(P, 1)[i] = P[i + 1]
  BY RemoveFirstOne
<1>k. PICK size \in Nat : size = Len(P)
  BY <1>0
<1>7. /\ 1 \in DOMAIN P /\ DOMAIN P = 1..size /\ DOMAIN Q = 1..(size - 1)
      /\ \A p \in DOMAIN Q : Q[p] = P[p + 1]
  BY <1>0, <1>4, <1>k
<1>a. /\ \A p \in 1..(size - 1) : p + 1 \in 1..size /\ 1 < p + 1
      /\ \A p \in 1..size : p # 1 => p - 1 \in 1..(size - 1) /\ (p - 1) + 1 = p
  OBVIOUS
<1>8. \A p \in DOMAIN Q : p + 1 \in DOMAIN P /\ 1 < p + 1
  BY <1>7, <1>a
<1>9. \A p \in DOMAIN P : P[p] \in DOMAIN script /\ Consumes(P[p], c, l) /\ script[P[p]].op = "Irecv"
  BY DEF PendingOK, Consumes
<1>10. v \in DOMAIN script /\ Consumes(v, c, l) /\ v # NoValue /\ Wanted(v) = v
  <2>1. v \in DOMAIN script /\ Consumes(v, c, l)
    BY <1>7, <1>9
  <2> QED
    BY <2>1, WantedInOrder
<1>11. \A j \in DOMAIN W : W[j] # NoValue /\ W[j] < v
  BY <1>7 DEF PendingOK
<1>12. \A j \in DOMAIN V : \E i \in DOMAIN script' : Consumes(i, c, l)' /\ V[j] = Wanted(i)'
  <2> SUFFICES ASSUME NEW j \in DOMAIN V
               PROVE  \E i \in DOMAIN script' : Consumes(i, c, l)' /\ V[j] = Wanted(i)'
    OBVIOUS
  <2>1. CASE j \in DOMAIN W
    <3>1. PICK i \in DOMAIN script : Consumes(i, c, l) /\ W[j] = Wanted(i)
      BY <2>1, <1>11 DEF InOrder
    <3> QED
      BY <3>1, <2>1, <1>2, <1>5
  <2>2. CASE j = m
    BY <2>2, <1>2, <1>5, <1>10
  <2> QED
    BY <2>1, <2>2, <1>6
<1>13. \A j, k \in DOMAIN V : j < k => V[j] # NoValue /\ V[j] < V[k]
  <2> SUFFICES ASSUME NEW j \in DOMAIN V, NEW k \in DOMAIN V, j < k
               PROVE  V[j] # NoValue /\ V[j] < V[k]
    OBVIOUS
  <2>0. j \in DOMAIN W
    BY <1>b
  <2>1. j \in DOMAIN W /\ V[j] = W[j] /\ V[j] # NoValue
    BY <2>0, <1>5, <1>11
  <2>2. CASE k \in DOMAIN W
    BY <2>1, <2>2, <1>5, <1>11 DEF InOrder
  <2>3. CASE k = m
    BY <2>1, <2>3, <1>5, <1>11
  <2> QED
    BY <2>1, <2>2, <2>3, <1>6
<1>14. InOrder(c, l)'
  BY <1>4, <1>12, <1>13 DEF InOrder
<1>15. Kept(c, l)'
  <2> SUFFICES ASSUME NEW i \in DOMAIN script', Consumes(i, c, l)'
               PROVE  \/ \E j \in DOMAIN V : V[j] = Wanted(i)'
                      \/ \E p \in DOMAIN Q : Q[p] = i
    BY <1>4 DEF Kept
  <2>1. i \in DOMAIN script /\ Consumes(i, c, l) /\ Wanted(i)' = Wanted(i)
    BY <1>2, <1>3
  <2>2. \/ \E j \in DOMAIN W : W[j] = Wanted(i)
        \/ \E p \in DOMAIN P : P[p] = i
    BY <2>1 DEF Kept
  <2>3. ASSUME NEW j \in DOMAIN W, W[j] = Wanted(i) PROVE j \in DOMAIN V /\ V[j] = Wanted(i)'
    BY <2>1, <2>3, <1>4, <1>5
  <2>4. ASSUME NEW p \in DOMAIN P, P[p] = i
        PROVE  \/ \E j \in DOMAIN V : V[j] = Wanted(i)'
               \/ \E q \in DOMAIN Q : Q[q] = i
    <3>1. CASE p = 1
      BY <3>1, <2>1, <2>4, <1>5, <1>6, <1>10
    <3>2. CASE p # 1
      <4>1. p - 1 \in DOMAIN Q /\ (p - 1) + 1 = p
        BY <3>2, <1>7, <1>a
      <4>2. Q[p - 1] = i
        BY <4>1, <2>4, <1>7
      <4> QED
        BY <4>1, <4>2
    <3> QED
      BY <3>1, <3>2
  <2> QED
    BY <2>2, <2>3, <2>4
<1>16. \A p \in DOMAIN Q : Consumes(Q[p], c, l)' /\ script'[Q[p]].op = "Irecv"
  <2> SUFFICES ASSUME NEW p \in DOMAIN Q PROVE Consumes(Q[p], c, l)' /\ script'[Q[p]].op = "Irecv"
    OBVIOUS
  <2>1. PICK i \in DOMAIN script : i = Q[p] /\ Consumes(i, c, l) /\ script[i].op = "Irecv"
    BY <1>7, <1>8, <1>9
  <2>2. Consumes(i, c, l)' /\ script'[i].op = "Irecv"
    BY <2>1, <1>2
  <2> QED
    BY <2>1, <2>2
<1>17. \A p, q \in DOMAIN Q : p < q => Q[p] < Q[q]
  <2> SUFFICES ASSUME NEW p \in DOMAIN Q, NEW q \in DOMAIN Q, p < q PROVE Q[p] < Q[q]
    OBVIOUS
  <2>1. p + 1 < q + 1
    BY <1>7
  <2> QED
    BY <2>1, <1>7, <1>8 DEF PendingOK
<1>18. \A p \in DOMAIN Q, j \in DOMAIN V : V[j] # NoValue /\ V[j] < Q[p]
  <2> SUFFICES ASSUME NEW p \in DOMAIN Q, NEW j \in DOMAIN V PROVE V[j] # NoValue /\ V[j] < Q[p]
    OBVIOUS
  <2>1. CASE j \in DOMAIN W
    BY <2>1, <1>5, <1>7, <1>8 DEF PendingOK
  <2>2. CASE j = m
    <3>1. P[1] < P[p + 1]
      BY <1>7, <1>8 DEF PendingOK
    <3> QED
      BY <3>1, <2>2, <1>5, <1>7, <1>10
  <2> QED
    BY <2>1, <2>2, <1>6
<1>19. PendingOK(c)'
  <2>1. recorded'[c].received_buffers = V
    BY <1>4
  <2> QED
    BY <2>1, <1>4, <1>16, <1>17, <1>18 DEF PendingOK
<1> QED
  BY <1>14, <1>15, <1>19

-----------------------------------------------------------------------------
(* The steps of the writer.                                                *)

LEMMA StoreFacts ==
  ASSUME recorded \in [Comms -> [Lists -> Seq(Nat)]],
         NEW c \in Comms, NEW l \in Lists, NEW v \in Nat, Store(c, l, v)
  PROVE  /\ recorded' \in [Comms -> [Lists -> Seq(Nat)]]
         /\ recorded[c][l] \in Seq(Nat)
         /\ recorded'[c][l] = Append(recorded[c][l], v)
         /\ \A d \in Comms, m \in Lists : d # c \/ m # l => recorded'[d][m] = recorded[d][m]
<1>1. PICK V : V = Append(recorded[c][l], v)
  OBVIOUS
<1>2. recorded[c][l] \in Seq(Nat) /\ V \in Seq(Nat)
  BY <1>1
<1>3. recorded' = [recorded EXCEPT ![c][l] = V]
  BY <1>1 DEF Store
<1> QED
  BY <1>1, <1>2, <1>3

\* A disciplined program receives where nothing is pending and no None is recorded.
LEMMA MayReceiveFacts ==
  ASSUME Disciplined, RecordedOK, NEW c \in Comms
  PROVE  /\ recorded[c].received_buffers \in Seq(Nat)
         /\ MayReceive(c) => pending[c] = <<>> /\ ~ Gathered(c)
         /\ ~ Gathered(c) => \A j \in DOMAIN recorded[c].received_buffers :
                               recorded[c].received_buffers[j] # NoValue
<1>1. "received_buffers" \in Lists
  BY DEF Lists
<1>2. recorded[c].received_buffers \in Seq(Nat)
  BY <1>1 DEF RecordedOK
<1>3. PICK W \in Seq(Nat) : W = recorded[c].received_buffers
  BY <1>2
<1>4. DOMAIN W = 1..Len(W)
  OBVIOUS
<1> QED
  BY <1>3, <1>4 DEF MayReceive, Gathered, Contains

LEMMA RecordResultStep ==
  ASSUME Disciplined, ProgramOK, RecordedOK,
         NEW c \in Comms, NEW op \in Calls, RecordResult(op, c)
  PROVE  ProgramOK' /\ RecordedOK'
<1>1. /\ op \notin {"wait", "Irecv", "Split", "GatherOther"} /\ NoValue \in Nat
      /\ Call(op, c, NoValue) /\ Store(c, ListOf(op), Len(script) + 1)
      /\ pending' = pending /\ comms' = comms
  BY CallsAssumption DEF RecordResult, NoValue
<1>2. Grows(op, c, NoValue)
  BY <1>1 DEF Grows
<1>3. ProgramOK'
  BY <1>2, ProgramGrows
<1>4. PICK l \in Lists : l = ListOf(op)
  BY DEF Lists, ListOf
<1>5. PICK v \in Nat : v = Len(script) + 1
  BY DEF ProgramOK
<1>6. Store(c, l, v)
  BY <1>1, <1>4, <1>5
<1>7. /\ recorded' \in [Comms -> [Lists -> Seq(Nat)]]
      /\ recorded[c][l] \in Seq(Nat)
      /\ recorded'[c][l] = Append(recorded[c][l], v)
      /\ \A d \in Comms, m \in Lists : d # c \/ m # l => recorded'[d][m] = recorded[d][m]
  BY <1>6, StoreFacts DEF RecordedOK
<1>8. l = "received_buffers" =>
        pending[c] = <<>> /\ \A j \in DOMAIN recorded[c][l] : recorded[c][l][j] # NoValue
  BY <1>4, MayReceiveFacts DEF RecordResult
<1>9. \A j \in DOMAIN recorded[c][l] : recorded[c][l][j] # NoValue
  BY <1>8 DEF RecordedOK, InOrder
<1>10. InOrder(c, l)' /\ Kept(c, l)'
  <2>1. PICK W \in Seq(Nat) : W = recorded[c][l]
    BY <1>7
  <2>2. op \notin {"wait", "GatherOther", "Irecv"}
    BY <1>1
  <2>3. v = IF op = "Split" THEN comms + 1 ELSE Len(script) + 1
    BY <1>1, <1>5
  <2>4. recorded'[c][l] = Append(W, v)
    BY <1>7, <2>1
  <2>5. \A j \in DOMAIN W : W[j] # NoValue
    BY <1>9, <2>1
  <2>6. l = "received_buffers" => pending[c] = <<>>
    BY <1>8
  <2>7. InOrder(c, l) /\ Kept(c, l)
    BY DEF RecordedOK
  <2>8. Stores(op, c, l, v, W)
    BY <1>4, <2>1, <2>2, <2>3, <2>4, <2>5, <2>6, <2>7 DEF Stores
  <2> QED
    BY <1>2, <2>8, ListAppended
<1>11. ASSUME NEW d \in Comms, NEW m \in Lists, d # c \/ m # l
       PROVE  InOrder(d, m)' /\ Kept(d, m)'
  <2>1. /\ recorded'[d][m] = recorded[d][m] /\ pending'[d] = pending[d]
        /\ InOrder(d, m) /\ Kept(d, m)
        /\ op \in {"wait", "GatherOther"} \/ d # c \/ m # ListOf(op)
    BY <1>1, <1>4, <1>7, <1>11 DEF RecordedOK
  <2> QED
    BY <2>1, <1>2, ListUntouched
<1>12. ASSUME NEW d \in Comms PROVE PendingOK(d)'
  <2>0. "received_buffers" \in Lists
    BY DEF Lists
  <2>1. /\ PendingOK(d) /\ pending'[d] = pending[d]
        /\ pending[d] = <<>> \/ recorded'[d].received_buffers = recorded[d].received_buffers
    BY <1>1, <1>7, <1>8, <2>0 DEF RecordedOK
  <2> QED
    BY <2>1, <1>2, PendingUntouched
<1>13. \A d \in Comms, m \in Lists : InOrder(d, m)' /\ Kept(d, m)'
  BY <1>10, <1>11
<1>14. pending' \in [Comms -> Seq(Nat)]
  BY <1>1 DEF RecordedOK
<1> QED
  BY <1>3, <1>7, <1>12, <1>13, <1>14 DEF RecordedOK

LEMMA RecordGatherOtherStep ==
  ASSUME Disciplined, ProgramOK, RecordedOK,
         NEW c \in Comms, RecordGatherOther(c)
  PROVE  ProgramOK' /\ RecordedOK'
<1>1. /\ "GatherOther" \in Calls /\ pending[c] = <<>> /\ NoValue \in Nat
      /\ Call("GatherOther", c, NoValue) /\ Store(c, "received_buffers", NoValue)
      /\ pending' = pending /\ comms' = comms
  BY DEF RecordGatherOther, NoValue
<1>2. Grows("GatherOther", c, NoValue)
  BY <1>1 DEF Grows
<1>3. ProgramOK'
  BY <1>2, ProgramGrows
<1>4. PICK l \in Lists : l = "received_buffers"
  BY DEF Lists
<1>5. /\ recorded' \in [Comms -> [Lists -> Seq(Nat)]]
      /\ recorded[c][l] \in Seq(Nat)
      /\ recorded'[c][l] = Append(recorded[c][l], NoValue)
      /\ \A d \in Comms, m \in Lists : d # c \/ m # l => recorded'[d][m] = recorded[d][m]
  BY <1>1, <1>4, StoreFacts DEF RecordedOK
<1>6. InOrder(c, l)' /\ Kept(c, l)'
  <2>1. PICK W \in Seq(Nat) : W = recorded[c][l]
    BY <1>5
  <2>2. InOrder(c, l) /\ Kept(c, l) /\ recorded'[c][l] = Append(W, NoValue)
    BY <1>5, <2>1 DEF RecordedOK
  <2> QED
    BY <1>1, <1>2, <1>4, <2>1, <2>2, NoneAppended
<1>7. ASSUME NEW d \in Comms, NEW m \in Lists, d # c \/ m # l
      PROVE  InOrder(d, m)' /\ Kept(d, m)'
  <2>1. /\ recorded'[d][m] = recorded[d][m] /\ pending'[d] = pending[d]
        /\ InOrder(d, m) /\ Kept(d, m)
    BY <1>1, <1>5, <1>7 DEF RecordedOK
  <2> QED
    BY <2>1, <1>2, ListUntouched
<1>8. ASSUME NEW d \in Comms PROVE PendingOK(d)'
  <2>1. /\ PendingOK(d) /\ pending'[d] = pending[d]
        /\ pending[d] = <<>> \/ recorded'[d].received_buffers = recorded[d].received_buffers
    BY <1>1, <1>4, <1>5 DEF RecordedOK
  <2> QED
    BY <2>1, <1>2, PendingUntouched
<1>9. \A d \in Comms, m \in Lists : InOrder(d, m)' /\ Kept(d, m)'
  BY <1>6, <1>7
<1>10. pending' \in [Comms -> Seq(Nat)]
  BY <1>1 DEF RecordedOK
<1> QED
  BY <1>3, <1>5, <1>8, <1>9, <1>10 DEF RecordedOK

LEMMA RecordIrecvStep ==
  ASSUME Disciplined, ProgramOK, RecordedOK,
         NEW c \in Comms, RecordIrecv(c)
  PROVE  ProgramOK' /\ RecordedOK'
<1>1. PICK n \in Nat : n = Len(script) + 1
  BY DEF ProgramOK
<1>2. /\ "Irecv" \in Calls /\ ~ Gathered(c) /\ NoValue \in Nat
      /\ Call("Irecv", c, NoValue)
      /\ pending' = [pending EXCEPT ![c] = Append(@, n)]
      /\ recorded' = recorded /\ comms' = comms
  BY <1>1 DEF RecordIrecv, NoValue
<1>3. Grows("Irecv", c, NoValue)
  BY <1>2 DEF Grows
<1>4. ProgramOK'
  BY <1>3, ProgramGrows
<1>5. PICK l \in Lists : l = "received_buffers"
  BY DEF Lists
<1>6. PICK P \in Seq(Nat) : P = pending[c]
  BY DEF RecordedOK
<1>7. PICK W \in Seq(Nat) : W = recorded[c][l]
  BY DEF RecordedOK
<1>8. /\ pending'[c] = Append(P, n) /\ Append(P, n) \in Seq(Nat)
      /\ \A d \in Comms : d # c => pending'[d] = pending[d]
  BY <1>2, <1>6 DEF RecordedOK
<1>9. pending' \in [Comms -> Seq(Nat)]
  BY <1>2, <1>6, <1>8 DEF RecordedOK
<1>10. \A j \in DOMAIN W : W[j] # NoValue
  BY <1>2, <1>5, <1>7, MayReceiveFacts
<1>11. InOrder(c, l)' /\ Kept(c, l)' /\ PendingOK(c)'
  <2>1. InOrder(c, l) /\ Kept(c, l) /\ PendingOK(c) /\ recorded'[c][l] = W
    BY <1>2, <1>7 DEF RecordedOK
  <2> QED
    BY <1>1, <1>3, <1>5, <1>6, <1>7, <1>8, <1>10, <2>1, ReceivePosted
<1>12. ASSUME NEW d \in Comms, NEW m \in Lists, d # c \/ m # l
       PROVE  InOrder(d, m)' /\ Kept(d, m)'
  <2>1. /\ recorded'[d][m] = recorded[d][m] /\ InOrder(d, m) /\ Kept(d, m)
        /\ m = "received_buffers" => pending'[d] = pending[d]
        /\ d # c \/ m # ListOf("Irecv")
    BY <1>2, <1>5, <1>8, <1>12 DEF RecordedOK, ListOf
  <2> QED
    BY <2>1, <1>3, ListUntouched
<1>13. ASSUME NEW d \in Comms, d # c PROVE PendingOK(d)'
  <2>1. /\ PendingOK(d) /\ pending'[d] = pending[d]
        /\ recorded'[d].received_buffers = recorded[d].received_buffers
    BY <1>2, <1>8, <1>13 DEF RecordedOK
  <2> QED
    BY <2>1, <1>3, PendingUntouched
<1>14. \A d \in Comms, m \in Lists : InOrder(d, m)' /\ Kept(d, m)'
  BY <1>11, <1>12
<1>15. \A d \in Comms : PendingOK(d)'
  BY <1>11, <1>13
<1>16. recorded' \in [Comms -> [Lists -> Seq(Nat)]]
  BY <1>2 DEF RecordedOK
<1> QED
  BY <1>4, <1>9, <1>14, <1>15, <1>16 DEF RecordedOK

LEMMA RecordWaitStep ==
  ASSUME Disciplined, ProgramOK, RecordedOK,
         NEW c \in Comms, RecordWait(c)
  PROVE  ProgramOK' /\ RecordedOK'
<1>1. PICK P \in Seq(Nat) : P = pending[c]
  BY DEF RecordedOK
<1>2. /\ 1 \in DOMAIN P /\ Call("wait", c, P[1]) /\ Store(c, "received_buffers", P[1])
      /\ pending' = [pending EXCEPT ![c] = RemoveAt(P, 1)] /\ comms' = comms
  BY <1>1 DEF RecordWait
<1>3. P # <<>> /\ P[1] \in Nat
  BY <1>2
<1>4. PICK v \in Nat : v = P[1]
  BY <1>3
<1>5. PICK l \in Lists : l = "received_buffers"
  BY DEF Lists
<1>6. v \in DOMAIN script /\ script[v].op = "Irecv"
  BY <1>1, <1>2, <1>4 DEF RecordedOK, PendingOK, Consumes
<1>7. Grows("wait", c, v)
  <2>1. DOMAIN script = 1..Len(script)
    BY DEF ProgramOK
  <2> QED
    BY <2>1, <1>2, <1>4, <1>6 DEF Grows
<1>8. ProgramOK'
  BY <1>7, ProgramGrows
<1>9. Store(c, l, v)
  BY <1>2, <1>4, <1>5
<1>10. /\ recorded' \in [Comms -> [Lists -> Seq(Nat)]]
       /\ recorded[c][l] \in Seq(Nat)
       /\ recorded'[c][l] = Append(recorded[c][l], v)
       /\ \A d \in Comms, m \in Lists : d # c \/ m # l => recorded'[d][m] = recorded[d][m]
  BY <1>9, StoreFacts DEF RecordedOK
<1>11. PICK Q \in Seq(Nat) : Q = RemoveAt(P, 1)
  BY <1>3, RemoveFirstOne
<1>12. /\ pending'[c] = RemoveAt(P, 1)
       /\ \A d \in Comms : d # c => pending'[d] = pending[d]
  BY <1>2 DEF RecordedOK
<1>13. pending' \in [Comms -> Seq(Nat)]
  BY <1>2, <1>11 DEF RecordedOK
<1>14. InOrder(c, l)' /\ Kept(c, l)' /\ PendingOK(c)'
  <2>1. PICK W \in Seq(Nat) : W = recorded[c][l]
    BY <1>10
  <2>2. InOrder(c, l) /\ Kept(c, l) /\ PendingOK(c)
    BY DEF RecordedOK
  <2>3. recorded'[c][l] = Append(W, v)
    BY <1>10, <2>1
  <2> QED
    BY <1>1, <1>3, <1>4, <1>5, <1>7, <1>12, <2>1, <2>2, <2>3, ReceiveWaited
<1>15. ASSUME NEW d \in Comms, NEW m \in Lists, d # c \/ m # l
       PROVE  InOrder(d, m)' /\ Kept(d, m)'
  <2>1. /\ recorded'[d][m] = recorded[d][m] /\ InOrder(d, m) /\ Kept(d, m)
        /\ m = "received_buffers" => pending'[d] = pending[d]
    BY <1>5, <1>10, <1>12, <1>15 DEF RecordedOK
  <2> QED
    BY <2>1, <1>7, ListUntouched
<1>16. ASSUME NEW d \in Comms, d # c PROVE PendingOK(d)'
  <2>1. /\ PendingOK(d) /\ pending'[d] = pending[d]
        /\ recorded'[d].received_buffers = recorded[d].received_buffers
    BY <1>5, <1>10, <1>12, <1>16 DEF RecordedOK
  <2> QED
    BY <2>1, <1>7, PendingUntouched
<1>17. \A d \in Comms, m \in Lists : InOrder(d, m)' /\ Kept(d, m)'
  BY <1>14, <1>15
<1>18. \A d \in Comms : PendingOK(d)'
  BY <1>14, <1>16
<1> QED
  BY <1>8, <1>10, <1>13, <1>17, <1>18 DEF RecordedOK

LEMMA RecordSplitStep ==
  ASSUME Disciplined, ProgramOK, RecordedOK,
         NEW c \in Comms, RecordSplit(c)
  PROVE  ProgramOK' /\ RecordedOK'
<1>1. PICK v \in Nat : v = comms + 1
  BY DEF ProgramOK, Comms
<1>2. /\ "Split" \in Calls /\ comms < MaxComms
      /\ Call("Split", c, v) /\ Store(c, "split_data", v)
      /\ pending' = pending /\ comms' = comms + 1
  BY <1>1 DEF RecordSplit
<1>3. Grows("Split", c, v)
  BY <1>1, <1>2 DEF Grows
<1>4. ProgramOK'
  BY <1>3, ProgramGrows
<1>5. PICK l \in Lists : l = "split_data"
  BY DEF Lists
<1>6. /\ recorded' \in [Comms -> [Lists -> Seq(Nat)]]
      /\ recorded[c][l] \in Seq(Nat)
      /\ recorded'[c][l] = Append(recorded[c][l], v)
      /\ \A d \in Comms, m \in Lists : d # c \/ m # l => recorded'[d][m] = recorded[d][m]
  BY <1>2, <1>5, StoreFacts DEF RecordedOK
<1>7. InOrder(c, l)' /\ Kept(c, l)'
  <2>1. PICK W \in Seq(Nat) : W = recorded[c][l]
    BY <1>6
  <2>2. \A j \in DOMAIN W : W[j] # NoValue
    BY <1>5, <2>1 DEF RecordedOK, InOrder
  <2>3. InOrder(c, l) /\ Kept(c, l)
    BY DEF RecordedOK
  <2>4. Stores("Split", c, l, v, W)
    BY <1>1, <1>5, <1>6, <2>1, <2>2, <2>3 DEF Stores, ListOf
  <2> QED
    BY <1>3, <2>4, ListAppended
<1>8. ASSUME NEW d \in Comms, NEW m \in Lists, d # c \/ m # l
      PROVE  InOrder(d, m)' /\ Kept(d, m)'
  <2>1. /\ recorded'[d][m] = recorded[d][m] /\ pending'[d] = pending[d]
        /\ InOrder(d, m) /\ Kept(d, m)
        /\ d # c \/ m # ListOf("Split")
    BY <1>2, <1>5, <1>6, <1>8 DEF RecordedOK, ListOf
  <2> QED
    BY <2>1, <1>3, ListUntouched
<1>9. ASSUME NEW d \in Comms PROVE PendingOK(d)'
  <2>0. "received_buffers" \in Lists
    BY DEF Lists
  <2>1. /\ PendingOK(d) /\ pending'[d] = pending[d]
        /\ recorded'[d].received_buffers = recorded[d].received_buffers
    BY <1>2, <1>5, <1>6, <2>0 DEF RecordedOK
  <2> QED
    BY <2>1, <1>3, PendingUntouched
<1>10. \A d \in Comms, m \in Lists : InOrder(d, m)' /\ Kept(d, m)'
  BY <1>7, <1>8
<1>11. pending' \in [Comms -> Seq(Nat)]
  BY <1>2 DEF RecordedOK
<1> QED
  BY <1>4, <1>6, <1>9, <1>10, <1>11 DEF RecordedOK

\* While the program is recorded nothing is replayed.
LEMMA NothingReplayed ==
  ASSUME ProgramOK', RecordedOK', ReplayOK, ~ saved, UNCHANGED <<saved, index, reader_of, held, replayed>>
  PROVE  ReplayOK'
<1>1. /\ replayed' = <<>> /\ ~ saved' /\ index' = index /\ Len(replayed') = 0
  BY DEF ReplayOK
<1>2. Len(script') \in Nat /\ DOMAIN script' = 1..Len(script')
  BY DEF ProgramOK
<1>3. ReplayFaithful'
  BY <1>1 DEF ReplayFaithful
<1>4. \A c \in Comms, l \in Lists : TakenOK(c, l)'
  <2> SUFFICES ASSUME NEW c \in Comms, NEW l \in Lists,
                      NEW j \in DOMAIN recorded'[c][l], NEW i \in DOMAIN script'
               PROVE  j <= index'[c][l] <=> i <= Len(replayed')
    BY DEF TakenOK
  <2>1. recorded'[c][l] \in Seq(Nat)
    BY DEF RecordedOK
  <2>2. j \in Nat /\ j >= 1 /\ i \in Nat /\ i >= 1
    BY <2>1, <1>2
  <2>3. index'[c][l] = 0
    BY <1>1 DEF ReplayOK
  <2> QED
    BY <1>1, <2>2, <2>3
<1> QED
  BY <1>1, <1>2, <1>3, <1>4 DEF ReplayOK

-----------------------------------------------------------------------------
(* The steps of the reader.                                                *)

\* How far the replay is.
LEMMA Sizes ==
  ASSUME ProgramOK, ReplayOK
  PROVE  /\ DOMAIN script = 1..Len(script) /\ Len(script) \in Nat
         /\ Len(replayed) \in Nat /\ Len(replayed) <= Len(script)
<1>1. PICK S : script \in Seq(S)
  BY DEF ProgramOK
<1>2. DOMAIN script = 1..Len(script) /\ Len(script) \in Nat
  BY <1>1
<1>3. replayed \in Seq(Int) /\ Len(replayed) <= Len(script)
  BY DEF ReplayOK
<1>4. Len(replayed) \in Nat
  BY <1>3
<1> QED
  BY <1>2, <1>3, <1>4

\* The call replayed next, on the communicator that stands for the one it was made on.
LEMMA NextCall ==
  ASSUME ProgramOK, ReplayOK, Replaying
  PROVE  /\ Len(replayed) + 1 \in DOMAIN script /\ Len(replayed) \in Nat
         /\ script[Len(replayed) + 1].comm \in Comms
         /\ reader_of[script[Len(replayed) + 1].comm] = script[Len(replayed) + 1].comm
<1>1. PICK r : r = Len(replayed) + 1
  OBVIOUS
<1>2. /\ Len(replayed) \in Nat /\ r \in DOMAIN script /\ r \in Nat
      /\ Len(replayed) < Len(script) /\ DOMAIN script = 1..Len(script)
  BY <1>1, Sizes DEF Replaying
<1>3. script[r].comm \in Comms
  <2>1. PICK S : S = [op : Calls \union {"wait"}, comm : Comms, arg : Nat]
    OBVIOUS
  <2>2. script \in Seq(S)
    BY <2>1 DEF ProgramOK
  <2>3. script[r] \in S
    BY <2>2, <1>2
  <2> QED
    BY <2>1, <2>3
<1>4. reader_of[script[r].comm] = script[r].comm
  <2>1. CASE script[r].comm = 1
    BY <2>1 DEF ReplayOK
  <2>2. CASE script[r].comm # 1
    <3>1. PICK j \in 1..(r - 1) : script[j].op = "Split" /\ script[j].arg = script[r].comm
      BY <2>2, <1>2 DEF ProgramOK
    <3>2. j \in 1..Len(replayed)
      BY <1>1, <1>2
    <3> QED
      BY <3>1, <3>2 DEF ReplayOK
  <2> QED
    BY <2>1, <2>2
<1> QED
  BY <1>1, <1>2, <1>3, <1>4

\* The next element of the list is the one that the next call wants.
LEMMA NextElement ==
  ASSUME ProgramOK, RecordedOK, ReplayOK, saved, NEW c \in Comms, NEW l \in Lists,
         NEW r, r = Len(replayed) + 1, Consumes(r, c, l)
  PROVE  /\ index[c][l] + 1 \in DOMAIN recorded[c][l]
         /\ recorded[c][l][index[c][l] + 1] = Wanted(r)
         /\ get_value(c, l) = Wanted(r)
<1>1. PICK W \in Seq(Nat) : W = recorded[c][l]
  BY DEF RecordedOK
<1>2. PICK k \in Nat : k = index[c][l]
  BY DEF ReplayOK
<1>3. /\ Len(W) \in Nat /\ DOMAIN W = 1..Len(W) /\ r \in DOMAIN script /\ Len(replayed) \in Nat
      /\ DOMAIN script = 1..Len(script) /\ Len(script) \in Nat
  <2>1. Len(W) \in Nat /\ DOMAIN W = 1..Len(W)
    OBVIOUS
  <2>2. r \in DOMAIN script
    BY DEF Consumes
  <2> QED
    BY <2>1, <2>2, Sizes
<1>4. PICK j \in DOMAIN W : W[j] = Wanted(r)
  <2>1. DOMAIN pending[c] = {}
    BY DEF ReplayOK
  <2> QED
    BY <2>1, <1>1, <1>3 DEF RecordedOK, Kept
<1>5. Wanted(r) # NoValue
  BY <1>3, WantedInOrder
<1>6. j > k
  <2>1. j <= index[c][l] <=> r <= Len(replayed)
    BY <1>1, <1>3, <1>4 DEF ReplayOK, TakenOK
  <2> QED
    BY <2>1, <1>2, <1>3
<1>7. k + 1 \in DOMAIN W
  BY <1>3, <1>6
<1>8. j = k + 1
  <2> SUFFICES ASSUME j # k + 1 PROVE FALSE
    OBVIOUS
  <2>1. k + 1 < j
    BY <1>3, <1>6
  <2>2. W[k + 1] # NoValue /\ W[k + 1] < W[j]
    BY <2>1, <1>1, <1>4, <1>5, <1>7 DEF RecordedOK, InOrder
  <2>3. PICK i \in DOMAIN script : Consumes(i, c, l) /\ W[k + 1] = Wanted(i)
    BY <2>2, <1>1, <1>7 DEF RecordedOK, InOrder
  <2>4. k + 1 <= index[c][l] <=> i <= Len(replayed)
    BY <2>3, <1>1, <1>7 DEF ReplayOK, TakenOK
  <2>5. i > Len(replayed)
    BY <2>4, <1>2, <1>3
  <2>6. i = r \/ r < i
    BY <2>5, <1>3
  <2>7. Wanted(i) < Wanted(r)
    BY <2>2, <2>3, <1>4
  <2>8. Wanted(r) \in Nat /\ Wanted(i) \in Nat
    BY <2>3, <1>3, WantedInOrder
  <2>9. i = r \/ Wanted(r) < Wanted(i)
    BY <2>3, <2>6, <1>3, WantedInOrder
  <2> QED
    BY <2>7, <2>8, <2>9
<1>9. k < Len(W)
  BY <1>3, <1>7
<1>10. get_value(c, l) = W[k + 1]
  BY <1>1, <1>2, <1>9 DEF get_value
<1> QED
  BY <1>1, <1>2, <1>4, <1>7, <1>8, <1>10

\* A call that takes the next element.
LEMMA ElementTaken ==
  ASSUME ProgramOK, RecordedOK, ReplayOK, saved, NEW c \in Comms, NEW l \in Lists,
         NEW r, r = Len(replayed) + 1, Consumes(r, c, l),
         script' = script, recorded' = recorded, Len(replayed') = r,
         index' = get_index(c, l)
  PROVE  /\ index' \in [Comms -> [Lists -> Nat]]
         /\ \A d \in Comms, m \in Lists : TakenOK(d, m)'
<1>1. PICK k \in Nat : k = index[c][l]
  BY DEF ReplayOK
<1>2. /\ r \in DOMAIN script /\ Len(replayed) \in Nat
      /\ DOMAIN script = 1..Len(script) /\ Len(script) \in Nat
  BY Sizes DEF Consumes
<1>3. /\ index' \in [Comms -> [Lists -> Nat]] /\ index'[c][l] = k + 1
      /\ \A d \in Comms, m \in Lists : d # c \/ m # l => index'[d][m] = index[d][m]
  <2>1. index' = [index EXCEPT ![c][l] = k + 1] /\ k + 1 \in Nat
    BY <1>1 DEF get_index
  <2> QED
    BY <2>1 DEF ReplayOK
<1>4. k + 1 \in DOMAIN recorded[c][l] /\ recorded[c][l][k + 1] = Wanted(r)
  BY <1>1, NextElement
<1>5. \A i \in DOMAIN script, d \in Comms, m \in Lists : Consumes(i, d, m)' <=> Consumes(i, d, m)
  BY DEF Consumes, ListOf
<1>6. \A i \in DOMAIN script : Wanted(i)' = Wanted(i)
  BY DEF Wanted
<1>7. ASSUME NEW d \in Comms, NEW m \in Lists, NEW j \in DOMAIN recorded[d][m],
             NEW i \in DOMAIN script, Consumes(i, d, m), recorded[d][m][j] = Wanted(i)
      PROVE  j <= index'[d][m] <=> i <= r
  <2>1. recorded[d][m] \in Seq(Nat)
    BY DEF RecordedOK
  <2>2. j \in Nat /\ i \in Nat /\ r \in Nat /\ index[d][m] \in Nat
    <3>1. index[d][m] \in Nat
      BY DEF ReplayOK
    <3>2. j \in Nat
      BY <2>1
    <3> QED
      BY <3>1, <3>2, <1>2
  <2>3. j <= index[d][m] <=> i <= Len(replayed)
    BY <1>7 DEF ReplayOK, TakenOK
  <2>4. CASE d = c /\ m = l
    <3>1. PICK W \in Seq(Nat) : W = recorded[c][l]
      BY <2>1, <2>4
    <3>2. j \in DOMAIN W /\ k + 1 \in DOMAIN W /\ W[j] = Wanted(i) /\ W[k + 1] = Wanted(r)
      BY <3>1, <2>4, <1>4, <1>7
    <3>3. Wanted(i) # NoValue /\ Wanted(r) # NoValue /\ Wanted(i) \in Nat /\ Wanted(r) \in Nat
      BY <2>4, <1>2, <1>7, WantedInOrder
    <3>4. /\ i < r => Wanted(i) < Wanted(r)
          /\ r < i => Wanted(r) < Wanted(i)
      BY <2>4, <1>2, <1>7, WantedInOrder
    <3>5. /\ j < k + 1 => W[j] < W[k + 1]
          /\ k + 1 < j => W[k + 1] < W[j]
      BY <3>1, <3>2, <3>3 DEF RecordedOK, InOrder
    <3>6. j <= k + 1 <=> Wanted(i) <= Wanted(r)
      BY <3>2, <3>3, <3>5, <2>2
    <3>7. i <= r <=> Wanted(i) <= Wanted(r)
      BY <3>3, <3>4, <2>2
    <3> QED
      BY <3>6, <3>7, <2>4, <1>3
  <2>5. CASE d # c \/ m # l
    <3>1. i # r
      BY <2>5, <1>7 DEF Consumes
    <3>2. i <= r <=> i <= Len(replayed)
      BY <3>1, <2>2, <1>2
    <3> QED
      BY <3>2, <2>3, <2>5, <1>3
  <2> QED
    BY <2>4, <2>5
<1>8. ASSUME NEW d \in Comms, NEW m \in Lists PROVE TakenOK(d, m)'
  <2> SUFFICES ASSUME NEW j \in DOMAIN recorded[d][m], NEW i \in DOMAIN script,
                      Consumes(i, d, m)', recorded[d][m][j] = Wanted(i)'
               PROVE  j <= index'[d][m] <=> i <= Len(replayed')
    BY DEF TakenOK
  <2>1. Consumes(i, d, m) /\ recorded[d][m][j] = Wanted(i)
    BY <1>5, <1>6
  <2> QED
    BY <2>1, <1>7
<1> QED
  BY <1>3, <1>8

\* A call that takes nothing.
LEMMA NothingTaken ==
  ASSUME ProgramOK, RecordedOK, ReplayOK, NEW r, r = Len(replayed) + 1, r \in DOMAIN script,
         script[r].op \in {"wait", "GatherOther"},
         script' = script, recorded' = recorded, index' = index, Len(replayed') = r
  PROVE  /\ index' \in [Comms -> [Lists -> Nat]]
         /\ \A d \in Comms, m \in Lists : TakenOK(d, m)'
<1>1. /\ Len(replayed) \in Nat
      /\ DOMAIN script = 1..Len(script) /\ Len(script) \in Nat
  BY Sizes
<1>2. \A i \in DOMAIN script, d \in Comms, m \in Lists :
        (Consumes(i, d, m)' <=> Consumes(i, d, m)) /\ Wanted(i)' = Wanted(i)
  BY DEF Consumes, ListOf, Wanted
<1>3. ASSUME NEW d \in Comms, NEW m \in Lists PROVE TakenOK(d, m)'
  <2> SUFFICES ASSUME NEW j \in DOMAIN recorded[d][m], NEW i \in DOMAIN script,
                      Consumes(i, d, m)', recorded[d][m][j] = Wanted(i)'
               PROVE  j <= index'[d][m] <=> i <= Len(replayed')
    BY DEF TakenOK
  <2>1. Consumes(i, d, m) /\ recorded[d][m][j] = Wanted(i)
    BY <1>2
  <2>2. j <= index[d][m] <=> i <= Len(replayed)
    BY <2>1 DEF ReplayOK, TakenOK
  <2>3. i # r /\ i \in Nat
    BY <2>1, <1>1 DEF Consumes
  <2> QED
    BY <2>2, <2>3, <1>1
<1> QED
  BY <1>3 DEF ReplayOK

\* The reader leaves what was recorded.
LEMMA RecordingKept ==
  ASSUME ProgramOK, RecordedOK, UNCHANGED <<script, recorded, pending, comms>>
  PROVE  ProgramOK' /\ RecordedOK'
<1>1. ProgramOK'
  BY DEF ProgramOK
<1>2. /\ \A i, c, l : Consumes(i, c, l)' <=> Consumes(i, c, l)
      /\ \A i : Wanted(i)' = Wanted(i)
  BY DEF Consumes, ListOf, Wanted
<1>3. \A c \in Comms : PendingOK(c)'
  BY <1>2 DEF RecordedOK, PendingOK
<1>4. \A c \in Comms, l \in Lists : InOrder(c, l)'
  BY <1>2 DEF RecordedOK, InOrder
<1>5. \A c \in Comms, l \in Lists : Kept(c, l)'
  BY <1>2 DEF RecordedOK, Kept
<1> QED
  BY <1>1, <1>3, <1>4, <1>5 DEF RecordedOK

\* What is left to show of a call that is replayed.
LEMMA OneReplayed ==
  ASSUME ProgramOK, RecordedOK, ReplayOK, Replaying, NEW r, r = Len(replayed) + 1,
         NEW v \in Int, v = Lived(r), ReplayReturns(v)
  PROVE  /\ ProgramOK' /\ RecordedOK' /\ ReplayFaithful' /\ Len(replayed') = r
         /\ replayed' \in Seq(Int) /\ Len(replayed') <= Len(script')
         /\ saved' = saved /\ saved /\ pending' = pending
         /\ script' = script /\ recorded' = recorded
<1>1. /\ saved' = saved /\ saved /\ pending' = pending
      /\ script' = script /\ recorded' = recorded /\ comms' = comms
      /\ replayed' = Append(replayed, v) /\ replayed \in Seq(Int)
  BY DEF ReplayReturns, Replaying, ReplayOK
<1>2. ProgramOK' /\ RecordedOK'
  BY <1>1, RecordingKept
<1>3. /\ replayed' \in Seq(Int) /\ Len(replayed) \in Nat
      /\ DOMAIN replayed = 1..Len(replayed) /\ DOMAIN replayed' = 1..(Len(replayed) + 1)
      /\ \A j \in DOMAIN replayed : replayed'[j] = replayed[j]
      /\ replayed'[Len(replayed) + 1] = v
  BY <1>1, AppendOne
<1>4. Len(replayed') = r
  BY <1>1
<1>5. Len(replayed') <= Len(script')
  <2>1. r \in DOMAIN script /\ DOMAIN script = 1..Len(script) /\ Len(script) \in Nat
    BY NextCall DEF ProgramOK
  <2> QED
    BY <2>1, <1>1, <1>4
<1>6. \A i : Lived(i)' = Lived(i)
  BY <1>1 DEF Lived
<1>7. ReplayFaithful'
  <2> SUFFICES ASSUME NEW i \in DOMAIN replayed' PROVE replayed'[i] = Lived(i)
    BY <1>6 DEF ReplayFaithful
  <2>1. CASE i \in DOMAIN replayed
    BY <2>1, <1>3 DEF ReplayOK, ReplayFaithful
  <2>2. CASE i = r
    BY <2>2, <1>3
  <2> QED
    BY <2>1, <2>2, <1>3
<1> QED
  BY <1>1, <1>2, <1>3, <1>4, <1>5, <1>7

\* What the reader put aside, and its communicators, after call r is replayed.
AsideOK(r) ==
  /\ held \in [1..MaxRecordedCalls -> Int] /\ reader_of \in [Comms -> Int] /\ reader_of[1] = 1
  /\ \A i \in 1..r : script[i].op = "Irecv" => held[i] = i
  /\ \A i \in 1..r : script[i].op = "Split" => reader_of[script[i].arg] = script[i].arg

LEMMA ReplayedStep ==
  ASSUME ProgramOK, RecordedOK, ReplayOK, Replaying, NEW r, r = Len(replayed) + 1,
         NEW v \in Int, v = Lived(r), ReplayReturns(v), AsideOK(r)',
         index' \in [Comms -> [Lists -> Nat]],
         \A d \in Comms, m \in Lists : TakenOK(d, m)'
  PROVE  ProgramOK' /\ RecordedOK' /\ ReplayOK'
<1>1. /\ ProgramOK' /\ RecordedOK' /\ ReplayFaithful' /\ Len(replayed') = r
      /\ replayed' \in Seq(Int) /\ Len(replayed') <= Len(script')
      /\ saved' = saved /\ saved /\ pending' = pending
  BY OneReplayed
<1>2. /\ held' \in [1..MaxRecordedCalls -> Int] /\ reader_of' \in [Comms -> Int] /\ reader_of'[1] = 1
      /\ \A i \in 1..r : script'[i].op = "Irecv" => held'[i] = i
      /\ \A i \in 1..r : script'[i].op = "Split" => reader_of'[script'[i].arg] = script'[i].arg
  BY DEF AsideOK
<1>3. saved' \in BOOLEAN /\ \A c \in Comms : pending'[c] = <<>>
  BY <1>1 DEF ReplayOK
<1> QED
  BY <1>1, <1>2, <1>3 DEF ReplayOK

\* Nothing is put aside by the other calls.
LEMMA NothingAside ==
  ASSUME ProgramOK, ReplayOK, Replaying, NEW r, r = Len(replayed) + 1,
         script[r].op \notin {"Irecv", "Split"},
         script' = script, held' = held, reader_of' = reader_of
  PROVE  AsideOK(r)'
<1>1. Len(replayed) \in Nat /\ \A i \in 1..r : i \in 1..Len(replayed) \/ i = r
  BY NextCall
<1> QED
  BY <1>1 DEF ReplayOK, AsideOK

LEMMA ReplayResultStep ==
  ASSUME ProgramOK, RecordedOK, ReplayOK, ReplayResult
  PROVE  ProgramOK' /\ RecordedOK' /\ ReplayOK'
<1>1. PICK r : r = Len(replayed) + 1
  OBVIOUS
<1>2. PICK c \in Comms : c = script[r].comm /\ reader_of[c] = c /\ r \in DOMAIN script
  BY <1>1, NextCall DEF ReplayResult
<1>3. PICK l \in Lists : l = ListOf(script[r].op)
  BY DEF ListOf, Lists
<1>4. /\ Replaying /\ saved /\ script[r].op \notin {"Irecv", "wait", "Split", "GatherOther"}
      /\ ReplayReturns(get_value(c, l)) /\ index' = get_index(c, l)
      /\ reader_of' = reader_of /\ held' = held
  BY <1>1, <1>2, <1>3 DEF ReplayResult, ThisCall, Replaying
<1>5. Consumes(r, c, l)
  BY <1>2, <1>3, <1>4 DEF Consumes
<1>6. Wanted(r) = r /\ Lived(r) = r /\ r \in Int
  <2>1. r \in Int
    BY <1>1, <1>4, NextCall
  <2> QED
    BY <2>1, <1>4 DEF Wanted, Lived
<1>7. get_value(c, l) = r
  BY <1>1, <1>4, <1>5, <1>6, NextElement
<1>8. PICK v \in Int : v = r
  BY <1>6
<1>9. v = Lived(r) /\ ReplayReturns(v)
  BY <1>4, <1>6, <1>7, <1>8
<1>10. Len(replayed') = r /\ script' = script /\ recorded' = recorded
  BY <1>1, <1>4, <1>9, OneReplayed
<1>11. /\ index' \in [Comms -> [Lists -> Nat]]
       /\ \A d \in Comms, m \in Lists : TakenOK(d, m)'
  BY <1>1, <1>4, <1>5, <1>10, ElementTaken
<1>12. AsideOK(r)'
  BY <1>1, <1>4, <1>10, NothingAside
<1> QED
  BY <1>1, <1>4, <1>9, <1>11, <1>12, ReplayedStep

LEMMA ReplayGatherOtherStep ==
  ASSUME ProgramOK, RecordedOK, ReplayOK, ReplayGatherOther
  PROVE  ProgramOK' /\ RecordedOK' /\ ReplayOK'
<1>1. PICK r : r = Len(replayed) + 1
  OBVIOUS
<1>2. /\ Replaying /\ script[r].op = "GatherOther" /\ ReplayReturns(NoValue)
      /\ index' = index /\ reader_of' = reader_of /\ held' = held
  BY <1>1 DEF ReplayGatherOther, ThisCall
<1>3. PICK v \in Int : v = NoValue
  BY DEF NoValue
<1>4. v = Lived(r) /\ ReplayReturns(v) /\ r \in DOMAIN script
  BY <1>1, <1>2, <1>3, NextCall DEF Lived
<1>5. Len(replayed') = r /\ script' = script /\ recorded' = recorded
  BY <1>1, <1>2, <1>4, OneReplayed
<1>6. /\ index' \in [Comms -> [Lists -> Nat]]
      /\ \A d \in Comms, m \in Lists : TakenOK(d, m)'
  BY <1>1, <1>2, <1>4, <1>5, NothingTaken
<1>7. AsideOK(r)'
  BY <1>1, <1>2, <1>5, NothingAside
<1> QED
  BY <1>1, <1>2, <1>4, <1>6, <1>7, ReplayedStep

LEMMA ReplayWaitStep ==
  ASSUME ProgramOK, RecordedOK, ReplayOK, ReplayWait
  PROVE  ProgramOK' /\ RecordedOK' /\ ReplayOK'
<1>1. PICK r : r = Len(replayed) + 1
  OBVIOUS
<1>2. /\ Replaying /\ script[r].op = "wait" /\ ReplayReturns(held[script[r].arg])
      /\ index' = index /\ reader_of' = reader_of /\ held' = held
  BY <1>1 DEF ReplayWait, ThisCall
<1>3. r \in DOMAIN script /\ Len(replayed) \in Nat
  BY <1>1, <1>2, NextCall
<1>4. PICK a : a = script[r].arg /\ a \in 1..(r - 1) /\ script[a].op = "Irecv"
  BY <1>2, <1>3 DEF ProgramOK
<1>5. a \in 1..Len(replayed) /\ held[a] = a /\ a \in Int
  BY <1>1, <1>3, <1>4 DEF ReplayOK
<1>6. PICK v \in Int : v = a
  BY <1>5
<1>7. v = Lived(r) /\ ReplayReturns(v)
  BY <1>2, <1>4, <1>5, <1>6 DEF Lived
<1>8. Len(replayed') = r /\ script' = script /\ recorded' = recorded
  BY <1>1, <1>2, <1>7, OneReplayed
<1>9. /\ index' \in [Comms -> [Lists -> Nat]]
      /\ \A d \in Comms, m \in Lists : TakenOK(d, m)'
  BY <1>1, <1>2, <1>3, <1>8, NothingTaken
<1>10. AsideOK(r)'
  BY <1>1, <1>2, <1>8, NothingAside
<1> QED
  BY <1>1, <1>2, <1>7, <1>9, <1>10, ReplayedStep

LEMMA ReplayIrecvStep ==
  ASSUME ProgramOK, RecordedOK, ReplayOK, ReplayIrecv
  PROVE  ProgramOK' /\ RecordedOK' /\ ReplayOK'
<1>1. PICK r : r = Len(replayed) + 1
  OBVIOUS
<1>2. PICK c \in Comms : c = script[r].comm /\ reader_of[c] = c /\ r \in DOMAIN script
  BY <1>1, NextCall DEF ReplayIrecv
<1>3. PICK l \in Lists : l = "received_buffers"
  BY DEF Lists
<1>4. PICK x : x = get_value(c, l)
  OBVIOUS
<1>5. /\ Replaying /\ saved /\ script[r].op = "Irecv"
      /\ ReplayReturns(IF x = Missing THEN Missing ELSE NoValue)
      /\ held' = [held EXCEPT ![r] = x]
      /\ index' = get_index(c, l) /\ reader_of' = reader_of
  BY <1>1, <1>2, <1>3, <1>4 DEF ReplayIrecv, ThisCall, Replaying
<1>6. Consumes(r, c, l)
  BY <1>2, <1>3, <1>5 DEF Consumes, ListOf
<1>7. r \in Nat /\ Len(replayed) \in Nat
  BY <1>1, <1>5, NextCall
<1>8. x = r
  BY <1>1, <1>4, <1>5, <1>6, NextElement DEF Wanted
<1>9. PICK v \in Int : v = NoValue
  BY DEF NoValue
<1>10. v = Lived(r) /\ ReplayReturns(v)
  BY <1>5, <1>7, <1>8, <1>9 DEF Lived, Missing
<1>11. Len(replayed') = r /\ script' = script /\ recorded' = recorded
  BY <1>1, <1>5, <1>10, OneReplayed
<1>12. /\ index' \in [Comms -> [Lists -> Nat]]
       /\ \A d \in Comms, m \in Lists : TakenOK(d, m)'
  BY <1>1, <1>5, <1>6, <1>11, ElementTaken
<1>13. AsideOK(r)'
  <2>1. r \in 1..MaxRecordedCalls
    BY <1>2, <1>7, CallsAssumption DEF ProgramOK
  <2>2. /\ held \in [1..MaxRecordedCalls -> Int] /\ r \in Int
        /\ \A i \in 1..Len(replayed) : script[i].op = "Irecv" => held[i] = i
    BY <1>7 DEF ReplayOK
  <2>3. held' \in [1..MaxRecordedCalls -> Int] /\ held'[r] = r /\ \A i \in 1..MaxRecordedCalls : i # r => held'[i] = held[i]
    BY <2>1, <2>2, <1>5, <1>8
  <2>4. \A i \in 1..r : i = r \/ (i # r /\ i \in 1..Len(replayed) /\ i \in 1..MaxRecordedCalls)
    <3>1. MaxRecordedCalls \in Nat
      BY CallsAssumption
    <3> QED
      BY <3>1, <2>1, <1>1, <1>7
  <2>5. \A i \in 1..r : script[i].op = "Irecv" => held'[i] = i
    BY <2>2, <2>3, <2>4
  <2>6. \A i \in 1..r : script[i].op = "Split" => reader_of[script[i].arg] = script[i].arg
    BY <2>4, <1>5 DEF ReplayOK
  <2> QED
    BY <2>3, <2>5, <2>6, <1>5, <1>11 DEF AsideOK, ReplayOK
<1> QED
  BY <1>1, <1>5, <1>10, <1>12, <1>13, ReplayedStep

LEMMA ReplaySplitStep ==
  ASSUME ProgramOK, RecordedOK, ReplayOK, ReplaySplit
  PROVE  ProgramOK' /\ RecordedOK' /\ ReplayOK'
<1>1. PICK r : r = Len(replayed) + 1
  OBVIOUS
<1>2. PICK c \in Comms : c = script[r].comm /\ reader_of[c] = c /\ r \in DOMAIN script
  BY <1>1, NextCall DEF ReplaySplit
<1>3. PICK l \in Lists : l = "split_data"
  BY DEF Lists
<1>4. PICK x, a : x = get_value(c, l) /\ a = script[r].arg
  OBVIOUS
<1>5. /\ Replaying /\ saved /\ script[r].op = "Split"
      /\ ReplayReturns(x) /\ reader_of' = [reader_of EXCEPT ![a] = x]
      /\ index' = get_index(c, l) /\ held' = held
  BY <1>1, <1>2, <1>3, <1>4 DEF ReplaySplit, ThisCall, Replaying
<1>6. Consumes(r, c, l)
  BY <1>2, <1>3, <1>5 DEF Consumes, ListOf
<1>7. r \in Nat /\ Len(replayed) \in Nat
  BY <1>1, <1>5, NextCall
<1>8. x = a
  BY <1>1, <1>4, <1>5, <1>6, NextElement DEF Wanted
<1>9. a \in 2..comms /\ comms \in 1..MaxComms /\ MaxComms \in Nat
  BY <1>2, <1>4, <1>5, CallsAssumption DEF ProgramOK, Comms
<1>10. a \in Comms /\ a \in Int /\ a # 1
  BY <1>9 DEF Comms
<1>11. PICK v \in Int : v = a
  BY <1>10
<1>12. v = Lived(r) /\ ReplayReturns(v)
  BY <1>4, <1>5, <1>8, <1>11 DEF Lived
<1>13. Len(replayed') = r /\ script' = script /\ recorded' = recorded
  BY <1>1, <1>5, <1>12, OneReplayed
<1>14. /\ index' \in [Comms -> [Lists -> Nat]]
       /\ \A d \in Comms, m \in Lists : TakenOK(d, m)'
  BY <1>1, <1>5, <1>6, <1>13, ElementTaken
<1>15. AsideOK(r)'
  <2>1. /\ reader_of \in [Comms -> Int] /\ reader_of[1] = 1
        /\ \A i \in 1..Len(replayed) : script[i].op = "Split" =>
             reader_of[script[i].arg] = script[i].arg
        /\ \A i \in 1..Len(replayed) : script[i].op = "Irecv" => held[i] = i
        /\ held \in [1..MaxRecordedCalls -> Int]
    BY DEF ReplayOK
  <2>2. /\ reader_of' \in [Comms -> Int] /\ reader_of'[a] = a
        /\ \A d \in Comms : d # a => reader_of'[d] = reader_of[d]
    BY <2>1, <1>5, <1>8, <1>10
  <2>3. 1 \in Comms
    BY <1>9 DEF Comms
  <2>4. \A i \in 1..r : i = r \/ i \in 1..Len(replayed)
    BY <1>1, <1>7
  <2>5. \A i \in 1..Len(replayed) : script[i].op = "Split" => script[i].arg \in Comms
    <3>1. \A i \in 1..Len(replayed) : i \in DOMAIN script
      BY <1>1, <1>2, <1>7 DEF ProgramOK
    <3>2. \A d \in 2..comms : d \in Comms
      BY <1>9 DEF Comms
    <3> QED
      BY <3>1, <3>2 DEF ProgramOK
  <2>6. \A i \in 1..r : script[i].op = "Split" => reader_of'[script[i].arg] = script[i].arg
    BY <2>1, <2>2, <2>4, <2>5, <1>4
  <2>7. \A i \in 1..r : script[i].op = "Irecv" => held[i] = i
    BY <2>1, <2>4, <1>5
  <2>8. reader_of'[1] = 1
    BY <2>1, <2>2, <2>3, <1>10
  <2> QED
    BY <2>1, <2>2, <2>6, <2>7, <2>8, <1>5, <1>13 DEF AsideOK
<1> QED
  BY <1>1, <1>5, <1>12, <1>14, <1>15, ReplayedStep

-----------------------------------------------------------------------------
(* The invariant.                                                          *)

LEMMA InitIInv ==
  ASSUME RecordingInit
  PROVE  IInv
<1>1. /\ script = <<>> /\ replayed = <<>> /\ saved = FALSE /\ comms = 1
      /\ DOMAIN script = {} /\ Len(script) = 0 /\ Len(replayed) = 0 /\ DOMAIN replayed = {}
  BY DEF RecordingInit
<1>2. MaxRecordedCalls \in Nat /\ MaxComms \in Nat /\ 1 \in Comms
  BY CallsAssumption DEF Comms
<1>3. ProgramOK
  <2>1. <<>> \in Seq([op : Calls \union {"wait"}, comm : Comms, arg : Nat])
    OBVIOUS
  <2> QED
    BY <2>1, <1>1, <1>2 DEF ProgramOK
<1>4. /\ \A c \in Comms, l \in Lists : recorded[c][l] = <<>>
      /\ \A c \in Comms : pending[c] = <<>>
      /\ recorded \in [Comms -> [Lists -> Seq(Nat)]] /\ pending \in [Comms -> Seq(Nat)]
  BY DEF RecordingInit
<1>5. /\ \A c \in Comms, l \in Lists : DOMAIN recorded[c][l] = {}
      /\ \A c \in Comms : DOMAIN pending[c] = {}
  BY <1>4
<1>6. RecordedOK
  BY <1>1, <1>4, <1>5 DEF RecordedOK, PendingOK, InOrder, Kept
<1>7. /\ index \in [Comms -> [Lists -> Nat]]
      /\ \A c \in Comms, l \in Lists : index[c][l] = 0
  BY DEF RecordingInit
<1>8. held \in [1..MaxRecordedCalls -> Int]
  BY DEF RecordingInit, NoValue
<1>9. reader_of \in [Comms -> Int] /\ reader_of[1] = 1
  BY <1>2 DEF RecordingInit, Missing
<1>10. replayed \in Seq(Int)
  BY <1>1
<1>11. ReplayFaithful /\ \A c \in Comms, l \in Lists : TakenOK(c, l)
  BY <1>1, <1>5 DEF ReplayFaithful, TakenOK
<1>12. Len(replayed) <= Len(script) /\ 1..Len(replayed) = {}
  BY <1>1
<1>13. ReplayOK
  BY <1>1, <1>4, <1>7, <1>8, <1>9, <1>10, <1>11, <1>12 DEF ReplayOK
<1> QED
  BY <1>3, <1>6, <1>13 DEF IInv

LEMMA RecordIInv ==
  ASSUME Disciplined, IInv, Record
  PROVE  IInv'
<1>1. PICK c \in Comms :
        \/ \E op \in Calls : RecordResult(op, c)
        \/ RecordGatherOther(c) \/ RecordIrecv(c) \/ RecordWait(c) \/ RecordSplit(c)
  BY DEF Record
<1>2. ProgramOK /\ RecordedOK /\ ReplayOK
  BY DEF IInv
<1>3. ~ saved /\ UNCHANGED <<saved, index, reader_of, held, replayed>>
  BY <1>1 DEF RecordResult, RecordGatherOther, RecordIrecv, RecordWait, RecordSplit, Call
<1>4. ProgramOK' /\ RecordedOK'
  <2>1. CASE \E op \in Calls : RecordResult(op, c)
    BY <2>1, <1>2, RecordResultStep
  <2>2. CASE RecordGatherOther(c)
    BY <2>2, <1>2, RecordGatherOtherStep
  <2>3. CASE RecordIrecv(c)
    BY <2>3, <1>2, RecordIrecvStep
  <2>4. CASE RecordWait(c)
    BY <2>4, <1>2, RecordWaitStep
  <2>5. CASE RecordSplit(c)
    BY <2>5, <1>2, RecordSplitStep
  <2> QED
    BY <2>1, <2>2, <2>3, <2>4, <2>5, <1>1
<1>5. ReplayOK'
  BY <1>2, <1>3, <1>4, NothingReplayed
<1> QED
  BY <1>4, <1>5 DEF IInv

LEMMA DumpIInv ==
  ASSUME IInv, Dump
  PROVE  IInv'
<1>1. /\ ~ saved /\ saved' = TRUE /\ \A c \in Comms : pending[c] = <<>>
      /\ UNCHANGED <<script, recorded, pending, comms>>
      /\ UNCHANGED <<index, reader_of, held, replayed>>
  BY DEF Dump
<1>2. ProgramOK' /\ RecordedOK'
  BY <1>1, RecordingKept DEF IInv
<1>3. \A i, c, l : (Consumes(i, c, l)' <=> Consumes(i, c, l)) /\ Wanted(i)' = Wanted(i)
  BY <1>1 DEF Consumes, ListOf, Wanted
<1>4. \A c \in Comms, l \in Lists : TakenOK(c, l)'
  BY <1>1, <1>3 DEF IInv, ReplayOK, TakenOK
<1>5. ReplayFaithful'
  BY <1>1 DEF IInv, ReplayOK, ReplayFaithful, Lived
<1>6. ReplayOK'
  BY <1>1, <1>4, <1>5 DEF IInv, ReplayOK
<1> QED
  BY <1>2, <1>6 DEF IInv

LEMMA StutterIInv ==
  ASSUME IInv, UNCHANGED recording
  PROVE  IInv'
<1>1. UNCHANGED <<script, recorded, pending, comms>>
      /\ UNCHANGED <<saved, index, reader_of, held, replayed>>
  BY DEF recording
<1>2. ProgramOK' /\ RecordedOK'
  BY <1>1, RecordingKept DEF IInv
<1>3. \A i, c, l : (Consumes(i, c, l)' <=> Consumes(i, c, l)) /\ Wanted(i)' = Wanted(i)
  BY <1>1 DEF Consumes, ListOf, Wanted
<1>4. \A c \in Comms, l \in Lists : TakenOK(c, l)'
  BY <1>1, <1>3 DEF IInv, ReplayOK, TakenOK
<1>5. ReplayFaithful'
  BY <1>1 DEF IInv, ReplayOK, ReplayFaithful, Lived
<1>6. ReplayOK'
  BY <1>1, <1>4, <1>5 DEF IInv, ReplayOK
<1> QED
  BY <1>2, <1>6 DEF IInv

LEMMA StepIInv ==
  ASSUME Disciplined, IInv, [RecordingNext]_recording
  PROVE  IInv'
<1>1. ProgramOK /\ RecordedOK /\ ReplayOK
  BY DEF IInv
<1>2. CASE Record
  BY <1>2, RecordIInv
<1>3. CASE Dump
  BY <1>3, DumpIInv
<1>4. CASE ReplayResult
  BY <1>1, <1>4, ReplayResultStep DEF IInv
<1>5. CASE ReplayGatherOther
  BY <1>1, <1>5, ReplayGatherOtherStep DEF IInv
<1>6. CASE ReplayIrecv
  BY <1>1, <1>6, ReplayIrecvStep DEF IInv
<1>7. CASE ReplayWait
  BY <1>1, <1>7, ReplayWaitStep DEF IInv
<1>8. CASE ReplaySplit
  BY <1>1, <1>8, ReplaySplitStep DEF IInv
<1>9. CASE UNCHANGED recording
  BY <1>9, StutterIInv
<1> QED
  BY <1>2, <1>3, <1>4, <1>5, <1>6, <1>7, <1>8, <1>9 DEF RecordingNext

-----------------------------------------------------------------------------
(* The theorems.                                                           *)

\* Each call of the replay returns what the same call returned when it was recorded,
\* on every communicator and through every list, if the program waits for its receives
\* in order and takes nothing between a receive and its wait, nor after a gather to
\* another rank (CachingCommReader against CachingCommWriter).
THEOREM ReplaysAreFaithful ==
  ASSUME Disciplined
  PROVE  RecordingSpec => []ReplayFaithful
<1>1. RecordingInit => IInv
  BY InitIInv
<1>2. IInv /\ [RecordingNext]_recording => IInv'
  BY StepIInv
<1>3. IInv => ReplayFaithful
  BY DEF IInv, ReplayOK
<1> QED
  BY <1>1, <1>2, <1>3, PTL DEF RecordingSpec

\* Where the same rules are kept, a replay that ends has consumed all that was
\* received: what is left of a list is the None of gathers to other ranks.
THEOREM NothingIsUnread ==
  ASSUME Disciplined
  PROVE  RecordingSpec => []NothingUnread
<1>1. RecordingInit => IInv
  BY InitIInv
<1>2. IInv /\ [RecordingNext]_recording => IInv'
  BY StepIInv
<1>3. IInv => NothingUnread
  <2> SUFFICES ASSUME IInv, saved, Len(replayed) = Len(script), NEW c \in Comms, NEW l \in Lists,
                      NEW k \in index[c][l] + 1 .. Len(recorded[c][l]),
                      recorded[c][l][k] # NoValue
               PROVE  FALSE
    BY DEF NothingUnread
  <2>1. PICK W \in Seq(Nat) : W = recorded[c][l]
    BY DEF IInv, RecordedOK
  <2>2. index[c][l] \in Nat
    BY DEF IInv, ReplayOK
  <2>3. k \in DOMAIN W /\ ~ (k <= index[c][l])
    BY <2>1, <2>2
  <2>4. PICK i \in DOMAIN script : Consumes(i, c, l) /\ W[k] = Wanted(i)
    BY <2>1, <2>3 DEF IInv, RecordedOK, InOrder
  <2>5. k <= index[c][l] <=> i <= Len(replayed)
    BY <2>1, <2>3, <2>4 DEF IInv, ReplayOK, TakenOK
  <2>6. i <= Len(script)
    BY DEF IInv, ProgramOK
  <2> QED
    BY <2>3, <2>5, <2>6
<1> QED
  BY <1>1, <1>2, <1>3, PTL DEF RecordingSpec
=============================================================================
