-------------------------- MODULE Monitors_proofs --------------------------
(***************************************************************************)
(* Both monitors store what they should, for any tile, names and program   *)
(* (modules ZarrMonitor and NetCDFMonitor, as MCTiles has them).           *)
(*                                                                         *)
(* The Zarr monitor: the states that a rank is in, one after the other,    *)
(* are the same for all ranks, which are at places of this history; what   *)
(* the root has told is what those behind it will hear.                    *)
(*                                                                         *)
(* The NetCDF monitor: the parts a rank has sent and the root has not      *)
(* received are those of the calls between the root's place in the program *)
(* and the rank's own, in order, so the first is the one the root gathers. *)
(***************************************************************************)
EXTENDS MCTiles, SequenceTheorems, WellFoundedInduction, TLAPS

-----------------------------------------------------------------------------
(* The Zarr monitor.  What a rank does depends on its own state and on     *)
(* what it is told; the states that ranks are in, one after the other, are *)
(* a history that is the same for all.                                     *)

State(c, n, at, times, arrays, heard) ==
  [call |-> c, item |-> n, step |-> at, times |-> times, array |-> arrays, got |-> heard]
Local(r) == State(call[r], item[r], step[r], i_time[r], array[r], got[r])
Locals ==
  [call : Nat, item : DOMAIN Names, step : {"start", "created", "synced", "read", "barrier"},
   times : [AllNames -> Nat], array : [AllNames -> Nat], got : Nat]

NameIn(s) == IF program[s.call] = "store" THEN Names[s.item] ELSE Constant(Names[s.item])
NextItems(s) == {n \in ItemsOf(program[s.call]) : n > s.item}
Refused(s) == s.step = "start" /\ program[s.call] = "constant" /\ s.times[NameIn(s)] > 0

\* The root tells the others the times of the array, and they hear them.
Asks(s) ==
  \/ s.step = "start" /\ ~ Refused(s) /\ s.array[NameIn(s)] = 0
  \/ s.step = "created"
Told(s) ==
  IF s.step = "start" THEN 1
  ELSE IF s.times[NameIn(s)] >= s.array[NameIn(s)] THEN s.times[NameIn(s)] + 1
  ELSE s.array[NameIn(s)]
Hears(s, times) ==
  State(s.call, s.item, IF s.step = "start" THEN "created" ELSE "synced", s.times,
        [s.array EXCEPT ![NameIn(s)] = times], s.got + 1)

\* The other steps.
Alone(s) ==
  IF s.step = "start"
  THEN IF Refused(s)
       THEN State(s.call + 1, FirstOf(s.call + 1), "start", s.times, s.array, s.got)
       ELSE State(s.call, s.item, "created", s.times, s.array, s.got)
  ELSE IF s.step = "synced"
  THEN State(s.call, s.item, IF Names[s.item] = "time" THEN "barrier" ELSE "read",
             s.times, s.array, s.got)
  ELSE State(IF NextItems(s) # {} THEN s.call ELSE s.call + 1,
             IF NextItems(s) # {} THEN First(NextItems(s)) ELSE FirstOf(s.call + 1),
             "start", [s.times EXCEPT ![NameIn(s)] = @ + 1], s.array, s.got)

After(s) == IF Asks(s) THEN Hears(s, Told(s)) ELSE Alone(s)

LocalOK(s) ==
  /\ s.call \in DOMAIN program => s.item \in ItemsOf(program[s.call])
  /\ s.step \in {"synced", "read", "barrier"} =>
       s.call \in DOMAIN program /\ s.times[NameIn(s)] < s.array[NameIn(s)]

\* How far a state is behind another.
NotAfter(s, t) == s.got <= t.got /\ \A n \in AllNames : s.array[n] <= t.array[n]

HistoryOK(H) ==
  /\ H \in Seq(Locals) /\ H # <<>>
  /\ \A k \in DOMAIN H : LocalOK(H[k])
  /\ \A k \in DOMAIN H : k < Len(H) => H[k].call \in DOMAIN program /\ H[k + 1] = After(H[k])
  /\ \A j, k \in DOMAIN H : j <= k => NotAfter(H[j], H[k])

\* Where the ranks are.  None that the root has yet to tell something is ahead of it.
PlacesOK(H, at) ==
  /\ at \in [Ranks -> DOMAIN H]
  /\ \A r \in Ranks : Local(r) = H[at[r]]
  /\ \A k \in DOMAIN H : k >= at[ROOT] => H[k].array = array[ROOT] /\ (k < Len(H) => ~ Asks(H[k]))
  /\ Len(bcasts) = got[ROOT] /\ length = array[ROOT]
  /\ \A k \in DOMAIN H : k < at[ROOT] /\ Asks(H[k]) => bcasts[H[k].got + 1][2] = Told(H[k])

ZarrTypes ==
  /\ program \in Seq({"store", "constant"})
  /\ DOMAIN call = Ranks /\ DOMAIN item = Ranks /\ DOMAIN step = Ranks
  /\ DOMAIN i_time = Ranks /\ DOMAIN array = Ranks /\ DOMAIN got = Ranks
  /\ bcasts \in Seq(AllNames \X Nat)

ZarrInv == ZarrTypes /\ \E H, at : HistoryOK(H) /\ PlacesOK(H, at)

-----------------------------------------------------------------------------

LEMMA RootIsRank == ROOT \in Ranks
<1>1. PICK n \in Nat \ {0}, m \in Nat \ {0} : Layout = <<n, m>>
  BY ZarrAssumption
<1>2. n * m >= 1
  BY Z3
<1>3. Layout[1] * Layout[2] = n * m /\ n * m \in Nat
  BY <1>1
<1> QED
  BY <1>2, <1>3 DEF Ranks, ROOT

LEMMA Least == ASSUME NEW S, S \subseteq Nat, S # {} PROVE \E n \in S : \A m \in S : n <= m
<1>1. PICK x \in S : \A y \in S : ~ (<<y, x>> \in OpToRel(<, Nat))
  BY WFMin, NatLessThanWellFounded, Zenon
<1>2. x \in Nat /\ \A y \in S : y \in Nat
  OBVIOUS
<1>3. \A y \in S : ~ (y < x)
  BY <1>1, <1>2 DEF OpToRel
<1> QED
  BY <1>2, <1>3

LEMMA FirstIsOne == ASSUME NEW S, S \subseteq Nat, S # {} PROVE First(S) \in S
BY Least DEF First

LEMMA NamesFacts ==
  /\ Len(Names) \in Nat /\ DOMAIN Names = 1..Len(Names) /\ 1 \in DOMAIN Names
  /\ \A kind : ItemsOf(kind) \subseteq DOMAIN Names /\ ItemsOf(kind) # {} /\ First(ItemsOf(kind)) \in ItemsOf(kind)
  /\ \A n \in DOMAIN Names : Names[n] \in AllNames /\ (Names[n] # "time" => Constant(Names[n]) \in AllNames)
<1>1. /\ Len(Names) \in Nat /\ DOMAIN Names = 1..Len(Names) /\ 1 \in DOMAIN Names
  BY ZarrAssumption
<1>2. ASSUME NEW kind PROVE ItemsOf(kind) \subseteq DOMAIN Names /\ ItemsOf(kind) # {}
  BY ZarrAssumption DEF ItemsOf
<1>3. ASSUME NEW kind PROVE First(ItemsOf(kind)) \in ItemsOf(kind)
  BY <1>1, <1>2, FirstIsOne
<1>4. \A n \in DOMAIN Names : Names[n] \in AllNames /\ (Names[n] # "time" => Constant(Names[n]) \in AllNames)
  BY DEF AllNames, Range
<1> QED
  BY <1>1, <1>2, <1>3, <1>4

LEMMA FirstOfFacts ==
  ASSUME NEW n
  PROVE  FirstOf(n) \in DOMAIN Names /\ (n \in DOMAIN program => FirstOf(n) \in ItemsOf(program[n]))
BY NamesFacts DEF FirstOf

LEMMA NameInFacts ==
  ASSUME ZarrTypes, NEW s \in Locals, LocalOK(s), s.call \in DOMAIN program
  PROVE  NameIn(s) \in AllNames /\ s.times[NameIn(s)] \in Nat /\ s.array[NameIn(s)] \in Nat
<1>1. s.item \in ItemsOf(program[s.call]) /\ s.item \in DOMAIN Names
  BY DEF LocalOK, Locals
<1>2. program[s.call] \in {"store", "constant"}
  BY DEF ZarrTypes
<1>3. NameIn(s) \in AllNames
  <2>1. CASE program[s.call] = "store"
    BY <1>1, <2>1, NamesFacts DEF NameIn
  <2>2. CASE program[s.call] # "store"
    BY <1>1, <2>2, NamesFacts DEF NameIn, ItemsOf
  <2> QED
    BY <2>1, <2>2
<1> QED
  BY <1>3 DEF Locals

\* A rank's next state is a state, and not behind.
LEMMA AfterFacts ==
  ASSUME ZarrTypes, NEW s \in Locals, LocalOK(s), s.call \in DOMAIN program
  PROVE  /\ After(s) \in Locals /\ LocalOK(After(s)) /\ NotAfter(s, After(s))
         /\ Asks(s) => After(s).got = s.got + 1
         /\ ~ Asks(s) => After(s).array = s.array /\ After(s).got = s.got
<1> DEFINE x == NameIn(s)
           t == After(s)
<1>1. x \in AllNames /\ s.times[x] \in Nat /\ s.array[x] \in Nat
  BY NameInFacts
<1>2. /\ s.call \in Nat /\ s.item \in DOMAIN Names /\ s.got \in Nat
      /\ s.step \in {"start", "created", "synced", "read", "barrier"}
      /\ s.times \in [AllNames -> Nat] /\ s.array \in [AllNames -> Nat]
  BY DEF Locals
<1>3. s.item \in ItemsOf(program[s.call])
  BY DEF LocalOK
<1>4. CASE Asks(s)
  <2>1. t = Hears(s, Told(s))
    BY <1>4 DEF After
  <2>2. Told(s) \in Nat /\ Told(s) >= s.array[x]
    BY <1>1, <1>4 DEF Told, Asks
  <2>3. [s.array EXCEPT ![x] = Told(s)] \in [AllNames -> Nat]
    BY <1>1, <1>2, <2>2
  <2>4. /\ t.call = s.call /\ t.item = s.item /\ t.times = s.times /\ t.got = s.got + 1
        /\ t.step = (IF s.step = "start" THEN "created" ELSE "synced")
        /\ t.array = [s.array EXCEPT ![x] = Told(s)] /\ NameIn(t) = x
    BY <2>1 DEF Hears, NameIn, State
  <2>5. t \in Locals
    BY <1>2, <2>1, <2>3 DEF Hears, Locals, State
  <2>6. t.step = "synced" => t.times[x] < t.array[x]
    <3>1. CASE s.step = "created"
      <4>1. Told(s) = IF s.times[x] >= s.array[x] THEN s.times[x] + 1 ELSE s.array[x]
        BY <3>1 DEF Told
      <4>2. t.array[x] = Told(s) /\ t.times[x] = s.times[x]
        BY <1>1, <1>2, <2>4
      <4> QED
        BY <1>1, <4>1, <4>2
    <3>2. CASE s.step # "created"
      BY <1>4, <2>4, <3>2 DEF Asks
    <3> QED
      BY <3>1, <3>2
  <2>7. LocalOK(t)
    BY <1>3, <2>4, <2>6 DEF LocalOK
  <2>8. \A n \in AllNames : s.array[n] <= t.array[n]
    BY <1>1, <1>2, <2>2, <2>4
  <2> HIDE DEF t
  <2>9. NotAfter(s, t)
    BY <1>2, <2>4, <2>8 DEF NotAfter
  <2> QED
    BY <1>4, <2>4, <2>5, <2>7, <2>9 DEF t
<1>5. CASE ~ Asks(s)
  <2>1. t = Alone(s)
    BY <1>5 DEF After
  <2>2. t \in Locals /\ t.array = s.array /\ t.got = s.got /\ LocalOK(t)
    <3>1. CASE s.step = "start" /\ Refused(s)
      <4>1. PICK c, m : c = s.call + 1 /\ m = FirstOf(s.call + 1)
        OBVIOUS
      <4>2. t = State(c, m, "start", s.times, s.array, s.got)
        BY <2>1, <3>1, <4>1 DEF Alone
      <4>3. c \in Nat /\ m \in DOMAIN Names /\ (c \in DOMAIN program => m \in ItemsOf(program[c]))
        BY <1>2, <4>1, FirstOfFacts
      <4>4. t \in Locals /\ t.array = s.array /\ t.got = s.got /\ t.step = "start"
            /\ t.call = c /\ t.item = m
        BY <1>2, <3>1, <4>2, <4>3 DEF Locals, State
      <4> QED
        BY <4>3, <4>4 DEF LocalOK
    <3>2. CASE s.step = "start" /\ ~ Refused(s)
      <4>1. t = State(s.call, s.item, "created", s.times, s.array, s.got)
        BY <2>1, <3>2 DEF Alone
      <4>2. t \in Locals /\ t.array = s.array /\ t.got = s.got /\ t.step = "created"
            /\ t.call = s.call /\ t.item = s.item
        BY <1>2, <4>1 DEF Locals, State
      <4> QED
        BY <1>3, <4>2 DEF LocalOK
    <3>3. CASE s.step = "synced"
      <4>1. PICK z \in {"barrier", "read"} : t = State(s.call, s.item, z, s.times, s.array, s.got)
        BY <2>1, <3>3 DEF Alone
      <4>2. t \in Locals /\ t.array = s.array /\ t.got = s.got /\ t.step = z
            /\ t.call = s.call /\ t.item = s.item /\ t.times = s.times /\ NameIn(t) = x
        BY <1>2, <4>1 DEF Locals, NameIn, State
      <4> QED
        BY <1>3, <3>3, <4>2 DEF LocalOK
    <3>4. CASE s.step \in {"read", "barrier"}
      <4>1. PICK c, m : /\ c = IF NextItems(s) # {} THEN s.call ELSE s.call + 1
                        /\ m = IF NextItems(s) # {} THEN First(NextItems(s)) ELSE FirstOf(s.call + 1)
        OBVIOUS
      <4>2. t = State(c, m, "start", [s.times EXCEPT ![x] = @ + 1], s.array, s.got)
        BY <2>1, <3>4, <4>1 DEF Alone
      <4>3. [s.times EXCEPT ![x] = @ + 1] \in [AllNames -> Nat]
        BY <1>1, <1>2
      <4>4. c \in Nat /\ m \in DOMAIN Names /\ (c \in DOMAIN program => m \in ItemsOf(program[c]))
        <5>1. CASE NextItems(s) # {}
          <6>1. NextItems(s) \subseteq ItemsOf(program[s.call])
            BY DEF NextItems
          <6>2. First(NextItems(s)) \in NextItems(s)
            BY <5>1, <6>1, NamesFacts, FirstIsOne
          <6> QED
            BY <1>2, <4>1, <5>1, <6>1, <6>2, NamesFacts
        <5>2. CASE NextItems(s) = {}
          BY <1>2, <4>1, <5>2, FirstOfFacts
        <5> QED
          BY <5>1, <5>2
      <4>5. t \in Locals /\ t.array = s.array /\ t.got = s.got /\ t.step = "start"
            /\ t.call = c /\ t.item = m
        BY <1>2, <4>2, <4>3, <4>4 DEF Locals, State
      <4> QED
        BY <4>4, <4>5 DEF LocalOK
    <3>5. s.step # "created"
      BY <1>5 DEF Asks
    <3> QED
      BY <1>2, <3>1, <3>2, <3>3, <3>4, <3>5
  <2>3. NotAfter(s, t)
    BY <1>2, <2>2 DEF NotAfter
  <2> QED
    BY <1>5, <2>2, <2>3
<1> QED
  BY <1>4, <1>5

-----------------------------------------------------------------------------

Others(r) == \A o \in Ranks : o # r => Local(o)' = Local(o)

LEMMA LocalStep ==
  ASSUME ZarrTypes, NEW r \in Ranks, Step(r), NEW s, s = Local(r), s \in Locals, LocalOK(s)
  PROVE  /\ program' = program /\ s.call \in DOMAIN program /\ ZarrTypes' /\ Others(r)
         /\ \/ ~ Asks(s) /\ Local(r)' = Alone(s) /\ UNCHANGED <<bcasts, length>>
            \/ /\ Asks(s) /\ r = ROOT /\ Local(r)' = Hears(s, Told(s))
               /\ bcasts' = Append(bcasts, <<NameIn(s), Told(s)>>)
               /\ length' = [length EXCEPT ![NameIn(s)] = Told(s)]
            \/ /\ Asks(s) /\ r # ROOT /\ got[r] < Len(bcasts)
               /\ Local(r)' = Hears(s, bcasts[got[r] + 1][2])
               /\ UNCHANGED <<bcasts, length>>
<1> DEFINE x == NameIn(s)
<1>1. /\ s.call = call[r] /\ s.item = item[r] /\ s.step = step[r] /\ s.times = i_time[r]
      /\ s.array = array[r] /\ s.got = got[r]
  BY DEF Local, State
<1>2. /\ DOMAIN call = Ranks /\ DOMAIN item = Ranks /\ DOMAIN step = Ranks
      /\ DOMAIN i_time = Ranks /\ DOMAIN array = Ranks /\ DOMAIN got = Ranks
  BY DEF ZarrTypes
<1>3. Name(r) = x /\ s.call \in DOMAIN program
  BY <1>1 DEF Name, NameIn, Step, ConstantRaises, Create, Extend, Read, Write, WriteTime,
              LeaveBarrier, Storing
<1>4. AlreadyStored(r) <=> program[s.call] = "constant" /\ s.times[x] > 0
  BY <1>1, <1>3 DEF AlreadyStored, IsConstant
<1>5. x \in AllNames /\ s.times[x] \in Nat /\ s.array[x] \in Nat
  BY <1>3, NameInFacts
<1>6. \A o \in Ranks : o # r => /\ call'[o] = call[o] /\ item'[o] = item[o] /\ step'[o] = step[o]
                               /\ i_time'[o] = i_time[o] /\ array'[o] = array[o] /\ got'[o] = got[o]
  BY <1>2 DEF Step, ConstantRaises, Create, Extend, Read, Write, WriteTime, LeaveBarrier,
              AppendEnds, Sync, SyncRoot, SyncOther
<1>7. Others(r)
  BY <1>6 DEF Others, Local
<1>8. /\ DOMAIN call' = Ranks /\ DOMAIN item' = Ranks /\ DOMAIN step' = Ranks
      /\ DOMAIN i_time' = Ranks /\ DOMAIN array' = Ranks /\ DOMAIN got' = Ranks
      /\ program' = program
  BY <1>2 DEF Step, ConstantRaises, Create, Extend, Read, Write, WriteTime, LeaveBarrier,
              AppendEnds, Sync, SyncRoot, SyncOther
<1>9. bcasts' = bcasts \/ \E t \in Nat : bcasts' = Append(bcasts, <<x, t>>)
  <2>1. CASE Create(r)
    BY <1>3, <2>1 DEF Create, Sync, SyncRoot, SyncOther
  <2>2. CASE Extend(r)
    BY <1>1, <1>3, <1>5, <2>2 DEF Extend, Sync, SyncRoot, SyncOther
  <2>3. CASE ConstantRaises(r) \/ Read(r) \/ Write(r) \/ WriteTime(r) \/ LeaveBarrier(r)
    BY <2>3 DEF ConstantRaises, Read, Write, WriteTime, LeaveBarrier
  <2> QED
    BY <2>1, <2>2, <2>3 DEF Step
<1>10. ZarrTypes'
  <2>1. bcasts \in Seq(AllNames \X Nat)
    BY DEF ZarrTypes
  <2>2. bcasts' \in Seq(AllNames \X Nat)
    <3>1. CASE bcasts' = bcasts
      BY <2>1, <3>1
    <3>2. ASSUME NEW t \in Nat, bcasts' = Append(bcasts, <<x, t>>) PROVE bcasts' \in Seq(AllNames \X Nat)
      <4>1. PICK e : e = <<x, t>>
        OBVIOUS
      <4>2. e \in AllNames \X Nat
        BY <1>5, <4>1
      <4> QED
        BY <2>1, <3>2, <4>1, <4>2
    <3> QED
      BY <1>9, <3>1, <3>2
  <2> QED
    BY <1>8, <2>2 DEF ZarrTypes
<1>11. Local(r)' = State(call'[r], item'[r], step'[r], i_time'[r], array'[r], got'[r])
  BY DEF Local
<1> HIDE DEF x
<1>12. ASSUME NEW times, Sync(r, x, times), UNCHANGED <<call, item, i_time>>, s.step \in {"start", "created"},
              step' = [step EXCEPT ![r] = IF s.step = "start" THEN "created" ELSE "synced"],
              Asks(s), times = Told(s)
       PROVE  \/ /\ Asks(s) /\ r = ROOT /\ Local(r)' = Hears(s, Told(s))
                 /\ bcasts' = Append(bcasts, <<x, Told(s)>>)
                 /\ length' = [length EXCEPT ![x] = Told(s)]
              \/ /\ Asks(s) /\ r # ROOT /\ got[r] < Len(bcasts)
                 /\ Local(r)' = Hears(s, bcasts[got[r] + 1][2])
                 /\ UNCHANGED <<bcasts, length>>
  <2>1. /\ call'[r] = s.call /\ item'[r] = s.item /\ i_time'[r] = s.times
        /\ step'[r] = IF s.step = "start" THEN "created" ELSE "synced"
    BY <1>1, <1>2, <1>12
  <2>2. CASE r = ROOT
    <3>1. SyncRoot(x, times)
      BY <1>12, <2>2 DEF Sync
    <3>2. array'[r] = [s.array EXCEPT ![x] = times] /\ got'[r] = s.got + 1
      BY <1>1, <1>2, <2>2, <3>1 DEF SyncRoot
    <3>3. Local(r)' = Hears(s, times)
      BY <1>11, <2>1, <3>2 DEF Hears, x
    <3> QED
      BY <1>12, <2>2, <3>1, <3>3 DEF SyncRoot
  <2>3. CASE r # ROOT
    <3>1. SyncOther(r, x)
      BY <1>12, <2>3 DEF Sync
    <3>2. PICK heard : heard = bcasts[got[r] + 1][2]
      OBVIOUS
    <3>3. array'[r] = [s.array EXCEPT ![x] = heard] /\ got'[r] = s.got + 1
      BY <1>1, <1>2, <3>1, <3>2 DEF SyncOther
    <3>4. Local(r)' = Hears(s, heard)
      BY <1>11, <2>1, <3>3 DEF Hears, x
    <3> QED
      BY <1>12, <2>3, <3>1, <3>2, <3>4 DEF SyncOther
  <2> QED
    BY <2>2, <2>3
<1>13. ASSUME Create(r)
       PROVE  \/ ~ Asks(s) /\ Local(r)' = Alone(s) /\ UNCHANGED <<bcasts, length>>
              \/ /\ Asks(s) /\ r = ROOT /\ Local(r)' = Hears(s, Told(s))
                 /\ bcasts' = Append(bcasts, <<x, Told(s)>>)
                 /\ length' = [length EXCEPT ![x] = Told(s)]
              \/ /\ Asks(s) /\ r # ROOT /\ got[r] < Len(bcasts)
                 /\ Local(r)' = Hears(s, bcasts[got[r] + 1][2])
                 /\ UNCHANGED <<bcasts, length>>
  <2>1. s.step = "start" /\ ~ Refused(s)
    BY <1>1, <1>4, <1>13 DEF Create, Refused, x
  <2>2. step' = [step EXCEPT ![r] = "created"] /\ UNCHANGED <<call, item, i_time>>
    BY <1>13 DEF Create
  <2>3. CASE s.array[x] = 0
    <3>1. Asks(s) /\ Told(s) = 1 /\ Sync(r, x, 1)
      BY <1>1, <1>3, <1>13, <2>1, <2>3 DEF Asks, Told, Create, x
    <3> QED
      BY <1>12, <2>1, <2>2, <3>1
  <2>4. CASE s.array[x] # 0
    <3>1. ~ Asks(s) /\ UNCHANGED <<array, bcasts, got, length>>
      BY <1>1, <1>3, <1>13, <2>1, <2>4 DEF Asks, Create, x
    <3>2. Alone(s) = State(s.call, s.item, "created", s.times, s.array, s.got)
      BY <2>1 DEF Alone
    <3>3. Local(r)' = State(s.call, s.item, "created", s.times, s.array, s.got)
      BY <1>1, <1>2, <1>11, <2>2, <3>1
    <3> QED
      BY <3>1, <3>2, <3>3
  <2> QED
    BY <2>3, <2>4
<1>14. ASSUME Extend(r)
       PROVE  \/ /\ Asks(s) /\ r = ROOT /\ Local(r)' = Hears(s, Told(s))
                 /\ bcasts' = Append(bcasts, <<x, Told(s)>>)
                 /\ length' = [length EXCEPT ![x] = Told(s)]
              \/ /\ Asks(s) /\ r # ROOT /\ got[r] < Len(bcasts)
                 /\ Local(r)' = Hears(s, bcasts[got[r] + 1][2])
                 /\ UNCHANGED <<bcasts, length>>
  <2>1. s.step = "created" /\ step' = [step EXCEPT ![r] = "synced"] /\ UNCHANGED <<call, item, i_time>>
    BY <1>1, <1>14 DEF Extend
  <2>2. Asks(s) /\ Sync(r, x, Told(s))
    BY <1>1, <1>3, <1>14, <2>1 DEF Asks, Told, Extend, x
  <2> QED
    BY <1>12, <2>1, <2>2
<1>15. ASSUME Read(r) \/ WriteTime(r)
       PROVE  ~ Asks(s) /\ Local(r)' = Alone(s) /\ UNCHANGED <<bcasts, length>>
  <2>1. PICK z : z = IF Names[s.item] = "time" THEN "barrier" ELSE "read"
    OBVIOUS
  <2>2. /\ s.step = "synced" /\ step' = [step EXCEPT ![r] = z]
        /\ UNCHANGED <<call, item, i_time, array, bcasts, got, length>>
    BY <1>1, <1>15, <2>1 DEF Read, WriteTime, IsTime
  <2>3. ~ Asks(s) /\ Alone(s) = State(s.call, s.item, z, s.times, s.array, s.got)
    BY <2>1, <2>2 DEF Asks, Alone
  <2>4. Local(r)' = State(s.call, s.item, z, s.times, s.array, s.got)
    BY <1>1, <1>2, <1>11, <2>2
  <2> QED
    BY <2>2, <2>3, <2>4
<1>16. ASSUME ConstantRaises(r)
       PROVE  ~ Asks(s) /\ Local(r)' = Alone(s) /\ UNCHANGED <<bcasts, length>>
  <2>1. s.step = "start" /\ Refused(s)
    BY <1>1, <1>4, <1>16 DEF ConstantRaises, Refused, x
  <2>2. PICK c, m : c = s.call + 1 /\ m = FirstOf(s.call + 1)
    OBVIOUS
  <2>3. /\ call' = [call EXCEPT ![r] = c] /\ item' = [item EXCEPT ![r] = m]
        /\ UNCHANGED <<step, i_time, array, bcasts, got, length>>
    BY <1>1, <1>2, <1>16, <2>2 DEF ConstantRaises
  <2>4. ~ Asks(s) /\ Alone(s) = State(c, m, "start", s.times, s.array, s.got)
    BY <2>1, <2>2 DEF Asks, Alone
  <2>5. /\ call'[r] = c /\ item'[r] = m /\ step'[r] = s.step /\ i_time'[r] = s.times
        /\ array'[r] = s.array /\ got'[r] = s.got
    BY <1>1, <1>2, <2>3
  <2>6. Local(r)' = State(c, m, "start", s.times, s.array, s.got)
    BY <1>11, <2>1, <2>5
  <2> QED
    BY <2>3, <2>4, <2>6
<1>17. ASSUME Write(r) \/ LeaveBarrier(r)
       PROVE  ~ Asks(s) /\ Local(r)' = Alone(s) /\ UNCHANGED <<bcasts, length>>
  <2>1. s.step \in {"read", "barrier"} /\ AppendEnds(r) /\ UNCHANGED <<array, bcasts, got, length>>
    BY <1>1, <1>17 DEF Write, LeaveBarrier
  <2>2. PICK c, m : /\ c = IF NextItems(s) # {} THEN s.call ELSE s.call + 1
                    /\ m = IF NextItems(s) # {} THEN First(NextItems(s)) ELSE FirstOf(s.call + 1)
    OBVIOUS
  <2>3. {n \in ItemsOf(program[call[r]]) : n > item[r]} = NextItems(s)
    BY <1>1 DEF NextItems
  <2>4. call'[r] = c /\ item'[r] = m
    BY <1>1, <1>2, <2>1, <2>2, <2>3 DEF AppendEnds
  <2>5. i_time'[r] = [s.times EXCEPT ![x] = @ + 1] /\ step'[r] = "start"
    BY <1>1, <1>2, <1>3, <2>1 DEF AppendEnds
  <2>6. ~ Asks(s)
    BY <2>1 DEF Asks
  <2>7. Alone(s) = State(c, m, "start", [s.times EXCEPT ![x] = @ + 1], s.array, s.got)
    BY <2>1, <2>2 DEF Alone, x
  <2>8. Local(r)' = State(c, m, "start", [s.times EXCEPT ![x] = @ + 1], s.array, s.got)
    <3>1. array'[r] = s.array /\ got'[r] = s.got
      BY <1>1, <2>1
    <3> QED
      BY <1>11, <2>4, <2>5, <3>1
  <2> QED
    BY <2>1, <2>6, <2>7, <2>8
<1> QED
  BY <1>3, <1>7, <1>8, <1>10, <1>13, <1>14, <1>15, <1>16, <1>17 DEF Step, x

\* What the operators say does not change with the program, which stays.
LEMMA SameProgram ==
  ASSUME program' = program
  PROVE  \A s : /\ Asks(s)' <=> Asks(s)
                /\ LocalOK(s)' <=> LocalOK(s)
                /\ Told(s)' = Told(s) /\ After(s)' = After(s)
<1> SUFFICES ASSUME NEW s
             PROVE  /\ Asks(s)' <=> Asks(s)
                    /\ LocalOK(s)' <=> LocalOK(s)
                    /\ Told(s)' = Told(s) /\ After(s)' = After(s)
  OBVIOUS
<1>1. NameIn(s)' = NameIn(s)
  BY DEF NameIn
<1>2. Refused(s)' <=> Refused(s)
  BY <1>1 DEF Refused
<1>3. Asks(s)' <=> Asks(s)
  BY <1>1, <1>2 DEF Asks
<1>4. Told(s)' = Told(s)
  BY <1>1 DEF Told
<1>5. LocalOK(s)' <=> LocalOK(s)
  BY <1>1 DEF LocalOK
<1>6. Hears(s, Told(s))' = Hears(s, Told(s))
  BY <1>1, <1>4 DEF Hears
<1>7. NextItems(s)' = NextItems(s)
  BY DEF NextItems
<1>8. FirstOf(s.call + 1)' = FirstOf(s.call + 1)
  BY DEF FirstOf
<1>9. Alone(s)' = Alone(s)
  BY <1>1, <1>2, <1>7, <1>8 DEF Alone
<1> QED
  BY <1>3, <1>4, <1>5, <1>6, <1>9 DEF After

\* The history goes on.
LEMMA LongerHistory ==
  ASSUME ZarrTypes, NEW H, HistoryOK(H), NEW s, s = H[Len(H)], s.call \in DOMAIN program
  PROVE  HistoryOK(Append(H, After(s)))
<1> DEFINE N == Len(H)
           t == After(s)
           L == Append(H, t)
<1>1. H \in Seq(Locals) /\ N \in Nat /\ DOMAIN H = 1..N /\ N \in DOMAIN H
  BY DEF HistoryOK
<1>2. s \in Locals /\ LocalOK(s)
  BY <1>1 DEF HistoryOK
<1>3. t \in Locals /\ LocalOK(t) /\ NotAfter(s, t)
  BY <1>2, AfterFacts
<1>4. t = After(s)
  OBVIOUS
<1> HIDE DEF t
<1>5. /\ L \in Seq(Locals) /\ L # <<>> /\ Len(L) = N + 1 /\ DOMAIN L = 1..(N + 1)
      /\ L[N + 1] = t /\ \A k \in 1..N : L[k] = H[k]
  BY <1>1, <1>3
<1> HIDE DEF N, L
<1>6. \A k \in DOMAIN L : k \in DOMAIN H \/ k = N + 1
  BY <1>1, <1>5
<1>7. \A k \in DOMAIN L : LocalOK(L[k])
  BY <1>1, <1>3, <1>5, <1>6 DEF HistoryOK
<1>8. \A k \in DOMAIN L : k < Len(L) => L[k].call \in DOMAIN program /\ L[k + 1] = After(L[k])
  <2> SUFFICES ASSUME NEW k \in DOMAIN L, k < Len(L)
               PROVE  L[k].call \in DOMAIN program /\ L[k + 1] = After(L[k])
    OBVIOUS
  <2>1. CASE k = N
    BY <1>1, <1>4, <1>5, <2>1 DEF N
  <2>2. CASE k # N
    <3>1. k \in DOMAIN H /\ k + 1 \in DOMAIN H /\ k < Len(H)
      BY <1>1, <1>5, <2>2 DEF N
    <3>2. L[k] = H[k] /\ L[k + 1] = H[k + 1]
      BY <1>1, <1>5, <3>1
    <3> QED
      BY <3>1, <3>2 DEF HistoryOK
  <2> QED
    BY <2>1, <2>2
<1>9. \A j, k \in DOMAIN L : j <= k => NotAfter(L[j], L[k])
  <2> SUFFICES ASSUME NEW j \in DOMAIN L, NEW k \in DOMAIN L, j <= k PROVE NotAfter(L[j], L[k])
    OBVIOUS
  <2>1. CASE k \in DOMAIN H
    <3>1. j \in DOMAIN H
      BY <1>1, <1>5, <2>1
    <3> QED
      BY <1>1, <1>5, <2>1, <3>1 DEF HistoryOK
  <2>2. CASE k = N + 1 /\ j = N + 1
    BY <1>3, <1>5, <2>2 DEF NotAfter, Locals
  <2>3. CASE k = N + 1 /\ j \in DOMAIN H
    <3>1. PICK u : u = H[j]
      OBVIOUS
    <3>2. NotAfter(u, s)
      BY <1>1, <2>3, <3>1 DEF HistoryOK, N
    <3>3. u \in Locals
      BY <1>1, <2>3, <3>1
    <3>4. NotAfter(u, t)
      BY <1>2, <1>3, <3>2, <3>3 DEF NotAfter, Locals
    <3> QED
      BY <1>1, <1>5, <2>3, <3>1, <3>4
  <2> QED
    BY <1>6, <2>1, <2>2, <2>3
<1> QED
  BY <1>4, <1>5, <1>7, <1>8, <1>9 DEF HistoryOK, L

\* A rank that is told something is behind the root.
LEMMA HeardIsTold ==
  ASSUME ZarrTypes, NEW H, NEW at, HistoryOK(H), PlacesOK(H, at), NEW r \in Ranks,
         Asks(H[at[r]]), got[r] < Len(bcasts)
  PROVE  at[r] < at[ROOT] /\ bcasts[got[r] + 1][2] = Told(H[at[r]])
<1>1. PICK i, k : i = at[ROOT] /\ k = at[r] /\ i \in DOMAIN H /\ k \in DOMAIN H
  BY RootIsRank DEF PlacesOK
<1>2. H[i].got = got[ROOT] /\ H[k].got = got[r] /\ Len(bcasts) = got[ROOT]
  <2>1. Local(ROOT).got = got[ROOT] /\ Local(r).got = got[r]
    BY DEF Local, State
  <2> QED
    BY <1>1, <2>1, RootIsRank DEF PlacesOK
<1>3. H[i].got \in Nat /\ H[k].got \in Nat /\ i \in Int /\ k \in Int
  <2>1. H \in Seq(Locals)
    BY DEF HistoryOK
  <2>2. H[i] \in Locals /\ H[k] \in Locals /\ i \in Int /\ k \in Int
    BY <1>1, <2>1
  <2> QED
    BY <2>2 DEF Locals
<1>4. i <= k => H[i].got <= H[k].got
  BY <1>1 DEF HistoryOK, NotAfter
<1>5. k < i
  BY <1>2, <1>3, <1>4
<1> QED
  BY <1>1, <1>2, <1>5 DEF PlacesOK

\* A step of a rank.
LEMMA HistoryStep ==
  ASSUME ZarrTypes, NEW H, NEW at, HistoryOK(H), PlacesOK(H, at), NEW r \in Ranks, Step(r)
  PROVE  ZarrTypes' /\ \E H2, at2 : (HistoryOK(H2) /\ PlacesOK(H2, at2))'
<1>1. PICK N, k, i : N = Len(H) /\ k = at[r] /\ i = at[ROOT]
  OBVIOUS
<1>2. /\ H \in Seq(Locals) /\ N \in Nat /\ DOMAIN H = 1..N /\ k \in 1..N /\ i \in 1..N
      /\ at \in [Ranks -> DOMAIN H]
  BY <1>1, RootIsRank DEF HistoryOK, PlacesOK
<1>3. PICK s : s = H[k]
  OBVIOUS
<1>4. s = Local(r) /\ s \in Locals /\ LocalOK(s)
  BY <1>1, <1>2, <1>3 DEF HistoryOK, PlacesOK
<1>5. /\ program' = program /\ s.call \in DOMAIN program /\ ZarrTypes' /\ Others(r)
      /\ \/ ~ Asks(s) /\ Local(r)' = Alone(s) /\ UNCHANGED <<bcasts, length>>
         \/ /\ Asks(s) /\ r = ROOT /\ Local(r)' = Hears(s, Told(s))
            /\ bcasts' = Append(bcasts, <<NameIn(s), Told(s)>>)
            /\ length' = [length EXCEPT ![NameIn(s)] = Told(s)]
         \/ /\ Asks(s) /\ r # ROOT /\ got[r] < Len(bcasts)
            /\ Local(r)' = Hears(s, bcasts[got[r] + 1][2])
            /\ UNCHANGED <<bcasts, length>>
  BY <1>4, LocalStep
<1>6. PICK t : t = After(s)
  OBVIOUS
<1>7. /\ t \in Locals
      /\ Asks(s) => t.got = s.got + 1
      /\ ~ Asks(s) => t.array = s.array /\ t.got = s.got
  BY <1>4, <1>5, <1>6, AfterFacts
<1>8. Local(r)' = t /\ (Asks(s) /\ r # ROOT => k < i)
  <2>1. CASE ~ Asks(s)
    BY <1>5, <1>6, <2>1 DEF After
  <2>2. CASE Asks(s) /\ r = ROOT
    BY <1>5, <1>6, <2>2 DEF After
  <2>3. CASE Asks(s) /\ r # ROOT
    <3>1. k < i /\ bcasts[got[r] + 1][2] = Told(s)
      BY <1>1, <1>3, <1>5, <2>3, HeardIsTold
    <3> QED
      BY <1>5, <1>6, <2>3, <3>1 DEF After
  <2> QED
    BY <2>1, <2>2, <2>3
<1>9. PICK L : L = IF k = N THEN Append(H, t) ELSE H
  OBVIOUS
<1>10. PICK M : M = IF k = N THEN N + 1 ELSE N
  OBVIOUS
<1>11. /\ HistoryOK(L) /\ L \in Seq(Locals) /\ Len(L) = M /\ DOMAIN L = 1..M /\ M \in Nat /\ k + 1 \in 1..M
       /\ L[k + 1] = t /\ \A j \in 1..N : L[j] = H[j]
  <2>1. CASE k = N
    <3>1. HistoryOK(L)
      BY <1>1, <1>3, <1>5, <1>6, <1>9, <2>1, LongerHistory
    <3> QED
      BY <1>2, <1>7, <1>9, <1>10, <2>1, <3>1
  <2>2. CASE k # N
    <3>1. k + 1 \in 1..N /\ H[k + 1] = t
      BY <1>1, <1>2, <1>3, <1>6, <2>2 DEF HistoryOK
    <3> QED
      BY <1>1, <1>2, <1>9, <1>10, <2>2, <3>1
  <2> QED
    BY <2>1, <2>2
<1>12. HistoryOK(L)'
  BY <1>5, <1>11, SameProgram DEF HistoryOK
<1>13. PICK now : now = [at EXCEPT ![r] = k + 1]
  OBVIOUS
<1>14. /\ now \in [Ranks -> DOMAIN L] /\ now[r] = k + 1
       /\ \A o \in Ranks : o # r => now[o] = at[o] /\ at[o] \in 1..N
  BY <1>2, <1>10, <1>11, <1>13
<1>15. \A o \in Ranks : Local(o)' = L[now[o]]
  <2>1. \A o \in Ranks : Local(o) = H[at[o]]
    BY DEF PlacesOK
  <2> QED
    BY <1>5, <1>8, <1>11, <1>14, <2>1 DEF Others
<1>16. /\ s.array = array[r] /\ s.got = got[r] /\ t.array = array'[r] /\ t.got = got'[r]
       /\ r # ROOT => array'[ROOT] = array[ROOT] /\ got'[ROOT] = got[ROOT]
  <2>1. s.array = array[r] /\ s.got = got[r] /\ t.array = array'[r] /\ t.got = got'[r]
    BY <1>4, <1>8 DEF Local, State
  <2>2. ASSUME r # ROOT PROVE array'[ROOT] = array[ROOT] /\ got'[ROOT] = got[ROOT]
    <3>1. Local(ROOT)' = Local(ROOT)
      BY <1>5, <2>2, RootIsRank DEF Others
    <3> QED
      BY <3>1 DEF Local, State
  <2> QED
    BY <2>1, <2>2
<1>17. /\ \A j \in 1..N : j >= i => H[j].array = array[ROOT] /\ (j < N => ~ Asks(H[j]))
       /\ Len(bcasts) = got[ROOT] /\ length = array[ROOT]
       /\ \A j \in 1..N : j < i /\ Asks(H[j]) => bcasts[H[j].got + 1][2] = Told(H[j])
  BY <1>1, <1>2 DEF PlacesOK
<1>18. r = ROOT => k = i /\ now[ROOT] = k + 1
  BY <1>1, <1>14
<1>19. r # ROOT => now[ROOT] = i
  BY <1>1, <1>14, RootIsRank
<1>20. r = ROOT /\ Asks(s) => k = N
  BY <1>2, <1>3, <1>17, <1>18
<1>21. \A j \in 1..M : j >= now[ROOT] => L[j].array = array'[ROOT] /\ (j < M => ~ Asks(L[j]))
  <2> SUFFICES ASSUME NEW j \in 1..M, j >= now[ROOT]
               PROVE  L[j].array = array'[ROOT] /\ (j < M => ~ Asks(L[j]))
    OBVIOUS
  <2>1. CASE j \in 1..N
    <3>1. L[j] = H[j] /\ j >= i
      BY <1>2, <1>11, <1>18, <1>19, <2>1
    <3>2. H[j].array = array[ROOT] /\ (j < N => ~ Asks(H[j]))
      BY <1>17, <2>1, <3>1
    <3>3. r = ROOT => ~ Asks(s)
      BY <1>2, <1>18, <1>20, <2>1
    <3>4. array'[ROOT] = array[ROOT]
      BY <1>7, <1>16, <3>3
    <3>5. j < M => ~ Asks(L[j])
      <4>1. CASE j < N
        BY <3>1, <3>2, <4>1
      <4>2. CASE j = N /\ k = N
        <5>1. r # ROOT
          BY <1>18, <2>1, <4>2, <1>2
        <5>2. ~ Asks(s)
          BY <1>2, <1>8, <4>2, <5>1
        <5> QED
          BY <1>3, <3>1, <4>2, <5>2
      <4>3. CASE j = N /\ k # N
        BY <1>10, <4>3, <1>2
      <4> QED
        BY <1>2, <2>1, <4>1, <4>2, <4>3
    <3> QED
      BY <3>1, <3>2, <3>4, <3>5
  <2>2. CASE j = N + 1
    <3>1. k = N /\ j = M /\ L[j] = t
      BY <1>2, <1>10, <1>11, <2>2
    <3>2. CASE r = ROOT
      BY <1>2, <1>16, <3>1, <3>2
    <3>3. CASE r # ROOT
      <4>1. ~ Asks(s)
        BY <1>2, <1>8, <3>1, <3>3
      <4>2. s.array = array[ROOT]
        BY <1>2, <1>3, <1>17, <3>1
      <4> QED
        BY <1>2, <1>7, <1>16, <3>1, <3>3, <4>1, <4>2
    <3> QED
      BY <3>2, <3>3
  <2> QED
    BY <1>2, <1>10, <2>1, <2>2
<1>22. bcasts \in Seq(AllNames \X Nat)
  BY DEF ZarrTypes
<1>23. Len(bcasts)' = got'[ROOT] /\ length' = array'[ROOT]
  <2>1. CASE r = ROOT /\ Asks(s)
    <3>1. Len(bcasts') = got[ROOT] + 1
      <4>1. PICK e : e = <<NameIn(s), Told(s)>>
        OBVIOUS
      <4>2. bcasts' = Append(bcasts, e)
        BY <1>5, <2>1, <4>1
      <4> QED
        BY <1>17, <1>22, <4>2
    <3>2. length' = [length EXCEPT ![NameIn(s)] = Told(s)]
      BY <1>5, <2>1
    <3>3. t.array = [s.array EXCEPT ![NameIn(s)] = Told(s)]
      BY <1>6, <2>1 DEF After, Hears, State
    <3> QED
      BY <1>7, <1>16, <1>17, <2>1, <3>1, <3>2, <3>3
  <2>2. CASE r = ROOT /\ ~ Asks(s)
    BY <1>5, <1>7, <1>16, <1>17, <2>2
  <2>3. CASE r # ROOT
    BY <1>5, <1>16, <1>17, <2>3
  <2> QED
    BY <2>1, <2>2, <2>3
<1>24. \A j \in 1..M : j < now[ROOT] /\ Asks(L[j]) => bcasts'[L[j].got + 1][2] = Told(L[j])
  <2> SUFFICES ASSUME NEW j \in 1..M, j < now[ROOT], Asks(L[j])
               PROVE  bcasts'[L[j].got + 1][2] = Told(L[j])
    OBVIOUS
  <2>1. j \in 1..N /\ L[j] = H[j]
    BY <1>2, <1>11, <1>18, <1>19
  <2>2. CASE j < i
    <3>1. bcasts[H[j].got + 1][2] = Told(H[j])
      BY <1>17, <2>1, <2>2
    <3>2. H[j].got + 1 \in 1..Len(bcasts)
      <4>1. j + 1 \in 1..N /\ j + 1 <= i /\ H[j + 1] = After(H[j]) /\ H[j].call \in DOMAIN program
        BY <1>1, <1>2, <2>1, <2>2 DEF HistoryOK
      <4>2. PICK u, v, w : u = H[j] /\ v = H[j + 1] /\ w = H[i]
        OBVIOUS
      <4>3. u \in Locals /\ LocalOK(u) /\ v \in Locals /\ w \in Locals
        BY <1>2, <2>1, <4>1, <4>2 DEF HistoryOK
      <4>4. v.got = u.got + 1
        BY <2>1, <4>1, <4>2, <4>3, AfterFacts
      <4>5. v.got <= w.got
        BY <1>2, <4>1, <4>2 DEF HistoryOK, NotAfter
      <4>6. w.got = Len(bcasts)
        <5>1. w = Local(ROOT)
          BY <1>1, <4>2, RootIsRank DEF PlacesOK
        <5> QED
          BY <1>17, <5>1 DEF Local, State
      <4> QED
        BY <4>2, <4>3, <4>4, <4>5, <4>6 DEF Locals
    <3>3. bcasts' = bcasts \/ \E e : bcasts' = Append(bcasts, e)
      BY <1>5
    <3>4. bcasts'[H[j].got + 1] = bcasts[H[j].got + 1]
      BY <1>22, <3>2, <3>3
    <3> QED
      BY <2>1, <3>1, <3>4
  <2>3. CASE j >= i
    <3>1. r = ROOT /\ j = k
      BY <1>2, <1>18, <1>19, <2>1, <2>3
    <3>2. L[j] = s /\ Asks(s)
      BY <1>3, <2>1, <3>1
    <3>3. PICK e : e = <<NameIn(s), Told(s)>>
      OBVIOUS
    <3>4. bcasts' = Append(bcasts, e) /\ s.got = Len(bcasts)
      BY <1>5, <1>16, <1>17, <3>1, <3>2, <3>3
    <3>5. bcasts'[s.got + 1] = e
      BY <1>22, <3>4
    <3> QED
      BY <3>2, <3>3, <3>5
  <2> QED
    BY <1>2, <2>1, <2>2, <2>3
<1>25. PlacesOK(L, now)'
  BY <1>5, <1>11, <1>14, <1>15, <1>21, <1>23, <1>24, SameProgram DEF PlacesOK
<1> QED
  BY <1>5, <1>12, <1>25

LEMMA ZarrInit == Init => ZarrInv
<1> SUFFICES ASSUME Init PROVE ZarrInv
  OBVIOUS
<1>1. ZarrTypes
  BY ZarrAssumption DEF Init, ZarrTypes
<1>2. PICK s : s = Local(ROOT)
  OBVIOUS
<1>3. \A r \in Ranks : Local(r) = s
  BY <1>2, RootIsRank DEF Local, Init
<1>4. /\ s.call = 1 /\ s.item = FirstOf(1) /\ s.step = "start" /\ s.got = 0
      /\ s.times = [n \in AllNames |-> 0] /\ s.array = [n \in AllNames |-> 0]
      /\ s = State(1, FirstOf(1), "start", [n \in AllNames |-> 0], [n \in AllNames |-> 0], 0)
  BY <1>2, RootIsRank DEF Local, State, Init
<1>5. s \in Locals
  BY <1>4, FirstOfFacts DEF Locals, State
<1>6. LocalOK(s)
  BY <1>4, FirstOfFacts DEF LocalOK
<1>7. PICK H : H = <<s>>
  OBVIOUS
<1>8. H \in Seq(Locals) /\ Len(H) = 1 /\ DOMAIN H = {1} /\ H[1] = s /\ H # <<>>
  BY <1>5, <1>7
<1>9. HistoryOK(H)
  <2>1. NotAfter(s, s)
    BY <1>5 DEF NotAfter, Locals
  <2> QED
    BY <1>6, <1>8, <2>1 DEF HistoryOK
<1>10. PICK at : at = [r \in Ranks |-> 1]
  OBVIOUS
<1>11. PlacesOK(H, at)
  <2>1. Len(bcasts) = got[ROOT] /\ length = array[ROOT] /\ s.array = array[ROOT]
    BY <1>4, RootIsRank DEF Init
  <2> QED
    BY <1>3, <1>8, <1>10, <2>1, RootIsRank DEF PlacesOK
<1> QED
  BY <1>1, <1>9, <1>11 DEF ZarrInv

LEMMA ArraysFit == ZarrInv => WritesInsideArray
<1> SUFFICES ASSUME ZarrInv, NEW r \in Ranks, step[r] \in {"read", "barrier"}
             PROVE  i_time[r][Name(r)] < array[r][Name(r)] /\ array[r][Name(r)] <= length[Name(r)]
  BY DEF WritesInsideArray
<1>1. PICK H, at : HistoryOK(H) /\ PlacesOK(H, at)
  BY DEF ZarrInv
<1>2. PICK s, k, i, w : s = Local(r) /\ k = at[r] /\ i = at[ROOT] /\ w = H[i]
  OBVIOUS
<1>3. k \in DOMAIN H /\ i \in DOMAIN H /\ s = H[k] /\ w = Local(ROOT)
  BY <1>1, <1>2, RootIsRank DEF PlacesOK
<1>4. s \in Locals /\ LocalOK(s) /\ w \in Locals /\ k \in Int /\ i \in Int
  <2>1. H \in Seq(Locals) /\ \A j \in DOMAIN H : LocalOK(H[j])
    BY <1>1 DEF HistoryOK
  <2>2. k \in Int /\ i \in Int
    BY <1>3, <2>1
  <2>3. H[k] \in Locals /\ H[i] \in Locals
    BY <1>3, <2>1
  <2> QED
    BY <1>2, <1>3, <2>1, <2>2, <2>3
<1>5. /\ s.call = call[r] /\ s.item = item[r] /\ s.step = step[r] /\ s.times = i_time[r]
      /\ s.array = array[r] /\ w.array = array[ROOT]
  BY <1>2, <1>3 DEF Local, State
<1>6. Name(r) = NameIn(s)
  BY <1>5 DEF Name, NameIn
<1>7. s.call \in DOMAIN program /\ s.times[NameIn(s)] < s.array[NameIn(s)]
  BY <1>4, <1>5 DEF LocalOK
<1>8. NameIn(s) \in AllNames
  BY <1>4, <1>7, NameInFacts DEF ZarrInv
<1>9. s.array[NameIn(s)] <= w.array[NameIn(s)]
  <2>1. CASE k <= i
    BY <1>1, <1>2, <1>3, <1>8, <2>1 DEF HistoryOK, NotAfter
  <2>2. CASE k > i
    <3>1. s.array = array[ROOT]
      BY <1>1, <1>2, <1>3, <1>4, <2>2 DEF PlacesOK
    <3> QED
      BY <1>4, <1>5, <1>8, <3>1 DEF Locals
  <2> QED
    BY <1>4, <2>1, <2>2
<1>10. length = array[ROOT]
  BY <1>1 DEF PlacesOK
<1> QED
  BY <1>5, <1>6, <1>7, <1>9, <1>10

LEMMA ZarrNext == ZarrInv /\ Next => ZarrInv'
<1> SUFFICES ASSUME ZarrInv, NEW r \in Ranks, Step(r) PROVE ZarrInv'
  BY DEF Next
<1>1. PICK H, at : HistoryOK(H) /\ PlacesOK(H, at)
  BY DEF ZarrInv
<1>2. ZarrTypes
  BY DEF ZarrInv
<1> QED
  BY <1>1, <1>2, HistoryStep DEF ZarrInv

(***************************************************************************)
(* No rank writes beyond the times of its array object, nor has that       *)
(* object times that the array on disk has not, though the root extends    *)
(* the array while others hold what they were told: for any layout, names  *)
(* and program (sync_array, _ZarrVariableWriter.append).                   *)
(***************************************************************************)
THEOREM ArraysAreLongEnough == MCSpec => []ZarrWritesInsideArray
<1> DEFINE Inv == user = "zarr" => ZarrInv
<1>1. MCInit => Inv
  BY ZarrInit DEF MCInit
<1>2. Inv /\ [MCNext]_MCvars => Inv'
  <2> SUFFICES ASSUME Inv, [MCNext]_MCvars, user' = "zarr" PROVE ZarrInv'
    OBVIOUS
  <2>1. CASE UNCHANGED MCvars
    <3>1. UNCHANGED <<program, call, item, step, i_time, array, got, bcasts, length, user>>
      BY <2>1 DEF MCvars, ofZarr
    <3>2. ZarrInv
      BY <2>1 DEF MCvars
    <3>3. PICK H, at : HistoryOK(H) /\ PlacesOK(H, at)
      BY <3>2 DEF ZarrInv
    <3>4. \A r \in Ranks : Local(r)' = Local(r)
      BY <3>1 DEF Local
    <3>5. HistoryOK(H)' /\ PlacesOK(H, at)'
      BY <3>1, <3>3, <3>4, SameProgram DEF HistoryOK, PlacesOK
    <3>6. ZarrTypes'
      BY <3>1, <3>2 DEF ZarrInv, ZarrTypes
    <3> QED
      BY <3>5, <3>6 DEF ZarrInv
  <2>2. ASSUME NEW r \in Ranks, ZarrStep(r) PROVE ZarrInv'
    BY <2>2, ZarrNext DEF ZarrStep, Next
  <2>3. ~ TransferNext /\ \A r \in NetCDF!Ranks : ~ NetCDFStep(r)
    BY DEF TransferNext, NetCDFStep
  <2> QED
    BY <2>1, <2>2, <2>3 DEF MCNext
<1>3. Inv => ZarrWritesInsideArray
  BY ArraysFit DEF ZarrWritesInsideArray
<1> QED
  BY <1>1, <1>2, <1>3, PTL DEF MCSpec

-----------------------------------------------------------------------------
(* The NetCDF monitor.  Every part that is gathered has a place in the     *)
(* program, a call and the number of a variable.                           *)

V == NetCDFVariables
Processes == NetCDF!Ranks
Parts(v, c) == [r \in Processes |-> <<v, c, r>>]
AllParts == Range(V) \X Nat \X Processes

Gathers(c, n) == c \in DOMAIN program /\ program[c] \in {"store", "constant"} /\ n \in DOMAIN V
Before(c, n, d, m) == c < d \/ (c = d /\ n < m)

\* Rank r, at the place <<d, m>>, has sent q since the root's place, <<c, n>>.
Lists(q, r, c, n, d, m) ==
  /\ q \in Seq(AllParts)
  /\ \A e, k : Gathers(e, k) /\ Before(e, k, c, n) => Before(e, k, d, m)
  /\ \A j \in DOMAIN q : \E e, k :
       Gathers(e, k) /\ ~ Before(e, k, c, n) /\ Before(e, k, d, m) /\ q[j] = <<V[k], e, r>>
  /\ \A e, k : Gathers(e, k) /\ ~ Before(e, k, c, n) /\ Before(e, k, d, m) =>
       \E j \in DOMAIN q : q[j] = <<V[k], e, r>>
  /\ \A i, j \in DOMAIN q : \A e, k, f, l :
       /\ i < j /\ Gathers(e, k) /\ Gathers(f, l)
       /\ q[i] = <<V[k], e, r>> /\ q[j] = <<V[l], f, r>>
       => Before(e, k, f, l)

SentOK ==
  \A r \in Processes \ {0} : Lists(sent[r], r, call[0], item[0], call[r], item[r])

PlaceOK(c, n) == c \in Nat /\ n \in DOMAIN V /\ (n = 1 \/ Gathers(c, n))
NetCDFTypes ==
  /\ program \in Seq({"store", "other", "constant", "cleanup"})
  /\ call \in [Processes -> Nat] /\ item \in [Processes -> DOMAIN V] /\ DOMAIN sent = Processes
  /\ \A r \in Processes : PlaceOK(call[r], item[r])

\* What the root has of the state it is gathering.
GatheredOK == \A n \in DOMAIN V : n < item[0] => received[V[n]] = Parts(V[n], call[0])

\* Whole states: the values of a variable at some times.
Values(v, times) == [n \in DOMAIN times |-> Parts(v, times[n])]
FileOK(times, values) == \A v \in Range(V) : values[v] = Values(v, times)

ChunkOK(w) ==
  \E i, values : \E times \in Seq(Nat) :
    /\ w = [i_time |-> i, chunked |-> values, times |-> times]
    /\ values = <<>> => times = <<>>
    /\ values # <<>> => FileOK(times, values)
WriterOK == ChunkOK(writer)
FilesOK == \A i \in DOMAIN files : FileOK(files[i].times, files[i].values)
ConstantsOK == \A v \in DOMAIN constants : \E c : constants[v] = Parts(v, c)

NetCDFInv ==
  NetCDFTypes /\ SentOK /\ GatheredOK /\ WriterOK /\ FilesOK /\ ConstantsOK

-----------------------------------------------------------------------------

LEMMA VariablesFacts ==
  /\ Len(V) \in Nat /\ DOMAIN V = 1..Len(V) /\ Len(V) >= 1
  /\ \A n, m \in DOMAIN V : V[n] = V[m] => n = m
  /\ \A n \in DOMAIN V : V[n] \in Range(V)
  /\ 0 \in Processes /\ Processes \subseteq Nat
BY NetCDFAssumption DEF V, Range, IsInjective, Processes, NetCDF!Ranks

\* The place after <<c, n>>.
NextCall(c, n) == IF n < Len(V) THEN c ELSE c + 1
NextItem(n)    == IF n < Len(V) THEN n + 1 ELSE 1

LEMMA NextPlace ==
  ASSUME NEW c \in Nat, NEW n \in DOMAIN V
  PROVE  /\ NextCall(c, n) \in Nat /\ NextItem(n) \in DOMAIN V
         /\ \A e \in Nat : \A k \in DOMAIN V :
              Before(e, k, NextCall(c, n), NextItem(n)) <=> Before(e, k, c, n) \/ (e = c /\ k = n)
BY VariablesFacts DEF NextCall, NextItem, Before

LEMMA GathersTypes ==
  ASSUME NetCDFTypes, NEW e, NEW k, Gathers(e, k) PROVE e \in Nat /\ k \in DOMAIN V
<1>1. DOMAIN program \subseteq Nat
  BY DEF NetCDFTypes
<1> QED
  BY <1>1 DEF Gathers

\* A call that gathers nothing.
LEMMA SkippedCall ==
  ASSUME NetCDFTypes, NEW c \in Nat, ~ Gathers(c, 1), NEW e, NEW k, Gathers(e, k)
  PROVE  Before(e, k, c + 1, 1) <=> Before(e, k, c, 1)
<1>1. e \in Nat /\ k \in DOMAIN V /\ k \in Nat /\ k >= 1 /\ 1 \in DOMAIN V
  BY GathersTypes, VariablesFacts
<1>2. e # c
  BY <1>1 DEF Gathers
<1> QED
  BY <1>1, <1>2 DEF Before

LEMMA ListsSkip ==
  ASSUME NetCDFTypes, NEW q, NEW r, NEW c \in Nat, NEW n, NEW d \in Nat, NEW m, Lists(q, r, c, n, d, m)
  PROVE  /\ ~ Gathers(c, 1) /\ n = 1 => Lists(q, r, c + 1, 1, d, m)
         /\ ~ Gathers(d, 1) /\ m = 1 => Lists(q, r, c, n, d + 1, 1)
<1>1. ASSUME ~ Gathers(c, 1), n = 1 PROVE Lists(q, r, c + 1, 1, d, m)
  <2>1. \A e, k : Gathers(e, k) => (Before(e, k, c + 1, 1) <=> Before(e, k, c, n))
    BY <1>1, SkippedCall
  <2> QED
    BY <2>1 DEF Lists
<1>2. ASSUME ~ Gathers(d, 1), m = 1 PROVE Lists(q, r, c, n, d + 1, 1)
  <2>1. \A e, k : Gathers(e, k) => (Before(e, k, d + 1, 1) <=> Before(e, k, d, m))
    BY <1>2, SkippedCall
  <2> QED
    BY <2>1 DEF Lists
<1> QED
  BY <1>1, <1>2

LEMMA ListsSend ==
  ASSUME NetCDFTypes, NEW q, NEW r \in Processes, NEW c \in Nat, NEW n \in DOMAIN V,
         NEW d, NEW m, Gathers(d, m), Lists(q, r, c, n, d, m), NEW part, part = <<V[m], d, r>>
  PROVE  Lists(Append(q, part), r, c, n, NextCall(d, m), NextItem(m))
<1> DEFINE L == Append(q, part)
           After1(e, k) == Before(e, k, NextCall(d, m), NextItem(m))
<1>1. d \in Nat /\ m \in DOMAIN V /\ m \in Nat
  BY GathersTypes, VariablesFacts
<1>2. \A e, k : Gathers(e, k) => (After1(e, k) <=> Before(e, k, d, m) \/ (e = d /\ k = m))
  <2> SUFFICES ASSUME NEW e, NEW k, Gathers(e, k)
               PROVE  After1(e, k) <=> Before(e, k, d, m) \/ (e = d /\ k = m)
    OBVIOUS
  <2>1. e \in Nat /\ k \in DOMAIN V
    BY GathersTypes
  <2> QED
    BY <1>1, <2>1, NextPlace
<1>3. part \in AllParts
  BY <1>1, VariablesFacts DEF AllParts
<1>4. q \in Seq(AllParts) /\ Len(q) \in Nat /\ DOMAIN q = 1..Len(q)
  BY DEF Lists
<1>5. /\ L \in Seq(AllParts) /\ DOMAIN L = 1..(Len(q) + 1) /\ L[Len(q) + 1] = part
      /\ \A j \in DOMAIN q : L[j] = q[j] /\ j \in DOMAIN L
      /\ \A j \in DOMAIN L : j \in DOMAIN q \/ j = Len(q) + 1
  BY <1>3, <1>4
<1>6. ~ Before(d, m, d, m) /\ ~ Before(d, m, c, n)
  BY <1>1 DEF Before, Lists
<1>7. \A e, k : Gathers(e, k) /\ <<V[k], e, r>> = part => e = d /\ k = m
  BY <1>1, VariablesFacts, GathersTypes
<1> HIDE DEF L, After1
<1>8. \A e, k : Gathers(e, k) /\ Before(e, k, c, n) => After1(e, k)
  BY <1>2 DEF Lists
<1>9. \A j \in DOMAIN L : \E e, k :
        Gathers(e, k) /\ ~ Before(e, k, c, n) /\ After1(e, k) /\ L[j] = <<V[k], e, r>>
  <2> SUFFICES ASSUME NEW j \in DOMAIN L
               PROVE  \E e, k : Gathers(e, k) /\ ~ Before(e, k, c, n) /\ After1(e, k) /\ L[j] = <<V[k], e, r>>
    OBVIOUS
  <2>1. CASE j \in DOMAIN q
    <3>1. PICK e, k : Gathers(e, k) /\ ~ Before(e, k, c, n) /\ Before(e, k, d, m) /\ q[j] = <<V[k], e, r>>
      BY <2>1 DEF Lists
    <3> QED
      BY <1>2, <1>5, <2>1, <3>1
  <2>2. CASE j = Len(q) + 1
    <3>1. After1(d, m)
      BY <1>2
    <3> QED
      BY <1>5, <1>6, <2>2, <3>1
  <2> QED
    BY <1>5, <2>1, <2>2
<1>10. ASSUME NEW e, NEW k, Gathers(e, k), ~ Before(e, k, c, n), After1(e, k)
       PROVE  \E j \in DOMAIN L : L[j] = <<V[k], e, r>>
  <2>1. CASE Before(e, k, d, m)
    <3>1. PICK j \in DOMAIN q : q[j] = <<V[k], e, r>>
      BY <1>10, <2>1 DEF Lists
    <3> QED
      BY <1>5, <3>1
  <2>2. CASE e = d /\ k = m
    BY <1>4, <1>5, <2>2
  <2> QED
    BY <1>2, <1>10, <2>1, <2>2
<1>11. ASSUME NEW i \in DOMAIN L, NEW j \in DOMAIN L, NEW e, NEW k, NEW f, NEW l,
              i < j, Gathers(e, k), Gathers(f, l), L[i] = <<V[k], e, r>>, L[j] = <<V[l], f, r>>
       PROVE  Before(e, k, f, l)
  <2>1. i \in DOMAIN q
    BY <1>4, <1>5, <1>11
  <2>2. CASE j \in DOMAIN q
    BY <1>5, <1>11, <2>1, <2>2 DEF Lists
  <2>3. CASE j = Len(q) + 1
    <3>1. f = d /\ l = m
      BY <1>5, <1>7, <1>11, <2>3
    <3>2. PICK e2, k2 : Gathers(e2, k2) /\ Before(e2, k2, d, m) /\ q[i] = <<V[k2], e2, r>>
      BY <2>1 DEF Lists
    <3>3. V[k2] = V[k] /\ e2 = e
      BY <1>5, <1>11, <2>1, <3>2
    <3>4. k2 = k
      BY <1>11, <3>2, <3>3, VariablesFacts, GathersTypes
    <3> QED
      BY <3>1, <3>2, <3>3, <3>4
  <2> QED
    BY <1>5, <2>2, <2>3
<1> QED
  BY <1>5, <1>8, <1>9, <1>10, <1>11 DEF Lists, After1, L

LEMMA ListsTake ==
  ASSUME NetCDFTypes, NEW q, NEW r \in Processes, NEW c, NEW n, Gathers(c, n),
         NEW d \in Nat, NEW m \in DOMAIN V, Lists(q, r, c, n, d, m), q # <<>>
  PROVE  /\ Head(q) = <<V[n], c, r>>
         /\ Lists(Tail(q), r, NextCall(c, n), NextItem(n), d, m)
<1> DEFINE T == Tail(q)
           After1(e, k) == Before(e, k, NextCall(c, n), NextItem(n))
<1>1. c \in Nat /\ n \in DOMAIN V /\ n \in Nat /\ m \in Nat
  BY GathersTypes, VariablesFacts
<1>2. \A e, k : Gathers(e, k) => (After1(e, k) <=> Before(e, k, c, n) \/ (e = c /\ k = n))
  <2> SUFFICES ASSUME NEW e, NEW k, Gathers(e, k)
               PROVE  After1(e, k) <=> Before(e, k, c, n) \/ (e = c /\ k = n)
    OBVIOUS
  <2>1. e \in Nat /\ k \in DOMAIN V
    BY GathersTypes
  <2> QED
    BY <1>1, <2>1, NextPlace
<1>3. q \in Seq(AllParts) /\ Len(q) \in Nat /\ DOMAIN q = 1..Len(q) /\ 1 \in DOMAIN q
  <2>1. q \in Seq(AllParts)
    BY DEF Lists
  <2> QED
    BY <2>1
<1>4. /\ T \in Seq(AllParts) /\ DOMAIN T = 1..(Len(q) - 1) /\ Head(q) = q[1]
      /\ \A j \in DOMAIN T : T[j] = q[j + 1] /\ j + 1 \in DOMAIN q /\ 1 < j + 1
      /\ \A j \in DOMAIN q : j # 1 => j - 1 \in DOMAIN T /\ T[j - 1] = q[j]
  BY <1>3
<1>5. \A e, k : Gathers(e, k) /\ <<V[k], e, r>> = <<V[n], c, r>> => e = c /\ k = n
  BY <1>1, VariablesFacts, GathersTypes
<1> HIDE DEF T, After1
<1>6. Before(c, n, d, m) /\ q[1] = <<V[n], c, r>>
  <2>1. PICK e, k : Gathers(e, k) /\ ~ Before(e, k, c, n) /\ Before(e, k, d, m) /\ q[1] = <<V[k], e, r>>
    BY <1>3 DEF Lists
  <2>2. e \in Nat /\ k \in Nat
    BY <2>1, GathersTypes, VariablesFacts
  <2>3. Before(c, n, d, m) /\ ~ Before(c, n, c, n)
    BY <1>1, <2>1, <2>2 DEF Before
  <2>4. PICK j \in DOMAIN q : q[j] = <<V[n], c, r>>
    BY <2>3 DEF Lists
  <2>5. 1 < j => Before(e, k, c, n)
    BY <1>3, <2>1, <2>4 DEF Lists
  <2>6. j = 1
    BY <1>3, <2>1, <2>5
  <2> QED
    BY <2>3, <2>4, <2>6
<1>7. \A e, k : Gathers(e, k) /\ After1(e, k) => Before(e, k, d, m)
  BY <1>2, <1>6 DEF Lists
<1>8. \A j \in DOMAIN T : \E e, k :
        Gathers(e, k) /\ ~ After1(e, k) /\ Before(e, k, d, m) /\ T[j] = <<V[k], e, r>>
  <2> SUFFICES ASSUME NEW j \in DOMAIN T
               PROVE  \E e, k : Gathers(e, k) /\ ~ After1(e, k) /\ Before(e, k, d, m) /\ T[j] = <<V[k], e, r>>
    OBVIOUS
  <2>1. PICK e, k : Gathers(e, k) /\ ~ Before(e, k, c, n) /\ Before(e, k, d, m) /\ q[j + 1] = <<V[k], e, r>>
    BY <1>4 DEF Lists
  <2>2. Before(c, n, e, k)
    BY <1>3, <1>4, <1>6, <2>1 DEF Lists
  <2>3. ~ (e = c /\ k = n)
    BY <1>1, <2>2 DEF Before
  <2> QED
    BY <1>2, <1>4, <2>1, <2>3
<1>9. ASSUME NEW e, NEW k, Gathers(e, k), ~ After1(e, k), Before(e, k, d, m)
      PROVE  \E j \in DOMAIN T : T[j] = <<V[k], e, r>>
  <2>1. PICK j \in DOMAIN q : q[j] = <<V[k], e, r>>
    BY <1>2, <1>9 DEF Lists
  <2>2. j # 1
    BY <1>2, <1>5, <1>6, <1>9, <2>1
  <2> QED
    BY <1>4, <2>1, <2>2
<1>10. ASSUME NEW i \in DOMAIN T, NEW j \in DOMAIN T, NEW e, NEW k, NEW f, NEW l,
              i < j, Gathers(e, k), Gathers(f, l), T[i] = <<V[k], e, r>>, T[j] = <<V[l], f, r>>
       PROVE  Before(e, k, f, l)
  <2>1. i + 1 < j + 1
    BY <1>3, <1>4, <1>10
  <2> QED
    BY <1>4, <1>10, <2>1 DEF Lists
<1> QED
  BY <1>4, <1>6, <1>7, <1>8, <1>9, <1>10 DEF Lists, After1, T

\* The program stays, and so do the places.
LEMMA SameLists ==
  ASSUME program' = program, NEW r,
         Lists(sent'[r], r, call'[0], item'[0], call'[r], item'[r])
  PROVE  Lists(sent[r], r, call[0], item[0], call[r], item[r])'
BY DEF Lists, Gathers

LEMMA NextPlaceOK ==
  ASSUME NetCDFTypes, NEW c, NEW n, Gathers(c, n)
  PROVE  PlaceOK(NextCall(c, n), NextItem(n))
<1>1. c \in Nat /\ n \in DOMAIN V
  BY GathersTypes
<1>2. NextCall(c, n) \in Nat /\ NextItem(n) \in DOMAIN V
  BY <1>1, NextPlace
<1>3. NextItem(n) = 1 \/ Gathers(NextCall(c, n), NextItem(n))
  BY <1>1, <1>2 DEF NextCall, NextItem, Gathers
<1> QED
  BY <1>2, <1>3 DEF PlaceOK

\* Rank r goes on to a place of its program, and the others stay.
Goes(r, c, n) ==
  /\ call' = [call EXCEPT ![r] = c] /\ item' = [item EXCEPT ![r] = n]
  /\ PlaceOK(c, n)

LEMMA GoesOn ==
  ASSUME NetCDFTypes, NEW r \in Processes, Gathers(call[r], item[r]),
         IF item[r] < Len(V) THEN item' = [item EXCEPT ![r] = @ + 1] /\ UNCHANGED call
                             ELSE NetCDF!CallEnds(r)
  PROVE  Goes(r, NextCall(call[r], item[r]), NextItem(item[r]))
<1>1. call \in [Processes -> Nat] /\ item \in [Processes -> DOMAIN V]
  BY DEF NetCDFTypes
<1>2. PICK c, n : c = NextCall(call[r], item[r]) /\ n = NextItem(item[r])
  OBVIOUS
<1>3. call' = [call EXCEPT ![r] = c]
  BY <1>1, <1>2 DEF NextCall, NetCDF!CallEnds
<1>4. item' = [item EXCEPT ![r] = n]
  BY <1>1, <1>2 DEF NextItem, NetCDF!CallEnds
<1> QED
  BY <1>2, <1>3, <1>4, NextPlaceOK DEF Goes

\* Types and places are kept.
LEMMA TypesKept ==
  ASSUME NetCDFTypes, program' = program, NEW r \in Processes, NEW c, NEW n, Goes(r, c, n),
         DOMAIN sent' = Processes
  PROVE  /\ NetCDFTypes' /\ call'[r] = c /\ item'[r] = n
         /\ \A o \in Processes : o # r => call'[o] = call[o] /\ item'[o] = item[o]
<1>1. /\ call \in [Processes -> Nat] /\ item \in [Processes -> DOMAIN V]
      /\ program \in Seq({"store", "other", "constant", "cleanup"})
      /\ \A o \in Processes : PlaceOK(call[o], item[o])
  BY DEF NetCDFTypes
<1>2. c \in Nat /\ n \in DOMAIN V /\ (n = 1 \/ Gathers(c, n))
  BY DEF Goes, PlaceOK
<1>3. /\ call' \in [Processes -> Nat] /\ item' \in [Processes -> DOMAIN V]
      /\ call'[r] = c /\ item'[r] = n
      /\ \A o \in Processes : o # r => call'[o] = call[o] /\ item'[o] = item[o]
  BY <1>1, <1>2 DEF Goes
<1>4. ASSUME NEW o \in Processes PROVE PlaceOK(call[o], item[o])'
  <2>1. \A e, k : Gathers(e, k)' <=> Gathers(e, k)
    BY DEF Gathers
  <2>2. PICK e, k : e = call'[o] /\ k = item'[o]
    OBVIOUS
  <2>3. e \in Nat /\ k \in DOMAIN V /\ (k = 1 \/ Gathers(e, k))
    BY <1>1, <1>2, <1>3, <2>2 DEF PlaceOK
  <2> QED
    BY <2>2, <2>3 DEF PlaceOK, Gathers
<1> QED
  BY <1>1, <1>3, <1>4 DEF NetCDFTypes

LEMMA SendKeeps ==
  ASSUME NetCDFInv, NEW r \in Processes, NetCDF!GatherSend(r) PROVE NetCDFInv'
<1>1. /\ NetCDFTypes /\ SentOK /\ call \in [Processes -> Nat] /\ item \in [Processes -> DOMAIN V]
      /\ DOMAIN sent = Processes /\ 0 \in Processes
  BY VariablesFacts DEF NetCDFInv, NetCDFTypes
<1>2. PICK c, n, d, m : c = call[0] /\ n = item[0] /\ d = call[r] /\ m = item[r]
  OBVIOUS
<1>3. c \in Nat /\ n \in DOMAIN V /\ d \in Nat /\ m \in DOMAIN V
  BY <1>1, <1>2
<1>4. Gathers(d, m) /\ r # 0
  BY <1>2, <1>3 DEF NetCDF!GatherSend, NetCDF!InCall, NetCDF!ROOT_RANK, Gathers
<1>5. PICK part : part = <<V[m], d, r>>
  OBVIOUS
<1>6. sent' = [sent EXCEPT ![r] = Append(@, part)]
  BY <1>2, <1>5 DEF NetCDF!GatherSend, NetCDF!Part, V
<1>7. Goes(r, NextCall(d, m), NextItem(m))
  BY <1>1, <1>2, <1>4, GoesOn DEF NetCDF!GatherSend, V
<1>8. /\ program' = program
      /\ UNCHANGED <<received, writer, files, constants>>
  BY DEF NetCDF!GatherSend
<1>9. DOMAIN sent' = Processes
  BY <1>1, <1>6
<1>10. /\ NetCDFTypes' /\ call'[r] = NextCall(d, m) /\ item'[r] = NextItem(m)
       /\ \A o \in Processes : o # r => call'[o] = call[o] /\ item'[o] = item[o]
  BY <1>1, <1>7, <1>8, <1>9, TypesKept
<1>11. SentOK'
  <2> SUFFICES ASSUME NEW o \in Processes \ {0}
               PROVE  Lists(sent[o], o, call[0], item[0], call[o], item[o])'
    BY DEF SentOK
  <2>1. Lists(sent[o], o, c, n, call[o], item[o])
    BY <1>1, <1>2 DEF SentOK
  <2>2. call'[0] = c /\ item'[0] = n
    BY <1>1, <1>2, <1>4, <1>10
  <2>3. CASE o = r
    <3>1. PICK q : q = sent[r]
      OBVIOUS
    <3>2. Lists(Append(q, part), r, c, n, NextCall(d, m), NextItem(m))
      BY <1>1, <1>2, <1>3, <1>4, <1>5, <2>1, <2>3, <3>1, ListsSend
    <3>3. sent'[r] = Append(q, part)
      BY <1>1, <1>6, <3>1
    <3> QED
      BY <1>8, <1>10, <2>2, <2>3, <3>2, <3>3, SameLists
  <2>4. CASE o # r
    <3>1. sent'[o] = sent[o] /\ call'[o] = call[o] /\ item'[o] = item[o]
      BY <1>1, <1>6, <1>10, <2>4
    <3> QED
      BY <1>8, <2>1, <2>2, <3>1, SameLists
  <2> QED
    BY <2>3, <2>4
<1>12. GatheredOK'
  <2>1. call'[0] = call[0] /\ item'[0] = item[0]
    BY <1>1, <1>4, <1>10
  <2> QED
    BY <1>8, <2>1 DEF NetCDFInv, GatheredOK
<1>13. WriterOK' /\ FilesOK' /\ ConstantsOK'
  BY <1>8 DEF NetCDFInv, WriterOK, FilesOK, ConstantsOK, ChunkOK
<1> QED
  BY <1>10, <1>11, <1>12, <1>13 DEF NetCDFInv

\* A file or chunk with whole states stays in the files.
LEMMA FlushKeeps ==
  ASSUME FilesOK, NEW w, ChunkOK(w), NEW f, f = NetCDF!Flushed(w)
  PROVE  /\ \A i \in DOMAIN f : FileOK(f[i].times, f[i].values)
         /\ ChunkOK(NetCDF!AfterFlush(w))
<1>0. /\ w.chunked # <<>> => FileOK(w.times, w.chunked)
      /\ ChunkOK(NetCDF!AfterFlush(w))
  <2>1. PICK i, values, times : w = [i_time |-> i, chunked |-> values, times |-> times]
                                /\ (values # <<>> => FileOK(times, values))
    BY DEF ChunkOK
  <2>2. PICK cleared : cleared = [i_time |-> i, chunked |-> <<>>, times |-> times]
    OBVIOUS
  <2>3. [w EXCEPT !.chunked = <<>>] = cleared
    BY <2>1, <2>2
  <2>4. NetCDF!AfterFlush(w) = [cleared EXCEPT !.times = <<>>]
    BY <2>3 DEF NetCDF!AfterFlush
  <2>5. NetCDF!AfterFlush(w) = [i_time |-> i, chunked |-> <<>>, times |-> <<>>]
    BY <2>2, <2>4
  <2>6. <<>> \in Seq(Nat)
    OBVIOUS
  <2> QED
    BY <2>1, <2>5, <2>6 DEF ChunkOK
<1>1. CASE w.chunked = <<>>
  BY <1>0, <1>1 DEF NetCDF!Flushed, FilesOK
<1>2. CASE w.chunked # <<>>
  <2>1. PICK i : i = w.i_time \div size
    OBVIOUS
  <2>2. PICK one : one = [times |-> w.times, values |-> w.chunked]
    OBVIOUS
  <2>3. f = [j \in DOMAIN files \union {i} |-> IF j = i THEN one ELSE files[j]]
    BY <1>2, <2>1, <2>2 DEF NetCDF!Flushed
  <2>4. FileOK(one.times, one.values)
    BY <1>0, <1>2, <2>2
  <2> QED
    BY <1>0, <2>3, <2>4 DEF FilesOK
<1> QED
  BY <1>0, <1>1, <1>2

\* A call that gathers nothing.
LEMMA OtherKeeps ==
  ASSUME NetCDFInv, NEW r \in Processes, NetCDF!StoreRaises(r) \/ NetCDF!Cleanup(r)
  PROVE  NetCDFInv'
<1>1. /\ NetCDFTypes /\ SentOK /\ call \in [Processes -> Nat] /\ item \in [Processes -> DOMAIN V]
      /\ DOMAIN sent = Processes /\ 0 \in Processes /\ PlaceOK(call[r], item[r])
  BY VariablesFacts DEF NetCDFInv, NetCDFTypes
<1>2. PICK c, n, d, m : c = call[0] /\ n = item[0] /\ d = call[r] /\ m = item[r]
  OBVIOUS
<1>3. c \in Nat /\ n \in DOMAIN V /\ d \in Nat /\ m \in DOMAIN V
  BY <1>1, <1>2
<1>4. /\ ~ Gathers(d, 1) /\ m = 1
      /\ NetCDF!CallEnds(r) /\ UNCHANGED <<program, sent, received, constants>>
  <2>1. \A k : ~ Gathers(d, k)
    BY <1>2 DEF NetCDF!StoreRaises, NetCDF!Cleanup, NetCDF!InCall, Gathers
  <2> QED
    BY <1>1, <1>2, <2>1 DEF NetCDF!StoreRaises, NetCDF!Cleanup, PlaceOK
<1>5. Goes(r, d + 1, 1)
  BY <1>1, <1>2, <1>3, <1>4, VariablesFacts DEF NetCDF!CallEnds, Goes, PlaceOK
<1>6. /\ NetCDFTypes' /\ call'[r] = d + 1 /\ item'[r] = 1
      /\ \A o \in Processes : o # r => call'[o] = call[o] /\ item'[o] = item[o]
  BY <1>1, <1>4, <1>5, TypesKept
<1>7. SentOK'
  <2> SUFFICES ASSUME NEW o \in Processes \ {0}
               PROVE  Lists(sent[o], o, call[0], item[0], call[o], item[o])'
    BY DEF SentOK
  <2>1. PICK q, e, k : q = sent[o] /\ e = call[o] /\ k = item[o]
    OBVIOUS
  <2>2. Lists(q, o, c, n, e, k) /\ e \in Nat
    BY <1>1, <1>2, <2>1 DEF SentOK
  <2>3. CASE r = 0
    <3>1. Lists(q, o, d + 1, 1, e, k)
      BY <1>1, <1>2, <1>3, <1>4, <2>2, <2>3, ListsSkip
    <3>2. call'[o] = e /\ item'[o] = k /\ sent'[o] = q /\ call'[0] = d + 1 /\ item'[0] = 1
      BY <1>4, <1>6, <2>1, <2>3
    <3> QED
      BY <1>4, <3>1, <3>2, SameLists
  <2>4. CASE r = o
    <3>1. Lists(q, o, c, n, d + 1, 1)
      BY <1>1, <1>2, <1>3, <1>4, <2>1, <2>2, <2>4, ListsSkip
    <3>2. call'[o] = d + 1 /\ item'[o] = 1 /\ sent'[o] = q /\ call'[0] = c /\ item'[0] = n
      BY <1>1, <1>2, <1>4, <1>6, <2>1, <2>4
    <3> QED
      BY <1>4, <3>1, <3>2, SameLists
  <2>5. CASE r # 0 /\ r # o
    <3>1. call'[o] = e /\ item'[o] = k /\ sent'[o] = q /\ call'[0] = c /\ item'[0] = n
      BY <1>1, <1>2, <1>4, <1>6, <2>1, <2>5
    <3> QED
      BY <1>4, <2>2, <3>1, SameLists
  <2> QED
    BY <2>3, <2>4, <2>5
<1>8. GatheredOK'
  <2>1. CASE r = 0
    BY <1>6, <2>1, VariablesFacts DEF GatheredOK
  <2>2. CASE r # 0
    <3>1. call'[0] = call[0] /\ item'[0] = item[0]
      BY <1>1, <1>6, <2>2
    <3> QED
      BY <1>4, <3>1 DEF NetCDFInv, GatheredOK
  <2> QED
    BY <2>1, <2>2
<1>9. ConstantsOK'
  BY <1>4 DEF NetCDFInv, ConstantsOK
<1>10. WriterOK' /\ FilesOK'
  <2>1. CASE UNCHANGED <<writer, files>>
    BY <2>1 DEF NetCDFInv, WriterOK, FilesOK, ChunkOK
  <2>2. CASE files' = NetCDF!Flushed(writer) /\ writer' = NetCDF!AfterFlush(writer)
    <3>1. FilesOK /\ WriterOK
      BY DEF NetCDFInv
    <3>2. PICK f : f = files'
      OBVIOUS
    <3>3. \A i \in DOMAIN f : FileOK(f[i].times, f[i].values)
      BY <2>2, <3>1, <3>2, FlushKeeps DEF WriterOK
    <3>4. FilesOK'
      BY <3>2, <3>3 DEF FilesOK, FileOK, Values, Parts
    <3>5. PICK w : w = writer'
      OBVIOUS
    <3>6. ChunkOK(w)
      BY <2>2, <3>1, <3>5, FlushKeeps DEF WriterOK
    <3>7. WriterOK'
      BY <3>5, <3>6 DEF WriterOK, ChunkOK
    <3> QED
      BY <3>4, <3>7
  <2> QED
    BY <2>1, <2>2 DEF NetCDF!StoreRaises, NetCDF!Cleanup
<1> QED
  BY <1>6, <1>7, <1>8, <1>9, <1>10 DEF NetCDFInv

LEMMA ValuesAppend ==
  ASSUME NEW times \in Seq(Nat), NEW c \in Nat, NEW v
  PROVE  /\ Append(times, c) \in Seq(Nat)
         /\ Values(v, times) \o <<Parts(v, c)>> = Values(v, Append(times, c))
         /\ times = <<>> => Values(v, times) = <<>>
<1> DEFINE K == {Parts(v, e) : e \in Nat}
           a == Values(v, times)
           more == Append(times, c)
           b == Values(v, more)
<1>1. Len(times) \in Nat /\ DOMAIN times = 1..Len(times) /\ \A n \in DOMAIN times : times[n] \in Nat
  OBVIOUS
<1>2. PICK p : p = Parts(v, c)
  OBVIOUS
<1>3. /\ more \in Seq(Nat) /\ DOMAIN more = 1..(Len(times) + 1) /\ more[Len(times) + 1] = c
      /\ \A n \in 1..Len(times) : more[n] = times[n]
  BY <1>1
<1> HIDE DEF more
<1>4. DOMAIN a = 1..Len(times) /\ \A n \in 1..Len(times) : a[n] = Parts(v, times[n]) /\ a[n] \in K
  BY <1>1 DEF Values
<1>5. DOMAIN b = 1..(Len(times) + 1) /\ \A n \in 1..(Len(times) + 1) : b[n] = Parts(v, more[n])
  BY <1>3 DEF Values
<1>6. a = [n \in 1..Len(times) |-> a[n]] /\ b = [n \in 1..(Len(times) + 1) |-> b[n]]
  BY <1>1, <1>3 DEF Values
<1>7. p \in K
  BY <1>2
<1> HIDE DEF a, b, K
<1>8. a \in Seq(K) /\ Len(a) = Len(times)
  BY <1>1, <1>4, <1>6
<1>9. PICK one, d : one = <<p>> /\ d = a \o one
  OBVIOUS
<1>10. one \in Seq(K) /\ Len(one) = 1 /\ one[1] = p
  BY <1>7, <1>9
<1>11. /\ d \in Seq(K) /\ Len(d) = Len(times) + 1 /\ DOMAIN d = 1..(Len(times) + 1)
       /\ d[Len(times) + 1] = p /\ \A n \in 1..Len(times) : d[n] = a[n]
  <2>1. d \in Seq(K) /\ Len(d) = Len(a) + Len(one)
    BY <1>8, <1>9, <1>10
  <2>2. \A n \in 1..Len(d) : d[n] = IF n <= Len(a) THEN a[n] ELSE one[n - Len(a)]
    BY <1>8, <1>9, <1>10, ConcatProperties
  <2> QED
    BY <1>1, <1>8, <1>10, <2>1, <2>2
<1>12. \A n \in 1..(Len(times) + 1) : d[n] = b[n]
  <2>1. ASSUME NEW n \in 1..Len(times) PROVE d[n] = b[n]
    <3>1. n \in 1..(Len(times) + 1)
      BY <1>1
    <3> QED
      BY <1>3, <1>4, <1>5, <1>11, <3>1
  <2>2. d[Len(times) + 1] = b[Len(times) + 1]
    <3>1. Len(times) + 1 \in 1..(Len(times) + 1)
      BY <1>1
    <3> QED
      BY <1>2, <1>3, <1>5, <1>11, <3>1
  <2>3. \A n \in 1..(Len(times) + 1) : n \in 1..Len(times) \/ n = Len(times) + 1
    BY <1>1
  <2> QED
    BY <2>1, <2>2, <2>3
<1>13. d = b
  <2>1. d = [n \in 1..(Len(times) + 1) |-> d[n]]
    BY <1>11
  <2> QED
    BY <1>6, <1>12, <2>1
<1>14. times = <<>> => a = <<>>
  BY <1>8
<1> QED
  BY <1>2, <1>3, <1>9, <1>13, <1>14 DEF a, b, more

LEMMA CountTime ==
  ASSUME NEW w, ChunkOK(w), NEW i PROVE ChunkOK([w EXCEPT !.i_time = i])
<1>1. PICK j, values : \E times \in Seq(Nat) :
        /\ w = [i_time |-> j, chunked |-> values, times |-> times]
        /\ values = <<>> => times = <<>>
        /\ values # <<>> => FileOK(times, values)
  BY DEF ChunkOK
<1>2. PICK times \in Seq(Nat) :
        /\ w = [i_time |-> j, chunked |-> values, times |-> times]
        /\ values = <<>> => times = <<>>
        /\ values # <<>> => FileOK(times, values)
  BY <1>1
<1>3. [w EXCEPT !.i_time = i] = [i_time |-> i, chunked |-> values, times |-> times]
  BY <1>2
<1> QED
  BY <1>2, <1>3 DEF ChunkOK

\* A whole state is appended to a chunk of whole states.
LEMMA AppendedWhole ==
  ASSUME NEW w, ChunkOK(w), NEW c \in Nat, NEW whole, DOMAIN whole = Range(V),
         \A v \in Range(V) : whole[v] = Parts(v, c)
  PROVE  ChunkOK(NetCDF!Appended(w, whole, c))
<1>1. PICK i, values : \E times \in Seq(Nat) :
        /\ w = [i_time |-> i, chunked |-> values, times |-> times]
        /\ values = <<>> => times = <<>>
        /\ values # <<>> => FileOK(times, values)
  BY DEF ChunkOK
<1>2. PICK times \in Seq(Nat) :
        /\ w = [i_time |-> i, chunked |-> values, times |-> times]
        /\ values = <<>> => times = <<>>
        /\ values # <<>> => FileOK(times, values)
  BY <1>1
<1>3. PICK chunk1 : chunk1 = [v \in Range(V) |->
                       (IF w.chunked = <<>> THEN <<>> ELSE w.chunked[v]) \o << whole[v] >>]
  OBVIOUS
<1>4. PICK more : more = Append(times, c)
  OBVIOUS
<1>5. NetCDF!Appended(w, whole, c) = [i_time |-> i, chunked |-> chunk1, times |-> more]
  <2>1. w.times = times /\ w.chunked = values
    BY <1>2
  <2>2. NetCDF!Appended(w, whole, c) = [w EXCEPT !.chunked = chunk1, !.times = Append(@, c)]
    BY <1>3 DEF NetCDF!Appended
  <2> QED
    BY <1>2, <1>4, <2>2
<1>6. ASSUME NEW v \in Range(V) PROVE chunk1[v] = Values(v, more)
  <2>1. (IF values = <<>> THEN <<>> ELSE values[v]) = Values(v, times)
    BY <1>2, ValuesAppend DEF FileOK
  <2>2. chunk1[v] = Values(v, times) \o <<Parts(v, c)>>
    <3>1. w.chunked = values
      BY <1>2
    <3>2. chunk1[v] = (IF values = <<>> THEN <<>> ELSE values[v]) \o <<whole[v]>>
      BY <1>3, <3>1
    <3> QED
      BY <2>1, <3>2
  <2> QED
    BY <1>4, <2>2, ValuesAppend
<1>7. chunk1 # <<>>
  <2>1. DOMAIN chunk1 = Range(V) /\ V[1] \in Range(V)
    BY <1>3, VariablesFacts
  <2> QED
    BY <2>1
<1>8. more \in Seq(Nat) /\ FileOK(more, chunk1)
  BY <1>4, <1>6, ValuesAppend DEF FileOK
<1> QED
  BY <1>5, <1>7, <1>8 DEF ChunkOK

LEMMA AppendKeeps ==
  ASSUME FilesOK, WriterOK, NEW c \in Nat, NEW whole, DOMAIN whole = Range(V),
         \A v \in Range(V) : whole[v] = Parts(v, c), NetCDF!append(whole, c)
  PROVE  FilesOK' /\ WriterOK'
<1>1. PICK w : w = NetCDF!Appended(writer, whole, c)
  OBVIOUS
<1>2. ChunkOK(w)
  BY <1>1, AppendedWhole DEF WriterOK
<1>3. PICK full : full <=> (w.i_time + 1) % size = 0
  OBVIOUS
<1>4. PICK kept : kept = IF full THEN NetCDF!AfterFlush(w) ELSE w
  OBVIOUS
<1>5. PICK f : f = IF full THEN NetCDF!Flushed(w) ELSE files
  OBVIOUS
<1>6. files' = f /\ writer' = [kept EXCEPT !.i_time = @ + 1]
  BY <1>1, <1>3, <1>4, <1>5 DEF NetCDF!append
<1>7. ChunkOK(kept) /\ \A i \in DOMAIN f : FileOK(f[i].times, f[i].values)
  <2>1. CASE full
    BY <1>2, <1>4, <1>5, <2>1, FlushKeeps
  <2>2. CASE ~ full
    BY <1>2, <1>4, <1>5, <2>2 DEF FilesOK
  <2> QED
    BY <2>1, <2>2
<1>8. PICK u, i : u = writer' /\ i = kept.i_time + 1
  OBVIOUS
<1>9. u = [kept EXCEPT !.i_time = i]
  BY <1>6, <1>8
<1>10. ChunkOK(u)
  BY <1>7, <1>9, CountTime
<1>11. WriterOK'
  BY <1>8, <1>10 DEF WriterOK, ChunkOK
<1>12. FilesOK'
  BY <1>6, <1>7 DEF FilesOK, FileOK, Values, Parts
<1> QED
  BY <1>11, <1>12

LEMMA NamesUpTo ==
  ASSUME NEW n \in DOMAIN V
  PROVE  /\ \A m \in DOMAIN V : m <= n => V[m] \in Range(SubSeq(V, 1, n))
         /\ \A v \in Range(SubSeq(V, 1, n)) : \E m \in DOMAIN V : m <= n /\ v = V[m]
<1> DEFINE part == SubSeq(V, 1, n)
<1>1. V \in Seq(Range(V)) /\ n \in Nat /\ DOMAIN V = 1..Len(V) /\ Len(V) \in Nat
  BY NetCDFAssumption, VariablesFacts DEF V
<1>2. part \in Seq(Range(V)) /\ Len(part) = n /\ \A i \in 1..n : part[i] = V[i]
  <2>1. 1 \in 1..(Len(V) + 1) /\ n \in 0..Len(V) /\ 1 <= n
    BY <1>1
  <2> QED
    BY <1>1, <2>1, SubSeqProperties
<1> HIDE DEF part
<1>3. DOMAIN part = 1..n
  BY <1>2
<1>4. Range(part) = {part[i] : i \in 1..n}
  BY <1>3 DEF Range
<1>5. \A m \in DOMAIN V : m <= n => V[m] \in Range(part)
  <2> SUFFICES ASSUME NEW m \in DOMAIN V, m <= n PROVE V[m] \in Range(part)
    OBVIOUS
  <2>1. m \in 1..n
    BY <1>1
  <2>2. part[m] = V[m]
    BY <1>2, <2>1
  <2> QED
    BY <1>4, <2>1, <2>2
<1>6. \A v \in Range(part) : \E m \in DOMAIN V : m <= n /\ v = V[m]
  <2> SUFFICES ASSUME NEW v \in Range(part) PROVE \E m \in DOMAIN V : m <= n /\ v = V[m]
    OBVIOUS
  <2>1. PICK m \in 1..n : v = part[m]
    BY <1>4
  <2>2. m \in DOMAIN V /\ m <= n /\ part[m] = V[m]
    BY <1>1, <1>2
  <2> QED
    BY <2>1, <2>2
<1> QED
  BY <1>5, <1>6 DEF part

LEMMA RootKeeps == ASSUME NetCDFInv, NetCDF!GatherRoot PROVE NetCDFInv'
<1>1. /\ NetCDFTypes /\ SentOK /\ GatheredOK /\ WriterOK /\ FilesOK /\ ConstantsOK
      /\ call \in [Processes -> Nat] /\ item \in [Processes -> DOMAIN V]
      /\ 0 \in Processes
  BY VariablesFacts DEF NetCDFInv, NetCDFTypes
<1>2. PICK c, n : c = call[0] /\ n = item[0]
  OBVIOUS
<1>3. c \in Nat /\ n \in DOMAIN V /\ n \in Nat /\ DOMAIN V = 1..Len(V) /\ Len(V) \in Nat
  BY <1>1, <1>2, VariablesFacts
<1>4. PICK gathered : gathered = NetCDF!Gathered(0)
  OBVIOUS
<1>5. PICK whole : whole = [v \in Range(SubSeq(V, 1, n)) |->
                              IF v = V[n] THEN gathered ELSE received[v]]
  OBVIOUS
<1>20. NetCDF!Range(SubSeq(V, 1, n)) = Range(SubSeq(V, 1, n))
  BY DEF Range, NetCDF!Range
<1>21. whole = [v \in NetCDF!Range(SubSeq(V, 1, n)) |->
                 IF v = V[n] THEN gathered ELSE received[v]]
  BY <1>5, <1>20
<1>6. /\ Gathers(c, n) /\ program' = program
      /\ \A o \in Processes \ {0} : sent[o] # <<>>
      /\ sent' = [o \in Processes |-> IF o = 0 THEN sent[0] ELSE Tail(sent[o])]
      /\ IF n < Len(V)
         THEN /\ item' = [item EXCEPT ![0] = @ + 1] /\ received' = whole
              /\ UNCHANGED <<call, writer, files, constants>>
         ELSE /\ NetCDF!CallEnds(0)
              /\ IF program[c] = "store"
                 THEN NetCDF!append(whole, c) /\ UNCHANGED constants
                 ELSE constants' = whole /\ UNCHANGED <<writer, files>>
  <2>1. Gathers(c, n) /\ program' = program
    BY <1>2, <1>3 DEF NetCDF!GatherRoot, NetCDF!ROOT_RANK, NetCDF!InCall, Gathers
  <2>2. /\ \A o \in Processes \ {0} : sent[o] # <<>>
        /\ sent' = [o \in Processes |-> IF o = 0 THEN sent[0] ELSE Tail(sent[o])]
    BY DEF NetCDF!GatherRoot, NetCDF!ROOT_RANK, Processes
  <2>3. IF n < Len(V)
        THEN /\ item' = [item EXCEPT ![0] = @ + 1] /\ received' = whole
             /\ UNCHANGED <<call, writer, files, constants>>
        ELSE /\ NetCDF!CallEnds(0)
             /\ IF program[c] = "store"
                THEN NetCDF!append(whole, c) /\ UNCHANGED constants
                ELSE constants' = whole /\ UNCHANGED <<writer, files>>
    BY <1>2, <1>4, <1>21, Zenon DEF NetCDF!GatherRoot, NetCDF!ROOT_RANK, V
  <2> QED
    BY <2>1, <2>2, <2>3
<1>7. Goes(0, NextCall(c, n), NextItem(n))
  BY <1>1, <1>2, <1>6, GoesOn
<1>8. /\ NetCDFTypes' /\ call'[0] = NextCall(c, n) /\ item'[0] = NextItem(n)
      /\ \A o \in Processes : o # 0 => call'[o] = call[o] /\ item'[o] = item[o]
  BY <1>1, <1>6, <1>7, TypesKept
<1>9. ASSUME NEW o \in Processes \ {0}
      PROVE  /\ Head(sent[o]) = <<V[n], c, o>>
             /\ Lists(sent'[o], o, call'[0], item'[0], call'[o], item'[o])
  <2>1. PICK q, d, m : q = sent[o] /\ d = call[o] /\ m = item[o]
    OBVIOUS
  <2>2. Lists(q, o, c, n, d, m) /\ d \in Nat /\ m \in DOMAIN V /\ q # <<>>
    BY <1>1, <1>2, <1>6, <2>1 DEF SentOK
  <2>3. Head(q) = <<V[n], c, o>> /\ Lists(Tail(q), o, NextCall(c, n), NextItem(n), d, m)
    BY <1>1, <1>6, <2>2, ListsTake
  <2>4. sent'[o] = Tail(q) /\ call'[o] = d /\ item'[o] = m
    BY <1>6, <1>8, <2>1
  <2> QED
    BY <1>8, <2>1, <2>3, <2>4
<1>10. SentOK'
  <2> SUFFICES ASSUME NEW o \in Processes \ {0}
               PROVE  Lists(sent[o], o, call[0], item[0], call[o], item[o])'
    BY DEF SentOK
  <2> QED
    BY <1>6, <1>9, SameLists
<1>11. gathered = Parts(V[n], c)
  <2>1. gathered = [o \in Processes |-> IF o = 0 THEN <<V[n], c, 0>> ELSE Head(sent[o])]
    BY <1>2, <1>4 DEF NetCDF!Gathered, NetCDF!Part, V, Processes
  <2>2. \A o \in Processes : gathered[o] = <<V[n], c, o>>
    BY <1>9, <2>1
  <2> QED
    BY <2>1, <2>2 DEF Parts
<1>12. \A m \in DOMAIN V : m <= n => V[m] \in DOMAIN whole /\ whole[V[m]] = Parts(V[m], c)
  <2> SUFFICES ASSUME NEW m \in DOMAIN V, m <= n
               PROVE  V[m] \in DOMAIN whole /\ whole[V[m]] = Parts(V[m], c)
    OBVIOUS
  <2>1. V[m] \in Range(SubSeq(V, 1, n))
    BY <1>3, NamesUpTo
  <2>2. CASE m = n
    BY <1>5, <1>11, <2>1, <2>2
  <2>3. CASE m # n
    <3>1. received[V[m]] = Parts(V[m], c) /\ V[m] # V[n]
      BY <1>1, <1>2, <1>3, <2>3, VariablesFacts DEF GatheredOK
    <3> QED
      BY <1>5, <2>1, <3>1
  <2> QED
    BY <2>2, <2>3
<1>13. GatheredOK'
  <2>1. CASE n < Len(V)
    <3>1. /\ received' = whole /\ item'[0] = n + 1 /\ call'[0] = c
      BY <1>6, <1>8, <2>1 DEF NextCall, NextItem
    <3>2. \A m \in DOMAIN V : m < n + 1 => whole[V[m]] = Parts(V[m], c)
      BY <1>3, <1>12
    <3>3. PICK k, got1 : k = item'[0] /\ got1 = received'
      OBVIOUS
    <3> QED
      BY <3>1, <3>2 DEF GatheredOK, Parts
  <2>2. CASE ~ (n < Len(V))
    <3>1. item'[0] = 1
      BY <1>8, <2>2 DEF NextItem
    <3> QED
      BY <1>3, <3>1 DEF GatheredOK
  <2> QED
    BY <2>1, <2>2
<1>14. WriterOK' /\ FilesOK' /\ ConstantsOK'
  <2>1. CASE n < Len(V)
    BY <1>1, <1>6, <2>1 DEF WriterOK, ChunkOK, FilesOK, ConstantsOK
  <2>2. CASE ~ (n < Len(V))
    <3>1. n = Len(V)
      BY <1>3, <2>2
    <3>2. DOMAIN whole = Range(SubSeq(V, 1, n))
      BY <1>5
    <3>3. \A v \in DOMAIN whole : \E m \in DOMAIN V : v = V[m] /\ m <= n
      BY <1>3, <3>2, NamesUpTo
    <3>4. \A v \in Range(V) : \E m \in DOMAIN V : v = V[m] /\ m <= n
      BY <1>3, <3>1 DEF Range
    <3>5. \A v \in DOMAIN whole : v \in Range(V) /\ whole[v] = Parts(v, c)
      BY <1>12, <3>3, VariablesFacts
    <3>6. \A v \in Range(V) : v \in DOMAIN whole /\ whole[v] = Parts(v, c)
      BY <1>12, <3>4
    <3>7. CASE program[c] = "store"
      <4>1. NetCDF!append(whole, c) /\ UNCHANGED constants
        BY <1>6, <2>2, <3>7
      <4>2. DOMAIN whole = Range(V)
        BY <3>5, <3>6
      <4>3. FilesOK' /\ WriterOK'
        BY <1>1, <1>3, <3>6, <4>1, <4>2, AppendKeeps
      <4>4. ConstantsOK'
        BY <1>1, <4>1 DEF ConstantsOK
      <4> QED
        BY <4>3, <4>4
    <3>8. CASE program[c] # "store"
      <4>1. constants' = whole /\ UNCHANGED <<writer, files>>
        BY <1>6, <2>2, <3>8
      <4>2. WriterOK' /\ FilesOK'
        BY <1>1, <4>1 DEF WriterOK, ChunkOK, FilesOK
      <4>3. ConstantsOK'
        BY <3>5, <4>1 DEF ConstantsOK
      <4> QED
        BY <4>2, <4>3
    <3> QED
      BY <3>7, <3>8
  <2> QED
    BY <2>1, <2>2
<1> QED
  BY <1>8, <1>10, <1>13, <1>14 DEF NetCDFInv


LEMMA NetCDFInit == NetCDF!Init => NetCDFInv
<1> SUFFICES ASSUME NetCDF!Init PROVE NetCDFInv
  OBVIOUS
<1>1. /\ call = [r \in Processes |-> 1] /\ item = [r \in Processes |-> 1]
      /\ sent = [r \in Processes |-> <<>>] /\ program \in NetCDFPrograms
      /\ writer = [i_time |-> 0, chunked |-> <<>>, times |-> <<>>]
      /\ files = <<>> /\ constants = <<>>
  BY DEF NetCDF!Init, Processes
<1>2. NetCDFTypes
  <2>1. program \in Seq({"store", "other", "constant", "cleanup"})
    BY <1>1, NetCDFAssumption
  <2>2. 1 \in DOMAIN V
    BY VariablesFacts
  <2> QED
    BY <1>1, <2>1, <2>2 DEF NetCDFTypes, PlaceOK
<1>3. SentOK
  <2> SUFFICES ASSUME NEW r \in Processes \ {0}
               PROVE  Lists(sent[r], r, call[0], item[0], call[r], item[r])
    BY DEF SentOK
  <2>1. /\ sent[r] = <<>> /\ call[0] = 1 /\ item[0] = 1 /\ call[r] = 1 /\ item[r] = 1
    BY <1>1, VariablesFacts
  <2>2. Lists(<<>>, r, 1, 1, 1, 1)
    BY DEF Lists
  <2> QED
    BY <2>1, <2>2
<1>4. GatheredOK
  BY <1>1, VariablesFacts DEF GatheredOK
<1>5. WriterOK
  <2>1. <<>> \in Seq(Nat)
    OBVIOUS
  <2> QED
    BY <1>1, <2>1 DEF WriterOK, ChunkOK
<1>6. FilesOK /\ ConstantsOK
  BY <1>1 DEF FilesOK, ConstantsOK
<1> QED
  BY <1>2, <1>3, <1>4, <1>5, <1>6 DEF NetCDFInv

LEMMA NetCDFStepKeeps == NetCDFInv /\ (\E r \in Processes : NetCDF!Step(r)) => NetCDFInv'
<1> SUFFICES ASSUME NetCDFInv, NEW r \in Processes, NetCDF!Step(r) PROVE NetCDFInv'
  OBVIOUS
<1> QED
  BY SendKeeps, RootKeeps, OtherKeeps DEF NetCDF!Step

LEMMA NetCDFStutter ==
  ASSUME NetCDFInv, UNCHANGED MCvars PROVE NetCDFInv'
<1>1. UNCHANGED <<program, call, item, sent, received, writer, files, constants>>
  BY DEF MCvars, ofNetCDF
<1>2. NetCDFTypes /\ SentOK /\ GatheredOK /\ WriterOK /\ FilesOK /\ ConstantsOK
  BY DEF NetCDFInv
<1>3. NetCDFTypes'
  BY <1>1, <1>2 DEF NetCDFTypes, PlaceOK, Gathers
<1>4. SentOK'
  <2> SUFFICES ASSUME NEW r \in Processes \ {0}
               PROVE  Lists(sent[r], r, call[0], item[0], call[r], item[r])'
    BY DEF SentOK
  <2>1. Lists(sent'[r], r, call'[0], item'[0], call'[r], item'[r])
    BY <1>1, <1>2 DEF SentOK
  <2> QED
    BY <1>1, <2>1, SameLists
<1>5. GatheredOK'
  BY <1>1, <1>2 DEF GatheredOK
<1>6. WriterOK' /\ FilesOK' /\ ConstantsOK'
  BY <1>1, <1>2 DEF WriterOK, ChunkOK, FilesOK, ConstantsOK
<1> QED
  BY <1>3, <1>4, <1>5, <1>6 DEF NetCDFInv

LEMMA StatesWhole == NetCDFInv => NetCDF!StatesAreWhole
<1> SUFFICES ASSUME NetCDFInv PROVE NetCDF!StatesAreWhole
  OBVIOUS
<1>1. ASSUME NEW i \in DOMAIN files, NEW v \in NetCDF!Range(NetCDFVariables)
      PROVE  files[i].values[v] =
               [n \in DOMAIN files[i].times |->
                  [r \in NetCDF!Ranks |-> <<v, files[i].times[n], r>>]]
  <2>1. v \in Range(V)
    BY DEF Range, NetCDF!Range, V
  <2>2. files[i].values[v] = Values(v, files[i].times)
    BY <2>1 DEF NetCDFInv, FilesOK, FileOK
  <2> QED
    BY <2>2 DEF Values, Parts, Processes
<1>2. ASSUME NEW v \in DOMAIN constants, NEW r \in NetCDF!Ranks, NEW o \in NetCDF!Ranks
      PROVE  constants[v][r] = <<v, constants[v][o][2], r>>
  <2>1. PICK c : constants[v] = Parts(v, c)
    BY DEF NetCDFInv, ConstantsOK
  <2>2. constants[v][o] = <<v, c, o>> /\ constants[v][r] = <<v, c, r>>
    BY <2>1 DEF Parts, Processes
  <2> QED
    BY <2>2
<1> QED
  BY <1>1, <1>2 DEF NetCDF!StatesAreWhole

(***************************************************************************)
(* A state is stored as one: at each time of a file every variable has     *)
(* that time's part of every rank, and a constant the parts of one call,   *)
(* for any number of ranks, variables, program and chunk size, though the  *)
(* ranks are calls apart and the parts of all variables and times go the   *)
(* same way (gather_state, NetCDFMonitor.store and store_constant).        *)
(***************************************************************************)
THEOREM StatesAreStoredWhole == MCSpec => []StatesAreWhole
<1> DEFINE Inv == user = "netcdf" => NetCDFInv
<1>1. MCInit => Inv
  BY NetCDFInit DEF MCInit
<1>2. Inv /\ [MCNext]_MCvars => Inv'
  <2> SUFFICES ASSUME Inv, [MCNext]_MCvars, user' = "netcdf" PROVE NetCDFInv'
    OBVIOUS
  <2>1. CASE UNCHANGED MCvars
    <3>1. NetCDFInv
      BY <2>1 DEF MCvars
    <3> QED
      BY <2>1, <3>1, NetCDFStutter
  <2>2. ASSUME NEW r \in NetCDF!Ranks, NetCDFStep(r) PROVE NetCDFInv'
    BY <2>2, NetCDFStepKeeps DEF NetCDFStep, Processes
  <2>3. ~ TransferNext /\ \A r \in Ranks : ~ ZarrStep(r)
    BY DEF TransferNext, ZarrStep
  <2> QED
    BY <2>1, <2>2, <2>3 DEF MCNext
<1>3. Inv => StatesAreWhole
  BY StatesWhole DEF StatesAreWhole
<1> QED
  BY <1>1, <1>2, <1>3, PTL DEF MCSpec
===============================================================================
