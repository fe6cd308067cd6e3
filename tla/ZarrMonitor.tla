----------------------------- MODULE ZarrMonitor -----------------------------
(***************************************************************************)
(* The Zarr monitor (ndsl/monitor/zarr_monitor.py).  Every rank writes its *)
(* own part of each variable into one array on disk.  Only the root, rank  *)
(* 0, creates and extends arrays; the others get its array object by a     *)
(* broadcast, and see the extent that the array had then.                  *)
(*                                                                         *)
(* Variables have one dimension of module TileSlices besides time (the     *)
(* others are cut likewise); a point's value is <<call, point of tile>>.   *)
(***************************************************************************)
EXTENDS TileSlices, Functions

CONSTANTS
  Layout,     \* of the one tile: its ranks are a row or a column
  Names,      \* the names of a state in sorted order; "time" is one of them
  Dim,        \* Dim[name]: the dimension of a variable that is not "time"
  Cells,      \* the tile's cells along it
  Programs    \* sequences of calls: "store", "constant"

\* A state has a variable, whether "time" is in it or not.
ASSUME ZarrAssumption ==
  /\ Layout \in (Nat \ {0}) \X (Nat \ {0})
  /\ Names \in Seq(Range(Names)) /\ \E n \in DOMAIN Names : Names[n] # "time"
  /\ Programs \subseteq Seq({"store", "constant"})

Ranks == 0..(Layout[1] * Layout[2] - 1)
ROOT == 0
Uniform == <<1, 1>>

VARIABLES
  program,
  call,    \* call[r]: the call rank r is in
  item,    \* item[r]: the number in Names of the variable it appends
  step,    \* step[r]: "start", "created", "synced", "read" or "barrier"
  i_time,  \* i_time[r][name]; for a constant, whether it is in _constants
  array,   \* array[r][name]: the times in the array object of rank r; 0 for None
  bcasts,  \* what the root has broadcast, and how much of it a rank received
  got,
  length,  \* length[name]: the times in the array on disk
  disk,    \* disk[name]: values by <<time, point>>
  chunk    \* chunk[r]: the points that rank r has read to write them back

vars == <<program, call, item, step, i_time, array, bcasts, got, length, disk, chunk>>

Constant(name) == "constant " \o name
AllNames == Range(Names) \union {Constant(n) : n \in Range(Names) \ {"time"}}

\* A state of constants has no "time".
ItemsOf(kind) == {n \in DOMAIN Names : kind = "store" \/ Names[n] # "time"}
First(items)  == CHOOSE n \in items : \A m \in items : n <= m
FirstOf(n)    == IF n \in DOMAIN program THEN First(ItemsOf(program[n])) ELSE 1

Init ==
  /\ program \in Programs
  /\ call = [r \in Ranks |-> 1]
  /\ item = [r \in Ranks |-> FirstOf(1)]
  /\ step = [r \in Ranks |-> "start"]
  /\ i_time = [r \in Ranks |-> [n \in AllNames |-> 0]]
  /\ array = [r \in Ranks |-> [n \in AllNames |-> 0]]
  /\ bcasts = <<>>
  /\ got = [r \in Ranks |-> 0]
  /\ length = [n \in AllNames |-> 0]
  /\ disk = [n \in AllNames |-> <<>>]
  /\ chunk = [r \in Ranks |-> <<>>]

-----------------------------------------------------------------------------

Storing(r) == call[r] \in DOMAIN program

\* The array that rank r is at, and whether it is the one of times.
Name(r) == IF program[call[r]] = "store" THEN Names[item[r]] ELSE Constant(Names[item[r]])
IsTime(r)     == Names[item[r]] = "time"
IsConstant(r) == program[call[r]] = "constant"

Subtile(r) == [j |-> r \div Layout[2], i |-> r % Layout[2]]
Extent(dim) == Cells + Extra(dim)

Variables == Range(Names) \ {"time"}
Points(name) == 0..(Extent(Dim[name]) - 1)

\* The slice of the tile that each rank writes, and the one that it has.
Targets ==
  [name \in Variables |-> [r \in Ranks |->
     subtile_slice(Dim[name], Extent(Dim[name]), Layout, Subtile(r), Uniform, FALSE)]]

Owned ==
  [name \in Variables |-> [r \in Ranks |->
     subtile_slice(Dim[name], Extent(Dim[name]), Layout, Subtile(r), Uniform, TRUE)]]

\* The points in the chunks that the slice touches.
Touched ==
  LET ChunkOf(name, point) == point \div array_chunks(Dim[name], Extent(Dim[name]), Layout)
  IN  [name \in Variables |-> [r \in Ranks |->
         {point \in Points(name) : \E own \in PointsOf(Targets[name][r]) :
            ChunkOf(name, own) = ChunkOf(name, point)}]]

\* The broadcast of the root's array object.
SyncRoot(name, times) ==
  /\ bcasts' = Append(bcasts, <<name, times>>)
  /\ array' = [array EXCEPT ![ROOT][name] = times]
  /\ length' = [length EXCEPT ![name] = times]
  /\ got' = [got EXCEPT ![ROOT] = @ + 1]

SyncOther(r, name) ==
  /\ got[r] < Len(bcasts)
  /\ array' = [array EXCEPT ![r][name] = bcasts[got[r] + 1][2]]
  /\ got' = [got EXCEPT ![r] = @ + 1]
  /\ UNCHANGED <<bcasts, length>>

Sync(r, name, times) == IF r = ROOT THEN SyncRoot(name, times) ELSE SyncOther(r, name)

\* A constant that was stored is not stored again.
AlreadyStored(r) == IsConstant(r) /\ i_time[r][Name(r)] > 0

\* _init_zarr: an array with one time, if the rank has none.
Create(r) ==
  /\ Storing(r) /\ step[r] = "start" /\ ~AlreadyStored(r)
  /\ step' = [step EXCEPT ![r] = "created"]
  /\ IF array[r][Name(r)] = 0 THEN Sync(r, Name(r), 1) ELSE UNCHANGED <<array, bcasts, got, length>>
  /\ UNCHANGED <<program, call, item, i_time, disk, chunk>>

\* Faulty variant: every rank reckons with the new extent, and nobody is told.
Stale_Extend(r) ==
  /\ Storing(r) /\ step[r] = "created"
  /\ step' = [step EXCEPT ![r] = "synced"]
  /\ IF r = ROOT /\ i_time[r][Name(r)] >= array[r][Name(r)]
     THEN /\ array' = [array EXCEPT ![r][Name(r)] = i_time[r][Name(r)] + 1]
          /\ length' = [length EXCEPT ![Name(r)] = i_time[r][Name(r)] + 1]
     ELSE UNCHANGED <<array, length>>
  /\ UNCHANGED <<program, call, item, i_time, bcasts, got, disk, chunk>>

\* Faulty variant: the others are told only if the root extended the array,
\* and so wait for something else.
Bug_Extend(r) ==
  /\ Storing(r) /\ step[r] = "created"
  /\ step' = [step EXCEPT ![r] = "synced"]
  /\ IF r = ROOT
     THEN IF i_time[r][Name(r)] >= array[r][Name(r)]
          THEN SyncRoot(Name(r), i_time[r][Name(r)] + 1)
          ELSE UNCHANGED <<array, bcasts, got, length>>
     ELSE SyncOther(r, Name(r))
  /\ UNCHANGED <<program, call, item, i_time, disk, chunk>>

\* The root extends the array if the time is beyond it, and tells the others.
Extend(r) ==
  /\ Storing(r) /\ step[r] = "created"
  /\ step' = [step EXCEPT ![r] = "synced"]
  /\ Sync(r, Name(r), IF i_time[r][Name(r)] >= array[r][Name(r)]
                      THEN i_time[r][Name(r)] + 1 ELSE array[r][Name(r)])
  /\ UNCHANGED <<program, call, item, i_time, disk, chunk>>

\* A chunk that the slice does not cover is read, to be written back; <<0, 0>> is
\* a point that nobody has written.
Read(r) ==
  LET name == Names[item[r]]
      to == Targets[name][r]
  IN  /\ Storing(r) /\ step[r] = "synced" /\ ~IsTime(r)
      /\ step' = [step EXCEPT ![r] = "read"]
      /\ chunk' = [chunk EXCEPT ![r] =
           [at \in {i_time[r][Name(r)]} \X Touched[name][r] |->
              IF at[2] \in PointsOf(to)
              THEN <<call[r], Owned[name][r].start + at[2] - to.start>>   \* _get_from_slice
              ELSE IF at \in DOMAIN disk[Name(r)] THEN disk[Name(r)][at] ELSE <<0, 0>>]]
      /\ UNCHANGED <<program, call, item, i_time, array, bcasts, got, length, disk>>

\* On to the next name, or the next call.
AppendEnds(r) ==
  LET next == {n \in ItemsOf(program[call[r]]) : n > item[r]}
  IN  /\ i_time' = [i_time EXCEPT ![r][Name(r)] = @ + 1]
      /\ step' = [step EXCEPT ![r] = "start"]
      /\ IF next # {}
         THEN item' = [item EXCEPT ![r] = First(next)] /\ UNCHANGED call
         ELSE /\ call' = [call EXCEPT ![r] = @ + 1]
              /\ item' = [item EXCEPT ![r] = FirstOf(call[r] + 1)]

Write(r) ==
  /\ Storing(r) /\ step[r] = "read"
  /\ disk' = [disk EXCEPT ![Name(r)] =
                [at \in DOMAIN chunk[r] \union DOMAIN @ |->
                   IF at \in DOMAIN chunk[r] THEN chunk[r][at] ELSE @[at]]]
  /\ chunk' = [chunk EXCEPT ![r] = <<>>]
  /\ AppendEnds(r)
  /\ UNCHANGED <<program, array, bcasts, got, length>>

\* _ZarrTimeWriter: the root writes, then all wait for each other.
WriteTime(r) ==
  /\ Storing(r) /\ step[r] = "synced" /\ IsTime(r)
  /\ step' = [step EXCEPT ![r] = "barrier"]
  /\ disk' = IF r # ROOT THEN disk
             ELSE [disk EXCEPT !["time"] =
                     [at \in DOMAIN @ \union {<<i_time[r]["time"], 0>>} |->
                        IF at = <<i_time[r]["time"], 0>> THEN <<call[r], 0>> ELSE @[at]]]
  /\ UNCHANGED <<program, call, item, i_time, array, bcasts, got, length, chunk>>

LeaveBarrier(r) ==
  /\ Storing(r) /\ step[r] = "barrier"
  /\ \A o \in Ranks : \/ step[o] = "barrier" /\ i_time[o]["time"] = i_time[r]["time"]
                      \/ i_time[o]["time"] > i_time[r]["time"]
  /\ AppendEnds(r)
  /\ UNCHANGED <<program, array, bcasts, got, length, disk, chunk>>

\* store_constant of a name that was stored raises.
ConstantRaises(r) ==
  /\ Storing(r) /\ step[r] = "start" /\ AlreadyStored(r)
  /\ call' = [call EXCEPT ![r] = @ + 1]
  /\ item' = [item EXCEPT ![r] = FirstOf(call[r] + 1)]
  /\ UNCHANGED <<program, step, i_time, array, bcasts, got, length, disk, chunk>>

Step(r) ==
  \/ ConstantRaises(r) \/ Create(r) \/ Extend(r)
  \/ Read(r) \/ Write(r) \/ WriteTime(r) \/ LeaveBarrier(r)

Next == \E r \in Ranks : Step(r)

Spec == Init /\ [][Next]_vars /\ \A r \in Ranks : WF_vars(Step(r))

-----------------------------------------------------------------------------

\* The call that stored time t: the program's (t + 1)-th "store".
StoreCall(t) ==
  CHOOSE n \in DOMAIN program :
    program[n] = "store" /\ Cardinality({m \in 1..n : program[m] = "store"}) = t + 1

Times(name) == {t \in 0..(Len(program) - 1) : \A r \in Ranks : i_time[r][name] > t}

(***************************************************************************)
(* What every rank has stored is on disk, whole: at each time each point   *)
(* of the tile has its own value of that call, written by one rank; none   *)
(* is left out between two ranks or taken from a neighbouring point, and   *)
(* no rank, writing a chunk it has not all of, undoes what another wrote   *)
(* meanwhile (append, array_chunks, subtile_slice).                        *)
(***************************************************************************)
StatesAreStored ==
  /\ \A name \in Variables : \A t \in Times(name) :
       \A point \in Points(name) :
         /\ <<t, point>> \in DOMAIN disk[name]
         /\ disk[name][<<t, point>>] = <<StoreCall(t), point>>
  /\ \A name \in Variables :
       Times(Constant(name)) # {} =>
         \A point, other \in Points(name) :
           disk[Constant(name)][<<0, point>>] = <<disk[Constant(name)][<<0, other>>][1], point>>
  /\ \A t \in Times("time") : disk["time"][<<t, 0>>] = <<StoreCall(t), 0>>

(***************************************************************************)
(* No rank writes beyond the times its array object has, nor that object   *)
(* has times that the array on disk has not, though the root extends the   *)
(* array while other ranks hold the one they were sent (sync_array).       *)
(***************************************************************************)
WritesInsideArray ==
  \A r \in Ranks : step[r] \in {"read", "barrier"} =>
    /\ i_time[r][Name(r)] < array[r][Name(r)]
    /\ array[r][Name(r)] <= length[Name(r)]

(***************************************************************************)
(* Every call of store and store_constant ends on every rank: broadcasts   *)
(* and barriers are the same, in the same order, whichever names the       *)
(* states have (ZarrMonitor.store, which sorts them).                      *)
(***************************************************************************)
Ended == \A r \in Ranks : ~Storing(r)
EveryStoreEnds == <>Ended
=============================================================================
