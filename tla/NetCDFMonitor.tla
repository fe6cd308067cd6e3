---------------------------- MODULE NetCDFMonitor ----------------------------
(***************************************************************************)
(* The NetCDF monitor (ndsl/monitor/netcdf_monitor.py) with the gathering  *)
(* of states it uses (gather_state and gather of ndsl/comm/communicator).  *)
(* The ranks of a tile make the same calls; each variable of a state is    *)
(* gathered on the tile's root, which keeps a chunk of times in memory and *)
(* writes it to a file of its own.  Gathering is buffered: a rank that is  *)
(* not the root goes on, and may be calls ahead of it.                     *)
(*                                                                         *)
(* A rank's part of a variable is <<variable, call, rank>>.                *)
(***************************************************************************)
EXTENDS Integers, Sequences, FiniteSets, Functions, SequencesExt

CONSTANTS
  Size,         \* the ranks of the tile are 0..Size-1, and 0 is its root
  Variables,    \* the variables of a state, in the order of the dictionary
  Programs,     \* sequences of calls: "store", "other", "constant", "cleanup"
  ChunkSizes    \* time_chunk_size

Ranks == 0..(Size - 1)
ROOT_RANK == 0
None == {}

VARIABLES
  program, size,
  call,      \* call[r]: the call rank r is in, or will make next
  item,      \* item[r]: the variable it gathers next
  sent,      \* sent[r]: the parts of rank r that the root has not received
  received,  \* the root: the variables of the call it has gathered
  expected_vars,  \* _expected_vars[r]
  writer,    \* the root's _ChunkedNetCDFWriter; a chunk that is None is <<>>
  files,     \* the root's files: by chunk index, and the constants by name
  constants,
  stored     \* the calls whose states the root has appended

vars == <<program, size, call, item, sent, received, expected_vars, writer, files,
          constants, stored>>

Init ==
  /\ program \in Programs
  /\ size \in ChunkSizes
  /\ call = [r \in Ranks |-> 1]
  /\ item = [r \in Ranks |-> 1]
  /\ sent = [r \in Ranks |-> <<>>]
  /\ received = <<>>
  /\ expected_vars = [r \in Ranks |-> None]
  /\ writer = [i_time |-> 0, chunked |-> <<>>, times |-> <<>>]
  /\ files = <<>>
  /\ constants = <<>>
  /\ stored = <<>>

-----------------------------------------------------------------------------
(* _ChunkedNetCDFWriter.  A chunk in memory, or in a file, holds for each  *)
(* variable its values at successive times.                                *)

\* flush writes the chunk to the file of its index, in place of one that is there.
Flushed(w) ==
  LET chunk_index == w.i_time \div size
  IN  IF w.chunked = <<>> THEN files
      ELSE [i \in DOMAIN files \union {chunk_index} |->
              IF i = chunk_index THEN [times |-> w.times, values |-> w.chunked] ELSE files[i]]

\* Faulty variant: the times of the chunk stay.
Bug_AfterFlush(w) == [w EXCEPT !.chunked = <<>>]

AfterFlush(w) == [w EXCEPT !.chunked = <<>>, !.times = <<>>]

\* append: the first state of a chunk starts its variables.
Appended(w, state, time) ==
  [w EXCEPT
     !.chunked = [v \in DOMAIN state |->
                    (IF w.chunked = <<>> THEN <<>> ELSE w.chunked[v]) \o << state[v] >>],
     !.times = Append(@, time)]

\* Faulty variant: the time is counted before the chunk is written.
Bug_append(state, time) ==
  LET w == [Appended(writer, state, time) EXCEPT !.i_time = @ + 1]
      full == w.i_time % size = 0
  IN  /\ files' = IF full THEN Flushed(w) ELSE files
      /\ writer' = IF full THEN AfterFlush(w) ELSE w
      /\ stored' = Append(stored, time)

append(state, time) ==
  LET w == Appended(writer, state, time)
      full == (w.i_time + 1) % size = 0
  IN  /\ files' = IF full THEN Flushed(w) ELSE files
      /\ writer' = [(IF full THEN AfterFlush(w) ELSE w) EXCEPT !.i_time = @ + 1]
      /\ stored' = Append(stored, time)

-----------------------------------------------------------------------------
(* The calls.                                                              *)

InCall(r, kinds) == call[r] \in DOMAIN program /\ program[call[r]] \in kinds

CallEnds(r) ==
  /\ call' = [call EXCEPT ![r] = @ + 1]
  /\ item' = [item EXCEPT ![r] = 1]

Part(r) == <<Variables[item[r]], call[r], r>>

\* store looks at the names of the state before it gathers.
Remember(r) ==
  expected_vars' = IF program[call[r]] = "store" THEN [expected_vars EXCEPT ![r] = Range(Variables)]
                                                 ELSE expected_vars

\* gather on a rank that is not the root.
GatherSend(r) ==
  /\ r # ROOT_RANK
  /\ InCall(r, {"store", "constant"})
  /\ sent' = [sent EXCEPT ![r] = Append(@, Part(r))]
  /\ Remember(r)
  /\ IF item[r] < Len(Variables)
     THEN item' = [item EXCEPT ![r] = @ + 1] /\ UNCHANGED call
     ELSE CallEnds(r)
  /\ UNCHANGED <<program, size, received, writer, files, constants, stored>>

\* A variable on the root, when the others have sent their parts.
Gathered(r) ==
  [o \in Ranks |-> IF o = r THEN Part(r) ELSE Head(sent[o])]

\* gather on the root; with the last variable the state is appended, or a
\* file is written for every constant, which replaces one that is there.
GatherRoot ==
  LET r == ROOT_RANK
      state == [v \in Range(SubSeq(Variables, 1, item[r])) |->
                  IF v = Variables[item[r]] THEN Gathered(r) ELSE received[v]]
  IN  /\ InCall(r, {"store", "constant"})
      /\ \A o \in Ranks \ {r} : sent[o] # <<>>
      /\ sent' = [o \in Ranks |-> IF o = r THEN sent[r] ELSE Tail(sent[o])]
      /\ Remember(r)
      /\ IF item[r] < Len(Variables)
         THEN /\ item' = [item EXCEPT ![r] = @ + 1]
              /\ received' = state
              /\ UNCHANGED <<call, writer, files, constants, stored>>
         ELSE /\ CallEnds(r)
              /\ received' = <<>>
              /\ IF program[call[r]] = "store"
                 THEN append(state, call[r]) /\ UNCHANGED constants
                 ELSE constants' = state /\ UNCHANGED <<writer, files, stored>>
  /\ UNCHANGED <<program, size>>

\* store of a state with other names raises, unless it is the first.
StoreRaises(r) ==
  /\ InCall(r, {"other"}) /\ expected_vars[r] # None
  /\ CallEnds(r)
  /\ UNCHANGED <<program, size, sent, received, expected_vars, writer, files, constants, stored>>

\* cleanup; the writer of another rank than the root holds nothing.
Cleanup(r) ==
  /\ InCall(r, {"cleanup"})
  /\ CallEnds(r)
  /\ files' = IF r = ROOT_RANK THEN Flushed(writer) ELSE files
  /\ writer' = IF r = ROOT_RANK THEN AfterFlush(writer) ELSE writer
  /\ UNCHANGED <<program, size, sent, received, expected_vars, constants, stored>>

Step(r) ==
  GatherSend(r) \/ (r = ROOT_RANK /\ GatherRoot) \/ StoreRaises(r) \/ Cleanup(r)

Next == \E r \in Ranks : Step(r)

Spec == Init /\ [][Next]_vars /\ \A r \in Ranks : WF_vars(Step(r))

-----------------------------------------------------------------------------

\* The times in the files, in the order of the chunks.
InFiles ==
  LET Times[n \in 0..Len(program)] ==
        (IF n = 0 THEN <<>> ELSE Times[n - 1])
        \o (IF n \in DOMAIN files THEN files[n].times ELSE <<>>)
  IN  Times[Len(program)]

(***************************************************************************)
(* The monitor keeps its promise: every state stored is in the files once  *)
(* cleanup has been called, in order, and no file takes the place of one   *)
(* with other times (_ChunkedNetCDFWriter.flush).                          *)
(***************************************************************************)
Promised == INSTANCE MonitorSpec WITH stored <- stored, written <- InFiles
StatesAreKept == Promised!Spec

(***************************************************************************)
(* A state is stored as one: at each time of a file every variable has     *)
(* that time's part of every rank, though the ranks are calls apart and    *)
(* the parts of all variables and times go the same way (gather_state).    *)
(***************************************************************************)
StatesAreWhole ==
  /\ \A i \in DOMAIN files : \A v \in Range(Variables) :
       files[i].values[v] =
         [n \in DOMAIN files[i].times |-> [r \in Ranks |-> <<v, files[i].times[n], r>>]]
  /\ \A v \in DOMAIN constants : \A r, o \in Ranks :
       constants[v][r] = <<v, constants[v][o][2], r>>

(***************************************************************************)
(* No time is lost: those stored are in a file or wait in the chunk in     *)
(* memory (NetCDFMonitor.store: "Will only write to disk when a full time  *)
(* chunk has been accumulated, or when .cleanup() is called").             *)
(***************************************************************************)
NoTimeLost ==
  Range(stored) = Range(InFiles) \union Range(writer.times)
=============================================================================
