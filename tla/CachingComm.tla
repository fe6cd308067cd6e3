---------------------------- MODULE CachingComm ----------------------------
(***************************************************************************)
(* Recording the communication of one rank and replaying it without MPI    *)
(* (comm/caching_comm.py).                                                 *)
(*                                                                         *)
(* A CachingCommWriter wraps the communicator of a rank and appends what   *)
(* each call received to one of four lists; the lists are pickled, and a   *)
(* CachingCommReader later hands their elements out again, in order, to    *)
(* the same program.  Nothing in a list says which call it belongs to, so  *)
(* the replay is right only if the reader takes elements in the order the  *)
(* writer appended them.  The two sides do not do that at the same moment: *)
(* the writer of an Irecv appends when the request is waited for, its      *)
(* reader takes the element when the request is posted.                    *)
(*                                                                         *)
(* The program is any sequence of calls: it is built while it is recorded. *)
(* What call number i receives is represented by i itself, so a value      *)
(* names the call it was meant for.  Sends and barriers leave no trace on  *)
(* either side and are left out.                                           *)
(***************************************************************************)
EXTENDS Integers, SequencesExt

CONSTANTS
    Calls,       \* the operations the program uses
    MaxRecordedCalls,  \* bound: length of the program
    MaxComms,    \* bound: communicators, the first one and those Split makes
    Disciplined  \* TRUE: the program respects MayReceive and waits in order

ASSUME CallsAssumption ==
    /\ Calls \subseteq {"bcast", "Scatter", "GatherRoot", "GatherOther", "Recv",
                        "Irecv", "allreduce", "Split"}
    /\ MaxRecordedCalls \in Nat /\ MaxComms \in Nat \ {0} /\ Disciplined \in BOOLEAN

VARIABLES
    script,      \* the program: the calls made, in order
    recorded,    \* recorded[c]: the CachingCommData of communicator c
    pending,     \* pending[c]: posted receives not yet waited for, oldest first
    comms,       \* number of communicators that exist
    saved,       \* TRUE once the data were dumped: the replay may begin
    index,       \* index[d]: how much of each list of data d the reader has used
    reader_of,   \* reader_of[c]: the data behind the reader's communicator c
    held,        \* held[i]: what the reader put aside for the receive posted by i
    replayed     \* what each call of the replay returned

recording == <<script, recorded, pending, comms, saved, index, reader_of, held, replayed>>

Comms == 1 .. MaxComms
Lists == {"bcast_objects", "received_buffers", "generic_obj_buffers", "split_data"}

NoValue == 0     \* Python's None, or a call that returns nothing
Missing == -1    \* IndexError: the list is exhausted

\* The list a call that returns at once is recorded in.
ListOf(op) ==
    CASE op = "bcast"     -> "bcast_objects"
      [] op = "allreduce" -> "generic_obj_buffers"
      [] op = "Split"     -> "split_data"
      [] OTHER            -> "received_buffers"

RecordingInit ==
    /\ script = <<>> /\ comms = 1 /\ saved = FALSE /\ replayed = <<>>
    /\ recorded = [c \in Comms |-> [l \in Lists |-> <<>>]]
    /\ pending = [c \in Comms |-> <<>>]
    /\ index = [c \in Comms |-> [l \in Lists |-> 0]]
    /\ reader_of = [c \in Comms |-> IF c = 1 THEN 1 ELSE Missing]
    /\ held = [i \in 1 .. MaxRecordedCalls |-> NoValue]

-----------------------------------------------------------------------------
(* The writer. *)

\* The program makes one more call.
Call(op, c, arg) ==
    /\ ~saved /\ Len(script) < MaxRecordedCalls /\ c <= comms
    /\ script' = Append(script, [op |-> op, comm |-> c, arg |-> arg])
    /\ UNCHANGED <<saved, index, reader_of, held, replayed>>

Store(c, list, value) == recorded' = [recorded EXCEPT ![c][list] = Append(@, value)]

\* A disciplined program receives nothing by another call while an Irecv is
\* pending, and nothing more on a communicator where it gathered to another rank.
Gathered(c)   == Contains(recorded[c].received_buffers, NoValue)
MayReceive(c) == Disciplined => pending[c] = <<>> /\ ~Gathered(c)

\* bcast, allreduce, Scatter, Recv and the Gather of the root record their result.
RecordResult(op, c) ==
    /\ op \in Calls \ {"Irecv", "Split", "GatherOther"}
    /\ ListOf(op) = "received_buffers" => MayReceive(c)
    /\ Call(op, c, NoValue)
    /\ Store(c, ListOf(op), Len(script) + 1)
    /\ UNCHANGED <<pending, comms>>

\* Gather on a rank that is not the root: recvbuf is None and is recorded as well.
RecordGatherOther(c) ==
    /\ "GatherOther" \in Calls
    /\ Disciplined => pending[c] = <<>>
    /\ Call("GatherOther", c, NoValue)
    /\ Store(c, "received_buffers", NoValue)
    /\ UNCHANGED <<pending, comms>>

\* Irecv only wraps the request: nothing is recorded before the wait.
RecordIrecv(c) ==
    /\ "Irecv" \in Calls
    /\ Disciplined => ~Gathered(c)
    /\ Call("Irecv", c, NoValue)
    /\ pending' = [pending EXCEPT ![c] = Append(@, Len(script) + 1)]
    /\ UNCHANGED <<recorded, comms>>

\* CachingRequestWriter.wait: the buffer is copied once the message is there.
RecordWait(c) ==
    \E p \in 1 .. Len(pending[c]) :
        /\ Disciplined => p = 1
        /\ Call("wait", c, pending[c][p])
        /\ Store(c, "received_buffers", pending[c][p])
        /\ pending' = [pending EXCEPT ![c] = RemoveAt(@, p)]
        /\ UNCHANGED comms

\* Split wraps the new communicator; its data are one element of the parent's.
RecordSplit(c) ==
    /\ "Split" \in Calls /\ comms < MaxComms
    /\ Call("Split", c, comms + 1)
    /\ Store(c, "split_data", comms + 1)
    /\ comms' = comms + 1
    /\ UNCHANGED pending

\* CachingCommWriter.dump, when no receive is outstanding.
Dump ==
    /\ ~saved /\ \A c \in Comms : pending[c] = <<>>
    /\ saved' = TRUE
    /\ UNCHANGED <<script, recorded, pending, comms, index, reader_of, held, replayed>>

-----------------------------------------------------------------------------
(* The reader: the same program runs again on the stored data. *)

\* Mutants: the last element first; a counter that is not advanced.
Bug_get_value(d, list) ==
    IF index[d][list] < Len(recorded[d][list])
    THEN recorded[d][list][Len(recorded[d][list]) - index[d][list]]
    ELSE Missing
Bug_get_index(d, list) ==
    IF list = "generic_obj_buffers" THEN index ELSE [index EXCEPT ![d][list] = @ + 1]

\* get_bcast, get_buffer, get_generic_obj and get_split.
get_value(d, list) ==
    IF index[d][list] < Len(recorded[d][list]) THEN recorded[d][list][index[d][list] + 1]
    ELSE Missing
get_index(d, list) == [index EXCEPT ![d][list] = @ + 1]

\* The next call of the program, unless an IndexError has ended it.
ThisCall == script[Len(replayed) + 1]
Replaying == saved /\ Len(replayed) < Len(script) /\ ~Contains(replayed, Missing)
ReplayReturns(value) ==
    /\ replayed' = Append(replayed, value)
    /\ UNCHANGED <<script, recorded, pending, comms, saved>>

\* A call that returns the next element of its list.
ReplayResult ==
    /\ Replaying /\ ThisCall.op \notin {"Irecv", "wait", "Split", "GatherOther"}
    /\ LET d == reader_of[ThisCall.comm]  list == ListOf(ThisCall.op)
       IN  /\ ReplayReturns(get_value(d, list))
           /\ index' = get_index(d, list)
    /\ UNCHANGED <<reader_of, held>>

\* The reader's Gather leaves the list alone where recvbuf is None.
ReplayGatherOther ==
    /\ Replaying /\ ThisCall.op = "GatherOther"
    /\ ReplayReturns(NoValue)
    /\ UNCHANGED <<index, reader_of, held>>

\* The reader's Irecv takes the element at once and keeps it for the wait.
ReplayIrecv ==
    /\ Replaying /\ ThisCall.op = "Irecv"
    /\ LET d == reader_of[ThisCall.comm]
           value == get_value(d, "received_buffers")
       IN  /\ ReplayReturns(IF value = Missing THEN Missing ELSE NoValue)
           /\ held' = [held EXCEPT ![Len(replayed) + 1] = value]
           /\ index' = get_index(d, "received_buffers")
    /\ UNCHANGED reader_of

\* CachingRequestReader.wait.
ReplayWait ==
    /\ Replaying /\ ThisCall.op = "wait"
    /\ ReplayReturns(held[ThisCall.arg])
    /\ UNCHANGED <<index, reader_of, held>>

\* The reader's Split: the next stored communicator, as a reader of its own.
ReplaySplit ==
    /\ Replaying /\ ThisCall.op = "Split"
    /\ LET d == reader_of[ThisCall.comm]
           value == get_value(d, "split_data")
       IN  /\ ReplayReturns(value)
           /\ reader_of' = [reader_of EXCEPT ![ThisCall.arg] = value]
           /\ index' = get_index(d, "split_data")
    /\ UNCHANGED held

Record ==
    \E c \in Comms :
        \/ \E op \in Calls : RecordResult(op, c)
        \/ RecordGatherOther(c)
        \/ RecordIrecv(c)
        \/ RecordWait(c)
        \/ RecordSplit(c)

RecordingNext ==
    \/ Record
    \/ Dump
    \/ ReplayResult
    \/ ReplayGatherOther
    \/ ReplayIrecv
    \/ ReplayWait
    \/ ReplaySplit

RecordingSpec == RecordingInit /\ [][RecordingNext]_recording

-----------------------------------------------------------------------------
(* Properties. *)

\* What the live call number i returned to the program.
Lived(i) ==
    CASE script[i].op \in {"wait", "Split"}        -> script[i].arg
      [] script[i].op \in {"Irecv", "GatherOther"} -> NoValue
      [] OTHER                                     -> i

\* Every variable keeps its type; a list element names a call of the program.
RecordingTypeOK ==
    /\ \A i \in DOMAIN script : script[i].comm \in 1 .. comms
    /\ Len(script) <= MaxRecordedCalls /\ Len(replayed) <= Len(script) /\ comms \in Comms
    /\ \A c \in Comms, l \in Lists :
        /\ Range(recorded[c][l]) \subseteq 0 .. Len(script) + 1
        /\ index[c][l] \in 0 .. Len(recorded[c][l])
    /\ \A c \in Comms : Range(pending[c]) \subseteq 1 .. Len(script)
    /\ \A c \in Comms : reader_of[c] \in Comms \cup {Missing}
    /\ \A i \in 1 .. MaxRecordedCalls : held[i] \in NoValue .. MaxRecordedCalls

\* Each call of the replay returns what the same call returned when it was
\* recorded, whatever was posted, split or waited for in between: the data of a
\* list come out in the order of the calls (CachingCommReader against
\* CachingCommWriter).
ReplayFaithful == \A i \in DOMAIN replayed : replayed[i] = Lived(i)

\* A replay that has run to its end has consumed everything that was received,
\* on the communicators of Split too: only what Gather stored without receiving
\* (None) may be left, so no value is recorded that no call of the reader asks for.
NothingUnread ==
    saved /\ Len(replayed) = Len(script) =>
        \A c \in Comms, l \in Lists :
            \A k \in index[c][l] + 1 .. Len(recorded[c][l]) : recorded[c][l][k] = NoValue
=============================================================================
