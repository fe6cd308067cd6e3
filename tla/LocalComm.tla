----------------------------- MODULE LocalComm -----------------------------
(***************************************************************************)
(* Communicators without MPI (comm/local_comm.py): the ranks live in one   *)
(* process, are called one after the other, and leave their messages in a  *)
(* dictionary they share.  A call cannot block; where MPI would wait, the  *)
(* call raises an error or takes what it finds.                            *)
(*                                                                         *)
(* Point to point messages go over the communicator of all ranks, the      *)
(* collectives over the communicators of the tiles that Split makes from   *)
(* it, as halo updates and tile scatters and gathers do.  Any order of the *)
(* ranks and of their calls is a behaviour.  The data of a call are        *)
(* represented by its number: the n-th Send of a channel carries n, the    *)
(* root's n-th bcast or Scatter provides n, and the n-th Gather of rank r  *)
(* provides <<n, r>>.                                                      *)
(*                                                                         *)
(* barrier returns at once; sendrecv, allgather and the reductions always  *)
(* raise.  A receive of which the sender never sent on its channel raises  *)
(* ConcurrencyError and changes nothing.  None of these is a step.         *)
(***************************************************************************)
EXTENDS Integers, SequencesExt, FiniteSets

CONSTANTS
    Ranks,       \* the ranks of the communicator, from 0
    Tile,        \* Tile[r]: the color rank r gives to Split
    Links,       \* pairs of ranks of which the first sends to the second
    Tags,        \* message tags
    Operations,  \* the operations the programs use
    MaxCalls,    \* bound: calls made by all ranks together
    Discipline   \* the rules the caller keeps to, as the tests do

Collectives == {"bcast", "scatter"}
AllCollectives == Collectives \cup {"gather"}

ASSUME LocalCommAssumption ==
    /\ IsFiniteSet(Ranks) /\ Ranks = 0 .. Cardinality(Ranks) - 1
    /\ Links \subseteq Ranks \X Ranks
    /\ Operations \subseteq AllCollectives \cup {"Send", "Recv", "Irecv"}
    /\ Discipline \subseteq {"split_in_order", "wait_in_order", "gather_in_rounds"}
    /\ MaxCalls \in Nat

VARIABLES
    send_recv,     \* send_recv[k]: messages left under key k; k is absent before the first
    sent,          \* sent[k]: number of sends on k
    received,      \* received[k][n]: what the n-th receive posted on k got
    split_comms,   \* split_comms[c]: the ranks that split with color c, in order
    rank,          \* rank[r]: the rank of r in the communicator of its tile
    total_ranks,   \* total_ranks[r]: the size of that communicator as r knows it
    buffer,        \* buffer[c][t]: what the root of tile c provided
    i_buffer,      \* i_buffer[r][t]: the element r takes next
    gather_buffer, \* gather_buffer[c]: one element per rank; empty before the first use
    made,          \* made[r][t]: collective calls of r that returned
    returned,      \* returned[t]: what they returned
    ended,         \* ended[r]: an IndexError has ended the program of r
    calls          \* number of calls made

messages == <<send_recv, sent, received>>
tiles    == <<split_comms, rank, total_ranks>>
rounds   == <<buffer, i_buffer, gather_buffer, made, returned>>
vars     == <<messages, tiles, rounds, ended, calls>>

Keys   == {<<l[1], l[2], t>> : l \in Links, t \in Tags}    \* (from_rank, to_rank, tag)
Colors == {Tile[r] : r \in Ranks}
Members(c) == {r \in Ranks : Tile[r] = c}

Pending == 0     \* a receive posted and not waited for
None    == <<>>  \* Python's None in the gather buffer
NoComm  == -1    \* the communicator of the tile does not exist yet

Init ==
    /\ send_recv = <<>>
    /\ sent = [k \in Keys |-> 0] /\ received = [k \in Keys |-> <<>>]
    /\ split_comms = [c \in Colors |-> <<>>]
    /\ rank = [r \in Ranks |-> NoComm] /\ total_ranks = [r \in Ranks |-> NoComm]
    /\ buffer = [c \in Colors |-> [t \in Collectives |-> <<>>]]
    /\ i_buffer = [r \in Ranks |-> [t \in Collectives |-> 0]]
    /\ gather_buffer = [c \in Colors |-> <<>>]
    /\ made = [r \in Ranks |-> [t \in AllCollectives |-> 0]]
    /\ returned = [t \in AllCollectives |-> {}] /\ ended = [r \in Ranks |-> FALSE] /\ calls = 0

\* Rank r is called.
Called(r) == ~ended[r] /\ calls < MaxCalls /\ calls' = calls + 1

IndexError(r) == ended' = [ended EXCEPT ![r] = TRUE]

-----------------------------------------------------------------------------
(* Point to point.                                                         *)

\* Mutant: the newest message.
Bug_popped(k) == Len(send_recv[k])
popped(k)     == 1

\* _put_send_recv: a copy of the buffer is appended.
Send(k) ==
    /\ "Send" \in Operations /\ Called(k[1])
    /\ sent' = [sent EXCEPT ![k] = @ + 1]
    /\ send_recv' = [j \in DOMAIN send_recv \cup {k} |->
                        IF j # k THEN send_recv[j]
                        ELSE IF k \in DOMAIN send_recv THEN Append(send_recv[k], sent'[k])
                        ELSE <<sent'[k]>>]
    /\ UNCHANGED <<received, tiles, rounds, ended>>

\* _get_send_recv for the n-th receive posted on k: the oldest message, or the
\* IndexError of pop when all messages of this key are taken.
Take(k, n) ==
    /\ k \in DOMAIN send_recv
    /\ \/ /\ send_recv[k] # <<>>
          /\ received' = [received EXCEPT ![k] =
                            IF n > Len(@) THEN Append(@, send_recv[k][popped(k)])
                            ELSE [@ EXCEPT ![n] = send_recv[k][popped(k)]]]
          /\ send_recv' = [send_recv EXCEPT ![k] = RemoveAt(@, popped(k))]
          /\ UNCHANGED ended
       \/ /\ send_recv[k] = <<>>
          /\ IndexError(k[2])
          /\ UNCHANGED <<received, send_recv>>
    /\ UNCHANGED <<sent, tiles, rounds>>

\* The receives of a key are finished in the order they were posted.
InOrder(k, n) == "wait_in_order" \in Discipline => \A p \in 1 .. n - 1 : received[k][p] # Pending

Recv(k) ==
    /\ "Recv" \in Operations /\ Called(k[2])
    /\ LET n == Len(received[k]) + 1 IN InOrder(k, n) /\ Take(k, n)

\* Irecv only wraps the receive.
Irecv(k) ==
    /\ "Irecv" \in Operations /\ Called(k[2])
    /\ received' = [received EXCEPT ![k] = Append(@, Pending)]
    /\ UNCHANGED <<send_recv, sent, tiles, rounds, ended>>

\* AsyncResult.wait: the receive happens now.
wait(k) ==
    \E n \in 1 .. Len(received[k]) :
        /\ received[k][n] = Pending /\ InOrder(k, n)
        /\ Called(k[2]) /\ Take(k, n)

-----------------------------------------------------------------------------
(* Split.                                                                  *)

\* Mutant: only the new communicator learns its size.
Bug_total(c, r) == [total_ranks EXCEPT ![r] = Len(split_comms[c]) + 1]
resized(c, r)   == [q \in Ranks |-> IF q = r \/ Contains(split_comms[c], q)
                                    THEN Len(split_comms[c]) + 1 ELSE total_ranks[q]]

\* The key is ignored: the ranks are numbered as they come.
Split(r) ==
    /\ rank[r] = NoComm
    /\ "split_in_order" \in Discipline => \A q \in Ranks : q < r => rank[q] # NoComm
    /\ Called(r)
    /\ rank' = [rank EXCEPT ![r] = Len(split_comms[Tile[r]])]
    /\ total_ranks' = resized(Tile[r], r)
    /\ split_comms' = [split_comms EXCEPT ![Tile[r]] = Append(@, r)]
    /\ UNCHANGED <<messages, rounds, ended>>

-----------------------------------------------------------------------------
(* Collectives on the communicator of a tile, root 0.                      *)

\* r has its communicator, and so have all others where the ranks split first.
HasTile(r) ==
    /\ rank[r] # NoComm
    /\ "split_in_order" \in Discipline => \A q \in Ranks : rank[q] # NoComm
isRoot(r) == rank[r] = 0

Returns(r, t, value) ==
    /\ made' = [made EXCEPT ![r][t] = @ + 1]
    /\ returned' = [returned EXCEPT
                     ![t] = @ \cup {[by |-> r, nth |-> made[r][t] + 1, got |-> value]}]

\* Mutant: the two kinds of call share one counter.
Bug_advanced(r, t) == [i_buffer EXCEPT ![r] = [u \in Collectives |-> @[t] + 1]]
advanced(r, t)     == [i_buffer EXCEPT ![r][t] = @ + 1]

\* _get_buffer, for bcast and Scatter: the root appends, then everybody takes its
\* next element; Scatter assigns the row of the rank.
_get_buffer(r, t) ==
    LET c    == Tile[r]
        list == IF isRoot(r) THEN Append(buffer[c][t], made[r][t] + 1) ELSE buffer[c][t]
        i    == i_buffer[r][t] + 1
    IN  /\ t \in Operations /\ HasTile(r) /\ Called(r)
        /\ i_buffer' = advanced(r, t)
        /\ buffer' = [buffer EXCEPT ![c][t] = list]
        /\ \/ /\ i <= Len(list)
              /\ Returns(r, t, IF t = "scatter" THEN <<list[i], rank[r]>> ELSE <<list[i]>>)
              /\ UNCHANGED ended
           \/ /\ i > Len(list)
              /\ IndexError(r)
              /\ UNCHANGED <<made, returned>>
        /\ UNCHANGED <<messages, tiles, gather_buffer>>

\* No rank gathers again before the root has finished the last gather, and the
\* root calls the second and later ones last.
MayGather(r) ==
    LET root == Head(split_comms[Tile[r]])
        done(q) == made[q]["gather"]
    IN  "gather_in_rounds" \in Discipline =>
        IF r # root THEN done(r) = done(root)
        ELSE done(r) = 0 \/ \A q \in Members(Tile[r]) \ {r} : done(q) > done(r)

\* The element of the gather buffer that r fills, counted from 0.
slot(r)     == rank[r]

\* Gather: the buffer is made when first used, is filled, and is never emptied.
Gather(r) ==
    LET c       == Tile[r]
        buf     == IF gather_buffer[c] # <<>> THEN gather_buffer[c]
                   ELSE [i \in 1 .. total_ranks[r] |-> None]
        filled  == [buf EXCEPT ![slot(r) + 1] = <<made[r]["gather"] + 1, r>>]
        missing == isRoot(r) /\ Contains(filled, None)
    IN  /\ "gather" \in Operations /\ HasTile(r) /\ MayGather(r)
        /\ Called(r)
        /\ gather_buffer' = [gather_buffer EXCEPT ![c] = filled]
        /\ \/ /\ slot(r) < Len(buf) /\ ~missing
              /\ Returns(r, "gather", IF isRoot(r) THEN filled ELSE <<>>)
              /\ UNCHANGED ended
           \/ /\ slot(r) >= Len(buf) \/ missing     \* IndexError, ConcurrencyError
              /\ ended' = [ended EXCEPT ![r] = slot(r) >= Len(buf)]
              /\ UNCHANGED <<made, returned>>
        /\ UNCHANGED <<messages, tiles, buffer, i_buffer>>

Next ==
    \/ \E k \in Keys : Send(k) \/ Recv(k) \/ Irecv(k) \/ wait(k)
    \/ \E r \in Ranks : Split(r) \/ Gather(r)
    \/ \E r \in Ranks, t \in Collectives : _get_buffer(r, t)

Spec == Init /\ [][Next]_vars

-----------------------------------------------------------------------------
(* Properties.                                                             *)

\* Every variable keeps its type; a rank is below the size its communicator knows.
TypeOK ==
    /\ DOMAIN send_recv \subseteq Keys
    /\ \A k \in DOMAIN send_recv : Range(send_recv[k]) \subseteq 1 .. sent[k]
    /\ \A k \in Keys : Range(received[k]) \subseteq Pending .. sent[k]
    /\ \A r \in Ranks : rank[r] # NoComm => rank[r] \in 0 .. total_ranks[r] - 1
    /\ \A c \in Colors : Len(gather_buffer[c]) <= Cardinality(Members(c))
    /\ ended \in [Ranks -> BOOLEAN] /\ calls \in 0 .. MaxCalls

\* The n-th receive posted on a channel and tag gets the n-th message sent there, as
\* with MPI, although it is carried out only when it is waited for: no order of the
\* ranks, of the tags or of the waits of other channels mixes them up.
ReceivesMatchSends ==
    \A k \in Keys : \A n \in DOMAIN received[k] : received[k][n] \in {Pending, n}

\* The rank MPI gives r in the communicator of its tile (the key is the rank).
MpiRank(r) == Cardinality({q \in Members(Tile[r]) : q < r})

\* When all ranks of a tile have split, they have the ranks and the size MPI's Split
\* would give them, those that split first too.
SplitAsMpi ==
    \A c \in Colors : Len(split_comms[c]) = Cardinality(Members(c)) =>
        \A r \in Members(c) :
            rank[r] = MpiRank(r) /\ total_ranks[r] = Cardinality(Members(c))

\* A rank's n-th collective call returns what the ranks provided in their own n-th,
\* whichever ranks of whichever tile were called in between: bcast the root's object,
\* Scatter this rank's row of it (_get_buffer), and Gather on the root the element of
\* each rank at its place, none left from an earlier round.
RoundsMatch ==
    /\ \A x \in returned["bcast"]   : x.got = <<x.nth>>
    /\ \A x \in returned["scatter"] : x.got = <<x.nth, MpiRank(x.by)>>
    /\ \A x \in returned["gather"] : MpiRank(x.by) = 0 =>
        /\ Len(x.got) = Cardinality(Members(Tile[x.by]))
        /\ \A r \in Members(Tile[x.by]) : x.got[MpiRank(r) + 1] = <<x.nth, r>>
=============================================================================
