------------------------ MODULE CompilationHandshake ------------------------
(***************************************************************************)
(* Building stencils with minimal caching (dsl/stencil.py and              *)
(* comm/decomposition.py).  The ranks of the first tile compile; every     *)
(* other rank blocks at each stencil until the rank that compiles for it   *)
(* has built the same stencil and told so.                                 *)
(*                                                                         *)
(* The message carries neither the stencil's name nor a tag of its own,    *)
(* and the receive names only its source: it takes the first unmatched     *)
(* message of that rank, on the communicator (COMM_WORLD) the halo         *)
(* exchanges use.  The model therefore runs the handshake together with    *)
(* the messages of overlapping halo exchanges.  Every rank runs the same   *)
(* program of constructions and exchanges.                                 *)
(*                                                                         *)
(* A message is matched as soon as both sides are posted: a later arrival  *)
(* is the same to the receiver as a later send.  MPI buffers messages up   *)
(* to some size and completes the send of a larger one only when it is     *)
(* matched; the message of the handshake is smaller than any halo.         *)
(***************************************************************************)
EXTENDS Partitioner, SequencesExt

CONSTANTS
    Layout,      \* ranks of a tile along y and x
    Cube,        \* TRUE: CubedSpherePartitioner; FALSE: a TilePartitioner alone
    MaxOps       \* bound: length of the program

ASSUME HandshakeAssumption ==
    /\ Layout \in Seq(Nat \ {0}) /\ Len(Layout) = 2
    /\ Layout[1] = Layout[2]         \* CompilationConfig.check_communicator
    /\ Cube \in BOOLEAN /\ MaxOps \in Nat

Size  == tile_ranks(Layout) * (IF Cube THEN 6 ELSE 1)
Ranks == 0 .. Size - 1

\* determine_rank_is_compiling: rank < size / 6, in floating point.
is_compiling(rank) == 6 * rank < Size

\* determine_compiling_equivalent when stencils are being built.
compiling_equivalent(rank) == rank % tile_ranks(Layout)

\* unblock_waiting_tiles: the rank told for each of the five other tiles.
tile_size     == Size \div 6
Bug_Told(rank, n) == (n - 1) * tile_size + rank
Told(rank, n)     == n * tile_size + rank

\* The ranks an exchange sends to and receives from.
Links == UNION {
    LET b == IF Cube THEN cube_boundary(Layout, r) ELSE tile_boundary(Layout, r)
    IN  {<<r, b[side].to>> : side \in {NORTH, SOUTH, WEST, EAST}} : r \in Ranks}
Neighbours(r) == {q \in Ranks : <<r, q>> \in Links}

\* HaloUpdater.start posts a receive and a send for every boundary: the ranks it
\* receives from are those it sends to, and on the cubed sphere they send to it
\* (the boundaries of CubedSpherePartitioner pair up: see HaloRegions).
ASSUME LinksAssumption ==
    Cube => \A r, q \in Ranks : q \in Neighbours(r) => r \in Neighbours(q)

VARIABLES
    program,     \* the operations every rank runs, in order
    eager,       \* the kinds of message MPI buffers
    pos,         \* pos[r]: the operation rank r is in
    stage,       \* stage[r]: how far r is in the construction of a stencil
    other,       \* other[r]: the tile a compiling rank tells next
    built,       \* built[r]: stencils built so far
    heard,       \* heard[r]: the message that ended the last wait for compilation
    channel,     \* channel[s][d]: messages sent and not matched, oldest first
    arrived      \* arrived[r]: <<source, exchange>> of the halo data received

vars == <<program, eager, pos, stage, other, built, heard, channel, arrived>>

(* Operations: the construction of a FrozenStencil, and the two halves of  *)
(* a halo exchange; exchanges are numbered in the order they start and are *)
(* waited for in that order.                                               *)
Ops == {"build", "start", "wait"}
CountUpTo(p, i, op) == Cardinality({k \in 1 .. i : p[k] = op})

\* An exchange needs a layout start_halo_update accepts.
IsProgram(p) ==
    /\ \A i \in 0 .. Len(p) : CountUpTo(p, i, "wait") <= CountUpTo(p, i, "start")
    /\ CountUpTo(p, Len(p), "wait") = CountUpTo(p, Len(p), "start")
    /\ Cube \/ ~Contains(p, "start")

Done(k) == [kind |-> "done", n |-> k]
Halo(n) == [kind |-> "halo", n |-> n]

Init ==
    /\ program \in {p \in BoundedSeq(Ops, MaxOps) : IsProgram(p)}
    /\ eager \in {{}, {"done"}, {"done", "halo"}}
    /\ pos = [r \in Ranks |-> 1]
    /\ stage = [r \in Ranks |-> "ready"]
    /\ other = [r \in Ranks |-> 1]
    /\ built = [r \in Ranks |-> 0]
    /\ heard = [r \in Ranks |-> Done(0)]
    /\ channel = [s \in Ranks |-> [d \in Ranks |-> <<>>]]
    /\ arrived = [r \in Ranks |-> {}]

Finished(r) == pos[r] > Len(program)
At(r, op)   == ~Finished(r) /\ program[pos[r]] = op

\* Exchanges r has posted the receives of.
Bug_Posted(r) == 1 .. CountUpTo(program, pos[r] - 1, "wait")
Posted(r)     == 1 .. CountUpTo(program, pos[r] - 1, "start")

\* The operation returns.
Bug_Return(r) == pos' = [pos EXCEPT ![r] = @ + 1] /\ stage' = stage
Return(r)     == pos' = [pos EXCEPT ![r] = @ + 1] /\ stage' = [stage EXCEPT ![r] = "ready"]

-----------------------------------------------------------------------------
(* FrozenStencil.__init__                                                  *)

\* block_waiting_for_compilation: comm.recv(source=compiling_equivalent) takes the
\* first message of that rank, whatever it is.
Block(r) ==
    LET source == compiling_equivalent(r) IN
    /\ At(r, "build") /\ stage[r] = "ready" /\ ~is_compiling(r)
    /\ channel[source][r] # <<>>
    /\ heard' = [heard EXCEPT ![r] = Head(channel[source][r])]
    /\ channel' = [channel EXCEPT ![source][r] = Tail(@)]
    /\ stage' = [stage EXCEPT ![r] = "heard"]
    /\ UNCHANGED <<program, eager, pos, other, built, arrived>>

\* gtscript.stencil: compiles, or loads what the compiling rank left in the cache.
Construct(r) ==
    /\ At(r, "build")
    /\ stage[r] = IF is_compiling(r) THEN "ready" ELSE "heard"
    /\ built' = [built EXCEPT ![r] = @ + 1]
    /\ IF is_compiling(r) /\ Size > 1
       THEN /\ stage' = [stage EXCEPT ![r] = "telling"]
            /\ other' = [other EXCEPT ![r] = 1]
            /\ UNCHANGED pos
       ELSE Return(r) /\ UNCHANGED other
    /\ UNCHANGED <<program, eager, heard, channel, arrived>>

\* unblock_waiting_tiles: comm.send to the next tile.
Tell(r) ==
    /\ stage[r] = "telling"
    /\ channel' = [channel EXCEPT ![r][Told(r, other[r])] = Append(@, Done(built[r]))]
    /\ stage' = [stage EXCEPT ![r] = "sending"]
    /\ UNCHANGED <<program, eager, pos, other, built, heard, arrived>>

Bug_LastTile == 4
LastTile     == 5

\* comm.send returns once its message is buffered or matched.
SendReturns(r) ==
    /\ stage[r] = "sending"
    /\ "done" \in eager \/ ~Contains(channel[r][Told(r, other[r])], Done(built[r]))
    /\ IF other[r] < LastTile
       THEN /\ other' = [other EXCEPT ![r] = @ + 1]
            /\ stage' = [stage EXCEPT ![r] = "telling"]
            /\ UNCHANGED pos
       ELSE Return(r) /\ UNCHANGED other
    /\ UNCHANGED <<program, eager, built, heard, channel, arrived>>

-----------------------------------------------------------------------------
(* Halo exchanges.                                                         *)

\* HaloUpdater.start: Irecv from every neighbour, which takes a message that is
\* already there, then Isend to every neighbour.
StartExchange(r) ==
    LET n == CountUpTo(program, pos[r], "start")
        Sent(s, d) == s = r /\ d \in Neighbours(r)
        Taken(s, d) == d = r /\ s \in Neighbours(r)
    IN  /\ At(r, "start")
        /\ channel' = [s \in Ranks |-> [d \in Ranks |->
               IF Taken(s, d) THEN RemoveFirst(channel[s][d], Halo(n))
               ELSE IF Sent(s, d) /\ n \notin Posted(d) THEN Append(channel[s][d], Halo(n))
               ELSE channel[s][d]]]
        /\ arrived' = [d \in Ranks |->
               IF d = r THEN arrived[r] \cup
                    {<<s, n>> : s \in {q \in Neighbours(r) : Contains(channel[q][r], Halo(n))}}
               ELSE IF d \in Neighbours(r) /\ n \in Posted(d) THEN arrived[d] \cup {<<r, n>>}
               ELSE arrived[d]]
        /\ Return(r)
        /\ UNCHANGED <<program, eager, other, built, heard>>

\* HaloUpdater.wait: every send and every receive of the exchange has completed.
WaitExchange(r) ==
    LET n == CountUpTo(program, pos[r], "wait") IN
    /\ At(r, "wait")
    /\ \A q \in Neighbours(r) :
        /\ <<q, n>> \in arrived[r]
        /\ "halo" \in eager \/ <<r, n>> \in arrived[q]
    /\ Return(r)
    /\ UNCHANGED <<program, eager, other, built, heard, channel, arrived>>

RankStep(r) ==
    \/ Block(r)
    \/ Construct(r)
    \/ Tell(r)
    \/ SendReturns(r)
    \/ StartExchange(r)
    \/ WaitExchange(r)

Next == \E r \in Ranks : RankStep(r)

\* A rank that can go on is scheduled; compilers and MPI calls that can return do.
Spec == Init /\ [][Next]_vars /\ \A r \in Ranks : WF_vars(RankStep(r))

-----------------------------------------------------------------------------
(* Properties. *)

\* Every variable keeps its type, and a rank has built the stencils it passed.
TypeOK ==
    /\ \A r \in Ranks :
        /\ pos[r] \in 1 .. Len(program) + 1
        /\ stage[r] \in {"ready", "heard", "telling", "sending"}
        /\ other[r] \in 1 .. 5
        /\ built[r] \in 0 .. CountUpTo(program, Len(program), "build")
        /\ arrived[r] \subseteq Ranks \X (1 .. MaxOps)
    /\ \A s, d \in Ranks : \A i \in DOMAIN channel[s][d] :
        channel[s][d][i] \in {Done(k) : k \in 1 .. MaxOps} \cup {Halo(n) : n \in 1 .. MaxOps}

\* No rank loads a stencil from the cache before the rank that compiles it for it
\* has finished building that same stencil (the block in FrozenStencil.__init__).
CompiledFirst == \A r \in Ranks : built[r] <= built[compiling_equivalent(r)]

\* The message that lets a rank go on is the one about the stencil it is about to
\* build: never one about another stencil, nor data of a halo exchange the
\* untagged receive took out of the channel.
HeardIsTheAnswer ==
    \A r \in Ranks : stage[r] = "heard" => heard[r] = Done(built[r] + 1)

\* Two ranks that have ended leave no message between them.
NothingLeft ==
    \A s, d \in Ranks : Finished(s) /\ Finished(d) => channel[s][d] = <<>>

\* unblock_waiting_tiles "Sends a message to all the ranks waiting for compilation
\* to finish": where every compiling rank is past a stencil, a rank that still
\* waits for that stencil has its message.
EveryWaiterIsTold ==
    \A r \in Ranks :
        /\ At(r, "build") /\ stage[r] = "ready" /\ ~is_compiling(r)
        /\ \A c \in Ranks : is_compiling(c) => pos[c] > pos[r]
        => channel[compiling_equivalent(r)][r] # <<>>

\* Every rank runs the whole program: no rank waits for ever for a compiler, a
\* waiting rank, or an exchange, whatever messages MPI buffers.
EveryRankFinishes == <>(\A r \in Ranks : Finished(r))
=============================================================================
