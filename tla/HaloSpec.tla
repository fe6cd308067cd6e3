------------------------------ MODULE HaloSpec ------------------------------
(***************************************************************************)
(* What a halo exchange promises, whatever network and buffers carry it.   *)
(*                                                                         *)
(* Every rank takes part in the same sequence of exchanges.  A rank starts *)
(* its e-th exchange by publishing the points its neighbours need, and     *)
(* completes it once, with the points every neighbour published when that  *)
(* neighbour started its own e-th exchange: never with the points of       *)
(* another exchange, another rank or another boundary.                     *)
(***************************************************************************)
EXTENDS Naturals, Sequences

CONSTANTS
  Rank,  \* the ranks of the communicator
  Kind,  \* the patterns of exchange (which boundaries send and receive)
  In     \* In[k][r]: the ranks that r receives from in a pattern-k exchange

VARIABLE
  halo   \* halo[r][e]: rank r's e-th exchange, its pattern and what it received

\* The points that src sends to dst when it starts its e-th exchange.
Published(src, dst, e) == [src |-> src, dst |-> dst, exch |-> e]

SpecInit == halo = [r \in Rank |-> <<>>]

(***************************************************************************)
(* Rank r starts its next exchange: a new one, or the one that other ranks *)
(* have already started, with the same pattern.                            *)
(***************************************************************************)
SpecStart(r, k) ==
  LET e == Len(halo[r]) + 1
  IN  /\ \A s \in Rank : e <= Len(halo[s]) => halo[s][e].kind = k
      /\ halo' = [halo EXCEPT ![r] =
                    Append(@, [kind |-> k, done |-> FALSE, got |-> <<>>])]

(***************************************************************************)
(* Rank r completes its e-th exchange, which its neighbours have started.  *)
(***************************************************************************)
SpecComplete(r, e) ==
  LET from == In[halo[r][e].kind][r]
  IN  /\ ~ halo[r][e].done
      /\ \A j \in DOMAIN from : e <= Len(halo[from[j]])
      /\ halo' = [halo EXCEPT ![r][e].done = TRUE,
                              ![r][e].got  =
                                [j \in DOMAIN from |-> Published(from[j], r, e)]]

SpecNext ==
  \/ \E r \in Rank, k \in Kind : SpecStart(r, k)
  \/ \E r \in Rank : \E e \in 1..Len(halo[r]) : SpecComplete(r, e)

Spec == SpecInit /\ [][SpecNext]_halo
=============================================================================
