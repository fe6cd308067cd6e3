--------------------------- MODULE MCHaloExchange ---------------------------
(***************************************************************************)
(* Two ranks that are each other's neighbours.  In the exchange of shared  *)
(* edges rank 1 is south of rank 2: it receives what rank 2 sends.         *)
(***************************************************************************)
EXTENDS HaloExchange

MCRank == {1, 2}
MCOut == [halo |-> <<<<2>>, <<1>>>>, sync |-> <<<<>>, <<1>>>>]
MCIn  == [halo |-> <<<<2>>, <<1>>>>, sync |-> <<<<2>>, <<>>>>]
=============================================================================
