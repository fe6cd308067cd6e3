----------------------- MODULE MCCompilationHandshake -----------------------
(***************************************************************************)
(* One rank per tile of the cubed sphere, where rank 0 compiles for all;   *)
(* and a tile of four ranks on its own.                                    *)
(***************************************************************************)
EXTENDS CompilationHandshake

OneByOne == <<1, 1>>
TwoByTwo == <<2, 2>>
=============================================================================
