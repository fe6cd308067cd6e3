------------------------------ MODULE MCDevice ------------------------------
(***************************************************************************)
(* The transformer of GPU fields, in two respects side by side: the order  *)
(* of kernels and messages (StreamedTransformer) and the elements that a   *)
(* kernel copies (FlatIndices).  A behaviour is one of one of them; the    *)
(* other stays in its initial state.                                       *)
(***************************************************************************)
EXTENDS StreamedTransformer

CONSTANTS
  Concerns,      \* subset of {"order", "elements"}
  Transformers,  \* the exchanges of FlatIndices
  MaxCompiled    \* bound on the transformers created

VARIABLES concern, INDICES_CACHE, compiled

Flat == INSTANCE FlatIndices

MCInit == Init /\ Flat!Init /\ concern \in Concerns

MCNext ==
  \/ concern = "order" /\ Next /\ UNCHANGED <<concern, INDICES_CACHE, compiled>>
  \/ concern = "elements" /\ Flat!Next /\ UNCHANGED <<concern, vars>>

MCSpec == MCInit /\ [][MCNext]_<<vars, concern, INDICES_CACHE, compiled>>

\* The kernels pack and unpack the elements that the numpy code does (FlatIndices).
CopiesAsCpu == Flat!CopiesAsCpu

-----------------------------------------------------------------------------
(* Two updaters of two fields.                                             *)

MCFields == <<1, 2>>

-----------------------------------------------------------------------------
(* Subtiles of 3 x 3 cells with a halo of 2, the boundaries to the west    *)
(* and north, every rotation; fields of points, of three dimensions in C   *)
(* and in Fortran order, and vectors of the C grid.                        *)

G == INSTANCE GridArrays
Subtile == [cube |-> TRUE, lay |-> <<1, 1>>, nx |-> 3, h |-> 2]
Depth == 2

Interface(dim, yi, xi) == CASE dim = "x" -> xi [] dim = "y" -> yi [] OTHER -> 0
Axes == {"x", "y"}

\* Of the lengths of at most two dimensions.
ProductOf(s) == CASE s = <<>> -> 1 [] Len(s) = 1 -> s[1] [] OTHER -> s[1] * s[2]

Descriptor(b, rotation, dims, fortran, yi, xi) ==
  LET From(d) == Interface(dims[d], yi, xi)
      shape == [d \in DOMAIN dims |->
                  IF dims[d] \in Axes THEN G!Extent(Subtile, From(d)) + 2 * Subtile.h ELSE Depth]
      After(d) == IF fortran THEN SubSeq(shape, 1, d - 1) ELSE SubSeq(shape, d + 1, Len(shape))
      Points(start, d) == <<Subtile.h + start,
                            Subtile.h + start + G!SliceLen(Subtile, b, dims[d], From(d))>>
      Slice(d, send) ==
        Points(IF send THEN G!SendFrom(Subtile, b, dims[d], From(d))
                       ELSE G!RecvFrom(Subtile, b, dims[d], From(d)), d)
  IN  [shape |-> shape, itemsize |-> 8, dims |-> dims, rotation |-> rotation,
       strides |-> [d \in DOMAIN dims |-> 8 * ProductOf(After(d))],
       pack |-> [d \in DOMAIN dims |-> IF dims[d] \in Axes THEN Slice(d, TRUE) ELSE <<0, Depth>>],
       unpack |-> [d \in DOMAIN dims |-> IF dims[d] \in Axes THEN Slice(d, FALSE) ELSE <<0, Depth>>]]

Scalars(b, rotation) ==
  {[x |-> <<Descriptor(b, rotation, dims, FALSE, 0, 0)>>, y |-> <<>>] : dims \in {<<"x", "y">>}}
Layers(b, rotation) ==
  {[x |-> <<Descriptor(b, rotation, <<"z", "y", "x">>, f, 0, 0)>>, y |-> <<>>] : f \in BOOLEAN}
Vectors(b, rotation) ==
  {[x |-> <<Descriptor(b, rotation, <<"y", "x">>, FALSE, 1, 0)>>,
    y |-> <<Descriptor(b, rotation, <<"y", "x">>, FALSE, 0, 1)>>]}

MCTransformers ==
  UNION {Scalars(b, r) \union Layers(b, r) \union Vectors(b, r) : b \in {"west", "north"}, r \in 0..3}
=============================================================================
