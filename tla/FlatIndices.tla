----------------------------- MODULE FlatIndices -----------------------------
(***************************************************************************)
(* How the halo data transformers of CPU and GPU lay out a message         *)
(* (ndsl/halo/data_transformer.py, ndsl/halo/cuda_kernels.py).             *)
(*                                                                         *)
(* On the CPU the points of a field are sliced, rotated and flattened.  On *)
(* the GPU one kernel per field gathers them through an array of indices   *)
(* into the memory of the field, which is built once for each slice,       *)
(* rotation and memory layout and kept in INDICES_CACHE for every later    *)
(* transformer.  Module HaloRegions checks that the layout of the CPU puts *)
(* every point in place; here the GPU's is the same.                       *)
(*                                                                         *)
(* Dimensions, indices and slices are counted from 0 as in the code.  An   *)
(* array is [shape, flat], flat being its elements in C order; an element  *)
(* of a field is its component, its address in memory and its sign.        *)
(***************************************************************************)
EXTENDS Integers, Sequences, FiniteSets, SequencesExt, TLC

CONSTANTS
  Transformers, \* the exchanges of the program: descriptors of x and y components
  MaxCompiled   \* bound on the transformers created

VARIABLES
  INDICES_CACHE, \* arrays of indices, by key
  compiled       \* the transformers created, in no particular order

vars == <<INDICES_CACHE, compiled>>

-----------------------------------------------------------------------------
(* Arrays of any number of dimensions.                                     *)

Product(s) == FoldLeft(LAMBDA a, b : a * b, 1, s)
Sum(s) == FoldLeft(LAMBDA a, b : a + b, 0, s)
Size(shape) == Product(shape)

\* The multi-index of the k-th element in C order, and its inverse.
MultiIndex(shape, k) ==
  [d \in DOMAIN shape |-> (k \div Product(SubSeq(shape, d + 1, Len(shape)))) % shape[d]]
Position(shape, m) == Sum([d \in DOMAIN shape |-> m[d] * Product(SubSeq(shape, d + 1, Len(shape)))])

\* The array whose element at k comes from the index Source[k] of another.
Rearranged(array, shape, Source) ==
  [shape |-> shape,
   flat |-> [k \in 1..Size(shape) |-> array.flat[Position(array.shape, Source[k - 1]) + 1]]]

\* numpy.flip along the dimensions of a set.
flip(array, axes) ==
  Rearranged(array, array.shape, [k \in 0..(Size(array.shape) - 1) |->
    [d \in DOMAIN array.shape |->
       IF d \in axes THEN array.shape[d] - 1 - MultiIndex(array.shape, k)[d]
                     ELSE MultiIndex(array.shape, k)[d]]])

\* numpy.rot90 from dimension a towards dimension b.
rot90(array, a, b) ==
  LET shape == [array.shape EXCEPT ![a] = array.shape[b], ![b] = array.shape[a]]
  IN  Rearranged(array, shape, [k \in 0..(Size(shape) - 1) |->
        [MultiIndex(shape, k) EXCEPT
           ![a] = MultiIndex(shape, k)[b],
           ![b] = array.shape[b] - 1 - MultiIndex(shape, k)[a]]])

Dim(dims, axis) == {d \in DOMAIN dims : dims[d] = axis}

rotate_scalar_data(array, dims, n_clockwise_rotations) ==
  LET n == n_clockwise_rotations % 4
      x == Dim(dims, "x")
      y == Dim(dims, "y")
      x_dim == CHOOSE d \in x : TRUE
      y_dim == CHOOSE d \in y : TRUE
  IN  CASE n = 0 -> array
        [] n = 2 -> flip(array, x \union y)
        [] n = 1 /\ x # {} /\ y # {} -> rot90(array, y_dim, x_dim)
        [] n = 3 /\ x # {} /\ y # {} -> rot90(array, x_dim, y_dim)
        [] n = 1 /\ y = {} -> flip(array, x)
        [] n = 3 /\ x = {} -> flip(array, y)
        [] OTHER -> array

Minus(elements) == [k \in DOMAIN elements |-> [elements[k] EXCEPT !.sign = - @]]

-----------------------------------------------------------------------------
(* Descriptors: shape, strides (bytes), itemsize, dims, rotation, and the  *)
(* slices to pack and unpack, a pair <<start, stop>> per dimension.        *)

SliceShape(slices) == [d \in DOMAIN slices |-> slices[d][2] - slices[d][1]]
_slices_size(slices) == Size(SliceShape(slices))

Offset(spec, m) == Sum([d \in DOMAIN m |-> m[d] * spec.strides[d]]) \div spec.itemsize

\* The addresses of the points of a slice.
Addresses(spec, slices) ==
  LET shape == SliceShape(slices)
      start == [d \in DOMAIN slices |-> slices[d][1]]
  IN  [shape |-> shape,
       flat |-> [k \in 1..Size(shape) |->
                   Offset(spec, start) + Offset(spec, MultiIndex(shape, k - 1))]]

\* The points of component c of a field.
Points(c, spec, slices) ==
  LET a == Addresses(spec, slices)
  IN  [a EXCEPT !.flat = [k \in DOMAIN @ |-> [c |-> c, at |-> @[k], sign |-> 1]]]

-----------------------------------------------------------------------------
(* HaloDataTransformerCPU.                                                 *)

\* _pack_scalar, _pack_vector: what one descriptor, or pair of them, adds to the buffer.
CpuScalar(spec) ==
  rotate_scalar_data(Points("x", spec, spec.pack), spec.dims, - spec.rotation).flat

CpuVector(sx, sy) ==
  LET n == (- sx.rotation) % 4
      x == rotate_scalar_data(Points("x", sx, sx.pack), sx.dims, n).flat
      y == rotate_scalar_data(Points("y", sy, sy.pack), sx.dims, n).flat
  IN  CASE n = 0 -> x \o y
        [] n = 1 -> y \o Minus(x)
        [] n = 2 -> Minus(x) \o Minus(y)
        [] n = 3 -> Minus(y) \o x

IsVector(t) == t.y # <<>>

CpuPacked(t) ==
  FlattenSeq([i \in DOMAIN t.x |-> IF IsVector(t) THEN CpuVector(t.x[i], t.y[i])
                                                  ELSE CpuScalar(t.x[i])])

\* _unpack_scalar, _unpack_vector: where each element of the buffer goes.
CpuTargets(t) ==
  LET To(c, spec) == Points(c, spec, spec.unpack).flat
  IN  FlattenSeq([i \in DOMAIN t.x |-> To("x", t.x[i]) \o
                    (IF IsVector(t) THEN To("y", t.y[i]) ELSE <<>>)])

-----------------------------------------------------------------------------
(* The arrays of indices.                                                  *)

Lookup(spec, slices, rotate) == [spec |-> spec, slices |-> slices, rotate |-> rotate]

\* Faulty variant: the rotation is left out of the key.
Bug_Key(l) == <<l.slices, l.spec.shape, l.spec.strides, l.spec.itemsize>>

Key(l) == <<l.slices, l.spec.rotation, l.spec.shape, l.spec.strides, l.spec.itemsize>>

_build_flatten_indices(l) ==
  LET indices == Addresses(l.spec, l.slices)
  IN  IF l.rotate THEN rotate_scalar_data(indices, l.spec.dims, - l.spec.rotation).flat
                  ELSE indices.flat

\* _flatten_indices: an array is built the first time its key is asked for.
_flatten_indices(c, l) ==
  IF Key(l) \in DOMAIN c THEN c ELSE (Key(l) :> _build_flatten_indices(l)) @@ c

\* What HaloDataTransformerGPU._compile asks for.
Lookups(t) ==
  LET Of(spec) == <<Lookup(spec, spec.pack, TRUE), Lookup(spec, spec.unpack, FALSE)>>
  IN  FlattenSeq([i \in DOMAIN t.x |-> Of(t.x[i]) \o
                    (IF IsVector(t) THEN Of(t.y[i]) ELSE <<>>)])

Init == INDICES_CACHE = << >> /\ compiled = {}

_compile(t) ==
  /\ Cardinality(compiled) < MaxCompiled
  /\ t \notin compiled
  /\ INDICES_CACHE' = FoldLeft(_flatten_indices, INDICES_CACHE, Lookups(t))
  /\ compiled' = compiled \union {t}

Next == \E t \in Transformers : _compile(t)

Spec == Init /\ [][Next]_vars

-----------------------------------------------------------------------------
(* The kernels (ndsl/halo/cuda_kernels.py), which run once for each thread *)
(* of a grid of blocks of 128.                                             *)

SendIndices(spec) == INDICES_CACHE[Key(Lookup(spec, spec.pack, TRUE))]
RecvIndices(spec) == INDICES_CACHE[Key(Lookup(spec, spec.unpack, FALSE))]

Threads(size) == 0..(128 * ((size \div 128) + 1) - 1)

\* The elements that threads below size write, in the order of the buffer.
Gathered(size, ElementOf) == [k \in {tid + 1 : tid \in {i \in Threads(size) : i < size}} |-> ElementOf[k]]

Through(c, indices, sign) ==
  [k \in DOMAIN indices |-> [c |-> c, at |-> indices[k], sign |-> sign]]

pack_scalar(spec) ==
  Gathered(_slices_size(spec.pack), Through("x", SendIndices(spec), 1))

pack_vector(sx, sy) ==
  LET i_rotate == (- sx.rotation) % 4
      x(sign) == Through("x", SendIndices(sx), sign)
      y(sign) == Through("y", SendIndices(sy), sign)
  IN  Gathered(_slices_size(sx.pack) + _slices_size(sy.pack),
        CASE i_rotate = 0 -> x(1) \o y(1)
          [] i_rotate = 1 -> y(1) \o x(-1)
          [] i_rotate = 2 -> x(-1) \o y(-1)
          [] i_rotate = 3 -> y(-1) \o x(1))

GpuPacked(t) ==
  FlattenSeq([i \in DOMAIN t.x |-> IF IsVector(t) THEN pack_vector(t.x[i], t.y[i])
                                                  ELSE pack_scalar(t.x[i])])

unpack_scalar(spec) ==
  Gathered(_slices_size(spec.unpack), Through("x", RecvIndices(spec), 1))

unpack_vector(sx, sy) ==
  Gathered(_slices_size(sx.unpack) + _slices_size(sy.unpack),
           Through("x", RecvIndices(sx), 1) \o Through("y", RecvIndices(sy), 1))

GpuTargets(t) ==
  FlattenSeq([i \in DOMAIN t.x |-> IF IsVector(t) THEN unpack_vector(t.x[i], t.y[i])
                                                  ELSE unpack_scalar(t.x[i])])

-----------------------------------------------------------------------------
(* Properties.                                                             *)

(***************************************************************************)
(* The kernels lay out a message, and put a message in place, as the numpy *)
(* code does: same points, same order, same signs, whatever transformers   *)
(* were created before and left arrays of indices in the cache.            *)
(***************************************************************************)
CopiesAsCpu ==
  \A t \in compiled : GpuPacked(t) = CpuPacked(t) /\ GpuTargets(t) = CpuTargets(t)
=============================================================================
