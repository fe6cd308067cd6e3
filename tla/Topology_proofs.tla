-------------------------- MODULE Topology_proofs ---------------------------
(***************************************************************************)
(* The boundaries that the partitioner gives the ranks fit together, for   *)
(* every layout of the cubed sphere and of the periodic tile (module       *)
(* Partitioner, as MCExchanges has it in its two exchanges).               *)
(*                                                                         *)
(* A rank is a tile, a row and a column (RankAt), and the arithmetic of    *)
(* the code finds them again (Coordinates).  The edges and corners of the  *)
(* code, written with them, are a relation between two places (CubeMeets,  *)
(* TileMeets), in which no place meets itself or another one twice, and    *)
(* which has a way back, turned the other way.  Rows and columns change    *)
(* their roles at a turning edge, so each fact is a matter of the sides,   *)
(* of whether the tile is even, and of tile numbers modulo six.            *)
(***************************************************************************)
EXTENDS MCExchanges, Sequences, Functions, TLAPS

-----------------------------------------------------------------------------
(* A rank has a tile, a row and a column.                                  *)

Lay == (Nat \ {0}) \X (Nat \ {0})
Rows(lay) == 0..(lay[1] - 1)
Columns(lay) == 0..(lay[2] - 1)
RankAt(lay, t, j, i) == t * (lay[1] * lay[2]) + (j * lay[2] + i)

\* Quotient and remainder are the only ones.
LEMMA DivUnique ==
  ASSUME NEW a \in Int, NEW b \in Nat \ {0}, NEW q \in Int, NEW r \in 0..(b - 1), a = q * b + r
  PROVE  a \div b = q /\ a % b = r
<1>1. PICK d, m : d = a \div b /\ m = a % b
  OBVIOUS
<1>2. d \in Int /\ m \in 0..(b - 1) /\ a = b * d + m
  BY <1>1
<1>3. (q - d) * b = m - r
  BY <1>2, Z3
<1>4. ASSUME q - d >= 1 PROVE FALSE
  <2>1. (q - d) * b >= b
    BY <1>2, <1>4, Z3
  <2> QED
    BY <1>2, <1>3, <2>1
<1>5. ASSUME q - d <= -1 PROVE FALSE
  <2>1. (q - d) * b <= - b
    BY <1>2, <1>5, Z3
  <2> QED
    BY <1>2, <1>3, <2>1
<1>6. q = d
  BY <1>2, <1>4, <1>5
<1> QED
  BY <1>1, <1>2, <1>6, Z3

\* A layout is two positive numbers.
LEMMA LayFacts ==
  ASSUME NEW lay \in Lay
  PROVE  /\ lay[1] \in Nat \ {0} /\ lay[2] \in Nat \ {0} /\ lay = <<lay[1], lay[2]>>
         /\ lay[1] * lay[2] \in Nat \ {0}
<1>1. lay[1] \in Nat \ {0} /\ lay[2] \in Nat \ {0} /\ lay = <<lay[1], lay[2]>>
  BY DEF Lay
<1> QED
  BY <1>1, Z3

\* The code finds tile, row and column.
LEMMA Coordinates ==
  ASSUME NEW lay \in Lay, NEW t \in Int, NEW j \in Rows(lay), NEW i \in Columns(lay),
         NEW r, r = RankAt(lay, t, j, i)
  PROVE  /\ r \in Int
         /\ r \div Halos!tile_ranks(lay) = t
         /\ Halos!subtile_index(lay, r) = [j |-> j, i |-> i]
<1>1. PICK R, C, m, w : R = lay[1] /\ C = lay[2] /\ m = R * C /\ w = j * C + i
  OBVIOUS
<1>2. R \in Nat \ {0} /\ C \in Nat \ {0} /\ m \in Nat \ {0} /\ j \in 0..(R - 1) /\ i \in 0..(C - 1)
  BY <1>1, LayFacts DEF Rows, Columns
<1>3. w \in 0..(m - 1)
  <2>1. j * C \in Nat /\ j * C <= (R - 1) * C
    BY <1>2, Z3
  <2>2. (R - 1) * C = m - C
    BY <1>1, <1>2, Z3
  <2> QED
    BY <1>1, <1>2, <2>1, <2>2
<1>4. r = t * m + w
  BY <1>1 DEF RankAt
<1>5. r \in Int
  BY <1>2, <1>3, <1>4, Z3
<1>6. r \div m = t /\ r % m = w
  BY <1>2, <1>3, <1>4, <1>5, DivUnique
<1>7. w \div C = j /\ w % C = i
  <2>1. w \in Int /\ j \in Int
    BY <1>2, <1>3
  <2> QED
    BY <1>1, <1>2, <2>1, DivUnique
<1> QED
  BY <1>1, <1>5, <1>6, <1>7 DEF Halos!tile_ranks, Halos!subtile_index

\* Different places have different ranks.
LEMMA SameRank ==
  ASSUME NEW lay \in Lay, NEW t \in Int, NEW j \in Rows(lay), NEW i \in Columns(lay),
         NEW u \in Int, NEW k \in Rows(lay), NEW l \in Columns(lay),
         RankAt(lay, t, j, i) = RankAt(lay, u, k, l)
  PROVE  t = u /\ j = k /\ i = l
<1>1. PICK r : r = RankAt(lay, t, j, i) /\ r = RankAt(lay, u, k, l)
  OBVIOUS
<1>2. /\ t = r \div Halos!tile_ranks(lay) /\ u = r \div Halos!tile_ranks(lay)
      /\ Halos!subtile_index(lay, r) = [j |-> j, i |-> i]
      /\ Halos!subtile_index(lay, r) = [j |-> k, i |-> l]
  BY <1>1, Coordinates
<1> QED
  BY <1>2

\* Every rank has coordinates.
LEMMA EveryRank ==
  ASSUME NEW lay \in Lay, NEW count \in Nat \ {0}, NEW r \in 0..(count * (lay[1] * lay[2]) - 1)
  PROVE  \E t \in 0..(count - 1), j \in Rows(lay), i \in Columns(lay) : r = RankAt(lay, t, j, i)
<1>1. PICK R, C, m : R = lay[1] /\ C = lay[2] /\ m = R * C
  OBVIOUS
<1>2. R \in Nat \ {0} /\ C \in Nat \ {0} /\ m \in Nat \ {0} /\ r \in 0..(count * m - 1) /\ count * m \in Nat
  <2>1. R \in Nat \ {0} /\ C \in Nat \ {0} /\ m \in Nat \ {0}
    BY <1>1, LayFacts
  <2>2. count * m \in Nat
    BY <2>1, Z3
  <2> QED
    BY <1>1, <2>1, <2>2
<1>3. PICK t, w : t = r \div m /\ w = r % m
  OBVIOUS
<1>4. r \in Int /\ t \in Int /\ w \in 0..(m - 1) /\ r = m * t + w
  BY <1>2, <1>3
<1>5. t \in 0..(count - 1)
  <2>1. ASSUME t <= -1 PROVE FALSE
    <3>1. m * t <= - m
      BY <1>2, <1>4, <2>1, Z3
    <3> QED
      BY <1>2, <1>4, <3>1
  <2>2. ASSUME t >= count PROVE FALSE
    <3>1. m * t >= count * m
      BY <1>2, <1>4, <2>2, Z3
    <3> QED
      BY <1>2, <1>4, <3>1
  <2> QED
    BY <1>4, <2>1, <2>2
<1>6. PICK j, i : j = w \div C /\ i = w % C
  OBVIOUS
<1>7. j \in Int /\ i \in 0..(C - 1) /\ w = C * j + i
  BY <1>2, <1>4, <1>6
<1>8. j \in 0..(R - 1)
  <2>1. ASSUME j <= -1 PROVE FALSE
    <3>1. C * j <= - C
      BY <1>2, <1>7, <2>1, Z3
    <3> QED
      BY <1>2, <1>4, <1>7, <3>1
  <2>2. ASSUME j >= R PROVE FALSE
    <3>1. C * j >= m
      BY <1>1, <1>2, <1>7, <2>2, Z3
    <3> QED
      BY <1>2, <1>4, <1>7, <3>1
  <2> QED
    BY <1>2, <1>7, <2>1, <2>2
<1>9. r = RankAt(lay, t, j, i)
  <2>1. m * t = t * m /\ C * j = j * C
    BY <1>2, <1>4, <1>7, Z3
  <2> QED
    BY <1>1, <1>2, <1>4, <1>7, <2>1 DEF RankAt
<1> QED
  BY <1>1, <1>5, <1>7, <1>8, <1>9 DEF Rows, Columns

-----------------------------------------------------------------------------
(* The edges, by coordinates.                                              *)

At(lay, t, j, i, rot) == Halos!Boundary(RankAt(lay, t, j, i), rot)

\* The sides of its tile that a rank is on.
LEMMA OnTile ==
  ASSUME NEW lay \in Lay, NEW t \in Int, NEW j \in Rows(lay), NEW i \in Columns(lay),
         NEW r, r = RankAt(lay, t, j, i)
  PROVE  /\ Halos!on_tile_left(lay, r) <=> i = 0
         /\ Halos!on_tile_right(lay, r) <=> i = lay[2] - 1
         /\ Halos!on_tile_bottom(lay, r) <=> j = 0
         /\ Halos!on_tile_top(lay, r) <=> j = lay[1] - 1
<1>1. Halos!subtile_index(lay, r) = [j |-> j, i |-> i]
  BY Coordinates
<1> QED
  BY <1>1 DEF Halos!on_tile_left, Halos!on_tile_right, Halos!on_tile_bottom, Halos!on_tile_top

\* The four edges within a tile, that wrap around.
TileEdgesAt(lay, t, j, i, r, R, C) ==
  /\ Halos!tile_left(lay, r)   = IF i = 0 THEN At(lay, t, j, C - 1, 0) ELSE At(lay, t, j, i - 1, 0)
  /\ Halos!tile_right(lay, r)  = IF i = C - 1 THEN At(lay, t, j, 0, 0) ELSE At(lay, t, j, i + 1, 0)
  /\ Halos!tile_bottom(lay, r) = IF j = 0 THEN At(lay, t, R - 1, i, 0) ELSE At(lay, t, j - 1, i, 0)
  /\ Halos!tile_top(lay, r)    = IF j = R - 1 THEN At(lay, t, 0, i, 0) ELSE At(lay, t, j + 1, i, 0)

LEMMA TileEdges ==
  ASSUME NEW R \in Nat \ {0}, NEW C \in Nat \ {0}, NEW lay \in Lay, lay[1] = R, lay[2] = C,
         NEW t \in Int, NEW j \in 0..(R - 1), NEW i \in 0..(C - 1),
         NEW r, r = RankAt(lay, t, j, i)
  PROVE  TileEdgesAt(lay, t, j, i, r, R, C)
<1>1. R = lay[1] /\ C = lay[2] /\ j \in Rows(lay) /\ i \in Columns(lay)
  BY DEF Rows, Columns
<1>2. R \in Nat \ {0} /\ C \in Nat \ {0} /\ j \in 0..(R - 1) /\ i \in 0..(C - 1)
  OBVIOUS
<1>3. PICK p : p = t * (R * C) /\ p \in Int
  BY <1>2, Z3
<1>4. PICK w : w = j * C /\ w \in Int
  BY <1>2, Z3
<1>5. r = p + (w + i) /\ \A k, l : RankAt(lay, t, k, l) = p + (k * C + l)
  BY <1>1, <1>3, <1>4 DEF RankAt
<1>6. /\ (j + 1) * C = w + C /\ (j - 1) * C = w - C /\ 0 * C = 0
      /\ (R - 1) * C \in Int
  BY <1>2, <1>4, Z3
<1>13. /\ Halos!on_tile_left(lay, r) <=> i = 0
       /\ Halos!on_tile_right(lay, r) <=> i = C - 1
       /\ Halos!on_tile_bottom(lay, r) <=> j = 0
       /\ Halos!on_tile_top(lay, r) <=> j = R - 1
  BY <1>1, OnTile
<1>7. j = R - 1 => w = (R - 1) * C
  BY <1>4
<1>8. j = 0 => w = 0
  BY <1>4, <1>6
<1>9. Halos!tile_left(lay, r)   = IF i = 0 THEN At(lay, t, j, C - 1, 0) ELSE At(lay, t, j, i - 1, 0)
  <2>1. CASE i = 0
    <3>1. r + C - 1 = p + (j * C + (C - 1))
      BY <1>2, <1>3, <1>4, <1>5, <2>1
    <3> QED
      BY <1>1, <1>5, <2>1, <3>1, <1>13 DEF Halos!tile_left, At
  <2>2. CASE i # 0
    <3>1. r - 1 = p + (j * C + (i - 1))
      BY <1>2, <1>3, <1>4, <1>5
    <3> QED
      BY <1>1, <1>5, <2>2, <3>1, <1>13 DEF Halos!tile_left, At
  <2> QED
    BY <2>1, <2>2
<1>10. Halos!tile_right(lay, r)  = IF i = C - 1 THEN At(lay, t, j, 0, 0) ELSE At(lay, t, j, i + 1, 0)
  <2>1. CASE i = C - 1
    <3>1. r - C + 1 = p + (j * C + 0)
      BY <1>2, <1>3, <1>4, <1>5, <2>1
    <3> QED
      BY <1>1, <1>5, <2>1, <3>1, <1>13 DEF Halos!tile_right, At
  <2>2. CASE i # C - 1
    <3>1. r + 1 = p + (j * C + (i + 1))
      BY <1>2, <1>3, <1>4, <1>5
    <3> QED
      BY <1>1, <1>5, <2>2, <3>1, <1>13 DEF Halos!tile_right, At
  <2> QED
    BY <2>1, <2>2
<1>11. Halos!tile_bottom(lay, r) = IF j = 0 THEN At(lay, t, R - 1, i, 0) ELSE At(lay, t, j - 1, i, 0)
  <2>1. CASE j = 0
    <3>1. r + (R - 1) * C = p + ((R - 1) * C + i)
      BY <1>2, <1>3, <1>4, <1>5, <1>6, <1>8, <2>1
    <3> QED
      BY <1>1, <1>5, <2>1, <3>1, <1>13 DEF Halos!tile_bottom, At
  <2>2. CASE j # 0
    <3>1. r - C = p + ((j - 1) * C + i)
      BY <1>2, <1>3, <1>4, <1>5, <1>6
    <3> QED
      BY <1>1, <1>5, <2>2, <3>1, <1>13 DEF Halos!tile_bottom, At
  <2> QED
    BY <2>1, <2>2
<1>12. Halos!tile_top(lay, r)    = IF j = R - 1 THEN At(lay, t, 0, i, 0) ELSE At(lay, t, j + 1, i, 0)
  <2>1. CASE j = R - 1
    <3>1. r - (R - 1) * C = p + (0 * C + i)
      BY <1>2, <1>3, <1>4, <1>5, <1>6, <1>7, <2>1
    <3> QED
      BY <1>1, <1>5, <2>1, <3>1, <1>13 DEF Halos!tile_top, At
  <2>2. CASE j # R - 1
    <3>1. r + C = p + ((j + 1) * C + i)
      BY <1>2, <1>3, <1>4, <1>5, <1>6
    <3> QED
      BY <1>1, <1>5, <2>2, <3>1, <1>13 DEF Halos!tile_top, At
  <2> QED
    BY <2>1, <2>2
<1> QED
  BY <1>1, <1>9, <1>10, <1>11, <1>12 DEF TileEdgesAt

-----------------------------------------------------------------------------
(* The cubed sphere: square layouts, and any tile number before it is      *)
(* taken modulo six.                                                       *)

\* On a square layout rows and columns have one range.
LEMMA SquareFacts ==
  ASSUME NEW n \in Nat \ {0}, NEW lay \in Lay, lay[1] = n, lay[2] = n
  PROVE  /\ n \in Nat \ {0} /\ n * n \in Nat \ {0} /\ Halos!tile_ranks(lay) = n * n
         /\ Rows(lay) = 0..(n - 1) /\ Columns(lay) = 0..(n - 1)
BY LayFacts DEF Rows, Columns, Halos!tile_ranks

\* The same place of a tile before or after.
LEMMA TilesAway ==
  ASSUME NEW n \in Nat \ {0}, NEW lay \in Lay, lay[1] = n, lay[2] = n, NEW t \in Int,
         NEW j \in 0..(n - 1), NEW i \in 0..(n - 1),
         NEW m, m = Halos!tile_ranks(lay), NEW r, r = RankAt(lay, t, j, i)
  PROVE  /\ r - m = RankAt(lay, t - 1, j, i) /\ r + m = RankAt(lay, t + 1, j, i)
         /\ r - 2 * m = RankAt(lay, t - 2, j, i) /\ r + 2 * m = RankAt(lay, t + 2, j, i)
         /\ r \in Int /\ m \in Nat \ {0}
<1>1. PICK w : w = j * lay[2] + i
  OBVIOUS
<1>2. m = lay[1] * lay[2] /\ m \in Nat \ {0}
  BY LayFacts DEF Halos!tile_ranks
<1>3. j * lay[2] \in Int
  BY Z3
<1>4. w \in Int
  BY <1>1, <1>3
<1>5. \A u : RankAt(lay, u, j, i) = u * m + w
  BY <1>1, <1>2 DEF RankAt
<1>6. PICK p : p = t * m
  OBVIOUS
<1>7. p \in Int /\ r = p + w
  <2>1. t * m \in Int
    BY <1>2, Z3
  <2> QED
    BY <1>5, <1>6, <2>1
<1>8. /\ (t - 1) * m = p - m /\ (t + 1) * m = p + m
      /\ (t - 2) * m = p - 2 * m /\ (t + 2) * m = p + 2 * m
  BY <1>2, <1>6, Z3
<1>9. /\ RankAt(lay, t - 1, j, i) = (t - 1) * m + w /\ RankAt(lay, t + 1, j, i) = (t + 1) * m + w
      /\ RankAt(lay, t - 2, j, i) = (t - 2) * m + w /\ RankAt(lay, t + 2, j, i) = (t + 2) * m + w
  BY <1>5
<1>10. PICK d : d = 2 * m
  OBVIOUS
<1>11. /\ RankAt(lay, t - 1, j, i) = p - m + w /\ RankAt(lay, t + 1, j, i) = p + m + w
       /\ RankAt(lay, t - 2, j, i) = p - d + w /\ RankAt(lay, t + 2, j, i) = p + d + w
       /\ d \in Int
  BY <1>2, <1>8, <1>9, <1>10
<1>12. r - m = p - m + w /\ r + m = p + m + w /\ r - d = p - d + w /\ r + d = p + d + w /\ r \in Int
  BY <1>2, <1>4, <1>7, <1>11
<1> QED
  BY <1>2, <1>10, <1>11, <1>12

\* Moved shifts a boundary to the next or the previous tile.
LEMMA MovedAt ==
  ASSUME NEW n \in Nat \ {0}, NEW lay \in Lay, lay[1] = n, lay[2] = n, NEW t \in Int,
         NEW j \in 0..(n - 1), NEW i \in 0..(n - 1),
         NEW m, m = Halos!tile_ranks(lay), NEW rot
  PROVE  /\ Halos!Moved(At(lay, t, j, i, rot), m) = At(lay, t + 1, j, i, rot)
         /\ Halos!Moved(At(lay, t, j, i, rot), - m) = At(lay, t - 1, j, i, rot)
<1>1. PICK r : r = RankAt(lay, t, j, i)
  OBVIOUS
<1>2. /\ r + m = RankAt(lay, t + 1, j, i) /\ r - m = RankAt(lay, t - 1, j, i)
      /\ m \in Nat \ {0} /\ r \in Int
  BY <1>1, TilesAway
<1>3. r + (- m) = r - m
  BY <1>2
<1> QED
  BY <1>1, <1>2, <1>3 DEF At, Halos!Moved, Halos!Boundary

\* A quarter turn and a flip exchange rows and columns, and reverse both.
LEMMA TurnedAt ==
  ASSUME NEW n \in Nat \ {0}, NEW lay \in Lay, lay[1] = n, lay[2] = n, NEW t \in Int,
         NEW j \in 0..(n - 1), NEW i \in 0..(n - 1), NEW r, r = RankAt(lay, t, j, i)
  PROVE  Halos!Turned(lay, r) = (n - 1 - i) * n + (n - 1 - j)
<1>1. n \in Nat \ {0} /\ lay[1] = n /\ lay[2] = n /\ j \in Rows(lay) /\ i \in Columns(lay)
  BY SquareFacts
<1>2. PICK w : w = r % Halos!tile_ranks(lay)
  OBVIOUS
<1>3. n * n \in Nat \ {0} /\ j * n \in Int /\ (n - 1 - i) * n \in Int /\ 0 * (n * n) = 0
  BY <1>1, Z3
<1>4. \A k, l : RankAt(lay, 0, k, l) = 0 * (n * n) + (k * n + l)
  BY <1>1 DEF RankAt
<1>5. w = RankAt(lay, 0, j, i)
  <2>1. r \in Int /\ r \div (n * n) = t
    BY <1>1, Coordinates DEF Halos!tile_ranks
  <2>2. PICK b : b = n * n
    OBVIOUS
  <2>8. b \in Nat \ {0}
    BY <1>3, <2>2
  <2>9. r = b * (r \div b) + (r % b) /\ r % b \in Int
    BY <2>1, <2>8
  <2>3. r = (n * n) * t + (r % (n * n)) /\ r % (n * n) \in Int
    BY <2>1, <2>2, <2>9
  <2>4. w = r % (n * n)
    BY <1>1, <1>2 DEF Halos!tile_ranks
  <2>5. r = t * (n * n) + (j * n + i)
    BY <1>1 DEF RankAt
  <2>6. (n * n) * t = t * (n * n) /\ t * (n * n) \in Int
    BY <1>3, Z3
  <2>7. w = j * n + i
    BY <1>3, <2>3, <2>4, <2>5, <2>6
  <2> QED
    BY <1>3, <1>4, <2>7
<1>6. Halos!subtile_index(lay, w) = [j |-> j, i |-> i]
  BY <1>1, <1>5, Coordinates
<1>7. PICK q : q = Halos!rotate_subtile_rank(lay, w)
  OBVIOUS
<1>8. q = RankAt(lay, 0, n - 1 - i, j)
  <2>1. q = n * (n - 1 - i) + j
    BY <1>1, <1>6, <1>7 DEF Halos!rotate_subtile_rank
  <2>2. n * (n - 1 - i) = (n - 1 - i) * n
    BY <1>1, Z3
  <2> QED
    BY <1>3, <1>4, <2>1, <2>2
<1>9. Halos!subtile_index(lay, q) = [j |-> n - 1 - i, i |-> j]
  <2>1. n - 1 - i \in Rows(lay) /\ j \in Columns(lay)
    BY SquareFacts
  <2> QED
    BY <1>1, <1>8, <2>1, Coordinates
<1>10. Halos!Turned(lay, r) = n * (n - 1 - i) + n - 1 - j
  BY <1>1, <1>2, <1>7, <1>9 DEF Halos!Turned, Halos!fliplr_subtile_rank
<1>11. n * (n - 1 - i) = (n - 1 - i) * n
  BY <1>1, Z3
<1> QED
  BY <1>3, <1>10, <1>11

\* Beyond a turning edge, the row and the column of the rank are the other
\* way round, and reversed.
TurnsAt(lay, t, j, i, r, n) ==
  /\ Halos!tile_root_rank(lay, r - 2 * Halos!tile_ranks(lay)) + Halos!Turned(lay, r)
       = RankAt(lay, t - 2, n - 1 - i, n - 1 - j)
  /\ Halos!tile_root_rank(lay, r + 2 * Halos!tile_ranks(lay)) + Halos!Turned(lay, r)
       = RankAt(lay, t + 2, n - 1 - i, n - 1 - j)
  /\ (Halos!tile_index(lay, r) + 2) * Halos!tile_ranks(lay) + Halos!Turned(lay, r)
       = RankAt(lay, t + 2, n - 1 - i, n - 1 - j)
  /\ (Halos!tile_index(lay, r) - 2) * Halos!tile_ranks(lay) + Halos!Turned(lay, r)
       = RankAt(lay, t - 2, n - 1 - i, n - 1 - j)
  /\ Halos!EvenTile(lay, r) <=> t % 2 = 0

LEMMA TurnsTo ==
  ASSUME NEW n \in Nat \ {0}, NEW lay \in Lay, lay[1] = n, lay[2] = n, NEW t \in Int,
         NEW j \in 0..(n - 1), NEW i \in 0..(n - 1), NEW r, r = RankAt(lay, t, j, i)
  PROVE  TurnsAt(lay, t, j, i, r, n)
<1>1. n \in Nat \ {0} /\ lay[1] = n /\ lay[2] = n /\ j \in Rows(lay) /\ i \in Columns(lay)
  BY SquareFacts
<1>2. PICK m, z : m = Halos!tile_ranks(lay) /\ z = Halos!Turned(lay, r)
  OBVIOUS
<1>3. m = n * n /\ m \in Nat \ {0}
  <2>1. n * n \in Nat \ {0}
    BY <1>1, Z3
  <2> QED
    BY <1>1, <1>2, <2>1 DEF Halos!tile_ranks
<1>4. z = (n - 1 - i) * n + (n - 1 - j)
  BY <1>2, TurnedAt
<1>5. \A u : RankAt(lay, u, n - 1 - i, n - 1 - j) = u * m + z
  BY <1>1, <1>3, <1>4 DEF RankAt
<1>6. r \div m = t /\ r \in Int
  BY <1>1, <1>2, Coordinates
<1>7. PICK p, q : p = r - 2 * m /\ q = r + 2 * m
  OBVIOUS
<1>8. p \div m = t - 2 /\ q \div m = t + 2
  <2>1. p = RankAt(lay, t - 2, j, i) /\ q = RankAt(lay, t + 2, j, i)
    BY <1>1, <1>2, <1>7, TilesAway
  <2>2. PICK u, v : u = t - 2 /\ v = t + 2
    OBVIOUS
  <2>3. u \in Int /\ v \in Int
    BY <2>2
  <2>4. p \div m = u /\ q \div m = v
    BY <1>1, <1>2, <2>1, <2>2, <2>3, Coordinates
  <2> QED
    BY <2>2, <2>4
<1>9. m * (t - 2) = (t - 2) * m /\ m * (t + 2) = (t + 2) * m
  BY <1>3, Z3
<1>10. Halos!tile_root_rank(lay, p) = (t - 2) * m /\ Halos!tile_root_rank(lay, q) = (t + 2) * m
  BY <1>2, <1>8, <1>9 DEF Halos!tile_root_rank
<1>11. Halos!tile_index(lay, r) = t
  BY <1>2, <1>6 DEF Halos!tile_index
<1>12. Halos!EvenTile(lay, r) <=> t % 2 = 0
  BY <1>11 DEF Halos!EvenTile, Halos!is_even
<1> QED
  BY <1>2, <1>5, <1>7, <1>10, <1>11, <1>12 DEF TurnsAt

\* The four edges of a rank of the cube.
CubeEdgesAt(lay, t, j, i, r, n) ==
  /\ Halos!left_edge(lay, r) =
       IF i > 0 THEN At(lay, t, j, i - 1, 0)
       ELSE IF t % 2 = 0 THEN At(lay, t - 2, n - 1, n - 1 - j, 1)
       ELSE At(lay, t - 1, j, n - 1, 0)
  /\ Halos!right_edge(lay, r) =
       IF i < n - 1 THEN At(lay, t, j, i + 1, 0)
       ELSE IF t % 2 = 0 THEN At(lay, t + 1, j, 0, 0)
       ELSE At(lay, t + 2, 0, n - 1 - j, 1)
  /\ Halos!top_edge(lay, r) =
       IF j < n - 1 THEN At(lay, t, j + 1, i, 0)
       ELSE IF t % 2 = 0 THEN At(lay, t + 2, n - 1 - i, 0, 3)
       ELSE At(lay, t + 1, 0, i, 0)
  /\ Halos!bottom_edge(lay, r) =
       IF j > 0 THEN At(lay, t, j - 1, i, 0)
       ELSE IF t % 2 = 0 THEN At(lay, t - 1, n - 1, i, 0)
       ELSE At(lay, t - 2, n - 1 - i, n - 1, 3)

LEMMA CubeEdges ==
  ASSUME NEW n \in Nat \ {0}, NEW lay \in Lay, lay[1] = n, lay[2] = n, NEW t \in Int,
         NEW j \in 0..(n - 1), NEW i \in 0..(n - 1), NEW r, r = RankAt(lay, t, j, i)
  PROVE  CubeEdgesAt(lay, t, j, i, r, n)
<1>1. /\ n \in Nat \ {0} /\ lay[1] = n /\ lay[2] = n /\ j \in Rows(lay) /\ i \in Columns(lay)
      /\ Rows(lay) = 0..(n - 1) /\ Columns(lay) = 0..(n - 1)
  BY SquareFacts
<1>2. PICK m : m = Halos!tile_ranks(lay)
  OBVIOUS
<1>3. /\ Halos!on_tile_left(lay, r) <=> i = 0
      /\ Halos!on_tile_right(lay, r) <=> i = n - 1
      /\ Halos!on_tile_bottom(lay, r) <=> j = 0
      /\ Halos!on_tile_top(lay, r) <=> j = n - 1
  BY <1>1, OnTile
<1>4. /\ Halos!tile_left(lay, r)   = IF i = 0 THEN At(lay, t, j, n - 1, 0) ELSE At(lay, t, j, i - 1, 0)
      /\ Halos!tile_right(lay, r)  = IF i = n - 1 THEN At(lay, t, j, 0, 0) ELSE At(lay, t, j, i + 1, 0)
      /\ Halos!tile_bottom(lay, r) = IF j = 0 THEN At(lay, t, n - 1, i, 0) ELSE At(lay, t, j - 1, i, 0)
      /\ Halos!tile_top(lay, r)    = IF j = n - 1 THEN At(lay, t, 0, i, 0) ELSE At(lay, t, j + 1, i, 0)
  <2>1. TileEdgesAt(lay, t, j, i, r, n, n)
    BY <1>1, TileEdges
  <2> QED
    BY <2>1 DEF TileEdgesAt
<1>5. /\ Halos!EvenTile(lay, r) <=> t % 2 = 0
      /\ Halos!Boundary(Halos!tile_root_rank(lay, r - 2 * Halos!tile_ranks(lay)) + Halos!Turned(lay, r), 1)
           = At(lay, t - 2, n - 1 - i, n - 1 - j, 1)
      /\ Halos!Boundary(Halos!tile_root_rank(lay, r + 2 * Halos!tile_ranks(lay)) + Halos!Turned(lay, r), 1)
           = At(lay, t + 2, n - 1 - i, n - 1 - j, 1)
      /\ Halos!Boundary((Halos!tile_index(lay, r) + 2) * Halos!tile_ranks(lay) + Halos!Turned(lay, r), 3)
           = At(lay, t + 2, n - 1 - i, n - 1 - j, 3)
      /\ Halos!Boundary((Halos!tile_index(lay, r) - 2) * Halos!tile_ranks(lay) + Halos!Turned(lay, r), 3)
           = At(lay, t - 2, n - 1 - i, n - 1 - j, 3)
  <2>1. PICK root1, root2, index1, index2, turned, there1, there2 :
          /\ root1 = Halos!tile_root_rank(lay, r - 2 * Halos!tile_ranks(lay))
          /\ root2 = Halos!tile_root_rank(lay, r + 2 * Halos!tile_ranks(lay))
          /\ index1 = (Halos!tile_index(lay, r) + 2) * Halos!tile_ranks(lay)
          /\ index2 = (Halos!tile_index(lay, r) - 2) * Halos!tile_ranks(lay)
          /\ turned = Halos!Turned(lay, r)
          /\ there1 = RankAt(lay, t - 2, n - 1 - i, n - 1 - j)
          /\ there2 = RankAt(lay, t + 2, n - 1 - i, n - 1 - j)
    OBVIOUS
  <2>2. /\ root1 + turned = there1 /\ root2 + turned = there2
        /\ index1 + turned = there2 /\ index2 + turned = there1
        /\ Halos!EvenTile(lay, r) <=> t % 2 = 0
    <3>1. TurnsAt(lay, t, j, i, r, n)
      BY <1>1, TurnsTo
    <3> QED
      BY <2>1, <3>1 DEF TurnsAt
  <2> QED
    BY <2>1, <2>2 DEF At
<1>6. /\ Halos!Moved(At(lay, t, j, n - 1, 0), - m) = At(lay, t - 1, j, n - 1, 0)
      /\ Halos!Moved(At(lay, t, j, 0, 0), m) = At(lay, t + 1, j, 0, 0)
      /\ Halos!Moved(At(lay, t, 0, i, 0), m) = At(lay, t + 1, 0, i, 0)
      /\ Halos!Moved(At(lay, t, n - 1, i, 0), - m) = At(lay, t - 1, n - 1, i, 0)
  <2>1. PICK o, l : o = 0 /\ l = n - 1
    OBVIOUS
  <2>2. o \in Rows(lay) /\ o \in Columns(lay) /\ l \in Rows(lay) /\ l \in Columns(lay)
    BY <1>1, <2>1
  <2>3. /\ Halos!Moved(At(lay, t, j, l, 0), - m) = At(lay, t - 1, j, l, 0)
        /\ Halos!Moved(At(lay, t, j, o, 0), m) = At(lay, t + 1, j, o, 0)
        /\ Halos!Moved(At(lay, t, o, i, 0), m) = At(lay, t + 1, o, i, 0)
        /\ Halos!Moved(At(lay, t, l, i, 0), - m) = At(lay, t - 1, l, i, 0)
    BY <1>1, <1>2, <2>2, MovedAt
  <2> QED
    BY <2>1, <2>3
<1>7. /\ n - 1 - 0 = n - 1 /\ n - 1 - (n - 1) = 0
      /\ (i > 0 <=> i # 0) /\ (j > 0 <=> j # 0)
      /\ (i < n - 1 <=> i # n - 1) /\ (j < n - 1 <=> j # n - 1)
  OBVIOUS
<1>8. Halos!left_edge(lay, r) =
        IF i > 0 THEN At(lay, t, j, i - 1, 0)
        ELSE IF t % 2 = 0 THEN At(lay, t - 2, n - 1, n - 1 - j, 1)
        ELSE At(lay, t - 1, j, n - 1, 0)
  <2>1. CASE i # 0
    BY <1>3, <1>4, <1>7, <2>1 DEF Halos!left_edge
  <2>2. CASE i = 0
    BY <1>2, <1>3, <1>4, <1>5, <1>6, <1>7, <2>2, Zenon DEF Halos!left_edge
  <2> QED
    BY <2>1, <2>2
<1>9. Halos!right_edge(lay, r) =
        IF i < n - 1 THEN At(lay, t, j, i + 1, 0)
        ELSE IF t % 2 = 0 THEN At(lay, t + 1, j, 0, 0)
        ELSE At(lay, t + 2, 0, n - 1 - j, 1)
  <2>1. CASE i # n - 1
    BY <1>3, <1>4, <1>7, <2>1 DEF Halos!right_edge
  <2>2. CASE i = n - 1
    BY <1>2, <1>3, <1>4, <1>5, <1>6, <1>7, <2>2, Zenon DEF Halos!right_edge
  <2> QED
    BY <2>1, <2>2
<1>10. Halos!top_edge(lay, r) =
         IF j < n - 1 THEN At(lay, t, j + 1, i, 0)
         ELSE IF t % 2 = 0 THEN At(lay, t + 2, n - 1 - i, 0, 3)
         ELSE At(lay, t + 1, 0, i, 0)
  <2>1. CASE j # n - 1
    BY <1>3, <1>4, <1>7, <2>1 DEF Halos!top_edge
  <2>2. CASE j = n - 1
    BY <1>2, <1>3, <1>4, <1>5, <1>6, <1>7, <2>2, Zenon DEF Halos!top_edge
  <2> QED
    BY <2>1, <2>2
<1>11. Halos!bottom_edge(lay, r) =
         IF j > 0 THEN At(lay, t, j - 1, i, 0)
         ELSE IF t % 2 = 0 THEN At(lay, t - 1, n - 1, i, 0)
         ELSE At(lay, t - 2, n - 1 - i, n - 1, 3)
  <2>1. CASE j # 0
    BY <1>3, <1>4, <1>7, <2>1 DEF Halos!bottom_edge
  <2>2. CASE j = 0
    BY <1>2, <1>3, <1>4, <1>5, <1>6, <1>7, <2>2, Zenon DEF Halos!bottom_edge
  <2> QED
    BY <2>1, <2>2
<1> QED
  BY <1>8, <1>9, <1>10, <1>11 DEF CubeEdgesAt

\* From the rank beyond a first edge, over a second one.
CrossesAt(lay, t, j, i, rot, first, n) ==
  /\ Halos!Corner(first, Halos!left_edge(lay, first.to)) =
       IF i > 0 THEN At(lay, t, j, i - 1, rot)
       ELSE IF t % 2 = 0 THEN At(lay, t - 2, n - 1, n - 1 - j, rot + 1)
       ELSE At(lay, t - 1, j, n - 1, rot)
  /\ Halos!Corner(first, Halos!right_edge(lay, first.to)) =
       IF i < n - 1 THEN At(lay, t, j, i + 1, rot)
       ELSE IF t % 2 = 0 THEN At(lay, t + 1, j, 0, rot)
       ELSE At(lay, t + 2, 0, n - 1 - j, rot + 1)
  /\ Halos!Corner(first, Halos!top_edge(lay, first.to)) =
       IF j < n - 1 THEN At(lay, t, j + 1, i, rot)
       ELSE IF t % 2 = 0 THEN At(lay, t + 2, n - 1 - i, 0, rot + 3)
       ELSE At(lay, t + 1, 0, i, rot)
  /\ Halos!Corner(first, Halos!bottom_edge(lay, first.to)) =
       IF j > 0 THEN At(lay, t, j - 1, i, rot)
       ELSE IF t % 2 = 0 THEN At(lay, t - 1, n - 1, i, rot)
       ELSE At(lay, t - 2, n - 1 - i, n - 1, rot + 3)

\* What _get_corner reaches from a place.
LEMMA Crosses ==
  ASSUME NEW n \in Nat \ {0}, NEW lay \in Lay, lay[1] = n, lay[2] = n, NEW t \in Int,
         NEW j \in 0..(n - 1), NEW i \in 0..(n - 1), NEW rot \in Nat,
         NEW first, first = At(lay, t, j, i, rot)
  PROVE  CrossesAt(lay, t, j, i, rot, first, n)
<1>1. PICK r : r = RankAt(lay, t, j, i)
  OBVIOUS
<1>2. first.to = r /\ first.rot = rot
  BY <1>1 DEF At, Halos!Boundary
<1>3. CubeEdgesAt(lay, t, j, i, r, n)
  BY <1>1, CubeEdges
<1>4. \A u, k, l, more : Halos!Corner(first, At(lay, u, k, l, more)) = At(lay, u, k, l, rot + more)
  BY <1>2 DEF At, Halos!Boundary, Halos!Corner
<1>5. rot + 0 = rot
  OBVIOUS
<1>6. Halos!Corner(first, Halos!left_edge(lay, r)) =
        IF i > 0 THEN At(lay, t, j, i - 1, rot)
        ELSE IF t % 2 = 0 THEN At(lay, t - 2, n - 1, n - 1 - j, rot + 1)
        ELSE At(lay, t - 1, j, n - 1, rot)
  BY <1>2, <1>3, <1>5 DEF CubeEdgesAt, At, Halos!Boundary, Halos!Corner
<1>7. Halos!Corner(first, Halos!right_edge(lay, r)) =
        IF i < n - 1 THEN At(lay, t, j, i + 1, rot)
        ELSE IF t % 2 = 0 THEN At(lay, t + 1, j, 0, rot)
        ELSE At(lay, t + 2, 0, n - 1 - j, rot + 1)
  BY <1>2, <1>3, <1>5 DEF CubeEdgesAt, At, Halos!Boundary, Halos!Corner
<1>8. Halos!Corner(first, Halos!top_edge(lay, r)) =
        IF j < n - 1 THEN At(lay, t, j + 1, i, rot)
        ELSE IF t % 2 = 0 THEN At(lay, t + 2, n - 1 - i, 0, rot + 3)
        ELSE At(lay, t + 1, 0, i, rot)
  BY <1>2, <1>3, <1>5 DEF CubeEdgesAt, At, Halos!Boundary, Halos!Corner
<1>9. Halos!Corner(first, Halos!bottom_edge(lay, r)) =
        IF j > 0 THEN At(lay, t, j - 1, i, rot)
        ELSE IF t % 2 = 0 THEN At(lay, t - 1, n - 1, i, rot)
        ELSE At(lay, t - 2, n - 1 - i, n - 1, rot + 3)
  BY <1>2, <1>3, <1>5 DEF CubeEdgesAt, At, Halos!Boundary, Halos!Corner
<1> QED
  BY <1>2, <1>6, <1>7, <1>8, <1>9 DEF CrossesAt

-----------------------------------------------------------------------------
(* The corners, by coordinates.                                            *)

\* On which sides of its tile a rank is.
CubeSides(lay, t, j, i, r, n) ==
  /\ Halos!on_tile_left(lay, r) <=> i = 0
  /\ Halos!on_tile_right(lay, r) <=> i = n - 1
  /\ Halos!on_tile_bottom(lay, r) <=> j = 0
  /\ Halos!on_tile_top(lay, r) <=> j = n - 1
  /\ Halos!EvenTile(lay, r) <=> t % 2 = 0

LEMMA OnSides ==
  ASSUME NEW n \in Nat \ {0}, NEW lay \in Lay, lay[1] = n, lay[2] = n, NEW t \in Int,
         NEW j \in 0..(n - 1), NEW i \in 0..(n - 1), NEW r, r = RankAt(lay, t, j, i)
  PROVE  CubeSides(lay, t, j, i, r, n)
<1>1. TurnsAt(lay, t, j, i, r, n)
  BY TurnsTo
<1>2. j \in Rows(lay) /\ i \in Columns(lay)
  BY SquareFacts
<1>3. /\ Halos!on_tile_left(lay, r) <=> i = 0
      /\ Halos!on_tile_right(lay, r) <=> i = n - 1
      /\ Halos!on_tile_bottom(lay, r) <=> j = 0
      /\ Halos!on_tile_top(lay, r) <=> j = n - 1
  BY <1>2, OnTile
<1>4. Halos!EvenTile(lay, r) <=> t % 2 = 0
  BY <1>1 DEF TurnsAt
<1> QED
  BY <1>3, <1>4 DEF CubeSides

\* The top left corner: none at a vertex of the cube.
TopLeftAt(lay, t, j, i, r, n) ==
  /\ i = 0 /\ j = n - 1 => Halos!top_left_corner(lay, r) = Halos!NoBoundary
  /\ i = 0 /\ j < n - 1 /\ t % 2 = 0 => Halos!top_left_corner(lay, r) = At(lay, t - 2, n - 1, n - 2 - j, 1)
  /\ i = 0 /\ j < n - 1 /\ ~ (t % 2 = 0) => Halos!top_left_corner(lay, r) = At(lay, t - 1, j + 1, n - 1, 0)
  /\ i > 0 /\ j < n - 1 => Halos!top_left_corner(lay, r) = At(lay, t, j + 1, i - 1, 0)
  /\ i > 0 /\ j = n - 1 /\ t % 2 = 0 => Halos!top_left_corner(lay, r) = At(lay, t + 2, n - i, 0, 3)
  /\ i > 0 /\ j = n - 1 /\ ~ (t % 2 = 0) => Halos!top_left_corner(lay, r) = At(lay, t + 1, 0, i - 1, 0)

LEMMA TopLeftCorner ==
  ASSUME NEW n \in Nat \ {0}, NEW lay \in Lay, lay[1] = n, lay[2] = n, NEW t \in Int,
         NEW j \in 0..(n - 1), NEW i \in 0..(n - 1), NEW r, r = RankAt(lay, t, j, i)
  PROVE  TopLeftAt(lay, t, j, i, r, n)
<1>1. CubeEdgesAt(lay, t, j, i, r, n)
  BY CubeEdges
<1>2. CubeSides(lay, t, j, i, r, n)
  BY OnSides
<1>3. PICK first : first = Halos!left_edge(lay, r)
  OBVIOUS
<1>4. ASSUME i = 0 /\ j = n - 1 PROVE Halos!top_left_corner(lay, r) = Halos!NoBoundary
  BY <1>2, <1>4 DEF CubeSides, Halos!top_left_corner
<1>5. ASSUME i = 0 /\ j < n - 1 /\ t % 2 = 0
      PROVE  Halos!top_left_corner(lay, r) = At(lay, t - 2, n - 1, n - 2 - j, 1)
  <2>1. first = At(lay, t - 2, n - 1, n - 1 - j, 1)
    BY <1>1, <1>3, <1>5 DEF CubeEdgesAt
  <2>2. CrossesAt(lay, t - 2, n - 1, n - 1 - j, 1, first, n)
    BY <1>5, <2>1, Crosses
  <2>3. Halos!Corner(first, Halos!left_edge(lay, first.to)) = At(lay, t - 2, n - 1, n - 2 - j, 1)
    BY <1>5, <2>2 DEF CrossesAt
  <2> QED
    BY <1>2, <1>3, <1>5, <2>3 DEF CubeSides, Halos!top_left_corner
<1>6. ASSUME i = 0 /\ j < n - 1 /\ ~ (t % 2 = 0)
      PROVE  Halos!top_left_corner(lay, r) = At(lay, t - 1, j + 1, n - 1, 0)
  <2>1. first = At(lay, t - 1, j, n - 1, 0)
    BY <1>1, <1>3, <1>6 DEF CubeEdgesAt
  <2>2. CrossesAt(lay, t - 1, j, n - 1, 0, first, n)
    BY <1>6, <2>1, Crosses
  <2>3. Halos!Corner(first, Halos!top_edge(lay, first.to)) = At(lay, t - 1, j + 1, n - 1, 0)
    BY <1>6, <2>2 DEF CrossesAt
  <2> QED
    BY <1>2, <1>3, <1>6, <2>3 DEF CubeSides, Halos!top_left_corner
<1>7. ASSUME i > 0 /\ j < n - 1
      PROVE  Halos!top_left_corner(lay, r) = At(lay, t, j + 1, i - 1, 0)
  <2>1. first = At(lay, t, j, i - 1, 0)
    BY <1>1, <1>3, <1>7 DEF CubeEdgesAt
  <2>2. CrossesAt(lay, t, j, i - 1, 0, first, n)
    BY <1>7, <2>1, Crosses
  <2>3. Halos!Corner(first, Halos!top_edge(lay, first.to)) = At(lay, t, j + 1, i - 1, 0)
    BY <1>7, <2>2 DEF CrossesAt
  <2> QED
    BY <1>2, <1>3, <1>7, <2>3 DEF CubeSides, Halos!top_left_corner
<1>8. ASSUME i > 0 /\ j = n - 1 /\ t % 2 = 0
      PROVE  Halos!top_left_corner(lay, r) = At(lay, t + 2, n - i, 0, 3)
  <2>1. first = At(lay, t, j, i - 1, 0)
    BY <1>1, <1>3, <1>8 DEF CubeEdgesAt
  <2>2. CrossesAt(lay, t, j, i - 1, 0, first, n)
    BY <1>8, <2>1, Crosses
  <2>3. Halos!Corner(first, Halos!top_edge(lay, first.to)) = At(lay, t + 2, n - i, 0, 3)
    BY <1>8, <2>2 DEF CrossesAt
  <2> QED
    BY <1>2, <1>3, <1>8, <2>3 DEF CubeSides, Halos!top_left_corner
<1>9. ASSUME i > 0 /\ j = n - 1 /\ ~ (t % 2 = 0)
      PROVE  Halos!top_left_corner(lay, r) = At(lay, t + 1, 0, i - 1, 0)
  <2>1. first = At(lay, t, j, i - 1, 0)
    BY <1>1, <1>3, <1>9 DEF CubeEdgesAt
  <2>2. CrossesAt(lay, t, j, i - 1, 0, first, n)
    BY <1>9, <2>1, Crosses
  <2>3. Halos!Corner(first, Halos!top_edge(lay, first.to)) = At(lay, t + 1, 0, i - 1, 0)
    BY <1>9, <2>2 DEF CrossesAt
  <2> QED
    BY <1>2, <1>3, <1>9, <2>3 DEF CubeSides, Halos!top_left_corner
<1> QED
  BY <1>4, <1>5, <1>6, <1>7, <1>8, <1>9 DEF TopLeftAt

\* The top right corner.
TopRightAt(lay, t, j, i, r, n) ==
  /\ i = n - 1 /\ j = n - 1 => Halos!top_right_corner(lay, r) = Halos!NoBoundary
  /\ j = n - 1 /\ i < n - 1 /\ t % 2 = 0 => Halos!top_right_corner(lay, r) = At(lay, t + 2, n - 2 - i, 0, 3)
  /\ j = n - 1 /\ i < n - 1 /\ ~ (t % 2 = 0) => Halos!top_right_corner(lay, r) = At(lay, t + 1, 0, i + 1, 0)
  /\ j < n - 1 /\ i < n - 1 => Halos!top_right_corner(lay, r) = At(lay, t, j + 1, i + 1, 0)
  /\ j < n - 1 /\ i = n - 1 /\ t % 2 = 0 => Halos!top_right_corner(lay, r) = At(lay, t + 1, j + 1, 0, 0)
  /\ j < n - 1 /\ i = n - 1 /\ ~ (t % 2 = 0) => Halos!top_right_corner(lay, r) = At(lay, t + 2, 0, n - 2 - j, 1)

LEMMA TopRightCorner ==
  ASSUME NEW n \in Nat \ {0}, NEW lay \in Lay, lay[1] = n, lay[2] = n, NEW t \in Int,
         NEW j \in 0..(n - 1), NEW i \in 0..(n - 1), NEW r, r = RankAt(lay, t, j, i)
  PROVE  TopRightAt(lay, t, j, i, r, n)
<1>1. CubeEdgesAt(lay, t, j, i, r, n)
  BY CubeEdges
<1>2. CubeSides(lay, t, j, i, r, n)
  BY OnSides
<1>3. PICK first : first = Halos!top_edge(lay, r)
  OBVIOUS
<1>4. ASSUME i = n - 1 /\ j = n - 1 PROVE Halos!top_right_corner(lay, r) = Halos!NoBoundary
  BY <1>2, <1>4 DEF CubeSides, Halos!top_right_corner
<1>5. ASSUME j = n - 1 /\ i < n - 1 /\ t % 2 = 0
      PROVE  Halos!top_right_corner(lay, r) = At(lay, t + 2, n - 2 - i, 0, 3)
  <2>1. first = At(lay, t + 2, n - 1 - i, 0, 3)
    BY <1>1, <1>3, <1>5 DEF CubeEdgesAt
  <2>2. CrossesAt(lay, t + 2, n - 1 - i, 0, 3, first, n)
    BY <1>5, <2>1, Crosses
  <2>3. Halos!Corner(first, Halos!bottom_edge(lay, first.to)) = At(lay, t + 2, n - 2 - i, 0, 3)
    BY <1>5, <2>2 DEF CrossesAt
  <2> QED
    BY <1>2, <1>3, <1>5, <2>3 DEF CubeSides, Halos!top_right_corner
<1>6. ASSUME j = n - 1 /\ i < n - 1 /\ ~ (t % 2 = 0)
      PROVE  Halos!top_right_corner(lay, r) = At(lay, t + 1, 0, i + 1, 0)
  <2>1. first = At(lay, t + 1, 0, i, 0)
    BY <1>1, <1>3, <1>6 DEF CubeEdgesAt
  <2>2. CrossesAt(lay, t + 1, 0, i, 0, first, n)
    BY <1>6, <2>1, Crosses
  <2>3. Halos!Corner(first, Halos!right_edge(lay, first.to)) = At(lay, t + 1, 0, i + 1, 0)
    BY <1>6, <2>2 DEF CrossesAt
  <2> QED
    BY <1>2, <1>3, <1>6, <2>3 DEF CubeSides, Halos!top_right_corner
<1>7. ASSUME j < n - 1 /\ i < n - 1
      PROVE  Halos!top_right_corner(lay, r) = At(lay, t, j + 1, i + 1, 0)
  <2>1. first = At(lay, t, j + 1, i, 0)
    BY <1>1, <1>3, <1>7 DEF CubeEdgesAt
  <2>2. CrossesAt(lay, t, j + 1, i, 0, first, n)
    BY <1>7, <2>1, Crosses
  <2>3. Halos!Corner(first, Halos!right_edge(lay, first.to)) = At(lay, t, j + 1, i + 1, 0)
    BY <1>7, <2>2 DEF CrossesAt
  <2> QED
    BY <1>2, <1>3, <1>7, <2>3 DEF CubeSides, Halos!top_right_corner
<1>8. ASSUME j < n - 1 /\ i = n - 1 /\ t % 2 = 0
      PROVE  Halos!top_right_corner(lay, r) = At(lay, t + 1, j + 1, 0, 0)
  <2>1. first = At(lay, t, j + 1, i, 0)
    BY <1>1, <1>3, <1>8 DEF CubeEdgesAt
  <2>2. CrossesAt(lay, t, j + 1, i, 0, first, n)
    BY <1>8, <2>1, Crosses
  <2>3. Halos!Corner(first, Halos!right_edge(lay, first.to)) = At(lay, t + 1, j + 1, 0, 0)
    BY <1>8, <2>2 DEF CrossesAt
  <2> QED
    BY <1>2, <1>3, <1>8, <2>3 DEF CubeSides, Halos!top_right_corner
<1>9. ASSUME j < n - 1 /\ i = n - 1 /\ ~ (t % 2 = 0)
      PROVE  Halos!top_right_corner(lay, r) = At(lay, t + 2, 0, n - 2 - j, 1)
  <2>1. first = At(lay, t, j + 1, i, 0)
    BY <1>1, <1>3, <1>9 DEF CubeEdgesAt
  <2>2. CrossesAt(lay, t, j + 1, i, 0, first, n)
    BY <1>9, <2>1, Crosses
  <2>3. Halos!Corner(first, Halos!right_edge(lay, first.to)) = At(lay, t + 2, 0, n - 2 - j, 1)
    BY <1>9, <2>2 DEF CrossesAt
  <2> QED
    BY <1>2, <1>3, <1>9, <2>3 DEF CubeSides, Halos!top_right_corner
<1> QED
  BY <1>4, <1>5, <1>6, <1>7, <1>8, <1>9 DEF TopRightAt

\* The bottom left corner.
BottomLeftAt(lay, t, j, i, r, n) ==
  /\ i = 0 /\ j = 0 => Halos!bottom_left_corner(lay, r) = Halos!NoBoundary
  /\ j = 0 /\ i > 0 /\ t % 2 = 0 => Halos!bottom_left_corner(lay, r) = At(lay, t - 1, n - 1, i - 1, 0)
  /\ j = 0 /\ i > 0 /\ ~ (t % 2 = 0) => Halos!bottom_left_corner(lay, r) = At(lay, t - 2, n - i, n - 1, 3)
  /\ j > 0 /\ i > 0 => Halos!bottom_left_corner(lay, r) = At(lay, t, j - 1, i - 1, 0)
  /\ j > 0 /\ i = 0 /\ t % 2 = 0 => Halos!bottom_left_corner(lay, r) = At(lay, t - 2, n - 1, n - j, 1)
  /\ j > 0 /\ i = 0 /\ ~ (t % 2 = 0) => Halos!bottom_left_corner(lay, r) = At(lay, t - 1, j - 1, n - 1, 0)

LEMMA BottomLeftCorner ==
  ASSUME NEW n \in Nat \ {0}, NEW lay \in Lay, lay[1] = n, lay[2] = n, NEW t \in Int,
         NEW j \in 0..(n - 1), NEW i \in 0..(n - 1), NEW r, r = RankAt(lay, t, j, i)
  PROVE  BottomLeftAt(lay, t, j, i, r, n)
<1>1. CubeEdgesAt(lay, t, j, i, r, n)
  BY CubeEdges
<1>2. CubeSides(lay, t, j, i, r, n)
  BY OnSides
<1>3. PICK first : first = Halos!bottom_edge(lay, r)
  OBVIOUS
<1>4. ASSUME i = 0 /\ j = 0 PROVE Halos!bottom_left_corner(lay, r) = Halos!NoBoundary
  BY <1>2, <1>4 DEF CubeSides, Halos!bottom_left_corner
<1>5. ASSUME j = 0 /\ i > 0 /\ t % 2 = 0
      PROVE  Halos!bottom_left_corner(lay, r) = At(lay, t - 1, n - 1, i - 1, 0)
  <2>1. first = At(lay, t - 1, n - 1, i, 0)
    BY <1>1, <1>3, <1>5 DEF CubeEdgesAt
  <2>2. CrossesAt(lay, t - 1, n - 1, i, 0, first, n)
    BY <1>5, <2>1, Crosses
  <2>3. Halos!Corner(first, Halos!left_edge(lay, first.to)) = At(lay, t - 1, n - 1, i - 1, 0)
    BY <1>5, <2>2 DEF CrossesAt
  <2> QED
    BY <1>2, <1>3, <1>5, <2>3 DEF CubeSides, Halos!bottom_left_corner
<1>6. ASSUME j = 0 /\ i > 0 /\ ~ (t % 2 = 0)
      PROVE  Halos!bottom_left_corner(lay, r) = At(lay, t - 2, n - i, n - 1, 3)
  <2>1. first = At(lay, t - 2, n - 1 - i, n - 1, 3)
    BY <1>1, <1>3, <1>6 DEF CubeEdgesAt
  <2>2. CrossesAt(lay, t - 2, n - 1 - i, n - 1, 3, first, n)
    BY <1>6, <2>1, Crosses
  <2>3. Halos!Corner(first, Halos!top_edge(lay, first.to)) = At(lay, t - 2, n - i, n - 1, 3)
    BY <1>6, <2>2 DEF CrossesAt
  <2> QED
    BY <1>2, <1>3, <1>6, <2>3 DEF CubeSides, Halos!bottom_left_corner
<1>7. ASSUME j > 0 /\ i > 0
      PROVE  Halos!bottom_left_corner(lay, r) = At(lay, t, j - 1, i - 1, 0)
  <2>1. first = At(lay, t, j - 1, i, 0)
    BY <1>1, <1>3, <1>7 DEF CubeEdgesAt
  <2>2. CrossesAt(lay, t, j - 1, i, 0, first, n)
    BY <1>7, <2>1, Crosses
  <2>3. Halos!Corner(first, Halos!left_edge(lay, first.to)) = At(lay, t, j - 1, i - 1, 0)
    BY <1>7, <2>2 DEF CrossesAt
  <2> QED
    BY <1>2, <1>3, <1>7, <2>3 DEF CubeSides, Halos!bottom_left_corner
<1>8. ASSUME j > 0 /\ i = 0 /\ t % 2 = 0
      PROVE  Halos!bottom_left_corner(lay, r) = At(lay, t - 2, n - 1, n - j, 1)
  <2>1. first = At(lay, t, j - 1, i, 0)
    BY <1>1, <1>3, <1>8 DEF CubeEdgesAt
  <2>2. CrossesAt(lay, t, j - 1, i, 0, first, n)
    BY <1>8, <2>1, Crosses
  <2>3. Halos!Corner(first, Halos!left_edge(lay, first.to)) = At(lay, t - 2, n - 1, n - j, 1)
    BY <1>8, <2>2 DEF CrossesAt
  <2> QED
    BY <1>2, <1>3, <1>8, <2>3 DEF CubeSides, Halos!bottom_left_corner
<1>9. ASSUME j > 0 /\ i = 0 /\ ~ (t % 2 = 0)
      PROVE  Halos!bottom_left_corner(lay, r) = At(lay, t - 1, j - 1, n - 1, 0)
  <2>1. first = At(lay, t, j - 1, i, 0)
    BY <1>1, <1>3, <1>9 DEF CubeEdgesAt
  <2>2. CrossesAt(lay, t, j - 1, i, 0, first, n)
    BY <1>9, <2>1, Crosses
  <2>3. Halos!Corner(first, Halos!left_edge(lay, first.to)) = At(lay, t - 1, j - 1, n - 1, 0)
    BY <1>9, <2>2 DEF CrossesAt
  <2> QED
    BY <1>2, <1>3, <1>9, <2>3 DEF CubeSides, Halos!bottom_left_corner
<1> QED
  BY <1>4, <1>5, <1>6, <1>7, <1>8, <1>9 DEF BottomLeftAt

\* The bottom right corner.
BottomRightAt(lay, t, j, i, r, n) ==
  /\ i = n - 1 /\ j = 0 => Halos!bottom_right_corner(lay, r) = Halos!NoBoundary
  /\ j = 0 /\ i < n - 1 /\ t % 2 = 0 => Halos!bottom_right_corner(lay, r) = At(lay, t - 1, n - 1, i + 1, 0)
  /\ j = 0 /\ i < n - 1 /\ ~ (t % 2 = 0) => Halos!bottom_right_corner(lay, r) = At(lay, t - 2, n - 2 - i, n - 1, 3)
  /\ j > 0 /\ i < n - 1 => Halos!bottom_right_corner(lay, r) = At(lay, t, j - 1, i + 1, 0)
  /\ j > 0 /\ i = n - 1 /\ t % 2 = 0 => Halos!bottom_right_corner(lay, r) = At(lay, t + 1, j - 1, 0, 0)
  /\ j > 0 /\ i = n - 1 /\ ~ (t % 2 = 0) => Halos!bottom_right_corner(lay, r) = At(lay, t + 2, 0, n - j, 1)

LEMMA BottomRightCorner ==
  ASSUME NEW n \in Nat \ {0}, NEW lay \in Lay, lay[1] = n, lay[2] = n, NEW t \in Int,
         NEW j \in 0..(n - 1), NEW i \in 0..(n - 1), NEW r, r = RankAt(lay, t, j, i)
  PROVE  BottomRightAt(lay, t, j, i, r, n)
<1>1. CubeEdgesAt(lay, t, j, i, r, n)
  BY CubeEdges
<1>2. CubeSides(lay, t, j, i, r, n)
  BY OnSides
<1>3. PICK first : first = Halos!bottom_edge(lay, r)
  OBVIOUS
<1>4. ASSUME i = n - 1 /\ j = 0 PROVE Halos!bottom_right_corner(lay, r) = Halos!NoBoundary
  BY <1>2, <1>4 DEF CubeSides, Halos!bottom_right_corner
<1>5. ASSUME j = 0 /\ i < n - 1 /\ t % 2 = 0
      PROVE  Halos!bottom_right_corner(lay, r) = At(lay, t - 1, n - 1, i + 1, 0)
  <2>1. first = At(lay, t - 1, n - 1, i, 0)
    BY <1>1, <1>3, <1>5 DEF CubeEdgesAt
  <2>2. CrossesAt(lay, t - 1, n - 1, i, 0, first, n)
    BY <1>5, <2>1, Crosses
  <2>3. Halos!Corner(first, Halos!right_edge(lay, first.to)) = At(lay, t - 1, n - 1, i + 1, 0)
    BY <1>5, <2>2 DEF CrossesAt
  <2> QED
    BY <1>2, <1>3, <1>5, <2>3 DEF CubeSides, Halos!bottom_right_corner
<1>6. ASSUME j = 0 /\ i < n - 1 /\ ~ (t % 2 = 0)
      PROVE  Halos!bottom_right_corner(lay, r) = At(lay, t - 2, n - 2 - i, n - 1, 3)
  <2>1. first = At(lay, t - 2, n - 1 - i, n - 1, 3)
    BY <1>1, <1>3, <1>6 DEF CubeEdgesAt
  <2>2. CrossesAt(lay, t - 2, n - 1 - i, n - 1, 3, first, n)
    BY <1>6, <2>1, Crosses
  <2>3. Halos!Corner(first, Halos!bottom_edge(lay, first.to)) = At(lay, t - 2, n - 2 - i, n - 1, 3)
    BY <1>6, <2>2 DEF CrossesAt
  <2> QED
    BY <1>2, <1>3, <1>6, <2>3 DEF CubeSides, Halos!bottom_right_corner
<1>7. ASSUME j > 0 /\ i < n - 1
      PROVE  Halos!bottom_right_corner(lay, r) = At(lay, t, j - 1, i + 1, 0)
  <2>1. first = At(lay, t, j - 1, i, 0)
    BY <1>1, <1>3, <1>7 DEF CubeEdgesAt
  <2>2. CrossesAt(lay, t, j - 1, i, 0, first, n)
    BY <1>7, <2>1, Crosses
  <2>3. Halos!Corner(first, Halos!right_edge(lay, first.to)) = At(lay, t, j - 1, i + 1, 0)
    BY <1>7, <2>2 DEF CrossesAt
  <2> QED
    BY <1>2, <1>3, <1>7, <2>3 DEF CubeSides, Halos!bottom_right_corner
<1>8. ASSUME j > 0 /\ i = n - 1 /\ t % 2 = 0
      PROVE  Halos!bottom_right_corner(lay, r) = At(lay, t + 1, j - 1, 0, 0)
  <2>1. first = At(lay, t, j - 1, i, 0)
    BY <1>1, <1>3, <1>8 DEF CubeEdgesAt
  <2>2. CrossesAt(lay, t, j - 1, i, 0, first, n)
    BY <1>8, <2>1, Crosses
  <2>3. Halos!Corner(first, Halos!right_edge(lay, first.to)) = At(lay, t + 1, j - 1, 0, 0)
    BY <1>8, <2>2 DEF CrossesAt
  <2> QED
    BY <1>2, <1>3, <1>8, <2>3 DEF CubeSides, Halos!bottom_right_corner
<1>9. ASSUME j > 0 /\ i = n - 1 /\ ~ (t % 2 = 0)
      PROVE  Halos!bottom_right_corner(lay, r) = At(lay, t + 2, 0, n - j, 1)
  <2>1. first = At(lay, t, j - 1, i, 0)
    BY <1>1, <1>3, <1>9 DEF CubeEdgesAt
  <2>2. CrossesAt(lay, t, j - 1, i, 0, first, n)
    BY <1>9, <2>1, Crosses
  <2>3. Halos!Corner(first, Halos!right_edge(lay, first.to)) = At(lay, t + 2, 0, n - j, 1)
    BY <1>9, <2>2 DEF CrossesAt
  <2> QED
    BY <1>2, <1>3, <1>9, <2>3 DEF CubeSides, Halos!bottom_right_corner
<1> QED
  BY <1>4, <1>5, <1>6, <1>7, <1>8, <1>9 DEF BottomRightAt

-----------------------------------------------------------------------------
(* Which rank is beyond which boundary, as a relation between coordinates. *)

West(n, t, j, i, u, k, l, rot) ==
  \/ i > 0 /\ u = t /\ k = j /\ l = i - 1 /\ rot = 0
  \/ i = 0 /\ t % 2 = 0 /\ u = (t - 2) % 6 /\ k = n - 1 /\ l = n - 1 - j /\ rot = 1
  \/ i = 0 /\ ~ (t % 2 = 0) /\ u = (t - 1) % 6 /\ k = j /\ l = n - 1 /\ rot = 0

East(n, t, j, i, u, k, l, rot) ==
  \/ i < n - 1 /\ u = t /\ k = j /\ l = i + 1 /\ rot = 0
  \/ i = n - 1 /\ t % 2 = 0 /\ u = (t + 1) % 6 /\ k = j /\ l = 0 /\ rot = 0
  \/ i = n - 1 /\ ~ (t % 2 = 0) /\ u = (t + 2) % 6 /\ k = 0 /\ l = n - 1 - j /\ rot = 1

North(n, t, j, i, u, k, l, rot) ==
  \/ j < n - 1 /\ u = t /\ k = j + 1 /\ l = i /\ rot = 0
  \/ j = n - 1 /\ t % 2 = 0 /\ u = (t + 2) % 6 /\ k = n - 1 - i /\ l = 0 /\ rot = 3
  \/ j = n - 1 /\ ~ (t % 2 = 0) /\ u = (t + 1) % 6 /\ k = 0 /\ l = i /\ rot = 0

South(n, t, j, i, u, k, l, rot) ==
  \/ j > 0 /\ u = t /\ k = j - 1 /\ l = i /\ rot = 0
  \/ j = 0 /\ t % 2 = 0 /\ u = (t - 1) % 6 /\ k = n - 1 /\ l = i /\ rot = 0
  \/ j = 0 /\ ~ (t % 2 = 0) /\ u = (t - 2) % 6 /\ k = n - 1 - i /\ l = n - 1 /\ rot = 3

NorthWest(n, t, j, i, u, k, l, rot) ==
  \/ i = 0 /\ j < n - 1 /\ t % 2 = 0 /\ u = (t - 2) % 6 /\ k = n - 1 /\ l = n - 2 - j /\ rot = 1
  \/ i = 0 /\ j < n - 1 /\ ~ (t % 2 = 0) /\ u = (t - 1) % 6 /\ k = j + 1 /\ l = n - 1 /\ rot = 0
  \/ i > 0 /\ j < n - 1 /\ u = t /\ k = j + 1 /\ l = i - 1 /\ rot = 0
  \/ i > 0 /\ j = n - 1 /\ t % 2 = 0 /\ u = (t + 2) % 6 /\ k = n - i /\ l = 0 /\ rot = 3
  \/ i > 0 /\ j = n - 1 /\ ~ (t % 2 = 0) /\ u = (t + 1) % 6 /\ k = 0 /\ l = i - 1 /\ rot = 0

NorthEast(n, t, j, i, u, k, l, rot) ==
  \/ j = n - 1 /\ i < n - 1 /\ t % 2 = 0 /\ u = (t + 2) % 6 /\ k = n - 2 - i /\ l = 0 /\ rot = 3
  \/ j = n - 1 /\ i < n - 1 /\ ~ (t % 2 = 0) /\ u = (t + 1) % 6 /\ k = 0 /\ l = i + 1 /\ rot = 0
  \/ j < n - 1 /\ i < n - 1 /\ u = t /\ k = j + 1 /\ l = i + 1 /\ rot = 0
  \/ j < n - 1 /\ i = n - 1 /\ t % 2 = 0 /\ u = (t + 1) % 6 /\ k = j + 1 /\ l = 0 /\ rot = 0
  \/ j < n - 1 /\ i = n - 1 /\ ~ (t % 2 = 0) /\ u = (t + 2) % 6 /\ k = 0 /\ l = n - 2 - j /\ rot = 1

SouthWest(n, t, j, i, u, k, l, rot) ==
  \/ j = 0 /\ i > 0 /\ t % 2 = 0 /\ u = (t - 1) % 6 /\ k = n - 1 /\ l = i - 1 /\ rot = 0
  \/ j = 0 /\ i > 0 /\ ~ (t % 2 = 0) /\ u = (t - 2) % 6 /\ k = n - i /\ l = n - 1 /\ rot = 3
  \/ j > 0 /\ i > 0 /\ u = t /\ k = j - 1 /\ l = i - 1 /\ rot = 0
  \/ j > 0 /\ i = 0 /\ t % 2 = 0 /\ u = (t - 2) % 6 /\ k = n - 1 /\ l = n - j /\ rot = 1
  \/ j > 0 /\ i = 0 /\ ~ (t % 2 = 0) /\ u = (t - 1) % 6 /\ k = j - 1 /\ l = n - 1 /\ rot = 0

SouthEast(n, t, j, i, u, k, l, rot) ==
  \/ j = 0 /\ i < n - 1 /\ t % 2 = 0 /\ u = (t - 1) % 6 /\ k = n - 1 /\ l = i + 1 /\ rot = 0
  \/ j = 0 /\ i < n - 1 /\ ~ (t % 2 = 0) /\ u = (t - 2) % 6 /\ k = n - 2 - i /\ l = n - 1 /\ rot = 3
  \/ j > 0 /\ i < n - 1 /\ u = t /\ k = j - 1 /\ l = i + 1 /\ rot = 0
  \/ j > 0 /\ i = n - 1 /\ t % 2 = 0 /\ u = (t + 1) % 6 /\ k = j - 1 /\ l = 0 /\ rot = 0
  \/ j > 0 /\ i = n - 1 /\ ~ (t % 2 = 0) /\ u = (t + 2) % 6 /\ k = 0 /\ l = n - j /\ rot = 1

CubeMeets(b, n, t, j, i, u, k, l, rot) ==
  \/ b = "west" /\ West(n, t, j, i, u, k, l, rot)
  \/ b = "east" /\ East(n, t, j, i, u, k, l, rot)
  \/ b = "north" /\ North(n, t, j, i, u, k, l, rot)
  \/ b = "south" /\ South(n, t, j, i, u, k, l, rot)
  \/ b = "northwest" /\ NorthWest(n, t, j, i, u, k, l, rot)
  \/ b = "northeast" /\ NorthEast(n, t, j, i, u, k, l, rot)
  \/ b = "southwest" /\ SouthWest(n, t, j, i, u, k, l, rot)
  \/ b = "southeast" /\ SouthEast(n, t, j, i, u, k, l, rot)

\* No place meets itself, nor another one over two boundaries.
LEMMA CubeNotSelf ==
  ASSUME NEW n \in Nat \ {0}, NEW t \in 0..5, NEW j \in 0..(n - 1), NEW i \in 0..(n - 1),
         NEW u \in 0..5, NEW k \in 0..(n - 1), NEW l \in 0..(n - 1), NEW rot, NEW b,
         CubeMeets(b, n, t, j, i, u, k, l, rot)
  PROVE  ~ (t = u /\ j = k /\ i = l)
BY DEF CubeMeets, West, East, North, South, NorthWest, NorthEast, SouthWest, SouthEast

LEMMA CubeInjective ==
  ASSUME NEW n \in Nat \ {0}, NEW t \in 0..5, NEW j \in 0..(n - 1), NEW i \in 0..(n - 1),
         NEW u \in 0..5, NEW k \in 0..(n - 1), NEW l \in 0..(n - 1), NEW rot, NEW b,
         CubeMeets(b, n, t, j, i, u, k, l, rot),
         NEW c, NEW more, CubeMeets(c, n, t, j, i, u, k, l, more)
  PROVE  b = c
<1>1. CASE b = "west"
  BY <1>1 DEF CubeMeets, West, East, North, South, NorthWest, NorthEast, SouthWest, SouthEast
<1>2. CASE b = "east"
  BY <1>2 DEF CubeMeets, West, East, North, South, NorthWest, NorthEast, SouthWest, SouthEast
<1>3. CASE b = "north"
  BY <1>3 DEF CubeMeets, West, East, North, South, NorthWest, NorthEast, SouthWest, SouthEast
<1>4. CASE b = "south"
  BY <1>4 DEF CubeMeets, West, East, North, South, NorthWest, NorthEast, SouthWest, SouthEast
<1>5. CASE b = "northwest"
  BY <1>5 DEF CubeMeets, West, East, North, South, NorthWest, NorthEast, SouthWest, SouthEast
<1>6. CASE b = "northeast"
  BY <1>6 DEF CubeMeets, West, East, North, South, NorthWest, NorthEast, SouthWest, SouthEast
<1>7. CASE b = "southwest"
  BY <1>7 DEF CubeMeets, West, East, North, South, NorthWest, NorthEast, SouthWest, SouthEast
<1>8. CASE b = "southeast"
  BY <1>8 DEF CubeMeets, West, East, North, South, NorthWest, NorthEast, SouthWest, SouthEast
<1> QED
  BY <1>1, <1>2, <1>3, <1>4, <1>5, <1>6, <1>7, <1>8 DEF CubeMeets

\* Of the four edges, north and east are beyond south or west.
Faces(b, c) ==
  /\ b \in {"north", "east"} => c \in {"south", "west"}
  /\ b \in {"south", "west"} => c \in {"north", "east"}

\* From a tile to one before or after it, and back.
TilesBack(t, u) ==
  /\ u = (t - 1) % 6 => t = (u + 1) % 6 /\ (u % 2 = 0 <=> ~ (t % 2 = 0))
  /\ u = (t + 1) % 6 => t = (u - 1) % 6 /\ (u % 2 = 0 <=> ~ (t % 2 = 0))
  /\ u = (t - 2) % 6 => t = (u + 2) % 6 /\ (u % 2 = 0 <=> t % 2 = 0)
  /\ u = (t + 2) % 6 => t = (u - 2) % 6 /\ (u % 2 = 0 <=> t % 2 = 0)

LEMMA StepsBack ==
  ASSUME NEW t \in 0..5, NEW u \in 0..5
  PROVE  TilesBack(t, u)
<1>1. t = 0 \/ t = 1 \/ t = 2 \/ t = 3 \/ t = 4 \/ t = 5
  OBVIOUS
<1>2. CASE t = 0
  BY <1>2 DEF TilesBack
<1>3. CASE t = 1
  BY <1>3 DEF TilesBack
<1>4. CASE t = 2
  BY <1>4 DEF TilesBack
<1>5. CASE t = 3
  BY <1>5 DEF TilesBack
<1>6. CASE t = 4
  BY <1>6 DEF TilesBack
<1>7. CASE t = 5
  BY <1>7 DEF TilesBack
<1> QED
  BY <1>1, <1>2, <1>3, <1>4, <1>5, <1>6, <1>7

\* One that is met meets back, and the turns cancel.
LEMMA CubeBack ==
  ASSUME NEW n \in Nat \ {0}, NEW t \in 0..5, NEW j \in 0..(n - 1), NEW i \in 0..(n - 1),
         NEW u \in 0..5, NEW k \in 0..(n - 1), NEW l \in 0..(n - 1), NEW rot, NEW b,
         CubeMeets(b, n, t, j, i, u, k, l, rot)
  PROVE  \E c, more : /\ CubeMeets(c, n, u, k, l, t, j, i, more)
                      /\ (rot + more) % 4 = 0
                      /\ Faces(b, c)
<1>1. CASE b = "west"
  <2>0. West(n, t, j, i, u, k, l, rot)
    BY <1>1 DEF CubeMeets
  <2>1. CASE i > 0
    <3>1. u = t /\ k = j /\ l = i - 1 /\ rot = 0
      BY <2>0, <2>1 DEF West
    <3>2. t = u /\ j = k /\ i = l + 1 /\ l < n - 1
      BY <2>1, <3>1
    <3>4. East(n, u, k, l, t, j, i, 0)
      BY <3>1, <3>2 DEF East
    <3>5. (rot + 0) % 4 = 0
      BY <3>1
    <3>6. Faces(b, "east")
      BY <1>1 DEF Faces
    <3> QED
      BY <3>4, <3>5, <3>6 DEF CubeMeets
  <2>2. CASE i = 0 /\ t % 2 = 0
    <3>1. u = (t - 2) % 6 /\ k = n - 1 /\ l = n - 1 - j /\ rot = 1
      BY <2>0, <2>2 DEF West
    <3>2. u % 2 = 0 /\ t = (u + 2) % 6
      <4>1. u = (t - 2) % 6 /\ t % 2 = 0
        BY <2>2, <3>1
      <4>2. TilesBack(t, u)
        BY StepsBack
      <4> QED
        BY <4>1, <4>2 DEF TilesBack
    <3>3. j = n - 1 - l /\ i = 0 /\ k = n - 1
      BY <2>2, <3>1
    <3>4. North(n, u, k, l, t, j, i, 3)
      BY <3>2, <3>3 DEF North
    <3>5. (rot + 3) % 4 = 0
      BY <3>1
    <3>6. Faces(b, "north")
      BY <1>1 DEF Faces
    <3> QED
      BY <3>4, <3>5, <3>6 DEF CubeMeets
  <2>3. CASE i = 0 /\ ~ (t % 2 = 0)
    <3>1. u = (t - 1) % 6 /\ k = j /\ l = n - 1 /\ rot = 0
      BY <2>0, <2>3 DEF West
    <3>2. u % 2 = 0 /\ t = (u + 1) % 6
      <4>1. u = (t - 1) % 6 /\ ~ (t % 2 = 0)
        BY <2>3, <3>1
      <4>2. TilesBack(t, u)
        BY StepsBack
      <4> QED
        BY <4>1, <4>2 DEF TilesBack
    <3>3. j = k /\ i = 0 /\ l = n - 1
      BY <2>3, <3>1
    <3>4. East(n, u, k, l, t, j, i, 0)
      BY <3>2, <3>3 DEF East
    <3>5. (rot + 0) % 4 = 0
      BY <3>1
    <3>6. Faces(b, "east")
      BY <1>1 DEF Faces
    <3> QED
      BY <3>4, <3>5, <3>6 DEF CubeMeets
  <2> QED
    BY <2>0, <2>1, <2>2, <2>3 DEF West
<1>2. CASE b = "east"
  <2>0. East(n, t, j, i, u, k, l, rot)
    BY <1>2 DEF CubeMeets
  <2>1. CASE i < n - 1
    <3>1. u = t /\ k = j /\ l = i + 1 /\ rot = 0
      BY <2>0, <2>1 DEF East
    <3>2. t = u /\ j = k /\ i = l - 1 /\ l > 0
      BY <2>1, <3>1
    <3>4. West(n, u, k, l, t, j, i, 0)
      BY <3>1, <3>2 DEF West
    <3>5. (rot + 0) % 4 = 0
      BY <3>1
    <3>6. Faces(b, "west")
      BY <1>2 DEF Faces
    <3> QED
      BY <3>4, <3>5, <3>6 DEF CubeMeets
  <2>2. CASE i = n - 1 /\ t % 2 = 0
    <3>1. u = (t + 1) % 6 /\ k = j /\ l = 0 /\ rot = 0
      BY <2>0, <2>2 DEF East
    <3>2. ~ (u % 2 = 0) /\ t = (u - 1) % 6
      <4>1. u = (t + 1) % 6 /\ t % 2 = 0
        BY <2>2, <3>1
      <4>2. TilesBack(t, u)
        BY StepsBack
      <4> QED
        BY <4>1, <4>2 DEF TilesBack
    <3>3. j = k /\ i = n - 1 /\ l = 0
      BY <2>2, <3>1
    <3>4. West(n, u, k, l, t, j, i, 0)
      BY <3>2, <3>3 DEF West
    <3>5. (rot + 0) % 4 = 0
      BY <3>1
    <3>6. Faces(b, "west")
      BY <1>2 DEF Faces
    <3> QED
      BY <3>4, <3>5, <3>6 DEF CubeMeets
  <2>3. CASE i = n - 1 /\ ~ (t % 2 = 0)
    <3>1. u = (t + 2) % 6 /\ k = 0 /\ l = n - 1 - j /\ rot = 1
      BY <2>0, <2>3 DEF East
    <3>2. ~ (u % 2 = 0) /\ t = (u - 2) % 6
      <4>1. u = (t + 2) % 6 /\ ~ (t % 2 = 0)
        BY <2>3, <3>1
      <4>2. TilesBack(t, u)
        BY StepsBack
      <4> QED
        BY <4>1, <4>2 DEF TilesBack
    <3>3. j = n - 1 - l /\ i = n - 1 /\ k = 0
      BY <2>3, <3>1
    <3>4. South(n, u, k, l, t, j, i, 3)
      BY <3>2, <3>3 DEF South
    <3>5. (rot + 3) % 4 = 0
      BY <3>1
    <3>6. Faces(b, "south")
      BY <1>2 DEF Faces
    <3> QED
      BY <3>4, <3>5, <3>6 DEF CubeMeets
  <2> QED
    BY <2>0, <2>1, <2>2, <2>3 DEF East
<1>3. CASE b = "north"
  <2>0. North(n, t, j, i, u, k, l, rot)
    BY <1>3 DEF CubeMeets
  <2>1. CASE j < n - 1
    <3>1. u = t /\ k = j + 1 /\ l = i /\ rot = 0
      BY <2>0, <2>1 DEF North
    <3>2. t = u /\ j = k - 1 /\ i = l /\ k > 0
      BY <2>1, <3>1
    <3>4. South(n, u, k, l, t, j, i, 0)
      BY <3>1, <3>2 DEF South
    <3>5. (rot + 0) % 4 = 0
      BY <3>1
    <3>6. Faces(b, "south")
      BY <1>3 DEF Faces
    <3> QED
      BY <3>4, <3>5, <3>6 DEF CubeMeets
  <2>2. CASE j = n - 1 /\ t % 2 = 0
    <3>1. u = (t + 2) % 6 /\ k = n - 1 - i /\ l = 0 /\ rot = 3
      BY <2>0, <2>2 DEF North
    <3>2. u % 2 = 0 /\ t = (u - 2) % 6
      <4>1. u = (t + 2) % 6 /\ t % 2 = 0
        BY <2>2, <3>1
      <4>2. TilesBack(t, u)
        BY StepsBack
      <4> QED
        BY <4>1, <4>2 DEF TilesBack
    <3>3. j = n - 1 /\ i = n - 1 - k /\ l = 0
      BY <2>2, <3>1
    <3>4. West(n, u, k, l, t, j, i, 1)
      BY <3>2, <3>3 DEF West
    <3>5. (rot + 1) % 4 = 0
      BY <3>1
    <3>6. Faces(b, "west")
      BY <1>3 DEF Faces
    <3> QED
      BY <3>4, <3>5, <3>6 DEF CubeMeets
  <2>3. CASE j = n - 1 /\ ~ (t % 2 = 0)
    <3>1. u = (t + 1) % 6 /\ k = 0 /\ l = i /\ rot = 0
      BY <2>0, <2>3 DEF North
    <3>2. u % 2 = 0 /\ t = (u - 1) % 6
      <4>1. u = (t + 1) % 6 /\ ~ (t % 2 = 0)
        BY <2>3, <3>1
      <4>2. TilesBack(t, u)
        BY StepsBack
      <4> QED
        BY <4>1, <4>2 DEF TilesBack
    <3>3. j = n - 1 /\ i = l /\ k = 0
      BY <2>3, <3>1
    <3>4. South(n, u, k, l, t, j, i, 0)
      BY <3>2, <3>3 DEF South
    <3>5. (rot + 0) % 4 = 0
      BY <3>1
    <3>6. Faces(b, "south")
      BY <1>3 DEF Faces
    <3> QED
      BY <3>4, <3>5, <3>6 DEF CubeMeets
  <2> QED
    BY <2>0, <2>1, <2>2, <2>3 DEF North
<1>4. CASE b = "south"
  <2>0. South(n, t, j, i, u, k, l, rot)
    BY <1>4 DEF CubeMeets
  <2>1. CASE j > 0
    <3>1. u = t /\ k = j - 1 /\ l = i /\ rot = 0
      BY <2>0, <2>1 DEF South
    <3>2. t = u /\ j = k + 1 /\ i = l /\ k < n - 1
      BY <2>1, <3>1
    <3>4. North(n, u, k, l, t, j, i, 0)
      BY <3>1, <3>2 DEF North
    <3>5. (rot + 0) % 4 = 0
      BY <3>1
    <3>6. Faces(b, "north")
      BY <1>4 DEF Faces
    <3> QED
      BY <3>4, <3>5, <3>6 DEF CubeMeets
  <2>2. CASE j = 0 /\ t % 2 = 0
    <3>1. u = (t - 1) % 6 /\ k = n - 1 /\ l = i /\ rot = 0
      BY <2>0, <2>2 DEF South
    <3>2. ~ (u % 2 = 0) /\ t = (u + 1) % 6
      <4>1. u = (t - 1) % 6 /\ t % 2 = 0
        BY <2>2, <3>1
      <4>2. TilesBack(t, u)
        BY StepsBack
      <4> QED
        BY <4>1, <4>2 DEF TilesBack
    <3>3. j = 0 /\ i = l /\ k = n - 1
      BY <2>2, <3>1
    <3>4. North(n, u, k, l, t, j, i, 0)
      BY <3>2, <3>3 DEF North
    <3>5. (rot + 0) % 4 = 0
      BY <3>1
    <3>6. Faces(b, "north")
      BY <1>4 DEF Faces
    <3> QED
      BY <3>4, <3>5, <3>6 DEF CubeMeets
  <2>3. CASE j = 0 /\ ~ (t % 2 = 0)
    <3>1. u = (t - 2) % 6 /\ k = n - 1 - i /\ l = n - 1 /\ rot = 3
      BY <2>0, <2>3 DEF South
    <3>2. ~ (u % 2 = 0) /\ t = (u + 2) % 6
      <4>1. u = (t - 2) % 6 /\ ~ (t % 2 = 0)
        BY <2>3, <3>1
      <4>2. TilesBack(t, u)
        BY StepsBack
      <4> QED
        BY <4>1, <4>2 DEF TilesBack
    <3>3. j = 0 /\ i = n - 1 - k /\ l = n - 1
      BY <2>3, <3>1
    <3>4. East(n, u, k, l, t, j, i, 1)
      BY <3>2, <3>3 DEF East
    <3>5. (rot + 1) % 4 = 0
      BY <3>1
    <3>6. Faces(b, "east")
      BY <1>4 DEF Faces
    <3> QED
      BY <3>4, <3>5, <3>6 DEF CubeMeets
  <2> QED
    BY <2>0, <2>1, <2>2, <2>3 DEF South
<1>5. CASE b = "northwest"
  <2>0. NorthWest(n, t, j, i, u, k, l, rot)
    BY <1>5 DEF CubeMeets
  <2>1. CASE i = 0 /\ j < n - 1 /\ t % 2 = 0
    <3>1. u = (t - 2) % 6 /\ k = n - 1 /\ l = n - 2 - j /\ rot = 1
      BY <2>0, <2>1 DEF NorthWest
    <3>2. u % 2 = 0 /\ t = (u + 2) % 6
      <4>1. u = (t - 2) % 6 /\ t % 2 = 0
        BY <2>1, <3>1
      <4>2. TilesBack(t, u)
        BY StepsBack
      <4> QED
        BY <4>1, <4>2 DEF TilesBack
    <3>3. j = n - 2 - l /\ i = 0 /\ k = n - 1 /\ l < n - 1
      BY <2>1, <3>1
    <3>4. NorthEast(n, u, k, l, t, j, i, 3)
      BY <3>2, <3>3 DEF NorthEast
    <3>5. (rot + 3) % 4 = 0
      BY <3>1
    <3>6. Faces(b, "northeast")
      BY <1>5 DEF Faces
    <3> QED
      BY <3>4, <3>5, <3>6 DEF CubeMeets
  <2>2. CASE i = 0 /\ j < n - 1 /\ ~ (t % 2 = 0)
    <3>1. u = (t - 1) % 6 /\ k = j + 1 /\ l = n - 1 /\ rot = 0
      BY <2>0, <2>2 DEF NorthWest
    <3>2. u % 2 = 0 /\ t = (u + 1) % 6
      <4>1. u = (t - 1) % 6 /\ ~ (t % 2 = 0)
        BY <2>2, <3>1
      <4>2. TilesBack(t, u)
        BY StepsBack
      <4> QED
        BY <4>1, <4>2 DEF TilesBack
    <3>3. j = k - 1 /\ i = 0 /\ k > 0 /\ l = n - 1
      BY <2>2, <3>1
    <3>4. SouthEast(n, u, k, l, t, j, i, 0)
      BY <3>2, <3>3 DEF SouthEast
    <3>5. (rot + 0) % 4 = 0
      BY <3>1
    <3>6. Faces(b, "southeast")
      BY <1>5 DEF Faces
    <3> QED
      BY <3>4, <3>5, <3>6 DEF CubeMeets
  <2>3. CASE i > 0 /\ j < n - 1
    <3>1. u = t /\ k = j + 1 /\ l = i - 1 /\ rot = 0
      BY <2>0, <2>3 DEF NorthWest
    <3>2. t = u /\ j = k - 1 /\ i = l + 1 /\ k > 0 /\ l < n - 1
      BY <2>3, <3>1
    <3>4. SouthEast(n, u, k, l, t, j, i, 0)
      BY <3>1, <3>2 DEF SouthEast
    <3>5. (rot + 0) % 4 = 0
      BY <3>1
    <3>6. Faces(b, "southeast")
      BY <1>5 DEF Faces
    <3> QED
      BY <3>4, <3>5, <3>6 DEF CubeMeets
  <2>4. CASE i > 0 /\ j = n - 1 /\ t % 2 = 0
    <3>1. u = (t + 2) % 6 /\ k = n - i /\ l = 0 /\ rot = 3
      BY <2>0, <2>4 DEF NorthWest
    <3>2. u % 2 = 0 /\ t = (u - 2) % 6
      <4>1. u = (t + 2) % 6 /\ t % 2 = 0
        BY <2>4, <3>1
      <4>2. TilesBack(t, u)
        BY StepsBack
      <4> QED
        BY <4>1, <4>2 DEF TilesBack
    <3>3. j = n - 1 /\ i = n - k /\ k > 0 /\ l = 0
      BY <2>4, <3>1
    <3>4. SouthWest(n, u, k, l, t, j, i, 1)
      BY <3>2, <3>3 DEF SouthWest
    <3>5. (rot + 1) % 4 = 0
      BY <3>1
    <3>6. Faces(b, "southwest")
      BY <1>5 DEF Faces
    <3> QED
      BY <3>4, <3>5, <3>6 DEF CubeMeets
  <2>5. CASE i > 0 /\ j = n - 1 /\ ~ (t % 2 = 0)
    <3>1. u = (t + 1) % 6 /\ k = 0 /\ l = i - 1 /\ rot = 0
      BY <2>0, <2>5 DEF NorthWest
    <3>2. u % 2 = 0 /\ t = (u - 1) % 6
      <4>1. u = (t + 1) % 6 /\ ~ (t % 2 = 0)
        BY <2>5, <3>1
      <4>2. TilesBack(t, u)
        BY StepsBack
      <4> QED
        BY <4>1, <4>2 DEF TilesBack
    <3>3. j = n - 1 /\ i = l + 1 /\ k = 0 /\ l < n - 1
      BY <2>5, <3>1
    <3>4. SouthEast(n, u, k, l, t, j, i, 0)
      BY <3>2, <3>3 DEF SouthEast
    <3>5. (rot + 0) % 4 = 0
      BY <3>1
    <3>6. Faces(b, "southeast")
      BY <1>5 DEF Faces
    <3> QED
      BY <3>4, <3>5, <3>6 DEF CubeMeets
  <2> QED
    BY <2>0, <2>1, <2>2, <2>3, <2>4, <2>5 DEF NorthWest
<1>6. CASE b = "northeast"
  <2>0. NorthEast(n, t, j, i, u, k, l, rot)
    BY <1>6 DEF CubeMeets
  <2>1. CASE j = n - 1 /\ i < n - 1 /\ t % 2 = 0
    <3>1. u = (t + 2) % 6 /\ k = n - 2 - i /\ l = 0 /\ rot = 3
      BY <2>0, <2>1 DEF NorthEast
    <3>2. u % 2 = 0 /\ t = (u - 2) % 6
      <4>1. u = (t + 2) % 6 /\ t % 2 = 0
        BY <2>1, <3>1
      <4>2. TilesBack(t, u)
        BY StepsBack
      <4> QED
        BY <4>1, <4>2 DEF TilesBack
    <3>3. j = n - 1 /\ i = n - 2 - k /\ l = 0 /\ k < n - 1
      BY <2>1, <3>1
    <3>4. NorthWest(n, u, k, l, t, j, i, 1)
      BY <3>2, <3>3 DEF NorthWest
    <3>5. (rot + 1) % 4 = 0
      BY <3>1
    <3>6. Faces(b, "northwest")
      BY <1>6 DEF Faces
    <3> QED
      BY <3>4, <3>5, <3>6 DEF CubeMeets
  <2>2. CASE j = n - 1 /\ i < n - 1 /\ ~ (t % 2 = 0)
    <3>1. u = (t + 1) % 6 /\ k = 0 /\ l = i + 1 /\ rot = 0
      BY <2>0, <2>2 DEF NorthEast
    <3>2. u % 2 = 0 /\ t = (u - 1) % 6
      <4>1. u = (t + 1) % 6 /\ ~ (t % 2 = 0)
        BY <2>2, <3>1
      <4>2. TilesBack(t, u)
        BY StepsBack
      <4> QED
        BY <4>1, <4>2 DEF TilesBack
    <3>3. j = n - 1 /\ i = l - 1 /\ k = 0 /\ l > 0
      BY <2>2, <3>1
    <3>4. SouthWest(n, u, k, l, t, j, i, 0)
      BY <3>2, <3>3 DEF SouthWest
    <3>5. (rot + 0) % 4 = 0
      BY <3>1
    <3>6. Faces(b, "southwest")
      BY <1>6 DEF Faces
    <3> QED
      BY <3>4, <3>5, <3>6 DEF CubeMeets
  <2>3. CASE j < n - 1 /\ i < n - 1
    <3>1. u = t /\ k = j + 1 /\ l = i + 1 /\ rot = 0
      BY <2>0, <2>3 DEF NorthEast
    <3>2. t = u /\ j = k - 1 /\ i = l - 1 /\ k > 0 /\ l > 0
      BY <2>3, <3>1
    <3>4. SouthWest(n, u, k, l, t, j, i, 0)
      BY <3>1, <3>2 DEF SouthWest
    <3>5. (rot + 0) % 4 = 0
      BY <3>1
    <3>6. Faces(b, "southwest")
      BY <1>6 DEF Faces
    <3> QED
      BY <3>4, <3>5, <3>6 DEF CubeMeets
  <2>4. CASE j < n - 1 /\ i = n - 1 /\ t % 2 = 0
    <3>1. u = (t + 1) % 6 /\ k = j + 1 /\ l = 0 /\ rot = 0
      BY <2>0, <2>4 DEF NorthEast
    <3>2. ~ (u % 2 = 0) /\ t = (u - 1) % 6
      <4>1. u = (t + 1) % 6 /\ t % 2 = 0
        BY <2>4, <3>1
      <4>2. TilesBack(t, u)
        BY StepsBack
      <4> QED
        BY <4>1, <4>2 DEF TilesBack
    <3>3. j = k - 1 /\ i = n - 1 /\ k > 0 /\ l = 0
      BY <2>4, <3>1
    <3>4. SouthWest(n, u, k, l, t, j, i, 0)
      BY <3>2, <3>3 DEF SouthWest
    <3>5. (rot + 0) % 4 = 0
      BY <3>1
    <3>6. Faces(b, "southwest")
      BY <1>6 DEF Faces
    <3> QED
      BY <3>4, <3>5, <3>6 DEF CubeMeets
  <2>5. CASE j < n - 1 /\ i = n - 1 /\ ~ (t % 2 = 0)
    <3>1. u = (t + 2) % 6 /\ k = 0 /\ l = n - 2 - j /\ rot = 1
      BY <2>0, <2>5 DEF NorthEast
    <3>2. ~ (u % 2 = 0) /\ t = (u - 2) % 6
      <4>1. u = (t + 2) % 6 /\ ~ (t % 2 = 0)
        BY <2>5, <3>1
      <4>2. TilesBack(t, u)
        BY StepsBack
      <4> QED
        BY <4>1, <4>2 DEF TilesBack
    <3>3. j = n - 2 - l /\ i = n - 1 /\ k = 0 /\ l < n - 1
      BY <2>5, <3>1
    <3>4. SouthEast(n, u, k, l, t, j, i, 3)
      BY <3>2, <3>3 DEF SouthEast
    <3>5. (rot + 3) % 4 = 0
      BY <3>1
    <3>6. Faces(b, "southeast")
      BY <1>6 DEF Faces
    <3> QED
      BY <3>4, <3>5, <3>6 DEF CubeMeets
  <2> QED
    BY <2>0, <2>1, <2>2, <2>3, <2>4, <2>5 DEF NorthEast
<1>7. CASE b = "southwest"
  <2>0. SouthWest(n, t, j, i, u, k, l, rot)
    BY <1>7 DEF CubeMeets
  <2>1. CASE j = 0 /\ i > 0 /\ t % 2 = 0
    <3>1. u = (t - 1) % 6 /\ k = n - 1 /\ l = i - 1 /\ rot = 0
      BY <2>0, <2>1 DEF SouthWest
    <3>2. ~ (u % 2 = 0) /\ t = (u + 1) % 6
      <4>1. u = (t - 1) % 6 /\ t % 2 = 0
        BY <2>1, <3>1
      <4>2. TilesBack(t, u)
        BY StepsBack
      <4> QED
        BY <4>1, <4>2 DEF TilesBack
    <3>3. j = 0 /\ i = l + 1 /\ k = n - 1 /\ l < n - 1
      BY <2>1, <3>1
    <3>4. NorthEast(n, u, k, l, t, j, i, 0)
      BY <3>2, <3>3 DEF NorthEast
    <3>5. (rot + 0) % 4 = 0
      BY <3>1
    <3>6. Faces(b, "northeast")
      BY <1>7 DEF Faces
    <3> QED
      BY <3>4, <3>5, <3>6 DEF CubeMeets
  <2>2. CASE j = 0 /\ i > 0 /\ ~ (t % 2 = 0)
    <3>1. u = (t - 2) % 6 /\ k = n - i /\ l = n - 1 /\ rot = 3
      BY <2>0, <2>2 DEF SouthWest
    <3>2. ~ (u % 2 = 0) /\ t = (u + 2) % 6
      <4>1. u = (t - 2) % 6 /\ ~ (t % 2 = 0)
        BY <2>2, <3>1
      <4>2. TilesBack(t, u)
        BY StepsBack
      <4> QED
        BY <4>1, <4>2 DEF TilesBack
    <3>3. j = 0 /\ i = n - k /\ k > 0 /\ l = n - 1
      BY <2>2, <3>1
    <3>4. SouthEast(n, u, k, l, t, j, i, 1)
      BY <3>2, <3>3 DEF SouthEast
    <3>5. (rot + 1) % 4 = 0
      BY <3>1
    <3>6. Faces(b, "southeast")
      BY <1>7 DEF Faces
    <3> QED
      BY <3>4, <3>5, <3>6 DEF CubeMeets
  <2>3. CASE j > 0 /\ i > 0
    <3>1. u = t /\ k = j - 1 /\ l = i - 1 /\ rot = 0
      BY <2>0, <2>3 DEF SouthWest
    <3>2. t = u /\ j = k + 1 /\ i = l + 1 /\ k < n - 1 /\ l < n - 1
      BY <2>3, <3>1
    <3>4. NorthEast(n, u, k, l, t, j, i, 0)
      BY <3>1, <3>2 DEF NorthEast
    <3>5. (rot + 0) % 4 = 0
      BY <3>1
    <3>6. Faces(b, "northeast")
      BY <1>7 DEF Faces
    <3> QED
      BY <3>4, <3>5, <3>6 DEF CubeMeets
  <2>4. CASE j > 0 /\ i = 0 /\ t % 2 = 0
    <3>1. u = (t - 2) % 6 /\ k = n - 1 /\ l = n - j /\ rot = 1
      BY <2>0, <2>4 DEF SouthWest
    <3>2. u % 2 = 0 /\ t = (u + 2) % 6
      <4>1. u = (t - 2) % 6 /\ t % 2 = 0
        BY <2>4, <3>1
      <4>2. TilesBack(t, u)
        BY StepsBack
      <4> QED
        BY <4>1, <4>2 DEF TilesBack
    <3>3. j = n - l /\ i = 0 /\ l > 0 /\ k = n - 1
      BY <2>4, <3>1
    <3>4. NorthWest(n, u, k, l, t, j, i, 3)
      BY <3>2, <3>3 DEF NorthWest
    <3>5. (rot + 3) % 4 = 0
      BY <3>1
    <3>6. Faces(b, "northwest")
      BY <1>7 DEF Faces
    <3> QED
      BY <3>4, <3>5, <3>6 DEF CubeMeets
  <2>5. CASE j > 0 /\ i = 0 /\ ~ (t % 2 = 0)
    <3>1. u = (t - 1) % 6 /\ k = j - 1 /\ l = n - 1 /\ rot = 0
      BY <2>0, <2>5 DEF SouthWest
    <3>2. u % 2 = 0 /\ t = (u + 1) % 6
      <4>1. u = (t - 1) % 6 /\ ~ (t % 2 = 0)
        BY <2>5, <3>1
      <4>2. TilesBack(t, u)
        BY StepsBack
      <4> QED
        BY <4>1, <4>2 DEF TilesBack
    <3>3. j = k + 1 /\ i = 0 /\ k < n - 1 /\ l = n - 1
      BY <2>5, <3>1
    <3>4. NorthEast(n, u, k, l, t, j, i, 0)
      BY <3>2, <3>3 DEF NorthEast
    <3>5. (rot + 0) % 4 = 0
      BY <3>1
    <3>6. Faces(b, "northeast")
      BY <1>7 DEF Faces
    <3> QED
      BY <3>4, <3>5, <3>6 DEF CubeMeets
  <2> QED
    BY <2>0, <2>1, <2>2, <2>3, <2>4, <2>5 DEF SouthWest
<1>8. CASE b = "southeast"
  <2>0. SouthEast(n, t, j, i, u, k, l, rot)
    BY <1>8 DEF CubeMeets
  <2>1. CASE j = 0 /\ i < n - 1 /\ t % 2 = 0
    <3>1. u = (t - 1) % 6 /\ k = n - 1 /\ l = i + 1 /\ rot = 0
      BY <2>0, <2>1 DEF SouthEast
    <3>2. ~ (u % 2 = 0) /\ t = (u + 1) % 6
      <4>1. u = (t - 1) % 6 /\ t % 2 = 0
        BY <2>1, <3>1
      <4>2. TilesBack(t, u)
        BY StepsBack
      <4> QED
        BY <4>1, <4>2 DEF TilesBack
    <3>3. j = 0 /\ i = l - 1 /\ l > 0 /\ k = n - 1
      BY <2>1, <3>1
    <3>4. NorthWest(n, u, k, l, t, j, i, 0)
      BY <3>2, <3>3 DEF NorthWest
    <3>5. (rot + 0) % 4 = 0
      BY <3>1
    <3>6. Faces(b, "northwest")
      BY <1>8 DEF Faces
    <3> QED
      BY <3>4, <3>5, <3>6 DEF CubeMeets
  <2>2. CASE j = 0 /\ i < n - 1 /\ ~ (t % 2 = 0)
    <3>1. u = (t - 2) % 6 /\ k = n - 2 - i /\ l = n - 1 /\ rot = 3
      BY <2>0, <2>2 DEF SouthEast
    <3>2. ~ (u % 2 = 0) /\ t = (u + 2) % 6
      <4>1. u = (t - 2) % 6 /\ ~ (t % 2 = 0)
        BY <2>2, <3>1
      <4>2. TilesBack(t, u)
        BY StepsBack
      <4> QED
        BY <4>1, <4>2 DEF TilesBack
    <3>3. j = 0 /\ i = n - 2 - k /\ k < n - 1 /\ l = n - 1
      BY <2>2, <3>1
    <3>4. NorthEast(n, u, k, l, t, j, i, 1)
      BY <3>2, <3>3 DEF NorthEast
    <3>5. (rot + 1) % 4 = 0
      BY <3>1
    <3>6. Faces(b, "northeast")
      BY <1>8 DEF Faces
    <3> QED
      BY <3>4, <3>5, <3>6 DEF CubeMeets
  <2>3. CASE j > 0 /\ i < n - 1
    <3>1. u = t /\ k = j - 1 /\ l = i + 1 /\ rot = 0
      BY <2>0, <2>3 DEF SouthEast
    <3>2. t = u /\ j = k + 1 /\ i = l - 1 /\ l > 0 /\ k < n - 1
      BY <2>3, <3>1
    <3>4. NorthWest(n, u, k, l, t, j, i, 0)
      BY <3>1, <3>2 DEF NorthWest
    <3>5. (rot + 0) % 4 = 0
      BY <3>1
    <3>6. Faces(b, "northwest")
      BY <1>8 DEF Faces
    <3> QED
      BY <3>4, <3>5, <3>6 DEF CubeMeets
  <2>4. CASE j > 0 /\ i = n - 1 /\ t % 2 = 0
    <3>1. u = (t + 1) % 6 /\ k = j - 1 /\ l = 0 /\ rot = 0
      BY <2>0, <2>4 DEF SouthEast
    <3>2. ~ (u % 2 = 0) /\ t = (u - 1) % 6
      <4>1. u = (t + 1) % 6 /\ t % 2 = 0
        BY <2>4, <3>1
      <4>2. TilesBack(t, u)
        BY StepsBack
      <4> QED
        BY <4>1, <4>2 DEF TilesBack
    <3>3. j = k + 1 /\ i = n - 1 /\ l = 0 /\ k < n - 1
      BY <2>4, <3>1
    <3>4. NorthWest(n, u, k, l, t, j, i, 0)
      BY <3>2, <3>3 DEF NorthWest
    <3>5. (rot + 0) % 4 = 0
      BY <3>1
    <3>6. Faces(b, "northwest")
      BY <1>8 DEF Faces
    <3> QED
      BY <3>4, <3>5, <3>6 DEF CubeMeets
  <2>5. CASE j > 0 /\ i = n - 1 /\ ~ (t % 2 = 0)
    <3>1. u = (t + 2) % 6 /\ k = 0 /\ l = n - j /\ rot = 1
      BY <2>0, <2>5 DEF SouthEast
    <3>2. ~ (u % 2 = 0) /\ t = (u - 2) % 6
      <4>1. u = (t + 2) % 6 /\ ~ (t % 2 = 0)
        BY <2>5, <3>1
      <4>2. TilesBack(t, u)
        BY StepsBack
      <4> QED
        BY <4>1, <4>2 DEF TilesBack
    <3>3. j = n - l /\ i = n - 1 /\ k = 0 /\ l > 0
      BY <2>5, <3>1
    <3>4. SouthWest(n, u, k, l, t, j, i, 3)
      BY <3>2, <3>3 DEF SouthWest
    <3>5. (rot + 3) % 4 = 0
      BY <3>1
    <3>6. Faces(b, "southwest")
      BY <1>8 DEF Faces
    <3> QED
      BY <3>4, <3>5, <3>6 DEF CubeMeets
  <2> QED
    BY <2>0, <2>1, <2>2, <2>3, <2>4, <2>5 DEF SouthEast
<1> QED
  BY <1>1, <1>2, <1>3, <1>4, <1>5, <1>6, <1>7, <1>8 DEF CubeMeets

-----------------------------------------------------------------------------
(* The boundaries of the cubed sphere are that relation.                   *)

Sides == {"west", "east", "north", "south", "northwest", "northeast", "southwest", "southeast"}
EdgeSides == {"west", "east", "north", "south"}

\* OnCube of cube_boundary: the rank number is taken modulo all ranks.
OnSphere(lay, b) ==
  IF b = Halos!NoBoundary THEN b ELSE [b EXCEPT !.to = @ % (6 * Halos!tile_ranks(lay))]

\* So the number of the tile is taken modulo six.
LEMMA Wraps ==
  ASSUME NEW n \in Nat \ {0}, NEW lay \in Lay, lay[1] = n, lay[2] = n, NEW v \in Int,
         NEW k \in 0..(n - 1), NEW l \in 0..(n - 1), NEW rot \in Nat, NEW u, u = v % 6,
         NEW edge, edge = At(lay, v, k, l, rot)
  PROVE  OnSphere(lay, edge) = At(lay, u, k, l, rot)
<1>1. PICK m, w, q, all : m = n * n /\ w = k * n + l /\ q = v \div 6 /\ all = 6 * m
  OBVIOUS
<1>2. m \in Nat \ {0} /\ Halos!tile_ranks(lay) = m
  BY <1>1, SquareFacts
<1>3. w \in 0..(m - 1)
  <2>1. k * n \in Nat /\ k * n <= (n - 1) * n
    BY Z3
  <2>2. (n - 1) * n = m - n
    BY <1>1, Z3
  <2> QED
    BY <1>1, <1>2, <2>1, <2>2
<1>4. u \in 0..5 /\ q \in Int /\ v = 6 * q + u
  BY <1>1
<1>5. PICK a, b : a = u * m + w /\ b = v * m + w
  OBVIOUS
<1>6. a \in 0..(all - 1) /\ all \in Nat \ {0} /\ b \in Int
  <2>1. u * m \in Nat /\ u * m <= 5 * m
    BY <1>2, <1>4, Z3
  <2>2. v * m \in Int
    BY <1>2, Z3
  <2> QED
    BY <1>1, <1>2, <1>3, <1>5, <2>1, <2>2
<1>7. b = q * all + a
  <2>1. v * m = q * all + u * m
    BY <1>1, <1>2, <1>4, Z3
  <2>2. q * all \in Int /\ u * m \in Int
    BY <1>1, <1>2, <1>4, Z3
  <2> QED
    BY <1>3, <1>5, <2>1, <2>2
<1>8. b % all = a
  BY <1>4, <1>6, <1>7, DivUnique
<1>9. edge = [to |-> b, rot |-> rot] /\ At(lay, u, k, l, rot) = [to |-> a, rot |-> rot]
  BY <1>1, <1>5 DEF At, RankAt, Halos!Boundary
<1>10. edge # Halos!NoBoundary
  BY <1>9 DEF Halos!NoBoundary, Halos!Boundary
<1>11. OnSphere(lay, edge) = [to |-> b % all, rot |-> rot]
  BY <1>1, <1>2, <1>9, <1>10 DEF OnSphere
<1> QED
  BY <1>8, <1>9, <1>11

\* The entries of the dictionary of boundaries.
LEMMA CubeBoundary ==
  ASSUME NEW lay, NEW r, NEW here, here = Halos!cube_boundary(lay, r)
  PROVE  /\ DOMAIN here = Sides
         /\ here["west"] = OnSphere(lay, Halos!left_edge(lay, r))
         /\ here["east"] = OnSphere(lay, Halos!right_edge(lay, r))
         /\ here["north"] = OnSphere(lay, Halos!top_edge(lay, r))
         /\ here["south"] = OnSphere(lay, Halos!bottom_edge(lay, r))
         /\ here["northwest"] = OnSphere(lay, Halos!top_left_corner(lay, r))
         /\ here["northeast"] = OnSphere(lay, Halos!top_right_corner(lay, r))
         /\ here["southwest"] = OnSphere(lay, Halos!bottom_left_corner(lay, r))
         /\ here["southeast"] = OnSphere(lay, Halos!bottom_right_corner(lay, r))
<1>1. here = [west |-> OnSphere(lay, Halos!left_edge(lay, r)),
              east |-> OnSphere(lay, Halos!right_edge(lay, r)),
              north |-> OnSphere(lay, Halos!top_edge(lay, r)),
              south |-> OnSphere(lay, Halos!bottom_edge(lay, r)),
              northwest |-> OnSphere(lay, Halos!top_left_corner(lay, r)),
              northeast |-> OnSphere(lay, Halos!top_right_corner(lay, r)),
              southwest |-> OnSphere(lay, Halos!bottom_left_corner(lay, r)),
              southeast |-> OnSphere(lay, Halos!bottom_right_corner(lay, r))]
  BY Zenon DEF Halos!cube_boundary, OnSphere
<1> QED
  BY <1>1 DEF Sides

-----------------------------------------------------------------------------
(* The relation gives the boundaries of a rank, and nothing else does.     *)

\* Beyond boundary b of the rank with these boundaries.
Gives(here, b, lay, u, k, l, rot) ==
  b \in DOMAIN here /\ here[b] = At(lay, u, k, l, rot) /\ rot \in Nat

LEMMA CubeMeetsBoundary ==
  ASSUME NEW n \in Nat \ {0}, NEW lay \in Lay, lay[1] = n, lay[2] = n,
         NEW t \in 0..5, NEW j \in 0..(n - 1), NEW i \in 0..(n - 1),
         NEW u \in 0..5, NEW k \in 0..(n - 1), NEW l \in 0..(n - 1), NEW rot, NEW b,
         CubeMeets(b, n, t, j, i, u, k, l, rot),
         NEW r, r = RankAt(lay, t, j, i), NEW here, here = Halos!cube_boundary(lay, r)
  PROVE  Gives(here, b, lay, u, k, l, rot)
<1>0. SUFFICES here[b] = At(lay, u, k, l, rot) /\ b \in DOMAIN here /\ rot \in Nat
  BY DEF Gives
<1>1. CubeEdgesAt(lay, t, j, i, r, n)
  BY CubeEdges
<1>2. TopLeftAt(lay, t, j, i, r, n)
  BY TopLeftCorner
<1>3. TopRightAt(lay, t, j, i, r, n)
  BY TopRightCorner
<1>4. BottomLeftAt(lay, t, j, i, r, n)
  BY BottomLeftCorner
<1>5. BottomRightAt(lay, t, j, i, r, n)
  BY BottomRightCorner
<1>6. PICK edge : /\ b = "west" => edge = Halos!left_edge(lay, r)
                  /\ b = "east" => edge = Halos!right_edge(lay, r)
                  /\ b = "north" => edge = Halos!top_edge(lay, r)
                  /\ b = "south" => edge = Halos!bottom_edge(lay, r)
                  /\ b = "northwest" => edge = Halos!top_left_corner(lay, r)
                  /\ b = "northeast" => edge = Halos!top_right_corner(lay, r)
                  /\ b = "southwest" => edge = Halos!bottom_left_corner(lay, r)
                  /\ b = "southeast" => edge = Halos!bottom_right_corner(lay, r)
  <2>1. b \in Sides
    BY DEF CubeMeets, Sides
  <2>2. CASE b = "west"
    BY <2>2
  <2>3. CASE b = "east"
    BY <2>3
  <2>4. CASE b = "north"
    BY <2>4
  <2>5. CASE b = "south"
    BY <2>5
  <2>6. CASE b = "northwest"
    BY <2>6
  <2>7. CASE b = "northeast"
    BY <2>7
  <2>8. CASE b = "southwest"
    BY <2>8
  <2>9. CASE b = "southeast"
    BY <2>9
  <2> QED
    BY <2>1, <2>2, <2>3, <2>4, <2>5, <2>6, <2>7, <2>8, <2>9 DEF Sides
<1>7. b \in DOMAIN here /\ here[b] = OnSphere(lay, edge)
  <2>1. b \in Sides
    BY DEF CubeMeets, Sides
  <2>2. DOMAIN here = Sides
    BY CubeBoundary
  <2>3. CASE b = "west"
    <3>1. here["west"] = OnSphere(lay, Halos!left_edge(lay, r))
      BY CubeBoundary
    <3> QED
      BY <1>6, <2>1, <2>2, <2>3, <3>1
  <2>4. CASE b = "east"
    <3>1. here["east"] = OnSphere(lay, Halos!right_edge(lay, r))
      BY CubeBoundary
    <3> QED
      BY <1>6, <2>1, <2>2, <2>4, <3>1
  <2>5. CASE b = "north"
    <3>1. here["north"] = OnSphere(lay, Halos!top_edge(lay, r))
      BY CubeBoundary
    <3> QED
      BY <1>6, <2>1, <2>2, <2>5, <3>1
  <2>6. CASE b = "south"
    <3>1. here["south"] = OnSphere(lay, Halos!bottom_edge(lay, r))
      BY CubeBoundary
    <3> QED
      BY <1>6, <2>1, <2>2, <2>6, <3>1
  <2>7. CASE b = "northwest"
    <3>1. here["northwest"] = OnSphere(lay, Halos!top_left_corner(lay, r))
      BY CubeBoundary
    <3> QED
      BY <1>6, <2>1, <2>2, <2>7, <3>1
  <2>8. CASE b = "northeast"
    <3>1. here["northeast"] = OnSphere(lay, Halos!top_right_corner(lay, r))
      BY CubeBoundary
    <3> QED
      BY <1>6, <2>1, <2>2, <2>8, <3>1
  <2>9. CASE b = "southwest"
    <3>1. here["southwest"] = OnSphere(lay, Halos!bottom_left_corner(lay, r))
      BY CubeBoundary
    <3> QED
      BY <1>6, <2>1, <2>2, <2>9, <3>1
  <2>10. CASE b = "southeast"
    <3>1. here["southeast"] = OnSphere(lay, Halos!bottom_right_corner(lay, r))
      BY CubeBoundary
    <3> QED
      BY <1>6, <2>1, <2>2, <2>10, <3>1
  <2> QED
    BY <2>1, <2>2, <2>3, <2>4, <2>5, <2>6, <2>7, <2>8, <2>9, <2>10 DEF Sides
<1>8. ASSUME NEW v \in Int, u = v % 6, rot \in Nat, edge = At(lay, v, k, l, rot)
      PROVE  here[b] = At(lay, u, k, l, rot)
  BY <1>7, <1>8, Wraps
<1>9. t = t % 6
  OBVIOUS
<1>10. CASE b = "west"
  <2>0. West(n, t, j, i, u, k, l, rot)
    BY <1>10 DEF CubeMeets
  <2>1. CASE i > 0
    <3>1. u = t /\ k = j /\ l = i - 1 /\ rot = 0
      BY <2>0, <2>1 DEF West
    <3>2. edge = At(lay, t, k, l, rot)
      BY <1>6, <1>10, <2>1, <3>1, <1>1 DEF CubeEdgesAt
    <3> QED
      BY <1>7, <1>8, <1>9, <3>1, <3>2
  <2>2. CASE i = 0 /\ t % 2 = 0
    <3>1. u = (t - 2) % 6 /\ k = n - 1 /\ l = n - 1 - j /\ rot = 1
      BY <2>0, <2>2 DEF West
    <3>2. edge = At(lay, t - 2, k, l, rot)
      BY <1>6, <1>10, <2>2, <3>1, <1>1 DEF CubeEdgesAt
    <3> QED
      BY <1>7, <1>8, <3>1, <3>2
  <2>3. CASE i = 0 /\ ~ (t % 2 = 0)
    <3>1. u = (t - 1) % 6 /\ k = j /\ l = n - 1 /\ rot = 0
      BY <2>0, <2>3 DEF West
    <3>2. edge = At(lay, t - 1, k, l, rot)
      BY <1>6, <1>10, <2>3, <3>1, <1>1 DEF CubeEdgesAt
    <3> QED
      BY <1>7, <1>8, <3>1, <3>2
  <2> QED
    BY <2>0, <2>1, <2>2, <2>3 DEF West
<1>11. CASE b = "east"
  <2>0. East(n, t, j, i, u, k, l, rot)
    BY <1>11 DEF CubeMeets
  <2>1. CASE i < n - 1
    <3>1. u = t /\ k = j /\ l = i + 1 /\ rot = 0
      BY <2>0, <2>1 DEF East
    <3>2. edge = At(lay, t, k, l, rot)
      BY <1>6, <1>11, <2>1, <3>1, <1>1 DEF CubeEdgesAt
    <3> QED
      BY <1>7, <1>8, <1>9, <3>1, <3>2
  <2>2. CASE i = n - 1 /\ t % 2 = 0
    <3>1. u = (t + 1) % 6 /\ k = j /\ l = 0 /\ rot = 0
      BY <2>0, <2>2 DEF East
    <3>2. edge = At(lay, t + 1, k, l, rot)
      BY <1>6, <1>11, <2>2, <3>1, <1>1 DEF CubeEdgesAt
    <3> QED
      BY <1>7, <1>8, <3>1, <3>2
  <2>3. CASE i = n - 1 /\ ~ (t % 2 = 0)
    <3>1. u = (t + 2) % 6 /\ k = 0 /\ l = n - 1 - j /\ rot = 1
      BY <2>0, <2>3 DEF East
    <3>2. edge = At(lay, t + 2, k, l, rot)
      BY <1>6, <1>11, <2>3, <3>1, <1>1 DEF CubeEdgesAt
    <3> QED
      BY <1>7, <1>8, <3>1, <3>2
  <2> QED
    BY <2>0, <2>1, <2>2, <2>3 DEF East
<1>12. CASE b = "north"
  <2>0. North(n, t, j, i, u, k, l, rot)
    BY <1>12 DEF CubeMeets
  <2>1. CASE j < n - 1
    <3>1. u = t /\ k = j + 1 /\ l = i /\ rot = 0
      BY <2>0, <2>1 DEF North
    <3>2. edge = At(lay, t, k, l, rot)
      BY <1>6, <1>12, <2>1, <3>1, <1>1 DEF CubeEdgesAt
    <3> QED
      BY <1>7, <1>8, <1>9, <3>1, <3>2
  <2>2. CASE j = n - 1 /\ t % 2 = 0
    <3>1. u = (t + 2) % 6 /\ k = n - 1 - i /\ l = 0 /\ rot = 3
      BY <2>0, <2>2 DEF North
    <3>2. edge = At(lay, t + 2, k, l, rot)
      BY <1>6, <1>12, <2>2, <3>1, <1>1 DEF CubeEdgesAt
    <3> QED
      BY <1>7, <1>8, <3>1, <3>2
  <2>3. CASE j = n - 1 /\ ~ (t % 2 = 0)
    <3>1. u = (t + 1) % 6 /\ k = 0 /\ l = i /\ rot = 0
      BY <2>0, <2>3 DEF North
    <3>2. edge = At(lay, t + 1, k, l, rot)
      BY <1>6, <1>12, <2>3, <3>1, <1>1 DEF CubeEdgesAt
    <3> QED
      BY <1>7, <1>8, <3>1, <3>2
  <2> QED
    BY <2>0, <2>1, <2>2, <2>3 DEF North
<1>13. CASE b = "south"
  <2>0. South(n, t, j, i, u, k, l, rot)
    BY <1>13 DEF CubeMeets
  <2>1. CASE j > 0
    <3>1. u = t /\ k = j - 1 /\ l = i /\ rot = 0
      BY <2>0, <2>1 DEF South
    <3>2. edge = At(lay, t, k, l, rot)
      BY <1>6, <1>13, <2>1, <3>1, <1>1 DEF CubeEdgesAt
    <3> QED
      BY <1>7, <1>8, <1>9, <3>1, <3>2
  <2>2. CASE j = 0 /\ t % 2 = 0
    <3>1. u = (t - 1) % 6 /\ k = n - 1 /\ l = i /\ rot = 0
      BY <2>0, <2>2 DEF South
    <3>2. edge = At(lay, t - 1, k, l, rot)
      BY <1>6, <1>13, <2>2, <3>1, <1>1 DEF CubeEdgesAt
    <3> QED
      BY <1>7, <1>8, <3>1, <3>2
  <2>3. CASE j = 0 /\ ~ (t % 2 = 0)
    <3>1. u = (t - 2) % 6 /\ k = n - 1 - i /\ l = n - 1 /\ rot = 3
      BY <2>0, <2>3 DEF South
    <3>2. edge = At(lay, t - 2, k, l, rot)
      BY <1>6, <1>13, <2>3, <3>1, <1>1 DEF CubeEdgesAt
    <3> QED
      BY <1>7, <1>8, <3>1, <3>2
  <2> QED
    BY <2>0, <2>1, <2>2, <2>3 DEF South
<1>14. CASE b = "northwest"
  <2>0. NorthWest(n, t, j, i, u, k, l, rot)
    BY <1>14 DEF CubeMeets
  <2>1. CASE i = 0 /\ j < n - 1 /\ t % 2 = 0
    <3>1. u = (t - 2) % 6 /\ k = n - 1 /\ l = n - 2 - j /\ rot = 1
      BY <2>0, <2>1 DEF NorthWest
    <3>2. edge = At(lay, t - 2, k, l, rot)
      BY <1>6, <1>14, <2>1, <3>1, <1>2 DEF TopLeftAt
    <3> QED
      BY <1>7, <1>8, <3>1, <3>2
  <2>2. CASE i = 0 /\ j < n - 1 /\ ~ (t % 2 = 0)
    <3>1. u = (t - 1) % 6 /\ k = j + 1 /\ l = n - 1 /\ rot = 0
      BY <2>0, <2>2 DEF NorthWest
    <3>2. edge = At(lay, t - 1, k, l, rot)
      BY <1>6, <1>14, <2>2, <3>1, <1>2 DEF TopLeftAt
    <3> QED
      BY <1>7, <1>8, <3>1, <3>2
  <2>3. CASE i > 0 /\ j < n - 1
    <3>1. u = t /\ k = j + 1 /\ l = i - 1 /\ rot = 0
      BY <2>0, <2>3 DEF NorthWest
    <3>2. edge = At(lay, t, k, l, rot)
      BY <1>6, <1>14, <2>3, <3>1, <1>2 DEF TopLeftAt
    <3> QED
      BY <1>7, <1>8, <1>9, <3>1, <3>2
  <2>4. CASE i > 0 /\ j = n - 1 /\ t % 2 = 0
    <3>1. u = (t + 2) % 6 /\ k = n - i /\ l = 0 /\ rot = 3
      BY <2>0, <2>4 DEF NorthWest
    <3>2. edge = At(lay, t + 2, k, l, rot)
      BY <1>6, <1>14, <2>4, <3>1, <1>2 DEF TopLeftAt
    <3> QED
      BY <1>7, <1>8, <3>1, <3>2
  <2>5. CASE i > 0 /\ j = n - 1 /\ ~ (t % 2 = 0)
    <3>1. u = (t + 1) % 6 /\ k = 0 /\ l = i - 1 /\ rot = 0
      BY <2>0, <2>5 DEF NorthWest
    <3>2. edge = At(lay, t + 1, k, l, rot)
      BY <1>6, <1>14, <2>5, <3>1, <1>2 DEF TopLeftAt
    <3> QED
      BY <1>7, <1>8, <3>1, <3>2
  <2> QED
    BY <2>0, <2>1, <2>2, <2>3, <2>4, <2>5 DEF NorthWest
<1>15. CASE b = "northeast"
  <2>0. NorthEast(n, t, j, i, u, k, l, rot)
    BY <1>15 DEF CubeMeets
  <2>1. CASE j = n - 1 /\ i < n - 1 /\ t % 2 = 0
    <3>1. u = (t + 2) % 6 /\ k = n - 2 - i /\ l = 0 /\ rot = 3
      BY <2>0, <2>1 DEF NorthEast
    <3>2. edge = At(lay, t + 2, k, l, rot)
      BY <1>6, <1>15, <2>1, <3>1, <1>3 DEF TopRightAt
    <3> QED
      BY <1>7, <1>8, <3>1, <3>2
  <2>2. CASE j = n - 1 /\ i < n - 1 /\ ~ (t % 2 = 0)
    <3>1. u = (t + 1) % 6 /\ k = 0 /\ l = i + 1 /\ rot = 0
      BY <2>0, <2>2 DEF NorthEast
    <3>2. edge = At(lay, t + 1, k, l, rot)
      BY <1>6, <1>15, <2>2, <3>1, <1>3 DEF TopRightAt
    <3> QED
      BY <1>7, <1>8, <3>1, <3>2
  <2>3. CASE j < n - 1 /\ i < n - 1
    <3>1. u = t /\ k = j + 1 /\ l = i + 1 /\ rot = 0
      BY <2>0, <2>3 DEF NorthEast
    <3>2. edge = At(lay, t, k, l, rot)
      BY <1>6, <1>15, <2>3, <3>1, <1>3 DEF TopRightAt
    <3> QED
      BY <1>7, <1>8, <1>9, <3>1, <3>2
  <2>4. CASE j < n - 1 /\ i = n - 1 /\ t % 2 = 0
    <3>1. u = (t + 1) % 6 /\ k = j + 1 /\ l = 0 /\ rot = 0
      BY <2>0, <2>4 DEF NorthEast
    <3>2. edge = At(lay, t + 1, k, l, rot)
      BY <1>6, <1>15, <2>4, <3>1, <1>3 DEF TopRightAt
    <3> QED
      BY <1>7, <1>8, <3>1, <3>2
  <2>5. CASE j < n - 1 /\ i = n - 1 /\ ~ (t % 2 = 0)
    <3>1. u = (t + 2) % 6 /\ k = 0 /\ l = n - 2 - j /\ rot = 1
      BY <2>0, <2>5 DEF NorthEast
    <3>2. edge = At(lay, t + 2, k, l, rot)
      BY <1>6, <1>15, <2>5, <3>1, <1>3 DEF TopRightAt
    <3> QED
      BY <1>7, <1>8, <3>1, <3>2
  <2> QED
    BY <2>0, <2>1, <2>2, <2>3, <2>4, <2>5 DEF NorthEast
<1>16. CASE b = "southwest"
  <2>0. SouthWest(n, t, j, i, u, k, l, rot)
    BY <1>16 DEF CubeMeets
  <2>1. CASE j = 0 /\ i > 0 /\ t % 2 = 0
    <3>1. u = (t - 1) % 6 /\ k = n - 1 /\ l = i - 1 /\ rot = 0
      BY <2>0, <2>1 DEF SouthWest
    <3>2. edge = At(lay, t - 1, k, l, rot)
      BY <1>6, <1>16, <2>1, <3>1, <1>4 DEF BottomLeftAt
    <3> QED
      BY <1>7, <1>8, <3>1, <3>2
  <2>2. CASE j = 0 /\ i > 0 /\ ~ (t % 2 = 0)
    <3>1. u = (t - 2) % 6 /\ k = n - i /\ l = n - 1 /\ rot = 3
      BY <2>0, <2>2 DEF SouthWest
    <3>2. edge = At(lay, t - 2, k, l, rot)
      BY <1>6, <1>16, <2>2, <3>1, <1>4 DEF BottomLeftAt
    <3> QED
      BY <1>7, <1>8, <3>1, <3>2
  <2>3. CASE j > 0 /\ i > 0
    <3>1. u = t /\ k = j - 1 /\ l = i - 1 /\ rot = 0
      BY <2>0, <2>3 DEF SouthWest
    <3>2. edge = At(lay, t, k, l, rot)
      BY <1>6, <1>16, <2>3, <3>1, <1>4 DEF BottomLeftAt
    <3> QED
      BY <1>7, <1>8, <1>9, <3>1, <3>2
  <2>4. CASE j > 0 /\ i = 0 /\ t % 2 = 0
    <3>1. u = (t - 2) % 6 /\ k = n - 1 /\ l = n - j /\ rot = 1
      BY <2>0, <2>4 DEF SouthWest
    <3>2. edge = At(lay, t - 2, k, l, rot)
      BY <1>6, <1>16, <2>4, <3>1, <1>4 DEF BottomLeftAt
    <3> QED
      BY <1>7, <1>8, <3>1, <3>2
  <2>5. CASE j > 0 /\ i = 0 /\ ~ (t % 2 = 0)
    <3>1. u = (t - 1) % 6 /\ k = j - 1 /\ l = n - 1 /\ rot = 0
      BY <2>0, <2>5 DEF SouthWest
    <3>2. edge = At(lay, t - 1, k, l, rot)
      BY <1>6, <1>16, <2>5, <3>1, <1>4 DEF BottomLeftAt
    <3> QED
      BY <1>7, <1>8, <3>1, <3>2
  <2> QED
    BY <2>0, <2>1, <2>2, <2>3, <2>4, <2>5 DEF SouthWest
<1>17. CASE b = "southeast"
  <2>0. SouthEast(n, t, j, i, u, k, l, rot)
    BY <1>17 DEF CubeMeets
  <2>1. CASE j = 0 /\ i < n - 1 /\ t % 2 = 0
    <3>1. u = (t - 1) % 6 /\ k = n - 1 /\ l = i + 1 /\ rot = 0
      BY <2>0, <2>1 DEF SouthEast
    <3>2. edge = At(lay, t - 1, k, l, rot)
      BY <1>6, <1>17, <2>1, <3>1, <1>5 DEF BottomRightAt
    <3> QED
      BY <1>7, <1>8, <3>1, <3>2
  <2>2. CASE j = 0 /\ i < n - 1 /\ ~ (t % 2 = 0)
    <3>1. u = (t - 2) % 6 /\ k = n - 2 - i /\ l = n - 1 /\ rot = 3
      BY <2>0, <2>2 DEF SouthEast
    <3>2. edge = At(lay, t - 2, k, l, rot)
      BY <1>6, <1>17, <2>2, <3>1, <1>5 DEF BottomRightAt
    <3> QED
      BY <1>7, <1>8, <3>1, <3>2
  <2>3. CASE j > 0 /\ i < n - 1
    <3>1. u = t /\ k = j - 1 /\ l = i + 1 /\ rot = 0
      BY <2>0, <2>3 DEF SouthEast
    <3>2. edge = At(lay, t, k, l, rot)
      BY <1>6, <1>17, <2>3, <3>1, <1>5 DEF BottomRightAt
    <3> QED
      BY <1>7, <1>8, <1>9, <3>1, <3>2
  <2>4. CASE j > 0 /\ i = n - 1 /\ t % 2 = 0
    <3>1. u = (t + 1) % 6 /\ k = j - 1 /\ l = 0 /\ rot = 0
      BY <2>0, <2>4 DEF SouthEast
    <3>2. edge = At(lay, t + 1, k, l, rot)
      BY <1>6, <1>17, <2>4, <3>1, <1>5 DEF BottomRightAt
    <3> QED
      BY <1>7, <1>8, <3>1, <3>2
  <2>5. CASE j > 0 /\ i = n - 1 /\ ~ (t % 2 = 0)
    <3>1. u = (t + 2) % 6 /\ k = 0 /\ l = n - j /\ rot = 1
      BY <2>0, <2>5 DEF SouthEast
    <3>2. edge = At(lay, t + 2, k, l, rot)
      BY <1>6, <1>17, <2>5, <3>1, <1>5 DEF BottomRightAt
    <3> QED
      BY <1>7, <1>8, <3>1, <3>2
  <2> QED
    BY <2>0, <2>1, <2>2, <2>3, <2>4, <2>5 DEF SouthEast
<1> QED
  BY <1>10, <1>11, <1>12, <1>13, <1>14, <1>15, <1>16, <1>17 DEF CubeMeets

\* Each boundary that is there is one of the relation; edges are always there.
LEMMA CubeBoundaryMeets ==
  ASSUME NEW n \in Nat \ {0}, NEW lay \in Lay, lay[1] = n, lay[2] = n,
         NEW t \in 0..5, NEW j \in 0..(n - 1), NEW i \in 0..(n - 1),
         NEW r, r = RankAt(lay, t, j, i), NEW here, here = Halos!cube_boundary(lay, r),
         NEW b \in DOMAIN here, b \in EdgeSides \/ here[b] # Halos!NoBoundary
  PROVE  \E u \in 0..5, k \in 0..(n - 1), l \in 0..(n - 1), rot \in Nat :
            CubeMeets(b, n, t, j, i, u, k, l, rot)
<1>1. b \in Sides
  BY CubeBoundary
<1>2. OnSphere(lay, Halos!NoBoundary) = Halos!NoBoundary
  BY DEF OnSphere
<1>3. CASE b = "west"
  <2>1. CASE i > 0
    <3>1. t \in 0..5 /\ j \in 0..(n - 1) /\ i - 1 \in 0..(n - 1)
      BY <2>1
    <3>2. West(n, t, j, i, t, j, i - 1, 0)
      BY <2>1 DEF West
    <3> QED
      BY <1>3, <3>1, <3>2 DEF CubeMeets
  <2>2. CASE i = 0 /\ t % 2 = 0
    <3>1. (t - 2) % 6 \in 0..5 /\ n - 1 \in 0..(n - 1) /\ n - 1 - j \in 0..(n - 1)
      BY <2>2
    <3>2. West(n, t, j, i, (t - 2) % 6, n - 1, n - 1 - j, 1)
      BY <2>2 DEF West
    <3> QED
      BY <1>3, <3>1, <3>2 DEF CubeMeets
  <2>3. CASE i = 0 /\ ~ (t % 2 = 0)
    <3>1. (t - 1) % 6 \in 0..5 /\ j \in 0..(n - 1) /\ n - 1 \in 0..(n - 1)
      BY <2>3
    <3>2. West(n, t, j, i, (t - 1) % 6, j, n - 1, 0)
      BY <2>3 DEF West
    <3> QED
      BY <1>3, <3>1, <3>2 DEF CubeMeets
  <2> QED
    BY <2>1, <2>2, <2>3
<1>4. CASE b = "east"
  <2>1. CASE i < n - 1
    <3>1. t \in 0..5 /\ j \in 0..(n - 1) /\ i + 1 \in 0..(n - 1)
      BY <2>1
    <3>2. East(n, t, j, i, t, j, i + 1, 0)
      BY <2>1 DEF East
    <3> QED
      BY <1>4, <3>1, <3>2 DEF CubeMeets
  <2>2. CASE i = n - 1 /\ t % 2 = 0
    <3>1. (t + 1) % 6 \in 0..5 /\ j \in 0..(n - 1) /\ 0 \in 0..(n - 1)
      BY <2>2
    <3>2. East(n, t, j, i, (t + 1) % 6, j, 0, 0)
      BY <2>2 DEF East
    <3> QED
      BY <1>4, <3>1, <3>2 DEF CubeMeets
  <2>3. CASE i = n - 1 /\ ~ (t % 2 = 0)
    <3>1. (t + 2) % 6 \in 0..5 /\ 0 \in 0..(n - 1) /\ n - 1 - j \in 0..(n - 1)
      BY <2>3
    <3>2. East(n, t, j, i, (t + 2) % 6, 0, n - 1 - j, 1)
      BY <2>3 DEF East
    <3> QED
      BY <1>4, <3>1, <3>2 DEF CubeMeets
  <2> QED
    BY <2>1, <2>2, <2>3
<1>5. CASE b = "north"
  <2>1. CASE j < n - 1
    <3>1. t \in 0..5 /\ j + 1 \in 0..(n - 1) /\ i \in 0..(n - 1)
      BY <2>1
    <3>2. North(n, t, j, i, t, j + 1, i, 0)
      BY <2>1 DEF North
    <3> QED
      BY <1>5, <3>1, <3>2 DEF CubeMeets
  <2>2. CASE j = n - 1 /\ t % 2 = 0
    <3>1. (t + 2) % 6 \in 0..5 /\ n - 1 - i \in 0..(n - 1) /\ 0 \in 0..(n - 1)
      BY <2>2
    <3>2. North(n, t, j, i, (t + 2) % 6, n - 1 - i, 0, 3)
      BY <2>2 DEF North
    <3> QED
      BY <1>5, <3>1, <3>2 DEF CubeMeets
  <2>3. CASE j = n - 1 /\ ~ (t % 2 = 0)
    <3>1. (t + 1) % 6 \in 0..5 /\ 0 \in 0..(n - 1) /\ i \in 0..(n - 1)
      BY <2>3
    <3>2. North(n, t, j, i, (t + 1) % 6, 0, i, 0)
      BY <2>3 DEF North
    <3> QED
      BY <1>5, <3>1, <3>2 DEF CubeMeets
  <2> QED
    BY <2>1, <2>2, <2>3
<1>6. CASE b = "south"
  <2>1. CASE j > 0
    <3>1. t \in 0..5 /\ j - 1 \in 0..(n - 1) /\ i \in 0..(n - 1)
      BY <2>1
    <3>2. South(n, t, j, i, t, j - 1, i, 0)
      BY <2>1 DEF South
    <3> QED
      BY <1>6, <3>1, <3>2 DEF CubeMeets
  <2>2. CASE j = 0 /\ t % 2 = 0
    <3>1. (t - 1) % 6 \in 0..5 /\ n - 1 \in 0..(n - 1) /\ i \in 0..(n - 1)
      BY <2>2
    <3>2. South(n, t, j, i, (t - 1) % 6, n - 1, i, 0)
      BY <2>2 DEF South
    <3> QED
      BY <1>6, <3>1, <3>2 DEF CubeMeets
  <2>3. CASE j = 0 /\ ~ (t % 2 = 0)
    <3>1. (t - 2) % 6 \in 0..5 /\ n - 1 - i \in 0..(n - 1) /\ n - 1 \in 0..(n - 1)
      BY <2>3
    <3>2. South(n, t, j, i, (t - 2) % 6, n - 1 - i, n - 1, 3)
      BY <2>3 DEF South
    <3> QED
      BY <1>6, <3>1, <3>2 DEF CubeMeets
  <2> QED
    BY <2>1, <2>2, <2>3
<1>7. CASE b = "northwest"
  <2>0. ~ (i = 0 /\ j = n - 1)
    <3>1. TopLeftAt(lay, t, j, i, r, n)
      BY TopLeftCorner
    <3>2. here["northwest"] = OnSphere(lay, Halos!top_left_corner(lay, r))
      BY CubeBoundary
    <3> QED
      BY <1>2, <1>7, <3>1, <3>2 DEF TopLeftAt, EdgeSides
  <2>1. CASE i = 0 /\ j < n - 1 /\ t % 2 = 0
    <3>1. (t - 2) % 6 \in 0..5 /\ n - 1 \in 0..(n - 1) /\ n - 2 - j \in 0..(n - 1)
      BY <2>1
    <3>2. NorthWest(n, t, j, i, (t - 2) % 6, n - 1, n - 2 - j, 1)
      BY <2>1 DEF NorthWest
    <3> QED
      BY <1>7, <3>1, <3>2 DEF CubeMeets
  <2>2. CASE i = 0 /\ j < n - 1 /\ ~ (t % 2 = 0)
    <3>1. (t - 1) % 6 \in 0..5 /\ j + 1 \in 0..(n - 1) /\ n - 1 \in 0..(n - 1)
      BY <2>2
    <3>2. NorthWest(n, t, j, i, (t - 1) % 6, j + 1, n - 1, 0)
      BY <2>2 DEF NorthWest
    <3> QED
      BY <1>7, <3>1, <3>2 DEF CubeMeets
  <2>3. CASE i > 0 /\ j < n - 1
    <3>1. t \in 0..5 /\ j + 1 \in 0..(n - 1) /\ i - 1 \in 0..(n - 1)
      BY <2>3
    <3>2. NorthWest(n, t, j, i, t, j + 1, i - 1, 0)
      BY <2>3 DEF NorthWest
    <3> QED
      BY <1>7, <3>1, <3>2 DEF CubeMeets
  <2>4. CASE i > 0 /\ j = n - 1 /\ t % 2 = 0
    <3>1. (t + 2) % 6 \in 0..5 /\ n - i \in 0..(n - 1) /\ 0 \in 0..(n - 1)
      BY <2>4
    <3>2. NorthWest(n, t, j, i, (t + 2) % 6, n - i, 0, 3)
      BY <2>4 DEF NorthWest
    <3> QED
      BY <1>7, <3>1, <3>2 DEF CubeMeets
  <2>5. CASE i > 0 /\ j = n - 1 /\ ~ (t % 2 = 0)
    <3>1. (t + 1) % 6 \in 0..5 /\ 0 \in 0..(n - 1) /\ i - 1 \in 0..(n - 1)
      BY <2>5
    <3>2. NorthWest(n, t, j, i, (t + 1) % 6, 0, i - 1, 0)
      BY <2>5 DEF NorthWest
    <3> QED
      BY <1>7, <3>1, <3>2 DEF CubeMeets
  <2> QED
    BY <2>0, <2>1, <2>2, <2>3, <2>4, <2>5
<1>8. CASE b = "northeast"
  <2>0. ~ (i = n - 1 /\ j = n - 1)
    <3>1. TopRightAt(lay, t, j, i, r, n)
      BY TopRightCorner
    <3>2. here["northeast"] = OnSphere(lay, Halos!top_right_corner(lay, r))
      BY CubeBoundary
    <3> QED
      BY <1>2, <1>8, <3>1, <3>2 DEF TopRightAt, EdgeSides
  <2>1. CASE j = n - 1 /\ i < n - 1 /\ t % 2 = 0
    <3>1. (t + 2) % 6 \in 0..5 /\ n - 2 - i \in 0..(n - 1) /\ 0 \in 0..(n - 1)
      BY <2>1
    <3>2. NorthEast(n, t, j, i, (t + 2) % 6, n - 2 - i, 0, 3)
      BY <2>1 DEF NorthEast
    <3> QED
      BY <1>8, <3>1, <3>2 DEF CubeMeets
  <2>2. CASE j = n - 1 /\ i < n - 1 /\ ~ (t % 2 = 0)
    <3>1. (t + 1) % 6 \in 0..5 /\ 0 \in 0..(n - 1) /\ i + 1 \in 0..(n - 1)
      BY <2>2
    <3>2. NorthEast(n, t, j, i, (t + 1) % 6, 0, i + 1, 0)
      BY <2>2 DEF NorthEast
    <3> QED
      BY <1>8, <3>1, <3>2 DEF CubeMeets
  <2>3. CASE j < n - 1 /\ i < n - 1
    <3>1. t \in 0..5 /\ j + 1 \in 0..(n - 1) /\ i + 1 \in 0..(n - 1)
      BY <2>3
    <3>2. NorthEast(n, t, j, i, t, j + 1, i + 1, 0)
      BY <2>3 DEF NorthEast
    <3> QED
      BY <1>8, <3>1, <3>2 DEF CubeMeets
  <2>4. CASE j < n - 1 /\ i = n - 1 /\ t % 2 = 0
    <3>1. (t + 1) % 6 \in 0..5 /\ j + 1 \in 0..(n - 1) /\ 0 \in 0..(n - 1)
      BY <2>4
    <3>2. NorthEast(n, t, j, i, (t + 1) % 6, j + 1, 0, 0)
      BY <2>4 DEF NorthEast
    <3> QED
      BY <1>8, <3>1, <3>2 DEF CubeMeets
  <2>5. CASE j < n - 1 /\ i = n - 1 /\ ~ (t % 2 = 0)
    <3>1. (t + 2) % 6 \in 0..5 /\ 0 \in 0..(n - 1) /\ n - 2 - j \in 0..(n - 1)
      BY <2>5
    <3>2. NorthEast(n, t, j, i, (t + 2) % 6, 0, n - 2 - j, 1)
      BY <2>5 DEF NorthEast
    <3> QED
      BY <1>8, <3>1, <3>2 DEF CubeMeets
  <2> QED
    BY <2>0, <2>1, <2>2, <2>3, <2>4, <2>5
<1>9. CASE b = "southwest"
  <2>0. ~ (i = 0 /\ j = 0)
    <3>1. BottomLeftAt(lay, t, j, i, r, n)
      BY BottomLeftCorner
    <3>2. here["southwest"] = OnSphere(lay, Halos!bottom_left_corner(lay, r))
      BY CubeBoundary
    <3> QED
      BY <1>2, <1>9, <3>1, <3>2 DEF BottomLeftAt, EdgeSides
  <2>1. CASE j = 0 /\ i > 0 /\ t % 2 = 0
    <3>1. (t - 1) % 6 \in 0..5 /\ n - 1 \in 0..(n - 1) /\ i - 1 \in 0..(n - 1)
      BY <2>1
    <3>2. SouthWest(n, t, j, i, (t - 1) % 6, n - 1, i - 1, 0)
      BY <2>1 DEF SouthWest
    <3> QED
      BY <1>9, <3>1, <3>2 DEF CubeMeets
  <2>2. CASE j = 0 /\ i > 0 /\ ~ (t % 2 = 0)
    <3>1. (t - 2) % 6 \in 0..5 /\ n - i \in 0..(n - 1) /\ n - 1 \in 0..(n - 1)
      BY <2>2
    <3>2. SouthWest(n, t, j, i, (t - 2) % 6, n - i, n - 1, 3)
      BY <2>2 DEF SouthWest
    <3> QED
      BY <1>9, <3>1, <3>2 DEF CubeMeets
  <2>3. CASE j > 0 /\ i > 0
    <3>1. t \in 0..5 /\ j - 1 \in 0..(n - 1) /\ i - 1 \in 0..(n - 1)
      BY <2>3
    <3>2. SouthWest(n, t, j, i, t, j - 1, i - 1, 0)
      BY <2>3 DEF SouthWest
    <3> QED
      BY <1>9, <3>1, <3>2 DEF CubeMeets
  <2>4. CASE j > 0 /\ i = 0 /\ t % 2 = 0
    <3>1. (t - 2) % 6 \in 0..5 /\ n - 1 \in 0..(n - 1) /\ n - j \in 0..(n - 1)
      BY <2>4
    <3>2. SouthWest(n, t, j, i, (t - 2) % 6, n - 1, n - j, 1)
      BY <2>4 DEF SouthWest
    <3> QED
      BY <1>9, <3>1, <3>2 DEF CubeMeets
  <2>5. CASE j > 0 /\ i = 0 /\ ~ (t % 2 = 0)
    <3>1. (t - 1) % 6 \in 0..5 /\ j - 1 \in 0..(n - 1) /\ n - 1 \in 0..(n - 1)
      BY <2>5
    <3>2. SouthWest(n, t, j, i, (t - 1) % 6, j - 1, n - 1, 0)
      BY <2>5 DEF SouthWest
    <3> QED
      BY <1>9, <3>1, <3>2 DEF CubeMeets
  <2> QED
    BY <2>0, <2>1, <2>2, <2>3, <2>4, <2>5
<1>10. CASE b = "southeast"
  <2>0. ~ (i = n - 1 /\ j = 0)
    <3>1. BottomRightAt(lay, t, j, i, r, n)
      BY BottomRightCorner
    <3>2. here["southeast"] = OnSphere(lay, Halos!bottom_right_corner(lay, r))
      BY CubeBoundary
    <3> QED
      BY <1>2, <1>10, <3>1, <3>2 DEF BottomRightAt, EdgeSides
  <2>1. CASE j = 0 /\ i < n - 1 /\ t % 2 = 0
    <3>1. (t - 1) % 6 \in 0..5 /\ n - 1 \in 0..(n - 1) /\ i + 1 \in 0..(n - 1)
      BY <2>1
    <3>2. SouthEast(n, t, j, i, (t - 1) % 6, n - 1, i + 1, 0)
      BY <2>1 DEF SouthEast
    <3> QED
      BY <1>10, <3>1, <3>2 DEF CubeMeets
  <2>2. CASE j = 0 /\ i < n - 1 /\ ~ (t % 2 = 0)
    <3>1. (t - 2) % 6 \in 0..5 /\ n - 2 - i \in 0..(n - 1) /\ n - 1 \in 0..(n - 1)
      BY <2>2
    <3>2. SouthEast(n, t, j, i, (t - 2) % 6, n - 2 - i, n - 1, 3)
      BY <2>2 DEF SouthEast
    <3> QED
      BY <1>10, <3>1, <3>2 DEF CubeMeets
  <2>3. CASE j > 0 /\ i < n - 1
    <3>1. t \in 0..5 /\ j - 1 \in 0..(n - 1) /\ i + 1 \in 0..(n - 1)
      BY <2>3
    <3>2. SouthEast(n, t, j, i, t, j - 1, i + 1, 0)
      BY <2>3 DEF SouthEast
    <3> QED
      BY <1>10, <3>1, <3>2 DEF CubeMeets
  <2>4. CASE j > 0 /\ i = n - 1 /\ t % 2 = 0
    <3>1. (t + 1) % 6 \in 0..5 /\ j - 1 \in 0..(n - 1) /\ 0 \in 0..(n - 1)
      BY <2>4
    <3>2. SouthEast(n, t, j, i, (t + 1) % 6, j - 1, 0, 0)
      BY <2>4 DEF SouthEast
    <3> QED
      BY <1>10, <3>1, <3>2 DEF CubeMeets
  <2>5. CASE j > 0 /\ i = n - 1 /\ ~ (t % 2 = 0)
    <3>1. (t + 2) % 6 \in 0..5 /\ 0 \in 0..(n - 1) /\ n - j \in 0..(n - 1)
      BY <2>5
    <3>2. SouthEast(n, t, j, i, (t + 2) % 6, 0, n - j, 1)
      BY <2>5 DEF SouthEast
    <3> QED
      BY <1>10, <3>1, <3>2 DEF CubeMeets
  <2> QED
    BY <2>0, <2>1, <2>2, <2>3, <2>4, <2>5
<1> QED
  BY <1>1, <1>3, <1>4, <1>5, <1>6, <1>7, <1>8, <1>9, <1>10 DEF Sides

-----------------------------------------------------------------------------
(* The periodic tile: the same relation, with rows and columns that wrap.  *)

Before(x, m) == IF x = 0 THEN m - 1 ELSE x - 1
After(x, m) == IF x = m - 1 THEN 0 ELSE x + 1

TileMeets(b, R, C, j, i, k, l) ==
  \/ b = "west" /\ k = j /\ l = Before(i, C)
  \/ b = "east" /\ k = j /\ l = After(i, C)
  \/ b = "north" /\ k = After(j, R) /\ l = i
  \/ b = "south" /\ k = Before(j, R) /\ l = i
  \/ b = "northwest" /\ k = After(j, R) /\ l = Before(i, C)
  \/ b = "northeast" /\ k = After(j, R) /\ l = After(i, C)
  \/ b = "southwest" /\ k = Before(j, R) /\ l = Before(i, C)
  \/ b = "southeast" /\ k = Before(j, R) /\ l = After(i, C)

\* Before and After are inverse, and with three places three are different.
LEMMA Wrapping ==
  ASSUME NEW m \in Nat \ {0}, NEW x \in 0..(m - 1)
  PROVE  /\ Before(x, m) \in 0..(m - 1) /\ After(x, m) \in 0..(m - 1)
         /\ Before(After(x, m), m) = x /\ After(Before(x, m), m) = x
         /\ m >= 3 => Before(x, m) # x /\ After(x, m) # x /\ Before(x, m) # After(x, m)
BY DEF Before, After

\* The eight boundaries of a rank of the periodic tile.
LEMMA TileBoundary ==
  ASSUME NEW R \in Nat \ {0}, NEW C \in Nat \ {0}, NEW lay \in Lay, lay[1] = R, lay[2] = C,
         NEW j \in 0..(R - 1), NEW i \in 0..(C - 1),
         NEW r, r = RankAt(lay, 0, j, i), NEW here, here = Halos!tile_boundary(lay, r)
  PROVE  /\ DOMAIN here = Sides
         /\ here["west"] = At(lay, 0, j, Before(i, C), 0)
         /\ here["east"] = At(lay, 0, j, After(i, C), 0)
         /\ here["north"] = At(lay, 0, After(j, R), i, 0)
         /\ here["south"] = At(lay, 0, Before(j, R), i, 0)
         /\ here["northwest"] = At(lay, 0, After(j, R), Before(i, C), 0)
         /\ here["northeast"] = At(lay, 0, After(j, R), After(i, C), 0)
         /\ here["southwest"] = At(lay, 0, Before(j, R), Before(i, C), 0)
         /\ here["southeast"] = At(lay, 0, Before(j, R), After(i, C), 0)
<1>1. ASSUME NEW k \in 0..(R - 1), NEW l \in 0..(C - 1), NEW s, s = RankAt(lay, 0, k, l)
      PROVE  /\ Halos!tile_left(lay, s) = At(lay, 0, k, Before(l, C), 0)
             /\ Halos!tile_right(lay, s) = At(lay, 0, k, After(l, C), 0)
             /\ Halos!tile_bottom(lay, s) = At(lay, 0, Before(k, R), l, 0)
             /\ Halos!tile_top(lay, s) = At(lay, 0, After(k, R), l, 0)
  <2>1. TileEdgesAt(lay, 0, k, l, s, R, C)
    BY <1>1, TileEdges
  <2> QED
    BY <2>1 DEF TileEdgesAt, Before, After
<1>2. PICK w, e : w = Halos!tile_left(lay, r) /\ e = Halos!tile_right(lay, r)
  OBVIOUS
<1>3. PICK a, z : a = Before(i, C) /\ z = After(i, C)
  OBVIOUS
<1>4. a \in 0..(C - 1) /\ z \in 0..(C - 1)
  BY <1>3, Wrapping
<1>5. w = At(lay, 0, j, a, 0) /\ e = At(lay, 0, j, z, 0)
  BY <1>1, <1>2, <1>3
<1>6. w.to = RankAt(lay, 0, j, a) /\ e.to = RankAt(lay, 0, j, z)
  BY <1>5 DEF At, Halos!Boundary
<1>7. /\ Halos!tile_top(lay, w.to) = At(lay, 0, After(j, R), a, 0)
      /\ Halos!tile_bottom(lay, w.to) = At(lay, 0, Before(j, R), a, 0)
      /\ Halos!tile_top(lay, e.to) = At(lay, 0, After(j, R), z, 0)
      /\ Halos!tile_bottom(lay, e.to) = At(lay, 0, Before(j, R), z, 0)
  BY <1>1, <1>4, <1>6
<1>8. \A k, l, edge : edge.rot = 0 => Halos!Corner(edge, At(lay, 0, k, l, 0)) = At(lay, 0, k, l, 0)
  BY DEF Halos!Corner, At, Halos!Boundary
<1>9. w.rot = 0 /\ e.rot = 0
  BY <1>5 DEF At, Halos!Boundary
<1>10. here = [west |-> w, east |-> e,
               north |-> Halos!tile_top(lay, r), south |-> Halos!tile_bottom(lay, r),
               northwest |-> Halos!Corner(w, Halos!tile_top(lay, w.to)),
               northeast |-> Halos!Corner(e, Halos!tile_top(lay, e.to)),
               southwest |-> Halos!Corner(w, Halos!tile_bottom(lay, w.to)),
               southeast |-> Halos!Corner(e, Halos!tile_bottom(lay, e.to))]
  BY <1>2, Zenon DEF Halos!tile_boundary
<1>11. here = [west |-> w, east |-> e,
               north |-> Halos!tile_top(lay, r), south |-> Halos!tile_bottom(lay, r),
               northwest |-> At(lay, 0, After(j, R), a, 0),
               northeast |-> At(lay, 0, After(j, R), z, 0),
               southwest |-> At(lay, 0, Before(j, R), a, 0),
               southeast |-> At(lay, 0, Before(j, R), z, 0)]
  BY <1>7, <1>8, <1>9, <1>10
<1>12. DOMAIN here = Sides
  BY <1>11 DEF Sides
<1>13. /\ here["west"] = w /\ here["east"] = e
       /\ here["north"] = At(lay, 0, After(j, R), i, 0) /\ here["south"] = At(lay, 0, Before(j, R), i, 0)
       /\ here["northwest"] = At(lay, 0, After(j, R), a, 0)
       /\ here["northeast"] = At(lay, 0, After(j, R), z, 0)
       /\ here["southwest"] = At(lay, 0, Before(j, R), a, 0)
       /\ here["southeast"] = At(lay, 0, Before(j, R), z, 0)
  BY <1>1, <1>11
<1> QED
  BY <1>3, <1>5, <1>12, <1>13

\* With three rows and columns, no place meets itself or another one twice.
LEMMA TileNotSelf ==
  ASSUME NEW R \in Nat \ {0}, NEW C \in Nat \ {0}, R >= 3, C >= 3,
         NEW j \in 0..(R - 1), NEW i \in 0..(C - 1), NEW k, NEW l, NEW b,
         TileMeets(b, R, C, j, i, k, l)
  PROVE  ~ (j = k /\ i = l)
BY Wrapping DEF TileMeets

LEMMA TileInjective ==
  ASSUME NEW R \in Nat \ {0}, NEW C \in Nat \ {0}, R >= 3, C >= 3,
         NEW j \in 0..(R - 1), NEW i \in 0..(C - 1), NEW k, NEW l, NEW b,
         TileMeets(b, R, C, j, i, k, l), NEW c, TileMeets(c, R, C, j, i, k, l)
  PROVE  b = c
<1>1. /\ Before(j, R) # j /\ After(j, R) # j /\ Before(j, R) # After(j, R)
      /\ Before(i, C) # i /\ After(i, C) # i /\ Before(i, C) # After(i, C)
  BY Wrapping
<1> QED
  BY <1>1 DEF TileMeets

\* One that is met meets back.
LEMMA TileBack ==
  ASSUME NEW R \in Nat \ {0}, NEW C \in Nat \ {0},
         NEW j \in 0..(R - 1), NEW i \in 0..(C - 1), NEW k, NEW l, NEW b,
         TileMeets(b, R, C, j, i, k, l)
  PROVE  \E c : TileMeets(c, R, C, k, l, j, i) /\ Faces(b, c)
<1>1. /\ Before(After(j, R), R) = j /\ After(Before(j, R), R) = j
      /\ Before(After(i, C), C) = i /\ After(Before(i, C), C) = i
  BY Wrapping
<1>2. CASE b = "west"
  <2>1. TileMeets("east", R, C, k, l, j, i) /\ Faces(b, "east")
    BY <1>1, <1>2 DEF TileMeets, Faces
  <2> QED
    BY <2>1
<1>3. CASE b = "east"
  <2>1. TileMeets("west", R, C, k, l, j, i) /\ Faces(b, "west")
    BY <1>1, <1>3 DEF TileMeets, Faces
  <2> QED
    BY <2>1
<1>4. CASE b = "north"
  <2>1. TileMeets("south", R, C, k, l, j, i) /\ Faces(b, "south")
    BY <1>1, <1>4 DEF TileMeets, Faces
  <2> QED
    BY <2>1
<1>5. CASE b = "south"
  <2>1. TileMeets("north", R, C, k, l, j, i) /\ Faces(b, "north")
    BY <1>1, <1>5 DEF TileMeets, Faces
  <2> QED
    BY <2>1
<1>6. CASE b = "northwest"
  <2>1. TileMeets("southeast", R, C, k, l, j, i) /\ Faces(b, "southeast")
    BY <1>1, <1>6 DEF TileMeets, Faces
  <2> QED
    BY <2>1
<1>7. CASE b = "northeast"
  <2>1. TileMeets("southwest", R, C, k, l, j, i) /\ Faces(b, "southwest")
    BY <1>1, <1>7 DEF TileMeets, Faces
  <2> QED
    BY <2>1
<1>8. CASE b = "southwest"
  <2>1. TileMeets("northeast", R, C, k, l, j, i) /\ Faces(b, "northeast")
    BY <1>1, <1>8 DEF TileMeets, Faces
  <2> QED
    BY <2>1
<1>9. CASE b = "southeast"
  <2>1. TileMeets("northwest", R, C, k, l, j, i) /\ Faces(b, "northwest")
    BY <1>1, <1>9 DEF TileMeets, Faces
  <2> QED
    BY <2>1
<1> QED
  BY <1>2, <1>3, <1>4, <1>5, <1>6, <1>7, <1>8, <1>9 DEF TileMeets

-----------------------------------------------------------------------------
(* Both kinds of grid.                                                     *)

\* What both updaters demand of a grid.
Supported(g) ==
  /\ g.cube \in BOOLEAN /\ g.lay \in Lay
  /\ g.cube => g.lay[1] = g.lay[2]
  /\ ~ g.cube => g.lay[1] >= 3 /\ g.lay[2] >= 3

Tiles(g) == IF g.cube THEN 0..5 ELSE {0}

\* Row j, column i of tile t has row l, column k of tile u beyond boundary b.
Meets(g, b, t, j, i, u, k, l, rot) ==
  IF g.cube THEN CubeMeets(b, g.lay[1], t, j, i, u, k, l, rot)
            ELSE TileMeets(b, g.lay[1], g.lay[2], j, i, k, l) /\ rot = 0

\* Of a place, the facts that the lemmas about it need.
Place(g, t, j, i) == t \in Tiles(g) /\ j \in 0..(g.lay[1] - 1) /\ i \in 0..(g.lay[2] - 1)

\* What a supported grid has.
LEMMA GridFacts ==
  ASSUME NEW g, Supported(g)
  PROVE  /\ g.lay \in Lay /\ g.lay[1] \in Nat \ {0} /\ g.lay[2] \in Nat \ {0}
         /\ Tiles(g) \subseteq 0..5
         /\ g.cube => g.lay[2] = g.lay[1] /\ Tiles(g) = 0..5
         /\ ~ g.cube => g.lay[1] >= 3 /\ g.lay[2] >= 3 /\ Tiles(g) = {0}
BY LayFacts DEF Supported, Tiles

\* Every rank of the communicator is a place.
LEMMA RanksArePlaces ==
  ASSUME NEW g, Supported(g), NEW r \in 0..(Halos!NumRanks(g) - 1)
  PROVE  \E t, j, i : Place(g, t, j, i) /\ r = RankAt(g.lay, t, j, i)
<1>1. PICK lay, m : lay = g.lay /\ m = lay[1] * lay[2]
  OBVIOUS
<1>2. lay \in Lay /\ m \in Nat \ {0}
  BY <1>1, GridFacts, LayFacts
<1>3. CASE g.cube
  <2>1. PICK count : count = 6
    OBVIOUS
  <2>2. count \in Nat \ {0} /\ r \in 0..(count * (lay[1] * lay[2]) - 1)
    BY <1>1, <1>3, <2>1 DEF Halos!NumRanks, Halos!tile_ranks
  <2>3. \E t \in 0..(count - 1), j \in Rows(lay), i \in Columns(lay) : r = RankAt(lay, t, j, i)
    BY <1>2, <2>2, EveryRank
  <2>4. 0..(count - 1) = Tiles(g)
    BY <1>3, <2>1 DEF Tiles
  <2> QED
    BY <1>1, <2>3, <2>4 DEF Place, Rows, Columns
<1>4. CASE ~ g.cube
  <2>1. PICK count : count = 1
    OBVIOUS
  <2>2. count * m = m
    BY <1>2, <2>1
  <2>3. count \in Nat \ {0} /\ r \in 0..(count * (lay[1] * lay[2]) - 1)
    BY <1>1, <1>4, <2>1, <2>2 DEF Halos!NumRanks, Halos!tile_ranks
  <2>4. \E t \in 0..(count - 1), j \in Rows(lay), i \in Columns(lay) : r = RankAt(lay, t, j, i)
    BY <1>2, <2>3, EveryRank
  <2>5. 0..(count - 1) = Tiles(g)
    BY <1>4, <2>1 DEF Tiles
  <2> QED
    BY <1>1, <2>4, <2>5 DEF Place, Rows, Columns
<1> QED
  BY <1>3, <1>4

\* Different places are different ranks.
LEMMA PlacesDiffer ==
  ASSUME NEW g, Supported(g), NEW t, NEW j, NEW i, NEW u, NEW k, NEW l,
         Place(g, t, j, i), Place(g, u, k, l),
         RankAt(g.lay, t, j, i) = RankAt(g.lay, u, k, l)
  PROVE  t = u /\ j = k /\ i = l
<1>1. PICK lay : lay = g.lay
  OBVIOUS
<1>2. /\ lay \in Lay /\ t \in Int /\ u \in Int
      /\ j \in Rows(lay) /\ i \in Columns(lay) /\ k \in Rows(lay) /\ l \in Columns(lay)
  BY <1>1, GridFacts DEF Place, Rows, Columns
<1> QED
  BY <1>1, <1>2, SameRank

\* Over a boundary of the relation, the code finds the rank of the place met.
LEMMA MeetsBoundary ==
  ASSUME NEW g, Supported(g), NEW t, NEW j, NEW i, NEW u, NEW k, NEW l,
         Place(g, t, j, i), Place(g, u, k, l), NEW rot, NEW b, Meets(g, b, t, j, i, u, k, l, rot),
         NEW r, r = RankAt(g.lay, t, j, i), NEW here, here = Halos!boundary(g, r)
  PROVE  /\ b \in DOMAIN here /\ here[b] # Halos!NoBoundary
         /\ here[b].to = RankAt(g.lay, u, k, l) /\ here[b].rot = rot
<1>1. PICK lay, R, C : lay = g.lay /\ R = lay[1] /\ C = lay[2]
  OBVIOUS
<1>2. /\ R \in Nat \ {0} /\ C \in Nat \ {0} /\ lay \in Lay /\ lay[1] = R /\ lay[2] = C
      /\ j \in 0..(R - 1) /\ i \in 0..(C - 1) /\ k \in 0..(R - 1) /\ l \in 0..(C - 1)
  BY <1>1, GridFacts DEF Place
<1>3. b \in DOMAIN here /\ here[b] = At(lay, u, k, l, rot) /\ rot \in Nat
  <2>1. CASE g.cube
    <3>1. C = R /\ t \in 0..5 /\ u \in 0..5
      BY <1>1, <2>1, GridFacts DEF Place
    <3>2. CubeMeets(b, R, t, j, i, u, k, l, rot) /\ here = Halos!cube_boundary(lay, r)
      BY <1>1, <2>1 DEF Meets, Halos!boundary
    <3>3. i \in 0..(R - 1) /\ l \in 0..(R - 1) /\ lay[2] = R
      BY <1>2, <3>1
    <3>4. r = RankAt(lay, t, j, i)
      BY <1>1
    <3>5. j \in 0..(R - 1) /\ k \in 0..(R - 1) /\ R \in Nat \ {0} /\ lay \in Lay /\ lay[1] = R
      BY <1>2
    <3>6. Gives(here, b, lay, u, k, l, rot)
      BY <3>1, <3>2, <3>3, <3>4, <3>5, CubeMeetsBoundary
    <3> QED
      BY <3>6 DEF Gives
  <2>2. CASE ~ g.cube
    <3>1. TileMeets(b, R, C, j, i, k, l) /\ rot = 0 /\ here = Halos!tile_boundary(lay, r)
      BY <1>1, <2>2 DEF Meets, Halos!boundary
    <3>2. t = 0 /\ u = 0
      BY <2>2, GridFacts DEF Place
    <3>3. /\ DOMAIN here = Sides
          /\ here["west"] = At(lay, 0, j, Before(i, C), 0)
          /\ here["east"] = At(lay, 0, j, After(i, C), 0)
          /\ here["north"] = At(lay, 0, After(j, R), i, 0)
          /\ here["south"] = At(lay, 0, Before(j, R), i, 0)
          /\ here["northwest"] = At(lay, 0, After(j, R), Before(i, C), 0)
          /\ here["northeast"] = At(lay, 0, After(j, R), After(i, C), 0)
          /\ here["southwest"] = At(lay, 0, Before(j, R), Before(i, C), 0)
          /\ here["southeast"] = At(lay, 0, Before(j, R), After(i, C), 0)
      BY <1>1, <1>2, <3>1, <3>2, TileBoundary
    <3> QED
      BY <3>1, <3>2, <3>3 DEF TileMeets, Sides
  <2> QED
    BY <2>1, <2>2
<1>4. here[b] = [to |-> RankAt(lay, u, k, l), rot |-> rot]
  BY <1>3 DEF At, Halos!Boundary
<1>5. here[b] # Halos!NoBoundary
  BY <1>3, <1>4 DEF Halos!NoBoundary, Halos!Boundary
<1> QED
  BY <1>1, <1>3, <1>4, <1>5

\* A boundary that the code finds is one of the relation.
LEMMA BoundaryMeets ==
  ASSUME NEW g, Supported(g), NEW t, NEW j, NEW i, Place(g, t, j, i),
         NEW r, r = RankAt(g.lay, t, j, i), NEW b, b \in EdgeSides \/ b \in Halos!Across(g, r)
  PROVE  \E u, k, l, rot : /\ Place(g, u, k, l) /\ Meets(g, b, t, j, i, u, k, l, rot)
                           /\ Halos!boundary(g, r)[b].to = RankAt(g.lay, u, k, l)
                           /\ Halos!boundary(g, r)[b].rot = rot
<1>1. PICK lay, R, C, here : lay = g.lay /\ R = lay[1] /\ C = lay[2] /\ here = Halos!boundary(g, r)
  OBVIOUS
<1>2. /\ R \in Nat \ {0} /\ C \in Nat \ {0} /\ lay \in Lay /\ lay[1] = R /\ lay[2] = C
      /\ j \in 0..(R - 1) /\ i \in 0..(C - 1)
  BY <1>1, GridFacts DEF Place
<1>3. b \in DOMAIN here /\ (b \in EdgeSides \/ here[b] # Halos!NoBoundary)
  <2>1. DOMAIN here = Sides
    <3>1. CASE g.cube
      <4>1. here = Halos!cube_boundary(lay, r)
        BY <1>1, <3>1 DEF Halos!boundary
      <4> QED
        BY <4>1, CubeBoundary
    <3>2. CASE ~ g.cube
      <4>1. here = Halos!tile_boundary(lay, r) /\ r = RankAt(lay, 0, j, i)
        BY <1>1, <3>2, GridFacts DEF Place, Halos!boundary
      <4> QED
        BY <1>2, <4>1, TileBoundary
    <3> QED
      BY <3>1, <3>2
  <2> QED
    BY <1>1, <2>1 DEF Halos!Across, Sides, EdgeSides
<1>4. \E u, k, l, rot : Place(g, u, k, l) /\ Meets(g, b, t, j, i, u, k, l, rot)
  <2>1. CASE g.cube
    <3>1. C = R /\ t \in 0..5
      BY <1>1, <2>1, GridFacts DEF Place
    <3>2. here = Halos!cube_boundary(lay, r)
      BY <1>1, <2>1 DEF Halos!boundary
    <3>3. PICK u \in 0..5, k \in 0..(R - 1), l \in 0..(R - 1), rot \in Nat :
            CubeMeets(b, R, t, j, i, u, k, l, rot)
      BY <1>1, <1>2, <1>3, <3>1, <3>2, CubeBoundaryMeets
    <3>4. Place(g, u, k, l) /\ Meets(g, b, t, j, i, u, k, l, rot)
      BY <1>1, <2>1, <3>1, <3>3 DEF Place, Meets, Tiles
    <3> QED
      BY <3>4
  <2>2. CASE ~ g.cube
    <3>1. here = Halos!tile_boundary(lay, r) /\ t = 0
      BY <1>1, <2>2, GridFacts DEF Place, Halos!boundary
    <3>2. b \in Sides
      <4>1. DOMAIN here = Sides
        BY <1>1, <1>2, <3>1, TileBoundary
      <4> QED
        BY <1>3, <4>1
    <3>3. /\ Before(j, R) \in 0..(R - 1) /\ After(j, R) \in 0..(R - 1)
          /\ Before(i, C) \in 0..(C - 1) /\ After(i, C) \in 0..(C - 1)
      BY <1>2, Wrapping
    <3>4. \E k \in 0..(R - 1), l \in 0..(C - 1) : TileMeets(b, R, C, j, i, k, l)
      BY <1>2, <3>2, <3>3 DEF TileMeets, Sides
    <3>5. PICK k \in 0..(R - 1), l \in 0..(C - 1) : TileMeets(b, R, C, j, i, k, l)
      BY <3>4
    <3>6. Place(g, 0, k, l) /\ Meets(g, b, t, j, i, 0, k, l, 0)
      BY <1>1, <2>2, <3>5 DEF Place, Meets, Tiles
    <3> QED
      BY <3>6
  <2> QED
    BY <2>1, <2>2
<1>5. PICK u, k, l, rot : Place(g, u, k, l) /\ Meets(g, b, t, j, i, u, k, l, rot)
  BY <1>4
<1>6. here[b].to = RankAt(g.lay, u, k, l) /\ here[b].rot = rot
  BY <1>1, <1>5, MeetsBoundary
<1> QED
  BY <1>1, <1>5, <1>6

\* Of both grids: no place meets itself.
LEMMA NotSelf ==
  ASSUME NEW g, Supported(g), NEW t, NEW j, NEW i, NEW u, NEW k, NEW l,
         Place(g, t, j, i), Place(g, u, k, l), NEW rot, NEW b, Meets(g, b, t, j, i, u, k, l, rot)
  PROVE  ~ (t = u /\ j = k /\ i = l)
<1>1. PICK R, C : R = g.lay[1] /\ C = g.lay[2]
  OBVIOUS
<1>2. /\ R \in Nat \ {0} /\ C \in Nat \ {0} /\ t \in 0..5 /\ u \in 0..5
      /\ j \in 0..(R - 1) /\ i \in 0..(C - 1) /\ k \in 0..(R - 1) /\ l \in 0..(C - 1)
      /\ g.cube => C = R
      /\ ~ g.cube => R >= 3 /\ C >= 3
  BY <1>1, GridFacts DEF Place
<1>3. CASE g.cube
  <2>1. CubeMeets(b, R, t, j, i, u, k, l, rot)
    BY <1>1, <1>3 DEF Meets
  <2>2. i \in 0..(R - 1) /\ l \in 0..(R - 1)
    BY <1>2, <1>3
  <2> QED
    BY <1>2, <2>1, <2>2, CubeNotSelf
<1>4. CASE ~ g.cube
  <2>1. TileMeets(b, R, C, j, i, k, l)
    BY <1>1, <1>4 DEF Meets
  <2> QED
    BY <1>2, <1>4, <2>1, TileNotSelf
<1> QED
  BY <1>3, <1>4

\* Of both grids: two places meet over one boundary only.
LEMMA Injective ==
  ASSUME NEW g, Supported(g), NEW t, NEW j, NEW i, NEW u, NEW k, NEW l,
         Place(g, t, j, i), Place(g, u, k, l), NEW rot, NEW b, Meets(g, b, t, j, i, u, k, l, rot),
         NEW more, NEW c, Meets(g, c, t, j, i, u, k, l, more)
  PROVE  b = c
<1>1. PICK R, C : R = g.lay[1] /\ C = g.lay[2]
  OBVIOUS
<1>2. /\ R \in Nat \ {0} /\ C \in Nat \ {0} /\ t \in 0..5 /\ u \in 0..5
      /\ j \in 0..(R - 1) /\ i \in 0..(C - 1) /\ k \in 0..(R - 1) /\ l \in 0..(C - 1)
      /\ g.cube => C = R
      /\ ~ g.cube => R >= 3 /\ C >= 3
  BY <1>1, GridFacts DEF Place
<1>3. CASE g.cube
  <2>1. CubeMeets(b, R, t, j, i, u, k, l, rot) /\ CubeMeets(c, R, t, j, i, u, k, l, more)
    BY <1>1, <1>3 DEF Meets
  <2>2. i \in 0..(R - 1) /\ l \in 0..(R - 1)
    BY <1>2, <1>3
  <2> QED
    BY <1>2, <2>1, <2>2, CubeInjective
<1>4. CASE ~ g.cube
  <2>1. TileMeets(b, R, C, j, i, k, l) /\ TileMeets(c, R, C, j, i, k, l)
    BY <1>1, <1>4 DEF Meets
  <2> QED
    BY <1>2, <1>4, <2>1, TileInjective
<1> QED
  BY <1>3, <1>4

\* Of both grids: one that is met meets back.
LEMMA WayBack ==
  ASSUME NEW g, Supported(g), NEW t, NEW j, NEW i, NEW u, NEW k, NEW l,
         Place(g, t, j, i), Place(g, u, k, l), NEW rot, NEW b, Meets(g, b, t, j, i, u, k, l, rot)
  PROVE  \E c, more : /\ Meets(g, c, u, k, l, t, j, i, more)
                      /\ (rot + more) % 4 = 0
                      /\ Faces(b, c)
<1>1. PICK R, C : R = g.lay[1] /\ C = g.lay[2]
  OBVIOUS
<1>2. /\ R \in Nat \ {0} /\ C \in Nat \ {0} /\ t \in 0..5 /\ u \in 0..5
      /\ j \in 0..(R - 1) /\ i \in 0..(C - 1) /\ k \in 0..(R - 1) /\ l \in 0..(C - 1)
      /\ g.cube => C = R
  BY <1>1, GridFacts DEF Place
<1>3. CASE g.cube
  <2>1. CubeMeets(b, R, t, j, i, u, k, l, rot)
    BY <1>1, <1>3 DEF Meets
  <2>2. i \in 0..(R - 1) /\ l \in 0..(R - 1)
    BY <1>2, <1>3
  <2>3. PICK c, more : CubeMeets(c, R, u, k, l, t, j, i, more) /\ (rot + more) % 4 = 0 /\ Faces(b, c)
    BY <1>2, <2>1, <2>2, CubeBack
  <2>4. Meets(g, c, u, k, l, t, j, i, more)
    BY <1>1, <1>3, <2>3 DEF Meets
  <2> QED
    BY <2>3, <2>4
<1>4. CASE ~ g.cube
  <2>1. TileMeets(b, R, C, j, i, k, l) /\ rot = 0
    BY <1>1, <1>4 DEF Meets
  <2>2. PICK c : TileMeets(c, R, C, k, l, j, i) /\ Faces(b, c)
    BY <1>2, <2>1, TileBack
  <2>3. Meets(g, c, u, k, l, t, j, i, 0) /\ (rot + 0) % 4 = 0
    BY <1>1, <1>4, <2>1, <2>2 DEF Meets
  <2> QED
    BY <2>2, <2>3
<1> QED
  BY <1>3, <1>4

-----------------------------------------------------------------------------
(* The exchange of halos.                                                  *)

\* Beyond two boundaries are different ranks, with one boundary back each.
LEMMA OneEachWay ==
  ASSUME NEW g, Supported(g), NEW r \in 0..(Halos!NumRanks(g) - 1),
         NEW here, here = Halos!boundary(g, r), NEW b \in Halos!Across(g, r),
         NEW s, s = here[b].to, NEW there, there = Halos!boundary(g, s),
         NEW Back, Back = {c \in Halos!Across(g, s) : there[c].to = r}
  PROVE  /\ s # r
         /\ \A c \in Halos!Across(g, r) : here[c].to = s => c = b
         /\ \E c \in Back : Back = {c} /\ (here[b].rot + there[c].rot) % 4 = 0
<1>1. PICK t, j, i : Place(g, t, j, i) /\ r = RankAt(g.lay, t, j, i)
  BY RanksArePlaces
<1>2. PICK u, k, l, rot : /\ Place(g, u, k, l) /\ Meets(g, b, t, j, i, u, k, l, rot)
                          /\ s = RankAt(g.lay, u, k, l) /\ here[b].rot = rot
  BY <1>1, BoundaryMeets
<1>3. s # r
  <2>1. ASSUME s = r PROVE FALSE
    <3>1. t = u /\ j = k /\ i = l
      BY <1>1, <1>2, <2>1, PlacesDiffer
    <3> QED
      BY <1>1, <1>2, <3>1, NotSelf
  <2> QED
    BY <2>1
<1>4. ASSUME NEW c \in Halos!Across(g, r), here[c].to = s
      PROVE  c = b
  <2>1. PICK u2, k2, l2, more : /\ Place(g, u2, k2, l2) /\ Meets(g, c, t, j, i, u2, k2, l2, more)
                                /\ s = RankAt(g.lay, u2, k2, l2)
    BY <1>1, <1>4, BoundaryMeets
  <2>2. u2 = u /\ k2 = k /\ l2 = l
    BY <1>2, <2>1, PlacesDiffer
  <2>3. Meets(g, c, t, j, i, u, k, l, more)
    BY <2>1, <2>2
  <2> QED
    BY <1>1, <1>2, <2>3, Injective
<1>5. PICK c, more : Meets(g, c, u, k, l, t, j, i, more) /\ (rot + more) % 4 = 0
  BY <1>1, <1>2, WayBack
<1>6. /\ c \in DOMAIN there /\ there[c] # Halos!NoBoundary
      /\ there[c].to = r /\ there[c].rot = more
  BY <1>1, <1>2, <1>5, MeetsBoundary
<1>7. c \in Back
  BY <1>6 DEF Halos!Across
<1>8. ASSUME NEW d \in Back PROVE d = c
  <2>1. d \in Halos!Across(g, s) /\ there[d].to = r
    OBVIOUS
  <2>2. PICK t2, j2, i2, less : /\ Place(g, t2, j2, i2) /\ Meets(g, d, u, k, l, t2, j2, i2, less)
                                /\ r = RankAt(g.lay, t2, j2, i2)
    BY <1>2, <2>1, BoundaryMeets
  <2>3. t2 = t /\ j2 = j /\ i2 = i
    BY <1>1, <2>2, PlacesDiffer
  <2>4. Meets(g, d, u, k, l, t, j, i, less)
    BY <2>2, <2>3
  <2> QED
    BY <1>1, <1>2, <1>5, <2>4, Injective
<1>9. Back = {c}
  BY <1>7, <1>8
<1> QED
  BY <1>2, <1>3, <1>4, <1>5, <1>6, <1>7, <1>9

\* The grid and the rank are chosen once.
GridsKept ==
  exchange = "halos" =>
    /\ grid \in Halos!Grids
    /\ rank \in 0..(Halos!NumRanks(grid) - 1)

LEMMA GridsAreKept == Spec => []GridsKept
<1>1. Init => GridsKept
  BY DEF Init, GridsKept, Halos!Init
<1>2. GridsKept /\ [Next]_vars => GridsKept'
  <2> SUFFICES ASSUME GridsKept, [Next]_vars PROVE GridsKept'
    OBVIOUS
  <2> USE DEF GridsKept
  <2>1. CASE exchange = "halos" /\ Halos!Started /\ UNCHANGED exchange
    <3>1. grid' = grid /\ rank' = rank /\ exchange' = exchange
      BY <2>1 DEF Halos!Started
    <3> QED
      BY <2>1, <3>1 DEF Halos!Grids, Halos!NumRanks, Halos!tile_ranks
  <2>2. CASE exchange = "halos" /\ Halos!Unpack /\ UNCHANGED exchange
    <3>1. grid' = grid /\ rank' = rank /\ exchange' = exchange
      BY <2>2 DEF Halos!Unpack
    <3> QED
      BY <2>2, <3>1 DEF Halos!Grids, Halos!NumRanks, Halos!tile_ranks
  <2>3. CASE exchange = "edges" /\ UNCHANGED exchange
    BY <2>3
  <2>4. CASE UNCHANGED vars
    BY <2>4 DEF vars, Halos!Grids, Halos!NumRanks, Halos!tile_ranks
  <2> QED
    BY <2>1, <2>2, <2>3, <2>4 DEF Next, Halos!Next, Halos!StartUpdate, Halos!StartUpdater
<1> QED
  BY <1>1, <1>2, PTL DEF Spec

\* A grid on which start_halo_update exchanges halos is supported.
LEMMA GridIsSupported ==
  ASSUME NEW g \in Halos!Grids, Halos!layout_supported(g)
  PROVE  Supported(g)
BY LayoutAssumption DEF Halos!Grids, Halos!layout_supported, Supported, Lay

\* Every boundary of a rank is the boundary of one other rank, once, and that
\* rank has exactly one boundary back, turned the other way: for every layout
\* that start_halo_update does not refuse.
THEOREM BoundariesArePaired == Spec => []OneBoundaryEachWay
<1>1. GridsKept => OneBoundaryEachWay
  <2> SUFFICES ASSUME GridsKept, exchange = "halos", phase = "exchange",
                      Halos!layout_supported(grid),
                      NEW b \in Halos!Across(grid, rank)
               PROVE  LET here  == Halos!boundary(grid, rank)
                          there == Halos!boundary(grid, here[b].to)
                          Back  == {c \in Halos!Across(grid, here[b].to) : there[c].to = rank}
                      IN  /\ here[b].to # rank
                          /\ \A c \in Halos!Across(grid, rank) : here[c].to = here[b].to => c = b
                          /\ \E c \in Back : Back = {c} /\ (here[b].rot + there[c].rot) % 4 = 0
    BY DEF OneBoundaryEachWay, Halos!OneBoundaryEachWay
  <2>1. Supported(grid) /\ rank \in 0..(Halos!NumRanks(grid) - 1)
    BY GridIsSupported DEF GridsKept
  <2>2. PICK here, s, there, Back :
          /\ here = Halos!boundary(grid, rank) /\ s = here[b].to
          /\ there = Halos!boundary(grid, s)
          /\ Back = {c \in Halos!Across(grid, s) : there[c].to = rank}
    OBVIOUS
  <2>3. /\ s # rank
        /\ \A c \in Halos!Across(grid, rank) : here[c].to = s => c = b
        /\ \E c \in Back : Back = {c} /\ (here[b].rot + there[c].rot) % 4 = 0
    BY <2>1, <2>2, OneEachWay
  <2> QED
    BY <2>2, <2>3, Zenon
<1> QED
  BY <1>1, GridsAreKept, PTL

-----------------------------------------------------------------------------
(* The exchange of edges: its boundaries are the same.                     *)

\* The two instances of the partitioner have the same tiles.
LEMMA SameTile ==
  ASSUME NEW lay, NEW r
  PROVE  /\ Edges!tile_ranks(lay) = Halos!tile_ranks(lay)
         /\ Edges!subtile_index(lay, r) = Halos!subtile_index(lay, r)
         /\ Edges!tile_left(lay, r) = Halos!tile_left(lay, r)
         /\ Edges!tile_right(lay, r) = Halos!tile_right(lay, r)
         /\ Edges!tile_top(lay, r) = Halos!tile_top(lay, r)
         /\ Edges!tile_bottom(lay, r) = Halos!tile_bottom(lay, r)
<1>1. Edges!subtile_index(lay, r) = Halos!subtile_index(lay, r)
  BY DEF Edges!subtile_index, Halos!subtile_index, Edges!tile_ranks, Halos!tile_ranks
<1>2. /\ Edges!on_tile_left(lay, r) <=> Halos!on_tile_left(lay, r)
      /\ Edges!on_tile_right(lay, r) <=> Halos!on_tile_right(lay, r)
      /\ Edges!on_tile_top(lay, r) <=> Halos!on_tile_top(lay, r)
      /\ Edges!on_tile_bottom(lay, r) <=> Halos!on_tile_bottom(lay, r)
  BY <1>1 DEF Edges!on_tile_left, Edges!on_tile_right, Edges!on_tile_top, Edges!on_tile_bottom,
              Halos!on_tile_left, Halos!on_tile_right, Halos!on_tile_top, Halos!on_tile_bottom
<1>3. Edges!tile_left(lay, r) = Halos!tile_left(lay, r)
  BY <1>2 DEF Edges!tile_left, Halos!tile_left, Edges!Boundary, Halos!Boundary
<1>4. Edges!tile_right(lay, r) = Halos!tile_right(lay, r)
  BY <1>2 DEF Edges!tile_right, Halos!tile_right, Edges!Boundary, Halos!Boundary
<1>5. Edges!tile_top(lay, r) = Halos!tile_top(lay, r)
  BY <1>2 DEF Edges!tile_top, Halos!tile_top, Edges!Boundary, Halos!Boundary
<1>6. Edges!tile_bottom(lay, r) = Halos!tile_bottom(lay, r)
  BY <1>2 DEF Edges!tile_bottom, Halos!tile_bottom, Edges!Boundary, Halos!Boundary
<1> QED
  BY <1>1, <1>3, <1>4, <1>5, <1>6 DEF Edges!tile_ranks, Halos!tile_ranks

\* And the same edges of the cube.
LEMMA SameEdges ==
  ASSUME NEW lay, NEW r
  PROVE  /\ Edges!left_edge(lay, r) = Halos!left_edge(lay, r)
         /\ Edges!right_edge(lay, r) = Halos!right_edge(lay, r)
         /\ Edges!top_edge(lay, r) = Halos!top_edge(lay, r)
         /\ Edges!bottom_edge(lay, r) = Halos!bottom_edge(lay, r)
<1>1. /\ Edges!on_tile_left(lay, r) <=> Halos!on_tile_left(lay, r)
      /\ Edges!on_tile_right(lay, r) <=> Halos!on_tile_right(lay, r)
      /\ Edges!on_tile_top(lay, r) <=> Halos!on_tile_top(lay, r)
      /\ Edges!on_tile_bottom(lay, r) <=> Halos!on_tile_bottom(lay, r)
  BY SameTile DEF Edges!on_tile_left, Edges!on_tile_right, Edges!on_tile_top, Edges!on_tile_bottom,
                  Halos!on_tile_left, Halos!on_tile_right, Halos!on_tile_top, Halos!on_tile_bottom
<1>2. ASSUME NEW s
      PROVE  /\ Edges!tile_root_rank(lay, s) = Halos!tile_root_rank(lay, s)
             /\ Edges!rotate_subtile_rank(lay, s) = Halos!rotate_subtile_rank(lay, s)
             /\ Edges!fliplr_subtile_rank(lay, s) = Halos!fliplr_subtile_rank(lay, s)
  <2>1. Edges!tile_ranks(lay) = Halos!tile_ranks(lay)
    BY SameTile
  <2>2. Edges!subtile_index(lay, s) = Halos!subtile_index(lay, s)
    BY SameTile
  <2> QED
    BY <2>1, <2>2, Zenon DEF Edges!tile_root_rank, Halos!tile_root_rank,
                      Edges!rotate_subtile_rank, Halos!rotate_subtile_rank,
                      Edges!fliplr_subtile_rank, Halos!fliplr_subtile_rank
<1>3. /\ Edges!tile_index(lay, r) = Halos!tile_index(lay, r)
      /\ Edges!EvenTile(lay, r) <=> Halos!EvenTile(lay, r)
  BY SameTile DEF Edges!tile_index, Halos!tile_index, Edges!EvenTile, Halos!EvenTile,
                  Edges!is_even, Halos!is_even
<1>4. Edges!Turned(lay, r) = Halos!Turned(lay, r)
  <2>1. Edges!tile_ranks(lay) = Halos!tile_ranks(lay)
    BY SameTile
  <2> QED
    BY <1>2, <2>1, Zenon DEF Edges!Turned, Halos!Turned
<1>5. \A edge, by : Edges!Moved(edge, by) = Halos!Moved(edge, by)
  BY DEF Edges!Moved, Halos!Moved, Edges!Boundary, Halos!Boundary
<1>6. \A to, rot : Edges!Boundary(to, rot) = Halos!Boundary(to, rot)
  BY DEF Edges!Boundary, Halos!Boundary
<1>7. Edges!tile_ranks(lay) = Halos!tile_ranks(lay)
  BY SameTile
<1>8. /\ Edges!tile_left(lay, r) = Halos!tile_left(lay, r)
      /\ Edges!tile_right(lay, r) = Halos!tile_right(lay, r)
      /\ Edges!tile_top(lay, r) = Halos!tile_top(lay, r)
      /\ Edges!tile_bottom(lay, r) = Halos!tile_bottom(lay, r)
  BY SameTile
<1>9. Edges!left_edge(lay, r) = Halos!left_edge(lay, r)
  BY <1>1, <1>2, <1>3, <1>4, <1>5, <1>6, <1>7, <1>8, Zenon DEF Edges!left_edge, Halos!left_edge
<1>10. Edges!right_edge(lay, r) = Halos!right_edge(lay, r)
  BY <1>1, <1>2, <1>3, <1>4, <1>5, <1>6, <1>7, <1>8, Zenon DEF Edges!right_edge, Halos!right_edge
<1>11. Edges!top_edge(lay, r) = Halos!top_edge(lay, r)
  BY <1>1, <1>2, <1>3, <1>4, <1>5, <1>6, <1>7, <1>8, Zenon DEF Edges!top_edge, Halos!top_edge
<1>12. Edges!bottom_edge(lay, r) = Halos!bottom_edge(lay, r)
  BY <1>1, <1>2, <1>3, <1>4, <1>5, <1>6, <1>7, <1>8, Zenon DEF Edges!bottom_edge, Halos!bottom_edge
<1> QED
  BY <1>9, <1>10, <1>11, <1>12

\* The ranks beyond the four edges.
To(g, r, b) == Halos!boundary(g, r)[b].to

\* So the ranks beyond the four edges are the same.
LEMMA SameSides ==
  ASSUME NEW g, NEW r, NEW b \in EdgeSides
  PROVE  Edges!boundary(g, r)[b].to = To(g, r, b)
<1>1. PICK lay : lay = g.lay
  OBVIOUS
<1>2. CASE g.cube
  <2>1. /\ Edges!boundary(g, r) = Edges!cube_boundary(lay, r)
        /\ Halos!boundary(g, r) = Halos!cube_boundary(lay, r)
    BY <1>1, <1>2 DEF Edges!boundary, Halos!boundary
  <2>2. ASSUME NEW edge
        PROVE  OnSphere(lay, edge)
                 = IF edge = Edges!NoBoundary THEN edge
                   ELSE [edge EXCEPT !.to = @ % (6 * Edges!tile_ranks(lay))]
    <3>1. Edges!tile_ranks(lay) = Halos!tile_ranks(lay)
      BY SameTile
    <3>2. Edges!NoBoundary = Halos!NoBoundary
      BY DEF Edges!NoBoundary, Halos!NoBoundary, Edges!Boundary, Halos!Boundary
    <3> QED
      BY <3>1, <3>2, Zenon DEF OnSphere
  <2>3. CASE b = "west"
    <3>1. Edges!cube_boundary(lay, r)["west"] = OnSphere(lay, Edges!left_edge(lay, r))
      BY <2>2 DEF Edges!cube_boundary
    <3>2. Halos!cube_boundary(lay, r)["west"] = OnSphere(lay, Halos!left_edge(lay, r))
      BY CubeBoundary
    <3>3. Edges!left_edge(lay, r) = Halos!left_edge(lay, r)
      BY SameEdges
    <3> QED
      BY <2>1, <2>3, <3>1, <3>2, <3>3 DEF To
  <2>4. CASE b = "east"
    <3>1. Edges!cube_boundary(lay, r)["east"] = OnSphere(lay, Edges!right_edge(lay, r))
      BY <2>2 DEF Edges!cube_boundary
    <3>2. Halos!cube_boundary(lay, r)["east"] = OnSphere(lay, Halos!right_edge(lay, r))
      BY CubeBoundary
    <3>3. Edges!right_edge(lay, r) = Halos!right_edge(lay, r)
      BY SameEdges
    <3> QED
      BY <2>1, <2>4, <3>1, <3>2, <3>3 DEF To
  <2>5. CASE b = "north"
    <3>1. Edges!cube_boundary(lay, r)["north"] = OnSphere(lay, Edges!top_edge(lay, r))
      BY <2>2 DEF Edges!cube_boundary
    <3>2. Halos!cube_boundary(lay, r)["north"] = OnSphere(lay, Halos!top_edge(lay, r))
      BY CubeBoundary
    <3>3. Edges!top_edge(lay, r) = Halos!top_edge(lay, r)
      BY SameEdges
    <3> QED
      BY <2>1, <2>5, <3>1, <3>2, <3>3 DEF To
  <2>6. CASE b = "south"
    <3>1. Edges!cube_boundary(lay, r)["south"] = OnSphere(lay, Edges!bottom_edge(lay, r))
      BY <2>2 DEF Edges!cube_boundary
    <3>2. Halos!cube_boundary(lay, r)["south"] = OnSphere(lay, Halos!bottom_edge(lay, r))
      BY CubeBoundary
    <3>3. Edges!bottom_edge(lay, r) = Halos!bottom_edge(lay, r)
      BY SameEdges
    <3> QED
      BY <2>1, <2>6, <3>1, <3>2, <3>3 DEF To
  <2> QED
    BY <2>3, <2>4, <2>5, <2>6 DEF EdgeSides
<1>3. CASE ~ g.cube
  <2>1. /\ Edges!boundary(g, r) = Edges!tile_boundary(lay, r)
        /\ Halos!boundary(g, r) = Halos!tile_boundary(lay, r)
    BY <1>1, <1>3 DEF Edges!boundary, Halos!boundary
  <2>2. CASE b = "west"
    <3>1. Edges!tile_boundary(lay, r)["west"] = Edges!tile_left(lay, r)
      BY DEF Edges!tile_boundary
    <3>2. Halos!tile_boundary(lay, r)["west"] = Halos!tile_left(lay, r)
      BY DEF Halos!tile_boundary
    <3>3. Edges!tile_left(lay, r) = Halos!tile_left(lay, r)
      BY SameTile
    <3> QED
      BY <2>1, <2>2, <3>1, <3>2, <3>3 DEF To
  <2>3. CASE b = "east"
    <3>1. Edges!tile_boundary(lay, r)["east"] = Edges!tile_right(lay, r)
      BY DEF Edges!tile_boundary
    <3>2. Halos!tile_boundary(lay, r)["east"] = Halos!tile_right(lay, r)
      BY DEF Halos!tile_boundary
    <3>3. Edges!tile_right(lay, r) = Halos!tile_right(lay, r)
      BY SameTile
    <3> QED
      BY <2>1, <2>3, <3>1, <3>2, <3>3 DEF To
  <2>4. CASE b = "north"
    <3>1. Edges!tile_boundary(lay, r)["north"] = Edges!tile_top(lay, r)
      BY DEF Edges!tile_boundary
    <3>2. Halos!tile_boundary(lay, r)["north"] = Halos!tile_top(lay, r)
      BY DEF Halos!tile_boundary
    <3>3. Edges!tile_top(lay, r) = Halos!tile_top(lay, r)
      BY SameTile
    <3> QED
      BY <2>1, <2>4, <3>1, <3>2, <3>3 DEF To
  <2>5. CASE b = "south"
    <3>1. Edges!tile_boundary(lay, r)["south"] = Edges!tile_bottom(lay, r)
      BY DEF Edges!tile_boundary
    <3>2. Halos!tile_boundary(lay, r)["south"] = Halos!tile_bottom(lay, r)
      BY DEF Halos!tile_boundary
    <3>3. Edges!tile_bottom(lay, r) = Halos!tile_bottom(lay, r)
      BY SameTile
    <3> QED
      BY <2>1, <2>5, <3>1, <3>2, <3>3 DEF To
  <2> QED
    BY <2>2, <2>3, <2>4, <2>5 DEF EdgeSides
<1> QED
  BY <1>2, <1>3

\* Of a rank, the ranks that it sends its edges to and receives edges from.
LEMMA FourEdges ==
  ASSUME NEW g, Supported(g), NEW t, NEW j, NEW i, Place(g, t, j, i),
         NEW r, r = RankAt(g.lay, t, j, i), NEW b \in EdgeSides
  PROVE  \E u, k, l, rot : /\ Place(g, u, k, l) /\ Meets(g, b, t, j, i, u, k, l, rot)
                           /\ To(g, r, b) = RankAt(g.lay, u, k, l)
BY BoundaryMeets DEF To

\* The ranks beyond the four edges are different ones.
LEMMA EdgesDiffer ==
  ASSUME NEW g, Supported(g), NEW t, NEW j, NEW i, Place(g, t, j, i),
         NEW r, r = RankAt(g.lay, t, j, i), NEW b \in EdgeSides, NEW c \in EdgeSides,
         To(g, r, b) = To(g, r, c)
  PROVE  b = c
<1>1. PICK u, k, l, rot : /\ Place(g, u, k, l) /\ Meets(g, b, t, j, i, u, k, l, rot)
                          /\ To(g, r, b) = RankAt(g.lay, u, k, l)
  BY FourEdges
<1>2. PICK u2, k2, l2, more : /\ Place(g, u2, k2, l2) /\ Meets(g, c, t, j, i, u2, k2, l2, more)
                              /\ To(g, r, c) = RankAt(g.lay, u2, k2, l2)
  BY FourEdges
<1>3. u2 = u /\ k2 = k /\ l2 = l
  BY <1>1, <1>2, PlacesDiffer
<1>4. Meets(g, c, t, j, i, u, k, l, more)
  BY <1>2, <1>3
<1> QED
  BY <1>1, <1>4, Injective

\* If s is beyond one of these edges of r, then r is beyond a facing edge of s.
LEMMA EdgeBack ==
  ASSUME NEW g, Supported(g), NEW t, NEW j, NEW i, Place(g, t, j, i),
         NEW r, r = RankAt(g.lay, t, j, i), NEW b \in EdgeSides, NEW s, s = To(g, r, b)
  PROVE  \E c \in EdgeSides : To(g, s, c) = r /\ Faces(b, c)
<1>1. PICK u, k, l, rot : /\ Place(g, u, k, l) /\ Meets(g, b, t, j, i, u, k, l, rot)
                          /\ To(g, r, b) = RankAt(g.lay, u, k, l)
  BY FourEdges
<1>2. PICK c, more : Meets(g, c, u, k, l, t, j, i, more) /\ Faces(b, c)
  BY <1>1, WayBack
<1>3. Halos!boundary(g, s)[c].to = r
  BY <1>1, <1>2, MeetsBoundary
<1>4. c \in EdgeSides
  BY <1>2 DEF Faces, EdgeSides
<1> QED
  BY <1>2, <1>3, <1>4 DEF To

\* A rank of the grid, with coordinates.
Placed(g, r) == \E t, j, i : Place(g, t, j, i) /\ r = RankAt(g.lay, t, j, i)

\* A neighbour of a rank is a rank.
LEMMA NeighboursPlaced ==
  ASSUME NEW g, Supported(g), NEW r, Placed(g, r), NEW s \in Edges!Neighbours(g, r)
  PROVE  Placed(g, s)
<1>1. PICK b \in EdgeSides : s = Edges!boundary(g, r)[b].to
  BY DEF Edges!Neighbours, EdgeSides, Edges!WEST, Edges!EAST, Edges!NORTH, Edges!SOUTH
<1>2. s = To(g, r, b)
  BY <1>1, SameSides
<1>3. PICK t, j, i : Place(g, t, j, i) /\ r = RankAt(g.lay, t, j, i)
  BY DEF Placed
<1>4. \E u, k, l, rot : /\ Place(g, u, k, l) /\ Meets(g, b, t, j, i, u, k, l, rot)
                        /\ To(g, r, b) = RankAt(g.lay, u, k, l)
  BY <1>3, FourEdges
<1> QED
  BY <1>2, <1>4 DEF Placed

\* The two edges that are sent, and the two that are received.
LEMMA SentAndReceived ==
  ASSUME NEW g, NEW r
  PROVE  /\ Edges!Sends(g, r)[1].to = To(g, r, "south")
         /\ Edges!Sends(g, r)[2].to = To(g, r, "west")
         /\ Edges!Source(g, r, "north") = To(g, r, "north")
         /\ Edges!Source(g, r, "east") = To(g, r, "east")
<1>1. /\ Edges!boundary(g, r)["south"].to = To(g, r, "south")
      /\ Edges!boundary(g, r)["west"].to = To(g, r, "west")
      /\ Edges!boundary(g, r)["north"].to = To(g, r, "north")
      /\ Edges!boundary(g, r)["east"].to = To(g, r, "east")
  BY SameSides DEF EdgeSides
<1>2. /\ Edges!Sends(g, r)[1].to = Edges!boundary(g, r)["south"].to
      /\ Edges!Sends(g, r)[2].to = Edges!boundary(g, r)["west"].to
  BY DEF Edges!Sends, Edges!SOUTH, Edges!WEST
<1>3. /\ Edges!Source(g, r, "north") = Edges!boundary(g, r)["north"].to
      /\ Edges!Source(g, r, "east") = Edges!boundary(g, r)["east"].to
  BY DEF Edges!Source
<1> QED
  BY <1>1, <1>2, <1>3

\* What EverySendHasAReceiver says, of one rank.
LEMMA ReceiverForEverySend ==
  ASSUME NEW g, Supported(g), NEW r, Placed(g, r)
  PROVE  /\ Edges!Sends(g, r)[1].to # Edges!Sends(g, r)[2].to
         /\ Edges!Source(g, r, Edges!NORTH) # Edges!Source(g, r, Edges!EAST)
         /\ \A s \in Edges!Neighbours(g, r) :
              (\E n \in 1..2 : Edges!Sends(g, s)[n].to = r)
                <=> (\E side \in {Edges!NORTH, Edges!EAST} : Edges!Source(g, r, side) = s)
<1>1. PICK t, j, i : Place(g, t, j, i) /\ r = RankAt(g.lay, t, j, i)
  BY DEF Placed
<1>2. To(g, r, "south") # To(g, r, "west") /\ To(g, r, "north") # To(g, r, "east")
  <2>1. {"south", "west", "north", "east"} \subseteq EdgeSides /\ "south" # "west" /\ "north" # "east"
    BY DEF EdgeSides
  <2> QED
    BY <1>1, <2>1, EdgesDiffer
<1>3. ASSUME NEW s \in Edges!Neighbours(g, r)
      PROVE  (\E n \in 1..2 : Edges!Sends(g, s)[n].to = r)
               <=> (\E side \in {Edges!NORTH, Edges!EAST} : Edges!Source(g, r, side) = s)
  <2>1. PICK u, k, l : Place(g, u, k, l) /\ s = RankAt(g.lay, u, k, l)
    BY NeighboursPlaced DEF Placed
  <2>2. (\E n \in 1..2 : Edges!Sends(g, s)[n].to = r)
          <=> (\E b \in {"south", "west"} : To(g, s, b) = r)
    <3>1. 1..2 = {1, 2}
      OBVIOUS
    <3>2. Edges!Sends(g, s)[1].to = To(g, s, "south") /\ Edges!Sends(g, s)[2].to = To(g, s, "west")
      BY SentAndReceived
    <3> QED
      BY <3>1, <3>2
  <2>3. (\E side \in {Edges!NORTH, Edges!EAST} : Edges!Source(g, r, side) = s)
          <=> (\E c \in {"north", "east"} : To(g, r, c) = s)
    BY SentAndReceived DEF Edges!NORTH, Edges!EAST
  <2>4. ASSUME NEW b \in {"south", "west"}, To(g, s, b) = r
        PROVE  \E c \in {"north", "east"} : To(g, r, c) = s
    <3>1. b \in EdgeSides
      BY DEF EdgeSides
    <3>2. PICK c \in EdgeSides : To(g, r, c) = s /\ Faces(b, c)
      BY <2>1, <2>4, <3>1, EdgeBack
    <3> QED
      BY <3>2 DEF Faces
  <2>5. ASSUME NEW c \in {"north", "east"}, To(g, r, c) = s
        PROVE  \E b \in {"south", "west"} : To(g, s, b) = r
    <3>1. c \in EdgeSides
      BY DEF EdgeSides
    <3>2. PICK b \in EdgeSides : To(g, s, b) = r /\ Faces(c, b)
      BY <1>1, <2>5, <3>1, EdgeBack
    <3> QED
      BY <3>2 DEF Faces
  <2> QED
    BY <2>2, <2>3, <2>4, <2>5
<1> QED
  BY <1>2, <1>3, SentAndReceived DEF Edges!NORTH, Edges!EAST

\* The grid and the two ranks are chosen once.
PairKept ==
  exchange = "edges" =>
    /\ grid \in Edges!Grids
    /\ \E r \in 0..(Edges!NumRanks(grid) - 1) : \E s \in Edges!Neighbours(grid, r) : pair = <<r, s>>

LEMMA PairIsKept == Spec => []PairKept
<1>1. Init => PairKept
  BY DEF Init, PairKept, Edges!Init
<1>2. PairKept /\ [Next]_vars => PairKept'
  <2> SUFFICES ASSUME PairKept, [Next]_vars PROVE PairKept'
    OBVIOUS
  <2>1. (exchange' = "edges" => exchange = "edges" /\ grid' = grid /\ pair' = pair)
    BY DEF Next, vars, Edges!Next, Edges!Wait
  <2>2. ASSUME exchange' = "edges" PROVE PairKept'
    <3>1. PICK here : here = grid
      OBVIOUS
    <3>2. PICK r \in 0..(Edges!NumRanks(here) - 1) : \E s \in Edges!Neighbours(here, r) : pair = <<r, s>>
      BY <2>1, <2>2, <3>1 DEF PairKept
    <3>3. grid = here /\ grid' = here /\ pair' = pair /\ here \in Edges!Grids
      BY <2>1, <2>2, <3>1 DEF PairKept
    <3> QED
      BY <3>2, <3>3 DEF PairKept
  <2>3. ASSUME exchange' # "edges" PROVE PairKept'
    BY <2>3 DEF PairKept
  <2> QED
    BY <2>2, <2>3
<1> QED
  BY <1>1, <1>2, PTL DEF Spec

\* The grids of the exchange of edges are supported.
LEMMA EdgeGridIsSupported ==
  ASSUME NEW g \in Edges!Grids
  PROVE  Supported(g)
BY LayoutAssumption DEF Edges!Grids, Edges!layout_supported, Supported, Lay

\* The two ranks that are followed are ranks of the grid.
LEMMA PairPlaced ==
  ASSUME PairKept, exchange = "edges", NEW n \in 1..2
  PROVE  Supported(grid) /\ Placed(grid, pair[n])
<1>1. Supported(grid)
  BY EdgeGridIsSupported DEF PairKept
<1>2. PICK r \in 0..(Edges!NumRanks(grid) - 1) : \E s \in Edges!Neighbours(grid, r) : pair = <<r, s>>
  BY DEF PairKept
<1>3. r \in 0..(Halos!NumRanks(grid) - 1)
  BY <1>2 DEF Edges!NumRanks, Halos!NumRanks, Edges!tile_ranks, Halos!tile_ranks
<1>4. Placed(grid, r)
  BY <1>1, <1>3, RanksArePlaces DEF Placed
<1>5. PICK s \in Edges!Neighbours(grid, r) : pair = <<r, s>>
  BY <1>2
<1>6. Placed(grid, s)
  BY <1>1, <1>4, NeighboursPlaced
<1> QED
  BY <1>1, <1>4, <1>5, <1>6

\* Of the four edges of a rank, what the rank beyond one sends the rank itself
\* waits for, and it waits for nothing else: for every layout.
THEOREM SendsAreReceived == Spec => []EverySendHasAReceiver
<1>1. PairKept => EverySendHasAReceiver
  <2> SUFFICES ASSUME PairKept, exchange = "edges", NEW n \in 1..2
               PROVE  LET r == pair[n]
                          ReceivesFrom(s, t) == \E side \in {Edges!NORTH, Edges!EAST} :
                                                  Edges!Source(grid, s, side) = t
                          SendsTo(s, t) == \E m \in 1..2 : Edges!Sends(grid, s)[m].to = t
                      IN  /\ Edges!Sends(grid, r)[1].to # Edges!Sends(grid, r)[2].to
                          /\ Edges!Source(grid, r, Edges!NORTH) # Edges!Source(grid, r, Edges!EAST)
                          /\ \A s \in Edges!Neighbours(grid, r) : SendsTo(s, r) <=> ReceivesFrom(r, s)
    BY Zenon DEF EverySendHasAReceiver, Edges!EverySendHasAReceiver
  <2>1. PICK r : r = pair[n]
    OBVIOUS
  <2>2. Supported(grid) /\ Placed(grid, r)
    BY <2>1, PairPlaced
  <2>3. /\ Edges!Sends(grid, r)[1].to # Edges!Sends(grid, r)[2].to
        /\ Edges!Source(grid, r, Edges!NORTH) # Edges!Source(grid, r, Edges!EAST)
        /\ \A s \in Edges!Neighbours(grid, r) :
             (\E m \in 1..2 : Edges!Sends(grid, s)[m].to = r)
               <=> (\E side \in {Edges!NORTH, Edges!EAST} : Edges!Source(grid, r, side) = s)
    BY <2>2, ReceiverForEverySend
  <2> QED
    BY <2>1, <2>3, Zenon
<1> QED
  BY <1>1, PairIsKept, PTL

-----------------------------------------------------------------------------
(* What module HaloExchange assumes of its ranks holds for every grid.     *)

\* Every place has a rank of the communicator.
LEMMA PlacesAreRanks ==
  ASSUME NEW g, Supported(g), NEW r, Placed(g, r)
  PROVE  r \in 0..(Halos!NumRanks(g) - 1)
<1>1. PICK t, j, i : Place(g, t, j, i) /\ r = RankAt(g.lay, t, j, i)
  BY DEF Placed
<1>2. PICK R, C, m, w, p : /\ R = g.lay[1] /\ C = g.lay[2] /\ m = R * C
                           /\ w = j * C + i /\ p = t * m
  OBVIOUS
<1>3. R \in Nat \ {0} /\ C \in Nat \ {0} /\ m \in Nat \ {0} /\ j \in 0..(R - 1) /\ i \in 0..(C - 1)
  BY <1>1, <1>2, GridFacts, LayFacts DEF Place
<1>4. w \in 0..(m - 1)
  <2>1. j * C \in Nat /\ j * C <= (R - 1) * C
    BY <1>3, Z3
  <2>2. (R - 1) * C = m - C
    BY <1>2, <1>3, Z3
  <2> QED
    BY <1>2, <1>3, <2>1, <2>2
<1>5. r = p + w
  BY <1>1, <1>2 DEF RankAt
<1>6. CASE g.cube
  <2>1. t \in 0..5 /\ Halos!NumRanks(g) = 6 * m
    BY <1>1, <1>2, <1>6 DEF Place, Tiles, Halos!NumRanks, Halos!tile_ranks
  <2>2. p \in Nat /\ p <= 5 * m
    BY <1>2, <1>3, <2>1, Z3
  <2> QED
    BY <1>3, <1>4, <1>5, <2>1, <2>2
<1>7. CASE ~ g.cube
  <2>1. t = 0 /\ Halos!NumRanks(g) = m
    BY <1>1, <1>2, <1>7 DEF Place, Tiles, Halos!NumRanks, Halos!tile_ranks
  <2>2. p = 0
    BY <1>2, <1>3, <2>1
  <2> QED
    BY <1>3, <1>4, <1>5, <2>1, <2>2
<1> QED
  BY <1>6, <1>7

\* The ranks that r exchanges halos with, by its boundaries in any order.
HaloTargets(g, order, r) == [k \in DOMAIN order[r] |-> To(g, r, order[r][k])]

\* So a boundary leads to one.
LEMMA BeyondIsRank ==
  ASSUME NEW g, Supported(g), NEW r \in 0..(Halos!NumRanks(g) - 1),
         NEW b, b \in EdgeSides \/ b \in Halos!Across(g, r)
  PROVE  To(g, r, b) \in 0..(Halos!NumRanks(g) - 1)
<1>1. PICK t, j, i : Place(g, t, j, i) /\ r = RankAt(g.lay, t, j, i)
  BY RanksArePlaces
<1>2. PICK u, k, l : Place(g, u, k, l) /\ Halos!boundary(g, r)[b].to = RankAt(g.lay, u, k, l)
  BY <1>1, BoundaryMeets
<1>3. Placed(g, To(g, r, b))
  BY <1>2 DEF Placed, To
<1> QED
  BY <1>3, PlacesAreRanks

\* The ranks beyond the boundaries, in any order, are different ones.
LEMMA TargetsDiffer ==
  ASSUME NEW g, Supported(g), NEW r \in 0..(Halos!NumRanks(g) - 1), NEW order,
         order[r] \in Seq(Sides), IsInjective(order[r]), Range(order[r]) = Halos!Across(g, r)
  PROVE  /\ HaloTargets(g, order, r) \in Seq(0..(Halos!NumRanks(g) - 1))
         /\ IsInjective(HaloTargets(g, order, r))
         /\ Range(HaloTargets(g, order, r)) = {To(g, r, b) : b \in Halos!Across(g, r)}
<1>1. PICK s, f, all : /\ s = order[r] /\ all = 0..(Halos!NumRanks(g) - 1)
                       /\ f = [k \in DOMAIN s |-> To(g, r, s[k])]
  OBVIOUS
<1>2. \A k \in DOMAIN s : s[k] \in Halos!Across(g, r)
  BY <1>1 DEF Range
<1>3. \A k \in DOMAIN s : To(g, r, s[k]) \in all
  BY <1>1, <1>2, BeyondIsRank
<1>4. f \in Seq(all)
  <2>1. s \in Seq(Sides)
    BY <1>1
  <2>2. DOMAIN s = 1..Len(s) /\ Len(s) \in Nat
    BY <2>1
  <2>3. f \in [1..Len(s) -> all]
    BY <1>1, <1>3, <2>2
  <2> QED
    BY <2>2, <2>3
<1>5. IsInjective(f)
  <2> SUFFICES ASSUME NEW k \in DOMAIN s, NEW l \in DOMAIN s, To(g, r, s[k]) = To(g, r, s[l])
               PROVE  k = l
    BY <1>1 DEF IsInjective
  <2>1. PICK b, c : b = s[k] /\ c = s[l]
    OBVIOUS
  <2>2. b \in Halos!Across(g, r) /\ c \in Halos!Across(g, r) /\ To(g, r, b) = To(g, r, c)
    BY <1>2, <2>1
  <2>3. PICK here, there, Back :
          /\ here = Halos!boundary(g, r) /\ there = Halos!boundary(g, here[b].to)
          /\ Back = {d \in Halos!Across(g, here[b].to) : there[d].to = r}
    OBVIOUS
  <2>4. \A d \in Halos!Across(g, r) : here[d].to = here[b].to => d = b
    BY <2>2, <2>3, OneEachWay
  <2>5. c = b
    BY <2>2, <2>3, <2>4 DEF To
  <2> QED
    BY <1>1, <2>1, <2>5 DEF IsInjective
<1>6. Range(f) = {To(g, r, b) : b \in Halos!Across(g, r)}
  <2>1. \A b \in Halos!Across(g, r) : \E k \in DOMAIN s : s[k] = b
    BY <1>1 DEF Range
  <2> QED
    BY <1>1, <1>2, <2>1 DEF Range
<1> QED
  BY <1>1, <1>4, <1>5, <1>6 DEF HaloTargets

\* A rank that receives a halo sends one back.
LEMMA HalosBothWays ==
  ASSUME NEW g, Supported(g), NEW a \in 0..(Halos!NumRanks(g) - 1),
         NEW b \in Halos!Across(g, a), NEW s, s = To(g, a, b)
  PROVE  \E c \in Halos!Across(g, s) : To(g, s, c) = a
<1>1. PICK here, there, Back :
        /\ here = Halos!boundary(g, a) /\ there = Halos!boundary(g, s)
        /\ Back = {d \in Halos!Across(g, s) : there[d].to = a}
  OBVIOUS
<1>2. s = here[b].to
  BY <1>1 DEF To
<1>3. \E c \in Back : Back = {c}
  BY <1>1, <1>2, OneEachWay
<1> QED
  BY <1>1, <1>3 DEF To

\* Who is sent an edge receives it on the facing side.
LEMMA SentBack ==
  ASSUME NEW g, Supported(g), NEW a \in 0..(Halos!NumRanks(g) - 1),
         NEW b \in {"south", "west"}, NEW s, s = To(g, a, b)
  PROVE  \E c \in {"north", "east"} : To(g, s, c) = a
<1>1. PICK t, j, i : Place(g, t, j, i) /\ a = RankAt(g.lay, t, j, i)
  BY RanksArePlaces
<1>2. b \in EdgeSides
  BY DEF EdgeSides
<1>3. PICK c \in EdgeSides : To(g, s, c) = a /\ Faces(b, c)
  BY <1>1, <1>2, EdgeBack
<1> QED
  BY <1>3 DEF Faces

\* Who receives an edge is sent it from the facing side.
LEMMA ReceivedBack ==
  ASSUME NEW g, Supported(g), NEW a \in 0..(Halos!NumRanks(g) - 1),
         NEW b \in {"north", "east"}, NEW s, s = To(g, a, b)
  PROVE  \E c \in {"south", "west"} : To(g, s, c) = a
<1>1. PICK t, j, i : Place(g, t, j, i) /\ a = RankAt(g.lay, t, j, i)
  BY RanksArePlaces
<1>2. b \in EdgeSides
  BY DEF EdgeSides
<1>3. PICK c \in EdgeSides : To(g, s, c) = a /\ Faces(b, c)
  BY <1>1, <1>2, EdgeBack
<1> QED
  BY <1>3 DEF Faces

\* The topology that HaloExchange assumes: each rank sends to different ranks
\* and receives from different ranks, and whoever sends has a receiver.
Topology(Rank, Out, In) ==
  /\ Out \in [{"halo", "sync"} -> [Rank -> Seq(Rank)]]
  /\ In  \in [{"halo", "sync"} -> [Rank -> Seq(Rank)]]
  /\ \A k \in {"halo", "sync"}, r \in Rank : IsInjective(Out[k][r]) /\ IsInjective(In[k][r])
  /\ \A k \in {"halo", "sync"}, a, b \in Rank :
       b \in Range(Out[k][a]) <=> a \in Range(In[k][b])

\* The ranks of every supported grid have the topology that the protocol of
\* HaloExchange assumes (TopologyAssumption): halos go both ways over the
\* boundaries of each rank, in any order of them, and edges go south and west.
THEOREM TopologyOfGrids ==
  ASSUME NEW g, Supported(g), NEW Rank, Rank = 0..(Halos!NumRanks(g) - 1), NEW order,
         \A r \in Rank : /\ order[r] \in Seq(Sides) /\ IsInjective(order[r])
                         /\ Range(order[r]) = Halos!Across(g, r),
         NEW Out, Out = [halo |-> [r \in Rank |-> HaloTargets(g, order, r)],
                         sync |-> [r \in Rank |-> <<To(g, r, "south"), To(g, r, "west")>>]],
         NEW In,  In  = [halo |-> [r \in Rank |-> HaloTargets(g, order, r)],
                         sync |-> [r \in Rank |-> <<To(g, r, "north"), To(g, r, "east")>>]]
  PROVE  Topology(Rank, Out, In)
<1>1. PICK halo, south, north :
        /\ halo = [r \in Rank |-> HaloTargets(g, order, r)]
        /\ south = [r \in Rank |-> <<To(g, r, "south"), To(g, r, "west")>>]
        /\ north = [r \in Rank |-> <<To(g, r, "north"), To(g, r, "east")>>]
  OBVIOUS
<1>2. Out = [halo |-> halo, sync |-> south] /\ In = [halo |-> halo, sync |-> north]
  BY <1>1
<1>3. ASSUME NEW r \in Rank
      PROVE  /\ halo[r] \in Seq(Rank) /\ IsInjective(halo[r])
             /\ Range(halo[r]) = {To(g, r, b) : b \in Halos!Across(g, r)}
  <2>1. halo[r] = HaloTargets(g, order, r)
    BY <1>1
  <2> QED
    BY <2>1, TargetsDiffer
<1>4. {"south", "west", "north", "east"} \subseteq EdgeSides /\ "south" # "west" /\ "north" # "east"
  BY DEF EdgeSides
<1>5. ASSUME NEW r \in Rank
      PROVE  /\ To(g, r, "south") \in Rank /\ To(g, r, "west") \in Rank
             /\ To(g, r, "north") \in Rank /\ To(g, r, "east") \in Rank
             /\ To(g, r, "south") # To(g, r, "west") /\ To(g, r, "north") # To(g, r, "east")
  <2>1. PICK t, j, i : Place(g, t, j, i) /\ r = RankAt(g.lay, t, j, i)
    BY RanksArePlaces
  <2>2. To(g, r, "south") # To(g, r, "west") /\ To(g, r, "north") # To(g, r, "east")
    BY <1>4, <2>1, EdgesDiffer
  <2> QED
    BY <1>4, <2>2, BeyondIsRank
<1>6. \A x, y \in Rank : x # y => /\ <<x, y>> \in Seq(Rank) /\ IsInjective(<<x, y>>)
                                  /\ Range(<<x, y>>) = {x, y}
  <2> SUFFICES ASSUME NEW x \in Rank, NEW y \in Rank, x # y
               PROVE  <<x, y>> \in Seq(Rank) /\ IsInjective(<<x, y>>) /\ Range(<<x, y>>) = {x, y}
    OBVIOUS
  <2>1. DOMAIN <<x, y>> = {1, 2} /\ <<x, y>>[1] = x /\ <<x, y>>[2] = y
    OBVIOUS
  <2>2. IsInjective(<<x, y>>) /\ Range(<<x, y>>) = {x, y}
    BY <2>1 DEF IsInjective, Range
  <2> QED
    BY <2>2
<1>7. ASSUME NEW r \in Rank
      PROVE  /\ south[r] \in Seq(Rank) /\ IsInjective(south[r])
             /\ Range(south[r]) = {To(g, r, "south"), To(g, r, "west")}
             /\ north[r] \in Seq(Rank) /\ IsInjective(north[r])
             /\ Range(north[r]) = {To(g, r, "north"), To(g, r, "east")}
  <2>1. PICK s, w, n, e : /\ s = To(g, r, "south") /\ w = To(g, r, "west")
                          /\ n = To(g, r, "north") /\ e = To(g, r, "east")
    OBVIOUS
  <2>2. s \in Rank /\ w \in Rank /\ n \in Rank /\ e \in Rank /\ s # w /\ n # e
    BY <1>5, <2>1
  <2>3. south[r] = <<s, w>> /\ north[r] = <<n, e>>
    BY <1>1, <2>1
  <2> QED
    BY <1>6, <2>1, <2>2, <2>3
<1>8. ASSUME NEW a \in Rank, NEW b \in Rank
      PROVE  b \in Range(halo[a]) <=> a \in Range(halo[b])
  <2>1. ASSUME NEW c \in Rank, NEW d \in Rank, d \in Range(halo[c])
        PROVE  c \in Range(halo[d])
    <3>1. PICK x \in Halos!Across(g, c) : d = To(g, c, x)
      BY <1>3, <2>1
    <3>2. \E y \in Halos!Across(g, d) : To(g, d, y) = c
      BY <3>1, HalosBothWays
    <3> QED
      BY <1>3, <3>2
  <2> QED
    BY <2>1
<1>9. ASSUME NEW a \in Rank, NEW b \in Rank
      PROVE  b \in Range(south[a]) <=> a \in Range(north[b])
  <2>1. Range(south[a]) = {To(g, a, "south"), To(g, a, "west")}
    BY <1>7
  <2>2. Range(north[b]) = {To(g, b, "north"), To(g, b, "east")}
    BY <1>7
  <2>3. ASSUME b \in Range(south[a]) PROVE a \in Range(north[b])
    <3>3. b = To(g, a, "south") \/ b = To(g, a, "west")
      BY <2>1, <2>3
    <3>1. PICK x \in {"south", "west"} : b = To(g, a, x)
      BY <3>3
    <3>2. \E y \in {"north", "east"} : To(g, b, y) = a
      BY <3>1, SentBack
    <3> QED
      BY <2>2, <3>2, Zenon
  <2>4. ASSUME a \in Range(north[b]) PROVE b \in Range(south[a])
    <3>3. a = To(g, b, "north") \/ a = To(g, b, "east")
      BY <2>2, <2>4
    <3>1. PICK x \in {"north", "east"} : a = To(g, b, x)
      BY <3>3
    <3>2. \E y \in {"south", "west"} : To(g, a, y) = b
      BY <3>1, ReceivedBack
    <3> QED
      BY <2>1, <3>2, Zenon
  <2> QED
    BY <2>3, <2>4
<1>10. halo \in [Rank -> Seq(Rank)] /\ south \in [Rank -> Seq(Rank)] /\ north \in [Rank -> Seq(Rank)]
  <2>1. \A r \in Rank : halo[r] \in Seq(Rank)
    BY <1>3
  <2>2. \A r \in Rank : south[r] \in Seq(Rank) /\ north[r] \in Seq(Rank)
    BY <1>7
  <2>3. \A f, S : (DOMAIN f = Rank /\ f = [r \in Rank |-> f[r]] /\ \A r \in Rank : f[r] \in S)
                     => f \in [Rank -> S]
    OBVIOUS
  <2>4. /\ DOMAIN halo = Rank /\ halo = [r \in Rank |-> halo[r]]
        /\ DOMAIN south = Rank /\ south = [r \in Rank |-> south[r]]
        /\ DOMAIN north = Rank /\ north = [r \in Rank |-> north[r]]
    BY <1>1, Zenon
  <2> QED
    BY <2>1, <2>2, <2>3, <2>4, Zenon
<1>11. Out["halo"] = halo /\ In["halo"] = halo /\ Out["sync"] = south /\ In["sync"] = north
  BY <1>2
<1>12. Out \in [{"halo", "sync"} -> [Rank -> Seq(Rank)]] /\ In \in [{"halo", "sync"} -> [Rank -> Seq(Rank)]]
  <2>1. PICK S : S = [Rank -> Seq(Rank)]
    OBVIOUS
  <2>2. halo \in S /\ south \in S /\ north \in S
    BY <1>10, <2>1, Zenon
  <2>3. /\ DOMAIN Out = {"halo", "sync"} /\ Out = [k \in DOMAIN Out |-> Out[k]]
        /\ DOMAIN In = {"halo", "sync"} /\ In = [k \in DOMAIN In |-> In[k]]
    BY <1>2
  <2>5. \A k \in {"halo", "sync"} : Out[k] \in S /\ In[k] \in S
    BY <1>11, <2>2
  <2>4. Out \in [{"halo", "sync"} -> S] /\ In \in [{"halo", "sync"} -> S]
    BY <2>3, <2>5
  <2> QED
    BY <2>1, <2>4, Zenon
<1>13. \A k \in {"halo", "sync"}, r \in Rank : IsInjective(Out[k][r]) /\ IsInjective(In[k][r])
  <2>1. \A r \in Rank : IsInjective(halo[r]) /\ IsInjective(south[r]) /\ IsInjective(north[r])
    BY <1>3, <1>7
  <2> QED
    BY <1>11, <2>1, Zenon
<1>14. \A k \in {"halo", "sync"}, a, b \in Rank : b \in Range(Out[k][a]) <=> a \in Range(In[k][b])
  <2>1. \A a, b \in Rank : b \in Range(halo[a]) <=> a \in Range(halo[b])
    BY <1>8
  <2>2. \A a, b \in Rank : b \in Range(south[a]) <=> a \in Range(north[b])
    BY <1>9
  <2> SUFFICES ASSUME NEW k \in {"halo", "sync"}, NEW a \in Rank, NEW b \in Rank
               PROVE  b \in Range(Out[k][a]) <=> a \in Range(In[k][b])
    OBVIOUS
  <2>3. CASE k = "halo"
    BY <1>11, <2>1, <2>3
  <2>4. CASE k = "sync"
    BY <1>11, <2>2, <2>4
  <2> QED
    BY <2>3, <2>4
<1> QED
  BY <1>12, <1>13, <1>14 DEF Topology

==============================================================================
