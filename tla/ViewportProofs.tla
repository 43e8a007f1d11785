--------------------------- MODULE ViewportProofs ---------------------------
(***************************************************************************)
(* Proofs about the way from a request to tiles or a region of an image    *)
(* (View, Region, Viewport), for images, tiles and requests of any size.   *)
(***************************************************************************)
EXTENDS Viewport, WellFoundedInduction, TLAPS

-----------------------------------------------------------------------------
(* Powers of two.                                                           *)

(* The order of the naturals, as a set of pairs, is well founded. *)
LEMMA LessThanWellFounded ==
  IsWellFoundedOn({ss \in Nat \X Nat : ss[1] < ss[2]}, Nat)
BY NatLessThanWellFounded DEF OpToRel

(* A set that holds 0 and the successor of each of its naturals holds all   *)
(* of them: otherwise the least natural it misses has a predecessor in it.  *)
LEMMA SetInduction ==
  ASSUME NEW S, 0 \in S, \A n \in Nat : n \in S => n + 1 \in S
  PROVE  Nat \subseteq S
<1> DEFINE R == {ss \in Nat \X Nat : ss[1] < ss[2]}
           D == Nat \ S
<1>1. SUFFICES ASSUME D # {} PROVE FALSE
  OBVIOUS
<1>2. PICK m \in D : \A y \in D : ~ (<<y, m>> \in R)
  <2>1. D \subseteq Nat
    OBVIOUS
  <2>2. IsWellFoundedOn(R, Nat)
    BY LessThanWellFounded
  <2> HIDE DEF D, R
  <2>3. QED
    BY <1>1, <2>1, <2>2, WFMin, Zenon
<1>3. m - 1 \in Nat /\ m - 1 < m /\ (m - 1) + 1 = m
  OBVIOUS
<1>4. m - 1 \in S
  BY <1>2, <1>3, Zenon
<1>5. QED
  BY <1>3, <1>4

\* p lists the powers of two up to the one of m.
Powers(p, m) ==
  p \in [0..m -> Nat] /\ p[0] = 1 /\ \A k \in 1..m : p[k] = 2 * p[k - 1]

(* There are powers of two up to any bound. *)
LEMMA PowersExist ==
  ASSUME NEW m \in Nat
  PROVE  \E p : Powers(p, m)
<1> DEFINE S == {n \in Nat : \E p : Powers(p, n)}
<1>1. 0 \in S
  <2>1. Powers([k \in 0..0 |-> 1], 0)
    BY DEF Powers
  <2> QED BY <2>1
<1>2. ASSUME NEW n \in Nat, n \in S
      PROVE  n + 1 \in S
  <2>1. PICK p : Powers(p, n)
    BY <1>2
  <2> DEFINE q == [k \in 0..(n + 1) |-> IF k = n + 1 THEN 2 * p[n] ELSE p[k]]
  <2>2. Powers(q, n + 1)
    BY <2>1 DEF Powers
  <2> HIDE DEF q
  <2> QED BY <2>2
<1> HIDE DEF S
<1>3. Nat \subseteq S
  BY <1>1, <1>2, SetInduction
<1> QED BY <1>3 DEF S

(* Two lists of powers agree as far as both reach. *)
LEMMA PowersAgree ==
  ASSUME NEW m \in Nat, NEW n \in Nat, NEW p, NEW q, Powers(p, m), Powers(q, n), m <= n
  PROVE  \A k \in 0..m : p[k] = q[k]
<1> DEFINE S == {k \in Nat : k <= m => p[k] = q[k]}
<1>1. 0 \in S
  BY DEF Powers
<1>2. ASSUME NEW k \in Nat, k \in S
      PROVE  k + 1 \in S
  <2>1. SUFFICES ASSUME k + 1 <= m
                 PROVE  p[k + 1] = q[k + 1]
    OBVIOUS
  <2>2. p[k] = q[k] /\ k + 1 \in 1..m /\ k + 1 \in 1..n /\ (k + 1) - 1 = k
    BY <1>2, <2>1
  <2> QED BY <2>2 DEF Powers
<1> HIDE DEF S
<1>3. Nat \subseteq S
  BY <1>1, <1>2, SetInduction
<1> QED BY <1>3 DEF S

(* Pow2 is the function that its recursive definition describes. *)
LEMMA PowEquation == Pow2 = [k \in Nat |-> IF k = 0 THEN 1 ELSE 2 * Pow2[k - 1]]
<1> DEFINE f(k) == CHOOSE p : Powers(p, k)
           g == [k \in Nat |-> f(k)[k]]
<1>1. \A k \in Nat : Powers(f(k), k)
  BY PowersExist, Zenon
<1> HIDE DEF f
<1>2. ASSUME NEW k \in Nat
      PROVE  g[k] = IF k = 0 THEN 1 ELSE 2 * g[k - 1]
  <2>1. CASE k = 0
    BY <2>1, <1>1 DEF Powers
  <2>2. CASE k # 0
    <3>1. k - 1 \in Nat /\ k - 1 <= k /\ k - 1 \in 0..(k - 1) /\ k \in 1..k
      BY <2>2
    <3>2. Powers(f(k), k) /\ Powers(f(k - 1), k - 1)
      BY <1>1, <3>1
    <3>3. f(k - 1)[k - 1] = f(k)[k - 1]
      <4>1. PICK a, b, j : a = f(k) /\ b = f(k - 1) /\ j = k - 1
        OBVIOUS
      <4>2. \A i \in 0..j : b[i] = a[i]
        BY <4>1, <3>1, <3>2, PowersAgree
      <4> QED BY <4>1, <4>2, <3>1
    <3>4. f(k)[k] = 2 * f(k)[k - 1]
      BY <3>1, <3>2 DEF Powers
    <3> QED BY <2>2, <3>1, <3>3, <3>4
  <2> QED BY <2>1, <2>2
<1>3. g = [k \in Nat |-> IF k = 0 THEN 1 ELSE 2 * g[k - 1]]
  BY <1>2
<1> HIDE DEF g
<1> QED BY <1>3 DEF Pow2

(* The powers of two are positive, and larger than their exponents. *)
LEMMA PowPositive ==
  ASSUME NEW k \in Nat
  PROVE  Pow2[k] \in Nat /\ Pow2[k] > 0 /\ Pow2[k] > k
<1> DEFINE S == {n \in Nat : Pow2[n] \in Nat /\ Pow2[n] > n}
<1>1. 0 \in S
  <2>1. Pow2[0] = 1
    BY PowEquation
  <2> QED BY <2>1
<1>2. ASSUME NEW n \in Nat, n \in S
      PROVE  n + 1 \in S
  <2>1. n + 1 \in Nat /\ n + 1 # 0 /\ (n + 1) - 1 = n
    OBVIOUS
  <2>2. Pow2[n + 1] = 2 * Pow2[n]
    BY <2>1, PowEquation
  <2> QED BY <1>2, <2>2
<1> HIDE DEF S
<1>3. Nat \subseteq S
  BY <1>1, <1>2, SetInduction
<1> QED BY <1>3 DEF S
-----------------------------------------------------------------------------
(* Arithmetic.                                                              *)

(* Division with remainder. *)
LEMMA Division ==
  ASSUME NEW n \in Nat, NEW d \in Nat, d > 0
  PROVE  /\ n \div d \in Nat /\ n % d \in 0..(d - 1)
         /\ n = (n \div d) * d + (n % d)
  OBVIOUS

(* A product of natural numbers is smaller only if a factor is. *)
LEMMA Factor ==
  ASSUME NEW a \in Nat, NEW b \in Nat, NEW d \in Nat, a * d < b * d
  PROVE  a + 1 <= b
  OBVIOUS

(* Multiples, in the form the other proofs need. *)
LEMMA Multiple ==
  ASSUME NEW a \in Nat, NEW d \in Nat
  PROVE  a * d \in Nat /\ (a + 1) * d = a * d + d
  OBVIOUS

(* The quotient is the number of whole steps of size d up to n. *)
LEMMA Quotient ==
  ASSUME NEW n \in Nat, NEW d \in Nat, d > 0, NEW q \in Nat,
         q * d <= n, n < q * d + d
  PROVE  n \div d = q /\ n % d = n - q * d
<1> DEFINE p == n \div d
<1>1. p \in Nat /\ n % d \in 0..(d - 1) /\ n = p * d + (n % d)
  BY Division
<1> HIDE DEF p
<1>2. /\ p * d \in Nat /\ q * d \in Nat
      /\ (p + 1) * d = p * d + d /\ (q + 1) * d = q * d + d
  BY <1>1, Multiple
<1>3. p * d < (q + 1) * d /\ q * d < (p + 1) * d
  BY <1>1, <1>2
<1>4. p + 1 <= q + 1 /\ q + 1 <= p + 1
  <2>1. p + 1 \in Nat /\ q + 1 \in Nat
    BY <1>1
  <2> QED BY <1>1, <1>3, <2>1, Factor
<1>5. p = q
  BY <1>1, <1>4
<1> QED BY <1>1, <1>2, <1>5 DEF p

(* Tile i lies whole inside a level of the given size. *)
LEMMA FullTile ==
  ASSUME NEW size \in Nat, NEW tile \in Nat, tile > 0, NEW i \in Nat,
         i * tile + tile <= size
  PROVE  i < Tiles(size, tile) /\ TileExtent(size, tile, i) = tile
<1> DEFINE q == size \div tile
<1>1. q \in Nat /\ size % tile \in 0..(tile - 1) /\ size = q * tile + (size % tile)
  BY Division
<1> HIDE DEF q
<1>2. /\ i * tile \in Nat /\ q * tile \in Nat
      /\ (i + 1) * tile = i * tile + tile /\ (q + 1) * tile = q * tile + tile
  BY <1>1, Multiple
<1>3. (i + 1) * tile < (q + 1) * tile
  BY <1>1, <1>2
<1>4. i + 1 <= q
  <2>1. i + 1 \in Nat /\ q + 1 \in Nat
    BY <1>1
  <2>2. (i + 1) + 1 <= q + 1
    BY <1>3, <2>1, Factor
  <2> QED BY <1>1, <2>2
<1>5. Tiles(size, tile) = q + (IF size % tile = 0 THEN 0 ELSE 1)
  BY DEF Tiles, Remainder, q
<1>6. i < Tiles(size, tile) /\ (size % tile # 0 => i # Tiles(size, tile) - 1)
  BY <1>1, <1>4, <1>5
<1> QED BY <1>6 DEF TileExtent, Remainder

(* Tile i is the one that the edge of the level cuts. *)
LEMMA CutTile ==
  ASSUME NEW size \in Nat, NEW tile \in Nat, tile > 0, NEW i \in Nat,
         i * tile < size, size < i * tile + tile
  PROVE  i < Tiles(size, tile) /\ TileExtent(size, tile, i) = size - i * tile
<1>1. i * tile \in Nat
  BY Multiple
<1>2. size \div tile = i /\ size % tile = size - i * tile
  BY <1>1, Quotient
<1>3. size % tile # 0
  BY <1>1, <1>2
<1>4. Tiles(size, tile) = i + 1
  BY <1>2, <1>3 DEF Tiles, Remainder
<1> QED BY <1>2, <1>3, <1>4 DEF TileExtent, Remainder
-----------------------------------------------------------------------------
(* The tiles visited are those between the pixels x and x + extent. *)
LEMMA Visited ==
  ASSUME NEW tile \in Nat, tile > 0, NEW x \in Nat, NEW extent \in Nat, extent > 0
  PROVE  LET first == FirstTile(tile, x)
             last  == EndTile(tile, x, extent)
         IN  /\ first \in Nat /\ last \in Nat /\ first < last
             /\ first * tile <= x /\ x < first * tile + tile
             /\ x % tile = x - first * tile
             /\ last * tile < x + extent + tile /\ x + extent <= last * tile
<1> DEFINE first == FirstTile(tile, x)
           last == EndTile(tile, x, extent)
           n == extent + x + tile - 1
<1>1. n \in Nat /\ n = extent + x + tile - 1
  OBVIOUS
<1>2. /\ first \in Nat /\ x % tile \in 0..(tile - 1)
      /\ x = first * tile + (x % tile)
  BY Division DEF FirstTile
<1>3. last = n \div tile
  BY DEF EndTile
<1> HIDE DEF first, last, n
<1>4. last \in Nat /\ n % tile \in 0..(tile - 1) /\ n = last * tile + (n % tile)
  BY <1>1, <1>3, Division
<1>5. first * tile \in Nat /\ last * tile \in Nat
  BY <1>2, <1>4, Multiple
<1>6. /\ first * tile <= x /\ x < first * tile + tile
      /\ x % tile = x - first * tile
  BY <1>2, <1>5
<1>7. last * tile < x + extent + tile /\ x + extent <= last * tile
  BY <1>1, <1>4, <1>5
<1>8. first < last
  <2>1. first * tile < last * tile
    BY <1>5, <1>6, <1>7
  <2>2. first + 1 <= last
    BY <1>2, <1>4, <2>1, Factor
  <2> QED BY <1>2, <1>4, <2>2
<1> QED BY <1>2, <1>4, <1>6, <1>7, <1>8 DEF first, last

(* TileManager::getRegion, in either direction, for any part of a level that
   lies inside it: every tile visited exists, the copy from it is not empty and
   stays inside the tile, the first copy starts at the first pixel of the
   region, every later one where its tile starts, and each ends where the next
   tile starts or, the last one, at the end of the region.  So the copies
   neither overlap nor leave a gap. *)
THEOREM CopiesMeet ==
  ASSUME NEW size \in Nat, NEW tile \in Nat, tile > 0,
         NEW x \in Nat, NEW extent \in Nat, extent > 0, x + extent <= size,
         NEW j \in FirstTile(tile, x) .. (EndTile(tile, x, extent) - 1)
  PROVE  LET first == FirstTile(tile, x)
             last  == EndTile(tile, x, extent)
             from  == From(tile, x, j)
             len   == Copied(size, tile, x, extent, j, first, last)
         IN  /\ j < Tiles(size, tile)
             /\ len > 0 /\ from + len <= TileExtent(size, tile, j)
             /\ j * tile + from = IF j = first THEN x ELSE j * tile
             /\ j * tile + from + len
                   = IF j = last - 1 THEN x + extent ELSE (j + 1) * tile
<1> DEFINE first == FirstTile(tile, x)
           last  == EndTile(tile, x, extent)
           from  == From(tile, x, j)
           src   == TileExtent(size, tile, j)
           end   == (extent + x) % tile
           len   == Copied(size, tile, x, extent, j, first, last)
<1>1. /\ first \in Nat /\ last \in Nat /\ first < last
      /\ first * tile <= x /\ x < first * tile + tile
      /\ x % tile = x - first * tile
      /\ last * tile < x + extent + tile /\ x + extent <= last * tile
  BY Visited
<1>2. from = IF j = first THEN x % tile ELSE 0
  BY DEF From
<1>3. len = IF j = first THEN (IF j < last - 1 THEN src - (x % tile) ELSE extent)
            ELSE IF j = last - 1 /\ end # 0 THEN end
            ELSE src
  BY DEF Copied
<1>4. j \in first .. (last - 1)
  OBVIOUS
<1> HIDE DEF first, last, from, src, end, len
<1>5. j \in Nat /\ first <= j /\ j + 1 <= last
  BY <1>1, <1>4
<1>6. /\ j * tile \in Nat /\ first * tile \in Nat /\ last * tile \in Nat
      /\ (j + 1) * tile = j * tile + tile
  BY <1>1, <1>5, Multiple
<1>7. CASE j < last - 1
  \* A tile before the last one: the region goes past its end.
  <2>1. j * tile + tile < x + extent
    <3> DEFINE a == j + 2
               c == last - a
    <3>1. a \in Nat /\ c \in Nat /\ last = a + c
      BY <1>1, <1>5, <1>7
    <3> HIDE DEF c
    <3>2. c * tile \in Nat
      BY <3>1, Multiple
    <3>3. (a + c) * tile = a * tile + c * tile /\ a * tile = j * tile + tile + tile
      BY <3>1, <1>5
    <3>4. j * tile + tile + tile <= last * tile
      BY <3>1, <3>2, <3>3, <1>6
    <3> QED BY <3>4, <1>1, <1>6
  <2>2. j * tile + tile <= size
    BY <2>1, <1>6
  <2>3. j < Tiles(size, tile) /\ src = tile
    BY <2>2, <1>5, FullTile DEF src
  <2>4. j # last - 1
    BY <1>1, <1>5, <1>7
  <2>5. CASE j = first
    <3>1. from = x - j * tile /\ len = tile - (x - j * tile)
      BY <1>1, <1>2, <1>3, <1>7, <2>3, <2>5
    <3>2. len > 0 /\ from + len = tile /\ j * tile + from = x
      BY <3>1, <1>1, <1>6, <2>5
    <3>3. j * tile + from + len = (j + 1) * tile
      BY <3>1, <1>6
    <3> QED BY <2>3, <2>4, <2>5, <3>2, <3>3 DEF first, last, from, src, len
  <2>6. CASE j # first
    <3>1. from = 0 /\ len = tile
      BY <1>2, <1>3, <2>3, <2>4, <2>6
    <3>2. /\ len > 0 /\ from + len = tile /\ j * tile + from = j * tile
          /\ j * tile + from + len = (j + 1) * tile
      BY <3>1, <1>6
    <3> QED BY <2>3, <2>4, <2>6, <3>2 DEF first, last, from, src, len
  <2> QED BY <2>5, <2>6
<1>8. CASE j = last - 1
  \* The last tile: the region ends inside it or at its end.
  <2>1. last = j + 1 /\ last * tile = j * tile + tile
    BY <1>1, <1>5, <1>6, <1>8
  <2>2. j * tile < x + extent /\ x + extent <= j * tile + tile
    BY <2>1, <1>1, <1>6
  <2>3. /\ j < Tiles(size, tile) /\ src \in Nat
        /\ x + extent <= j * tile + src
        /\ (x + extent = j * tile + tile => src = tile)
    <3>1. CASE j * tile + tile <= size
      BY <3>1, <1>5, <1>6, <2>2, FullTile DEF src
    <3>2. CASE size < j * tile + tile
      <4>1. j * tile < size
        BY <1>6, <2>2
      <4>2. j < Tiles(size, tile) /\ src = size - j * tile
        BY <3>2, <4>1, <1>5, CutTile DEF src
      <4> QED BY <3>2, <4>1, <4>2, <1>6, <2>2
    <3> QED BY <3>1, <3>2, <1>6
  <2>4. CASE j = first
    <3>1. from = x - j * tile /\ len = extent
      BY <1>1, <1>2, <1>3, <1>5, <1>8, <2>4
    <3>2. /\ len > 0 /\ from + len <= src /\ j * tile + from = x
          /\ j * tile + from + len = x + extent
      BY <3>1, <1>6, <2>3
    <3> QED BY <1>8, <2>3, <2>4, <3>2 DEF first, last, from, src, len
  <2>5. CASE j # first
    <3>1. from = 0 /\ len = IF end # 0 THEN end ELSE src
      BY <1>2, <1>3, <1>8, <2>5
    <3>2. len = x + extent - j * tile
      <4>1. CASE x + extent = j * tile + tile
        <5>1. last * tile <= extent + x /\ extent + x < last * tile + tile
          BY <2>1, <4>1, <1>6
        <5>2. end = (extent + x) - last * tile
          <6>1. last \in Nat /\ extent + x \in Nat
            BY <1>1
          <6> QED BY <5>1, <6>1, Quotient, Zenon DEF end
        <5>3. end = 0
          BY <5>2, <2>1, <4>1, <1>6
        <5> QED BY <5>3, <3>1, <4>1, <2>3, <1>6
      <4>2. CASE x + extent # j * tile + tile
        <5>1. j * tile <= extent + x /\ extent + x < j * tile + tile
          BY <2>2, <4>2, <1>6
        <5>2. end = (extent + x) - j * tile
          BY <5>1, <1>5, Quotient DEF end
        <5>3. end = x + extent - j * tile /\ end # 0
          BY <5>2, <2>2, <1>6
        <5> QED BY <5>3, <3>1
      <4> QED BY <4>1, <4>2
    <3>3. /\ len > 0 /\ from + len <= src /\ j * tile + from = j * tile
          /\ j * tile + from + len = x + extent
      BY <3>1, <3>2, <2>2, <2>3, <1>6
    <3> QED BY <1>8, <2>3, <2>5, <3>3 DEF first, last, from, src, len
  <2> QED BY <2>4, <2>5
<1> QED BY <1>1, <1>5, <1>7, <1>8

(* round() returns the nearest integer, the larger of two. *)
LEMMA Rounding ==
  ASSUME NEW n \in Nat, NEW d \in Nat, d > 0
  PROVE  /\ Round(n, d) \in Nat
         /\ 2 * (Round(n, d) * d) <= 2 * n + d
         /\ 2 * n + d < 2 * (Round(n, d) * d) + 2 * d
<1> DEFINE m == 2 * n + d
           e == 2 * d
           r == m \div e
<1>1. m \in Nat /\ e \in Nat /\ e > 0
  OBVIOUS
<1>2. r = Round(n, d)
  BY DEF Round
<1> HIDE DEF m, e
<1>3. r \in Nat /\ m % e \in 0..(e - 1) /\ m = r * e + (m % e)
  BY <1>1, Division
<1> HIDE DEF r
<1>4. r * e = 2 * (r * d)
  BY <1>3 DEF e
<1>5. r * d \in Nat
  BY <1>3
<1>6. 2 * (r * d) <= m /\ m < 2 * (r * d) + e
  BY <1>1, <1>3, <1>4, <1>5
<1> QED BY <1>2, <1>3, <1>6 DEF m, e

(* The larger of two integers. *)
LEMMA MaxOfTwo ==
  ASSUME NEW a \in Int, NEW b \in Int
  PROVE  Max({a, b}) = IF a >= b THEN a ELSE b
BY DEF Max

(* The smaller of two integers. *)
LEMMA MinOfTwo ==
  ASSUME NEW a \in Int, NEW b \in Int
  PROVE  Min({a, b}) = IF a <= b THEN a ELSE b
BY DEF Min

(* A larger exponent gives a larger power. *)
LEMMA PowGrows ==
  ASSUME NEW k \in Nat, NEW d \in Nat
  PROVE  Pow2[k] <= Pow2[k + d]
<1> DEFINE S == {n \in Nat : Pow2[k] <= Pow2[k + n]}
<1>1. 0 \in S
  BY PowPositive
<1>2. ASSUME NEW n \in Nat, n \in S
      PROVE  n + 1 \in S
  <2>1. k + (n + 1) \in Nat /\ k + (n + 1) # 0 /\ (k + (n + 1)) - 1 = k + n
    OBVIOUS
  <2>2. Pow2[k + (n + 1)] = 2 * Pow2[k + n]
    BY <2>1, PowEquation
  <2>3. Pow2[k] \in Nat /\ Pow2[k + n] \in Nat
    BY PowPositive
  <2> QED BY <1>2, <2>2, <2>3
<1> HIDE DEF S
<1>3. Nat \subseteq S
  BY <1>1, <1>2, SetInduction
<1> QED BY <1>3 DEF S

(* A level above one that is not empty is not empty. *)
LEMMA HalfPositive ==
  ASSUME NEW n \in Nat, NEW k \in Nat, NEW m \in Nat, k <= m, Half(n, m) > 0
  PROVE  Half(n, k) \in Nat /\ Half(n, k) > 0 /\ Half(n, k) <= n
<1> DEFINE p == Pow2[k]
           q == Pow2[m]
<1>1. p \in Nat /\ p > 0 /\ q \in Nat /\ q > 0
  BY PowPositive
<1>2. p <= q
  <2>1. PICK d \in Nat : m = k + d
    <3>1. m - k \in Nat /\ m = k + (m - k)
      OBVIOUS
    <3> QED BY <3>1
  <2> QED BY <2>1, PowGrows
<1>3. Half(n, k) = n \div p /\ Half(n, m) = n \div q
  BY DEF Half
<1> HIDE DEF p, q
<1>4. /\ n \div p \in Nat /\ n % p \in 0..(p - 1) /\ n = (n \div p) * p + (n % p)
      /\ n \div q \in Nat /\ n % q \in 0..(q - 1) /\ n = (n \div q) * q + (n % q)
  BY <1>1, Division
<1>5. PICK a \in Nat, b \in Nat : a = n \div p /\ b = n \div q
  BY <1>4
<1>6. b * q >= q
  BY <1>1, <1>3, <1>5
<1>7. n >= p
  BY <1>1, <1>2, <1>4, <1>5, <1>6
<1>8. a > 0
  BY <1>1, <1>4, <1>5, <1>7
<1>9. a * p >= a
  BY <1>1, <1>5
<1> QED BY <1>1, <1>3, <1>4, <1>5, <1>8, <1>9

(* Halving n often enough, n times at most, brings it to any bound. *)
LEMMA HalvingsBounded ==
  ASSUME NEW n \in Nat, NEW m \in Nat
  PROVE  /\ Halvings(n, m) \in 0..n
         /\ Half(n, Halvings(n, m)) <= m
         /\ \A j \in 0..(Halvings(n, m) - 1) : Half(n, j) > m
<1> DEFINE R == {ss \in Nat \X Nat : ss[1] < ss[2]}
           D == {k \in Nat : Half(n, k) <= m}
           P(k) == Half(n, k) <= m /\ \A j \in 0..(k - 1) : Half(n, j) > m
<1>1. n \in D
  <2>1. PICK p \in Nat : p = Pow2[n] /\ p > n
    BY PowPositive
  <2>2. 0 * p <= n /\ n < 0 * p + p /\ p > 0
    BY <2>1
  <2>3. n \div p = 0
    BY <2>2, Quotient
  <2> QED BY <2>1, <2>3 DEF Half
<1>2. \A j \in Nat : Half(n, j) \in Nat
  <2> TAKE j \in Nat
  <2>1. PICK p \in Nat : p = Pow2[j] /\ p > 0
    BY PowPositive
  <2> QED BY <2>1, Division DEF Half
<1>3. PICK k \in D : \A y \in D : ~ (<<y, k>> \in R)
  <2>1. D \subseteq Nat /\ D # {}
    BY <1>1
  <2>2. IsWellFoundedOn(R, Nat)
    BY LessThanWellFounded
  <2> HIDE DEF D, R
  <2> QED BY <2>1, <2>2, WFMin, Zenon
<1>4. k \in Nat /\ Half(n, k) <= m /\ \A y \in D : k <= y
  <2>1. ASSUME NEW y \in D
        PROVE  k <= y
    <3>1. y \in Nat /\ k \in Nat
      OBVIOUS
    <3>2. ~ (<<y, k>> \in R)
      BY <1>3
    <3>3. ~ (y < k)
      BY <3>1, <3>2
    <3> QED BY <3>1, <3>3
  <2> QED BY <2>1
<1>5. k \in 0..n /\ P(k)
  <2>1. k \in 0..n
    BY <1>1, <1>4
  <2>2. ASSUME NEW j \in 0..(k - 1)
        PROVE  Half(n, j) > m
    <3>1. j \in Nat /\ ~ (k <= j)
      BY <1>4
    <3>2. Half(n, j) \in Nat
      BY <1>2, <3>1
    <3>3. j \notin D
      BY <1>4, <3>1
    <3> QED BY <3>1, <3>2, <3>3
  <2> QED BY <1>4, <2>1, <2>2
<1>6. Halvings(n, m) = CHOOSE i \in 0..n : P(i)
  BY DEF Halvings
<1> HIDE DEF P
<1>7. Halvings(n, m) \in 0..n /\ P(Halvings(n, m))
  BY <1>5, <1>6, Zenon
<1> QED BY <1>7 DEF P

-----------------------------------------------------------------------------
(* The View: what its members hold.                                         *)

Fraction == {f \in Nat \X Positive : f[1] <= f[2]}

Unsigned == 0..(WordSize - 1)

ViewSet ==
  [left : Fraction, top : Fraction, width : Fraction, height : Fraction,
   imw : Nat, imh : Nat, max_resolutions : Nat, resolution : Nat,
   reqw : Unsigned, reqh : Unsigned, max_size : Int,
   aspect : BOOLEAN, upscale : BOOLEAN]

\* The view of an image that is open, with one of its resolutions.
Opened(v, img) ==
  /\ v \in ViewSet
  /\ v.imw = img.w /\ v.imh = img.h
  /\ v.max_resolutions = img.levels /\ v.resolution \in 0..(img.levels - 1)

(* The setters clamp every fraction to the range from 0 to 1. *)
LEMMA ClampFraction ==
  ASSUME NEW x \in Int \X Positive
  PROVE  Clamp(x) \in Fraction
BY DEF Clamp, Fraction, Positive

(* What is left of a dimension beyond an offset is a fraction of it. *)
LEMMA RestFraction ==
  ASSUME NEW f \in Fraction
  PROVE  <<f[2] - f[1], f[2]>> \in Int \X Positive
BY DEF Fraction, Positive

\* A view that differs from v in its region, its size or its switches only.
SameImage(v, w) ==
  /\ w \in ViewSet
  /\ w.imw = v.imw /\ w.imh = v.imh /\ w.max_resolutions = v.max_resolutions
  /\ w.resolution = v.resolution /\ w.max_size = v.max_size

(* The setters keep a fraction between 0 and 1, and leave the image, the *)
(* resolution and the limit alone.                                       *)
LEMMA SettersKeep ==
  ASSUME NEW v \in ViewSet, NEW x \in Int \X Positive
  PROVE  /\ SameImage(v, setViewLeft(v, x)) /\ SameImage(v, setViewTop(v, x))
         /\ SameImage(v, setViewWidth(v, x)) /\ SameImage(v, setViewHeight(v, x))
<1>1. PICK c : c = Clamp(x) /\ c \in Fraction
  BY ClampFraction
<1>2. PICK d : d = Clamp(IF Above(x, <<v.left[2] - v.left[1], v.left[2]>>)
                         THEN <<v.left[2] - v.left[1], v.left[2]>> ELSE x)
               /\ d \in Fraction
  <2>1. PICK f \in Fraction : f = v.left
    BY DEF ViewSet
  <2>2. PICK y : y = <<v.left[2] - v.left[1], v.left[2]>> /\ y \in Int \X Positive
    <3>1. <<f[2] - f[1], f[2]>> \in Int \X Positive
      BY RestFraction
    <3> QED BY <2>1, <3>1
  <2>3. (IF Above(x, y) THEN y ELSE x) \in Int \X Positive
    BY <2>2
  <2> QED BY <2>2, <2>3, ClampFraction
<1>3. /\ setViewLeft(v, x) = [v EXCEPT !.left = c]
      /\ setViewTop(v, x) = [v EXCEPT !.top = c]
      /\ setViewWidth(v, x) = [v EXCEPT !.width = d]
      /\ setViewHeight(v, x) = [v EXCEPT !.height = c]
  BY <1>1, <1>2 DEF setViewLeft, setViewTop, setViewWidth, setViewHeight
<1>4. SameImage(v, [v EXCEPT !.left = c]) /\ SameImage(v, [v EXCEPT !.top = c])
  BY <1>1 DEF SameImage, ViewSet
<1>5. SameImage(v, [v EXCEPT !.width = d]) /\ SameImage(v, [v EXCEPT !.height = c])
  BY <1>1, <1>2 DEF SameImage, ViewSet
<1> QED BY <1>3, <1>4, <1>5, Zenon

(* A number stored into an unsigned int. *)
LEMMA WordRange ==
  ASSUME NEW n \in Int
  PROVE  Word(n) \in Unsigned
BY WordSizeAssumption DEF Word, Unsigned

(* Opening an image in a view. *)
LEMMA OpenedSet ==
  ASSUME NEW v \in ViewSet, NEW img \in Images
  PROVE  LET o == setMaxResolutions(setImageSize(v, img.w, img.h), img.levels) IN
         /\ Opened(o, img) /\ o.resolution = img.levels - 1
         /\ o = [v EXCEPT !.imw = img.w, !.imh = img.h, !.max_resolutions = img.levels,
                          !.resolution = img.levels - 1]
<1>1. img.w \in Nat /\ img.h \in Nat /\ img.levels \in Nat /\ img.levels > 0
  BY ImagesAssumption DEF Positive
<1>2. PICK w \in Nat, h \in Nat, n \in Nat :
        w = img.w /\ h = img.h /\ n = img.levels /\ n > 0
  BY <1>1
<1>3. PICK o : o = [v EXCEPT !.imw = w, !.imh = h, !.max_resolutions = n,
                             !.resolution = n - 1]
  OBVIOUS
<1>4. o \in ViewSet
  <2>1. PICK a : a = [v EXCEPT !.imw = w, !.imh = h]
    OBVIOUS
  <2>2. a \in ViewSet
    BY <2>1, Zenon DEF ViewSet
  <2>3. PICK r \in Nat : r = n - 1
    BY <1>2
  <2>4. o = [a EXCEPT !.max_resolutions = n, !.resolution = r]
    BY <1>3, <2>1, <2>3
  <2> QED BY <2>2, <2>4, Zenon DEF ViewSet
<1>5. o.imw = w /\ o.imh = h /\ o.max_resolutions = n /\ o.resolution = n - 1
  BY <1>3 DEF ViewSet
<1>6. o = setMaxResolutions(setImageSize(v, img.w, img.h), img.levels)
  BY <1>2, <1>3 DEF setMaxResolutions, setImageSize
<1>7. o.resolution \in 0..(n - 1)
  BY <1>2, <1>5
<1>8. Opened(o, img)
  BY <1>2, <1>4, <1>5, <1>7 DEF Opened
<1> QED BY <1>2, <1>3, <1>5, <1>6, <1>8, Zenon

(* The size that calculateResolution is asked for is a number. *)
LEMMA SpreadTyped ==
  ASSUME NEW n \in Unsigned, NEW f \in Fraction
  PROVE  Spread(n, f) \in Nat
<1>1. n \in Nat /\ f[1] \in Nat /\ f[2] \in Nat
  BY WordSizeAssumption DEF Unsigned, Fraction, Positive
<1>2. CASE f[1] = 0
  BY <1>2 DEF Spread
<1>3. CASE f[1] # 0
  <2>1. (n * f[2]) \div f[1] \in Int
    BY <1>1, <1>3
  <2>2. Word((n * f[2]) \div f[1]) \in Nat
    BY <2>1, WordRange, WordSizeAssumption DEF Unsigned
  <2> QED BY <1>3, <2>2 DEF Spread
<1> QED BY <1>2, <1>3

(* A view whose resolution only is replaced by another one of the image. *)
LEMMA ResolutionReplaced ==
  ASSUME NEW img \in Images, NEW v, Opened(v, img), NEW r \in 0..(img.levels - 1)
  PROVE  /\ Opened([v EXCEPT !.resolution = r], img)
         /\ [v EXCEPT !.resolution = r].resolution = r
<1>1. img.levels \in Nat
  BY ImagesAssumption DEF Positive
<1>2. r \in Nat
  BY <1>1
<1>3. v \in ViewSet
  BY DEF Opened
<1>4. PICK w : w = [v EXCEPT !.resolution = r]
  BY Zenon
<1>5. w \in ViewSet /\ w.resolution = r
  BY <1>2, <1>3, <1>4 DEF ViewSet
<1>6. w.imw = v.imw /\ w.imh = v.imh /\ w.max_resolutions = v.max_resolutions
  BY <1>3, <1>4 DEF ViewSet
<1> QED BY <1>4, <1>5, <1>6 DEF Opened

\* w is the view v with a resolution that the image has.
Chosen(v, w, img) == \E r \in 0..(img.levels - 1) : w = [v EXCEPT !.resolution = r]

(* calculateResolution chooses a resolution that the image has. *)
LEMMA CalculatedResolution ==
  ASSUME NEW img \in Images, NEW v, Opened(v, img), NEW d \in Nat, NEW n \in Nat
  PROVE  Chosen(v, calculateResolution(v, d, n), img)
<1> DEFINE rs == Max({n, 1})
           drops == Halvings(d \div 2, rs - 1)
           r == Max({v.max_resolutions - 1 - drops, 0})
<1>1. rs - 1 \in Nat
  BY MaxOfTwo
<1>2. d \div 2 \in Nat
  OBVIOUS
<1> HIDE DEF rs
<1>3. drops \in Nat
  <2>1. PICK a \in Nat, b \in Nat : a = d \div 2 /\ b = rs - 1
    BY <1>1, <1>2, Zenon
  <2>2. Halvings(a, b) \in Nat
    BY HalvingsBounded
  <2> QED BY <2>1, <2>2
<1>4. v.max_resolutions = img.levels /\ img.levels \in Nat /\ img.levels > 0
  BY ImagesAssumption DEF Opened, Positive
<1> HIDE DEF drops
<1>5. r \in 0..(img.levels - 1)
  BY <1>3, <1>4, MaxOfTwo
<1>6. calculateResolution(v, d, n) = [v EXCEPT !.resolution = r]
  BY DEF calculateResolution, drops, rs
<1> HIDE DEF r
<1> QED BY <1>5, <1>6 DEF Chosen

(* Every level of an image has pixels. *)
LEMMA LevelSizes ==
  ASSUME NEW img \in Images, NEW r \in 0..(img.levels - 1)
  PROVE  /\ WidthAt(img, r) \in Nat /\ WidthAt(img, r) > 0 /\ WidthAt(img, r) <= img.w
         /\ HeightAt(img, r) \in Nat /\ HeightAt(img, r) > 0 /\ HeightAt(img, r) <= img.h
<1>1. /\ img.w \in Nat /\ img.h \in Nat /\ img.levels \in Nat /\ img.levels > 0
      /\ Half(img.w, img.levels - 1) > 0 /\ Half(img.h, img.levels - 1) > 0
  BY ImagesAssumption DEF Positive
<1>2. PICK k \in Nat, m \in Nat : k = img.levels - r - 1 /\ m = img.levels - 1 /\ k <= m
  BY <1>1
<1>3. /\ Half(img.w, k) \in Nat /\ Half(img.w, k) > 0 /\ Half(img.w, k) <= img.w
      /\ Half(img.h, k) \in Nat /\ Half(img.h, k) > 0 /\ Half(img.h, k) <= img.h
  BY <1>1, <1>2, HalfPositive
<1> QED BY <1>2, <1>3 DEF WidthAt, HeightAt

(* getScale returns a fraction with a positive denominator. *)
LEMMA ScaleTyped ==
  ASSUME NEW img \in Images, NEW v, Opened(v, img), NEW w \in Positive, NEW h \in Positive
  PROVE  getScale(v, w, h) \in Nat \X Positive
<1>1. v \in ViewSet
  BY DEF Opened
<1>2. PICK qw \in Nat, qh \in Nat : v.reqw = qw /\ v.reqh = qh
  BY <1>1, WordSizeAssumption DEF ViewSet, Unsigned
<1>3. PICK iw \in Positive : v.imw = iw
  BY ImagesAssumption DEF Opened
<1> DEFINE rw == IF v.reqw = 0 /\ v.reqh > 0 THEN (w * v.reqh) \div h ELSE v.reqw
           rh == IF v.reqh = 0 /\ v.reqw > 0 THEN (h * v.reqw) \div w ELSE v.reqh
           byWidth == <<rw, v.imw>>
           byHeight == <<rh, h>>
           scale == IF Above(byWidth, byHeight) THEN byHeight ELSE byWidth
<1>4. rw \in Nat /\ rh \in Nat
  <2>1. w * qh \in Nat /\ h * qw \in Nat /\ w \in Nat /\ h \in Nat /\ w > 0 /\ h > 0
    BY DEF Positive
  <2>2. (w * qh) \div h \in Nat /\ (h * qw) \div w \in Nat
    BY <2>1, Division
  <2> QED BY <1>2, <2>2
<1> HIDE DEF rw, rh
<1>5. byWidth \in Nat \X Positive /\ byHeight \in Nat \X Positive
  BY <1>3, <1>4
<1> HIDE DEF byWidth, byHeight
<1>6. scale \in Nat \X Positive
  BY <1>5
<1>7. <<1, 1>> \in Nat \X Positive
  BY DEF Positive
<1>8. getScale(v, w, h) = IF scale[1] = 0 \/ scale[1] > scale[2] THEN <<1, 1>> ELSE scale
  BY DEF getScale, rw, rh, byWidth, byHeight
<1> HIDE DEF scale
<1> QED BY <1>6, <1>7, <1>8

(* A dimension of the output is a number. *)
LEMMA ScaledTyped ==
  ASSUME NEW n \in Nat, NEW f \in Fraction, NEW s \in Nat \X Positive
  PROVE  Scaled(n, f, s)[1] \div Scaled(n, f, s)[2] \in Nat
<1>1. /\ f[1] \in Nat /\ f[2] \in Nat /\ f[2] > 0
      /\ s[1] \in Nat /\ s[2] \in Nat /\ s[2] > 0
  BY DEF Fraction, Positive
<1>2. PICK a \in Nat, b \in Nat : a = n * f[1] * s[1] /\ b = f[2] * s[2] /\ b > 0
  BY <1>1
<1>3. Scaled(n, f, s) = <<a, b>>
  BY <1>2 DEF Scaled
<1>4. a \div b \in Nat
  BY <1>2, Division
<1> QED BY <1>3, <1>4

(* View::getResolution changes nothing but the resolution, and chooses one   *)
(* that the image has.                                                       *)
LEMMA Resolved ==
  ASSUME NEW img \in Images, NEW v, Opened(v, img)
  PROVE  Chosen(v, getResolution(v), img)
<1> DEFINE byWidth == IF v.reqw = 0 THEN v
                      ELSE calculateResolution(v, v.imw, Spread(v.reqw, v.width))
           byBoth  == IF v.reqh = 0 THEN byWidth
                      ELSE calculateResolution(byWidth, v.imh, Spread(v.reqh, v.height))
           resw  == Half(v.imw, v.max_resolutions - byBoth.resolution - 1)
           resh  == Half(v.imh, v.max_resolutions - byBoth.resolution - 1)
           scale == getScale(v, resw, resh)
           limit == <<v.max_size, 1>>
           wide  == Scaled(resw, v.width, scale)
           tall  == Scaled(resh, v.height, scale)
           larger == IF Above(Scaled(resw, v.width, <<1, 1>>), Scaled(resh, v.height, <<1, 1>>))
                     THEN wide ELSE tall
           dimension == larger[1] \div larger[2]
           steps == Halvings(dimension, v.max_size)
<1>1. /\ v \in ViewSet /\ v.imw = img.w /\ v.imh = img.h
      /\ v.max_resolutions = img.levels /\ v.resolution \in 0..(img.levels - 1)
  BY DEF Opened
<1>2. /\ v.imw \in Nat /\ v.imh \in Nat /\ v.width \in Fraction /\ v.height \in Fraction
      /\ v.reqw \in Unsigned /\ v.reqh \in Unsigned /\ v.max_size \in Int
  BY <1>1 DEF ViewSet
<1>3. img.levels \in Nat /\ img.levels > 0
  BY ImagesAssumption DEF Positive
<1>4. getResolution(v) = IF v.max_size > 0 /\ (Above(wide, limit) \/ Above(tall, limit))
                         THEN [byBoth EXCEPT !.resolution = Max({byBoth.resolution - steps, 0})]
                         ELSE byBoth
  BY DEF getResolution
<1>5. PICK r1 \in 0..(img.levels - 1) : byWidth = [v EXCEPT !.resolution = r1]
  <2>1. CASE v.reqw = 0
    <3>1. v = [v EXCEPT !.resolution = v.resolution]
      BY <1>1 DEF ViewSet
    <3> QED BY <1>1, <2>1, <3>1
  <2>2. CASE v.reqw # 0
    <3>1. PICK n \in Nat : n = Spread(v.reqw, v.width)
      BY <1>2, SpreadTyped
    <3>2. Chosen(v, calculateResolution(v, v.imw, n), img)
      BY <1>2, CalculatedResolution, Zenon
    <3> QED BY <2>2, <3>1, <3>2 DEF Chosen
  <2> QED BY <2>1, <2>2, Zenon
<1>6. Opened(byWidth, img)
  BY <1>5, ResolutionReplaced
<1> HIDE DEF byWidth
<1>7. PICK r2 \in 0..(img.levels - 1) : byBoth = [v EXCEPT !.resolution = r2]
  <2>1. CASE v.reqh = 0
    BY <1>5, <2>1
  <2>2. CASE v.reqh # 0
    <3>1. PICK n \in Nat : n = Spread(v.reqh, v.height)
      BY <1>2, SpreadTyped
    <3>2. PICK r \in 0..(img.levels - 1) :
             calculateResolution(byWidth, v.imh, n) = [byWidth EXCEPT !.resolution = r]
      <4>1. Chosen(byWidth, calculateResolution(byWidth, v.imh, n), img)
        BY <1>2, <1>6, CalculatedResolution, Zenon
      <4> QED BY <4>1 DEF Chosen
    <3>3. [byWidth EXCEPT !.resolution = r] = [v EXCEPT !.resolution = r]
      BY <1>1, <1>5, Zenon DEF ViewSet
    <3> QED BY <2>2, <3>1, <3>2, <3>3
  <2> QED BY <2>1, <2>2, Zenon
<1>8. byBoth.resolution = r2
  BY <1>7, ResolutionReplaced, ZenonT(30)
<1> HIDE DEF byBoth
<1>9. ASSUME v.max_size > 0
      PROVE  steps \in Nat
  <2>1. resw \in Positive /\ resh \in Positive
    BY <1>1, <1>8, LevelSizes DEF WidthAt, HeightAt, Positive
  <2> HIDE DEF resw, resh
  <2>2. scale \in Nat \X Positive
    BY <2>1, ScaleTyped
  <2> HIDE DEF scale
  <2>3. /\ wide[1] \div wide[2] \in Nat
        /\ tall[1] \div tall[2] \in Nat
    BY <1>2, <2>1, <2>2, ScaledTyped DEF Positive
  <2> HIDE DEF wide, tall
  <2>4. dimension \in Nat
    BY <2>3
  <2> HIDE DEF dimension
  <2>5. v.max_size \in Nat
    BY <1>2, <1>9
  <2>6. steps \in 0..dimension
    BY <2>4, <2>5, HalvingsBounded, Zenon
  <2> QED BY <2>4, <2>6
<1> HIDE DEF wide, tall, limit, steps
<1>10. CASE v.max_size > 0 /\ (Above(wide, limit) \/ Above(tall, limit))
  <2>1. PICK r \in 0..(img.levels - 1) : r = Max({r2 - steps, 0})
    <3>1. Max({r2 - steps, 0}) \in 0..(img.levels - 1)
      BY <1>3, <1>9, <1>10, MaxOfTwo
    <3> QED BY <3>1
  <2>2. getResolution(v) = [byBoth EXCEPT !.resolution = r]
    BY <1>4, <1>8, <1>10, <2>1
  <2>3. [byBoth EXCEPT !.resolution = r] = [v EXCEPT !.resolution = r]
    BY <1>1, <1>7, Zenon DEF ViewSet
  <2> QED BY <2>2, <2>3 DEF Chosen
<1>11. CASE ~(v.max_size > 0 /\ (Above(wide, limit) \/ Above(tall, limit)))
  BY <1>4, <1>7, <1>11 DEF Chosen
<1> QED BY <1>10, <1>11

\* w is the view v with another resolution.
SameButResolution(v, w) ==
  /\ w.left = v.left /\ w.top = v.top /\ w.width = v.width /\ w.height = v.height
  /\ w.reqw = v.reqw /\ w.reqh = v.reqh /\ w.max_size = v.max_size
  /\ w.aspect = v.aspect /\ w.upscale = v.upscale

(* The view after getResolution. *)
LEMMA ResolvedOpened ==
  ASSUME NEW img \in Images, NEW v, Opened(v, img)
  PROVE  Opened(getResolution(v), img) /\ SameButResolution(v, getResolution(v))
<1>1. PICK r \in 0..(img.levels - 1) : getResolution(v) = [v EXCEPT !.resolution = r]
  <2>1. Chosen(v, getResolution(v), img)
    BY Resolved
  <2> QED BY <2>1 DEF Chosen
<1>2. Opened(getResolution(v), img)
  BY <1>1, ResolutionReplaced
<1>3. v \in ViewSet
  BY DEF Opened
<1>4. PICK w : w = [v EXCEPT !.resolution = r]
  BY Zenon
<1>5. SameButResolution(v, w)
  BY <1>3, <1>4 DEF SameButResolution, ViewSet
<1> QED BY <1>1, <1>2, <1>4, <1>5

(* The view that CVT and IIIF work with, from one that a command has filled. *)
LEMMA PreparedOpened ==
  ASSUME image \in Images, NEW v \in ViewSet
  PROVE  Opened(Prepared(v), image) /\ SameButResolution(v, Prepared(v))
<1>1. PICK o : /\ o = setMaxResolutions(setImageSize(v, image.w, image.h), image.levels)
               /\ Opened(o, image)
               /\ o = [v EXCEPT !.imw = image.w, !.imh = image.h,
                                !.max_resolutions = image.levels,
                                !.resolution = image.levels - 1]
  BY OpenedSet, Zenon
<1>2. SameButResolution(v, o)
  BY <1>1 DEF SameButResolution, ViewSet
<1>3. Opened(getResolution(o), image) /\ SameButResolution(o, getResolution(o))
  BY <1>1, ResolvedOpened
<1>4. Prepared(v) = getResolution(o)
  BY <1>1 DEF Prepared
<1> QED BY <1>2, <1>3, <1>4 DEF SameButResolution

-----------------------------------------------------------------------------
(* The region in pixels.                                                    *)

(* The size of a level, rounded, is that of the level or one more. *)
LEMMA LevelRounded ==
  ASSUME NEW n \in Nat, NEW p \in Nat, p > 0
  PROVE  /\ n \div p \in Nat /\ n \div p <= Round(n, p) /\ Round(n, p) <= n \div p + 1
         /\ (Round(n, p) = n \div p + 1 => n < Round(n, p) * p)
         /\ 2 * n < 2 * (Round(n, p) * p) + p
<1>1. PICK q \in Nat, r \in Nat : q = n \div p /\ r = Round(n, p)
  BY Division, Rounding, Zenon
<1>2. q * p <= n /\ n < q * p + p
  BY <1>1, Division
<1>3. 2 * (r * p) <= 2 * n + p /\ 2 * n + p < 2 * (r * p) + 2 * p
  BY <1>1, Rounding
<1>4. /\ q * p \in Nat /\ r * p \in Nat /\ (q + 1) * p = q * p + p
      /\ (r + 1) * p = r * p + p /\ (q + 2) * p = q * p + p + p
  BY <1>1
<1>5. q * p < (r + 1) * p /\ r * p < (q + 2) * p
  BY <1>2, <1>3, <1>4
<1>6. q + 1 <= r + 1 /\ r + 1 <= q + 2
  <2>1. q + 2 \in Nat /\ r + 1 \in Nat
    OBVIOUS
  <2> QED BY <1>5, <2>1, Factor
<1>7. r = q + 1 => n < r * p
  BY <1>2, <1>4
<1>8. 2 * n < 2 * (r * p) + p
  BY <1>3, <1>4
<1> QED BY <1>1, <1>6, <1>7, <1>8

(* getViewLeft and getViewTop, getViewWidth and getViewHeight: the offset is  *)
(* a number of pixels, the extent not empty and at most one pixel larger than *)
(* the level.  An extent of more than a pixel ends inside the level, as       *)
(* rounded, and starts at most one pixel before the offset, or not at all if  *)
(* the size of the level was rounded up.                                      *)
LEMMA Geometry ==
  ASSUME NEW size \in Nat, NEW start \in Fraction, NEW extent \in Fraction, NEW k \in Nat,
         Half(size, k) > 0
  PROVE  LET x == Offset(size, start, k)
             e == Extent(size, start, extent, k)
         IN  /\ x \in Nat
             /\ e \in Nat /\ e > 0 /\ e <= Half(size, k) + 1
             /\ e > 1 => x + e <= Half(size, k) + 1
<1> DEFINE p == Pow2[k]
           s1 == start[1]
           s2 == start[2]
           e1 == extent[1]
           e2 == extent[2]
           level == Round(size, p)
           w == Half(size, k)
           x == Offset(size, start, k)
           s == Round(s1 * level, s2)
           g == Round(e1 * level, e2)
           e == Extent(size, start, extent, k)
<1>1. p \in Nat /\ p > 0
  BY PowPositive
<1>2. /\ s1 \in Nat /\ s2 \in Nat /\ s2 > 0 /\ s1 <= s2
      /\ e1 \in Nat /\ e2 \in Nat /\ e2 > 0 /\ e1 <= e2
  BY DEF Fraction, Positive
<1>3. w = size \div p
  BY DEF Half
<1>4. x = Round(size * s1, s2 * p)
  BY DEF Offset
<1>5. e = Max({IF g + s > level THEN level - s ELSE g, 1})
  BY DEF Extent
<1>6. /\ w \in Nat /\ level \in Nat /\ w <= level /\ level <= w + 1
      /\ (level = w + 1 => size < level * p) /\ 2 * size < 2 * (level * p) + p
  BY <1>1, <1>3, LevelRounded, Rounding, Zenon
<1> HIDE DEF p, s1, s2, e1, e2, level, w, x, s, g, e
<1>7. /\ s \in Nat /\ 2 * (s1 * level) + s2 < 2 * (s * s2) + 2 * s2
      /\ g \in Nat /\ 2 * (g * e2) <= 2 * (e1 * level) + e2
  <2>1. s1 * level \in Nat /\ e1 * level \in Nat
    BY <1>2, <1>6
  <2> QED BY <1>2, <2>1, Rounding, Zenon DEF s, g
<1>8. x \in Nat /\ 2 * (x * (s2 * p)) <= 2 * (size * s1) + s2 * p
  <2>1. size * s1 \in Nat /\ s2 * p \in Nat /\ s2 * p > 0
    BY <1>1, <1>2
  <2> QED BY <1>4, <2>1, Rounding, SMTT(30)
<1>9. g <= level
  <2>1. e1 * level <= e2 * level
    BY <1>2, <1>6
  <2>2. 2 * (g * e2) < 2 * (level * e2) + 2 * e2
    BY <1>2, <1>6, <1>7, <2>1
  <2>3. g * e2 < (level + 1) * e2
    BY <1>2, <1>6, <1>7, <2>2
  <2>4. g + 1 <= level + 1
    BY <1>2, <1>6, <1>7, <2>3, Factor
  <2> QED BY <1>6, <1>7, <2>4
<1>10. /\ e \in Nat /\ e > 0 /\ e <= w + 1
       /\ e > 1 => s + e <= level
  <2>1. PICK c \in Int : c = IF g + s > level THEN level - s ELSE g
    BY <1>6, <1>7
  <2>2. e = IF c >= 1 THEN c ELSE 1
    BY <1>5, <2>1, MaxOfTwo
  <2>3. c <= level /\ (c >= 1 => s + c <= level)
    BY <1>6, <1>7, <1>9, <2>1
  <2>4. w > 0
    BY DEF w
  <2> QED BY <1>6, <1>7, <2>2, <2>3, <2>4
\* The offset counts the unrounded size, the extent the rounded one.
<1>11. x <= s + 1 /\ (level = w + 1 => x <= s)
  <2>1. size * s1 \in Nat /\ level * p \in Nat /\ s1 * level \in Nat /\ s * s2 \in Nat
    BY <1>1, <1>2, <1>6, <1>7
  <2>2. ASSUME level = w + 1
        PROVE  x <= s
    <3>1. size * s1 <= (level * p) * s1
      BY <1>2, <1>6, <2>1, <2>2
    <3>2. 2 * (x * (s2 * p)) <= 2 * ((level * p) * s1) + s2 * p
      BY <1>1, <1>2, <1>8, <2>1, <3>1
    <3>3. (2 * (x * s2)) * p <= (2 * (s1 * level) + s2) * p
      BY <1>1, <1>2, <1>6, <1>8, <3>2
    <3>4. 2 * (s1 * level) + s2 < 2 * ((s + 1) * s2)
      BY <1>2, <1>7, <2>1
    <3>5. (2 * (s1 * level) + s2) * p < (2 * ((s + 1) * s2)) * p
      BY <1>1, <1>2, <1>7, <2>1, <3>4
    <3>6. (2 * (x * s2)) * p < (2 * ((s + 1) * s2)) * p
      BY <1>1, <1>2, <1>7, <1>8, <2>1, <3>3, <3>5
    <3>7. 2 * (x * s2) < 2 * ((s + 1) * s2)
      BY <1>1, <1>2, <1>7, <1>8, <3>6
    <3>8. x * s2 < (s + 1) * s2
      BY <1>2, <1>7, <1>8, <3>7
    <3>9. x + 1 <= s + 1
      BY <1>2, <1>7, <1>8, <3>8, Factor
    <3> QED BY <1>7, <1>8, <3>9
  <2>3. x <= s + 1
    <3>1. (2 * size) * s1 <= (2 * (level * p) + p) * s1
      BY <1>1, <1>2, <1>6, <2>1
    <3>2. 2 * (x * (s2 * p)) <= (2 * (level * p) + p) * s1 + s2 * p
      BY <1>1, <1>2, <1>8, <2>1, <3>1
    <3>3. (2 * (x * s2)) * p <= (2 * (s1 * level) + s1 + s2) * p
      BY <1>1, <1>2, <1>6, <1>8, <3>2
    <3>4. 2 * (s1 * level) + s1 + s2 < 2 * ((s + 2) * s2)
      BY <1>2, <1>7, <2>1
    <3>5. (2 * (s1 * level) + s1 + s2) * p < (2 * ((s + 2) * s2)) * p
      BY <1>1, <1>2, <1>7, <2>1, <3>4
    <3>6. (2 * (x * s2)) * p < (2 * ((s + 2) * s2)) * p
      BY <1>1, <1>2, <1>7, <1>8, <2>1, <3>3, <3>5
    <3>7. 2 * (x * s2) < 2 * ((s + 2) * s2)
      BY <1>1, <1>2, <1>7, <1>8, <3>6
    <3>8. x * s2 < (s + 2) * s2
      BY <1>2, <1>7, <1>8, <3>7
    <3>9. x + 1 <= s + 2
      BY <1>2, <1>7, <1>8, <3>8, Factor
    <3> QED BY <1>7, <1>8, <3>9
  <2> QED BY <2>2, <2>3
<1>12. e > 1 => x + e <= w + 1
  BY <1>6, <1>7, <1>8, <1>10, <1>11
<1> QED BY <1>8, <1>10, <1>12 DEF x, e, w

(* CVT cuts an extent that starts inside the level to one that ends inside. *)
LEMMA CutInside ==
  ASSUME NEW w \in Nat, 2 * w < WordSize, NEW x \in Nat, x < w,
         NEW e \in Nat, e > 0, e <= w + 1
  PROVE  Cut(x, e, w) > 0 /\ x + Cut(x, e, w) <= w
<1>1. e + x \in 0..(WordSize - 1) /\ w - x \in 0..(WordSize - 1)
  BY WordSizeAssumption
<1>2. \A n \in 0..(WordSize - 1) : Word(n) = n
  BY WordSizeAssumption DEF Word
<1>3. Word(e + x) = e + x /\ Word(w - x) = w - x
  BY <1>1, <1>2, Zenon
<1> QED BY <1>3 DEF Cut

(* What CVT cuts an extent to is a number of pixels. *)
LEMMA CutTyped ==
  ASSUME NEW w \in Nat, NEW x \in Nat, NEW e \in Nat
  PROVE  Cut(x, e, w) \in Nat
<1>1. Word(w - x) \in Nat
  BY WordRange, WordSizeAssumption DEF Unsigned
<1> QED BY <1>1 DEF Cut

-----------------------------------------------------------------------------
(* The copies of a region.                                                  *)

(* Places computes the running sum of the lengths. *)
LEMMA PlacesSum ==
  ASSUME NEW n \in Nat, NEW lens \in [1..n -> Int], NEW g \in [1..n -> Int],
         \A k \in 1..n : g[k] = IF k = 1 THEN 0 ELSE g[k - 1] + lens[k - 1]
  PROVE  Places(lens) = g
<1> DEFINE Sum(f) == f = [k \in 1..n |-> IF k = 1 THEN 0 ELSE f[k - 1] + lens[k - 1]]
           f == Places(lens)
<1>1. f = CHOOSE h : Sum(h)
  BY Zenon DEF Places
<1>2. Sum(g)
  OBVIOUS
<1> HIDE DEF f
<1>3. Sum(f)
  <2> HIDE DEF Sum
  <2> QED BY <1>1, <1>2, Zenon
<1>4. DOMAIN f = 1..n /\ \A k \in 1..n : f[k] = IF k = 1 THEN 0 ELSE f[k - 1] + lens[k - 1]
  BY <1>3
<1> HIDE DEF Sum
<1> DEFINE S == {m \in Nat : m + 1 \in 1..n => f[m + 1] = g[m + 1]}
<1>5. 0 \in S
  BY <1>4
<1>6. ASSUME NEW m \in Nat, m \in S
      PROVE  m + 1 \in S
  <2>1. SUFFICES ASSUME (m + 1) + 1 \in 1..n
                 PROVE  f[(m + 1) + 1] = g[(m + 1) + 1]
    OBVIOUS
  <2>2. m + 1 \in 1..n /\ ((m + 1) + 1) - 1 = m + 1 /\ (m + 1) + 1 # 1
    BY <2>1
  <2>3. f[m + 1] = g[m + 1]
    BY <1>6, <2>2
  <2>4. f[(m + 1) + 1] = f[m + 1] + lens[m + 1]
    BY <1>4, <2>1, <2>2
  <2>5. g[(m + 1) + 1] = g[m + 1] + lens[m + 1]
    BY <2>1, <2>2
  <2> QED BY <2>3, <2>4, <2>5
<1> HIDE DEF S
<1>7. Nat \subseteq S
  BY <1>5, <1>6, SetInduction, Zenon
<1>8. ASSUME NEW k \in 1..n
      PROVE  f[k] = g[k]
  <2>1. k - 1 \in Nat /\ (k - 1) + 1 = k
    OBVIOUS
  <2>2. k - 1 \in S
    BY <1>7, <2>1
  <2> QED BY <2>1, <2>2 DEF S
<1>9. f = g
  <2>1. f = [k \in 1..n |-> f[k]]
    BY <1>3, <1>4 DEF Sum
  <2> QED BY <1>8, <2>1
<1> QED BY <1>9 DEF f

(* The number of tiles, and the size of each. *)
LEMMA ExtentTyped ==
  ASSUME NEW size \in Nat, NEW tile \in Nat, tile > 0
  PROVE  Tiles(size, tile) \in Nat /\ \A i : TileExtent(size, tile, i) \in 1..tile
<1>1. size \div tile \in Nat /\ size % tile \in 0..(tile - 1)
  BY Division
<1> QED BY <1>1 DEF Tiles, TileExtent, Remainder

(* What is copied from a tile, and from where, are numbers of pixels. *)
LEMMA CopyTyped ==
  ASSUME NEW size \in Nat, NEW tile \in Nat, tile > 0, NEW x \in Nat, NEW extent \in Nat,
         NEW j, NEW first, NEW last
  PROVE  From(tile, x, j) \in Int /\ Copied(size, tile, x, extent, j, first, last) \in Int
<1>1. x % tile \in 0..(tile - 1) /\ (extent + x) % tile \in 0..(tile - 1)
  BY Division
<1>2. TileExtent(size, tile, j) \in 1..tile
  BY ExtentTyped
<1> QED BY <1>1, <1>2 DEF From, Copied

\* The copies of one direction, each to its place in the region: j * tile
\* pixels and those it skips in tile j, counted from the first pixel x.
InPlace(size, tile, x, extent) ==
  LET first == FirstTile(tile, x)
      last == EndTile(tile, x, extent)
  IN  [k \in 1..(last - first) |->
         LET j == first + k - 1 IN
         [tile |-> j, src |-> TileExtent(size, tile, j), from |-> From(tile, x, j),
          len |-> Copied(size, tile, x, extent, j, first, last),
          at |-> j * tile + From(tile, x, j) - x]]

\* The copies of one direction of a region that is a part of a level.
PartOf(size, tile, x, extent, most) == Pieces(size, tile, x, extent, FALSE, most)

(* The copies of a region that lies inside the level go to their places. *)
LEMMA PartPieces ==
  ASSUME NEW size \in Nat, NEW tile \in Nat, tile > 0,
         NEW x \in Nat, NEW extent \in Nat, extent > 0, x + extent <= size,
         NEW most \in Nat, Tiles(size, tile) <= most
  PROVE  PartOf(size, tile, x, extent, most) = InPlace(size, tile, x, extent)
<1> DEFINE first == FirstTile(tile, x)
           last == EndTile(tile, x, extent)
           n == last - first
           count == Max({Min({last - first, most}), 0})
           from(j) == From(tile, x, j)
           len(j) == Copied(size, tile, x, extent, j, first, last)
           src(k) == TileExtent(size, tile, (first + k - 1) % Tiles(size, tile))
           lens == [k \in 1..count |-> len(first + k - 1)]
           g == [k \in 1..n |-> (first + k - 1) * tile + from(first + k - 1) - x]
<1>1. first \in Nat /\ last \in Nat /\ first < last
  BY Visited, Zenon
<1>2. \A j \in first..(last - 1) :
         /\ j < Tiles(size, tile)
         /\ len(j) > 0 /\ from(j) + len(j) <= TileExtent(size, tile, j)
         /\ j * tile + from(j) = IF j = first THEN x ELSE j * tile
         /\ j * tile + from(j) + len(j) = IF j = last - 1 THEN x + extent ELSE (j + 1) * tile
  BY CopiesMeet
<1>3. Pieces(size, tile, x, extent, FALSE, most) =
        [k \in 1..count |->
           [tile |-> first + k - 1, src |-> src(k), from |-> from(first + k - 1),
            len |-> lens[k], at |-> Places(lens)[k]]]
  BY DEF Pieces
<1>4. \A j \in first..(last - 1) : from(j) \in Int /\ len(j) \in Int
  BY <1>1, CopyTyped
<1>5. \A j \in first..(last - 1) : j % Tiles(size, tile) = j
  <2> TAKE j \in first..(last - 1)
  <2>1. PICK t \in Nat : t = Tiles(size, tile) /\ j < t
    BY <1>2, ExtentTyped
  <2>2. j \in Nat /\ 0 * t <= j /\ j < 0 * t + t /\ t > 0
    BY <1>1, <2>1
  <2>3. j % t = j - 0 * t
    BY <2>2, Quotient
  <2> QED BY <2>1, <2>2, <2>3
<1> HIDE DEF first, last, from, len
<1>6. n \in Nat /\ n > 0 /\ count = n
  <2>1. n \in Nat /\ n > 0 /\ last - 1 \in first..(last - 1)
    BY <1>1
  <2>2. last <= Tiles(size, tile)
    <3>1. last - 1 < Tiles(size, tile) /\ Tiles(size, tile) \in Nat
      BY <1>2, <2>1, ExtentTyped
    <3> QED BY <1>1, <3>1
  <2>3. n <= most
    BY <1>1, <2>2, ExtentTyped
  <2>4. Min({n, most}) = n
    BY <2>1, <2>3, MinOfTwo
  <2>5. Max({n, 0}) = n
    BY <2>1, MaxOfTwo
  <2> QED BY <2>1, <2>4, <2>5, Zenon
<1> HIDE DEF n
<1>7. \A k \in 1..n : first + k - 1 \in first..(last - 1)
  BY <1>1, <1>6 DEF n
<1>8. Places(lens) = g
  <2>1. lens = [k \in 1..n |-> len(first + k - 1)]
    BY <1>6
  <2> HIDE DEF count, lens
  <2>2. lens \in [1..n -> Int]
    BY <1>4, <1>7, <2>1
  <2>3. g \in [1..n -> Int]
    BY <1>1, <1>4, <1>6, <1>7
  <2>4. ASSUME NEW k \in 1..n
        PROVE  g[k] = IF k = 1 THEN 0 ELSE g[k - 1] + lens[k - 1]
    <3>1. CASE k = 1
      <4>1. first \in first..(last - 1) /\ first + k - 1 = first
        BY <1>1, <3>1
      <4>2. first * tile + from(first) = x
        BY <1>2, <4>1
      <4>3. g[k] = first * tile + from(first) - x
        BY <4>1
      <4>4. PICK a \in Int, b \in Int : a = first * tile /\ b = from(first)
        BY <1>1, <1>4, <4>1
      <4> HIDE DEF g
      <4>5. a + b = x /\ g[k] = a + b - x
        BY <4>2, <4>3, <4>4
      <4> QED BY <3>1, <4>5
    <3>2. CASE k # 1
      <4>1. PICK j \in Nat : j = first + k - 1
        BY <1>1
      <4>2. /\ k - 1 \in 1..n /\ j \in first..(last - 1) /\ j - 1 \in first..(last - 1)
            /\ j - 1 = first + (k - 1) - 1 /\ j # first /\ j - 1 # last - 1
        BY <1>1, <1>6, <1>7, <3>2, <4>1
      <4>3. g[k] = j * tile + from(j) - x /\ j * tile + from(j) = j * tile
        BY <1>2, <4>1, <4>2
      <4>4. g[k - 1] = (j - 1) * tile + from(j - 1) - x /\ lens[k - 1] = len(j - 1)
        BY <2>1, <4>2
      <4>5. (j - 1) * tile + from(j - 1) + len(j - 1) = j * tile
        <5>1. (j - 1) + 1 = j
          OBVIOUS
        <5> QED BY <1>2, <4>2, <5>1
      <4>6. PICK a \in Int, b \in Int, c \in Int, d \in Int, e \in Int :
              /\ a = (j - 1) * tile /\ b = from(j - 1) /\ c = len(j - 1)
              /\ d = j * tile /\ e = from(j)
        BY <1>4, <4>2
      <4> HIDE DEF g
      <4>7. g[k] = d - x /\ g[k - 1] = a + b - x /\ lens[k - 1] = c /\ a + b + c = d
        BY <4>3, <4>4, <4>5, <4>6
      <4> QED BY <3>2, <4>7
    <3> QED BY <3>1, <3>2
  <2> HIDE DEF g
  <2> QED BY <1>6, <2>2, <2>3, <2>4, PlacesSum, Zenon
<1>9. ASSUME NEW k \in 1..n
      PROVE  /\ src(k) = TileExtent(size, tile, first + k - 1)
             /\ lens[k] = len(first + k - 1)
             /\ Places(lens)[k] = (first + k - 1) * tile + from(first + k - 1) - x
  <2>1. (first + k - 1) % Tiles(size, tile) = first + k - 1
    BY <1>5, <1>7
  <2>2. lens[k] = len(first + k - 1)
    BY <1>6
  <2>3. Places(lens)[k] = (first + k - 1) * tile + from(first + k - 1) - x
    BY <1>8
  <2> QED BY <2>1, <2>2, <2>3, Zenon
<1> HIDE DEF src, lens, g, count
<1>10. Pieces(size, tile, x, extent, FALSE, most) =
         [k \in 1..n |->
            [tile |-> first + k - 1, src |-> TileExtent(size, tile, first + k - 1),
             from |-> from(first + k - 1), len |-> len(first + k - 1),
             at |-> (first + k - 1) * tile + from(first + k - 1) - x]]
  BY <1>3, <1>6, <1>9, Zenon
<1> QED BY <1>10, Zenon DEF InPlace, PartOf, first, last, n, from, len

(* The copy from tile j takes the pixels of the region that lie in tile j.   *)
LEMMA CopyPlace ==
  ASSUME NEW size \in Nat, NEW tile \in Nat, tile > 0,
         NEW x \in Nat, NEW extent \in Nat, extent > 0, x + extent <= size,
         NEW j \in FirstTile(tile, x) .. (EndTile(tile, x, extent) - 1)
  PROVE  LET at == j * tile + From(tile, x, j) - x
             len == Copied(size, tile, x, extent, j, FirstTile(tile, x),
                           EndTile(tile, x, extent))
         IN  /\ at + len <= extent
             /\ \A k \in 0..(extent - 1) :
                   (at <= k /\ k < at + len) <=> j = (x + k) \div tile
<1> DEFINE first == FirstTile(tile, x)
           last  == EndTile(tile, x, extent)
           from  == From(tile, x, j)
           len   == Copied(size, tile, x, extent, j, first, last)
<1>1. /\ first \in Nat /\ last \in Nat /\ first < last
      /\ first * tile <= x /\ x < first * tile + tile
      /\ last * tile < x + extent + tile /\ x + extent <= last * tile
  BY Visited
<1>2. /\ j * tile + from = IF j = first THEN x ELSE j * tile
      /\ j * tile + from + len = IF j = last - 1 THEN x + extent ELSE (j + 1) * tile
  BY CopiesMeet
<1>3. from \in Int /\ len \in Int /\ j \in first..(last - 1)
  BY CopyTyped
<1> HIDE DEF first, last, from, len
<1>4. PICK a \in Nat, b \in Nat, c \in Nat, d \in Nat :
        /\ a = j * tile /\ b = (j + 1) * tile /\ c = last * tile /\ d = first * tile
        /\ b = a + tile
  BY <1>1, <1>3
<1>5. j \in Nat /\ first <= j /\ j + 1 <= last
  BY <1>1, <1>3
<1>6. j = last - 1 => b = c
  <2>1. j = last - 1 => j + 1 = last
    BY <1>1, <1>5
  <2> QED BY <1>4, <2>1
<1>7. j # last - 1 => b < x + extent
  <2>1. SUFFICES ASSUME j # last - 1 PROVE b < x + extent
    OBVIOUS
  <2>2. PICK m \in Nat : last = (j + 2) + m
    <3>1. last - (j + 2) \in Nat /\ last = (j + 2) + (last - (j + 2))
      BY <1>1, <1>5, <2>1
    <3> QED BY <3>1
  <2>3. c = b + tile + m * tile /\ m * tile \in Nat
    BY <1>4, <1>5, <2>2
  <2> QED BY <1>1, <1>4, <2>3
<1>8. PICK from_ \in Int, len_ \in Int : from_ = from /\ len_ = len
  BY <1>3
<1>9. /\ a + from_ = IF j = first THEN x ELSE a
      /\ a + from_ + len_ = IF j = last - 1 THEN x + extent ELSE b
  BY <1>2, <1>4, <1>8
<1>10. (a + from_ - x) + len_ <= extent
  BY <1>6, <1>7, <1>9
<1>11. ASSUME NEW k \in 0..(extent - 1)
       PROVE  (a + from_ - x <= k /\ k < (a + from_ - x) + len_) <=> j = (x + k) \div tile
  <2>1. x + k \in Nat
    OBVIOUS
  <2>2. ASSUME a + from_ - x <= k, k < (a + from_ - x) + len_
        PROVE  j = (x + k) \div tile
    <3>1. a <= x + k
      BY <1>1, <1>4, <1>9, <2>2
    <3>2. x + k < a + tile
      BY <1>1, <1>4, <1>6, <1>9, <2>2
    <3> QED BY <1>4, <1>5, <2>1, <3>1, <3>2, Quotient
  <2>3. ASSUME j = (x + k) \div tile
        PROVE  a + from_ - x <= k /\ k < (a + from_ - x) + len_
    <3>1. a <= x + k /\ x + k < a + tile
      <4>1. /\ (x + k) % tile \in 0..(tile - 1)
            /\ x + k = ((x + k) \div tile) * tile + ((x + k) % tile)
        BY <2>1, Division
      <4> QED BY <1>4, <2>1, <2>3, <4>1
    <3> QED BY <1>4, <1>9, <3>1
  <2> QED BY <2>2, <2>3
<1> QED BY <1>4, <1>8, <1>10, <1>11 DEF first, last, from, len

(* The copies of one direction of a region inside the level cover it, and    *)
(* reach only tiles that the level has.                                       *)
LEMMA PartCovers ==
  ASSUME NEW size \in Nat, NEW tile \in Nat, tile > 0,
         NEW x \in Nat, NEW extent \in Nat, extent > 0, x + extent <= size,
         NEW most \in Nat, Tiles(size, tile) <= most
  PROVE  LET pieces == Pieces(size, tile, x, extent, FALSE, most) IN
         /\ Covers(pieces, x, extent, tile)
         /\ \A p \in Range(pieces) : p.tile \in Nat /\ p.tile < Tiles(size, tile)
<1> DEFINE first == FirstTile(tile, x)
           last == EndTile(tile, x, extent)
           n == last - first
           from(j) == From(tile, x, j)
           len(j) == Copied(size, tile, x, extent, j, first, last)
           at(j) == j * tile + from(j) - x
           src(j) == TileExtent(size, tile, j)
<1>1. PICK pieces : pieces = Pieces(size, tile, x, extent, FALSE, most)
  BY Zenon
<1>2. pieces = [k \in 1..n |-> [tile |-> first + k - 1, src |-> src(first + k - 1),
                                from |-> from(first + k - 1), len |-> len(first + k - 1),
                                at |-> at(first + k - 1)]]
  <2>1. pieces = InPlace(size, tile, x, extent)
    <3>1. pieces = PartOf(size, tile, x, extent, most)
      BY <1>1 DEF PartOf
    <3> QED BY <3>1, PartPieces
  <2> QED BY <2>1 DEF InPlace
<1>3. /\ first \in Nat /\ last \in Nat /\ first < last
      /\ first * tile <= x /\ x + extent <= last * tile
  BY Visited, Zenon
<1>4. \A j \in first..(last - 1) :
         j < Tiles(size, tile) /\ from(j) + len(j) <= src(j)
  BY CopiesMeet
<1>5. \A j \in first..(last - 1) :
         /\ at(j) + len(j) <= extent
         /\ \A k \in 0..(extent - 1) :
               (at(j) <= k /\ k < at(j) + len(j)) <=> j = (x + k) \div tile
  BY CopyPlace
<1>6. \A j \in first..(last - 1) : from(j) \in Int /\ len(j) \in Int
  BY CopyTyped
<1> HIDE DEF first, last, from, len, src
<1>7. n \in Nat /\ \A i \in 1..n : first + i - 1 \in first..(last - 1)
  BY <1>3
<1> HIDE DEF n, at
<1>8. DOMAIN pieces = 1..n /\
      \A i \in 1..n : /\ pieces[i].tile = first + i - 1
                      /\ pieces[i].src = src(first + i - 1)
                      /\ pieces[i].from = from(first + i - 1)
                      /\ pieces[i].len = len(first + i - 1)
                      /\ pieces[i].at = at(first + i - 1)
  BY <1>2
<1>9. ASSUME NEW p \in Range(pieces)
      PROVE  /\ p.from + p.len <= p.src /\ p.at + p.len <= extent
             /\ p.tile \in Nat /\ p.tile < Tiles(size, tile)
  <2>1. PICK i \in 1..n : p = pieces[i]
    BY <1>8 DEF Range
  <2>2. PICK j : j = first + i - 1 /\ j \in first..(last - 1)
    BY <1>7
  <2> QED BY <1>3, <1>4, <1>5, <1>8, <2>1, <2>2
<1>10. ASSUME NEW k \in 0..(extent - 1)
       PROVE  \E i \in DOMAIN pieces :
                 /\ pieces[i].tile * tile + pieces[i].from + (k - pieces[i].at) = x + k
                 /\ \A j \in DOMAIN pieces :
                       (pieces[j].at <= k /\ k < pieces[j].at + pieces[j].len) <=> j = i
  <2>1. PICK m \in Nat : m = (x + k) \div tile /\ m * tile <= x + k /\ x + k < m * tile + tile
    <3>1. x + k \in Nat
      OBVIOUS
    <3>2. /\ (x + k) \div tile \in Nat /\ (x + k) % tile \in 0..(tile - 1)
          /\ x + k = ((x + k) \div tile) * tile + ((x + k) % tile)
      BY <3>1, Division
    <3>3. ((x + k) \div tile) * tile \in Nat
      BY <3>2
    <3> QED BY <3>1, <3>2, <3>3
  <2>2. m \in first..(last - 1)
    <3>1. m * tile \in Nat /\ (m + 1) * tile = m * tile + tile
      BY <2>1, Multiple
    <3>2. first * tile < (m + 1) * tile /\ m * tile < last * tile
      BY <1>3, <2>1, <3>1
    <3>3. first + 1 <= m + 1 /\ m + 1 <= last
      <4>1. m + 1 \in Nat
        BY <2>1
      <4> QED BY <1>3, <2>1, <3>2, <4>1, Factor
    <3> QED BY <1>3, <2>1, <3>3
  <2>3. PICK i \in 1..n : first + i - 1 = m
    <3>1. m - first + 1 \in 1..n /\ first + (m - first + 1) - 1 = m
      BY <1>3, <2>2 DEF n
    <3> QED BY <3>1
  <2>4. pieces[i].tile * tile + pieces[i].from + (k - pieces[i].at) = x + k
    <3>1. pieces[i].tile = m /\ pieces[i].from = from(m) /\ pieces[i].at = m * tile + from(m) - x
      BY <1>8, <2>3 DEF at
    <3>2. PICK a \in Int, b \in Int : a = m * tile /\ b = from(m)
      BY <1>6, <2>2
    <3> QED BY <3>1, <3>2
  <2>5. ASSUME NEW j \in 1..n
        PROVE  (pieces[j].at <= k /\ k < pieces[j].at + pieces[j].len) <=> j = i
    <3>1. PICK h : h = first + j - 1 /\ h \in first..(last - 1)
      BY <1>7
    <3>2. pieces[j].at = at(h) /\ pieces[j].len = len(h)
      BY <1>8, <3>1
    <3>3. (at(h) <= k /\ k < at(h) + len(h)) <=> h = m
      BY <1>5, <2>1, <3>1
    <3>4. h = m <=> j = i
      BY <1>3, <2>3, <3>1
    <3> QED BY <3>2, <3>3, <3>4
  <2> QED BY <1>8, <2>4, <2>5
<1>11. Covers(pieces, x, extent, tile)
  BY <1>9, <1>10 DEF Covers
<1> QED BY <1>1, <1>9, <1>11, Zenon

(* A region that is the whole level is copied like one that is a part of it. *)
LEMMA WholePieces ==
  ASSUME NEW size \in Nat, size > 0, NEW tile \in Nat, tile > 0, NEW most \in Nat
  PROVE  Pieces(size, tile, 0, size, TRUE, most) = Pieces(size, tile, 0, size, FALSE, most)
<1> DEFINE n == Tiles(size, tile)
           q == size \div tile
           r == size % tile
<1>1. q \in Nat /\ r \in 0..(tile - 1) /\ size = q * tile + r /\ q * tile \in Nat
  BY Division
<1>2. n = q + (IF r = 0 THEN 0 ELSE 1)
  BY DEF Tiles, Remainder
<1>3. \A j : TileExtent(size, tile, j) = IF j = n - 1 /\ r # 0 THEN r ELSE tile
  BY DEF TileExtent, Remainder
<1> HIDE DEF n, q, r
<1>4. 0 \div tile = 0 /\ 0 % tile = 0
  BY Quotient
<1>5. FirstTile(tile, 0) = 0
  BY <1>4 DEF FirstTile
<1>6. (size + 0) % tile = r
  BY DEF r
<1>7. EndTile(tile, 0, size) = n
  <2>1. PICK m \in Nat : m = size + 0 + tile - 1
    OBVIOUS
  <2>2. (q + 1) * tile = q * tile + tile
    BY <1>1
  <2>3. CASE r = 0
    <3>1. q * tile <= m /\ m < q * tile + tile
      BY <1>1, <2>1, <2>3
    <3>2. m \div tile = q
      BY <1>1, <3>1, Quotient
    <3> QED BY <1>2, <1>1, <2>1, <2>3, <3>2 DEF EndTile
  <2>4. CASE r # 0
    <3>1. (q + 1) * tile <= m /\ m < (q + 1) * tile + tile /\ q + 1 \in Nat
      BY <1>1, <2>1, <2>2, <2>4
    <3>2. m \div tile = q + 1
      BY <3>1, Quotient, SMTT(30)
    <3> QED BY <1>2, <1>1, <2>1, <2>4, <3>2 DEF EndTile
  <2> QED BY <2>3, <2>4
<1>8. n \in Nat /\ n > 0
  BY <1>1, <1>2
<1>9. ASSUME NEW j \in 0..(n - 1)
      PROVE  Copied(size, tile, 0, size, j, 0, n) = TileExtent(size, tile, j)
  <2>1. PICK src : src = TileExtent(size, tile, j)
    OBVIOUS
  <2>2. Copied(size, tile, 0, size, j, 0, n) =
          IF j = 0 THEN (IF j < n - 1 THEN src - 0 ELSE size)
          ELSE IF j = n - 1 /\ r # 0 THEN r ELSE src
    BY <1>4, <1>6, <2>1 DEF Copied
  <2>3. src = IF j = n - 1 /\ r # 0 THEN r ELSE tile
    BY <1>3, <2>1
  <2>4. src \in Nat /\ src - 0 = src
    BY <1>1, <2>3
  <2>5. CASE j = 0 /\ ~(j < n - 1)
    <3>1. n = 1 /\ j = n - 1
      BY <1>8, <2>5
    <3>2. q = IF r = 0 THEN 1 ELSE 0
      BY <1>1, <1>2, <3>1
    <3>3. size = IF r = 0 THEN tile ELSE r
      BY <1>1, <3>2
    <3> QED BY <2>1, <2>2, <2>3, <2>5, <3>1, <3>3
  <2>6. CASE ~(j = 0 /\ ~(j < n - 1))
    BY <2>1, <2>2, <2>3, <2>4, <2>6
  <2> QED BY <2>5, <2>6
<1>10. ASSUME NEW j \in 0..(n - 1)
       PROVE  From(tile, 0, j) = 0
  BY <1>4, <1>5 DEF From
<1> DEFINE count == Max({Min({n - 0, most}), 0})
           src(k) == TileExtent(size, tile, (0 + k - 1) % n)
           copied(k) == Copied(size, tile, 0, size, 0 + k - 1, 0, n)
           whole == [k \in 1..count |-> src(k)]
           part == [k \in 1..count |-> copied(k)]
<1>11. ASSUME NEW k \in 1..count
       PROVE  0 + k - 1 \in 0..(n - 1) /\ src(k) = copied(k) /\ From(tile, 0, 0 + k - 1) = 0
  <2>1. Min({n - 0, most}) = IF n - 0 <= most THEN n - 0 ELSE most
    BY <1>8, MinOfTwo
  <2>2. count <= n /\ count \in Nat
    BY <1>8, <2>1, MaxOfTwo
  <2>3. PICK j \in Nat : j = 0 + k - 1 /\ j \in 0..(n - 1)
    BY <1>8, <2>2
  <2>4. j % n = j
    <3>1. 0 * n <= j /\ j < 0 * n + n
      BY <1>8, <2>3
    <3>2. j % n = j - 0 * n
      BY <1>8, <3>1, Quotient
    <3> QED BY <1>8, <3>2
  <2>5. src(k) = TileExtent(size, tile, j) /\ copied(k) = Copied(size, tile, 0, size, j, 0, n)
    BY <2>3, <2>4
  <2> HIDE DEF src, copied
  <2> QED BY <1>9, <1>10, <2>3, <2>5
<1>12. whole = part
  BY <1>11, SMTT(30)
<1>13. Pieces(size, tile, 0, size, TRUE, most) =
         [k \in 1..count |-> [tile |-> 0 + k - 1, src |-> src(k), from |-> 0,
                              len |-> whole[k], at |-> Places(whole)[k]]]
  BY DEF Pieces, n
<1>14. Pieces(size, tile, 0, size, FALSE, most) =
         [k \in 1..count |-> [tile |-> 0 + k - 1, src |-> src(k),
                              from |-> From(tile, 0, 0 + k - 1),
                              len |-> part[k], at |-> Places(part)[k]]]
  <2>1. Pieces(size, tile, 0, size, FALSE, most) =
          LET first == FirstTile(tile, 0)
              last  == EndTile(tile, 0, size)
              lens  == [k \in 1..Max({Min({last - first, most}), 0}) |->
                          Copied(size, tile, 0, size, first + k - 1, first, last)]
          IN  [k \in 1..Max({Min({last - first, most}), 0}) |->
                 [tile |-> first + k - 1,
                  src  |-> TileExtent(size, tile, (first + k - 1) % n),
                  from |-> From(tile, 0, first + k - 1),
                  len  |-> lens[k],
                  at   |-> Places(lens)[k]]]
    BY DEF Pieces, n
  <2> QED BY <1>5, <1>7, <2>1, Zenon
<1> HIDE DEF whole, part, src, count
<1> QED BY <1>11, <1>12, <1>13, <1>14, Zenon

\* The copies of one direction of a region, a part of the level or all of it.
Composed(pieces, size, tile, x, extent, most) ==
  \E whole \in BOOLEAN : /\ whole => x = 0 /\ extent = size
                         /\ pieces = Pieces(size, tile, x, extent, whole, most)

(* One direction of a region of the level, whole or not. *)
LEMMA DirectionCovers ==
  ASSUME NEW size \in Nat, NEW tile \in Nat, tile > 0,
         NEW x \in Nat, NEW extent \in Nat, extent > 0, x + extent <= size,
         NEW most \in Nat, Tiles(size, tile) <= most,
         NEW pieces, Composed(pieces, size, tile, x, extent, most)
  PROVE  /\ Covers(pieces, x, extent, tile)
         /\ \A p \in Range(pieces) : p.tile \in Nat /\ p.tile < Tiles(size, tile)
<1>1. pieces = Pieces(size, tile, x, extent, FALSE, most)
  <2>0. PICK whole \in BOOLEAN : /\ whole => x = 0 /\ extent = size
                                /\ pieces = Pieces(size, tile, x, extent, whole, most)
    BY Zenon DEF Composed
  <2>1. CASE whole
    <3>1. x = 0 /\ extent = size /\ whole = TRUE
      BY <2>0, <2>1
    <3>2. size > 0
      BY <3>1
    <3>3. Pieces(size, tile, 0, size, TRUE, most) = Pieces(size, tile, 0, size, FALSE, most)
      BY <3>2, WholePieces, Zenon
    <3> QED BY <2>0, <3>1, <3>3, Zenon
  <2>2. CASE ~whole
    <3>1. whole = FALSE
      BY <2>2
    <3> QED BY <2>0, <3>1, Zenon
  <2> QED BY <2>1, <2>2, Zenon
<1>2. LET q == Pieces(size, tile, x, extent, FALSE, most) IN
      /\ Covers(q, x, extent, tile)
      /\ \A p \in Range(q) : p.tile \in Nat /\ p.tile < Tiles(size, tile)
  BY PartCovers, Zenon
<1> QED BY <1>1, <1>2, Zenon

(* The number of the tile in column a and row b of a grid of n columns and m *)
(* rows is one of the n * m tile numbers, and the decoder finds a and b.     *)
LEMMA GridIndex ==
  ASSUME NEW n \in Nat, NEW m \in Nat, NEW a \in Nat, NEW b \in Nat, a < n, b < m
  PROVE  /\ b * n + a \in Nat /\ b * n + a < n * m
         /\ (b * n + a) % n = a /\ (b * n + a) \div n = b
<1>1. PICK c \in Nat : c = b * n
  BY Multiple
<1>2. c + a \in Nat /\ b * n <= c + a /\ c + a < b * n + n /\ n > 0
  BY <1>1
<1>3. (c + a) \div n = b /\ (c + a) % n = (c + a) - b * n
  BY <1>2, Quotient
<1>4. (b + 1) * n = c + n /\ (b + 1) * n <= m * n /\ m * n = n * m
  <2>1. PICK d \in Nat : m = (b + 1) + d
    <3>1. m - (b + 1) \in Nat /\ m = (b + 1) + (m - (b + 1))
      OBVIOUS
    <3> QED BY <3>1
  <2>2. d * n \in Nat /\ m * n = (b + 1) * n + d * n /\ m * n = n * m
    BY <2>1
  <2>3. (b + 1) * n \in Nat /\ (b + 1) * n = c + n
    BY <1>1, Multiple
  <2> QED BY <2>2, <2>3
<1>5. n * m \in Nat
  OBVIOUS
<1> QED BY <1>1, <1>2, <1>3, <1>4, <1>5

\* The number t of the tile in column a and row b of n columns and m rows.
AtNumber(t, n, m, a, b) == a < n /\ b < m /\ t = b * n + a

(* The decoder finds the column and the row of a tile from its number. *)
LEMMA TileNumber ==
  ASSUME NEW t, NEW n \in Nat, NEW m \in Nat, NEW a \in Nat, NEW b \in Nat, AtNumber(t, n, m, a, b)
  PROVE  t < n * m /\ t % n = a /\ t \div n = b
BY GridIndex DEF AtNumber

(* A level that is not empty has a tile. *)
LEMMA TilesPositive ==
  ASSUME NEW size \in Nat, size > 0, NEW tile \in Nat, tile > 0
  PROVE  Tiles(size, tile) > 0
<1>1. PICK q \in Nat, r \in Nat : /\ q = size \div tile /\ r = size % tile
                                 /\ size = q * tile + r
  BY Division
<1>2. Tiles(size, tile) = q + (IF r = 0 THEN 0 ELSE 1)
  BY <1>1, SMTT(30) DEF Tiles, Remainder
<1> QED BY <1>1, <1>2

(* A region inside the level: TileManager::getRegion asks only for tiles that *)
(* exist, and its copies fill the region exactly.                             *)
LEMMA RegionComposed ==
  ASSUME NEW img \in Images, NEW res \in 0..(img.levels - 1),
         NEW r, r.x \in Nat, r.y \in Nat, r.w \in Nat, r.h \in Nat, Fits(img, res, r),
         NEW blits, blits = getRegion(img, res, r)
  PROVE  /\ Covers(blits.cols, r.x, r.w, img.tw)
         /\ Covers(blits.rows, r.y, r.h, img.th)
         /\ Decodes(img, res, blits)
<1>1. PICK w \in Nat, h \in Nat : w = WidthAt(img, res) /\ h = HeightAt(img, res)
  BY LevelSizes
<1>2. /\ r.w > 0 /\ r.x + r.w <= w
      /\ r.h > 0 /\ r.y + r.h <= h
  BY <1>1 DEF Fits
<1>3. img.tw \in Nat /\ img.tw > 0 /\ img.th \in Nat /\ img.th > 0
  BY ImagesAssumption DEF Positive
<1>4. PICK n \in Nat, m \in Nat : n = Tiles(w, img.tw) /\ m = Tiles(h, img.th)
  BY <1>3, ExtentTyped, Zenon
<1>5. n > 0 /\ m > 0
  <2>1. w > 0 /\ h > 0
    BY <1>2
  <2> QED BY <1>3, <1>4, <2>1, TilesPositive
<1>6. PICK most \in Nat : most = n * m + 1 /\ n <= most /\ m <= most
  BY <1>5
<1>7. PICK whole \in BOOLEAN : whole = Whole(img, res, r)
  BY Zenon DEF Whole
<1>8. whole => r.x = 0 /\ r.w = w /\ r.y = 0 /\ r.h = h
  BY <1>1, <1>7, ZenonT(30) DEF Whole
<1>9. /\ blits.cols = Pieces(w, img.tw, r.x, r.w, whole, most)
      /\ blits.rows = Pieces(h, img.th, r.y, r.h, whole, most)
  BY <1>1, <1>4, <1>6, <1>7, Zenon DEF getRegion
<1>10. /\ Composed(blits.cols, w, img.tw, r.x, r.w, most)
       /\ Composed(blits.rows, h, img.th, r.y, r.h, most)
  BY <1>8, <1>9, Zenon DEF Composed
<1>11. /\ Covers(blits.cols, r.x, r.w, img.tw)
       /\ \A p \in Range(blits.cols) : p.tile \in Nat /\ p.tile < n
  BY <1>2, <1>3, <1>4, <1>6, <1>10, DirectionCovers, Zenon
<1>12. /\ Covers(blits.rows, r.y, r.h, img.th)
       /\ \A p \in Range(blits.rows) : p.tile \in Nat /\ p.tile < m
  BY <1>2, <1>3, <1>4, <1>6, <1>10, DirectionCovers, ZenonT(30)
<1>13. ASSUME NEW c \in Range(blits.cols), NEW d \in Range(blits.rows)
       PROVE  TileExists(img, res, d.tile * Tiles(WidthAt(img, res), img.tw) + c.tile)
  <2>1. PICK a \in Nat, b \in Nat : a = c.tile /\ b = d.tile /\ a < n /\ b < m
    BY <1>11, <1>12
  <2>2. b * n + a < n * m
    BY <2>1, GridIndex, Zenon
  <2> QED BY <1>1, <1>4, <2>1, <2>2, SMTT(30) DEF TileExists
<1>14. Decodes(img, res, blits)
  BY <1>13 DEF Decodes
<1> QED BY <1>11, <1>12, <1>14

-----------------------------------------------------------------------------
(* The size of an export.                                                   *)

(* A rounded quotient exceeds what the exact one is allowed by half a pixel. *)
LEMMA RoundBound ==
  ASSUME NEW n \in Nat, NEW d \in Nat, d > 0, NEW m \in Nat, 1000 * n <= 1001 * (m * d)
  PROVE  Round(n, d) \in Nat /\ 1000 * Round(n, d) <= 1001 * m + 500
<1>1. PICK r \in Nat : r = Round(n, d) /\ 2 * (r * d) <= 2 * n + d
  BY Rounding, ZenonT(30)
<1>2. SUFFICES ASSUME 1000 * r > 1001 * m + 500 PROVE FALSE
  BY <1>1
<1>3. PICK e \in Nat : 1000 * r = 1001 * m + 501 + e
  <2>1. PICK f \in Int : f = 1000 * r - (1001 * m + 501)
    OBVIOUS
  <2>2. f \in Nat /\ 1000 * r = 1001 * m + 501 + f
    BY <1>2, <2>1
  <2> QED BY <2>2
<1>4. PICK a \in Nat, b \in Nat, c \in Nat : a = r * d /\ b = m * d /\ c = e * d
  BY Multiple
<1>5. (1000 * r) * d = (1001 * m + 501 + e) * d
  BY <1>3
<1>6. 1000 * a = 1001 * b + 501 * d + c
  BY <1>4, <1>5
<1> QED BY <1>1, <1>4, <1>6

\* The two dimensions of an output that may exceed w and h as CVT allows.
Within(out, w, h) ==
  /\ out[1] \in Nat /\ 1000 * out[1] <= 1001 * w + 500
  /\ out[2] \in Nat /\ 1000 * out[2] <= 1001 * h + 500

(* maintain_aspect in CVT::send: the shrunk dimension stays below the other  *)
(* limit, but for the 0.1% and the rounding.                                 *)
LEMMA FitWithinBound ==
  ASSUME NEW r, r.w \in Nat, r.h \in Nat, NEW rw \in Nat, NEW rh \in Nat,
         NEW out, out = FitWithin(r, rw, rh)
  PROVE  Within(out, rw, rh)
<1> USE DEF Within
<1>1. PICK w \in Nat, h \in Nat : w = r.w /\ h = r.h
  OBVIOUS
<1>2. PICK a \in Nat, b \in Nat : a = rw * h /\ b = rh * w
  BY Multiple
<1>3. 1000 * rw * h = 1000 * a /\ 1001 * rh * w = 1001 * b
  BY <1>2
<1>4. out = IF 1000 * a < 1001 * b THEN <<rw, Round(a, w)>>
            ELSE IF 1000 * a > 1001 * b THEN <<Round(b, h), rh>>
            ELSE <<rw, rh>>
  BY <1>1, <1>2, <1>3 DEF FitWithin
<1>5. CASE 1000 * a < 1001 * b
  <2>1. w > 0
    BY <1>2, <1>5
  <2>2. Round(a, w) \in Nat /\ 1000 * Round(a, w) <= 1001 * rh + 500
    BY <1>2, <1>5, <2>1, RoundBound
  <2>3. out[1] = rw /\ out[2] = Round(a, w)
    BY <1>4, <1>5
  <2> QED BY <2>2, <2>3
<1>6. CASE ~(1000 * a < 1001 * b) /\ 1000 * a > 1001 * b
  <2>1. h > 0
    BY <1>2, <1>6
  <2>2. 1000 * b <= 1001 * (rw * h)
    BY <1>2, <1>6
  <2>3. Round(b, h) \in Nat /\ 1000 * Round(b, h) <= 1001 * rw + 500
    BY <2>1, <2>2, RoundBound
  <2>4. out[1] = Round(b, h) /\ out[2] = rh
    BY <1>4, <1>6
  <2> QED BY <2>3, <2>4
<1>7. CASE ~(1000 * a < 1001 * b) /\ ~(1000 * a > 1001 * b)
  <2>1. out[1] = rw /\ out[2] = rh
    BY <1>4, <1>7
  <2> QED BY <2>1
<1> QED BY <1>5, <1>6, <1>7

(* The region in pixels that View computes. *)
LEMMA ViewGeometry ==
  ASSUME NEW img \in Images, NEW v, Opened(v, img)
  PROVE  LET w == WidthAt(img, v.resolution)
             h == HeightAt(img, v.resolution)
         IN  /\ getViewLeft(v) \in Nat /\ getViewTop(v) \in Nat
             /\ getViewWidth(v) \in Nat /\ getViewWidth(v) > 0 /\ getViewWidth(v) <= w + 1
             /\ getViewHeight(v) \in Nat /\ getViewHeight(v) > 0 /\ getViewHeight(v) <= h + 1
             /\ getViewWidth(v) > 1 => getViewLeft(v) + getViewWidth(v) <= w + 1
             /\ getViewHeight(v) > 1 => getViewTop(v) + getViewHeight(v) <= h + 1
<1>1. PICK k \in Nat : k = Level(v)
  BY ImagesAssumption DEF Level, Opened, Positive
<1>2. /\ WidthAt(img, v.resolution) = Half(v.imw, k)
      /\ HeightAt(img, v.resolution) = Half(v.imh, k)
  BY <1>1, Zenon DEF Level, WidthAt, HeightAt, Opened
<1>3. Half(v.imw, k) > 0 /\ Half(v.imh, k) > 0
  BY <1>2, LevelSizes DEF Opened
<1>4. /\ v.imw \in Nat /\ v.imh \in Nat
      /\ v.left \in Fraction /\ v.top \in Fraction
      /\ v.width \in Fraction /\ v.height \in Fraction
  BY DEF Opened, ViewSet
<1>5. LET x == Offset(v.imw, v.left, k)
          e == Extent(v.imw, v.left, v.width, k)
      IN  /\ x \in Nat
          /\ e \in Nat /\ e > 0 /\ e <= Half(v.imw, k) + 1
          /\ e > 1 => x + e <= Half(v.imw, k) + 1
  BY <1>3, <1>4, Geometry, SMTT(30)
<1>6. LET y == Offset(v.imh, v.top, k)
          e == Extent(v.imh, v.top, v.height, k)
      IN  /\ y \in Nat
          /\ e \in Nat /\ e > 0 /\ e <= Half(v.imh, k) + 1
          /\ e > 1 => y + e <= Half(v.imh, k) + 1
  BY <1>3, <1>4, Geometry
<1> QED BY <1>1, <1>2, <1>5, <1>6, Zenon
        DEF getViewLeft, getViewTop, getViewWidth, getViewHeight

(* A dimension that is asked for or computed, below the limit of the server. *)
LEMMA RequestTyped ==
  ASSUME NEW img \in Images, NEW v, Opened(v, img)
  PROVE  /\ getRequestWidth(v) \in Nat /\ getRequestHeight(v) \in Nat
         /\ v.max_size > 0 => /\ getRequestWidth(v) <= v.max_size
                              /\ getRequestHeight(v) <= v.max_size
<1>1. PICK w \in Nat, h \in Nat : w = getViewWidth(v) /\ h = getViewHeight(v) /\ w > 0 /\ h > 0
  BY ViewGeometry
<1>2. PICK rw \in Nat, rh \in Nat : rw = v.reqw /\ rh = v.reqh
  <2>1. v.reqw \in Unsigned /\ v.reqh \in Unsigned
    BY DEF Opened, ViewSet
  <2> QED BY <2>1 DEF Unsigned
<1>3. v.imw \in Nat /\ v.imh \in Nat /\ v.max_size \in Int
  BY DEF Opened, ViewSet
<1>4. Round(Word(w * rh), h) \in Nat /\ Round(Word(h * rw), w) \in Nat
  <2>1. PICK a \in Nat, b \in Nat : a = w * rh /\ b = h * rw
    BY Multiple
  <2>2. PICK c \in Nat, d \in Nat : c = Word(a) /\ d = Word(b)
    BY WordSizeAssumption DEF Word
  <2>3. Round(c, h) \in Nat /\ Round(d, w) \in Nat
    BY <1>1, Rounding
  <2> QED BY <2>1, <2>2, <2>3, Zenon
<1>5. PICK n \in Nat : n = IF rw # 0 THEN rw ELSE IF rh # 0 THEN Round(Word(w * rh), h) ELSE v.imw
  BY <1>3, <1>4
<1>6. PICK m \in Nat : m = IF rh # 0 THEN rh ELSE IF rw # 0 THEN Round(Word(h * rw), w) ELSE v.imh
  BY <1>3, <1>4
<1>7. getRequestWidth(v) = Limited(v, n) /\ getRequestHeight(v) = Limited(v, m)
  BY <1>1, <1>2, <1>5, <1>6, Zenon DEF getRequestWidth, getRequestHeight
<1> QED BY <1>3, <1>7 DEF Limited

\* The size of an output is within what the request, the server's limit and the
\* image allow.
SizeWithin(out, v, img) ==
  /\ out[1] \in Nat /\ out[2] \in Nat
  /\ 1000 * out[1] <= 1001 * getRequestWidth(v) + 500
  /\ 1000 * out[2] <= 1001 * getRequestHeight(v) + 500
  /\ v.max_size > 0 => /\ 1000 * out[1] <= 1001 * v.max_size + 500
                       /\ 1000 * out[2] <= 1001 * v.max_size + 500
  /\ ~v.upscale => /\ 1000 * out[1] <= 1001 * img.w + 500
                   /\ 1000 * out[2] <= 1001 * img.h + 500

(* The size of the output: CVT::send never exceeds the sizes it computed     *)
(* from the request, the server's limit and the level.                       *)
LEMMA OutputSizeBound ==
  ASSUME image \in Images, NEW v, Opened(v, image), NEW r, r.w \in Nat, r.h \in Nat,
         NEW out, out = OutputSize(v, r)
  PROVE  SizeWithin(out, v, image)
<1>1. PICK n \in Nat, m \in Nat : n = getRequestWidth(v) /\ m = getRequestHeight(v)
  BY RequestTyped
<1>2. v.max_size \in Int /\ (v.max_size > 0 => n <= v.max_size /\ m <= v.max_size)
  BY <1>1, RequestTyped DEF Opened, ViewSet
<1>3. PICK w \in Nat, h \in Nat : /\ w = WidthAt(image, v.resolution)
                                  /\ h = HeightAt(image, v.resolution)
                                  /\ w <= image.w /\ h <= image.h
  BY LevelSizes DEF Opened
<1>4. PICK rw \in Nat, rh \in Nat : /\ rw = Upscaled(v, n, w) /\ rh = Upscaled(v, m, h)
                                    /\ rw <= n /\ rh <= m
                                    /\ ~v.upscale => rw <= w /\ rh <= h
  BY DEF Upscaled
<1>5. out = IF v.aspect THEN FitWithin(r, rw, rh) ELSE <<rw, rh>>
  BY <1>1, <1>3, <1>4, Zenon DEF OutputSize
<1>6. /\ out[1] \in Nat /\ 1000 * out[1] <= 1001 * rw + 500
      /\ out[2] \in Nat /\ 1000 * out[2] <= 1001 * rh + 500
  <2>1. CASE v.aspect
    <3>1. out = FitWithin(r, rw, rh)
      BY <1>5, <2>1
    <3>2. Within(out, rw, rh)
      BY <3>1, FitWithinBound, Zenon
    <3> QED BY <3>2 DEF Within
  <2>2. CASE ~v.aspect
    <3>1. out[1] = rw /\ out[2] = rh
      BY <1>5, <2>2
    <3> QED BY <3>1
  <2> QED BY <2>1, <2>2
<1>7. image.w \in Nat /\ image.h \in Nat
  BY ImagesAssumption DEF Positive
<1>8. PICK a \in Nat, b \in Nat : a = out[1] /\ b = out[2]
  BY <1>6
<1>9. 1000 * a <= 1001 * rw + 500 /\ 1000 * b <= 1001 * rh + 500
  BY <1>6, <1>8
<1>10. 1000 * a <= 1001 * n + 500 /\ 1000 * b <= 1001 * m + 500
  BY <1>4, <1>9
<1>11. v.max_size > 0 => 1000 * a <= 1001 * v.max_size + 500 /\ 1000 * b <= 1001 * v.max_size + 500
  BY <1>2, <1>10
<1>12. ~v.upscale => 1000 * a <= 1001 * image.w + 500 /\ 1000 * b <= 1001 * image.h + 500
  BY <1>3, <1>4, <1>7, <1>9
<1> QED BY <1>1, <1>8, <1>10, <1>11, <1>12 DEF SizeWithin

-----------------------------------------------------------------------------
(* The view of a request, through its handlers.                             *)

(* One change after another. *)
LEMMA SameImageJoins ==
  ASSUME NEW u, NEW v, NEW w, SameImage(u, v), SameImage(v, w)
  PROVE  SameImage(u, w)
  BY DEF SameImage

(* RGN, and IIIF with pixels or percent, set the four members in this order. *)
LEMMA RegionSet ==
  ASSUME NEW v \in ViewSet, NEW a \in Int \X Positive, NEW b \in Int \X Positive,
         NEW c \in Int \X Positive, NEW d \in Int \X Positive
  PROVE  SameImage(v, setViewHeight(setViewWidth(setViewTop(setViewLeft(v, a), b), c), d))
<1>1. PICK p : p = setViewLeft(v, a) /\ SameImage(v, p) /\ p \in ViewSet
  BY SettersKeep DEF SameImage
<1>2. PICK q : q = setViewTop(p, b) /\ SameImage(p, q) /\ q \in ViewSet
  BY <1>1, SettersKeep, Zenon DEF SameImage
<1>3. PICK r : r = setViewWidth(q, c) /\ SameImage(q, r) /\ r \in ViewSet
  BY <1>2, SettersKeep, Zenon DEF SameImage
<1>4. PICK s : s = setViewHeight(r, d) /\ SameImage(r, s) /\ s \in ViewSet
  BY <1>3, SettersKeep, Zenon DEF SameImage
<1>5. SameImage(v, s)
  BY <1>1, <1>2, <1>3, <1>4 DEF SameImage
<1> QED BY <1>1, <1>2, <1>3, <1>4, <1>5, Zenon

(* An image stays opened. *)
LEMMA SameOpened ==
  ASSUME NEW img, NEW v, Opened(v, img), NEW w, SameImage(v, w)
  PROVE  Opened(w, img)
  BY DEF Opened, SameImage

(* The view of a new request. *)
LEMMA NewViewTyped ==
  ASSUME NEW max \in Int, NEW up \in BOOLEAN
  PROVE  /\ NewView(max, up) \in ViewSet /\ NewView(max, up).max_size = max
         /\ NewView(max, up).max_resolutions = 0 /\ NewView(max, up).resolution = 0
<1>1. PICK z, o : z = <<0, 1>> /\ o = <<1, 1>> /\ z \in Fraction /\ o \in Fraction
  <2>1. <<0, 1>> \in Fraction /\ <<1, 1>> \in Fraction
    BY DEF Fraction, Positive
  <2> QED BY <2>1, Zenon
<1>2. 0 \in Unsigned
  BY WordSizeAssumption DEF Unsigned
<1>3. NewView(max, up) =
        [left |-> z, top |-> z, width |-> o, height |-> o,
         imw |-> 0, imh |-> 0, max_resolutions |-> 0, resolution |-> 0,
         reqw |-> 0, reqh |-> 0, max_size |-> max, aspect |-> TRUE, upscale |-> up]
  BY <1>1, SMTT(30) DEF NewView
<1> QED BY <1>1, <1>2, <1>3 DEF ViewSet

(* The region of an IIIF request. *)
LEMMA IiifRegionKeeps ==
  ASSUME image \in Images, NEW v \in ViewSet, NEW g \in IiifRegions
  PROVE  SameImage(v, IiifRegion(v, g))
<1>1. /\ g.kind \in {"full", "square", "pixels", "percent"}
      /\ g.v[1] \in Int /\ g.v[2] \in Int /\ g.v[3] \in Int /\ g.v[4] \in Int
  BY ArgsAssumption
<1>2. PICK w \in Positive, h \in Positive : w = image.w /\ h = image.h
  BY ImagesAssumption
<1>3. SameImage(v, v)
  BY DEF SameImage
<1>4. CASE g.kind = "full"
  BY <1>3, <1>4 DEF IiifRegion
<1>5. CASE g.kind = "square" /\ h > w
  <2>1. PICK a, b : /\ a = <<h - w, 2 * h>> /\ b = <<w, h>>
                    /\ a \in Int \X Positive /\ b \in Int \X Positive
    <3>1. <<h - w, 2 * h>> \in Int \X Positive /\ <<w, h>> \in Int \X Positive
      BY DEF Positive
    <3> QED BY <3>1, Zenon
  <2>2. IiifRegion(v, g) = setViewHeight(setViewTop(v, a), b)
    <3>1. ~(w > h) /\ w # h
      BY <1>5 DEF Positive
    <3> QED BY <1>2, <1>5, <2>1, <3>1 DEF IiifRegion
  <2>3. PICK t : t = setViewTop(v, a) /\ SameImage(v, t) /\ t \in ViewSet
    BY <2>1, SettersKeep DEF SameImage
  <2>4. SameImage(t, setViewHeight(t, b))
    BY <2>1, <2>3, SettersKeep
  <2> QED BY <2>2, <2>3, <2>4, SameImageJoins
<1>6. CASE g.kind = "square" /\ w > h
  <2>1. PICK a, b : /\ a = <<w - h, 2 * w>> /\ b = <<h, w>>
                    /\ a \in Int \X Positive /\ b \in Int \X Positive
    <3>1. <<w - h, 2 * w>> \in Int \X Positive /\ <<h, w>> \in Int \X Positive
      BY DEF Positive
    <3> QED BY <3>1, Zenon
  <2>2. IiifRegion(v, g) = setViewWidth(setViewLeft(v, a), b)
    <3>1. ~(h > w)
      BY <1>6 DEF Positive
    <3> QED BY <1>2, <1>6, <2>1, <3>1 DEF IiifRegion
  <2>3. PICK t : t = setViewLeft(v, a) /\ SameImage(v, t) /\ t \in ViewSet
    BY <2>1, SettersKeep DEF SameImage
  <2>4. SameImage(t, setViewWidth(t, b))
    BY <2>1, <2>3, SettersKeep
  <2> QED BY <2>2, <2>3, <2>4, SameImageJoins
<1>7. CASE g.kind = "square" /\ w = h
  <2>1. IiifRegion(v, g) = v
    <3>1. ~(h > w) /\ ~(w > h)
      BY <1>7 DEF Positive
    <3> QED BY <1>2, <1>7, <3>1 DEF IiifRegion
  <2> QED BY <1>3, <2>1
<1>8. CASE g.kind \in {"pixels", "percent"}
  <2>1. PICK wd \in Positive, hd \in Positive :
          /\ wd = IF g.kind = "percent" THEN 100 ELSE w
          /\ hd = IF g.kind = "percent" THEN 100 ELSE h
    BY DEF Positive
  <2>2. PICK a, b, c, d :
          /\ a = <<g.v[1], wd>> /\ b = <<g.v[2], hd>> /\ c = <<g.v[3], wd>> /\ d = <<g.v[4], hd>>
          /\ a \in Int \X Positive /\ b \in Int \X Positive
          /\ c \in Int \X Positive /\ d \in Int \X Positive
    <3>1. /\ <<g.v[1], wd>> \in Int \X Positive /\ <<g.v[2], hd>> \in Int \X Positive
          /\ <<g.v[3], wd>> \in Int \X Positive /\ <<g.v[4], hd>> \in Int \X Positive
      BY <1>1
    <3> QED BY <3>1, Zenon
  <2>3. IiifRegion(v, g) = setViewHeight(setViewWidth(setViewTop(setViewLeft(v, a), b), c), d)
    BY <1>2, <1>8, <2>1, <2>2 DEF IiifRegion
  <2> QED BY <2>2, <2>3, RegionSet
<1>9. w > h \/ h > w \/ w = h
  BY DEF Positive
<1> QED BY <1>1, <1>4, <1>5, <1>6, <1>7, <1>8, <1>9

(* round() gives an integer, whatever is rounded. *)
LEMMA RoundInt ==
  ASSUME NEW n \in Int, NEW d \in Positive
  PROVE  Round(n, d) \in Int
<1>1. 2 * n + d \in Int /\ 2 * d \in Nat /\ 2 * d > 0
  BY DEF Positive
<1> QED BY <1>1 DEF Round

(* The size that an IIIF request asks for. *)
LEMMA WantedTyped ==
  ASSUME NEW s \in IiifSizes, NEW rw \in Positive, NEW rh \in Positive
  PROVE  Wanted(s, rw, rh) \in Int \X Int
<1>1. /\ s.kind \in {"max", "pct", "w", "h", "within", "exact"}
      /\ s.w \in Int /\ s.h \in Int
  BY ArgsAssumption
<1>2. rw \in Int /\ rh \in Int /\ 100 \in Positive
  BY DEF Positive
<1>3. /\ rw * s.w \in Int /\ rh * s.w \in Int /\ s.w * rh \in Int /\ s.h * rw \in Int
  BY <1>1, <1>2
<1>4. /\ Round(rw * s.w, 100) \in Int /\ Round(rh * s.w, 100) \in Int
      /\ Round(s.w * rh, rw) \in Int /\ Round(s.h * rw, rh) \in Int
  BY <1>2, <1>3, RoundInt, Zenon
<1>5. CASE s.kind = "max"
  BY <1>2, <1>5 DEF Wanted
<1>6. CASE s.kind = "pct"
  BY <1>4, <1>6 DEF Wanted
<1>7. CASE s.kind = "w"
  BY <1>1, <1>4, <1>7 DEF Wanted
<1>8. CASE s.kind = "h"
  BY <1>1, <1>4, <1>8 DEF Wanted
<1>9. CASE s.kind \in {"within", "exact"}
  BY <1>1, <1>9 DEF Wanted
<1> QED BY <1>1, <1>5, <1>6, <1>7, <1>8, <1>9

(* The limit on that size. *)
LEMMA LimitTyped ==
  ASSUME NEW v \in ViewSet, NEW want \in Int \X Int, NEW rw \in Positive, NEW rh \in Positive
  PROVE  IiifLimit(v, want, rw, rh) \in Int \X Int
<1>1. PICK m \in Int, n \in Int : m = Word(v.max_size) /\ n = v.max_size
  <2>1. v.max_size \in Int
    BY DEF ViewSet
  <2> QED BY <2>1, WordRange DEF Unsigned
<1>2. WordSize \div 2 \in Int /\ -(WordSize \div 2) \in Int
  BY WordSizeAssumption
<1>3. m * rw \in Int /\ m * rh \in Int
  BY DEF Positive
<1>4. PICK a \in Int, b \in Int : a = Round(m * rw, rh) /\ b = Round(m * rh, rw)
  BY <1>3, RoundInt
<1>5. PICK c \in Int, d \in Int : c = ToInt(a) /\ d = ToInt(b)
  BY <1>2 DEF ToInt
<1>6. PICK over \in BOOLEAN : over = (want[1] > n \/ want[2] > n)
  BY Zenon
<1>7. IiifLimit(v, want, rw, rh) =
        IF ~over THEN want
        ELSE IF rw > rh THEN <<n, IF v.aspect THEN c ELSE n>>
        ELSE <<IF v.aspect THEN d ELSE n, n>>
  BY <1>1, <1>4, <1>5, <1>6, Zenon DEF IiifLimit
<1> QED BY <1>7

(* The view that an IIIF request leaves once its size is parsed. *)
LEMMA IiifSizeKeeps ==
  ASSUME image \in Images, NEW v, Opened(v, image), NEW s \in IiifSizes
  PROVE  SameImage(v, IiifSize(v, s).view)
<1>1. PICK rw \in Positive, rh \in Positive : rw = getViewWidth(v) /\ rh = getViewHeight(v)
  BY ViewGeometry DEF Positive
<1>2. PICK want \in Int \X Int : want = Wanted(s, rw, rh)
  BY WantedTyped
<1>3. v \in ViewSet /\ s.caret \in BOOLEAN
  BY ArgsAssumption DEF Opened
<1>4. PICK aspect \in BOOLEAN, up \in BOOLEAN :
        /\ aspect = (v.aspect /\ s.kind # "exact")
        /\ up = (v.upscale /\ (conf.version < 3 \/ s.caret))
  BY Zenon
<1>5. PICK a : /\ a = [v EXCEPT !.aspect = @ /\ s.kind # "exact",
                                !.upscale = @ /\ (conf.version < 3 \/ s.caret)]
               /\ a = [v EXCEPT !.aspect = aspect, !.upscale = up]
  BY <1>3, <1>4 DEF ViewSet
<1>6. SameImage(v, a) /\ a \in ViewSet
  BY <1>3, <1>5, Zenon DEF SameImage, ViewSet
<1>7. PICK size \in Int \X Int : size = IiifLimit(a, want, rw, rh)
  BY <1>6, LimitTyped
<1>8. PICK n \in Unsigned, m \in Unsigned : n = Word(size[1]) /\ m = Word(size[2])
  BY WordRange
<1>9. PICK b : b = [a EXCEPT !.reqw = n, !.reqh = m]
  OBVIOUS
<1>10. SameImage(v, b)
  <2>1. SameImage(a, b)
    BY <1>6, <1>9, Zenon DEF SameImage, ViewSet
  <2> QED BY <1>6, <2>1, SameImageJoins
<1>11. IiifSize(v, s).view = a \/ IiifSize(v, s).view = b
  BY <1>1, <1>2, <1>5, <1>7, <1>8, <1>9, Zenon DEF IiifSize
<1> QED BY <1>6, <1>10, <1>11

-----------------------------------------------------------------------------
(* The inductive invariant: the view is one of an image that is opened or   *)
(* still to be opened, and the reply is one of those that the handlers give. *)

\* What CVT and IIIF export for the view they leave.
Exported(v) ==
  LET r == CvtRegion(v) IN
  [kind |-> "region", res |-> v.resolution, rect |-> r,
   blits |-> getRegion(image, v.resolution, r), out |-> OutputSize(v, r)]

RegionReply == Opened(view, image) /\ reply = Exported(view)

\* What IIIF passes on as a tile.
IiifReply ==
  /\ Opened(view, image) /\ IsTile(view, view_left(view), view_top(view))
  /\ reply = [kind |-> "tile", by |-> "IIIF", res |-> view.resolution,
              tile |-> CornerTile(view), asked |-> <<CornerTile(view)>>,
              rect |-> CvtRegion(view)]

\* What IIIF passes on as a tile with a half turn.
IiifTurnedReply ==
  /\ Opened(view, image) /\ CornerTile(view) \in Nat
  /\ reply = [kind |-> "tile", by |-> "IIIF half turn", res |-> view.resolution,
              tile |-> Turned(view.resolution, CornerTile(view)),
              asked |-> <<CornerTile(view)>>, rect |-> CvtRegion(view)]

JtlReply ==
  \E res \in 0..(image.levels - 1), tile \in Coords :
      reply = Served("JTL", res, tile, <<tile>>)

TurnedReply ==
  \E res \in 0..(image.levels - 1), tile \in Coords :
      /\ ~(Turned(res, tile) < 0)
      /\ reply = Served("half turn", res, Turned(res, tile), <<tile>>)

ZoomifyReply ==
  \E r, res \in 0..(image.levels - 1), x, y \in Coords :
      reply = Served("Zoomify", res, y * Columns(res) + x, <<r, x, y>>)

DeepZoomReply ==
  \E level \in 0..DziLevels, x, y \in Coords :
      LET res == DeepZoomResolution(level) IN
      reply = Served("DeepZoom", res, y * Columns(res) + x, <<level, x, y>>)

TilReply ==
  \E res \in 0..(image.levels - 1), s, last \in Coords :
      LET e == Max({s, last}) IN
      reply = [kind |-> "tiles", res |-> res, tiles |-> Rectangle(res, s, e),
               asked |-> <<s, e>>]

ProfileReply ==
  \E res \in 0..(image.levels - 1), x1, y1, x2, y2 \in Coords :
      LET r == ProfileRect(x1, y1, x2, y2) IN
      reply = [kind |-> "profile", res |-> res, rect |-> r, blits |-> getRegion(image, res, r)]

PointReply ==
  \E res \in 0..(image.levels - 1), tile, x, y \in Coords :
      LET t == TileRect(image, res, tile) IN
      /\ x < image.tw /\ y < image.th /\ TileExists(image, res, tile)
      /\ reply = [kind |-> "point", res |-> res, tile |-> tile, asked |-> <<x, y>>,
                  index |-> IF x >= t.w \/ y >= t.h THEN {} ELSE {SpectraIndex(x, y)}]

Replied ==
  \/ reply = None \/ reply = Error
  \/ RegionReply \/ IiifReply \/ IiifTurnedReply
  \/ JtlReply \/ TurnedReply \/ ZoomifyReply \/ DeepZoomReply \/ TilReply
  \/ ProfileReply \/ PointReply

\* The view has a limit and, once an image is opened, that image's size.
Viewed ==
  /\ view \in ViewSet /\ view.max_size = conf.max
  /\ \/ view.max_resolutions = 0 /\ view.resolution = 0
     \/ Opened(view, image)

Inv ==
  /\ conf \in [max : MaxSizes, up : BOOLEAN, version : Versions]
  /\ image \in Images
  /\ Viewed
  /\ Replied

(* The tiles between two others depend on the image only. *)
LEMMA RectangleKept ==
  ASSUME image' = image, NEW res, NEW s, NEW e
  PROVE  Rectangle(res, s, e)' = Rectangle(res, s, e)
<1>1. PICK n : n = Columns(res) /\ n = Columns(res)'
  BY Zenon DEF Columns
<1> QED BY <1>1 DEF Rectangle

(* A step that leaves the variables alone leaves the reply what it is. *)
LEMMA RepliedKept ==
  ASSUME Replied, UNCHANGED vars
  PROVE  Replied'
<1>1. image' = image /\ view' = view /\ reply' = reply
  BY DEF vars
<1>2. CASE reply = None \/ reply = Error
  BY <1>1, <1>2, Zenon DEF Replied, None, Error
<1>3. CASE RegionReply
  <2>1. PICK r : r = CvtRegion(view) /\ r = CvtRegion(view)'
    BY <1>1, Zenon DEF CvtRegion
  <2>2. OutputSize(view, r)' = OutputSize(view, r)
    BY <1>1, Zenon DEF OutputSize
  <2>3. Exported(view)' = Exported(view)
    BY <1>1, <2>1, <2>2, Zenon DEF Exported
  <2> QED BY <1>1, <1>3, <2>3, Zenon DEF Replied, RegionReply
<1>4. CASE IiifReply
  BY <1>1, <1>4, Zenon DEF Replied, IiifReply, view_left, view_top, CornerTile, IsTile, CvtRegion
<1>5. CASE JtlReply
  BY <1>1, <1>5 DEF Replied, JtlReply
<1>6. CASE TurnedReply
  BY <1>1, <1>6, Zenon DEF Replied, TurnedReply, Turned
<1>7. CASE ZoomifyReply
  BY <1>1, <1>7, Zenon DEF Replied, ZoomifyReply, Columns
<1>8. CASE DeepZoomReply
  BY <1>1, <1>8, Zenon DEF Replied, DeepZoomReply, DziLevels, DeepZoomResolution, Columns
<1>9. CASE TilReply
  BY <1>1, <1>9, RectangleKept, Zenon DEF Replied, TilReply
<1>10. CASE ProfileReply
  BY <1>1, <1>10, Zenon DEF Replied, ProfileReply
<1>11. CASE PointReply
  BY <1>1, <1>11, ZenonT(30) DEF Replied, PointReply, SpectraIndex
<1>12. CASE IiifTurnedReply
  <2>1. CornerTile(view)' = CornerTile(view) /\ CvtRegion(view)' = CvtRegion(view)
    BY <1>1, Zenon DEF view_left, view_top, CornerTile, CvtRegion
  <2>2. \A res, tile : Turned(res, tile)' = Turned(res, tile)
    BY <1>1, Zenon DEF Turned
  <2> QED BY <1>1, <1>12, <2>1, <2>2, Zenon DEF Replied, IiifTurnedReply
<1> QED BY <1>2, <1>3, <1>4, <1>5, <1>6, <1>7, <1>8, <1>9, <1>10, <1>11, <1>12, Zenon DEF Replied

(* The requests that address tiles or pixels leave a reply of their kind. *)
LEMMA TileReplies ==
  ASSUME JTL \/ Zoomify \/ DeepZoom \/ TIL
  PROVE  Replied'
<1>1. CASE JTL
  <2>0. PICK res \in 0..image.levels - 1, tile \in Coords, half \in BOOLEAN : \E t :
          /\ t = IF half THEN Turned(res, tile) ELSE tile
          /\ reply' = IF t < 0 THEN Error
                      ELSE Served(IF half THEN "half turn" ELSE "JTL", res, t, <<tile>>)
          /\ image' = image
    BY <1>1, Zenon DEF JTL
  <2>1. PICK t :
          /\ t = IF half THEN Turned(res, tile) ELSE tile
          /\ reply' = IF t < 0 THEN Error
                      ELSE Served(IF half THEN "half turn" ELSE "JTL", res, t, <<tile>>)
          /\ image' = image
    BY <2>0, Zenon
  <2>2. CASE t < 0
    BY <2>1, <2>2, Zenon DEF Replied, Error
  <2>3. CASE ~(t < 0) /\ ~half
    BY <2>1, <2>3, Zenon DEF Replied, JtlReply
  <2>4. CASE ~(t < 0) /\ half
    <3>1. reply' = Served("half turn", res, t, <<tile>>) /\ t = Turned(res, tile)
      BY <2>1, <2>4, Zenon
    <3>2. Turned(res, tile)' = Turned(res, tile)
      BY <2>1, Zenon DEF Turned
    <3> QED BY <2>1, <2>4, <3>1, <3>2, Zenon DEF Replied, TurnedReply
  <2> QED BY <2>2, <2>3, <2>4
<1>2. CASE Zoomify
  BY <1>2, SMTT(30) DEF Zoomify, Columns, Replied, ZoomifyReply
<1>3. CASE DeepZoom
  <2>0. PICK level \in 0..DziLevels, x \in Coords, y \in Coords : \E res :
          /\ res = DeepZoomResolution(level) /\ image' = image
          /\ reply' = Served("DeepZoom", res, y * Columns(res) + x, <<level, x, y>>)
    BY <1>3, Zenon DEF DeepZoom
  <2>1. PICK res :
          /\ res = DeepZoomResolution(level) /\ image' = image
          /\ reply' = Served("DeepZoom", res, y * Columns(res) + x, <<level, x, y>>)
    BY <2>0, Zenon
  <2>2. DziLevels' = DziLevels /\ DeepZoomResolution(level)' = res /\ Columns(res)' = Columns(res)
    BY <2>1, Zenon DEF DziLevels, DeepZoomResolution, Columns
  <2>3. PICK d : d = DziLevels' /\ level \in 0..d
    BY <2>1, <2>2, Zenon
  <2>4. DeepZoomReply'
    BY <2>1, <2>2, <2>3, Zenon DEF DeepZoomReply
  <2> QED BY <2>4, Zenon DEF Replied
<1>4. CASE TIL
  <2>0. PICK res \in 0..image.levels - 1, s \in Coords, last \in Coords : \E e :
          /\ e = Max({s, last}) /\ image' = image
          /\ reply' = [kind |-> "tiles", res |-> res, tiles |-> Rectangle(res, s, e),
                       asked |-> <<s, e>>]
    BY <1>4, Zenon DEF TIL
  <2>1. PICK e :
          /\ e = Max({s, last}) /\ image' = image
          /\ reply' = [kind |-> "tiles", res |-> res, tiles |-> Rectangle(res, s, e),
                       asked |-> <<s, e>>]
    BY <2>0, Zenon
  <2>2. Rectangle(res, s, e)' = Rectangle(res, s, e)
    BY <2>1, RectangleKept
  <2> QED BY <2>1, <2>2, Zenon DEF Replied, TilReply
<1> QED BY <1>1, <1>2, <1>3, <1>4

(* So do the requests for pixels. *)
LEMMA PixelReplies ==
  ASSUME image \in Images, PFL \/ SPECTRA
  PROVE  Replied'
<1>1. CASE PFL
  <2>0. PICK res \in 0..image.levels, x1 \in Coords, y1 \in Coords, x2 \in Coords, y2 \in Coords : \E r :
          /\ r = ProfileRect(x1, y1, x2, y2) /\ image' = image
          /\ \/ reply' = Error
             \/ /\ ~(res >= image.levels)
                /\ reply' = [kind |-> "profile", res |-> res, rect |-> r,
                             blits |-> getRegion(image, res, r)]
    BY <1>1, Zenon DEF PFL
  <2>1. PICK r :
          /\ r = ProfileRect(x1, y1, x2, y2) /\ image' = image
          /\ \/ reply' = Error
             \/ /\ ~(res >= image.levels)
                /\ reply' = [kind |-> "profile", res |-> res, rect |-> r,
                             blits |-> getRegion(image, res, r)]
    BY <2>0, Zenon
  <2>2. CASE reply' = Error
    BY <2>2, Zenon DEF Replied, Error
  <2>3. CASE ~(res >= image.levels) /\ reply' = [kind |-> "profile", res |-> res, rect |-> r,
                                                 blits |-> getRegion(image, res, r)]
    <3>1. image.levels \in Nat
      BY ImagesAssumption DEF Positive
    <3>2. res \in 0..(image.levels - 1)
      BY <2>3, <3>1
    <3> QED BY <2>1, <2>3, <3>2, Zenon DEF Replied, ProfileReply
  <2> QED BY <2>1, <2>2, <2>3
<1>2. CASE SPECTRA
  <2>0. PICK res \in 0..image.levels - 1, tile \in Coords, x \in Coords, y \in Coords : \E t :
          /\ t = TileRect(image, res, tile) /\ image' = image
          /\ \/ reply' = Error
             \/ /\ ~(x >= image.tw) /\ ~(y >= image.th) /\ TileExists(image, res, tile)
                /\ reply' = [kind |-> "point", res |-> res, tile |-> tile, asked |-> <<x, y>>,
                             index |-> IF x >= t.w \/ y >= t.h THEN {} ELSE {SpectraIndex(x, y)}]
    BY <1>2, Zenon DEF SPECTRA
  <2>1. PICK t :
          /\ t = TileRect(image, res, tile) /\ image' = image
          /\ \/ reply' = Error
             \/ /\ ~(x >= image.tw) /\ ~(y >= image.th) /\ TileExists(image, res, tile)
                /\ reply' = [kind |-> "point", res |-> res, tile |-> tile, asked |-> <<x, y>>,
                             index |-> IF x >= t.w \/ y >= t.h THEN {} ELSE {SpectraIndex(x, y)}]
    BY <2>0, Zenon
  <2>2. CASE reply' = Error
    BY <2>2, Zenon DEF Replied, Error
  <2>3. CASE /\ ~(x >= image.tw) /\ ~(y >= image.th) /\ TileExists(image, res, tile)
             /\ reply' = [kind |-> "point", res |-> res, tile |-> tile, asked |-> <<x, y>>,
                          index |-> IF x >= t.w \/ y >= t.h THEN {} ELSE {SpectraIndex(x, y)}]
    <3>1. image.tw \in Nat /\ image.th \in Nat /\ x \in Nat /\ y \in Nat
      BY ImagesAssumption, ArgsAssumption DEF Positive
    <3>2. x < image.tw /\ y < image.th
      BY <2>3, <3>1
    <3>3. SpectraIndex(x, y)' = SpectraIndex(x, y)
      BY <2>1, Zenon DEF SpectraIndex
    <3> QED BY <2>1, <2>3, <3>2, <3>3, Zenon DEF Replied, PointReply
  <2> QED BY <2>1, <2>2, <2>3
<1> QED BY <1>1, <1>2

(* The view and the reply of an export. *)
LEMMA ExportReplies ==
  ASSUME image \in Images, NEW v \in ViewSet, v.max_size = conf.max,
         NEW p, p = Prepared(v), view' = p, reply' = Export(v), UNCHANGED <<conf, image>>
  PROVE  Viewed' /\ Replied'
<1>1. image' = image /\ conf' = conf
  OBVIOUS
<1>2. Opened(p, image) /\ SameButResolution(v, p)
  BY PreparedOpened
<1>3. reply' = Exported(p)
  BY Zenon DEF Export, Exported
<1>4. RegionReply'
  <2>1. PICK r : r = CvtRegion(p) /\ r = CvtRegion(view)'
    BY <1>1, Zenon DEF CvtRegion
  <2>2. OutputSize(view, r)' = OutputSize(p, r)
    BY <1>1, Zenon DEF OutputSize
  <2>3. Exported(view)' = Exported(p)
    BY <1>1, <2>1, <2>2, Zenon DEF Exported
  <2> QED BY <1>1, <1>2, <1>3, <2>3, Zenon DEF RegionReply
<1>5. Viewed'
  <2>1. p \in ViewSet /\ p.max_size = v.max_size
    BY <1>2 DEF Opened, SameButResolution
  <2> QED BY <1>1, <1>2, <2>1, Zenon DEF Viewed
<1> QED BY <1>4, <1>5, Zenon DEF Replied

(* The grid of tiles of a level. *)
LEMMA Grid ==
  ASSUME NEW img \in Images, NEW res \in 0..(img.levels - 1)
  PROVE  LET n == Tiles(WidthAt(img, res), img.tw)
             m == Tiles(HeightAt(img, res), img.th)
         IN  /\ n \in Nat /\ n > 0 /\ m \in Nat /\ m > 0
             /\ img.tw \in Nat /\ img.tw > 1 /\ img.th \in Nat /\ img.th > 1
<1>1. img.tw \in Nat /\ img.tw > 1 /\ img.th \in Nat /\ img.th > 1
  BY ImagesAssumption DEF Positive
<1>2. PICK w \in Nat, h \in Nat : /\ w = WidthAt(img, res) /\ w > 0
                                  /\ h = HeightAt(img, res) /\ h > 0
  BY LevelSizes
<1>3. img.tw > 0 /\ img.th > 0
  BY <1>1
<1> QED BY <1>1, <1>2, <1>3, ExtentTyped, TilesPositive, Zenon

(* The tile at the corner of a view is a number. *)
LEMMA CornerTyped ==
  ASSUME image \in Images, NEW v, Opened(v, image)
  PROVE  CornerTile(v) \in Nat
<1>1. PICK x \in Nat, y \in Nat : x = view_left(v) /\ y = view_top(v)
  BY ViewGeometry, Zenon DEF view_left, view_top
<1>2. PICK res \in 0..(image.levels - 1) : res = v.resolution
  BY DEF Opened
<1>3. PICK n \in Nat, tw \in Nat, th \in Nat :
        /\ n = Tiles(WidthAt(image, res), image.tw)
        /\ tw = image.tw /\ tw > 0 /\ th = image.th /\ th > 0
  BY Grid
<1>4. PICK i \in Nat, j \in Nat : i = x \div tw /\ j = y \div th
  BY <1>3, Division
<1>5. CornerTile(v) = j * n + i
  BY <1>1, <1>2, <1>3, <1>4, Zenon DEF CornerTile
<1>6. j * n \in Nat
  BY Multiple
<1> QED BY <1>5, <1>6

(* IIIF: an error, a tile or an export. *)
LEMMA IiifReplies ==
  ASSUME Inv, IIIF
  PROVE  Viewed' /\ Replied'
<1>0. PICK g \in IiifRegions, s \in IiifSizes, half \in BOOLEAN : \E opened, region, size, v :
        /\ opened = setMaxResolutions(setImageSize(view, image.w, image.h), image.levels)
        /\ region = IiifRegion(opened, g)
        /\ size = IiifSize(region, s)
        /\ v = getResolution(size.view)
        /\ IF RegionRefused(g) THEN view' = region /\ reply' = Error
           ELSE IF size.refused THEN view' = size.view /\ reply' = Error
           ELSE IiifServe(v, half)
        /\ image' = image /\ conf' = conf
  BY Zenon DEF IIIF
<1>1. PICK opened, region, size, v :
        /\ opened = setMaxResolutions(setImageSize(view, image.w, image.h), image.levels)
        /\ region = IiifRegion(opened, g)
        /\ size = IiifSize(region, s)
        /\ v = getResolution(size.view)
        /\ IF RegionRefused(g) THEN view' = region /\ reply' = Error
           ELSE IF size.refused THEN view' = size.view /\ reply' = Error
           ELSE IiifServe(v, half)
        /\ image' = image /\ conf' = conf
  BY <1>0, Zenon
<1>2. image \in Images /\ view \in ViewSet /\ view.max_size = conf.max
  BY DEF Inv, Viewed
<1>3. Opened(opened, image) /\ opened.max_size = conf.max
  <2>1. /\ Opened(opened, image)
        /\ opened = [view EXCEPT !.imw = image.w, !.imh = image.h,
                                 !.max_resolutions = image.levels,
                                 !.resolution = image.levels - 1]
    BY <1>1, <1>2, OpenedSet, Zenon
  <2>2. opened.max_size = view.max_size
    BY <1>2, <2>1 DEF ViewSet
  <2> QED BY <1>2, <2>1, <2>2
<1>4. SameImage(opened, region) /\ Opened(region, image)
  <2>1. SameImage(opened, region)
    BY <1>1, <1>2, <1>3, IiifRegionKeeps, ZenonT(30) DEF Opened
  <2> QED BY <1>3, <2>1, SameOpened
<1>5. SameImage(region, size.view) /\ Opened(size.view, image)
  <2>1. SameImage(region, size.view)
    BY <1>1, <1>2, <1>4, IiifSizeKeeps, ZenonT(30)
  <2> QED BY <1>4, <2>1, SameOpened
<1>6. Opened(v, image) /\ SameButResolution(size.view, v)
  BY <1>1, <1>2, <1>5, ResolvedOpened, ZenonT(30)
<1>7. region.max_size = conf.max /\ size.view.max_size = conf.max /\ v.max_size = conf.max
  BY <1>3, <1>4, <1>5, <1>6, SMTT(30) DEF SameImage, SameButResolution
<1>8. ASSUME NEW w, view' = w, Opened(w, image), w.max_size = conf.max
      PROVE  Viewed'
  BY <1>1, <1>8, Zenon DEF Viewed, Opened
<1>9. CASE RegionRefused(g)
  BY <1>1, <1>4, <1>7, <1>8, <1>9, Zenon DEF Replied, Error
<1>10. CASE ~RegionRefused(g) /\ size.refused
  BY <1>1, <1>5, <1>7, <1>8, <1>10, Zenon DEF Replied, Error
<1>11. CASE ~RegionRefused(g) /\ ~size.refused /\ IsTile(v, view_left(v), view_top(v))
  <2>0. PICK corner, tile :
        /\ corner = CornerTile(v)
        /\ tile = IF half THEN Turned(v.resolution, corner) ELSE corner
        /\ view' = v
        /\ reply' = IF tile < 0 THEN Error
                    ELSE [kind |-> "tile", by |-> IF half THEN "IIIF half turn" ELSE "IIIF",
                          res |-> v.resolution, tile |-> tile, asked |-> <<corner>>,
                          rect |-> CvtRegion(v)]
    BY <1>1, <1>11, Zenon DEF IiifServe
  <2>1. CornerTile(v) \in Nat
    BY <1>2, <1>6, CornerTyped
  <2>2. /\ CvtRegion(view)' = CvtRegion(v) /\ CornerTile(view)' = CornerTile(v)
        /\ Turned(v.resolution, corner)' = Turned(v.resolution, corner)
    BY <1>1, <2>0, Zenon DEF CvtRegion, CornerTile, view_left, view_top, Turned
  <2>3. IsTile(view, view_left(view), view_top(view))'
    BY <1>1, <1>11, <2>0, Zenon DEF IsTile, view_left, view_top
  <2>4. Opened(view', image')
    BY <1>1, <1>6, <2>0, Zenon
  <2>5. Viewed'
    BY <1>6, <1>7, <1>8, <2>0, Zenon
  <2>6. ASSUME tile < 0 PROVE Replied'
    BY <2>0, <2>6, Zenon DEF Replied, Error
  <2>7. ASSUME ~(tile < 0), half PROVE Replied'
    <3>1. reply' = [kind |-> "tile", by |-> "IIIF half turn", res |-> v.resolution,
                    tile |-> Turned(v.resolution, corner), asked |-> <<corner>>,
                    rect |-> CvtRegion(v)]
      BY <2>0, <2>7, Zenon
    <3>2. IiifTurnedReply'
      BY <2>0, <2>1, <2>2, <2>4, <3>1, Zenon DEF IiifTurnedReply
    <3> QED BY <3>2, Zenon DEF Replied
  <2>8. ASSUME ~(tile < 0), ~half PROVE Replied'
    <3>1. reply' = [kind |-> "tile", by |-> "IIIF", res |-> v.resolution,
                    tile |-> corner, asked |-> <<corner>>, rect |-> CvtRegion(v)]
      BY <2>0, <2>8, Zenon
    <3>2. IiifReply'
      BY <2>0, <2>2, <2>3, <2>4, <3>1, Zenon DEF IiifReply
    <3> QED BY <3>2, Zenon DEF Replied
  <2> QED BY <2>5, <2>6, <2>7, <2>8
<1>12. CASE ~RegionRefused(g) /\ ~size.refused /\ ~IsTile(v, view_left(v), view_top(v))
  <2>1. PICK p : p = Prepared(v) /\ view' = p /\ reply' = Export(v)
    BY <1>1, <1>12, Zenon DEF IiifServe
  <2>2. v \in ViewSet
    BY <1>6 DEF Opened
  <2> QED BY <1>1, <1>2, <1>7, <2>1, <2>2, ExportReplies, Zenon
<1> QED BY <1>9, <1>10, <1>11, <1>12

(* The commands that only fill the view. *)
LEMMA ViewFilled ==
  ASSUME Inv, RGN \/ WID \/ HEI
  PROVE  Viewed' /\ reply' = None
<1>1. /\ view \in ViewSet /\ view.max_size = conf.max
      /\ \/ view.max_resolutions = 0 /\ view.resolution = 0
         \/ Opened(view, image)
  BY DEF Inv, Viewed
<1>2. ASSUME NEW w, SameImage(view, w), view' = w, UNCHANGED <<conf, image>>
      PROVE  Viewed'
  <2>1. conf' = conf /\ image' = image
    BY <1>2, SMTT(30)
  <2>2. /\ w \in ViewSet /\ w.max_size = conf.max
        /\ w.max_resolutions = view.max_resolutions /\ w.resolution = view.resolution
    BY <1>1, <1>2 DEF SameImage
  <2>3. Opened(view, image) => Opened(w, image)
    BY <1>2, SameOpened
  <2> QED BY <1>1, <1>2, <2>1, <2>2, <2>3, Zenon DEF Viewed
<1>3. CASE RGN
  <2>1. PICK r \in RgnArgs :
          /\ reply = None /\ UNCHANGED <<conf, image, reply>>
          /\ \/ view' = view
             \/ view' = setViewHeight(setViewWidth(setViewTop(
                            setViewLeft(view, r[1]), r[2]), r[3]), r[4])
    BY <1>3, Zenon DEF RGN
  <2>2. /\ r[1] \in Int \X Positive /\ r[2] \in Int \X Positive
        /\ r[3] \in Int \X Positive /\ r[4] \in Int \X Positive
    BY ArgsAssumption, SMTT(30)
  <2>3. PICK w : /\ w = setViewHeight(setViewWidth(setViewTop(
                            setViewLeft(view, r[1]), r[2]), r[3]), r[4])
                 /\ SameImage(view, w)
    BY <1>1, <2>2, RegionSet, SMTT(30)
  <2>4. SameImage(view, view)
    BY <1>1 DEF SameImage
  <2> QED BY <1>2, <2>1, <2>3, <2>4
<1>4. CASE WID
  <2>1. PICK n \in SizeArgs : /\ view' = [view EXCEPT !.reqw = Word(n)]
                              /\ reply = None /\ UNCHANGED <<conf, image, reply>>
    BY <1>4, Zenon DEF WID
  <2>0. PICK m \in Unsigned : \E w : w = [view EXCEPT !.reqw = m] /\ m = Word(n)
    <3>1. n \in Int
      BY ArgsAssumption
    <3> QED BY <3>1, WordRange, Zenon
  <2>2. PICK w : w = [view EXCEPT !.reqw = m] /\ m = Word(n)
    BY <2>0, Zenon
  <2>3. SameImage(view, w)
    BY <1>1, <2>2 DEF SameImage, ViewSet
  <2> QED BY <1>2, <2>1, <2>2, <2>3
<1>5. CASE HEI
  <2>1. PICK n \in SizeArgs : /\ view' = [view EXCEPT !.reqh = Word(n)]
                              /\ reply = None /\ UNCHANGED <<conf, image, reply>>
    BY <1>5, Zenon DEF HEI
  <2>0. PICK m \in Unsigned : \E w : w = [view EXCEPT !.reqh = m] /\ m = Word(n)
    <3>1. n \in Int
      BY ArgsAssumption
    <3> QED BY <3>1, WordRange, Zenon
  <2>2. PICK w : w = [view EXCEPT !.reqh = m] /\ m = Word(n)
    BY <2>0, Zenon
  <2>3. SameImage(view, w)
    BY <1>1, <2>2 DEF SameImage, ViewSet
  <2> QED BY <1>2, <2>1, <2>2, <2>3
<1> QED BY <1>3, <1>4, <1>5

(* The invariant holds when the server starts. *)
LEMMA InvInit == Init => Inv
<1> SUFFICES ASSUME Init PROVE Inv
  OBVIOUS
<1>1. /\ conf \in [max : MaxSizes, up : BOOLEAN, version : Versions] /\ image \in Images
      /\ view = NewView(conf.max, conf.up) /\ reply = None
  BY DEF Init
<1>2. conf.max \in Int /\ conf.up \in BOOLEAN
  BY <1>1, ArgsAssumption, Zenon
<1>3. Viewed
  BY <1>1, <1>2, NewViewTyped, Zenon DEF Viewed
<1> QED BY <1>1, <1>3, Zenon DEF Inv, Replied

(* Every handler preserves the invariant. *)
LEMMA InvNext == Inv /\ [Next]_vars => Inv'
<1> SUFFICES ASSUME Inv, [Next]_vars PROVE Inv'
  OBVIOUS
<1>1. /\ conf \in [max : MaxSizes, up : BOOLEAN, version : Versions]
      /\ image \in Images /\ Viewed /\ Replied
  BY DEF Inv
<1>2. ASSUME UNCHANGED <<conf, image>>, Viewed', Replied' PROVE Inv'
  <2>1. conf' = conf /\ image' = image
    BY <1>2
  <2> QED BY <1>1, <1>2, <2>1, Zenon DEF Inv
<1>3. ASSUME UNCHANGED <<conf, image, view>> PROVE Viewed'
  <2>1. conf' = conf /\ image' = image /\ view' = view
    BY <1>3
  <2> QED BY <1>1, <2>1, Zenon DEF Viewed
<1>4. CASE NextRequest
  <2>1. /\ image' \in Images /\ view' = NewView(conf.max, conf.up)
        /\ reply' = None /\ conf' = conf
    BY <1>4 DEF NextRequest
  <2>2. conf.max \in Int /\ conf.up \in BOOLEAN
    BY <1>1, ArgsAssumption, Zenon
  <2>3. Viewed'
    BY <2>1, <2>2, NewViewTyped, Zenon DEF Viewed
  <2>4. Replied'
    BY <2>1, Zenon DEF Replied, None
  <2> QED BY <1>1, <2>1, <2>3, <2>4, Zenon DEF Inv
<1>5. CASE RGN \/ WID \/ HEI
  <2>1. Viewed' /\ reply' = None
    BY <1>5, ViewFilled
  <2>2. Replied'
    BY <2>1, Zenon DEF Replied, None
  <2>3. UNCHANGED <<conf, image>>
    BY <1>5 DEF RGN, WID, HEI
  <2> QED BY <1>2, <2>1, <2>2, <2>3
<1>6. CASE CVT
  <2>1. PICK p : /\ p = Prepared(view) /\ view' = p /\ reply' = Export(view)
                 /\ UNCHANGED <<conf, image>>
    BY <1>6, Zenon DEF CVT
  <2>2. PICK v \in ViewSet : v = view /\ v.max_size = conf.max
    BY <1>1 DEF Viewed
  <2>3. Viewed' /\ Replied'
    BY <1>1, <2>1, <2>2, ExportReplies
  <2> QED BY <1>2, <2>1, <2>3
<1>7. CASE IIIF
  <2>1. UNCHANGED <<conf, image>>
    BY <1>7, Zenon DEF IIIF
  <2> QED BY <1>2, <1>7, <2>1, IiifReplies
<1>8. CASE JTL \/ Zoomify \/ DeepZoom \/ TIL
  <2>1. UNCHANGED <<conf, image, view>>
    BY <1>8, Zenon DEF JTL, Zoomify, DeepZoom, TIL
  <2> QED BY <1>2, <1>3, <1>8, <2>1, TileReplies
<1>9. CASE PFL \/ SPECTRA
  <2>1. UNCHANGED <<conf, image, view>>
    BY <1>9, Zenon DEF PFL, SPECTRA
  <2> QED BY <1>1, <1>2, <1>3, <1>9, <2>1, PixelReplies
<1>10. CASE UNCHANGED vars
  <2>1. UNCHANGED <<conf, image, view>>
    BY <1>10 DEF vars
  <2> QED BY <1>1, <1>2, <1>3, <1>10, <2>1, RepliedKept
<1> QED BY <1>4, <1>5, <1>6, <1>7, <1>8, <1>9, <1>10 DEF Next

(* The invariant, in every behaviour. *)
THEOREM Invariant == Spec => []Inv
<1> QED BY InvInit, InvNext, PTL DEF Spec

(* The kind of a reply tells which handler gave it. *)
LEMMA Kinds ==
  /\ None.kind = "none" /\ Error.kind = "error"
  /\ RegionReply => reply.kind = "region"
  /\ IiifReply => reply.kind = "tile" /\ reply.by = "IIIF"
  /\ IiifTurnedReply => reply.kind = "tile" /\ reply.by = "IIIF half turn"
  /\ JtlReply => reply.kind = "tile" /\ reply.by = "JTL"
  /\ TurnedReply => reply.kind = "tile" /\ reply.by = "half turn"
  /\ ZoomifyReply => reply.kind = "tile" /\ reply.by = "Zoomify"
  /\ DeepZoomReply => reply.kind = "tile" /\ reply.by = "DeepZoom"
  /\ TilReply => reply.kind = "tiles"
  /\ ProfileReply => reply.kind = "profile"
  /\ PointReply => reply.kind = "point"
<1>1. None.kind = "none" /\ Error.kind = "error"
  BY SMTT(30) DEF None, Error
<1>2. /\ RegionReply => reply.kind = "region"
      /\ IiifReply => reply.kind = "tile" /\ reply.by = "IIIF"
  BY DEF RegionReply, IiifReply, Exported
<1>11. IiifTurnedReply => reply.kind = "tile" /\ reply.by = "IIIF half turn"
  <2>1. ASSUME IiifTurnedReply PROVE reply.kind = "tile" /\ reply.by = "IIIF half turn"
    <3>1. PICK a, b, c, d : reply = [kind |-> "tile", by |-> "IIIF half turn", res |-> a,
                                     tile |-> b, asked |-> c, rect |-> d]
      BY <2>1, Zenon DEF IiifTurnedReply
    <3> QED BY <3>1
  <2> QED BY <2>1
<1>3. \A by, res, tile, asked :
        reply = Served(by, res, tile, asked) => reply.kind = "tile" /\ reply.by = by
  BY DEF Served
<1>4. JtlReply => reply.kind = "tile" /\ reply.by = "JTL"
  <2>1. ASSUME JtlReply PROVE \E res, tile, asked : reply = Served("JTL", res, tile, asked)
    BY <2>1, Zenon DEF JtlReply
  <2> QED BY <1>3, <2>1, Zenon
<1>5. TurnedReply => reply.kind = "tile" /\ reply.by = "half turn"
  <2>1. ASSUME TurnedReply PROVE \E res, tile, asked : reply = Served("half turn", res, tile, asked)
    BY <2>1, Zenon DEF TurnedReply
  <2> QED BY <1>3, <2>1, Zenon
<1>6. ZoomifyReply => reply.kind = "tile" /\ reply.by = "Zoomify"
  <2>1. ASSUME ZoomifyReply PROVE \E res, tile, asked : reply = Served("Zoomify", res, tile, asked)
    BY <2>1, Zenon DEF ZoomifyReply
  <2> QED BY <1>3, <2>1, Zenon
<1>7. DeepZoomReply => reply.kind = "tile" /\ reply.by = "DeepZoom"
  <2>1. ASSUME DeepZoomReply PROVE \E res, tile, asked : reply = Served("DeepZoom", res, tile, asked)
    BY <2>1, Zenon DEF DeepZoomReply
  <2> QED BY <1>3, <2>1, Zenon
<1>8. TilReply => reply.kind = "tiles"
  BY DEF TilReply
<1>9. ProfileReply => reply.kind = "profile"
  BY DEF ProfileReply
<1>10. PointReply => reply.kind = "point"
  <2>1. ASSUME PointReply PROVE reply.kind = "point"
    <3>1. PICK a, b, c, d : reply = [kind |-> "point", res |-> a, tile |-> b, asked |-> c, index |-> d]
      BY <2>1, Zenon DEF PointReply
    <3> QED BY <3>1
  <2> QED BY <2>1
<1> QED BY <1>1, <1>2, <1>4, <1>5, <1>6, <1>7, <1>8, <1>9, <1>10, <1>11, ZenonT(30)

(* Type correctness: every member of the View stays in its range, through    *)
(* the setters, calculateResolution and getResolution.                       *)
THEOREM TypeCorrect == Spec => []TypeOK
<1>1. ASSUME Inv PROVE TypeOK
  <2>1. /\ conf \in [max : MaxSizes, up : BOOLEAN, version : Versions]
        /\ image \in Images /\ Viewed /\ Replied
    BY <1>1 DEF Inv
  <2>2. image.levels \in Nat /\ image.levels > 0
    BY <2>1, ImagesAssumption DEF Positive
  <2>3. /\ view.left \in Fraction /\ view.top \in Fraction
        /\ view.width \in Fraction /\ view.height \in Fraction
        /\ view.reqw \in Unsigned /\ view.reqh \in Unsigned
    BY <2>1 DEF Viewed, ViewSet
  <2>4. \A f \in Fraction : f[1] \in 0..f[2] /\ f[2] > 0
    BY DEF Fraction, Positive
  <2>5. {view.reqw, view.reqh} \subseteq 0..WordSize - 1
    BY <2>3 DEF Unsigned
  <2>6. /\ view.resolution \in 0..Max({view.max_resolutions - 1, 0})
        /\ view.max_resolutions \in {0, image.levels}
    <3>1. CASE view.max_resolutions = 0 /\ view.resolution = 0
      <4>1. Max({0 - 1, 0}) = 0
        BY MaxOfTwo
      <4> QED BY <3>1, <4>1
    <3>2. CASE Opened(view, image)
      <4>1. /\ view.max_resolutions = image.levels
            /\ view.resolution \in 0..(image.levels - 1)
        BY <3>2 DEF Opened
      <4>2. Max({image.levels - 1, 0}) = image.levels - 1
        BY <2>2, MaxOfTwo
      <4> QED BY <4>1, <4>2
    <3> QED BY <2>1, <3>1, <3>2 DEF Viewed
  <2>7. reply.kind \in {"none", "error", "region", "tile", "tiles", "profile", "point"}
    BY <2>1, Kinds, Zenon DEF Replied
  <2> QED BY <2>1, <2>3, <2>4, <2>5, <2>6, <2>7 DEF TypeOK
<1> QED BY <1>1, Invariant, PTL

(* The region of an export: numbers of pixels, and cut to the level when it  *)
(* starts inside the level.                                                  *)
LEMMA CvtRegionFits ==
  ASSUME image \in Images, NEW v, Opened(v, image), NEW r, r = CvtRegion(v)
  PROVE  /\ r.x \in Nat /\ r.y \in Nat /\ r.w \in Nat /\ r.h \in Nat
         /\ (r.x < WidthAt(image, v.resolution) /\ r.y < HeightAt(image, v.resolution))
              => Fits(image, v.resolution, r)
<1>1. PICK w \in Nat, h \in Nat :
        /\ w = WidthAt(image, v.resolution) /\ h = HeightAt(image, v.resolution)
        /\ w > 0 /\ h > 0 /\ w <= image.w /\ h <= image.h
  BY LevelSizes DEF Opened
<1>2. WordSize \in Nat /\ 2 * w < WordSize /\ 2 * h < WordSize
  <2>1. /\ image.w \in Nat /\ image.h \in Nat
        /\ 2 * image.w < WordSize /\ 2 * image.h < WordSize
    BY ImagesAssumption, SMTT(30) DEF Positive
  <2> QED BY <1>1, <2>1, WordSizeAssumption
<1>3. PICK x \in Nat, y \in Nat, dx \in Nat, dy \in Nat :
        /\ x = getViewLeft(v) /\ y = getViewTop(v)
        /\ dx = getViewWidth(v) /\ dy = getViewHeight(v)
        /\ dx > 0 /\ dx <= w + 1 /\ dy > 0 /\ dy <= h + 1
  BY <1>1, ViewGeometry, SMTT(30)
<1>4. CASE viewPortSet(v)
  <2>1. r = [x |-> x, y |-> y, w |-> Cut(x, dx, w), h |-> Cut(y, dy, h)]
    BY <1>1, <1>3, <1>4, Zenon DEF CvtRegion
  <2>2. PICK cw \in Nat, ch \in Nat : cw = Cut(x, dx, w) /\ ch = Cut(y, dy, h)
    BY CutTyped, Zenon
  <2>3. r.x = x /\ r.y = y /\ r.w = cw /\ r.h = ch
    BY <2>1, <2>2, SMTT(30)
  <2>4. x < w => cw > 0 /\ x + cw <= w
    BY <1>2, <1>3, <2>2, CutInside, SMTT(30)
  <2>5. y < h => ch > 0 /\ y + ch <= h
    BY <1>2, <1>3, <2>2, CutInside, SMTT(30)
  <2> QED BY <1>1, <2>3, <2>4, <2>5 DEF Fits
<1>5. CASE ~viewPortSet(v)
  <2>1. r = [x |-> 0, y |-> 0, w |-> w, h |-> h]
    BY <1>1, <1>5, Zenon DEF CvtRegion
  <2>2. r.x = 0 /\ r.y = 0 /\ r.w = w /\ r.h = h
    BY <2>1, SMTT(30)
  <2> QED BY <1>1, <2>2 DEF Fits
<1> QED BY <1>4, <1>5, SMTT(30)

(* What is known of the reply of an export. *)
LEMMA RegionReplyFields ==
  ASSUME RegionReply
  PROVE  /\ Opened(view, image) /\ reply.res = view.resolution
         /\ reply.rect = CvtRegion(view)
         /\ reply.blits = getRegion(image, reply.res, reply.rect)
         /\ reply.out = OutputSize(view, reply.rect)
  BY DEF RegionReply, Exported

(* The regions of an export and of a profile: CVT cuts a region to the level  *)
(* and TileManager::getRegion composes it from tiles that exist, without a    *)
(* gap, an overlap or a shift, for images and requests of every size.         *)
THEOREM RegionCorrect == Spec => []RegionServed
<1>1. ASSUME Inv, reply.kind = "region" PROVE RegionReply
  BY <1>1, Kinds DEF Inv, Replied
<1>2. ASSUME Inv, reply.kind = "profile" PROVE ProfileReply
  BY <1>2, Kinds, SMTT(30) DEF Inv, Replied
<1>3. ASSUME Inv PROVE CutFits
  <2>1. SUFFICES ASSUME reply.kind = "region",
                        reply.rect.x < WidthAt(image, reply.res),
                        reply.rect.y < HeightAt(image, reply.res)
                 PROVE  Fits(image, reply.res, reply.rect)
    BY DEF CutFits
  <2>2. Opened(view, image) /\ reply.res = view.resolution /\ reply.rect = CvtRegion(view)
    BY <1>1, <1>3, <2>1, RegionReplyFields
  <2>3. image \in Images
    BY <1>3 DEF Inv
  <2> QED BY <2>1, <2>2, <2>3, CvtRegionFits, SMTT(30)
<1>4. ASSUME Inv PROVE RegionExact
  <2>1. SUFFICES ASSUME reply.kind \in {"region", "profile"}, Fits(image, reply.res, reply.rect)
                 PROVE  /\ Covers(reply.blits.cols, reply.rect.x, reply.rect.w, image.tw)
                        /\ Covers(reply.blits.rows, reply.rect.y, reply.rect.h, image.th)
                        /\ Decodes(image, reply.res, reply.blits)
    BY SMTT(30) DEF RegionExact
  <2>2. image \in Images
    BY <1>4 DEF Inv
  <2>0. PICK res \in 0..(image.levels - 1) : \E r :
          /\ res = reply.res /\ r = reply.rect /\ reply.blits = getRegion(image, res, r)
          /\ r.x \in Nat /\ r.y \in Nat /\ r.w \in Nat /\ r.h \in Nat
    <3>1. CASE reply.kind = "region"
      <4>1. /\ Opened(view, image) /\ reply.res = view.resolution
            /\ reply.rect = CvtRegion(view)
            /\ reply.blits = getRegion(image, reply.res, reply.rect)
        BY <1>1, <1>4, <3>1, RegionReplyFields, SMTT(30)
      <4>2. view.resolution \in 0..(image.levels - 1)
        BY <4>1, SMTT(30) DEF Opened
      <4>3. PICK r : /\ r = reply.rect
                     /\ r.x \in Nat /\ r.y \in Nat /\ r.w \in Nat /\ r.h \in Nat
        BY <2>2, <4>1, CvtRegionFits
      <4> QED BY <4>1, <4>2, <4>3, Zenon
    <3>2. CASE reply.kind = "profile"
      <4>0. PICK res \in 0..(image.levels - 1), x1 \in Coords, y1 \in Coords,
                 x2 \in Coords, y2 \in Coords : \E r :
              /\ r = ProfileRect(x1, y1, x2, y2)
              /\ reply = [kind |-> "profile", res |-> res, rect |-> r,
                          blits |-> getRegion(image, res, r)]
        BY <1>2, <1>4, <3>2, Zenon DEF ProfileReply
      <4>1. PICK r :
              /\ r = ProfileRect(x1, y1, x2, y2)
              /\ reply = [kind |-> "profile", res |-> res, rect |-> r,
                          blits |-> getRegion(image, res, r)]
        BY <4>0, Zenon
      <4>2. x1 \in Nat /\ y1 \in Nat /\ x2 \in Nat /\ y2 \in Nat
        BY ArgsAssumption, SMTT(30)
      <4>3. r.x \in Nat /\ r.y \in Nat /\ r.w \in Nat /\ r.h \in Nat
        BY <4>1, <4>2, SMTT(30) DEF ProfileRect
      <4>4. reply.res = res /\ reply.rect = r /\ reply.blits = getRegion(image, res, r)
        BY <4>1
      <4> QED BY <4>3, <4>4, Zenon
    <3> QED BY <2>1, <3>1, <3>2
  <2>3. PICK r :
          /\ res = reply.res /\ r = reply.rect /\ reply.blits = getRegion(image, res, r)
          /\ r.x \in Nat /\ r.y \in Nat /\ r.w \in Nat /\ r.h \in Nat
    BY <2>0, Zenon
  <2>4. PICK blits : blits = reply.blits /\ blits = getRegion(image, res, r)
    BY <2>3, SMTT(30)
  <2>5. /\ Covers(blits.cols, r.x, r.w, image.tw)
        /\ Covers(blits.rows, r.y, r.h, image.th)
        /\ Decodes(image, res, blits)
    BY <2>1, <2>2, <2>3, <2>4, RegionComposed, SMTT(30)
  <2> QED BY <2>3, <2>4, <2>5, Zenon
<1>5. Inv => RegionServed
  BY <1>3, <1>4 DEF RegionServed
<1> QED BY <1>5, Invariant, PTL

(* The size of an export: CVT and IIIF keep it below MAX_CVT, below the image *)
(* when upscaling is off, and below what was asked for.                       *)
THEOREM SizeCorrect == Spec => []SizeBounded
<1>1. ASSUME Inv, reply.kind = "region" PROVE RegionReply
  BY <1>1, Kinds DEF Inv, Replied
<1>2. ASSUME Inv, reply.kind = "region"
      PROVE  SizeWithin(reply.out, view, image) /\ view.max_size = conf.max
  <2>1. image \in Images /\ view.max_size = conf.max
    BY <1>2 DEF Inv, Viewed
  <2>2. /\ Opened(view, image) /\ reply.rect = CvtRegion(view)
        /\ reply.out = OutputSize(view, reply.rect)
    BY <1>1, <1>2, RegionReplyFields, SMTT(30)
  <2>3. PICK r : r = reply.rect /\ r.w \in Nat /\ r.h \in Nat
    BY <2>1, <2>2, CvtRegionFits
  <2>4. PICK v : v = view
    OBVIOUS
  <2>5. PICK out : out = reply.out /\ out = OutputSize(v, r)
    BY <2>2, <2>3, <2>4, Zenon
  <2>6. SizeWithin(out, v, image)
    BY <2>1, <2>2, <2>3, <2>4, <2>5, OutputSizeBound, Zenon
  <2> QED BY <2>1, <2>4, <2>5, <2>6, Zenon
<1>3. ASSUME Inv PROVE OutputBounded
  BY <1>2, <1>3, SMTT(30) DEF OutputBounded, SizeWithin
<1>4. ASSUME Inv PROVE FitsRequest
  BY <1>2, <1>4 DEF FitsRequest, SizeWithin
<1>5. Inv => SizeBounded
  BY <1>3, <1>4 DEF SizeBounded
<1> QED BY <1>5, Invariant, PTL

-----------------------------------------------------------------------------
(* Tile numbers.                                                            *)

(* The decoder finds the tile of column a and row b under its number. *)
LEMMA TileAt ==
  ASSUME NEW img \in Images, NEW res \in 0..(img.levels - 1),
         NEW n \in Nat, n = Tiles(WidthAt(img, res), img.tw),
         NEW m \in Nat, m = Tiles(HeightAt(img, res), img.th),
         NEW a \in Nat, NEW b \in Nat, a < n, b < m,
         NEW t, t = b * n + a
  PROVE  /\ TileExists(img, res, t)
         /\ TileRect(img, res, t).x = a * img.tw /\ TileRect(img, res, t).y = b * img.th
<1>1. t < n * m /\ t % n = a /\ t \div n = b
  <2>1. AtNumber(t, n, m, a, b)
    BY Zenon DEF AtNumber
  <2> QED BY <2>1, TileNumber, Zenon
<1>2. TileExists(img, res, t)
  BY <1>1 DEF TileExists
<1>3. TileRect(img, res, t).x = (t % n) * img.tw /\ TileRect(img, res, t).y = (t \div n) * img.th
  BY DEF TileRect
<1> QED BY <1>1, <1>2, <1>3, Zenon

(* The number of levels of a DeepZoom pyramid. *)
LEMMA LogExists ==
  ASSUME NEW n \in Positive
  PROVE  CeilLog2(n) \in Nat
<1>1. n \in Nat /\ n > 0
  BY DEF Positive
<1> DEFINE P(k) == Pow2[k] >= n /\ (k = 0 \/ Pow2[k - 1] < n)
<1>2. \E k \in 0..n : P(k)
  <2>1. SUFFICES ASSUME \A k \in 0..n : ~P(k) PROVE FALSE
    OBVIOUS
  <2> DEFINE S == {k \in Nat : k <= n => Pow2[k] < n}
  <2>2. \A k \in Nat : Pow2[k] \in Nat
    BY PowPositive
  <2>3. 0 \in S
    <3>1. ~P(0)
      BY <1>1, <2>1
    <3>2. Pow2[0] \in Nat
      BY <2>2
    <3> QED BY <1>1, <3>1, <3>2
  <2>4. ASSUME NEW k \in Nat, k \in S PROVE k + 1 \in S
    <3>1. SUFFICES ASSUME k + 1 <= n PROVE Pow2[k + 1] < n
      OBVIOUS
    <3>2. Pow2[k] < n
      BY <1>1, <2>4, <3>1
    <3>3. ~P(k + 1)
      BY <1>1, <2>1, <3>1
    <3>4. (k + 1) - 1 = k /\ k + 1 # 0 /\ Pow2[k + 1] \in Nat
      BY <2>2
    <3> QED BY <1>1, <3>2, <3>3, <3>4
  <2> HIDE DEF S
  <2>5. Nat \subseteq S
    BY <2>3, <2>4, SetInduction
  <2>6. n \in S
    BY <1>1, <2>5
  <2>7. Pow2[n] < n
    BY <1>1, <2>6 DEF S
  <2> QED BY <1>1, <2>7, PowPositive
<1>3. CeilLog2(n) = CHOOSE k \in 0..n : P(k)
  BY DEF CeilLog2
<1> HIDE DEF P
<1>4. CeilLog2(n) \in 0..n
  BY <1>2, <1>3, SMTT(30)
<1> QED BY <1>1, <1>4

(* A DeepZoom level that the image has, in its own scale. *)
LEMMA DeepZoomLevel ==
  ASSUME image \in Images, NEW level \in 0..DziLevels
  PROVE  /\ DeepZoomResolution(level) \in 0..(image.levels - 1)
         /\ DziLevels - level < image.levels =>
              image.levels - DeepZoomResolution(level) - 1 = DziLevels - level
<1>1. PICK w \in Positive, h \in Positive, n \in Nat :
        w = image.w /\ h = image.h /\ n = image.levels /\ n > 0
  BY ImagesAssumption DEF Positive
<1>2. PICK d \in Nat : d = DziLevels
  <2>1. w \in Int /\ h \in Int
    BY DEF Positive
  <2>2. PICK m : m = Max({w, h}) /\ m \in Positive
    BY <2>1, MaxOfTwo
  <2> QED BY <1>1, <2>2, LogExists DEF DziLevels
<1>3. PICK l \in Nat : l = level /\ l <= d
  BY <1>2
<1>4. PICK a \in Int : a = l - (d - n) - 1
  OBVIOUS
<1>5. PICK b \in Int : b = Max({a, 0}) /\ b = IF a >= 0 THEN a ELSE 0
  BY MaxOfTwo
<1>6. Min({b, n - 1}) = IF b <= n - 1 THEN b ELSE n - 1
  BY MinOfTwo
<1>7. DeepZoomResolution(level) = Min({b, n - 1})
  BY <1>1, <1>2, <1>3, <1>4, <1>5, Zenon DEF DeepZoomResolution
<1>8. b >= 0 /\ (b = a \/ (b = 0 /\ a < 0))
  BY <1>5
<1>9. PICK g : g = DeepZoomResolution(level) /\ g = IF b <= n - 1 THEN b ELSE n - 1
  BY <1>6, <1>7, SMTT(30)
<1>10. g \in 0..(n - 1)
  BY <1>1, <1>8, <1>9, SMTT(30)
<1>11. ASSUME d - l < n PROVE n - g - 1 = d - l
  <2>1. a >= 0 /\ b = a /\ a <= n - 1
    BY <1>3, <1>4, <1>8, <1>11, SMTT(30)
  <2>2. g = a
    BY <1>9, <2>1
  <2> QED BY <1>4, <2>2
<1> QED BY <1>1, <1>2, <1>3, <1>9, <1>10, <1>11, SMTT(30)

(* Zoomify and DeepZoom address the tile of the column and row asked for. *)
LEMMA AddressedCorrect ==
  ASSUME Inv
  PROVE  AddressedTile
<1>1. SUFFICES ASSUME reply.kind = "tile", reply.by \in {"Zoomify", "DeepZoom"},
                      reply.asked[2] < Columns(reply.res),
                      reply.asked[3] < Tiles(HeightAt(image, reply.res), image.th)
               PROVE  /\ TileExists(image, reply.res, reply.tile)
                      /\ TileRect(image, reply.res, reply.tile).x = reply.asked[2] * image.tw
                      /\ TileRect(image, reply.res, reply.tile).y = reply.asked[3] * image.th
                      /\ (reply.by = "DeepZoom" /\ DziLevels - reply.asked[1] < image.levels) =>
                            WidthAt(image, reply.res) = Half(image.w, DziLevels - reply.asked[1])
  BY Zenon DEF AddressedTile
<1>2. image \in Images
  BY DEF Inv
<1>3. ZoomifyReply \/ DeepZoomReply
  BY <1>1, Kinds, Zenon DEF Inv, Replied
<1> DEFINE Numbered(by, res, l, x, y) ==
              reply = Served(by, res, y * Columns(res) + x, <<l, x, y>>)
<1>0. PICK res \in 0..(image.levels - 1), x \in Coords, y \in Coords : \E l, by :
        Numbered(by, res, l, x, y)
  <2>1. CASE ZoomifyReply
    <3>1. PICK r \in 0..(image.levels - 1), res \in 0..(image.levels - 1),
               x \in Coords, y \in Coords : Numbered("Zoomify", res, r, x, y)
      BY <2>1, Zenon DEF ZoomifyReply
    <3> HIDE DEF Numbered
    <3> QED BY <3>1, Zenon
  <2>2. CASE DeepZoomReply
    <3>0. PICK level \in 0..DziLevels, x \in Coords, y \in Coords : \E res :
            /\ res = DeepZoomResolution(level)
            /\ reply = Served("DeepZoom", res, y * Columns(res) + x, <<level, x, y>>)
      BY <2>2, Zenon DEF DeepZoomReply
    <3>1. PICK res :
            /\ res = DeepZoomResolution(level)
            /\ reply = Served("DeepZoom", res, y * Columns(res) + x, <<level, x, y>>)
      BY <3>0, Zenon
    <3>2. res \in 0..(image.levels - 1)
      BY <1>2, <3>1, DeepZoomLevel, SMTT(30)
    <3>3. Numbered("DeepZoom", res, level, x, y)
      BY <3>1
    <3> HIDE DEF Numbered
    <3> QED BY <3>2, <3>3, Zenon
  <2> QED BY <1>3, <2>1, <2>2, Zenon
<1>4. PICK l, by :
        Numbered(by, res, l, x, y)
  BY <1>0, Zenon
<1>5. PICK t : t = y * Columns(res) + x
  BY SMTT(30)
<1>6. /\ reply.by = by /\ reply.res = res /\ reply.tile = t
      /\ reply.asked[1] = l /\ reply.asked[2] = x /\ reply.asked[3] = y
  BY <1>4, <1>5, SMTT(30) DEF Served
<1>7. PICK n \in Nat, m \in Nat : /\ n = Tiles(WidthAt(image, res), image.tw)
                                 /\ m = Tiles(HeightAt(image, res), image.th)
  BY <1>2, Grid, SMTT(30)
<1>8. Columns(res) = n
  BY <1>7, SMTT(30) DEF Columns
<1>9. x < n /\ y < m /\ x \in Nat /\ y \in Nat
  BY <1>1, <1>6, <1>7, <1>8, ArgsAssumption, SMTT(30)
<1>10. t = y * n + x
  BY <1>5, <1>8, SMTT(30)
<1>11. /\ TileExists(image, res, t)
       /\ TileRect(image, res, t).x = x * image.tw /\ TileRect(image, res, t).y = y * image.th
  BY <1>2, <1>7, <1>9, <1>10, TileAt, SMTT(30)
<1>12. ASSUME reply.by = "DeepZoom", DziLevels - reply.asked[1] < image.levels
       PROVE  WidthAt(image, reply.res) = Half(image.w, DziLevels - reply.asked[1])
  <2>1. l \in 0..DziLevels /\ res = DeepZoomResolution(l) /\ DziLevels - l < image.levels
    <3>1. DeepZoomReply
      BY <1>3, <1>12, Kinds
    <3>0. PICK level \in 0..DziLevels : \E g, k, asked :
            /\ g = DeepZoomResolution(level) /\ asked[1] = level
            /\ reply = Served("DeepZoom", g, k, asked)
      <4>1. \A a, b, c : <<a, b, c>>[1] = a
        OBVIOUS
      <4> QED BY <3>1, <4>1, Zenon DEF DeepZoomReply
    <3>2. PICK g, k, asked :
            /\ g = DeepZoomResolution(level) /\ asked[1] = level
            /\ reply = Served("DeepZoom", g, k, asked)
      BY <3>0, Zenon
    <3>3. reply.res = g /\ reply.asked = asked
      BY <3>2 DEF Served
    <3> QED BY <1>6, <1>12, <3>2, <3>3, Zenon
  <2>2. image.levels - res - 1 = DziLevels - l
    BY <1>2, <2>1, DeepZoomLevel
  <2> QED BY <1>6, <2>2, Zenon DEF WidthAt
<1> QED BY <1>6, <1>11, <1>12, Zenon

\* Tiles s and t lie opposite each other.
Opposite(res, s, t) ==
  /\ TileRect(image, res, s).x + TileRect(image, res, t).x = (Columns(res) - 1) * image.tw
  /\ TileRect(image, res, s).y + TileRect(image, res, t).y
       = (Tiles(HeightAt(image, res), image.th) - 1) * image.th

(* JTL::send addresses the opposite tile in a half turn. *)
LEMMA TurnedOpposite ==
  ASSUME image \in Images, image.tw = image.th, NEW res \in 0..(image.levels - 1),
         NEW s \in Nat, TileExists(image, res, s), NEW t, t = Turned(res, s)
  PROVE  Opposite(res, s, t)
<1>2. image \in Images
  OBVIOUS
<1>6. PICK n \in Nat, m \in Nat, d \in Nat :
        /\ n = Tiles(WidthAt(image, res), image.tw) /\ n > 0
        /\ m = Tiles(HeightAt(image, res), image.th)
        /\ d = image.tw /\ d = image.th
  BY <1>2, Grid, Zenon
<1>7. Columns(res) = n /\ t = n * m - s - 1
  BY <1>6, Zenon DEF Columns, Turned
<1>8. s \in Nat /\ s < n * m
  BY <1>6, Zenon DEF TileExists
<1>9. PICK a \in Nat, b \in Nat : a < n /\ s = b * n + a
  <2>1. s \in Nat /\ n > 0
    BY <1>6, <1>8
  <2>2. s \div n \in Nat /\ s % n \in 0..(n - 1) /\ s = (s \div n) * n + (s % n)
    BY <2>1, Division
  <2>3. s % n \in Nat /\ s % n < n
    BY <2>2
  <2> QED BY <2>2, <2>3, Zenon
<1>10. b < m
  <2>1. b * n < m * n
    <3>1. b * n \in Nat /\ n * m \in Nat /\ n * m = m * n
      BY Multiple
    <3> QED BY <1>8, <1>9, <3>1
  <2> QED BY <2>1, Factor
<1>11. PICK c \in Nat, e \in Nat : c = n - 1 - a /\ e = m - 1 - b /\ c < n /\ e < m
  BY <1>9, <1>10
<1>12. t = e * n + c
  <2>1. (e + b + 1) * n = e * n + b * n + n
    OBVIOUS
  <2>2. m = e + b + 1 /\ n = a + c + 1
    BY <1>9, <1>10, <1>11
  <2>3. m * n = e * n + b * n + n
    BY <2>1, <2>2, Zenon
  <2>4. PICK p \in Int, q \in Int, r \in Int : p = e * n /\ q = b * n /\ r = m * n /\ r = n * m
    OBVIOUS
  <2>5. r = p + q + n /\ t = r - s - 1 /\ s = q + a
    BY <1>7, <1>9, <2>3, <2>4, Zenon
  <2>6. t = p + c
    BY <2>2, <2>5, SMTT(30)
  <2> QED BY <2>4, <2>6, Zenon
<1>13. TileRect(image, res, s).x = a * image.tw /\ TileRect(image, res, s).y = b * image.th
  <2>1. /\ n = Tiles(WidthAt(image, res), image.tw) /\ m = Tiles(HeightAt(image, res), image.th)
        /\ a < n /\ s = b * n + a
    BY <1>6, <1>9, Zenon
  <2> QED BY <1>2, <1>10, <2>1, TileAt
<1>14. TileRect(image, res, t).x = c * image.tw /\ TileRect(image, res, t).y = e * image.th
  <2>1. /\ n = Tiles(WidthAt(image, res), image.tw) /\ m = Tiles(HeightAt(image, res), image.th)
        /\ c < n /\ e < m
    BY <1>6, <1>11
  <2> QED BY <1>2, <1>12, <2>1, TileAt, SMTT(30)
<1>15. a * d + c * d = (n - 1) * d /\ b * d + e * d = (m - 1) * d
  <2>1. a + c = n - 1 /\ b + e = m - 1
    BY <1>11
  <2>2. a * d + c * d = (a + c) * d /\ b * d + e * d = (b + e) * d
    OBVIOUS
  <2> QED BY <2>1, <2>2, Zenon
<1> QED BY <1>6, <1>7, <1>13, <1>14, <1>15, Zenon DEF Opposite

(* A half turn of JTL, and of IIIF when it passes a region on as a tile. *)
LEMMA TurnedCorrect ==
  ASSUME Inv
  PROVE  HalfTurn
<1>1. SUFFICES ASSUME reply.kind = "tile", reply.by \in {"half turn", "IIIF half turn"},
                      image.tw = image.th, TileExists(image, reply.res, reply.asked[1])
               PROVE  Opposite(reply.res, reply.asked[1], reply.tile)
  BY Zenon DEF HalfTurn, Opposite
<1>2. image \in Images
  BY DEF Inv
<1>3. TurnedReply \/ IiifTurnedReply
  BY <1>1, Kinds, Zenon DEF Inv, Replied
<1>4. PICK res \in 0..(image.levels - 1), s \in Nat :
        reply.res = res /\ reply.tile = Turned(res, s) /\ reply.asked[1] = s
  <2>1. CASE TurnedReply
    <3>0. PICK res \in 0..(image.levels - 1), s \in Coords : \E t :
            t = Turned(res, s) /\ reply = Served("half turn", res, t, <<s>>)
      BY <2>1, Zenon DEF TurnedReply
    <3>1. PICK t :
            t = Turned(res, s) /\ reply = Served("half turn", res, t, <<s>>)
      BY <3>0, Zenon
    <3>2. reply.res = res /\ reply.tile = t /\ reply.asked[1] = s
      BY <3>1, ZenonT(30) DEF Served
    <3>3. s \in Nat
      BY ArgsAssumption
    <3> QED BY <3>1, <3>2, <3>3, Zenon
  <2>2. CASE IiifTurnedReply
    <3>0. PICK s \in Nat : s = CornerTile(view)
      BY <2>2, Zenon DEF IiifTurnedReply
    <3>1. PICK t, rect :
            /\ t = Turned(view.resolution, s)
            /\ reply = [kind |-> "tile", by |-> "IIIF half turn", res |-> view.resolution,
                        tile |-> t, asked |-> <<s>>, rect |-> rect]
      BY <2>2, <3>0, Zenon DEF IiifTurnedReply
    <3>2. reply.res = view.resolution /\ reply.tile = t /\ reply.asked[1] = s
      BY <3>1
    <3>3. view.resolution \in 0..(image.levels - 1)
      BY <2>2 DEF IiifTurnedReply, Opened
    <3> QED BY <3>1, <3>2, <3>3, Zenon
  <2> QED BY <1>3, <2>1, <2>2
<1> QED BY <1>1, <1>2, <1>4, TurnedOpposite, Zenon

(* A pixel on the boundary of a tile inside the level is the start of a tile. *)
LEMMA Aligned ==
  ASSUME NEW size \in Nat, NEW tile \in Nat, tile > 0, NEW x \in Nat, x < size, x % tile = 0
  PROVE  /\ x \div tile \in Nat /\ x \div tile < Tiles(size, tile)
         /\ x = (x \div tile) * tile
<1>1. PICK i \in Nat : i = x \div tile /\ x = i * tile
  BY Division
<1>2. CASE i * tile + tile <= size
  BY <1>1, <1>2, FullTile
<1>3. CASE size < i * tile + tile
  BY <1>1, <1>3, CutTile, Zenon
<1>4. i * tile \in Nat
  BY Multiple
<1> QED BY <1>1, <1>2, <1>3, <1>4

(* A view that is more than one pixel large and a multiple of the tile size  *)
(* starts inside the level.                                                  *)
LEMMA StartInside ==
  ASSUME NEW x \in Nat, NEW e \in Nat, e > 0, NEW w \in Nat, NEW tile \in Nat, tile > 1,
         e % tile = 0, e > 1 => x + e <= w + 1
  PROVE  x < w
<1>1. e # 1
  <2>1. SUFFICES ASSUME e = 1 PROVE FALSE
    OBVIOUS
  <2>2. 1 % tile = 1
    <3>1. 0 * tile <= 1 /\ 1 < 0 * tile + tile
      OBVIOUS
    <3>2. 1 % tile = 1 - 0 * tile
      BY <3>1, Quotient
    <3> QED BY <3>2
  <2> QED BY <2>1, <2>2
<1> QED BY <1>1

(* IIIF passes a region on as the tile that begins where the region begins. *)
LEMMA CornerCorrect ==
  ASSUME Inv
  PROVE  IiifTile
<1>1. SUFFICES ASSUME reply.kind = "tile", reply.by = "IIIF", reply.res > 0
               PROVE  /\ TileExists(image, reply.res, reply.tile)
                      /\ TileRect(image, reply.res, reply.tile).x = reply.rect.x
                      /\ TileRect(image, reply.res, reply.tile).y = reply.rect.y
  BY Zenon DEF IiifTile
<1>2. image \in Images
  BY DEF Inv
<1>3. IiifReply
  BY <1>1, Kinds DEF Inv, Replied
<1>4. /\ Opened(view, image) /\ IsTile(view, view_left(view), view_top(view))
      /\ reply.res = view.resolution /\ reply.tile = CornerTile(view)
      /\ reply.rect = CvtRegion(view)
  BY <1>3, SMTT(30) DEF IiifReply
<1>5. PICK res \in 0..(image.levels - 1) : res = view.resolution
  BY <1>4 DEF Opened
<1>6. PICK w \in Nat, h \in Nat : /\ w = WidthAt(image, res) /\ w > 0
                                  /\ h = HeightAt(image, res) /\ h > 0
  BY <1>2, LevelSizes
<1>7. PICK tw \in Nat, th \in Nat : /\ tw = image.tw /\ tw > 1 /\ tw > 0
                                    /\ th = image.th /\ th > 1 /\ th > 0
  BY <1>2, Grid
<1>8. PICK x \in Nat, y \in Nat, dx \in Nat, dy \in Nat :
        /\ x = getViewLeft(view) /\ y = getViewTop(view)
        /\ dx = getViewWidth(view) /\ dy = getViewHeight(view)
        /\ dx > 0 /\ dy > 0
        /\ dx > 1 => x + dx <= w + 1
        /\ dy > 1 => y + dy <= h + 1
  BY <1>2, <1>4, <1>5, <1>6, ViewGeometry, ZenonT(30)
<1>9. /\ view_left(view) % tw = 0 /\ view_top(view) % th = 0
      /\ dx % tw = 0 /\ dy % th = 0
  <2>1. view.resolution > 0 /\ ~(view.resolution = 0)
    BY <1>1, <1>4, <1>5
  <2> QED BY <1>4, <1>7, <1>8, <2>1, Zenon DEF IsTile
<1>10. PICK left \in Nat, top \in Nat :
         /\ left = view_left(view) /\ left < w /\ left = reply.rect.x
         /\ top = view_top(view) /\ top < h /\ top = reply.rect.y
  <2>1. x < w /\ y < h
    <3>1. x < w
      BY <1>7, <1>8, <1>9, StartInside
    <3>2. y < h
      BY <1>7, <1>8, <1>9, StartInside, ZenonT(30)
    <3> QED BY <3>1, <3>2
  <2>2. CASE viewPortSet(view)
    <3>1. view_left(view) = x /\ view_top(view) = y
      BY <1>8, <2>2, Zenon DEF view_left, view_top
    <3>2. CvtRegion(view).x = getViewLeft(view) /\ CvtRegion(view).y = getViewTop(view)
      BY <2>2, ZenonT(30) DEF CvtRegion
    <3>3. reply.rect.x = x /\ reply.rect.y = y
      BY <1>4, <1>8, <3>2, ZenonT(30)
    <3> QED BY <2>1, <3>1, <3>3
  <2>3. CASE ~viewPortSet(view)
    <3>1. view_left(view) = 0 /\ view_top(view) = 0
      BY <2>3, Zenon DEF view_left, view_top
    <3>2. CvtRegion(view).x = 0 /\ CvtRegion(view).y = 0
      BY <2>3, ZenonT(30) DEF CvtRegion
    <3>3. reply.rect.x = 0 /\ reply.rect.y = 0
      BY <1>4, <3>2, ZenonT(30)
    <3> QED BY <1>6, <3>1, <3>3
  <2> QED BY <2>2, <2>3
<1>11. PICK n \in Nat, m \in Nat : /\ n = Tiles(WidthAt(image, res), image.tw)
                                  /\ m = Tiles(HeightAt(image, res), image.th)
  BY <1>2, Grid
<1>12. PICK i \in Nat, j \in Nat : /\ i = left \div tw /\ i < n /\ left = i * tw
                                   /\ j = top \div th /\ j < m /\ top = j * th
  <2>1. left % tw = 0 /\ top % th = 0
    BY <1>9, <1>10, Zenon
  <2>2. n = Tiles(w, tw) /\ m = Tiles(h, th)
    BY <1>6, <1>7, <1>11, Zenon
  <2>3. left \div tw \in Nat /\ left \div tw < Tiles(w, tw) /\ left = (left \div tw) * tw
    BY <1>7, <1>10, <2>1, Aligned, SMTT(30)
  <2>4. top \div th \in Nat /\ top \div th < Tiles(h, th) /\ top = (top \div th) * th
    BY <1>7, <1>10, <2>1, Aligned, ZenonT(30)
  <2> QED BY <2>2, <2>3, <2>4, Zenon
<1>13. PICK t : t = reply.tile /\ t = j * n + i
  BY <1>4, <1>5, <1>7, <1>10, <1>11, <1>12, Zenon DEF CornerTile
<1>14. i < n /\ j < m
  BY <1>12, SMTT(30)
<1>15. /\ TileExists(image, res, t)
       /\ TileRect(image, res, t).x = i * image.tw /\ TileRect(image, res, t).y = j * image.th
  BY <1>2, <1>11, <1>13, <1>14, TileAt, SMTT(30)
<1> QED BY <1>4, <1>5, <1>7, <1>10, <1>12, <1>13, <1>15, Zenon

(* SPECTRA reads the pixel asked for. *)
LEMMA PointCorrect ==
  ASSUME Inv
  PROVE  SpectraPoint
<1>1. SUFFICES ASSUME reply.kind = "point", reply.index # {},
                      \/ TileRect(image, reply.res, reply.tile).w = image.tw
                      \/ reply.asked[2] = 0
               PROVE  LET t == TileRect(image, reply.res, reply.tile)
                          i == CHOOSE k \in reply.index : TRUE
                      IN  /\ i < t.w * t.h
                          /\ i % t.w = reply.asked[1] /\ i \div t.w = reply.asked[2]
  BY Zenon DEF SpectraPoint
<1>2. image \in Images
  BY DEF Inv
<1>3. PointReply
  BY <1>1, Kinds DEF Inv, Replied
<1>0. PICK res \in 0..(image.levels - 1), tile \in Coords, x \in Coords, y \in Coords : \E t, asked, index :
        /\ t = TileRect(image, res, tile) /\ asked = <<x, y>>
        /\ index = IF x >= t.w \/ y >= t.h THEN {} ELSE {SpectraIndex(x, y)}
        /\ reply = [kind |-> "point", res |-> res, tile |-> tile, asked |-> asked, index |-> index]
  BY <1>3, Zenon DEF PointReply
<1>4. PICK t, asked, index :
        /\ t = TileRect(image, res, tile) /\ asked = <<x, y>>
        /\ index = IF x >= t.w \/ y >= t.h THEN {} ELSE {SpectraIndex(x, y)}
        /\ reply = [kind |-> "point", res |-> res, tile |-> tile, asked |-> asked, index |-> index]
  BY <1>0, Zenon
<1>5. /\ reply.res = res /\ reply.tile = tile /\ reply.asked = asked /\ reply.index = index
      /\ asked[1] = x /\ asked[2] = y
  BY <1>4
<1>6. ~(x >= t.w) /\ ~(y >= t.h) /\ reply.index = {SpectraIndex(x, y)}
  BY <1>1, <1>4, <1>5, Zenon
<1>7. PICK i : i = SpectraIndex(x, y) /\ i = CHOOSE k \in reply.index : TRUE
  <2>1. PICK i : i = SpectraIndex(x, y)
    OBVIOUS
  <2>2. (CHOOSE k \in {i} : TRUE) = i
    OBVIOUS
  <2> QED BY <1>6, <2>1, <2>2, Zenon
<1>8. PICK n \in Nat, m \in Nat : n = t.w /\ (n = image.tw \/ y = 0) /\ m = t.h
  <2>1. image.tw \in Nat /\ image.tw > 0 /\ image.th \in Nat /\ image.th > 0
    BY <1>2, Grid, SMTT(30)
  <2>2. PICK w \in Nat, h \in Nat : w = WidthAt(image, res) /\ h = HeightAt(image, res)
    BY <1>2, LevelSizes
  <2>3. \A k : TileExtent(h, image.th, k) \in 1..image.th
    BY <2>1, ExtentTyped, SMTT(30)
  <2>4. PICK k : t.h = TileExtent(h, image.th, k)
    BY <1>4, <2>2, SMTT(30) DEF TileRect
  <2>5. t.h \in Nat
    BY <2>1, <2>3, <2>4, SMTT(30)
  <2>6. \A l : TileExtent(w, image.tw, l) \in 1..image.tw
    BY <2>1, ExtentTyped, SMTT(30)
  <2>7. PICK l : t.w = TileExtent(w, image.tw, l)
    BY <1>4, <2>2, SMTT(30) DEF TileRect
  <2>8. t.w \in Nat
    BY <2>1, <2>6, <2>7, SMTT(30)
  <2> QED BY <1>1, <1>4, <1>5, <2>5, <2>8, Zenon
<1>9. x \in Nat /\ y \in Nat
  BY ArgsAssumption
<1>10. x < n /\ y < m
  BY <1>6, <1>8, <1>9
<1>11. i = y * n + x
  <2>1. CASE n = image.tw
    BY <1>7, <2>1, Zenon DEF SpectraIndex
  <2>2. CASE y = 0
    <3>1. image.tw \in Nat
      BY <1>2, Grid, SMTT(30)
    <3>2. 0 * image.tw = 0 /\ 0 * n = 0
      BY <3>1
    <3> QED BY <1>7, <2>2, <3>2, Zenon DEF SpectraIndex
  <2> QED BY <1>8, <2>1, <2>2
<1>12. i < n * m /\ i % n = x /\ i \div n = y
  <2>1. AtNumber(i, n, m, x, y)
    BY <1>10, <1>11, Zenon DEF AtNumber
  <2> QED BY <1>9, <2>1, TileNumber, Zenon
<1> QED BY <1>4, <1>5, <1>7, <1>8, <1>12, Zenon

\* The tiles of a rectangle of columns a..c and rows b..d in a grid of n columns,
\* column by column.
Block(n, a, c, b, d) ==
  [k \in 1..((c - a + 1) * (d - b + 1)) |->
      a + ((k - 1) \div (d - b + 1)) + (b + ((k - 1) % (d - b + 1))) * n]

(* Each position of the rectangle is a column and a row of it. *)
LEMMA BlockTile ==
  ASSUME NEW n \in Nat, NEW a \in Nat, NEW c \in Nat, NEW b \in Nat, NEW d \in Nat,
         a <= c, c < n, b <= d, NEW k \in 1..((c - a + 1) * (d - b + 1)),
         NEW t, t = Block(n, a, c, b, d)[k]
  PROVE  /\ t \in Nat
         /\ t % n = a + ((k - 1) \div (d - b + 1)) /\ t % n \in a..c
         /\ t \div n = b + ((k - 1) % (d - b + 1)) /\ t \div n \in b..d
<1>1. PICK r \in Nat, w \in Nat : r = d - b + 1 /\ w = c - a + 1 /\ r > 0
  OBVIOUS
<1>2. PICK p \in Nat : p = k - 1 /\ p < w * r
  BY <1>1
<1>3. PICK i \in Nat, j \in Nat : i = p \div r /\ j = p % r /\ j < r /\ p = i * r + j
  <2>1. p \div r \in Nat /\ p % r \in 0..(r - 1) /\ p = (p \div r) * r + (p % r)
    BY <1>1, Division, SMTT(30)
  <2>2. p % r \in Nat /\ p % r < r
    BY <1>1, <2>1
  <2> QED BY <2>1, <2>2, Zenon
<1>4. i < w
  <2>1. i * r < w * r
    <3>1. i * r \in Nat /\ w * r \in Nat
      BY Multiple
    <3> QED BY <1>2, <1>3, <3>1, SMTT(30)
  <2>2. i + 1 <= w
    BY <2>1, Factor, SMTT(30)
  <2> QED BY <2>2
<1>5. PICK x \in Nat, y \in Nat : /\ x = a + i /\ x < n /\ x \in a..c
                                  /\ y = b + j /\ y < d + 1 /\ y \in b..d
  BY <1>1, <1>3, <1>4, SMTT(30)
<1>6. t = y * n + x
  <2>1. t = a + (p \div r) + (b + (p % r)) * n
    BY <1>1, <1>2, Zenon DEF Block
  <2>2. t = x + y * n
    BY <1>3, <1>5, <2>1, Zenon
  <2>3. PICK z \in Int : z = y * n
    BY SMTT(30)
  <2> QED BY <2>2, <2>3
<1>7. y * n + x \in Nat /\ (y * n + x) % n = x /\ (y * n + x) \div n = y
  <2>1. d + 1 \in Nat /\ x < n /\ y < d + 1
    BY <1>5
  <2> QED BY <2>1, GridIndex, SMTT(30)
<1>8. t \in Nat /\ t % n = x /\ t \div n = y
  BY <1>6, <1>7, Zenon
<1> QED BY <1>1, <1>2, <1>3, <1>5, <1>8, Zenon

\* A position of a rectangle holds the tile t.
Sent(t, n, a, c, b, d) ==
  \E k \in 1..((c - a + 1) * (d - b + 1)) : Block(n, a, c, b, d)[k] = t

(* Each column and row of the rectangle has its position. *)
LEMMA BlockIndex ==
  ASSUME NEW n \in Nat, NEW a \in Nat, NEW c \in Nat, NEW b \in Nat, NEW d \in Nat,
         a <= c, c < n, b <= d,
         NEW t \in Nat, t % n \in a..c, t \div n \in b..d
  PROVE  Sent(t, n, a, c, b, d)
<1>1. PICK r \in Nat, w \in Nat : r = d - b + 1 /\ w = c - a + 1 /\ r > 0 /\ n > 0
  OBVIOUS
<1>2. PICK x \in Nat, y \in Nat : x = t % n /\ y = t \div n /\ t = y * n + x
  BY <1>1, Division
<1>3. PICK i \in Nat, j \in Nat : x = a + i /\ i < w /\ y = b + j /\ j < r
  <2>1. x \in a..c /\ y \in b..d
    BY <1>2, SMTT(30)
  <2>2. x - a \in Nat /\ x - a < w /\ y - b \in Nat /\ y - b < r
    BY <1>1, <2>1
  <2>3. x = a + (x - a) /\ y = b + (y - b)
    BY <2>1
  <2> QED BY <2>2, <2>3, Zenon
<1>4. PICK p \in Nat : p = i * r + j /\ p < w * r /\ p % r = j /\ p \div r = i
  <2>1. /\ i * r + j \in Nat /\ i * r + j < r * w
        /\ (i * r + j) % r = j /\ (i * r + j) \div r = i
    BY <1>3, GridIndex
  <2>2. r * w = w * r
    OBVIOUS
  <2> QED BY <2>1, <2>2, Zenon
<1>5. PICK k \in Nat : k = p + 1 /\ k - 1 = p /\ k \in 1..(w * r)
  <2>1. PICK z \in Nat : z = w * r /\ p < z
    BY <1>4, Multiple, SMTT(30)
  <2>2. p + 1 \in Nat /\ (p + 1) - 1 = p /\ p + 1 \in 1..z
    BY <2>1
  <2> QED BY <2>1, <2>2, Zenon
<1>6. k \in 1..((c - a + 1) * (d - b + 1))
  BY <1>1, <1>5, Zenon
<1>7. Block(n, a, c, b, d)[k] = a + (p \div r) + (b + (p % r)) * n
  BY <1>1, <1>5, <1>6, Zenon DEF Block
<1>8. Block(n, a, c, b, d)[k] = x + y * n
  BY <1>3, <1>4, <1>7, Zenon
<1>9. x + y * n = t
  <2>1. PICK z \in Int : z = y * n
    OBVIOUS
  <2> QED BY <1>2, <2>1
<1> QED BY <1>6, <1>8, <1>9, Zenon DEF Sent

(* No tile of the rectangle comes twice. *)
LEMMA BlockInjective ==
  ASSUME NEW n \in Nat, NEW a \in Nat, NEW c \in Nat, NEW b \in Nat, NEW d \in Nat,
         a <= c, c < n, b <= d
  PROVE  IsInjective(Block(n, a, c, b, d))
<1> DEFINE D == 1..((c - a + 1) * (d - b + 1))
<1>1. DOMAIN Block(n, a, c, b, d) = D
  BY DEF Block
<1>2. ASSUME NEW k \in D, NEW t, t = Block(n, a, c, b, d)[k]
      PROVE  t % n = a + ((k - 1) \div (d - b + 1)) /\ t \div n = b + ((k - 1) % (d - b + 1))
  BY <1>2, BlockTile, SMTT(30)
<1>3. ASSUME NEW k \in D, NEW l \in D,
             Block(n, a, c, b, d)[k] = Block(n, a, c, b, d)[l]
      PROVE  k = l
  <2>1. PICK t : t = Block(n, a, c, b, d)[k] /\ t = Block(n, a, c, b, d)[l]
    BY <1>3
  <2>2. PICK r \in Nat, p \in Nat, q \in Nat : r = d - b + 1 /\ r > 0 /\ p = k - 1 /\ q = l - 1
    OBVIOUS
  <2>3. t % n = a + (p \div r) /\ t \div n = b + (p % r)
    <3>1. t % n = a + ((k - 1) \div (d - b + 1)) /\ t \div n = b + ((k - 1) % (d - b + 1))
      BY <1>2, <2>1, Zenon
    <3> QED BY <2>2, <3>1, Zenon
  <2>4. t % n = a + (q \div r) /\ t \div n = b + (q % r)
    <3>1. t % n = a + ((l - 1) \div (d - b + 1)) /\ t \div n = b + ((l - 1) % (d - b + 1))
      BY <1>2, <2>1, Zenon
    <3> QED BY <2>2, <3>1, Zenon
  <2>5. PICK i \in Nat, j \in Nat, e \in Nat, f \in Nat :
          /\ i = p \div r /\ j = p % r /\ p = i * r + j
          /\ e = q \div r /\ f = q % r /\ q = e * r + f
    <3>1. p \div r \in Nat /\ p % r \in Nat /\ p = (p \div r) * r + (p % r)
      BY <2>2, Division
    <3>2. q \div r \in Nat /\ q % r \in Nat /\ q = (q \div r) * r + (q % r)
      BY <2>2, Division
    <3> QED BY <3>1, <3>2, Zenon
  <2>6. i = e /\ j = f
    <3>1. a + i = a + e /\ b + j = b + f
      BY <2>3, <2>4, <2>5, Zenon
    <3> QED BY <3>1
  <2>7. p = q
    BY <2>5, <2>6, Zenon
  <2> QED BY <2>2, <2>7, SMTT(30)
<1> QED BY <1>1, <1>3, Zenon DEF IsInjective

\* The rectangle between the tiles s and e in a grid of n columns.
Spanned(tiles, s, e, n) ==
  \E a \in Nat, c \in Nat, b \in Nat, d \in Nat :
      /\ a <= c /\ c < n /\ b <= d
      /\ tiles = Block(n, a, c, b, d)
      /\ b = s \div n /\ d = e \div n
      /\ \/ a = s % n /\ c = e % n
         \/ a = e % n /\ c = s % n

(* TIL sends the tiles of a rectangle. *)
LEMMA RectangleBlock ==
  ASSUME image \in Images, NEW res \in 0..(image.levels - 1), NEW s \in Nat, NEW e \in Nat, s <= e,
         NEW n \in Nat, n = Columns(res), n > 0
  PROVE  Spanned(Rectangle(res, s, e), s, e, n)
<1>1. PICK p \in Nat, q \in Nat, b \in Nat, d \in Nat :
        /\ p = s % n /\ p < n /\ b = s \div n /\ s = b * n + p
        /\ q = e % n /\ q < n /\ d = e \div n /\ e = d * n + q
  <2>1. s \div n \in Nat /\ s % n \in 0..(n - 1) /\ s = (s \div n) * n + (s % n)
    BY Division, Zenon
  <2>2. e \div n \in Nat /\ e % n \in 0..(n - 1) /\ e = (e \div n) * n + (e % n)
    BY Division, Zenon
  <2>3. \A z \in 0..(n - 1) : z \in Nat /\ z < n
    OBVIOUS
  <2> QED BY <2>1, <2>2, <2>3, Zenon
<1>2. b <= d
  <2>1. b * n < (d + 1) * n
    <3>1. b * n \in Nat /\ d * n \in Nat /\ (d + 1) * n = d * n + n
      BY Multiple
    <3> QED BY <1>1, <3>1
  <2>2. d + 1 \in Nat
    OBVIOUS
  <2>3. b + 1 <= d + 1
    BY <2>1, <2>2, Factor, SMTT(30)
  <2> QED BY <2>3
<1>3. PICK a \in Nat, c \in Nat : /\ a = Min({p, q}) /\ c = Max({p, q}) /\ a <= c /\ c < n
                                  /\ (a = p /\ c = q) \/ (a = q /\ c = p)
  <2>1. p < n /\ q < n
    BY <1>1
  <2>2. Min({p, q}) = (IF p <= q THEN p ELSE q) /\ Max({p, q}) = (IF p >= q THEN p ELSE q)
    BY MinOfTwo, MaxOfTwo
  <2>3. CASE p <= q
    <3>1. Min({p, q}) = p /\ Max({p, q}) = q
      BY <2>2, <2>3
    <3> QED BY <2>1, <2>3, <3>1, Zenon
  <2>4. CASE q < p
    <3>1. Min({p, q}) = q /\ Max({p, q}) = p /\ q <= p
      BY <2>2, <2>4
    <3> QED BY <2>1, <3>1, Zenon
  <2> QED BY <2>3, <2>4
<1>4. Rectangle(res, s, e) = Block(n, a, c, b, d)
  <2>1. Rectangle(res, s, e) =
          [k \in 1..((c - a + 1) * (d - b + 1)) |->
              a + ((k - 1) \div (d - b + 1)) + (b + ((k - 1) % (d - b + 1))) * n]
    BY <1>1, <1>3, Zenon DEF Rectangle
  <2> QED BY <2>1, Zenon DEF Block
<1>5. \/ a = s % n /\ c = e % n
      \/ a = e % n /\ c = s % n
  BY <1>1, <1>3, Zenon
<1>6. b = s \div n /\ d = e \div n
  BY <1>1
<1> QED BY <1>2, <1>3, <1>4, <1>5, <1>6, Zenon DEF Spanned

(* TIL sends exactly the tiles of the rectangle spanned by its two tiles. *)
LEMMA RectangleCorrect ==
  ASSUME Inv
  PROVE  TilRectangle
<1> DEFINE Between(a, b, c) == (a <= c /\ c <= b) \/ (b <= c /\ c <= a)
<1>1. SUFFICES ASSUME reply.kind = "tiles"
               PROVE  LET n == Columns(reply.res)
                          s == reply.asked[1]
                          e == reply.asked[2]
                      IN  /\ IsInjective(reply.tiles)
                          /\ \A t \in 0..Max({s, e}) + n :
                                t \in Range(reply.tiles) <=>
                                    /\ Between(s % n, e % n, t % n)
                                    /\ Between(s \div n, e \div n, t \div n)
  BY Zenon DEF TilRectangle
<1>2. image \in Images
  BY DEF Inv
<1>3. TilReply
  BY <1>1, Kinds DEF Inv, Replied
<1>0. PICK res \in 0..(image.levels - 1), s \in Coords, last \in Coords : \E e, tiles, asked :
        /\ e = Max({s, last}) /\ tiles = Rectangle(res, s, e) /\ asked = <<s, e>>
        /\ reply = [kind |-> "tiles", res |-> res, tiles |-> tiles, asked |-> asked]
  BY <1>3, Zenon DEF TilReply
<1>4. PICK e, tiles, asked :
        /\ e = Max({s, last}) /\ tiles = Rectangle(res, s, e) /\ asked = <<s, e>>
        /\ reply = [kind |-> "tiles", res |-> res, tiles |-> tiles, asked |-> asked]
  BY <1>0, Zenon
<1>5. /\ reply.res = res /\ reply.tiles = tiles /\ reply.asked = asked
      /\ asked[1] = s /\ asked[2] = e
  BY <1>4, SMTT(30)
<1>6. s \in Nat /\ e \in Nat /\ s <= e
  <2>1. s \in Nat /\ last \in Nat
    BY ArgsAssumption, SMTT(30)
  <2> QED BY <1>4, <2>1, MaxOfTwo, SMTT(30)
<1>7. PICK n \in Nat : n = Columns(res) /\ n > 0
  BY <1>2, Grid DEF Columns
<1>8. PICK a \in Nat, c \in Nat, b \in Nat, d \in Nat :
        /\ a <= c /\ c < n /\ b <= d
        /\ tiles = Block(n, a, c, b, d)
        /\ b = s \div n /\ d = e \div n
        /\ \/ a = s % n /\ c = e % n
           \/ a = e % n /\ c = s % n
  <2>1. Spanned(Rectangle(res, s, e), s, e, n)
    BY <1>2, <1>6, <1>7, RectangleBlock
  <2> QED BY <1>4, <2>1, Zenon DEF Spanned
<1>9. IsInjective(tiles)
  <2>1. a <= c /\ c < n /\ b <= d
    BY <1>8
  <2>2. IsInjective(Block(n, a, c, b, d))
    BY <2>1, BlockInjective
  <2> QED BY <1>8, <2>2, Zenon
<1>10. Max({s, e}) = e
  BY <1>6, MaxOfTwo
<1>11. ASSUME NEW t \in 0..e + n
       PROVE  t \in Range(tiles) <=>
                Between(s % n, e % n, t % n) /\ Between(s \div n, e \div n, t \div n)
  <2>1. t \in Nat
    BY <1>6
  <2>2. PICK x \in Nat, y \in Nat : x = t % n /\ y = t \div n
    BY <1>7, <2>1, Division
  <2>3. (Between(s % n, e % n, t % n) /\ Between(s \div n, e \div n, t \div n))
          <=> x \in a..c /\ y \in b..d
    <3>1. Between(b, d, y) <=> y \in b..d
      BY <1>8, SMTT(30)
    <3>2. Between(a, c, x) <=> x \in a..c
      BY <1>8, SMTT(30)
    <3>3. Between(c, a, x) <=> x \in a..c
      BY <1>8, SMTT(30)
    <3> HIDE DEF Between
    <3> QED BY <1>8, <2>2, <3>1, <3>2, <3>3, Zenon
  <2>4. a <= c /\ c < n /\ b <= d
    BY <1>8
  <2>5. PICK D : D = 1..((c - a + 1) * (d - b + 1)) /\ D = DOMAIN Block(n, a, c, b, d)
    BY DEF Block
  <2>6. ASSUME t \in Range(tiles) PROVE x \in a..c /\ y \in b..d
    <3>1. PICK k \in D : t = Block(n, a, c, b, d)[k]
      BY <1>8, <2>5, <2>6, Zenon DEF Range
    <3>2. k \in 1..((c - a + 1) * (d - b + 1))
      BY <2>5, <3>1, Zenon
    <3>3. t % n \in a..c /\ t \div n \in b..d
      BY <2>4, <3>1, <3>2, BlockTile, SMTT(30)
    <3> QED BY <2>2, <3>3, Zenon
  <2>7. ASSUME x \in a..c, y \in b..d PROVE t \in Range(tiles)
    <3>1. t % n \in a..c /\ t \div n \in b..d
      BY <2>2, <2>7, Zenon
    <3>2. Sent(t, n, a, c, b, d)
      BY <2>1, <2>4, <3>1, BlockIndex, SMTT(30)
    <3>3. PICK k \in D : Block(n, a, c, b, d)[k] = t
      BY <2>5, <3>2, Zenon DEF Sent
    <3> QED BY <1>8, <2>5, <3>3, Zenon DEF Range
  <2> HIDE DEF Between
  <2> QED BY <2>3, <2>6, <2>7, Zenon
<1> HIDE DEF Between
<1> QED BY <1>5, <1>7, <1>9, <1>10, <1>11, Zenon

(* What a protocol means by a tile: JTL, Zoomify, DeepZoom, IIIF, TIL and    *)
(* SPECTRA address the tile, or the pixel of a tile, that was asked for, in  *)
(* images, levels and grids of every size.                                   *)
THEOREM AddressCorrect == Spec => []TilesAddressed
<1>1. Inv => TilesAddressed
  BY AddressedCorrect, TurnedCorrect, CornerCorrect, RectangleCorrect, PointCorrect
  DEF TilesAddressed
<1> QED BY <1>1, Invariant, PTL
=============================================================================
