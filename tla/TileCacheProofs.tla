--------------------------- MODULE TileCacheProofs ---------------------------
(****************************************************************************)
(* Proofs about TileCache and TileCacheLRU, for every set of keys, stamps,  *)
(* weights and cells and every cache size: lemmas about the operators, the  *)
(* invariant, and the refinement of TileStore.                              *)
(****************************************************************************)
EXTENDS TileCacheLRU, WellFoundedInduction, TLAPS

-----------------------------------------------------------------------------
(* Induction over the natural numbers, for a set instead of a predicate.    *)

(* The less-than relation of the naturals is well-founded. *)
LEMMA LessThanWellFounded ==
  IsWellFoundedOn({ss \in Nat \X Nat : ss[1] < ss[2]}, Nat)
BY NatLessThanWellFounded DEF OpToRel

(* A set that holds 0 and the successor of each of its naturals holds all   *)
(* of them: otherwise the least natural it misses has a predecessor in it.  *)
LEMMA SetInduction ==
  ASSUME NEW S, 0 \in S, \A n \in Nat : n \in S => n + 1 \in S
  PROVE  Nat \subseteq S
<1> DEFINE R == {ss \in Nat \X Nat : ss[1] < ss[2]}
           D == Nat \ S
<1>1. SUFFICES ASSUME D # {} PROVE FALSE
  OBVIOUS
<1>2. PICK m \in D : \A y \in D : ~ (<<y, m>> \in R)
  <2>1. D \subseteq Nat
    OBVIOUS
  <2>2. IsWellFoundedOn(R, Nat)
    BY LessThanWellFounded
  <2> HIDE DEF D, R
  <2>3. QED
    BY <1>1, <2>1, <2>2, WFMin, Zenon
<1>3. m - 1 \in Nat /\ m - 1 < m /\ (m - 1) + 1 = m
  OBVIOUS
<1>4. m - 1 \in S
  BY <1>2, <1>3, Zenon
<1>5. QED
  BY <1>3, <1>4

-----------------------------------------------------------------------------
(* Lists: what the list operations return.                                  *)

(* Past the first of two lists, their concatenation is the second one. *)
LEMMA ConcatSecond ==
  ASSUME NEW S, NEW a \in Seq(S), NEW b \in Seq(S),
         NEW j \in 1..(Len(a) + Len(b)), ~ (j <= Len(a))
  PROVE  (a \o b)[j] = b[j - Len(a)]
  OBVIOUS

(* Erasing the node at position i closes the gap and moves nothing else. *)
LEMMA ErasedProperties ==
  ASSUME NEW S, NEW l \in Seq(S), NEW i \in DOMAIN l
  PROVE  /\ Erased(l, i) \in Seq(S)
         /\ Len(Erased(l, i)) = Len(l) - 1
         /\ DOMAIN Erased(l, i) = 1..(Len(l) - 1)
         /\ \A j \in 1..(Len(l) - 1) :
              Erased(l, i)[j] = IF j < i THEN l[j] ELSE l[j + 1]
<1> DEFINE a == SubSeq(l, 1, i - 1)
           b == SubSeq(l, i + 1, Len(l))
<1>1. i \in 1..Len(l) /\ Len(l) \in Nat /\ \A j \in 1..Len(l) : l[j] \in S
  OBVIOUS
<1>2. /\ a \in Seq(S) /\ Len(a) = i - 1
      /\ \A j \in 1..(i - 1) : a[j] = l[j]
  BY <1>1
<1>3. /\ b \in Seq(S) /\ Len(b) = Len(l) - i
      /\ \A j \in 1..(Len(l) - i) : b[j] = l[i + j]
  BY <1>1
<1>4. Erased(l, i) = a \o b
  BY DEF Erased
<1> HIDE DEF a, b
<1>5. /\ a \o b \in Seq(S)
      /\ Len(a \o b) = Len(l) - 1
  BY <1>1, <1>2, <1>3
<1>6. ASSUME NEW j \in 1..(Len(l) - 1)
      PROVE  (a \o b)[j] = IF j < i THEN l[j] ELSE l[j + 1]
  <2>1. CASE j < i
    BY <1>1, <1>2, <1>3, <2>1
  <2>2. CASE ~ (j < i)
    <3>1. (a \o b)[j] = b[j - (i - 1)]
      <4>1. j \in 1..(Len(a) + Len(b)) /\ ~ (j <= Len(a)) /\ Len(a) = i - 1
        BY <1>1, <1>2, <1>3, <2>2
      <4>2. a \in Seq(S) /\ b \in Seq(S)
        BY <1>2, <1>3
      <4>3. (a \o b)[j] = b[j - Len(a)]
        BY <4>1, <4>2, ConcatSecond, Zenon
      <4> QED BY <4>1, <4>3
    <3>2. j - (i - 1) \in 1..(Len(l) - i) /\ i + (j - (i - 1)) = j + 1
      BY <1>1, <2>2
    <3>3. QED
      BY <1>3, <2>2, <3>1, <3>2
  <2>3. QED
    BY <2>1, <2>2, Zenon
<1>7. QED
  BY <1>1, <1>4, <1>5, <1>6

(* Pushing at the front shifts every node by one. *)
LEMMA PushedProperties ==
  ASSUME NEW S, NEW l \in Seq(S), NEW e \in S
  PROVE  /\ Pushed(e, l) \in Seq(S)
         /\ Len(Pushed(e, l)) = Len(l) + 1
         /\ DOMAIN Pushed(e, l) = 1..(Len(l) + 1)
         /\ Pushed(e, l)[1] = e
         /\ \A j \in 2..(Len(l) + 1) : Pushed(e, l)[j] = l[j - 1]
BY DEF Pushed

(* A splice to the front is a permutation of the list. *)
LEMMA MoveToFrontProperties ==
  ASSUME NEW S, NEW l \in Seq(S), NEW i \in DOMAIN l
  PROVE  /\ MoveToFront(l, i) \in Seq(S)
         /\ Len(MoveToFront(l, i)) = Len(l)
         /\ DOMAIN MoveToFront(l, i) = 1..Len(l)
         /\ MoveToFront(l, i)[1] = l[i]
         /\ \A j \in 2..Len(l) :
              MoveToFront(l, i)[j] = IF j <= i THEN l[j - 1] ELSE l[j]
<1>1. l[i] \in S /\ i \in 1..Len(l)
  OBVIOUS
<1> DEFINE m == Erased(l, i)
<1>2. /\ m \in Seq(S) /\ Len(m) = Len(l) - 1
      /\ \A j \in 1..(Len(l) - 1) : m[j] = IF j < i THEN l[j] ELSE l[j + 1]
  BY ErasedProperties, Zenon
<1>3. MoveToFront(l, i) = Pushed(l[i], m)
  BY DEF MoveToFront
<1> HIDE DEF m
<1>4. /\ Pushed(l[i], m) \in Seq(S)
      /\ Len(Pushed(l[i], m)) = Len(m) + 1
      /\ Pushed(l[i], m)[1] = l[i]
      /\ \A j \in 2..(Len(m) + 1) : Pushed(l[i], m)[j] = m[j - 1]
  BY <1>1, <1>2 DEF Pushed
<1>5. ASSUME NEW j \in 2..Len(l)
      PROVE  MoveToFront(l, i)[j] = IF j <= i THEN l[j - 1] ELSE l[j]
  <2>1. MoveToFront(l, i)[j] = m[j - 1]
    BY <1>2, <1>3, <1>4
  <2>2. j - 1 \in 1..(Len(l) - 1) /\ (j - 1) + 1 = j /\ (j - 1 < i <=> j <= i)
    BY <1>1
  <2>3. QED
    BY <1>2, <2>1, <2>2
<1>6. QED
  BY <1>1, <1>2, <1>3, <1>4, <1>5

-----------------------------------------------------------------------------
(* Memory: the running sum of the weights of a list.                        *)

IsHeld(p, l) ==
  p = [n \in 0..Len(l) |-> IF n = 0 THEN 0 ELSE p[n - 1] + l[n].tile.weight]

RunningSum(p, l, m) ==
  /\ p \in [0..m -> Nat]
  /\ p[0] = 0
  /\ \A n \in 1..m : p[n] = p[n - 1] + l[n].tile.weight

(* The memory a node is charged with is a positive number. *)
LEMMA WeightIsPositive ==
  ASSUME NEW l \in Seq(Node), NEW n \in 1..Len(l)
  PROVE  l[n].tile.weight \in Nat /\ l[n].tile.weight > 0
<1>1. l[n] \in Node
  OBVIOUS
<1>2. l[n].tile.weight \in Weight
  BY <1>1 DEF Node, Tile
<1> DEFINE w == l[n].tile.weight
<1> HIDE DEF w
<1>3. w \in Nat \ {0}
  BY <1>2, WeightAssumption, Zenon DEF w
<1>4. w \in Nat /\ w > 0
  BY <1>3
<1>5. QED
  BY <1>4 DEF w

(* Held is the function its recursive definition describes. *)
LEMMA HeldIsChoice ==
  ASSUME NEW l
  PROVE  Held(l) = CHOOSE p : IsHeld(p, l)
BY DEF Held, IsHeld

(* Every list has a running sum, by induction on the number of nodes summed. *)
LEMMA RunningSumExists ==
  ASSUME NEW l \in Seq(Node)
  PROVE  \E p : RunningSum(p, l, Len(l))
<1> DEFINE S == {m \in Nat : m <= Len(l) => \E p : RunningSum(p, l, m)}
<1>1. 0 \in S
  <2>1. RunningSum([n \in 0..0 |-> 0], l, 0)
    BY DEF RunningSum
  <2>2. QED
    BY <2>1
<1>2. ASSUME NEW m \in Nat, m \in S
      PROVE  m + 1 \in S
  <2>1. SUFFICES ASSUME m + 1 <= Len(l)
                 PROVE  \E p : RunningSum(p, l, m + 1)
    OBVIOUS
  <2>2. Len(l) \in Nat /\ m <= Len(l) /\ m + 1 \in 1..Len(l)
    BY <2>1
  <2>3. PICK p : RunningSum(p, l, m)
    BY <1>2, <2>2
  <2>4. l[m + 1].tile.weight \in Nat
    BY <2>2, WeightIsPositive
  <2> DEFINE q == [n \in 0..(m + 1) |->
                     IF n = m + 1 THEN p[m] + l[m + 1].tile.weight ELSE p[n]]
  <2>5. q \in [0..(m + 1) -> Nat]
    BY <2>3, <2>4, SMTT(40) DEF RunningSum
  <2>6. q[0] = 0
    BY <2>3 DEF RunningSum
  <2>7. ASSUME NEW n \in 1..(m + 1)
        PROVE  q[n] = q[n - 1] + l[n].tile.weight
    <3>1. CASE n = m + 1
      BY <3>1
    <3>2. CASE n # m + 1
      BY <2>3, <3>2 DEF RunningSum
    <3>3. QED
      BY <3>1, <3>2
  <2>8. RunningSum(q, l, m + 1)
    BY <2>5, <2>6, <2>7, Zenon DEF RunningSum
  <2>9. QED
    BY <2>8
<1> HIDE DEF S
<1>3. Nat \subseteq S
  BY <1>1, <1>2, SetInduction
<1>4. Len(l) \in S /\ Len(l) <= Len(l)
  BY <1>3
<1>5. QED
  BY <1>4 DEF S

(* The function that Held names is the running sum, and the only one. *)
LEMMA HeldIsRunningSum ==
  ASSUME NEW l \in Seq(Node), NEW p, RunningSum(p, l, Len(l))
  PROVE  Held(l) = p
<1>1. IsHeld(p, l)
  BY DEF IsHeld, RunningSum
<1>2. IsHeld(Held(l), l)
  BY <1>1, HeldIsChoice
<1> DEFINE q == Held(l)
           S == {n \in Nat : n <= Len(l) => q[n] = p[n]}
<1> HIDE DEF q
<1>3. /\ q = [n \in 0..Len(l) |-> IF n = 0 THEN 0 ELSE q[n - 1] + l[n].tile.weight]
      /\ Len(l) \in Nat
  BY <1>2 DEF IsHeld, q
<1>4. 0 \in S
  BY <1>3 DEF RunningSum
<1>5. ASSUME NEW n \in Nat, n \in S
      PROVE  n + 1 \in S
  <2>1. SUFFICES ASSUME n + 1 <= Len(l)
                 PROVE  q[n + 1] = p[n + 1]
    OBVIOUS
  <2>2. q[n] = p[n] /\ n + 1 \in 1..Len(l) /\ n + 1 \in 0..Len(l) /\ (n + 1) - 1 = n
    BY <1>3, <1>5, <2>1
  <2>3. q[n + 1] = q[n] + l[n + 1].tile.weight
    BY <1>3, <2>2
  <2>4. p[n + 1] = p[n] + l[n + 1].tile.weight
    BY <2>2 DEF RunningSum
  <2>5. QED
    BY <2>2, <2>3, <2>4
<1>6. Nat \subseteq S
  <2> HIDE DEF S
  <2> QED
    BY <1>4, <1>5, SetInduction
<1>7. ASSUME NEW n \in 0..Len(l)
      PROVE  q[n] = p[n]
  <2>1. n \in Nat /\ n <= Len(l)
    BY <1>3
  <2>2. n \in S
    BY <1>6, <2>1
  <2>3. QED
    BY <2>1, <2>2
<1>8. QED
  BY <1>3, <1>7 DEF RunningSum, q

(* MemoryOf is the last of the running sums of a list, and a number. *)
LEMMA MemoryOfRunningSum ==
  ASSUME NEW l \in Seq(Node)
  PROVE  /\ RunningSum(Held(l), l, Len(l))
         /\ MemoryOf(l) = Held(l)[Len(l)]
         /\ MemoryOf(l) \in Nat
<1>1. PICK p : RunningSum(p, l, Len(l))
  BY RunningSumExists
<1>2. Held(l) = p
  BY <1>1, HeldIsRunningSum
<1>3. QED
  BY <1>1, <1>2 DEF MemoryOf, RunningSum

(* An empty list takes no memory. *)
LEMMA MemoryOfEmpty == MemoryOf(<<>>) = 0
<1>1. <<>> \in Seq(Node) /\ Len(<<>>) = 0
  OBVIOUS
<1>2. RunningSum(Held(<<>>), <<>>, 0) /\ MemoryOf(<<>>) = Held(<<>>)[0]
  BY <1>1, MemoryOfRunningSum, Zenon
<1>3. QED
  BY <1>2 DEF RunningSum

(* A pushed node adds its weight: the new running sum is the old one,       *)
(* shifted by a position and raised by that weight.                         *)
LEMMA MemoryOfPushed ==
  ASSUME NEW l \in Seq(Node), NEW e \in Node
  PROVE  MemoryOf(Pushed(e, l)) = MemoryOf(l) + e.tile.weight
<1> DEFINE c == Pushed(e, l)
           p == Held(l)
           w == e.tile.weight
           q == [n \in 0..(Len(l) + 1) |-> IF n = 0 THEN 0 ELSE p[n - 1] + w]
<1>1. /\ c \in Seq(Node) /\ Len(c) = Len(l) + 1 /\ c[1] = e
      /\ \A j \in 2..(Len(l) + 1) : c[j] = l[j - 1]
  BY PushedProperties
<1> HIDE DEF c, p
<1>2. /\ RunningSum(p, l, Len(l)) /\ MemoryOf(l) = p[Len(l)]
  BY MemoryOfRunningSum DEF p
<1>3. w \in Nat
  <2>1. c[1].tile.weight \in Nat
    BY <1>1, WeightIsPositive
  <2>2. QED
    BY <1>1, <2>1
<1> HIDE DEF w
<1>4. Len(l) \in Nat
  OBVIOUS
<1>5. q \in [0..(Len(l) + 1) -> Nat] /\ q[0] = 0
  BY <1>2, <1>3, <1>4 DEF RunningSum
<1>6. ASSUME NEW n \in 1..(Len(l) + 1)
      PROVE  q[n] = q[n - 1] + c[n].tile.weight
  <2>1. CASE n = 1
    <3>1. q[1] = p[0] + w /\ q[0] = 0 /\ p[0] = 0
      BY <1>2, <1>4 DEF RunningSum
    <3>2. c[1].tile.weight = w
      BY <1>1 DEF w
    <3>3. QED
      BY <1>3, <2>1, <3>1, <3>2
  <2>2. CASE n # 1
    <3>1. n - 1 \in 1..Len(l) /\ n \in 2..(Len(l) + 1) /\ n - 1 # 0
      BY <1>4, <2>2
    <3>2. p[n - 1] = p[(n - 1) - 1] + l[n - 1].tile.weight
      BY <1>2, <3>1 DEF RunningSum
    <3>3. q[n] = p[n - 1] + w /\ q[n - 1] = p[(n - 1) - 1] + w
      BY <1>4, <3>1
    <3>4. c[n].tile.weight = l[n - 1].tile.weight /\ l[n - 1].tile.weight \in Nat
      BY <1>1, <3>1, WeightIsPositive
    <3>5. p[(n - 1) - 1] \in Nat
      <4>1. (n - 1) - 1 \in 0..Len(l)
        BY <1>4, <3>1
      <4>2. QED
        BY <1>2, <4>1, Zenon DEF RunningSum
    <3>6. QED
      BY <1>3, <3>2, <3>3, <3>4, <3>5
  <2>3. QED
    BY <2>1, <2>2
<1>7. RunningSum(q, c, Len(c))
  BY <1>1, <1>5, <1>6, Zenon DEF RunningSum
<1>8. MemoryOf(c) = q[Len(c)]
  BY <1>1, <1>7, HeldIsRunningSum DEF MemoryOf
<1>9. q[Len(c)] = p[Len(l)] + w
  BY <1>1, <1>4
<1>10. QED
  BY <1>2, <1>8, <1>9 DEF c, w

(* An erased node takes its weight away: behind it the running sum is the   *)
(* old one, lowered by that weight.                                         *)
LEMMA MemoryOfErased ==
  ASSUME NEW l \in Seq(Node), NEW i \in DOMAIN l
  PROVE  /\ MemoryOf(Erased(l, i)) = MemoryOf(l) - l[i].tile.weight
         /\ MemoryOf(Erased(l, i)) \in Nat
<1> DEFINE r == Erased(l, i)
           p == Held(l)
           w == l[i].tile.weight
           q == [n \in 0..(Len(l) - 1) |-> IF n < i THEN p[n] ELSE p[n + 1] - w]
<1>1. /\ r \in Seq(Node) /\ Len(r) = Len(l) - 1
      /\ \A j \in 1..(Len(l) - 1) : r[j] = IF j < i THEN l[j] ELSE l[j + 1]
  BY ErasedProperties
<1>2. i \in 1..Len(l) /\ Len(l) \in Nat
  OBVIOUS
<1> HIDE DEF r, p
<1>3. /\ RunningSum(p, l, Len(l)) /\ MemoryOf(l) = p[Len(l)]
  BY MemoryOfRunningSum DEF p
<1>4. w \in Nat /\ p[i] = p[i - 1] + w
  BY <1>2, <1>3, WeightIsPositive DEF RunningSum
<1> HIDE DEF w
<1>5. q[0] = 0
  BY <1>2, <1>3 DEF RunningSum
<1>6. ASSUME NEW n \in 1..(Len(l) - 1)
      PROVE  q[n] = q[n - 1] + r[n].tile.weight
  <2>1. /\ n - 1 \in 0..(Len(l) - 1) /\ n \in 0..(Len(l) - 1)
        /\ n \in 1..Len(l) /\ n + 1 \in 1..Len(l)
    BY <1>2
  <2>2. /\ p[n] = p[n - 1] + l[n].tile.weight
        /\ p[n + 1] = p[n] + l[n + 1].tile.weight
        /\ p[n] \in Nat /\ p[n - 1] \in Nat
        /\ l[n].tile.weight \in Nat /\ l[n + 1].tile.weight \in Nat
    <3>1. (n + 1) - 1 = n /\ n - 1 \in 0..Len(l) /\ n \in 0..Len(l)
      BY <1>2, <2>1
    <3>2. p[n + 1] = p[(n + 1) - 1] + l[n + 1].tile.weight
      BY <1>3, <2>1 DEF RunningSum
    <3>3. QED
      BY <1>3, <2>1, <3>1, <3>2, WeightIsPositive, Zenon DEF RunningSum
  <2>3. CASE n < i
    <3>1. q[n] = p[n] /\ q[n - 1] = p[n - 1] /\ r[n] = l[n]
      BY <1>1, <1>2, <2>1, <2>3
    <3>2. QED
      BY <2>2, <3>1
  <2>4. CASE n = i
    <3>1. q[n] = p[n + 1] - w /\ q[n - 1] = p[n - 1] /\ r[n] = l[n + 1]
      BY <1>1, <1>2, <2>1, <2>4
    <3>2. p[n] = p[n - 1] + w
      BY <1>4, <2>4
    <3>3. r[n].tile.weight = l[n + 1].tile.weight
      BY <3>1
    <3> DEFINE x == l[n + 1].tile.weight
    <3>4. x \in Nat /\ p[n - 1] \in Nat /\ p[n + 1] = (p[n - 1] + w) + x
      BY <2>2, <3>2
    <3> HIDE DEF q, x
    <3>5. q[n] = p[n - 1] + x
      BY <1>4, <3>1, <3>4
    <3>6. QED
      BY <3>1, <3>3, <3>5 DEF x
  <2>5. CASE n > i
    <3>1. q[n] = p[n + 1] - w /\ q[n - 1] = p[n] - w /\ r[n] = l[n + 1]
      <4>1. (n - 1) + 1 = n /\ ~ (n - 1 < i) /\ ~ (n < i)
        BY <1>2, <2>5
      <4>2. QED
        BY <1>1, <2>1, <4>1
    <3> HIDE DEF q
    <3>2. QED
      BY <1>4, <2>2, <2>5, <3>1, SMTT(40)
  <2>6. QED
    BY <1>2, <2>3, <2>4, <2>5
<1>7. ASSUME NEW n \in 0..(Len(l) - 1)
      PROVE  q[n] \in Nat
  <2> DEFINE S == {m \in Nat : m <= Len(l) - 1 => q[m] \in Nat}
  <2>1. 0 \in S
    BY <1>5
  <2>2. ASSUME NEW m \in Nat, m \in S
        PROVE  m + 1 \in S
    <3>1. SUFFICES ASSUME m + 1 <= Len(l) - 1
                   PROVE  q[m + 1] \in Nat
      OBVIOUS
    <3>2. q[m] \in Nat /\ m + 1 \in 1..(Len(l) - 1) /\ (m + 1) - 1 = m
      BY <1>2, <2>2, <3>1
    <3> HIDE DEF q
    <3>3. q[m + 1] = q[m] + r[m + 1].tile.weight
      BY <1>6, <3>2
    <3>4. r[m + 1].tile.weight \in Nat
      BY <1>1, <3>2, WeightIsPositive
    <3>5. QED
      BY <3>2, <3>3, <3>4
  <2>3. Nat \subseteq S
    <3> HIDE DEF S
    <3> QED
      BY <2>1, <2>2, SetInduction
  <2>4. n \in Nat /\ n <= Len(l) - 1
    BY <1>2
  <2>5. n \in S
    BY <2>3, <2>4, Zenon
  <2>6. QED
    BY <2>4, <2>5
<1>8. q \in [0..(Len(l) - 1) -> Nat]
  BY <1>7
<1>9. RunningSum(q, r, Len(r))
  <2> HIDE DEF q
  <2> QED
    BY <1>1, <1>5, <1>6, <1>8 DEF RunningSum
<1>10. MemoryOf(r) = q[Len(r)]
  BY <1>1, <1>9, HeldIsRunningSum DEF MemoryOf
<1>11. q[Len(r)] = p[Len(l)] - w
  <2>1. Len(l) - 1 \in 0..(Len(l) - 1) /\ ~ (Len(l) - 1 < i - 1) /\ (Len(l) - 1) + 1 = Len(l)
    BY <1>2
  <2>2. CASE i = Len(l)
    <3>1. q[Len(l) - 1] = p[i - 1]
      BY <1>2, <2>1, <2>2
    <3>2. p[i - 1] \in Nat
      BY <1>2, <1>3 DEF RunningSum
    <3>3. QED
      BY <1>1, <1>4, <2>2, <3>1, <3>2
  <2>3. CASE i # Len(l)
    BY <1>1, <1>2, <2>1, <2>3
  <2>4. QED
    BY <2>2, <2>3
<1>12. MemoryOf(r) \in Nat
  BY <1>1, MemoryOfRunningSum
<1>13. QED
  BY <1>3, <1>10, <1>11, <1>12 DEF r, w

(* A splice to the front leaves the memory as it is. *)
LEMMA MemoryOfMoveToFront ==
  ASSUME NEW l \in Seq(Node), NEW i \in DOMAIN l
  PROVE  MemoryOf(MoveToFront(l, i)) = MemoryOf(l)
<1> DEFINE r == Erased(l, i)
           e == l[i]
<1>1. r \in Seq(Node) /\ e \in Node
  BY ErasedProperties
<1>2. MemoryOf(r) = MemoryOf(l) - e.tile.weight
  BY MemoryOfErased
<1>3. e.tile.weight \in Nat /\ MemoryOf(l) \in Nat
  BY WeightIsPositive, MemoryOfRunningSum
<1>4. MoveToFront(l, i) = Pushed(e, r)
  BY DEF MoveToFront
<1> HIDE DEF e, r
<1>5. MemoryOf(Pushed(e, r)) = MemoryOf(r) + e.tile.weight
  BY <1>1, MemoryOfPushed
<1>6. QED
  BY <1>2, <1>3, <1>4, <1>5

-----------------------------------------------------------------------------
(* Nodes: the list operations keep the nodes of a list apart.               *)

Distinct(l) ==
  \A i, j \in DOMAIN l : i # j => l[i].cell # l[j].cell /\ l[i].key # l[j].key

(* Looking a node up by its address finds it. *)
LEMMA PosOfNode ==
  ASSUME NEW l \in Seq(Node), Distinct(l), NEW i \in DOMAIN l
  PROVE  PosOf(l, l[i].cell) = i
BY DEF PosOf, Distinct

(* A splice keeps the nodes. *)
LEMMA MoveToFrontNodes ==
  ASSUME NEW l \in Seq(Node), Distinct(l), NEW i \in DOMAIN l
  PROVE  LET m == MoveToFront(l, i) IN
         /\ Distinct(m)
         /\ \A j \in DOMAIN m : \E n \in DOMAIN l : m[j] = l[n]
         /\ \A n \in DOMAIN l : \E j \in DOMAIN m : m[j] = l[n]
<1> DEFINE m == MoveToFront(l, i)
           From(j) == IF j = 1 THEN i ELSE IF j <= i THEN j - 1 ELSE j
           To(n) == IF n = i THEN 1 ELSE IF n < i THEN n + 1 ELSE n
<1>1. i \in 1..Len(l) /\ Len(l) \in Nat /\ DOMAIN l = 1..Len(l)
  OBVIOUS
<1>2. DOMAIN m = 1..Len(l) /\ \A j \in 1..Len(l) : m[j] = l[From(j)]
  <2>1. /\ DOMAIN m = 1..Len(l) /\ m[1] = l[i]
        /\ \A j \in 2..Len(l) : m[j] = IF j <= i THEN l[j - 1] ELSE l[j]
    BY MoveToFrontProperties
  <2> HIDE DEF m
  <2>2. QED
    BY <1>1, <2>1
<1> HIDE DEF m
<1>3. \A j \in 1..Len(l) : From(j) \in 1..Len(l)
  BY <1>1
<1>4. \A j, k \in 1..Len(l) : j # k => From(j) # From(k)
  BY <1>1
<1>5. \A n \in 1..Len(l) : To(n) \in 1..Len(l) /\ From(To(n)) = n
  BY <1>1
<1> HIDE DEF From, To
<1>6. Distinct(m)
  BY <1>1, <1>2, <1>3, <1>4, SMTT(40) DEF Distinct
<1>7. \A j \in DOMAIN m : \E n \in DOMAIN l : m[j] = l[n]
  BY <1>1, <1>2, <1>3
<1>8. \A n \in DOMAIN l : \E j \in DOMAIN m : m[j] = l[n]
  BY <1>1, <1>2, <1>5
<1>9. QED
  BY <1>6, <1>7, <1>8 DEF m

(* An erasure keeps all nodes but one. *)
LEMMA ErasedNodes ==
  ASSUME NEW l \in Seq(Node), Distinct(l), NEW i \in DOMAIN l
  PROVE  LET m == Erased(l, i) IN
         /\ Distinct(m)
         /\ \A j \in DOMAIN m : \E n \in DOMAIN l : n # i /\ m[j] = l[n]
         /\ \A n \in DOMAIN l : n # i => \E j \in DOMAIN m : m[j] = l[n]
<1> DEFINE m == Erased(l, i)
           From(j) == IF j < i THEN j ELSE j + 1
           To(n) == IF n < i THEN n ELSE n - 1
<1>1. i \in 1..Len(l) /\ Len(l) \in Nat /\ DOMAIN l = 1..Len(l)
  OBVIOUS
<1>2. DOMAIN m = 1..(Len(l) - 1) /\ \A j \in 1..(Len(l) - 1) : m[j] = l[From(j)]
  BY ErasedProperties, Zenon
<1> HIDE DEF m
<1>3. \A j \in 1..(Len(l) - 1) : From(j) \in 1..Len(l) /\ From(j) # i
  BY <1>1
<1>4. \A j, k \in 1..(Len(l) - 1) : j # k => From(j) # From(k)
  BY <1>1
<1>5. \A n \in 1..Len(l) : n # i => To(n) \in 1..(Len(l) - 1) /\ From(To(n)) = n
  BY <1>1
<1> HIDE DEF From, To
<1>6. Distinct(m)
  BY <1>1, <1>2, <1>3, <1>4, SMTT(40) DEF Distinct
<1>7. \A j \in DOMAIN m : \E n \in DOMAIN l : n # i /\ m[j] = l[n]
  BY <1>1, <1>2, <1>3
<1>8. \A n \in DOMAIN l : n # i => \E j \in DOMAIN m : m[j] = l[n]
  BY <1>1, <1>2, <1>5
<1>9. QED
  BY <1>6, <1>7, <1>8 DEF m

-----------------------------------------------------------------------------
(* The index: each change of the list and the index keeps them in step.     *)

(* A list l and an index m agree, but for the positions P of l that are not *)
(* yet indexed.                                                             *)
Agree(l, m, P) ==
  /\ Distinct(l)
  /\ \A i \in DOMAIN l :
       IF i \in P
       THEN l[i].key \notin DOMAIN m
       ELSE l[i].key \in DOMAIN m /\ m[l[i].key] = l[i].cell
  /\ \A k \in DOMAIN m : \E i \in DOMAIN l : l[i].key = k /\ l[i].cell = m[k]

(* The index leads from a key to the node that carries it. *)
LEMMA AgreeLookup ==
  ASSUME NEW l \in Seq(Node), NEW m, NEW P, Agree(l, m, P), NEW k \in DOMAIN m
  PROVE  LET i == PosOf(l, m[k]) IN
         i \in DOMAIN l /\ l[i].key = k /\ l[i].cell = m[k]
<1>1. PICK i \in DOMAIN l : l[i].key = k /\ l[i].cell = m[k]
  BY DEF Agree
<1>2. PosOf(l, l[i].cell) = i
  BY PosOfNode DEF Agree
<1>3. QED
  BY <1>1, <1>2

(* _touch keeps the list and the index in agreement. *)
LEMMA AgreeMove ==
  ASSUME NEW l \in Seq(Node), NEW m, Agree(l, m, {}), NEW i \in DOMAIN l
  PROVE  Agree(MoveToFront(l, i), m, {})
<1> DEFINE n == MoveToFront(l, i)
<1>1. /\ Distinct(n)
      /\ \A j \in DOMAIN n : \E h \in DOMAIN l : n[j] = l[h]
      /\ \A h \in DOMAIN l : \E j \in DOMAIN n : n[j] = l[h]
  BY MoveToFrontNodes, Zenon DEF Agree
<1> HIDE DEF n
<1>2. ASSUME NEW j \in DOMAIN n
      PROVE  n[j].key \in DOMAIN m /\ m[n[j].key] = n[j].cell
  <2>1. PICK h \in DOMAIN l : n[j] = l[h]
    BY <1>1
  <2>2. h \notin {}
    OBVIOUS
  <2>3. QED
    BY <2>1, <2>2 DEF Agree
<1>3. ASSUME NEW k \in DOMAIN m
      PROVE  \E j \in DOMAIN n : n[j].key = k /\ n[j].cell = m[k]
  <2>1. PICK h \in DOMAIN l : l[h].key = k /\ l[h].cell = m[k]
    BY DEF Agree
  <2>2. QED
    BY <1>1, <2>1
<1>4. Agree(n, m, {})
  BY <1>1, <1>2, <1>3, Zenon DEF Agree
<1>5. QED
  BY <1>4 DEF n

(* _remove keeps the list and the index in agreement. *)
LEMMA AgreeRemove ==
  ASSUME NEW l \in Seq(Node), NEW m, Agree(l, m, {}), NEW i \in DOMAIN l
  PROVE  Agree(Erased(l, i), Restrict(m, DOMAIN m \ {l[i].key}), {})
<1> DEFINE n == Erased(l, i)
           k == l[i].key
           r == Restrict(m, DOMAIN m \ {k})
<1>1. /\ Distinct(n)
      /\ \A j \in DOMAIN n : \E h \in DOMAIN l : h # i /\ n[j] = l[h]
      /\ \A h \in DOMAIN l : h # i => \E j \in DOMAIN n : n[j] = l[h]
  BY ErasedNodes DEF Agree
<1>2. /\ DOMAIN r = DOMAIN m \ {k}
      /\ \A j \in DOMAIN r : r[j] = m[j]
  BY DEF Restrict
<1>3. \A h \in DOMAIN l : h # i => l[h].key # k
  BY DEF Agree, Distinct
<1> HIDE DEF n, r, k
<1>4. ASSUME NEW j \in DOMAIN n
      PROVE  n[j].key \in DOMAIN r /\ r[n[j].key] = n[j].cell
  BY <1>1, <1>2, <1>3 DEF Agree
<1>5. ASSUME NEW j \in DOMAIN r
      PROVE  \E h \in DOMAIN n : n[h].key = j /\ n[h].cell = r[j]
  <2>1. PICK h \in DOMAIN l : l[h].key = j /\ l[h].cell = m[j]
    BY <1>2 DEF Agree
  <2>2. h # i
    BY <1>2, <2>1 DEF k
  <2>3. QED
    BY <1>1, <1>2, <2>1, <2>2
<1>6. Agree(n, r, {})
  BY <1>1, <1>4, <1>5 DEF Agree
<1>7. QED
  BY <1>6 DEF n, r, k

(* push_front leaves only the new node out of the index. *)
LEMMA AgreePush ==
  ASSUME NEW l \in Seq(Node), NEW m, Agree(l, m, {}),
         NEW e \in Node, e.cell \notin Cells(l), e.key \notin DOMAIN m
  PROVE  Agree(Pushed(e, l), m, {1})
<1> DEFINE n == Pushed(e, l)
<1>1. /\ DOMAIN n = 1..(Len(l) + 1) /\ n[1] = e
      /\ \A j \in 2..(Len(l) + 1) : n[j] = l[j - 1]
  BY PushedProperties
<1>2. DOMAIN l = 1..Len(l) /\ Len(l) \in Nat
  OBVIOUS
<1>3. \A j \in DOMAIN n : j # 1 => j - 1 \in DOMAIN l /\ n[j] = l[j - 1]
  BY <1>1, <1>2
<1>4. \A j \in DOMAIN l : j + 1 \in DOMAIN n /\ n[j + 1] = l[j] /\ j + 1 # 1
  BY <1>1, <1>2
<1> HIDE DEF n
<1>5. \A j \in DOMAIN l : l[j].cell # e.cell /\ l[j].key # e.key
  BY DEF Agree, Cells
<1>6. Distinct(n)
  <2>1. SUFFICES ASSUME NEW i \in DOMAIN n, NEW j \in DOMAIN n, i # j
                 PROVE  n[i].cell # n[j].cell /\ n[i].key # n[j].key
    BY DEF Distinct
  <2>2. CASE i = 1 \/ j = 1
    BY <1>1, <1>3, <1>5, <2>1, <2>2
  <2>3. CASE i # 1 /\ j # 1
    <3>1. i - 1 # j - 1
      BY <1>1, <1>2, <2>1
    <3>2. QED
      BY <1>3, <2>3, <3>1 DEF Agree, Distinct
  <2>4. QED
    BY <2>2, <2>3
<1>7. ASSUME NEW j \in DOMAIN n
      PROVE  IF j \in {1}
             THEN n[j].key \notin DOMAIN m
             ELSE n[j].key \in DOMAIN m /\ m[n[j].key] = n[j].cell
  BY <1>1, <1>3 DEF Agree
<1>8. ASSUME NEW k \in DOMAIN m
      PROVE  \E i \in DOMAIN n : n[i].key = k /\ n[i].cell = m[k]
  BY <1>4 DEF Agree
<1>9. Agree(n, m, {1})
  BY <1>6, <1>7, <1>8 DEF Agree
<1>10. QED
  BY <1>9 DEF n

(* Indexing the first node makes list and index agree again. *)
LEMMA AgreeIndex ==
  ASSUME NEW l \in Seq(Node), NEW m, Agree(l, m, {1}), l # <<>>
  PROVE  LET r == [k \in DOMAIN m \cup {l[1].key} |->
                     IF k = l[1].key THEN l[1].cell ELSE m[k]]
         IN  Agree(l, r, {})
<1> DEFINE r == [k \in DOMAIN m \cup {l[1].key} |->
                   IF k = l[1].key THEN l[1].cell ELSE m[k]]
<1>1. 1 \in DOMAIN l
  OBVIOUS
<1>2. \A i \in DOMAIN l : l[i].key \in DOMAIN r /\ r[l[i].key] = l[i].cell
  BY <1>1 DEF Agree, Distinct
<1>3. \A k \in DOMAIN r : \E i \in DOMAIN l : l[i].key = k /\ l[i].cell = r[k]
  BY <1>1 DEF Agree
<1> HIDE DEF r
<1>4. Agree(l, r, {})
  BY <1>2, <1>3 DEF Agree
<1>5. QED
  BY <1>4 DEF r

-----------------------------------------------------------------------------
(* The inductive invariant.  To the properties of TileCache it adds what    *)
(* insert() knows at each of its statements: the caller holds no pointer,   *)
(* the key it is going to push is not in the index, the node it has pushed  *)
(* is the first of the list; that between calls the running total is within *)
(* the limit; and that a cache of size 0 stays empty.                       *)
Control ==
  /\ pc = "idle" => currentSize <= MaxSize
  /\ pc # "idle" => held = NULL
  /\ pc = "push" => arg.key \notin DOMAIN tileMap
  /\ pc = "index" => /\ tileList # <<>>
                     /\ tileList[1].key = arg.key
                     /\ tileList[1].tile = arg.tile
  /\ MaxSize = 0 => pc = "idle" /\ DOMAIN tileMap = {}

CacheInv ==
  TypeOK /\ IndexMatchesList /\ SizeIsAccounted /\ Control

(* The list and the index agree at every statement. *)
LEMMA IndexAgrees ==
  IndexMatchesList <=> Agree(tileList, tileMap, IF pc = "index" THEN {1} ELSE {})
BY DEF IndexMatchesList, Agree, Distinct, Pending

(* The empty cache satisfies the invariant. *)
LEMMA InitInv == CacheInit => CacheInv
<1> SUFFICES ASSUME CacheInit PROVE CacheInv
  OBVIOUS
<1>1. TypeOK
  BY DEF CacheInit, TypeOK
<1>2. IndexMatchesList
  BY DEF CacheInit, IndexMatchesList
<1>3. SizeIsAccounted
  BY MemoryOfEmpty DEF CacheInit, SizeIsAccounted
<1>4. Control
  BY MaxSizeAssumption DEF CacheInit, Control
<1>5. QED
  BY <1>1, <1>2, <1>3, <1>4 DEF CacheInv

(* The effect of _touch on a key of the index. *)
LEMMA TouchInv ==
  ASSUME CacheInv, pc = "idle", NEW k \in DOMAIN tileMap
  PROVE  LET i == PosOf(tileList, tileMap[k])
             l == MoveToFront(tileList, i) IN
         /\ i \in DOMAIN tileList
         /\ l \in Seq(Node)
         /\ Agree(l, tileMap, {})
         /\ MemoryOf(l) = MemoryOf(tileList)
         /\ Cells(l) = Cells(tileList)
         /\ tileMap[k] \in Cells(tileList)
<1> DEFINE i == PosOf(tileList, tileMap[k])
           l == MoveToFront(tileList, i)
<1>1. tileList \in Seq(Node) /\ Agree(tileList, tileMap, {})
  BY IndexAgrees DEF CacheInv, TypeOK
<1>2. i \in DOMAIN tileList /\ tileList[i].cell = tileMap[k]
  BY <1>1, AgreeLookup
<1> HIDE DEF i
<1>3. l \in Seq(Node)
  BY <1>1, <1>2, MoveToFrontProperties
<1>4. Agree(l, tileMap, {})
  BY <1>1, <1>2, AgreeMove
<1>5. MemoryOf(l) = MemoryOf(tileList)
  BY <1>1, <1>2, MemoryOfMoveToFront
<1>6. /\ \A j \in DOMAIN l : \E n \in DOMAIN tileList : l[j] = tileList[n]
      /\ \A n \in DOMAIN tileList : \E j \in DOMAIN l : l[j] = tileList[n]
  BY <1>1, <1>2, MoveToFrontNodes, Zenon DEF Agree
<1> HIDE DEF l
<1>7. Cells(l) = Cells(tileList)
  BY <1>6 DEF Cells
<1>8. tileMap[k] \in Cells(tileList)
  BY <1>2 DEF Cells
<1>9. QED
  BY <1>2, <1>3, <1>4, <1>5, <1>7, <1>8 DEF l, i

(* The effect of _remove on a key of the index. *)
LEMMA RemoveInv ==
  ASSUME CacheInv, pc \in {"idle", "evict"}, NEW k \in DOMAIN tileMap
  PROVE  LET i == PosOf(tileList, tileMap[k])
             l == Erased(tileList, i)
             m == Restrict(tileMap, DOMAIN tileMap \ {k}) IN
         /\ i \in DOMAIN tileList /\ tileList[i].key = k
         /\ l \in Seq(Node)
         /\ m \in UNION {[K -> Cell] : K \in SUBSET Key}
         /\ k \notin DOMAIN m
         /\ Agree(l, m, {})
         /\ MemoryOf(l) = currentSize - tileList[i].tile.weight
         /\ MemoryOf(l) \in Nat
<1> DEFINE i == PosOf(tileList, tileMap[k])
           l == Erased(tileList, i)
           m == Restrict(tileMap, DOMAIN tileMap \ {k})
<1>1. /\ tileList \in Seq(Node) /\ Agree(tileList, tileMap, {})
      /\ tileMap \in UNION {[K -> Cell] : K \in SUBSET Key}
  BY IndexAgrees DEF CacheInv, TypeOK
<1>2. i \in DOMAIN tileList /\ tileList[i].key = k
  BY <1>1, AgreeLookup
<1> HIDE DEF i
<1>3. l \in Seq(Node)
  BY <1>1, <1>2, ErasedProperties
<1>4. Agree(l, m, {})
  BY <1>1, <1>2, AgreeRemove
<1>5. MemoryOf(tileList) = currentSize /\ currentSize \in Nat
  BY DEF CacheInv, TypeOK, SizeIsAccounted
<1>6. /\ MemoryOf(l) = MemoryOf(tileList) - tileList[i].tile.weight
      /\ MemoryOf(l) \in Nat
  BY <1>1, <1>2, MemoryOfErased
<1>7. m \in UNION {[K -> Cell] : K \in SUBSET Key} /\ k \notin DOMAIN m
  <2>1. PICK K \in SUBSET Key : tileMap \in [K -> Cell]
    BY <1>1
  <2>2. m \in [K \ {k} -> Cell] /\ K \ {k} \in SUBSET Key
    BY <2>1 DEF Restrict
  <2> HIDE DEF m
  <2>3. QED
    BY <2>2
<1>8. QED
  BY <1>2, <1>3, <1>4, <1>5, <1>6, <1>7, Zenon DEF i, l, m

(* One lemma per operation: it keeps the inductive invariant. *)
LEMMA GetTileInv ==
  ASSUME CacheInv, NEW k \in Key, GetTile(k)
  PROVE  CacheInv'
<1>1. CASE MaxSize = 0 \/ k \notin DOMAIN tileMap
  BY <1>1 DEF GetTile, CacheInv, TypeOK, IndexMatchesList, Pending,
              SizeIsAccounted, Control
<1>2. CASE ~ (MaxSize = 0 \/ k \notin DOMAIN tileMap)
  <2> DEFINE l == MoveToFront(tileList, PosOf(tileList, tileMap[k]))
  <2>1. /\ pc = "idle" /\ pc' = "idle" /\ k \in DOMAIN tileMap
        /\ held' = tileMap[k] /\ tileList' = l
        /\ UNCHANGED <<tileMap, currentSize, arg>> /\ asked' \in Key \cup {NULL}
    BY <1>2 DEF GetTile
  <2>2. /\ l \in Seq(Node) /\ Agree(l, tileMap, {})
        /\ MemoryOf(l) = MemoryOf(tileList)
        /\ Cells(l) = Cells(tileList) /\ tileMap[k] \in Cells(tileList)
    BY <2>1, TouchInv
  <2> HIDE DEF l
  <2>3. TypeOK'
    BY <2>1, <2>2 DEF CacheInv, TypeOK
  <2>4. IndexMatchesList'
    BY <2>1, <2>2 DEF IndexMatchesList, Agree, Distinct, Pending
  <2>5. SizeIsAccounted'
    BY <2>1, <2>2 DEF CacheInv, SizeIsAccounted
  <2>6. Control'
    BY <2>1 DEF CacheInv, Control
  <2>7. QED
    BY <2>3, <2>4, <2>5, <2>6 DEF CacheInv
<1>3. QED
  BY <1>1, <1>2

(* A caller that lets go of its tile changes nothing else. *)
LEMMA DropPointerInv ==
  ASSUME CacheInv, DropPointer
  PROVE  CacheInv'
BY DEF DropPointer, CacheInv, TypeOK, IndexMatchesList, Pending,
       SizeIsAccounted, Control

(* insert() touches, removes or leaves the node of its key. *)
LEMMA InsertBeginInv ==
  ASSUME CacheInv, NEW k \in Key, NEW t \in Tile, InsertBegin(k, t)
  PROVE  CacheInv'
<1> DEFINE i == PosOf(tileList, tileMap[k])
           a == [key |-> k, tile |-> t]
<1>1. /\ pc = "idle" /\ held = NULL /\ held' = NULL /\ MaxSize # 0
      /\ asked' \in Key \cup {NULL}
  BY DEF InsertBegin, CacheInv, TypeOK
<1>2. a \in Entry /\ a.key = k /\ a # NULL
  BY NullAssumption DEF Entry
<1>3. CASE k \notin DOMAIN tileMap
  <2>1. pc' = "push" /\ arg' = a /\ UNCHANGED <<tileList, tileMap, currentSize>>
    BY <1>3 DEF InsertBegin
  <2> HIDE DEF a
  <2>2. TypeOK'
    BY <1>1, <1>2, <2>1 DEF CacheInv, TypeOK
  <2>3. IndexMatchesList' /\ SizeIsAccounted'
    BY <1>1, <2>1 DEF CacheInv, IndexMatchesList, Pending, SizeIsAccounted
  <2>4. Control'
    BY <1>1, <1>2, <1>3, <2>1 DEF CacheInv, Control
  <2>5. QED
    BY <2>2, <2>3, <2>4 DEF CacheInv
<1>4. CASE k \in DOMAIN tileMap /\ tileList[i].tile.stamp < t.stamp
  <2> DEFINE l == Erased(tileList, i)
             m == Restrict(tileMap, DOMAIN tileMap \ {k})
  <2>1. /\ pc' = "push" /\ arg' = a
        /\ tileList' = l /\ tileMap' = m
        /\ currentSize' = currentSize - tileList[i].tile.weight
    BY <1>4 DEF InsertBegin, RemoveNode
  <2>2. /\ l \in Seq(Node) /\ m \in UNION {[K -> Cell] : K \in SUBSET Key}
        /\ k \notin DOMAIN m /\ Agree(l, m, {})
        /\ MemoryOf(l) = currentSize - tileList[i].tile.weight
        /\ MemoryOf(l) \in Nat
    BY <1>1, <1>4, RemoveInv, Zenon
  <2> HIDE DEF a, i, l, m
  <2>3. TypeOK'
    BY <1>1, <1>2, <2>1, <2>2 DEF TypeOK
  <2>4. IndexMatchesList'
    BY <2>1, <2>2 DEF IndexMatchesList, Agree, Distinct, Pending
  <2>5. SizeIsAccounted'
    BY <2>1, <2>2 DEF SizeIsAccounted
  <2>6. Control'
    BY <1>1, <1>2, <2>1, <2>2 DEF Control
  <2>7. QED
    BY <2>3, <2>4, <2>5, <2>6 DEF CacheInv
<1>5. CASE k \in DOMAIN tileMap /\ ~ (tileList[i].tile.stamp < t.stamp)
  <2> DEFINE l == MoveToFront(tileList, i)
  <2>1. tileList' = l /\ UNCHANGED <<tileMap, currentSize, pc, arg>>
    BY <1>5 DEF InsertBegin
  <2>2. /\ l \in Seq(Node) /\ Agree(l, tileMap, {})
        /\ MemoryOf(l) = MemoryOf(tileList)
    BY <1>1, <1>5, TouchInv
  <2> HIDE DEF a, i, l
  <2>3. TypeOK'
    BY <1>1, <2>1, <2>2 DEF CacheInv, TypeOK
  <2>4. IndexMatchesList'
    BY <1>1, <2>1, <2>2 DEF IndexMatchesList, Agree, Distinct, Pending
  <2>5. SizeIsAccounted'
    BY <1>1, <2>1, <2>2 DEF CacheInv, SizeIsAccounted
  <2>6. Control'
    BY <1>1, <2>1 DEF CacheInv, Control
  <2>7. QED
    BY <2>3, <2>4, <2>5, <2>6 DEF CacheInv
<1>6. QED
  BY <1>3, <1>4, <1>5

(* The pushed node has an address and a key of its own. *)
LEMMA PushFrontInv ==
  ASSUME CacheInv, PushFront
  PROVE  CacheInv'
<1>1. /\ pc = "push" /\ pc' = "index" /\ held = NULL /\ held' = NULL /\ MaxSize # 0
      /\ UNCHANGED <<tileMap, currentSize, arg>> /\ asked' \in Key \cup {NULL}
      /\ arg \in Entry /\ arg # NULL /\ arg.key \notin DOMAIN tileMap
  BY DEF PushFront, CacheInv, TypeOK, Control
<1>2. /\ tileList \in Seq(Node) /\ Agree(tileList, tileMap, {})
      /\ MemoryOf(tileList) = currentSize /\ currentSize \in Nat
  BY <1>1, IndexAgrees DEF CacheInv, TypeOK, SizeIsAccounted
<1>3. PICK c \in Cell \ Cells(tileList) :
        tileList' = Pushed([cell |-> c, key |-> arg.key, tile |-> arg.tile], tileList)
  BY DEF PushFront
<1> DEFINE e == [cell |-> c, key |-> arg.key, tile |-> arg.tile]
           l == Pushed(e, tileList)
<1>4. /\ e \in Node /\ e.cell \notin Cells(tileList)
      /\ e.key = arg.key /\ e.tile = arg.tile
  BY <1>1, <1>3 DEF Node, Entry
<1> HIDE DEF e
<1>5. l \in Seq(Node) /\ Len(l) = Len(tileList) + 1 /\ l[1] = e
  BY <1>2, <1>4, PushedProperties
<1>6. Agree(l, tileMap, {1})
  BY <1>1, <1>2, <1>4, AgreePush
<1>7. MemoryOf(l) = MemoryOf(tileList) + e.tile.weight
  BY <1>2, <1>4, MemoryOfPushed
<1>8. tileList' = l
  BY <1>3 DEF e
<1>9. l # <<>>
  BY <1>2, <1>5
<1> HIDE DEF l
<1>10. TypeOK'
  BY <1>1, <1>2, <1>5, <1>8 DEF CacheInv, TypeOK
<1>11. IndexMatchesList'
  BY <1>1, <1>6, <1>8 DEF IndexMatchesList, Agree, Distinct, Pending
<1>12. SizeIsAccounted'
  BY <1>1, <1>2, <1>4, <1>7, <1>8 DEF SizeIsAccounted
<1>13. Control'
  BY <1>1, <1>4, <1>5, <1>8, <1>9 DEF Control
<1>14. QED
  BY <1>10, <1>11, <1>12, <1>13 DEF CacheInv

(* The index gets the entry that was missing. *)
LEMMA StoreIndexInv ==
  ASSUME CacheInv, StoreIndex
  PROVE  CacheInv'
<1>1. /\ pc = "index" /\ pc' = "account" /\ held = NULL /\ held' = NULL
      /\ UNCHANGED <<tileList, currentSize, arg>> /\ asked' \in Key \cup {NULL}
      /\ arg \in Entry /\ arg # NULL
      /\ tileList # <<>> /\ tileList[1].key = arg.key
  BY DEF StoreIndex, CacheInv, TypeOK, Control
<1>2. tileList \in Seq(Node) /\ Agree(tileList, tileMap, {1})
  BY <1>1, IndexAgrees DEF CacheInv, TypeOK
<1> DEFINE m == [k \in DOMAIN tileMap \cup {tileList[1].key} |->
                   IF k = tileList[1].key THEN tileList[1].cell ELSE tileMap[k]]
<1>3. tileMap' = m
  BY <1>1 DEF StoreIndex, Begin
<1>4. Agree(tileList, m, {})
  BY <1>1, <1>2, AgreeIndex
<1>5. m \in UNION {[K -> Cell] : K \in SUBSET Key}
  <2>1. PICK K \in SUBSET Key : tileMap \in [K -> Cell]
    BY DEF CacheInv, TypeOK
  <2>2. tileList[1] \in Node
    BY <1>1, <1>2
  <2>3. tileList[1].key \in Key /\ tileList[1].cell \in Cell
    BY <2>2 DEF Node
  <2>4. /\ m \in [K \cup {tileList[1].key} -> Cell]
        /\ K \cup {tileList[1].key} \in SUBSET Key
    BY <2>1, <2>3
  <2> HIDE DEF m
  <2>5. QED
    BY <2>4
<1> HIDE DEF m
<1>6. TypeOK'
  BY <1>1, <1>2, <1>3, <1>5 DEF CacheInv, TypeOK
<1>7. IndexMatchesList'
  BY <1>1, <1>3, <1>4 DEF IndexMatchesList, Agree, Distinct, Pending
<1>8. SizeIsAccounted' /\ Control'
  BY <1>1 DEF CacheInv, SizeIsAccounted, Control
<1>9. QED
  BY <1>6, <1>7, <1>8 DEF CacheInv

(* The running total catches up with the list. *)
LEMMA AccountInv ==
  ASSUME CacheInv, Account
  PROVE  CacheInv'
<1>1. /\ pc = "account" /\ pc' = "evict" /\ arg' = NULL
      /\ held = NULL /\ held' = NULL
      /\ currentSize' = currentSize + arg.tile.weight
      /\ UNCHANGED <<tileList, tileMap>> /\ MaxSize # 0
      /\ asked' \in Key \cup {NULL}
  BY DEF Account, CacheInv, TypeOK, Control
<1>2. MemoryOf(tileList) = currentSize' /\ tileList \in Seq(Node)
  BY <1>1 DEF CacheInv, TypeOK, SizeIsAccounted
<1>3. currentSize' \in Nat
  BY <1>2, MemoryOfRunningSum
<1>4. TypeOK'
  BY <1>1, <1>3 DEF CacheInv, TypeOK
<1>5. IndexMatchesList'
  BY <1>1 DEF CacheInv, IndexMatchesList, Pending
<1>6. SizeIsAccounted'
  BY <1>1, <1>2, <1>3 DEF SizeIsAccounted
<1>7. Control'
  BY <1>1 DEF Control
<1>8. QED
  BY <1>4, <1>5, <1>6, <1>7 DEF CacheInv

(* An eviction takes the last node out of list, index and total. *)
LEMMA EvictLastInv ==
  ASSUME CacheInv, EvictLast
  PROVE  CacheInv'
<1> DEFINE k == Back(tileList).key
           i == PosOf(tileList, tileMap[k])
           l == Erased(tileList, i)
           m == Restrict(tileMap, DOMAIN tileMap \ {k})
<1>1. /\ pc = "evict" /\ pc' = "evict" /\ held = NULL /\ held' = NULL /\ MaxSize # 0
      /\ arg = NULL /\ arg' = NULL /\ k \in DOMAIN tileMap
      /\ tileList' = l /\ tileMap' = m /\ asked' \in Key \cup {NULL}
      /\ currentSize' = currentSize - tileList[i].tile.weight
  BY DEF EvictLast, RemoveNode, CacheInv, TypeOK, Control
<1> HIDE DEF k
<1>2. /\ l \in Seq(Node) /\ m \in UNION {[K -> Cell] : K \in SUBSET Key}
      /\ Agree(l, m, {})
      /\ MemoryOf(l) = currentSize - tileList[i].tile.weight
      /\ MemoryOf(l) \in Nat
  BY <1>1, RemoveInv, Zenon
<1> HIDE DEF i, l, m
<1>3. TypeOK'
  BY <1>1, <1>2 DEF TypeOK
<1>4. IndexMatchesList'
  BY <1>1, <1>2 DEF IndexMatchesList, Agree, Distinct, Pending
<1>5. SizeIsAccounted'
  BY <1>1, <1>2 DEF SizeIsAccounted
<1>6. Control'
  BY <1>1 DEF Control
<1>7. QED
  BY <1>3, <1>4, <1>5, <1>6 DEF CacheInv

(* insert() returns with the running total within the limit. *)
LEMMA InsertEndInv ==
  ASSUME CacheInv, InsertEnd
  PROVE  CacheInv'
BY DEF InsertEnd, CacheInv, TypeOK, IndexMatchesList, Pending,
       SizeIsAccounted, Control

(* clear() empties the list, the index and the total together. *)
LEMMA ClearInv ==
  ASSUME CacheInv, ClearBetweenCalls
  PROVE  CacheInv'
<1>1. /\ pc = "idle" /\ pc' = "idle" /\ held' \in Cell \cup {NULL}
      /\ arg = NULL /\ arg' = NULL /\ currentSize' = 0
      /\ tileList' = <<>> /\ tileMap' = [k \in {} |-> NULL]
      /\ asked' \in Key \cup {NULL}
  BY DEF ClearBetweenCalls, Clear, CacheInv, TypeOK
<1>2. TypeOK'
  <2>1. tileMap' \in [{} -> Cell] /\ {} \in SUBSET Key
    BY <1>1
  <2>2. tileMap' \in UNION {[K -> Cell] : K \in SUBSET Key}
    BY <2>1
  <2>3. tileList' \in Seq(Node) /\ currentSize' \in Nat /\ arg' \in Entry \cup {NULL}
    BY <1>1
  <2>4. QED
    BY <1>1, <2>2, <2>3, Zenon DEF TypeOK
<1>3. IndexMatchesList'
  BY <1>1 DEF IndexMatchesList
<1>4. SizeIsAccounted'
  BY <1>1, MemoryOfEmpty DEF SizeIsAccounted
<1>5. Control'
  BY <1>1, MaxSizeAssumption DEF Control
<1>6. QED
  BY <1>2, <1>3, <1>4, <1>5 DEF CacheInv

(* Every step of the cache keeps the invariant. *)
LEMMA NextInv == CacheInv /\ [CacheNext]_cacheVars => CacheInv'
<1> SUFFICES ASSUME CacheInv, [CacheNext]_cacheVars PROVE CacheInv'
  OBVIOUS
<1>1. CASE \E k \in Key : GetTile(k)
  BY <1>1, GetTileInv
<1>2. CASE DropPointer
  BY <1>2, DropPointerInv
<1>3. CASE \E k \in Key, t \in Tile : InsertBegin(k, t)
  BY <1>3, InsertBeginInv
<1>4. CASE PushFront
  BY <1>4, PushFrontInv
<1>5. CASE StoreIndex
  BY <1>5, StoreIndexInv
<1>6. CASE Account
  BY <1>6, AccountInv
<1>7. CASE EvictLast
  BY <1>7, EvictLastInv
<1>8. CASE InsertEnd
  BY <1>8, InsertEndInv
<1>9. CASE ClearBetweenCalls
  BY <1>9, ClearInv
<1>10. CASE UNCHANGED cacheVars
  BY <1>10 DEF cacheVars, CacheInv, TypeOK, IndexMatchesList, Pending,
               SizeIsAccounted, Control
<1>11. QED
  BY <1>1, <1>2, <1>3, <1>4, <1>5, <1>6, <1>7, <1>8, <1>9, <1>10
     DEF CacheNext, Insert

(* The inductive invariant holds in every state of the cache. *)
THEOREM CacheInvariant == CacheSpec => []CacheInv
BY InitInv, NextInv, PTL DEF CacheSpec

-----------------------------------------------------------------------------
(* The variables of class Cache keep their types; in particular the         *)
(* unsigned currentSize is never asked to go below zero by _remove.         *)
THEOREM TypeCorrect == CacheSpec => []TypeOK
<1>1. CacheInv => TypeOK
  BY DEF CacheInv
<1>2. QED
  BY <1>1, CacheInvariant, PTL

(* The list and the index describe the same tiles at every statement of     *)
(* getTile, insert and clear.                                               *)
THEOREM IndexCorrect == CacheSpec => []IndexMatchesList
<1>1. CacheInv => IndexMatchesList
  BY DEF CacheInv
<1>2. QED
  BY <1>1, CacheInvariant, PTL

(* The running total that getMemorySize() reports is the memory held. *)
THEOREM AccountingCorrect == CacheSpec => []SizeIsAccounted
<1>1. CacheInv => SizeIsAccounted
  BY DEF CacheInv
<1>2. QED
  BY <1>1, CacheInvariant, PTL

(* Between calls the cache keeps within MAX_IMAGE_CACHE_SIZE. *)
THEOREM MemoryBoundCorrect == CacheSpec => []MemoryBounded
<1>1. CacheInv => MemoryBounded
  BY DEF CacheInv, TypeOK, SizeIsAccounted, Control, MemoryBounded
<1>2. QED
  BY <1>1, CacheInvariant, PTL

(* In the eviction loop the last node of the list is the one that the index *)
(* leads to.                                                                *)
LEMMA LastIsVictim == CacheInv => VictimIsLast
<1>1. SUFFICES ASSUME CacheInv, pc = "evict", currentSize > MaxSize
               PROVE  /\ tileList # <<>>
                      /\ Back(tileList).key \in DOMAIN tileMap
                      /\ PosOf(tileList, tileMap[Back(tileList).key]) = Len(tileList)
  BY DEF VictimIsLast
<1>2. /\ tileList \in Seq(Node) /\ Agree(tileList, tileMap, {})
      /\ MemoryOf(tileList) = currentSize /\ currentSize \in Nat
  BY <1>1, IndexAgrees DEF CacheInv, TypeOK, SizeIsAccounted
<1>3. tileList # <<>>
  BY <1>1, <1>2, MemoryOfEmpty, MaxSizeAssumption
<1> DEFINE n == Len(tileList)
<1>4. n \in DOMAIN tileList /\ Back(tileList) = tileList[n]
  BY <1>2, <1>3 DEF Back
<1>5. /\ tileList[n].key \in DOMAIN tileMap
      /\ tileMap[tileList[n].key] = tileList[n].cell
  BY <1>4, <1>2 DEF Agree
<1>6. PosOf(tileList, tileList[n].cell) = n
  BY <1>2, <1>4, PosOfNode DEF Agree
<1>7. QED
  BY <1>3, <1>4, <1>5, <1>6

(* The eviction loop of insert() never steps back from the end of an empty  *)
(* list, and removes the least recently used tile.                          *)
THEOREM VictimCorrect == CacheSpec => []VictimIsLast
BY LastIsVictim, CacheInvariant, PTL

-----------------------------------------------------------------------------
(* TileCache implements TileStore: the initial state of the LRU cache is an *)
(* empty lossy map, and each of its steps is a step of the map, or leaves   *)
(* the map as it is.                                                        *)

(* The tile behind an address in the list l. *)
Val(l, c) == l[PosOf(l, c)].tile

(* The refinement mapping, as TileCache gives it to TileStore. *)
AbsStore == [k \in DOMAIN tileMap |-> Val(tileList, tileMap[k])]
AbsResult == IF held \in Cells(tileList) THEN Val(tileList, held) ELSE NULL

(* A node that is in two lists has the same tile behind its address in both. *)
LEMMA ValOfNode ==
  ASSUME NEW l \in Seq(Node), Distinct(l), NEW i \in DOMAIN l
  PROVE  Val(l, l[i].cell) = l[i].tile
BY PosOfNode DEF Val

(* The index leads to the tile of its key, at every statement. *)
LEMMA IndexedNode ==
  ASSUME CacheInv, NEW k \in DOMAIN tileMap
  PROVE  \E i \in DOMAIN tileList :
           /\ tileList[i].key = k /\ tileList[i].cell = tileMap[k]
           /\ Val(tileList, tileMap[k]) = tileList[i].tile
<1>1. tileList \in Seq(Node) /\ Distinct(tileList)
  BY DEF CacheInv, TypeOK, IndexMatchesList, Distinct
<1>2. PICK i \in DOMAIN tileList : tileList[i].key = k /\ tileList[i].cell = tileMap[k]
  BY DEF CacheInv, IndexMatchesList
<1>3. QED
  BY <1>1, <1>2, ValOfNode

(* A step that keeps a node keeps what its key is mapped to. *)
LEMMA ValKept ==
  ASSUME CacheInv, CacheInv', NEW i \in DOMAIN tileList, NEW j \in DOMAIN tileList',
         tileList'[j] = tileList[i]
  PROVE  Val(tileList', tileList[i].cell) = Val(tileList, tileList[i].cell)
<1>1. /\ tileList \in Seq(Node) /\ Distinct(tileList)
      /\ tileList' \in Seq(Node) /\ Distinct(tileList')
  BY DEF CacheInv, TypeOK, IndexMatchesList, Distinct
<1>2. Val(tileList, tileList[i].cell) = tileList[i].tile
  BY <1>1, ValOfNode
<1>3. Val(tileList', tileList'[j].cell) = tileList'[j].tile
  BY <1>1, ValOfNode
<1>4. QED
  BY <1>2, <1>3

(* A step that keeps the index and every node keeps the map. *)
LEMMA StoreKept ==
  ASSUME CacheInv, CacheInv', tileMap' = tileMap,
         \A i \in DOMAIN tileList : \E j \in DOMAIN tileList' : tileList'[j] = tileList[i]
  PROVE  AbsStore' = AbsStore
<1>1. ASSUME NEW k \in DOMAIN tileMap
      PROVE  Val(tileList', tileMap[k]) = Val(tileList, tileMap[k])
  <2>1. PICK i \in DOMAIN tileList : tileList[i].cell = tileMap[k]
    BY IndexedNode
  <2>2. PICK j \in DOMAIN tileList' : tileList'[j] = tileList[i]
    OBVIOUS
  <2>3. QED
    BY <2>1, <2>2, ValKept
<1>2. QED
  BY <1>1 DEF AbsStore

(* No node of a list is at the null address. *)
LEMMA NoNullCell ==
  ASSUME NEW l \in Seq(Node)
  PROVE  NULL \notin Cells(l)
<1>1. \A i \in DOMAIN l : l[i] \in Node
  OBVIOUS
<1>2. \A e \in Node : e.cell \in Cell
  BY DEF Node
<1>3. QED
  BY <1>1, <1>2, NullAssumption DEF Cells

(* A caller that holds no pointer holds no tile. *)
LEMMA NothingHeld ==
  ASSUME tileList \in Seq(Node), held = NULL
  PROVE  AbsResult = NULL
BY NoNullCell DEF AbsResult

(* ... nor after a step that leaves it without one. *)
LEMMA NothingHeldNext ==
  ASSUME tileList' \in Seq(Node), held' = NULL
  PROVE  AbsResult' = NULL
BY NoNullCell DEF AbsResult

(* The list is a list of nodes before and after a step. *)
LEMMA ListTyped == (CacheInv => tileList \in Seq(Node)) /\ (CacheInv' => tileList' \in Seq(Node))
BY DEF CacheInv, TypeOK

(* A step that erases the node of a key takes that key out of the map. *)
LEMMA StoreForgets ==
  ASSUME CacheInv, CacheInv', pc \in {"idle", "evict"}, NEW k \in DOMAIN tileMap,
         RemoveNode(k, PosOf(tileList, tileMap[k]))
  PROVE  AbsStore' = Restrict(AbsStore, DOMAIN AbsStore \ {k})
<1> DEFINE i == PosOf(tileList, tileMap[k])
<1>1. i \in DOMAIN tileList /\ tileList[i].key = k
  BY RemoveInv, Zenon
<1>2. tileList' = Erased(tileList, i) /\ tileMap' = Restrict(tileMap, DOMAIN tileMap \ {k})
  BY DEF RemoveNode
<1> HIDE DEF i
<1>3. tileList \in Seq(Node) /\ Distinct(tileList)
  BY DEF CacheInv, TypeOK, IndexMatchesList, Distinct
<1>4. \A n \in DOMAIN tileList : n # i => \E j \in DOMAIN tileList' : tileList'[j] = tileList[n]
  BY <1>1, <1>2, <1>3, ErasedNodes
<1>5. /\ DOMAIN tileMap' = DOMAIN tileMap \ {k}
      /\ \A m \in DOMAIN tileMap' : tileMap'[m] = tileMap[m]
  BY <1>2 DEF Restrict
<1>6. ASSUME NEW m \in DOMAIN tileMap \ {k}
      PROVE  Val(tileList', tileMap'[m]) = Val(tileList, tileMap[m])
  <2>1. PICK n \in DOMAIN tileList : tileList[n].key = m /\ tileList[n].cell = tileMap[m]
    BY IndexedNode
  <2>2. n # i
    BY <1>1, <2>1
  <2>3. PICK j \in DOMAIN tileList' : tileList'[j] = tileList[n]
    BY <1>4, <2>2
  <2>4. QED
    BY <1>5, <2>1, <2>3, ValKept
<1>7. DOMAIN AbsStore = DOMAIN tileMap
  BY DEF AbsStore
<1>8. QED
  BY <1>5, <1>6, <1>7 DEF AbsStore, Restrict

-----------------------------------------------------------------------------
(* The actions of TileStore under the mapping. *)
LEMMA GetMaps ==
  ASSUME NEW k \in Key, AbsStore' = AbsStore,
         AbsResult' = IF k \in DOMAIN AbsStore THEN AbsStore[k] ELSE NULL
  PROVE  Store!Get(k)
BY DEF Store!Get, Store!Find, AbsStore, AbsResult, Val, TileAt

(* A step that only gives up the tile is a Release. *)
LEMMA ReleaseMaps ==
  ASSUME AbsStore' = AbsStore, AbsResult' = NULL
  PROVE  Store!Release
BY DEF Store!Release, AbsStore, AbsResult, Val, TileAt

(* A step that only takes tiles away is a Forget. *)
LEMMA ForgetMaps ==
  ASSUME NEW K \in SUBSET Key, AbsResult = NULL, AbsResult' = NULL,
         AbsStore' = Restrict(AbsStore, DOMAIN AbsStore \ K)
  PROVE  Store!Forget(K)
BY DEF Store!Forget, AbsStore, AbsResult, Val, TileAt, Restrict, Store!Restrict

(* A step that only adds a tile is a Put. *)
LEMMA PutMaps ==
  ASSUME NEW k \in Key, NEW t \in Tile, AbsResult' = AbsResult,
         k \notin DOMAIN AbsStore,
         AbsStore' = [j \in DOMAIN AbsStore \cup {k} |-> IF j = k THEN t ELSE AbsStore[j]]
  PROVE  Store!Put(k, t)
BY DEF Store!Put, AbsStore, AbsResult, Val, TileAt

(* A step that a caller does not see is a stutter. *)
LEMMA StutterMaps ==
  ASSUME AbsStore' = AbsStore, AbsResult' = AbsResult, asked' = asked
  PROVE  UNCHANGED Store!storeVars
BY DEF Store!storeVars, AbsStore, AbsResult, Val, TileAt

(* The empty cache is the empty map. *)
LEMMA InitMaps == CacheInit => Store!StoreInit /\ asked = NULL
<1> SUFFICES ASSUME CacheInit PROVE Store!StoreInit /\ asked = NULL
  OBVIOUS
<1>1. Cells(tileList) = {} /\ DOMAIN tileMap = {} /\ asked = NULL
  BY DEF CacheInit, Cells
<1>2. QED
  BY <1>1 DEF Store!StoreInit

-----------------------------------------------------------------------------
(* One lemma per operation: its step is a step of the map, or none. *)
LEMMA GetTileMaps ==
  ASSUME CacheInv, CacheInv', NEW k \in Key, GetTile(k)
  PROVE  Store!Get(k)
<1>1. CASE k \notin DOMAIN tileMap
  <2>1. held' = NULL /\ UNCHANGED <<tileList, tileMap>>
    BY <1>1 DEF GetTile
  <2>2. AbsStore' = AbsStore /\ AbsResult' = NULL /\ k \notin DOMAIN AbsStore
    BY <1>1, <2>1, NothingHeldNext, ListTyped DEF AbsStore
  <2>3. QED
    BY <2>2, GetMaps
<1>2. CASE k \in DOMAIN tileMap
  <2> DEFINE i == PosOf(tileList, tileMap[k])
  <2>1. MaxSize # 0 /\ pc = "idle"
    BY <1>2 DEF CacheInv, Control, GetTile
  <2>2. held' = tileMap[k] /\ tileMap' = tileMap /\ tileList' = MoveToFront(tileList, i)
    BY <1>2, <2>1 DEF GetTile
  <2>3. i \in DOMAIN tileList /\ tileMap[k] \in Cells(tileList)
    BY <1>2, <2>1, TouchInv
  <2> HIDE DEF i
  <2>4. tileList \in Seq(Node) /\ Distinct(tileList)
    BY DEF CacheInv, TypeOK, IndexMatchesList, Distinct
  <2>5. \A n \in DOMAIN tileList : \E j \in DOMAIN tileList' : tileList'[j] = tileList[n]
    BY <2>2, <2>3, <2>4, MoveToFrontNodes
  <2>6. AbsStore' = AbsStore
    BY <2>2, <2>5, StoreKept
  <2>7. held' \in Cells(tileList')
    <3>1. PICK n \in DOMAIN tileList : tileList[n].cell = tileMap[k]
      BY <2>3 DEF Cells
    <3>2. PICK j \in DOMAIN tileList' : tileList'[j] = tileList[n]
      BY <2>5
    <3>3. QED
      BY <2>2, <3>1, <3>2 DEF Cells
  <2>8. AbsResult' = AbsStore'[k]
    BY <1>2, <2>2, <2>7 DEF AbsResult, AbsStore
  <2>9. k \in DOMAIN AbsStore
    BY <1>2 DEF AbsStore
  <2>10. QED
    BY <2>6, <2>8, <2>9, GetMaps
<1>3. QED
  BY <1>1, <1>2

(* A caller that lets go of its tile releases it. *)
LEMMA DropPointerMaps ==
  ASSUME CacheInv, CacheInv', DropPointer
  PROVE  Store!Release
<1>1. AbsStore' = AbsStore /\ AbsResult' = NULL
  BY NothingHeldNext, ListTyped DEF DropPointer, AbsStore
<1>2. QED
  BY <1>1, ReleaseMaps

(* The removal of an older tile of the same key forgets it. *)
LEMMA InsertBeginMaps ==
  ASSUME CacheInv, CacheInv', NEW k \in Key, NEW t \in Tile, InsertBegin(k, t)
  PROVE  Store!Forget({k}) \/ UNCHANGED Store!storeVars
<1> DEFINE i == PosOf(tileList, tileMap[k])
<1>1. pc = "idle" /\ AbsResult = NULL /\ AbsResult' = NULL /\ asked' = asked
  BY NothingHeld, NothingHeldNext, ListTyped DEF InsertBegin
<1>2. CASE k \notin DOMAIN tileMap
  <2>1. AbsStore' = AbsStore
    BY <1>2 DEF InsertBegin, AbsStore
  <2>2. QED
    BY <1>1, <2>1, StutterMaps
<1>3. CASE k \in DOMAIN tileMap /\ tileList[i].tile.stamp < t.stamp
  <2>1. RemoveNode(k, i)
    BY <1>3 DEF InsertBegin
  <2>2. AbsStore' = Restrict(AbsStore, DOMAIN AbsStore \ {k})
    BY <1>1, <1>3, <2>1, StoreForgets
  <2>3. {k} \in SUBSET Key
    OBVIOUS
  <2>4. QED
    BY <1>1, <2>2, <2>3, ForgetMaps
<1>4. CASE k \in DOMAIN tileMap /\ ~ (tileList[i].tile.stamp < t.stamp)
  <2>1. tileList' = MoveToFront(tileList, i) /\ tileMap' = tileMap
    BY <1>4 DEF InsertBegin
  <2>2. i \in DOMAIN tileList
    BY <1>1, <1>4, TouchInv
  <2> HIDE DEF i
  <2>3. tileList \in Seq(Node) /\ Distinct(tileList)
    BY DEF CacheInv, TypeOK, IndexMatchesList, Distinct
  <2>4. \A n \in DOMAIN tileList : \E j \in DOMAIN tileList' : tileList'[j] = tileList[n]
    BY <2>1, <2>2, <2>3, MoveToFrontNodes
  <2>5. AbsStore' = AbsStore
    BY <2>1, <2>4, StoreKept
  <2>6. QED
    BY <1>1, <2>5, StutterMaps
<1>5. QED
  BY <1>2, <1>3, <1>4

(* A push at the front keeps every node. *)
LEMMA PushedNodes ==
  ASSUME NEW l \in Seq(Node), NEW e \in Node
  PROVE  \A n \in DOMAIN l : \E j \in DOMAIN Pushed(e, l) : Pushed(e, l)[j] = l[n]
<1>1. /\ DOMAIN Pushed(e, l) = 1..(Len(l) + 1)
      /\ \A j \in 2..(Len(l) + 1) : Pushed(e, l)[j] = l[j - 1]
  BY DEF Pushed
<1>2. \A n \in DOMAIN l : n + 1 \in 2..(Len(l) + 1) /\ n + 1 \in 1..(Len(l) + 1) /\ (n + 1) - 1 = n
  OBVIOUS
<1>3. QED
  BY <1>1, <1>2

(* A node that is not in the index is not seen. *)
LEMMA PushFrontMaps ==
  ASSUME CacheInv, CacheInv', PushFront
  PROVE  UNCHANGED Store!storeVars
<1>1. held = NULL /\ held' = NULL /\ asked' = asked
  BY DEF CacheInv, Control, PushFront
<1>2. tileMap' = tileMap /\ tileList \in Seq(Node) /\ tileList' \in Seq(Node)
  BY DEF PushFront, CacheInv, TypeOK
<1>3. \A n \in DOMAIN tileList : \E j \in DOMAIN tileList' : tileList'[j] = tileList[n]
  <2>1. PICK c \in Cell \ Cells(tileList) :
           tileList' = Pushed([cell |-> c, key |-> arg.key, tile |-> arg.tile], tileList)
    BY DEF PushFront
  <2> DEFINE e == [cell |-> c, key |-> arg.key, tile |-> arg.tile]
  <2>2. e \in Node
    <3>1. arg \in Entry
      BY DEF CacheInv, TypeOK, PushFront
    <3>2. QED
      BY <3>1 DEF Entry, Node
  <2> HIDE DEF e
  <2>3. \A n \in DOMAIN tileList :
          \E j \in DOMAIN Pushed(e, tileList) : Pushed(e, tileList)[j] = tileList[n]
    BY <1>2, <2>2, PushedNodes
  <2>4. QED
    BY <2>1, <2>3 DEF e
<1>4. AbsStore' = AbsStore
  BY <1>2, <1>3, StoreKept
<1>5. AbsResult' = AbsResult
  BY <1>1, NothingHeld, NothingHeldNext, ListTyped
<1>6. QED
  BY <1>1, <1>4, <1>5, StutterMaps

(* The new tile is found from the moment it is indexed. *)
LEMMA StoreIndexMaps ==
  ASSUME CacheInv, CacheInv', StoreIndex
  PROVE  Store!Put(arg.key, arg.tile)
<1> DEFINE k == arg.key
           c == tileList[1].cell
<1>1. /\ held = NULL /\ held' = NULL /\ tileList' = tileList /\ pc = "index"
      /\ tileList # <<>> /\ tileList[1].key = k /\ tileList[1].tile = arg.tile
  BY DEF StoreIndex, CacheInv, Control
<1>2. arg \in Entry
  BY <1>1 DEF CacheInv, TypeOK
<1>3. k \in Key /\ arg.tile \in Tile
  BY <1>2 DEF Entry
<1>4. tileList \in Seq(Node) /\ Distinct(tileList)
  BY DEF CacheInv, TypeOK, IndexMatchesList, Distinct
<1>5. 1 \in DOMAIN tileList
  BY <1>1, <1>4
<1>6. k \notin DOMAIN tileMap
  BY <1>1, <1>5 DEF CacheInv, IndexMatchesList, Pending
<1>7. Val(tileList, c) = arg.tile
  BY <1>1, <1>4, <1>5, ValOfNode
<1>8. tileMap' = [m \in DOMAIN tileMap \cup {k} |-> IF m = k THEN c ELSE tileMap[m]]
  BY <1>1 DEF StoreIndex, Begin
<1>9. DOMAIN AbsStore = DOMAIN tileMap
  BY DEF AbsStore
<1> HIDE DEF k, c
<1>10. AbsStore' = [m \in DOMAIN AbsStore \cup {k} |->
                      IF m = k THEN arg.tile ELSE AbsStore[m]]
  BY <1>1, <1>7, <1>8, <1>9 DEF AbsStore
<1>11. AbsResult' = AbsResult
  BY <1>1, NothingHeld, NothingHeldNext, ListTyped
<1>12. Store!Put(k, arg.tile)
  BY <1>3, <1>6, <1>9, <1>10, <1>11, PutMaps
<1>13. QED
  BY <1>12 DEF k

(* An eviction forgets the tile of the last node. *)
LEMMA EvictLastMaps ==
  ASSUME CacheInv, CacheInv', EvictLast
  PROVE  \E K \in SUBSET Key : Store!Forget(K)
<1> DEFINE k == Back(tileList).key
<1>1. /\ held = NULL /\ held' = NULL /\ pc = "evict"
      /\ k \in DOMAIN tileMap /\ RemoveNode(k, PosOf(tileList, tileMap[k]))
  BY DEF EvictLast, CacheInv, Control
<1> HIDE DEF k
<1>2. AbsStore' = Restrict(AbsStore, DOMAIN AbsStore \ {k})
  BY <1>1, StoreForgets
<1>3. {k} \in SUBSET Key
  BY <1>1 DEF CacheInv, TypeOK
<1>4. AbsResult = NULL /\ AbsResult' = NULL
  BY <1>1, NothingHeld, NothingHeldNext, ListTyped
<1>5. QED
  BY <1>2, <1>3, <1>4, ForgetMaps, Zenon

(* clear() empties the map and takes back the tile that was handed out. *)
LEMMA ClearMaps ==
  ASSUME Clear
  PROVE  Store!Empty
<1>1. tileList' = <<>> /\ tileMap' = [m \in {} |-> NULL]
  BY DEF Clear
<1>2. Cells(tileList') = {}
  BY <1>1 DEF Cells
<1>3. AbsResult' = NULL
  BY <1>2 DEF AbsResult
<1>4. AbsStore' = [m \in {} |-> NULL]
  BY <1>1 DEF AbsStore
<1>5. QED
  BY <1>3, <1>4 DEF Store!Empty, AbsStore, AbsResult, Val, TileAt

(* Account and InsertEnd, and a step that leaves the cache alone. *)
LEMMA QuietMaps ==
  ASSUME UNCHANGED <<tileList, tileMap, held, asked>>
  PROVE  UNCHANGED Store!storeVars
<1>1. AbsStore' = AbsStore /\ AbsResult' = AbsResult
  BY DEF AbsStore, AbsResult
<1>2. QED
  BY <1>1, StutterMaps

(* Every step of the cache is a step of the map, or a stutter. *)
LEMMA NextMaps ==
  ASSUME CacheInv, CacheInv', [CacheNext]_cacheVars
  PROVE  [Store!StoreNext]_Store!storeVars
<1>1. ASSUME NEW k \in Key, GetTile(k)
      PROVE  Store!StoreNext
  BY <1>1, GetTileMaps DEF Store!StoreNext, GetTile
<1>2. CASE DropPointer
  BY <1>2, DropPointerMaps DEF Store!StoreNext, DropPointer
<1>3. ASSUME NEW k \in Key, NEW t \in Tile, InsertBegin(k, t)
      PROVE  [Store!StoreNext]_Store!storeVars
  <2>1. Store!Forget({k}) \/ UNCHANGED Store!storeVars
    BY <1>3, InsertBeginMaps
  <2>2. {k} \in SUBSET Key
    OBVIOUS
  <2>3. asked' = asked
    BY <1>3 DEF InsertBegin
  <2>4. QED
    BY <2>1, <2>2, <2>3 DEF Store!StoreNext
<1>4. CASE PushFront
  BY <1>4, PushFrontMaps
<1>5. CASE StoreIndex
  <2>1. arg \in Entry
    BY <1>5 DEF CacheInv, TypeOK, StoreIndex
  <2>2. arg.key \in Key /\ arg.tile \in Tile
    BY <2>1 DEF Entry
  <2>3. QED
    BY <1>5, <2>2, StoreIndexMaps DEF Store!StoreNext, StoreIndex
<1>6. CASE Account
  BY <1>6, QuietMaps DEF Account
<1>7. CASE EvictLast
  BY <1>7, EvictLastMaps DEF Store!StoreNext, EvictLast
<1>8. CASE InsertEnd
  BY <1>8, QuietMaps DEF InsertEnd
<1>9. CASE ClearBetweenCalls
  BY <1>9, ClearMaps DEF Store!StoreNext, ClearBetweenCalls, Clear
<1>10. CASE UNCHANGED cacheVars
  BY <1>10, QuietMaps DEF cacheVars
<1>11. QED
  BY <1>1, <1>2, <1>3, <1>4, <1>5, <1>6, <1>7, <1>8, <1>9, <1>10 DEF CacheNext, Insert

(* Cache.h implements the lossy map that its callers rely on: a lookup      *)
(* returns the tile last stored under that very key, or nothing, for any    *)
(* set of keys, any tile sizes and any limit.                               *)
THEOREM CacheImplementsStore == CacheSpec => ImplementsStore
<1>1. CacheSpec => []CacheInv
  BY CacheInvariant
<1>2. CacheInv /\ CacheInv' /\ [CacheNext]_cacheVars => [Store!StoreNext]_Store!storeVars
  BY NextMaps
<1>3. QED
  BY <1>1, <1>2, InitMaps, PTL DEF CacheSpec, ImplementsStore, Store!StoreSpec
-----------------------------------------------------------------------------
(* Least recently used: the list is judged against the history of uses.     *)

(* No key is listed twice. *)
Once(u) == \A i, j \in DOMAIN u : i # j => u[i] # u[j]

(* The nodes of l carry the keys of u, from the key after the first d. *)
Follows(l, u, d) ==
  Len(l) + d <= Len(u) /\ \A i \in 1..Len(l) : l[i].key = u[i + d]

(* A use of a key that the history holds is a splice to the front. *)
LEMMA UsedAgain ==
  ASSUME NEW u \in Seq(Key), Once(u), NEW p \in 1..Len(u)
  PROVE  Used(u, u[p]) = MoveToFront(u, p)
<1>1. u[p] \in Range(u) /\ DOMAIN u = 1..Len(u)
  BY DEF Range
<1>2. LastUse(u, u[p]) = p
  BY <1>1 DEF LastUse, Once
<1> QED BY <1>1, <1>2, Zenon DEF Used, MoveToFront

(* A splice lists no key twice. *)
LEMMA OnceMoved ==
  ASSUME NEW u \in Seq(Key), Once(u), NEW p \in 1..Len(u)
  PROVE  Once(MoveToFront(u, p))
<1> DEFINE m == MoveToFront(u, p)
           From(j) == IF j = 1 THEN p ELSE IF j <= p THEN j - 1 ELSE j
<1>1. DOMAIN u = 1..Len(u) /\ Len(u) \in Nat /\ p \in DOMAIN u
  OBVIOUS
<1>2. /\ DOMAIN m = 1..Len(u) /\ m[1] = u[p]
      /\ \A j \in 2..Len(u) : m[j] = IF j <= p THEN u[j - 1] ELSE u[j]
  BY <1>1, MoveToFrontProperties, Zenon
<1> HIDE DEF m
<1>3. \A j \in 1..Len(u) : From(j) \in 1..Len(u) /\ m[j] = u[From(j)]
  BY <1>1, <1>2
<1>4. \A i, j \in 1..Len(u) : i # j => From(i) # From(j)
  BY <1>1
<1> HIDE DEF From
<1>5. ASSUME NEW i \in 1..Len(u), NEW j \in 1..Len(u), i # j PROVE m[i] # m[j]
  <2>1. /\ From(i) \in DOMAIN u /\ From(j) \in DOMAIN u /\ From(i) # From(j)
        /\ m[i] = u[From(i)] /\ m[j] = u[From(j)]
    BY <1>1, <1>3, <1>4, <1>5, Zenon
  <2> QED BY <2>1, Zenon DEF Once
<1>6. Once(m)
  BY <1>2, <1>5, Zenon DEF Once
<1> QED BY <1>6 DEF m

(* A use of any key leaves a history that starts with it. *)
LEMMA UsedProperties ==
  ASSUME NEW u \in Seq(Key), Once(u), NEW k \in Key
  PROVE  /\ Used(u, k) \in Seq(Key) /\ Once(Used(u, k))
         /\ Used(u, k) # <<>> /\ Used(u, k)[1] = k
<1>1. DOMAIN u = 1..Len(u) /\ Len(u) \in Nat
  OBVIOUS
<1>2. CASE k \in Range(u)
  <2>1. PICK p \in 1..Len(u) : u[p] = k
    BY <1>1, <1>2 DEF Range
  <2> DEFINE m == MoveToFront(u, p)
  <2>2. Used(u, k) = m /\ Once(m)
    BY <2>1, UsedAgain, OnceMoved, Zenon
  <2>3. m \in Seq(Key) /\ Len(m) = Len(u) /\ m[1] = u[p]
    BY <1>1, MoveToFrontProperties, Zenon
  <2> HIDE DEF m
  <2>4. m # <<>>
    BY <2>3
  <2> QED BY <2>1, <2>2, <2>3, <2>4, Zenon
<1>3. CASE k \notin Range(u)
  <2> DEFINE m == Pushed(k, u)
  <2>1. Used(u, k) = m
    BY <1>3, Zenon DEF Used
  <2>2. /\ m \in Seq(Key) /\ Len(m) = Len(u) + 1 /\ DOMAIN m = 1..(Len(u) + 1)
        /\ m[1] = k /\ \A j \in 2..(Len(u) + 1) : m[j] = u[j - 1]
    BY DEF Pushed
  <2> HIDE DEF m
  <2>3. m # <<>> /\ DOMAIN m = 1..(Len(u) + 1)
    BY <1>1, <2>2
  <2>4. \A i \in 1..Len(u) : u[i] # k
    BY <1>1, <1>3 DEF Range
  <2>5. ASSUME NEW i \in DOMAIN m, NEW j \in DOMAIN m, i # j PROVE m[i] # m[j]
    <3>1. CASE i = 1
      BY <1>1, <2>2, <2>3, <2>4, <2>5, <3>1
    <3>2. CASE j = 1
      BY <1>1, <2>2, <2>3, <2>4, <2>5, <3>2
    <3>3. CASE i # 1 /\ j # 1
      <4>1. /\ i - 1 \in DOMAIN u /\ j - 1 \in DOMAIN u /\ i - 1 # j - 1
            /\ m[i] = u[i - 1] /\ m[j] = u[j - 1]
        BY <1>1, <2>2, <2>3, <2>5, <3>3
      <4> QED BY <4>1, Zenon DEF Once
    <3> QED BY <3>1, <3>2, <3>3, Zenon
  <2>6. Once(m)
    BY <2>5, Zenon DEF Once
  <2> QED BY <2>1, <2>2, <2>3, <2>6, Zenon
<1> QED BY <1>2, <1>3

(* _touch moves the node and its key alike. *)
LEMMA FollowsMove ==
  ASSUME NEW l \in Seq(Node), NEW u \in Seq(Key), Follows(l, u, 0), NEW p \in 1..Len(l)
  PROVE  Follows(MoveToFront(l, p), MoveToFront(u, p), 0)
<1> DEFINE a == MoveToFront(l, p)
           b == MoveToFront(u, p)
<1>1. /\ DOMAIN l = 1..Len(l) /\ Len(l) \in Nat /\ DOMAIN u = 1..Len(u) /\ Len(u) \in Nat
      /\ Len(l) <= Len(u) /\ \A i \in 1..Len(l) : l[i].key = u[i]
  BY DEF Follows
<1>2. p \in DOMAIN l /\ p \in DOMAIN u
  BY <1>1
<1>3. /\ Len(a) = Len(l) /\ a[1] = l[p]
      /\ \A j \in 2..Len(l) : a[j] = IF j <= p THEN l[j - 1] ELSE l[j]
  BY <1>2, MoveToFrontProperties, Zenon
<1>4. /\ Len(b) = Len(u) /\ b[1] = u[p]
      /\ \A j \in 2..Len(u) : b[j] = IF j <= p THEN u[j - 1] ELSE u[j]
  BY <1>2, MoveToFrontProperties, Zenon
<1> HIDE DEF a, b
<1>5. \A i \in 1..Len(l) : a[i].key = b[i]
  BY <1>1, <1>3, <1>4
<1>6. Follows(a, b, 0)
  BY <1>1, <1>3, <1>4, <1>5 DEF Follows
<1> QED BY <1>6 DEF a, b

(* _remove takes the node out; its key is then the first of the history. *)
LEMMA FollowsRemove ==
  ASSUME NEW l \in Seq(Node), NEW u \in Seq(Key), Follows(l, u, 0), NEW p \in 1..Len(l)
  PROVE  Follows(Erased(l, p), MoveToFront(u, p), 1)
<1> DEFINE a == Erased(l, p)
           b == MoveToFront(u, p)
<1>1. /\ DOMAIN l = 1..Len(l) /\ Len(l) \in Nat /\ DOMAIN u = 1..Len(u) /\ Len(u) \in Nat
      /\ Len(l) <= Len(u) /\ \A i \in 1..Len(l) : l[i].key = u[i]
  BY DEF Follows
<1>2. p \in DOMAIN l /\ p \in DOMAIN u
  BY <1>1
<1>3. /\ Len(a) = Len(l) - 1
      /\ \A j \in 1..(Len(l) - 1) : a[j] = IF j < p THEN l[j] ELSE l[j + 1]
  BY <1>2, ErasedProperties, Zenon
<1>4. /\ Len(b) = Len(u)
      /\ \A j \in 2..Len(u) : b[j] = IF j <= p THEN u[j - 1] ELSE u[j]
  BY <1>2, MoveToFrontProperties, Zenon
<1> HIDE DEF a, b
<1>5. \A i \in 1..(Len(l) - 1) : a[i].key = b[i + 1]
  BY <1>1, <1>3, <1>4
<1>6. Follows(a, b, 1)
  BY <1>1, <1>3, <1>4, <1>5 DEF Follows
<1> QED BY <1>6 DEF a, b

(* A new key goes to the front; the nodes keep their keys behind it. *)
LEMMA FollowsNew ==
  ASSUME NEW l \in Seq(Node), NEW u \in Seq(Key), Once(u), Follows(l, u, 0),
         NEW k \in Key, \A i \in DOMAIN l : l[i].key # k
  PROVE  Follows(l, Used(u, k), 1)
<1>1. /\ DOMAIN l = 1..Len(l) /\ Len(l) \in Nat /\ DOMAIN u = 1..Len(u) /\ Len(u) \in Nat
      /\ Len(l) <= Len(u) /\ \A i \in 1..Len(l) : l[i].key = u[i]
  BY DEF Follows
<1>2. CASE k \in Range(u)
  <2>1. PICK p \in DOMAIN u : u[p] = k /\ p \in 1..Len(u)
    BY <1>1, <1>2 DEF Range
  <2> DEFINE b == MoveToFront(u, p)
  <2>2. /\ Len(b) = Len(u)
        /\ \A j \in 2..Len(u) : b[j] = IF j <= p THEN u[j - 1] ELSE u[j]
    BY MoveToFrontProperties, Zenon
  <2>3. Used(u, k) = b
    BY <2>1, UsedAgain, Zenon
  <2> HIDE DEF b
  <2>4. Len(l) < p
    BY <1>1, <2>1
  <2>5. Len(l) + 1 <= Len(b) /\ \A i \in 1..Len(l) : l[i].key = b[i + 1]
    BY <1>1, <2>2, <2>4
  <2> QED BY <2>3, <2>5, Zenon DEF Follows
<1>3. CASE k \notin Range(u)
  <2> DEFINE b == Pushed(k, u)
  <2>1. Used(u, k) = b
    BY <1>3, Zenon DEF Used
  <2>2. Len(b) = Len(u) + 1 /\ \A j \in 2..(Len(u) + 1) : b[j] = u[j - 1]
    BY DEF Pushed
  <2> HIDE DEF b
  <2>3. Len(l) + 1 <= Len(b) /\ \A i \in 1..Len(l) : l[i].key = b[i + 1]
    BY <1>1, <2>2
  <2> QED BY <2>1, <2>3, Zenon DEF Follows
<1> QED BY <1>2, <1>3, Zenon

(* push_front puts the node of the most recent key in its place. *)
LEMMA FollowsPush ==
  ASSUME NEW l \in Seq(Node), NEW u \in Seq(Key), Follows(l, u, 1),
         NEW e \in Node, e.key = u[1]
  PROVE  Follows(Pushed(e, l), u, 0)
<1> DEFINE a == Pushed(e, l)
<1>1. /\ Len(a) = Len(l) + 1 /\ a[1] = e
      /\ \A j \in 2..(Len(l) + 1) : a[j] = l[j - 1]
  BY DEF Pushed
<1> HIDE DEF a
<1>2. /\ Len(l) \in Nat /\ Len(u) \in Nat
      /\ Len(l) + 1 <= Len(u) /\ \A i \in 1..Len(l) : l[i].key = u[i + 1]
  BY DEF Follows
<1>3. \A i \in 1..Len(a) : a[i].key = u[i + 0]
  <2>1. SUFFICES ASSUME NEW i \in 1..Len(a) PROVE a[i].key = u[i]
    BY <1>1, <1>2
  <2>2. CASE i = 1
    BY <1>1, <2>2
  <2>3. CASE i # 1
    <3>1. i \in 2..(Len(l) + 1) /\ i - 1 \in 1..Len(l) /\ (i - 1) + 1 = i
      BY <1>1, <1>2, <2>3
    <3> QED BY <1>1, <1>2, <3>1, Zenon
  <2> QED BY <2>2, <2>3, Zenon
<1>4. Follows(a, u, 0)
  BY <1>1, <1>2, <1>3 DEF Follows
<1> QED BY <1>4 DEF a

(* An eviction at the back leaves the nodes before it in their places. *)
LEMMA FollowsEvict ==
  ASSUME NEW l \in Seq(Node), NEW u \in Seq(Key), Follows(l, u, 0), l # <<>>
  PROVE  Follows(Erased(l, Len(l)), u, 0)
<1> DEFINE a == Erased(l, Len(l))
<1>1. /\ Len(l) \in DOMAIN l /\ Len(l) \in Nat /\ Len(u) \in Nat
      /\ Len(l) <= Len(u) /\ \A i \in 1..Len(l) : l[i].key = u[i]
  BY DEF Follows
<1>2. /\ Len(a) = Len(l) - 1
      /\ \A j \in 1..(Len(l) - 1) : a[j] = IF j < Len(l) THEN l[j] ELSE l[j + 1]
  BY <1>1, ErasedProperties, Zenon
<1> HIDE DEF a
<1>3. Follows(a, u, 0)
  BY <1>1, <1>2 DEF Follows
<1> QED BY <1>3 DEF a

(* The inductive invariant: the history lists no key twice; while insert()  *)
(* has a node to push, its key is the first of the history; and the list is *)
(* the history from there on, as far as it goes.                            *)
Order ==
  /\ uses \in Seq(Key) /\ Once(uses)
  /\ pc = "push" => uses[1] = arg.key
  /\ Follows(tileList, uses, IF pc = "push" THEN 1 ELSE 0)

(* The node the index leads to stands where its key stands in the history. *)
LEMMA FoundInOrder ==
  ASSUME CacheInv, Order, pc = "idle", NEW k \in DOMAIN tileMap
  PROVE  LET p == PosOf(tileList, tileMap[k]) IN
         p \in 1..Len(tileList) /\ Used(uses, k) = MoveToFront(uses, p)
<1> DEFINE p == PosOf(tileList, tileMap[k])
<1>1. tileList \in Seq(Node) /\ Agree(tileList, tileMap, {})
  BY IndexAgrees DEF CacheInv, TypeOK
<1>2. p \in DOMAIN tileList /\ tileList[p].key = k
  BY <1>1, AgreeLookup
<1> HIDE DEF p
<1>3. /\ uses \in Seq(Key) /\ Once(uses) /\ p \in 1..Len(tileList)
      /\ Len(tileList) <= Len(uses) /\ tileList[p].key = uses[p]
  BY <1>1, <1>2 DEF Order, Follows
<1>4. p \in 1..Len(uses) /\ uses[p] = k
  BY <1>1, <1>2, <1>3
<1>5. Used(uses, k) = MoveToFront(uses, p)
  BY <1>3, <1>4, UsedAgain, Zenon
<1> QED BY <1>3, <1>5 DEF p

(* getTile() moves a key that it finds to the front of list and history. *)
LEMMA GetTileOrder ==
  ASSUME CacheInv, Order, NEW k \in Key, GetTile(k),
         IF k \in DOMAIN tileMap THEN Use(k) ELSE UNCHANGED uses
  PROVE  Order'
<1>1. pc = "idle" /\ pc' = "idle" /\ (MaxSize = 0 => k \notin DOMAIN tileMap)
  BY DEF GetTile, CacheInv, Control
<1>2. CASE k \notin DOMAIN tileMap
  BY <1>1, <1>2 DEF GetTile, Order
<1>3. CASE k \in DOMAIN tileMap
  <2>1. PICK p : p = PosOf(tileList, tileMap[k])
    OBVIOUS
  <2>2. tileList' = MoveToFront(tileList, p) /\ uses' = Used(uses, k)
    BY <1>1, <1>3, <2>1 DEF GetTile, Use
  <2>3. p \in 1..Len(tileList) /\ uses' = MoveToFront(uses, p)
    BY <1>1, <1>3, <2>1, <2>2, FoundInOrder, Zenon
  <2>4. tileList \in Seq(Node) /\ uses \in Seq(Key) /\ Once(uses) /\ Follows(tileList, uses, 0)
    BY <1>1 DEF CacheInv, TypeOK, Order
  <2>5. uses' \in Seq(Key) /\ Once(uses')
    BY <2>2, <2>4, UsedProperties, Zenon
  <2>6. Follows(tileList', uses', 0)
    BY <2>2, <2>3, <2>4, FollowsMove, Zenon
  <2> QED BY <1>1, <2>5, <2>6 DEF Order
<1> QED BY <1>2, <1>3, Zenon

(* insert() moves its key to the front of the history; the list follows it, *)
(* or waits for its node.                                                   *)
LEMMA InsertBeginOrder ==
  ASSUME CacheInv, Order, NEW k \in Key, NEW t \in Tile, InsertBegin(k, t), Use(k)
  PROVE  Order'
<1>1. /\ pc = "idle" /\ tileList \in Seq(Node) /\ uses \in Seq(Key) /\ Once(uses)
      /\ Follows(tileList, uses, 0) /\ uses' = Used(uses, k)
  BY DEF InsertBegin, CacheInv, TypeOK, Order, Use
<1>2. uses' \in Seq(Key) /\ Once(uses') /\ uses'[1] = k
  BY <1>1, UsedProperties, Zenon
<1>3. CASE k \notin DOMAIN tileMap
  <2>1. tileList' = tileList /\ pc' = "push" /\ arg' = [key |-> k, tile |-> t]
    BY <1>3 DEF InsertBegin
  <2>2. \A i \in DOMAIN tileList : tileList[i].key # k
    BY <1>1, <1>3 DEF CacheInv, IndexMatchesList, Pending
  <2>3. Follows(tileList, uses', 1)
    BY <1>1, <2>2, FollowsNew, Zenon
  <2> QED BY <1>2, <2>1, <2>3 DEF Order
<1>4. CASE k \in DOMAIN tileMap
  <2>1. PICK p : p = PosOf(tileList, tileMap[k])
    OBVIOUS
  <2>2. p \in 1..Len(tileList) /\ uses' = MoveToFront(uses, p)
    BY <1>1, <1>4, <2>1, FoundInOrder, Zenon
  <2>3. CASE tileList[p].tile.stamp < t.stamp
    <3>1. tileList' = Erased(tileList, p) /\ pc' = "push" /\ arg' = [key |-> k, tile |-> t]
      BY <1>4, <2>1, <2>3 DEF InsertBegin, RemoveNode
    <3>2. Follows(tileList', uses', 1)
      BY <1>1, <2>2, <3>1, FollowsRemove, Zenon
    <3> QED BY <1>2, <3>1, <3>2 DEF Order
  <2>4. CASE ~ (tileList[p].tile.stamp < t.stamp)
    <3>1. tileList' = MoveToFront(tileList, p) /\ pc' = "idle"
      BY <1>1, <1>4, <2>1, <2>4 DEF InsertBegin
    <3>2. Follows(tileList', uses', 0)
      BY <1>1, <2>2, <3>1, FollowsMove, Zenon
    <3> QED BY <1>2, <3>1, <3>2 DEF Order
  <2> QED BY <2>3, <2>4, Zenon
<1> QED BY <1>3, <1>4, Zenon

(* push_front brings the list up to the history. *)
LEMMA PushFrontOrder ==
  ASSUME CacheInv, Order, PushFront, UNCHANGED uses
  PROVE  Order'
<1>1. /\ pc = "push" /\ pc' = "index" /\ tileList \in Seq(Node) /\ arg \in Entry
      /\ uses \in Seq(Key) /\ Once(uses) /\ uses' = uses
      /\ uses[1] = arg.key /\ Follows(tileList, uses, 1)
  BY DEF PushFront, CacheInv, TypeOK, Order
<1>2. PICK e \in Node : tileList' = Pushed(e, tileList) /\ e.key = arg.key
  <2>1. PICK c \in Cell : tileList' = Pushed([cell |-> c, key |-> arg.key, tile |-> arg.tile], tileList)
    BY DEF PushFront
  <2>2. PICK e : e = [cell |-> c, key |-> arg.key, tile |-> arg.tile]
    BY Zenon
  <2>3. e \in Node /\ e.key = arg.key
    BY <1>1, <2>2 DEF Node, Entry
  <2> QED BY <2>1, <2>2, <2>3, Zenon
<1>3. Follows(tileList', uses, 0)
  <2>1. e.key = uses[1]
    BY <1>1, <1>2, Zenon
  <2>2. Follows(Pushed(e, tileList), uses, 0)
    BY <1>1, <2>1, FollowsPush, Zenon
  <2> QED BY <1>2, <2>2, Zenon
<1> QED BY <1>1, <1>3 DEF Order

(* The victim of an eviction is the key used longest ago. *)
LEMMA EvictLastOrder ==
  ASSUME CacheInv, Order, EvictLast, UNCHANGED uses
  PROVE  Order'
<1>1. /\ pc = "evict" /\ pc' = "evict" /\ tileList \in Seq(Node) /\ tileList # <<>>
      /\ uses \in Seq(Key) /\ Once(uses) /\ uses' = uses /\ Follows(tileList, uses, 0)
  BY DEF EvictLast, CacheInv, TypeOK, Order
<1>2. tileList' = Erased(tileList, Len(tileList))
  BY LastIsVictim DEF VictimIsLast, EvictLast, RemoveNode
<1>3. Follows(tileList', uses, 0)
  BY <1>1, <1>2, FollowsEvict, Zenon
<1> QED BY <1>1, <1>3 DEF Order

(* Every step keeps list and history in step. *)
LEMMA NextOrder == CacheInv /\ Order /\ [LRUNext]_lruVars => Order'
<1> SUFFICES ASSUME CacheInv, Order, [LRUNext]_lruVars PROVE Order'
  OBVIOUS
<1>1. ASSUME NEW k \in Key, GetTile(k), IF k \in DOMAIN tileMap THEN Use(k) ELSE UNCHANGED uses
      PROVE  Order'
  BY <1>1, GetTileOrder
<1>2. ASSUME NEW k \in Key, NEW t \in Tile, InsertBegin(k, t), Use(k)
      PROVE  Order'
  BY <1>2, InsertBeginOrder
<1>3. CASE PushFront /\ UNCHANGED uses
  BY <1>3, PushFrontOrder
<1>4. CASE EvictLast /\ UNCHANGED uses
  BY <1>4, EvictLastOrder
<1>5. CASE (DropPointer \/ StoreIndex \/ Account \/ InsertEnd) /\ UNCHANGED uses
  BY <1>5 DEF DropPointer, StoreIndex, Account, InsertEnd, Order
<1>6. CASE ClearBetweenCalls /\ uses' = <<>>
  BY <1>6 DEF ClearBetweenCalls, Clear, Order, Once, Follows
<1>7. CASE UNCHANGED lruVars
  BY <1>7 DEF lruVars, cacheVars, Order
<1> QED BY <1>1, <1>2, <1>3, <1>4, <1>5, <1>6, <1>7 DEF LRUNext, Insert

(* Between calls the tiles in the cache are the most recently used ones, in *)
(* the order of their last use, for any keys, tile sizes and limit: the     *)
(* splice of _touch, push_front and the eviction at the back make Cache.h   *)
(* an LRU cache (KeepsMostRecentlyUsed).                                    *)
THEOREM LRUCorrect == LRUSpec => []KeepsMostRecentlyUsed
<1>1. LRUInit => CacheInv /\ Order
  <2>1. LRUInit => Order
    BY DEF LRUInit, CacheInit, Order, Once, Follows
  <2> QED BY <2>1, InitInv DEF LRUInit
<1>2. CacheInv /\ Order /\ [LRUNext]_lruVars => (CacheInv /\ Order)'
  <2>1. [LRUNext]_lruVars => [CacheNext]_cacheVars
    BY DEF LRUNext, CacheNext, lruVars
  <2> QED BY <2>1, NextInv, NextOrder
<1>3. CacheInv /\ Order => KeepsMostRecentlyUsed
  BY DEF CacheInv, TypeOK, Order, Follows, KeepsMostRecentlyUsed
<1> QED BY <1>1, <1>2, <1>3, PTL DEF LRUSpec
=============================================================================
