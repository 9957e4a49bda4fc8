---------------------------- MODULE PlannerProofs ----------------------------
(***************************************************************************)
(* Proofs about the look-ahead planner, for every size of the ring, all    *)
(* lines and all bounds of the overrides: the planned pointer is a queued  *)
(* block, the junction speeds respect the limits in force, the profile of  *)
(* the executing block ends as the plan says, and no block is begun twice. *)
(***************************************************************************)
EXTENDS Planner, FiniteSetTheorems, WellFoundedInduction, TLAPS

\* A place of the ring, and prep, by the types of their fields.
Cell == [kind : Kinds, rate : Nat \ {0}, room : Nat, corner : Nat, max : Nat, entry : Nat]
Execution == [loaded : BOOLEAN, speed : Nat, exit : Nat, top : Nat, complete : Nat,
              recalc : BOOLEAN, declOvr : BOOLEAN, partial : BOOLEAN]
Ring == [Indices -> Cell]

------------------------------------------------------------------------------
(* Numbers *)

LEMMA DivInt == \A a \in Int, b \in Nat \ {0} : a \div b \in Int
  OBVIOUS

LEMMA ModRange == \A a \in Int, b \in Nat \ {0} : a % b \in 0..(b - 1)
  OBVIOUS

LEMMA SquareNat == \A a \in Nat : a * a \in Nat
  OBVIOUS

LEMMA SquareGrows == \A a, b \in Nat : a <= b => a * a <= b * b
  OBVIOUS

\* A set of numbers that is not empty has a least element.
LEMMA LeastIn ==
  ASSUME NEW S, S \subseteq Nat, S # {}
  PROVE  \E x \in S : \A y \in S : x <= y
<1>1. PICK x \in S : \A y \in S : ~(<<y, x>> \in OpToRel(<, Nat))
  BY WFMin, NatLessThanWellFounded, Zenon
<1>2. \A y \in S : ~(y < x)
  BY <1>1, Zenon DEF OpToRel
<1> QED
  BY <1>2

\* Induction up to n, for a set rather than a formula.
LEMMA InductUpTo ==
  ASSUME NEW n \in Nat, NEW S, 0 \in S, \A k \in 0..n : k \in S /\ k < n => k + 1 \in S
  PROVE  \A k \in 0..n : k \in S
<1> DEFINE Bad == {k \in 0..n : k \notin S}
<1> SUFFICES ASSUME Bad # {} PROVE FALSE
  OBVIOUS
<1>0. Bad \subseteq Nat
  OBVIOUS
<1>1. PICK k \in Bad : \A j \in Bad : k <= j
  <2> HIDE DEF Bad
  <2> QED
    BY <1>0, LeastIn
<1>2. k # 0 /\ k \in 1..n /\ k - 1 \in 0..n
  OBVIOUS
<1>3. k - 1 \notin Bad
  BY <1>1, <1>2
<1>4. (k - 1) + 1 \in S
  BY <1>2, <1>3
<1> QED
  BY <1>2, <1>4

\* A bounded set of numbers that is not empty has a largest element: MaxIn.
LEMMA MaxInIs ==
  ASSUME NEW n \in Nat, NEW S, S \subseteq 0..n, S # {}
  PROVE  MaxIn(S) \in S /\ \A y \in S : MaxIn(S) >= y
<1> DEFINE T == {n - x : x \in S}
<1>1. PICK s \in S : TRUE
  OBVIOUS
<1>2. T \subseteq Nat
  OBVIOUS
<1>3. n - s \in T
  BY <1>1
<1>4. PICK t \in T : \A u \in T : t <= u
  <2> HIDE DEF T
  <2> QED
    BY <1>2, <1>3, LeastIn
<1>5. \E x \in S : t = n - x
  BY <1>4
<1>6. PICK x \in S : t = n - x
  BY <1>5
<1>7. \A y \in S : n - y \in T
  OBVIOUS
<1>8. \A y \in S : x >= y
  BY <1>4, <1>6, <1>7
<1> QED
  BY <1>8, Zenon DEF MaxIn

------------------------------------------------------------------------------
(* The ring *)

LEMMA RingSteps ==
  ASSUME NEW i \in Indices
  PROVE  /\ After(i) \in Indices /\ Before(i) \in Indices
         /\ After(Before(i)) = i /\ Before(After(i)) = i
         /\ After(i) # i /\ Before(i) # i
  BY PlannerAssumption DEF Indices, After, Before

LEMMA RingDistance ==
  ASSUME NEW i \in Indices, NEW j \in Indices
  PROVE  /\ Distance(i, j) \in 0..(BufferSize - 1)
         /\ Place(i, Distance(i, j)) = j
         /\ Distance(i, j) = 0 <=> i = j
         /\ Distance(i, After(j)) = (IF Distance(i, j) = BufferSize - 1 THEN 0
                                     ELSE Distance(i, j) + 1)
         /\ Distance(i, Before(j)) = (IF i = j THEN BufferSize - 1 ELSE Distance(i, j) - 1)
  BY PlannerAssumption DEF Indices, Distance, Place, After, Before

LEMMA RingPlace ==
  ASSUME NEW i \in Indices, NEW n \in 0..(BufferSize - 1)
  PROVE  /\ Place(i, n) \in Indices /\ Distance(i, Place(i, n)) = n
         /\ n > 0 => Before(Place(i, n)) = Place(i, n - 1)
         /\ n < BufferSize - 1 => After(Place(i, n)) = Place(i, n + 1)
         /\ Place(i, 0) = i
  BY PlannerAssumption DEF Indices, Distance, Place, After, Before

LEMMA RingTriangle ==
  ASSUME NEW i \in Indices, NEW j \in Indices, NEW k \in Indices
  PROVE  Distance(i, k) = IF Distance(i, j) + Distance(j, k) < BufferSize
                          THEN Distance(i, j) + Distance(j, k)
                          ELSE Distance(i, j) + Distance(j, k) - BufferSize
  BY PlannerAssumption DEF Indices, Distance

\* The queued places for a tail t and a head h: those nearer to the tail than the head is.
QueueOf(t, h) == {i \in Indices : Distance(t, i) < Distance(t, h)}

LEMMA PlacesAreQueue ==
  ASSUME NEW t \in Indices, NEW h \in Indices
  PROVE  {Place(t, n) : n \in 0..(Distance(t, h) - 1)} = QueueOf(t, h)
<1>1. Distance(t, h) \in 0..(BufferSize - 1)
  BY RingDistance
<1>2. ASSUME NEW n \in 0..(Distance(t, h) - 1) PROVE Place(t, n) \in QueueOf(t, h)
  <2>1. n \in 0..(BufferSize - 1) /\ n < Distance(t, h)
    BY <1>1, PlannerAssumption
  <2> QED
    BY <2>1, RingPlace DEF QueueOf
<1>3. ASSUME NEW i \in QueueOf(t, h)
      PROVE  \E n \in 0..(Distance(t, h) - 1) : i = Place(t, n)
  <2>1. i \in Indices /\ Distance(t, i) \in 0..(BufferSize - 1) /\ Place(t, Distance(t, i)) = i
    BY RingDistance DEF QueueOf
  <2>2. Distance(t, i) \in 0..(Distance(t, h) - 1)
    BY <1>1, <2>1 DEF QueueOf
  <2> QED
    BY <2>1, <2>2
<1> QED
  BY <1>2, <1>3

LEMMA QueuedIs ==
  /\ tail \in Indices /\ head \in Indices => Queued = QueueOf(tail, head)
  /\ tail' \in Indices /\ head' \in Indices => Queued' = QueueOf(tail', head')
  BY PlacesAreQueue DEF Queued, Count

LEMMA QueueEnds ==
  ASSUME NEW t \in Indices, NEW h \in Indices
  PROVE  /\ h \notin QueueOf(t, h) /\ QueueOf(t, h) \subseteq Indices
         /\ t = h => QueueOf(t, h) = {}
         /\ t # h => t \in QueueOf(t, h) /\ Before(h) \in QueueOf(t, h)
                     /\ Distance(t, Before(h)) = Distance(t, h) - 1
<1>1. Distance(t, h) \in 0..(BufferSize - 1) /\ (Distance(t, h) = 0 <=> t = h) /\ Distance(t, t) = 0
      /\ (t # h => Distance(t, Before(h)) = Distance(t, h) - 1)
  BY RingDistance
<1>2. \A i \in Indices : Distance(t, i) \in 0..(BufferSize - 1)
  BY RingDistance
<1>3. Before(h) \in Indices
  BY RingSteps
<1> QED
  BY <1>1, <1>2, <1>3, PlannerAssumption DEF QueueOf

\* A block is appended, and the one at the tail is discarded.
LEMMA QueueGrown ==
  ASSUME NEW t \in Indices, NEW h \in Indices, t # After(h)
  PROVE  QueueOf(t, After(h)) = QueueOf(t, h) \cup {h}
<1>1. \A i \in Indices : /\ Distance(t, i) \in 0..(BufferSize - 1)
                         /\ Distance(t, i) = Distance(t, h) <=> i = h
  BY PlannerAssumption DEF Indices, Distance
<1>2. Distance(t, After(h)) = Distance(t, h) + 1
  BY PlannerAssumption DEF Indices, Distance, After
<1> QED
  BY <1>1, <1>2, PlannerAssumption DEF QueueOf

LEMMA QueueShrunk ==
  ASSUME NEW t \in Indices, NEW h \in Indices, t # h
  PROVE  QueueOf(After(t), h) = QueueOf(t, h) \ {t}
<1>1. \A i \in Indices : /\ Distance(t, i) \in 0..(BufferSize - 1)
                         /\ Distance(After(t), i) = IF i = t THEN BufferSize - 1 ELSE Distance(t, i) - 1
  BY PlannerAssumption DEF Indices, Distance, After
<1> QED
  BY <1>1, PlannerAssumption DEF QueueOf

LEMMA QueueNeighbours ==
  ASSUME NEW t \in Indices, NEW h \in Indices, NEW i \in QueueOf(t, h)
  PROVE  /\ i # t => Before(i) \in QueueOf(t, h)
         /\ i # Before(h) => After(i) \in QueueOf(t, h) /\ After(i) # t
         /\ i # t => Before(i) # Before(h)
<1>1. i \in Indices /\ Distance(t, i) < Distance(t, h) /\ Distance(t, i) \in 0..(BufferSize - 1)
      /\ Distance(t, h) \in 0..(BufferSize - 1)
  BY RingDistance DEF QueueOf
<1>2. i # t => Distance(t, Before(i)) = Distance(t, i) - 1
  BY <1>1, RingDistance
<1>3. i # Before(h) => Distance(t, After(i)) = Distance(t, i) + 1 /\ Distance(t, After(i)) < Distance(t, h)
  BY <1>1, PlannerAssumption DEF Indices, Distance, After, Before
<1>4. Before(i) \in Indices /\ After(i) \in Indices /\ After(Before(i)) = i /\ After(Before(h)) = h
  BY <1>1, RingSteps
<1>5. Distance(t, t) = 0
  BY RingDistance
<1> QED
  BY <1>1, <1>2, <1>3, <1>4, <1>5, PlannerAssumption DEF QueueOf

\* The places the passes visit when they begin at a queued block.
LEMMA PassPlaces ==
  ASSUME NEW t \in Indices, NEW h \in Indices, NEW p \in QueueOf(t, h), NEW i \in Indices
  PROVE  /\ Distance(p, Before(h)) = Distance(t, h) - 1 - Distance(t, p)
         /\ Distance(p, i) \in 1..Distance(p, Before(h)) <=>
              i \in QueueOf(t, h) /\ Distance(t, i) > Distance(t, p)
         /\ i \in QueueOf(t, h) /\ Distance(t, i) > Distance(t, p) =>
              Distance(p, i) = Distance(t, i) - Distance(t, p)
  BY PlannerAssumption DEF Indices, Distance, Before, QueueOf

------------------------------------------------------------------------------
(* Speeds and passes *)

LEMMA NominalNat ==
  ASSUME NEW b, b.kind \in Kinds, b.rate \in Nat, NEW feed \in Nat, NEW rapid \in Nat
  PROVE  Nominal(b, feed, rapid) \in Nat \ {0}
<1>1. (b.rate * rapid) \div Full \in Int /\ (b.rate * feed) \div Full \in Int
  BY DivInt, PlannerAssumption
<1>2. CASE b.kind = "rapid"
  BY <1>1, <1>2, PlannerAssumption DEF Nominal, MaxOf
<1>3. CASE b.kind = "feed"
  BY <1>1, <1>3, PlannerAssumption DEF Nominal, MaxOf, MinOf
<1>4. CASE b.kind = "fixed"
  BY <1>4, PlannerAssumption DEF Nominal, MaxOf, MinOf
<1> QED
  BY <1>2, <1>3, <1>4 DEF Kinds

LEMMA MaxEntryIs ==
  ASSUME NEW b, b.corner \in Nat, NEW v \in Nat, NEW w \in Nat
  PROVE  /\ MaxEntry(b, v, w) \in Nat
         /\ MaxEntry(b, v, w) <= b.corner
         /\ MaxEntry(b, v, w) <= MinOf(v * v, w * w)
<1>1. v * v \in Nat /\ w * w \in Nat /\ MinOf(v, w) \in Nat
  BY SquareNat DEF MinOf
<1>2. MinOf(v, w) * MinOf(v, w) = MinOf(v * v, w * w)
  BY <1>1, SquareGrows DEF MinOf
<1> QED
  BY <1>1, <1>2 DEF MaxEntry, MinOf

\* SOME_LARGE_VALUE is a number: there are finitely many rates.
LEMMA NoLimitNat == NoLimit \in Nat
<1> DEFINE n == Cardinality(Lines)
           Rates == {RapidRate} \cup {l.rate : l \in Lines}
<1>1. n \in Nat /\ ExistsBijection(1..n, Lines)
  BY FS_CardinalityType, PlannerAssumption
<1> HIDE DEF n
<1>2. PICK f \in [1..n -> Lines] : \A l \in Lines : \E j \in 1..n : f[j] = l
  BY <1>1 DEF ExistsBijection, Bijection, Injection, Surjection
<1> DEFINE Bounded(k) == \E m \in Nat : \A j \in 1..n : j <= k => f[j].rate <= m
           Reached == {k \in 0..n : Bounded(k)}
<1>3. \A l \in Lines : l.rate \in Nat
  BY PlannerAssumption DEF Line
<1>4. 0 \in Reached
  <2>1. 0 \in Nat /\ \A j \in 1..n : ~(j <= 0)
    OBVIOUS
  <2>2. Bounded(0)
    BY <2>1
  <2> HIDE DEF Bounded
  <2> QED
    BY <1>1, <2>2
<1>5. ASSUME NEW k \in 0..n, k \in Reached, k < n PROVE k + 1 \in Reached
  <2>1. PICK m \in Nat : \A j \in 1..n : j <= k => f[j].rate <= m
    BY <1>5
  <2>2. k + 1 \in 1..n /\ f[k + 1].rate \in Nat
    BY <1>1, <1>3, <1>5
  <2>3. m + f[k + 1].rate \in Nat
    BY <2>2
  <2>4. \A j \in 1..n : j <= k + 1 => f[j].rate <= m + f[k + 1].rate
    <3> SUFFICES ASSUME NEW j \in 1..n, j <= k + 1 PROVE f[j].rate <= m + f[k + 1].rate
      OBVIOUS
    <3>1. f[j].rate \in Nat
      BY <1>3
    <3>2. CASE j <= k
      BY <2>1, <2>2, <3>1, <3>2
    <3>3. CASE j = k + 1
      BY <2>2, <3>3
    <3> QED
      BY <1>1, <3>2, <3>3
  <2>5. Bounded(k + 1)
    BY <2>3, <2>4
  <2> HIDE DEF Bounded
  <2> QED
    BY <2>2, <2>5
<1>6. n \in Reached
  <2>1. n \in Nat /\ n \in 0..n
    BY <1>1
  <2> HIDE DEF Reached
  <2> QED
    BY <2>1, <1>4, <1>5, InductUpTo
<1>7. PICK m \in Nat : \A j \in 1..n : j <= n => f[j].rate <= m
  BY <1>6
<1>8. \A l \in Lines : l.rate <= m
  BY <1>1, <1>2, <1>7
<1>9. \A v \in Rates : v \in Nat /\ v <= m + RapidRate
  <2>1. RapidRate \in Nat
    BY PlannerAssumption
  <2>2. ASSUME NEW l \in Lines PROVE l.rate \in Nat /\ l.rate <= m + RapidRate
    BY <1>3, <1>8, <2>1
  <2> QED
    BY <2>1, <2>2
<1>10. m + RapidRate \in Nat /\ Rates \subseteq 0..(m + RapidRate) /\ Rates # {}
  <2>1. m + RapidRate \in Nat
    BY PlannerAssumption
  <2>2. RapidRate \in Rates
    OBVIOUS
  <2> HIDE DEF Rates
  <2> QED
    BY <1>9, <2>1, <2>2
<1>11. MaxIn(Rates) \in Nat
  <2> HIDE DEF Rates
  <2> QED
    BY <1>9, <1>10, MaxInIs
<1> QED
  BY <1>11, PlannerAssumption DEF NoLimit

\* The reverse pass is the function its recursion describes, and never exceeds the maximum of
\* a block.
LEMMA ReversePassIs ==
  ASSUME NEW b \in Ring, NEW p \in Indices, NEW n \in 0..(BufferSize - 1)
  PROVE  /\ ReversePass(b, p, n) \in [1..n -> Nat]
         /\ \A d \in 1..n : ReversePass(b, p, n)[d] =
              LET c == b[Place(p, d)]
              IN  IF d = n THEN MinOf(c.max, c.room)
                  ELSE IF c.entry = c.max THEN c.max
                  ELSE MinOf(c.max, ReversePass(b, p, n)[d + 1] + c.room)
         /\ \A d \in 1..n : ReversePass(b, p, n)[d] <= b[Place(p, d)].max
<1> DEFINE Value(f, d) == LET c == b[Place(p, d)]
                          IN  IF d = n THEN MinOf(c.max, c.room)
                              ELSE IF c.entry = c.max THEN c.max
                              ELSE MinOf(c.max, f[d + 1] + c.room)
           From(k) == \E f \in [1..n -> Nat] : \A d \in 1..n : d > n - k => f[d] = Value(f, d)
           Reached == {k \in 0..n : From(k)}
<1>1. \A d \in 1..n : b[Place(p, d)] \in Cell
  BY RingPlace, PlannerAssumption DEF Ring
<1>2. ASSUME NEW f \in [1..n -> Nat], NEW d \in 1..n
      PROVE  Value(f, d) \in Nat /\ Value(f, d) <= b[Place(p, d)].max
  <2> DEFINE c == b[Place(p, d)]
  <2>1. c.max \in Nat /\ c.room \in Nat
    BY <1>1 DEF Cell
  <2>2. d # n => f[d + 1] \in Nat
    OBVIOUS
  <2> HIDE DEF c
  <2>3. CASE d = n
    BY <2>1, <2>3 DEF MinOf, c
  <2>4. CASE d # n
    BY <2>1, <2>2, <2>4 DEF MinOf, c
  <2> QED
    BY <2>3, <2>4
<1>3. 0 \in Reached
  <2> DEFINE f == [d \in 1..n |-> 0]
  <2>1. f \in [1..n -> Nat] /\ \A d \in 1..n : ~(d > n - 0)
    OBVIOUS
  <2>2. From(0)
    <3> HIDE DEF f, Value
    <3> QED
      BY <2>1
  <2> HIDE DEF From
  <2> QED
    BY <2>2
<1>4. \A k \in 0..n : k \in Reached /\ k < n => k + 1 \in Reached
  <2> SUFFICES ASSUME NEW k \in 0..n, From(k), k < n PROVE From(k + 1)
    <3> HIDE DEF From
    <3> QED
      OBVIOUS
  <2>1. PICK f \in [1..n -> Nat] : \A d \in 1..n : d > n - k => f[d] = Value(f, d)
    <3> HIDE DEF Value
    <3> QED
      OBVIOUS
  <2> DEFINE g == [d \in 1..n |-> IF d = n - k THEN Value(f, n - k) ELSE f[d]]
  <2>2. g \in [1..n -> Nat]
    BY <1>2
  <2>3. ASSUME NEW d \in 1..n, d > n - (k + 1) PROVE g[d] = Value(g, d)
    <3>1. d # n => g[d + 1] = f[d + 1]
      BY <2>3
    <3>2. Value(g, d) = Value(f, d)
      BY <3>1
    <3>3. g[d] = Value(f, d)
      <4> HIDE DEF Value
      <4> QED
        BY <2>1, <2>3
    <3> QED
      BY <3>2, <3>3
  <2> QED
    BY <2>2, <2>3
<1>5. n \in Reached
  <2> HIDE DEF Reached
  <2> QED
    BY <1>3, <1>4, InductUpTo
<1>6. \E f \in [1..n -> Nat] : f = [d \in 1..n |-> Value(f, d)]
  <2>1. PICK f \in [1..n -> Nat] : \A d \in 1..n : d > n - n => f[d] = Value(f, d)
    BY <1>5
  <2>2. \A d \in 1..n : f[d] = Value(f, d)
    <3> HIDE DEF Value
    <3> QED
      BY <2>1
  <2> HIDE DEF Value
  <2> QED
    BY <2>2
<1>7. ReversePass(b, p, n) = CHOOSE f : f = [d \in 1..n |-> Value(f, d)]
  BY DEF ReversePass
<1>8. ReversePass(b, p, n) = [d \in 1..n |-> Value(ReversePass(b, p, n), d)]
  <2> HIDE DEF Value
  <2> QED
    BY <1>6, <1>7, Zenon
<1> DEFINE rev == ReversePass(b, p, n)
<1>9. \A d \in 1..n : rev[d] = Value(rev, d)
  <2> HIDE DEF Value, rev
  <2> QED
    BY <1>8 DEF rev
<1>10. rev \in [1..n -> Nat]
  <2> DEFINE Typed == {k \in 0..n : \A d \in 1..n : d > n - k => rev[d] \in Nat}
  <2>1. 0 \in Typed
    <3> HIDE DEF rev
    <3> QED
      OBVIOUS
  <2>2. ASSUME NEW k \in 0..n, k \in Typed, k < n PROVE k + 1 \in Typed
    <3>1. n - k = n \/ rev[(n - k) + 1] \in Nat
      <4> HIDE DEF rev
      <4> QED
        BY <2>2
    <3>2. Value(rev, n - k) \in Nat
      <4> HIDE DEF rev
      <4> QED
        BY <2>2, <3>1, <1>1 DEF Cell, MinOf
    <3>3. rev[n - k] \in Nat
      <4> HIDE DEF rev, Value
      <4> QED
        BY <3>2, <2>2, <1>9
    <3> HIDE DEF rev
    <3> QED
      BY <2>2, <3>3
  <2>3. n \in Typed
    <3> HIDE DEF Typed
    <3> QED
      BY <2>1, <2>2, InductUpTo
  <2>4. rev = [d \in 1..n |-> rev[d]]
    <3> HIDE DEF Value
    <3> QED
      BY <1>8
  <2> HIDE DEF rev
  <2> QED
    BY <2>3, <2>4
<1>11. \A d \in 1..n : Value(rev, d) <= b[Place(p, d)].max
  <2> HIDE DEF rev, Value
  <2> QED
    BY <1>2, <1>10
<1> QED
  BY <1>9, <1>10, <1>11

\* The forward pass likewise; it never exceeds the reverse pass.
LEMMA ForwardPassIs ==
  ASSUME NEW b \in Ring, NEW p \in Indices, NEW n \in 0..(BufferSize - 1),
         NEW rev \in [1..n -> Nat]
  PROVE  /\ ForwardPass(b, p, n, rev) \in [0..n -> Nat]
         /\ ForwardPass(b, p, n, rev)[0] = b[p].entry
         /\ \A d \in 1..n : ForwardPass(b, p, n, rev)[d] =
              MinOf(rev[d], ForwardPass(b, p, n, rev)[d - 1] + b[Place(p, d - 1)].room)
<1> DEFINE Value(f, d) == IF d = 0 THEN b[p].entry
                          ELSE MinOf(rev[d], f[d - 1] + b[Place(p, d - 1)].room)
           To(k) == \E f \in [0..n -> Nat] : \A d \in 0..n : d < k => f[d] = Value(f, d)
           Reached == {k \in 0..(n + 1) : To(k)}
<1>1. \A d \in 0..n : b[Place(p, d)] \in Cell
  BY RingPlace, PlannerAssumption DEF Ring
<1>2. ASSUME NEW f \in [0..n -> Nat], NEW d \in 0..n
      PROVE  Value(f, d) \in Nat
  <2>1. CASE d = 0
    BY <1>1, <2>1 DEF Ring, Cell
  <2>2. CASE d # 0
    <3>1. d - 1 \in 0..n /\ d \in 1..n
      BY <2>2
    <3>2. f[d - 1] \in Nat /\ b[Place(p, d - 1)].room \in Nat /\ rev[d] \in Nat
      BY <1>1, <3>1 DEF Cell
    <3> QED
      BY <2>2, <3>2 DEF MinOf
  <2> QED
    BY <2>1, <2>2
<1>3. 0 \in Reached
  <2> DEFINE f == [d \in 0..n |-> 0]
  <2>1. f \in [0..n -> Nat] /\ \A d \in 0..n : ~(d < 0)
    OBVIOUS
  <2>2. To(0)
    <3> HIDE DEF f, Value
    <3> QED
      BY <2>1
  <2> HIDE DEF To
  <2> QED
    BY <2>2
<1>4. \A k \in 0..(n + 1) : k \in Reached /\ k < n + 1 => k + 1 \in Reached
  <2> SUFFICES ASSUME NEW k \in 0..n, To(k) PROVE To(k + 1)
    <3> HIDE DEF To
    <3> QED
      OBVIOUS
  <2>1. PICK f \in [0..n -> Nat] : \A d \in 0..n : d < k => f[d] = Value(f, d)
    <3> HIDE DEF Value
    <3> QED
      OBVIOUS
  <2> DEFINE g == [d \in 0..n |-> IF d = k THEN Value(f, k) ELSE f[d]]
  <2>2. g \in [0..n -> Nat]
    BY <1>2
  <2>3. ASSUME NEW d \in 0..n, d < k + 1 PROVE g[d] = Value(g, d)
    <3>1. d # 0 => g[d - 1] = f[d - 1]
      BY <2>3
    <3>2. Value(g, d) = Value(f, d)
      BY <3>1
    <3>3. g[d] = Value(f, d)
      <4> HIDE DEF Value
      <4> QED
        BY <2>1, <2>3
    <3> QED
      BY <3>2, <3>3
  <2> QED
    BY <2>2, <2>3
<1>5. n + 1 \in Reached
  <2>1. n + 1 \in Nat /\ n + 1 \in 0..(n + 1)
    OBVIOUS
  <2> HIDE DEF Reached
  <2> QED
    BY <2>1, <1>3, <1>4, InductUpTo
<1>6. PICK f \in [0..n -> Nat] : f = [d \in 0..n |-> Value(f, d)]
  <2>1. PICK f \in [0..n -> Nat] : \A d \in 0..n : d < n + 1 => f[d] = Value(f, d)
    BY <1>5
  <2>2. \A d \in 0..n : f[d] = Value(f, d)
    <3> HIDE DEF Value
    <3> QED
      BY <2>1
  <2> HIDE DEF Value
  <2> QED
    BY <2>2
<1>7. ForwardPass(b, p, n, rev) = CHOOSE g : g = [d \in 0..n |-> Value(g, d)]
  BY DEF ForwardPass
<1> DEFINE fwd == ForwardPass(b, p, n, rev)
<1>8. fwd = [d \in 0..n |-> Value(fwd, d)]
  <2> HIDE DEF Value
  <2> QED
    BY <1>6, <1>7, Zenon
<1>9. \A d \in 0..n : fwd[d] = Value(fwd, d)
  <2> HIDE DEF Value, fwd
  <2> QED
    BY <1>8
<1>10. fwd \in [0..n -> Nat]
  <2> DEFINE Typed == {k \in 0..(n + 1) : \A d \in 0..n : d < k => fwd[d] \in Nat}
  <2>1. 0 \in Typed
    <3> HIDE DEF fwd
    <3> QED
      OBVIOUS
  <2>2. ASSUME NEW k \in 0..(n + 1), k \in Typed, k < n + 1 PROVE k + 1 \in Typed
    <3>1. k \in 0..n /\ (k = 0 \/ (fwd[k - 1] \in Nat /\ rev[k] \in Nat
                                    /\ b[Place(p, k - 1)].room \in Nat))
      <4> HIDE DEF fwd
      <4> QED
        BY <2>2, <1>1 DEF Cell
    <3>2. b[p].entry \in Nat
      BY DEF Ring, Cell
    <3>3. Value(fwd, k) \in Nat
      <4>1. CASE k = 0
        BY <3>2, <4>1
      <4>2. CASE k # 0
        <5>1. fwd[k - 1] \in Nat /\ rev[k] \in Nat /\ b[Place(p, k - 1)].room \in Nat
          BY <3>1, <4>2
        <5> DEFINE c == b[Place(p, k - 1)].room
        <5> HIDE DEF fwd, c
        <5>2. MinOf(rev[k], fwd[k - 1] + c) \in Nat
          BY <5>1 DEF MinOf, c
        <5> QED
          BY <4>2, <5>2 DEF c
      <4> QED
        BY <4>1, <4>2
    <3>4. fwd[k] \in Nat
      <4> HIDE DEF fwd, Value
      <4> QED
        BY <3>1, <3>3, <1>9
    <3> HIDE DEF fwd
    <3> QED
      BY <2>2, <3>4
  <2>3. n + 1 \in Typed
    <3>1. n + 1 \in Nat /\ n + 1 \in 0..(n + 1)
      OBVIOUS
    <3> HIDE DEF Typed
    <3> QED
      BY <3>1, <2>1, <2>2, InductUpTo
  <2>4. fwd = [d \in 0..n |-> fwd[d]]
    <3> HIDE DEF Value
    <3> QED
      BY <1>8
  <2> HIDE DEF fwd
  <2> QED
    BY <2>3, <2>4
<1>11. fwd[0] = b[p].entry /\ \A d \in 1..n : fwd[d] = MinOf(rev[d], fwd[d - 1] + b[Place(p, d - 1)].room)
  <2> HIDE DEF fwd
  <2> QED
    BY <1>9
<1> QED
  BY <1>10, <1>11

------------------------------------------------------------------------------
(* Planning *)

\* Two rings that differ in the entry speeds at most.
SameBlocks(b, c) ==
  \A i \in Indices : /\ c[i].kind = b[i].kind /\ c[i].rate = b[i].rate /\ c[i].room = b[i].room
                     /\ c[i].corner = b[i].corner /\ c[i].max = b[i].max

\* The ring and prep after the executing block was told that it is planned again, if it is.
Told(b, p, n, x) == IF n > 0 /\ p = tail THEN StUpdate(b, x) ELSE [block |-> b, exec |-> x]

\* The entry speeds in c are those of the passes over the n blocks after p in b.
Passes(b, c, p, n, rev) ==
  /\ rev \in [1..n -> Nat]
  /\ \A d \in 1..n : rev[d] =
       LET q == b[Place(p, d)]
       IN  IF d = n THEN MinOf(q.max, q.room)
           ELSE IF q.entry = q.max THEN q.max
           ELSE MinOf(q.max, rev[d + 1] + q.room)
  /\ \A d \in 1..n : rev[d] <= b[Place(p, d)].max
  /\ \A d \in 1..n : c[Place(p, d)].entry =
       MinOf(rev[d], c[Place(p, d - 1)].entry + b[Place(p, d - 1)].room)

LEMMA StUpdateIs ==
  ASSUME NEW b \in Ring, NEW x \in Execution, PlBlock \in Indices
  PROVE  /\ StUpdate(b, x).block \in Ring /\ SameBlocks(b, StUpdate(b, x).block)
         /\ \A i \in Indices : StUpdate(b, x).block[i].entry =
              IF i = PlBlock /\ x.loaded THEN x.speed ELSE b[i].entry
         /\ StUpdate(b, x).exec \in Execution
         /\ StUpdate(b, x).exec = [x EXCEPT !.loaded = FALSE, !.recalc = x.loaded \/ x.recalc]
<1>1. CASE x.loaded
  <2> DEFINE c == [b EXCEPT ![PlBlock].entry = x.speed]
             y == [x EXCEPT !.loaded = FALSE, !.recalc = TRUE]
  <2>1. StUpdate(b, x) = [block |-> c, exec |-> y]
    BY <1>1 DEF StUpdate
  <2>2. c \in Ring /\ SameBlocks(b, c)
        /\ \A i \in Indices : c[i].entry = IF i = PlBlock THEN x.speed ELSE b[i].entry
    BY DEF Ring, Cell, Execution, SameBlocks
  <2>3. y \in Execution /\ y = [x EXCEPT !.loaded = FALSE, !.recalc = x.loaded \/ x.recalc]
    BY <1>1 DEF Execution
  <2> HIDE DEF c, y
  <2> QED
    BY <1>1, <2>1, <2>2, <2>3
<1>2. CASE ~x.loaded
  <2>1. StUpdate(b, x) = [block |-> b, exec |-> x]
    BY <1>2 DEF StUpdate
  <2>2. x = [x EXCEPT !.loaded = FALSE, !.recalc = x.loaded \/ x.recalc]
    BY <1>2 DEF Execution
  <2> QED
    BY <1>2, <2>1, <2>2 DEF SameBlocks
<1> QED
  BY <1>1, <1>2

LEMMA ToldIs ==
  ASSUME NEW b \in Ring, NEW x \in Execution, NEW p \in Indices, NEW n \in Nat, PlBlock \in Indices
  PROVE  /\ Told(b, p, n, x).block \in Ring /\ SameBlocks(b, Told(b, p, n, x).block)
         /\ Told(b, p, n, x).exec \in Execution
<1>1. CASE n > 0 /\ p = tail
  <2>1. Told(b, p, n, x) = StUpdate(b, x)
    BY <1>1 DEF Told
  <2> QED
    BY <2>1, StUpdateIs
<1>2. CASE ~(n > 0 /\ p = tail)
  BY <1>2 DEF Told, SameBlocks
<1> QED
  BY <1>1, <1>2

LEMMA ToldEntry ==
  ASSUME NEW b \in Ring, NEW x \in Execution, NEW p \in Indices, NEW n \in Nat,
         PlBlock \in Indices, NEW i \in Indices
  PROVE  Told(b, p, n, x).block[i].entry =
           IF n > 0 /\ p = tail /\ i = PlBlock /\ x.loaded THEN x.speed ELSE b[i].entry
<1>1. CASE n > 0 /\ p = tail
  <2>1. Told(b, p, n, x) = StUpdate(b, x)
    BY <1>1 DEF Told
  <2> DEFINE u == StUpdate(b, x)
  <2>2. \A k \in Indices : u.block[k].entry = IF k = PlBlock /\ x.loaded THEN x.speed ELSE b[k].entry
    BY StUpdateIs
  <2> HIDE DEF u
  <2> QED
    BY <1>1, <2>1, <2>2 DEF u
<1>2. CASE ~(n > 0 /\ p = tail)
  BY <1>2 DEF Told
<1> QED
  BY <1>1, <1>2

LEMMA ToldExec ==
  ASSUME NEW b \in Ring, NEW x \in Execution, NEW p \in Indices, NEW n \in Nat, PlBlock \in Indices
  PROVE  Told(b, p, n, x).exec =
           IF n > 0 /\ p = tail
           THEN [x EXCEPT !.loaded = FALSE, !.recalc = x.loaded \/ x.recalc] ELSE x
<1>1. CASE n > 0 /\ p = tail
  <2>1. Told(b, p, n, x) = StUpdate(b, x)
    BY <1>1 DEF Told
  <2> DEFINE u == StUpdate(b, x)
  <2>2. u.exec = [x EXCEPT !.loaded = FALSE, !.recalc = x.loaded \/ x.recalc]
    BY StUpdateIs
  <2> HIDE DEF u
  <2> QED
    BY <1>1, <2>1, <2>2 DEF u
<1>2. CASE ~(n > 0 /\ p = tail)
  BY <1>2 DEF Told
<1> QED
  BY <1>1, <1>2

\* The pointer q is where the passes began, or at a block whose entry speed in c can no longer
\* be raised: it is at its maximum, or below what the reverse pass allows.
Seals(b, c, p, n, q) ==
  \E rev, m : /\ Passes(b, c, p, n, rev)
              /\ m \in 0..n /\ q = Place(p, m)
              /\ m > 0 => c[q].entry < rev[m] \/ c[q].entry = c[q].max

\* What planner_recalculate() makes, for n blocks behind the planned pointer p: it changes
\* only entry speeds, and those only behind the pointer, as the passes compute them; the
\* pointer moves towards the head, to a block that is sealed, and no block behind it is at its
\* maximum.
Recalculated(b, p, x, n, r) ==
  /\ n \in 0..(BufferSize - 1)
  /\ r.exec = Told(b, p, n, x).exec /\ r.exec \in Execution
  /\ r.block \in Ring /\ SameBlocks(b, r.block)
  /\ \A i \in Indices : Distance(p, i) \notin 1..n =>
       r.block[i].entry = Told(b, p, n, x).block[i].entry
  /\ \E rev : Passes(Told(b, p, n, x).block, r.block, p, n, rev)
  /\ \A i \in Indices : Distance(p, i) \in 1..n => r.block[i].entry <= r.block[i].max
  /\ \E m \in 0..n : /\ r.planned = Place(p, m)
                     /\ \A d \in 1..n : m < d =>
                          r.block[Place(p, d)].entry # r.block[Place(p, d)].max
  /\ Seals(Told(b, p, n, x).block, r.block, p, n, r.planned)

LEMMA RecalculateIs ==
  ASSUME NEW b \in Ring, NEW x \in Execution, NEW h \in Indices, NEW p \in Indices,
         PlBlock \in Indices
  PROVE  Recalculated(b, p, x, Distance(p, Before(h)), Recalculate(b, h, p, x))
<1> DEFINE n == Distance(p, Before(h))
           r == Recalculate(b, h, p, x)
<1> DEFINE st == Told(b, p, n, x)
           rev == ReversePass(st.block, p, n)
           fwd == ForwardPass(st.block, p, n, rev)
           c == [i \in Indices |->
                   IF Distance(p, i) \in 1..n THEN [st.block[i] EXCEPT !.entry = fwd[Distance(p, i)]]
                   ELSE st.block[i]]
           Ends == {0} \cup {d \in 1..n : Breakpoint(b[Place(p, d)], rev, fwd, d)}
<1>1. n \in 0..(BufferSize - 1) /\ n \in Nat
  BY RingSteps, RingDistance, PlannerAssumption
<1> HIDE DEF n
<1>2. r = [block |-> c, planned |-> Place(p, MaxIn(Ends)), exec |-> st.exec]
  BY DEF Recalculate, Told, n
<1>3. st.block \in Ring /\ SameBlocks(b, st.block) /\ st.exec \in Execution
  BY <1>1, ToldIs
<1>4. /\ rev \in [1..n -> Nat]
      /\ \A d \in 1..n : rev[d] =
           LET q == st.block[Place(p, d)]
           IN  IF d = n THEN MinOf(q.max, q.room)
               ELSE IF q.entry = q.max THEN q.max
               ELSE MinOf(q.max, rev[d + 1] + q.room)
      /\ \A d \in 1..n : rev[d] <= st.block[Place(p, d)].max
  <2> HIDE DEF st
  <2> QED
    BY <1>1, <1>3, ReversePassIs
<1>5. /\ fwd \in [0..n -> Nat]
      /\ fwd[0] = st.block[p].entry
      /\ \A d \in 1..n : fwd[d] = MinOf(rev[d], fwd[d - 1] + st.block[Place(p, d - 1)].room)
  <2>1. st.block \in Ring
    BY <1>3
  <2>2. rev \in [1..n -> Nat]
    BY <1>4
  <2> HIDE DEF st, rev
  <2> QED
    BY <1>1, <2>1, <2>2, ForwardPassIs
<1> HIDE DEF st, rev, fwd, r
<1>6. \A d \in 0..n : /\ Place(p, d) \in Indices /\ Distance(p, Place(p, d)) = d
                      /\ c[Place(p, d)].entry = fwd[d]
  <2> SUFFICES ASSUME NEW d \in 0..n
               PROVE  /\ Place(p, d) \in Indices /\ Distance(p, Place(p, d)) = d
                      /\ c[Place(p, d)].entry = fwd[d]
    OBVIOUS
  <2>1. d \in 0..(BufferSize - 1)
    BY <1>1, PlannerAssumption
  <2>2. Place(p, d) \in Indices /\ Distance(p, Place(p, d)) = d /\ Place(p, 0) = p
    BY <2>1, RingPlace
  <2>3. CASE d = 0
    BY <2>2, <2>3, <1>5
  <2>4. CASE d # 0
    <3>1. st.block[Place(p, d)] \in Cell /\ Distance(p, Place(p, d)) \in 1..n
      BY <1>3, <2>2, <2>4 DEF Ring
    <3> QED
      BY <3>1, <2>2 DEF Cell
  <2> QED
    BY <2>2, <2>3, <2>4
<1>7. \A i \in Indices : Distance(p, i) \in 0..(BufferSize - 1) /\ Place(p, Distance(p, i)) = i
  BY RingDistance
<1>8. c \in Ring
  <2>1. \A i \in Indices : Distance(p, i) \in 1..n => fwd[Distance(p, i)] \in Nat
    BY <1>5
  <2>2. \A i \in Indices : st.block[i] \in Cell
    BY <1>3 DEF Ring
  <2>3. \A i \in Indices : c[i] \in Cell
    BY <2>1, <2>2 DEF Cell
  <2> QED
    BY <2>3 DEF Ring
<1>9. SameBlocks(b, c)
  BY <1>3 DEF Ring, Cell, SameBlocks
<1>10. \A i \in Indices : Distance(p, i) \notin 1..n => c[i].entry = st.block[i].entry
  OBVIOUS
<1>11. \A d \in 1..n : fwd[d] <= rev[d]
  <2> SUFFICES ASSUME NEW d \in 1..n PROVE fwd[d] <= rev[d]
    OBVIOUS
  <2>1. d - 1 \in 0..n
    BY <1>1
  <2>3. Place(p, d - 1) \in Indices
    BY <1>6, <2>1
  <2>2. fwd[d - 1] \in Nat /\ st.block[Place(p, d - 1)].room \in Nat /\ rev[d] \in Nat
    BY <1>3, <1>4, <1>5, <2>1, <2>3 DEF Ring, Cell
  <2> QED
    BY <1>5, <2>2 DEF MinOf
<1>12. Passes(st.block, c, p, n, rev)
  <2>1. \A d \in 1..n : c[Place(p, d)].entry =
          MinOf(rev[d], c[Place(p, d - 1)].entry + st.block[Place(p, d - 1)].room)
    <3> HIDE DEF c
    <3> QED
      BY <1>1, <1>5, <1>6
  <2> HIDE DEF c
  <2> QED
    BY <1>4, <2>1 DEF Passes
<1>13. \A i \in Indices : Distance(p, i) \in 1..n => c[i].entry <= c[i].max
  <2> SUFFICES ASSUME NEW i \in Indices, Distance(p, i) \in 1..n PROVE c[i].entry <= c[i].max
    OBVIOUS
  <2> DEFINE d == Distance(p, i)
  <2>1. Place(p, d) = i
    BY <1>7
  <2>2. c[i].entry = fwd[d] /\ c[i].max = st.block[i].max
    BY <1>3 DEF Ring, Cell
  <2>4. d \in 1..n /\ d \in 0..n
    BY <1>1
  <2>5. st.block[i].max \in Nat
    BY <1>3 DEF Ring, Cell
  <2>3. fwd[d] <= rev[d] /\ rev[d] <= st.block[i].max /\ fwd[d] \in Nat /\ rev[d] \in Nat
        /\ st.block[i].max \in Nat
    <3> HIDE DEF d
    <3> QED
      BY <1>4, <1>5, <1>11, <2>1, <2>4, <2>5
  <2> HIDE DEF c, d
  <2> QED
    BY <2>2, <2>3
<1>14. MaxIn(Ends) \in Ends /\ \A y \in Ends : MaxIn(Ends) >= y
  <2>1. Ends \subseteq 0..n /\ Ends # {}
    BY <1>1
  <2> HIDE DEF Ends
  <2> QED
    BY <1>1, <2>1, MaxInIs
<1>15. \A d \in 1..n : MaxIn(Ends) < d => c[Place(p, d)].entry # c[Place(p, d)].max
  <2> SUFFICES ASSUME NEW d \in 1..n, MaxIn(Ends) < d, c[Place(p, d)].entry = c[Place(p, d)].max
               PROVE  FALSE
    OBVIOUS
  <2>1. Place(p, d) \in Indices /\ c[Place(p, d)].entry = fwd[d] /\ d \in 0..n
    BY <1>6
  <2>2. c[Place(p, d)].max = b[Place(p, d)].max
    BY <1>9, <2>1 DEF SameBlocks
  <2>3. Breakpoint(b[Place(p, d)], rev, fwd, d)
    BY <2>1, <2>2 DEF Breakpoint
  <2>4. d \in Ends
    BY <2>3
  <2>5. MaxIn(Ends) \in 0..n
    BY <1>14, <1>1
  <2> HIDE DEF Ends
  <2> QED
    BY <2>4, <2>5, <1>14
<1>16. MaxIn(Ends) \in 0..n
  BY <1>14, <1>1
<1>17. \E v : Passes(Told(b, p, n, x).block, r.block, p, n, v)
  <2> HIDE DEF c, Ends
  <2> QED
    BY <1>2, <1>12 DEF st
<1>18. Seals(st.block, c, p, n, Place(p, MaxIn(Ends)))
  <2> DEFINE m == MaxIn(Ends)
             q == Place(p, m)
  <2>1. q \in Indices /\ c[q].entry = fwd[m] /\ m \in 0..n
    <3> HIDE DEF c, Ends
    <3> QED
      BY <1>6, <1>16
  <2>2. c[q].max = b[q].max
    <3> HIDE DEF c, Ends
    <3> QED
      BY <1>9, <2>1 DEF SameBlocks
  <2>3. m > 0 => Breakpoint(b[q], rev, fwd, m)
    <3>1. m \in Ends
      <4> HIDE DEF Ends
      <4> QED
        BY <1>14
    <3> QED
      BY <2>1, <3>1
  <2> HIDE DEF c, q, m
  <2>4. m > 0 => c[q].entry < rev[m] \/ c[q].entry = c[q].max
    BY <2>1, <2>2, <2>3 DEF Breakpoint
  <2>5. Seals(st.block, c, p, n, q)
    BY <1>12, <2>1, <2>4 DEF Seals, q
  <2> QED
    BY <2>5 DEF q, m
<1> HIDE DEF c, Ends
<1> QED
  BY <1>1, <1>2, <1>3, <1>8, <1>9, <1>10, <1>13, <1>15, <1>16, <1>17, <1>18
     DEF st, Recalculated, n, r

\* What plan_cycle_reinitialize() makes: the executing block is told, the plan is made again
\* from the tail, and with blocks in the queue the planned pointer is one of them.
Reinitialized(b, x, r) ==
  /\ r.block \in Ring /\ SameBlocks(b, r.block) /\ r.planned \in Indices
  /\ r.exec = [x EXCEPT !.loaded = FALSE, !.recalc = x.loaded \/ x.recalc]
  /\ r.exec \in Execution
  /\ \A i \in Indices : i \notin QueueOf(tail, head) \ {tail} =>
       r.block[i].entry = IF i = PlBlock /\ x.loaded THEN x.speed ELSE b[i].entry
  /\ \A i \in QueueOf(tail, head) \ {tail} : r.block[i].entry <= r.block[i].max
  /\ tail # head =>
       /\ r.planned \in QueueOf(tail, head)
       /\ \E rev : Passes(StUpdate(b, x).block, r.block, tail, Distance(tail, head) - 1, rev)
       /\ Seals(StUpdate(b, x).block, r.block, tail, Distance(tail, head) - 1, r.planned)

LEMMA ReinitializeIs ==
  ASSUME NEW b \in Ring, NEW x \in Execution, tail \in Indices, head \in Indices,
         PlBlock \in Indices, NEW r \in Reinitialize(b, x)
  PROVE  Reinitialized(b, x, r)
<1> DEFINE st == StUpdate(b, x)
<1>1. /\ st.block \in Ring /\ SameBlocks(b, st.block) /\ st.exec \in Execution
      /\ \A i \in Indices : st.block[i].entry = IF i = PlBlock /\ x.loaded THEN x.speed ELSE b[i].entry
      /\ st.exec = [x EXCEPT !.loaded = FALSE, !.recalc = x.loaded \/ x.recalc]
  BY StUpdateIs
<1>2. CASE tail = head
  <2>1. PICK p \in Indices : r = [block |-> st.block, planned |-> p, exec |-> st.exec]
    BY <1>2 DEF Reinitialize, IsEmpty
  <2>2. QueueOf(tail, head) = {}
    BY <1>2, QueueEnds
  <2> HIDE DEF st
  <2> QED
    BY <1>1, <1>2, <2>1, <2>2 DEF Reinitialized
<1>3. CASE tail # head
  <2> DEFINE n == Distance(tail, Before(head))
  <2>1. r = Recalculate(st.block, head, tail, st.exec)
    BY <1>3 DEF Reinitialize, IsEmpty
  <2>2. tail \in QueueOf(tail, head) /\ n = Distance(tail, head) - 1
    BY <1>3, QueueEnds
  <2>3. Distance(tail, tail) = 0 /\ \A i \in Indices : Distance(tail, i) \in 0..(BufferSize - 1)
                                                      /\ (Distance(tail, i) = 0 <=> tail = i)
    BY RingDistance
  <2>4. \A i \in Indices : Distance(tail, i) \in 1..n <=> i \in QueueOf(tail, head) \ {tail}
    BY <2>2, <2>3, PassPlaces
  <2>5. st.exec.loaded = FALSE
    BY <1>1 DEF Execution
  <2> HIDE DEF st, n
  <2>6. Told(st.block, tail, n, st.exec) = [block |-> st.block, exec |-> st.exec]
    BY <2>5 DEF Told, StUpdate
  <2>7. st.block \in Ring /\ st.exec \in Execution
    BY <1>1
  <2>8. Recalculated(st.block, tail, st.exec, n, r)
    BY <2>1, <2>7, RecalculateIs DEF n
  <2>9. /\ n \in 0..(BufferSize - 1)
        /\ r.exec = st.exec /\ r.block \in Ring /\ SameBlocks(st.block, r.block)
        /\ \A i \in Indices : Distance(tail, i) \notin 1..n => r.block[i].entry = st.block[i].entry
        /\ \E rev : Passes(st.block, r.block, tail, n, rev)
        /\ \A i \in Indices : Distance(tail, i) \in 1..n => r.block[i].entry <= r.block[i].max
        /\ \E m \in 0..n : r.planned = Place(tail, m)
        /\ Seals(st.block, r.block, tail, n, r.planned)
    BY <2>6, <2>8 DEF Recalculated
  <2>10. PICK m \in 0..n : r.planned = Place(tail, m)
    BY <2>9
  <2>11. r.planned \in QueueOf(tail, head) /\ r.planned \in Indices
    <3>1. m \in 0..(BufferSize - 1) /\ m < Distance(tail, head)
      BY <2>2, <2>3, <2>9, PlannerAssumption
    <3>2. Place(tail, m) \in Indices /\ Distance(tail, Place(tail, m)) = m
      BY <3>1, RingPlace
    <3> QED
      BY <2>10, <3>1, <3>2 DEF QueueOf
  <2>12. SameBlocks(b, r.block)
    BY <1>1, <2>9 DEF SameBlocks
  <2>13. \A i \in QueueOf(tail, head) : i \in Indices
    BY DEF QueueOf
  <2>14. /\ \E rev : Passes(st.block, r.block, tail, Distance(tail, head) - 1, rev)
         /\ Seals(st.block, r.block, tail, Distance(tail, head) - 1, r.planned)
    BY <2>2, <2>9
  <2> QED
    BY <1>1, <1>3, <2>4, <2>9, <2>11, <2>12, <2>13, <2>14 DEF st, Reinitialized
<1> QED
  BY <1>2, <1>3

------------------------------------------------------------------------------
(* The inductive invariant *)

Types ==
  /\ TypeOK
  /\ block \in Ring /\ exec \in Execution /\ prevNominal \in Nat
  /\ begun \in BOOLEAN /\ slowed \in BOOLEAN

\* Every queued block but the one at the tail is limited by its corner, its own speed and the
\* one before it, as they are under the overrides f and r, and planned within that limit.
LimitsOf(b, t, h, f, r) ==
  \A i \in QueueOf(t, h) \ {t} :
    /\ b[i].max = MaxEntry(b[i], Nominal(b[i], f, r), Nominal(b[Before(i)], f, r))
    /\ b[i].entry <= b[i].max

\* pl.previous_nominal_speed is the speed of the last block, under the overrides in force.
Limits ==
  /\ LimitsOf(block, tail, head, feedOvr, rapidOvr)
  /\ ~IsEmpty => prevNominal = Nominal(block[Last], feedOvr, rapidOvr)

Moving  == {"normal", "hold", "holdEnd"}
Parking == {"park", "parkHold", "parkEnd"}

\* The stepper executes, recomputes or keeps for later only a block that is queued.
QueueUsed ==
  /\ exec.loaded /\ control \in Moving => ~IsEmpty
  /\ exec.recalc /\ control \notin Parking => ~IsEmpty
  /\ exec.partial => ~IsEmpty

\* The profile x fits the room left in its block; under a hold the stop does.
Fits(x, room) ==
  /\ x.complete <= room
  /\ control \in {"normal", "park"} => x.complete = 0
  /\ control \in {"hold", "parkHold"} => room <= x.complete + x.speed
                                         /\ (x.complete > 0 => x.exit = 0)

ProfileFits ==
  /\ exec.loaded => ~exec.recalc /\ Fits(exec, block[PlBlock].room)
  /\ exec.recalc => block[PlBlock].entry = exec.speed
  /\ ~exec.loaded /\ ~exec.recalc => exec.speed = exec.exit

\* The machine stands after a hold and between parking motions, and a parking motion can
\* always stop within its room.
AtStop ==
  /\ control \in {"held", "holdEnd", "parkEnd"} => exec.speed = 0 /\ exec.exit = 0
  /\ control = "held" => ~exec.loaded
  /\ control \in {"park", "parkHold"} => exec.exit = 0 /\ exec.speed <= block[head].room
  /\ control = "park" /\ ~exec.loaded /\ ~exec.recalc => block[head].entry = 0
  /\ exec.partial /\ control \in Parking => block[tail].entry = 0

\* A block that was begun is being executed, is to be recomputed, or is remembered as partial.
BegunKnown ==
  /\ begun /\ control \in {"normal", "hold"} => exec.loaded \/ exec.recalc
  /\ begun /\ control \in Parking \cup {"held"} => exec.partial
  /\ exec.partial /\ control \in {"normal", "hold", "held"} => exec.recalc
  /\ control = "holdEnd" => exec.partial /\ (exec.loaded \/ exec.recalc)

PlannerInv ==
  /\ Types /\ PlannedInQueue /\ Limits
  /\ QueueUsed /\ ProfileFits /\ AtStop /\ BegunKnown
  /\ ExitAgrees

LEMMA PlBlockIn ==
  ASSUME Types
  PROVE  PlBlock \in Indices /\ (control \in Parking => PlBlock = head)
         /\ (control \notin Parking => PlBlock = tail)
  BY DEF Types, TypeOK, PlBlock, Parking

LEMMA NominalSame ==
  ASSUME NEW b, NEW c, b.kind = c.kind, b.rate = c.rate, NEW f, NEW r
  PROVE  Nominal(b, f, r) = Nominal(c, f, r)
  BY DEF Nominal

LEMMA MaxEntrySame ==
  ASSUME NEW b, NEW c, b.corner = c.corner, NEW v, NEW w
  PROVE  MaxEntry(b, v, w) = MaxEntry(c, v, w)
  BY DEF MaxEntry

\* The limits are kept by a step that appends nothing and changes at most the room of queued
\* blocks, and their entry speeds within the maximum.
LEMMA LimitsKept ==
  ASSUME NEW b, NEW c, NEW t \in Indices, NEW u \in Indices, NEW h \in Indices,
         NEW f, NEW r, LimitsOf(b, t, h, f, r),
         u = t \/ (t # h /\ u = After(t)),
         \A i \in QueueOf(u, h) : c[i].kind = b[i].kind /\ c[i].rate = b[i].rate
                                  /\ c[i].corner = b[i].corner /\ c[i].max = b[i].max,
         \A i \in QueueOf(u, h) \ {u} : c[i].entry = b[i].entry \/ c[i].entry <= c[i].max
  PROVE  LimitsOf(c, u, h, f, r)
<1>1. QueueOf(u, h) \subseteq QueueOf(t, h) /\ (u # t => t \notin QueueOf(u, h))
  BY QueueShrunk
<1> SUFFICES ASSUME NEW i \in QueueOf(u, h) \ {u}
             PROVE  /\ c[i].max = MaxEntry(c[i], Nominal(c[i], f, r), Nominal(c[Before(i)], f, r))
                    /\ c[i].entry <= c[i].max
  BY DEF LimitsOf
<1>2. i \in QueueOf(t, h) \ {t}
  BY <1>1
<1>3. Before(i) \in QueueOf(u, h)
  BY QueueNeighbours
<1>4. Nominal(c[i], f, r) = Nominal(b[i], f, r)
      /\ Nominal(c[Before(i)], f, r) = Nominal(b[Before(i)], f, r)
  BY <1>3, NominalSame
<1>5. MaxEntry(c[i], Nominal(b[i], f, r), Nominal(b[Before(i)], f, r))
        = MaxEntry(b[i], Nominal(b[i], f, r), Nominal(b[Before(i)], f, r))
  BY MaxEntrySame
<1> QED
  BY <1>2, <1>4, <1>5 DEF LimitsOf

------------------------------------------------------------------------------
(* The steps *)

LEMMA InitInv == Init => PlannerInv
<1> SUFFICES ASSUME Init PROVE PlannerInv
  OBVIOUS
<1>1. NoBlock \in Cell /\ 0 \in Indices /\ NoExec \in Execution
  BY PlannerAssumption DEF NoBlock, Cell, Kinds, Indices, NoExec, Execution
<1>2. block \in Ring
  BY <1>1 DEF Init, Ring
<1>3. Types
  <2>1. Full \in FeedMin..FeedMax /\ Full \in RapidOverrides
    BY PlannerAssumption
  <2>2. TypeOK
    BY <1>1, <2>1 DEF Init, TypeOK, Controls
  <2> QED
    BY <1>1, <1>2, <2>2 DEF Init, Types
<1>4. IsEmpty /\ QueueOf(tail, head) = {}
  BY <1>1, QueueEnds DEF Init, IsEmpty
<1>5. PlannedInQueue /\ Limits /\ QueueUsed
  BY <1>4 DEF Init, PlannedInQueue, Limits, LimitsOf, QueueUsed, NoExec
<1>6. ProfileFits /\ AtStop /\ BegunKnown /\ ExitAgrees
  BY DEF Init, ProfileFits, AtStop, BegunKnown, ExitAgrees, NoExec, Parking
<1> QED
  BY <1>3, <1>5, <1>6 DEF PlannerInv

\* PlanReset with an empty prep, in a cancelled jog and a reset.
LEMMA ResetKeeps ==
  ASSUME PlannerInv, PlanReset, exec' = NoExec, control' = "normal", begun' = FALSE,
         slowed' = FALSE, feedOvr' \in FeedMin..FeedMax, rapidOvr' \in RapidOverrides
  PROVE  PlannerInv'
<1>1. NoBlock \in Cell /\ 0 \in Indices /\ NoExec \in Execution
  BY PlannerAssumption DEF NoBlock, Cell, Kinds, Indices, NoExec, Execution
<1>2. block' \in Ring
  BY <1>1 DEF PlanReset, Ring
<1>3. Types'
  BY <1>1, <1>2, PlannerAssumption DEF PlanReset, Types, TypeOK, Controls
<1>4. IsEmpty' /\ QueueOf(tail', head') = {}
  BY <1>1, QueueEnds DEF PlanReset, IsEmpty
<1>5. PlannedInQueue' /\ Limits' /\ QueueUsed'
  BY <1>4 DEF PlannedInQueue, Limits, LimitsOf, QueueUsed, NoExec
<1>6. ProfileFits' /\ AtStop' /\ BegunKnown' /\ ExitAgrees'
  BY DEF ProfileFits, AtStop, BegunKnown, ExitAgrees, NoExec, Parking
<1> QED
  BY <1>3, <1>5, <1>6 DEF PlannerInv

\* The overrides are restored while nothing is queued.
LEMMA ProgramEndKeeps ==
  ASSUME PlannerInv, ProgramEnd
  PROVE  PlannerInv'
<1>1. /\ block' = block /\ tail' = tail /\ head' = head /\ planned' = planned
      /\ prevNominal' = prevNominal /\ exec' = exec /\ control' = control
      /\ begun' = begun /\ slowed' = slowed
      /\ feedOvr' = Full /\ rapidOvr' = Full /\ IsEmpty /\ tail \in Indices
  BY DEF ProgramEnd, planVars, history, PlannerInv, Types, TypeOK
<1>2. PlBlock' = PlBlock /\ IsEmpty' /\ QueueOf(tail', head') = {}
  BY <1>1, QueueEnds DEF PlBlock, IsEmpty
<1>3. Types'
  BY <1>1, PlannerAssumption DEF PlannerInv, Types, TypeOK
<1>4. PlannedInQueue' /\ Limits'
  BY <1>2 DEF PlannedInQueue, Limits, LimitsOf
<1>5. QueueUsed' /\ ~exec.loaded
  BY <1>1, <1>2 DEF PlannerInv, QueueUsed, ProgramEnd, Moving
<1>6. ProfileFits' /\ AtStop' /\ BegunKnown' /\ ExitAgrees'
  BY <1>1, <1>2, <1>5 DEF PlannerInv, ProfileFits, Fits, AtStop, BegunKnown, ExitAgrees
<1> QED
  BY <1>3, <1>4, <1>5, <1>6 DEF PlannerInv

\* Nothing but the control state changes.
LEMMA ControlKeeps ==
  ASSUME PlannerInv, UNCHANGED <<planVars, exec, ovrVars, history>>, HoldIdle \/ Resume
  PROVE  PlannerInv'
<1>1. /\ block' = block /\ tail' = tail /\ head' = head /\ planned' = planned
      /\ prevNominal' = prevNominal /\ exec' = exec /\ feedOvr' = feedOvr
      /\ rapidOvr' = rapidOvr /\ begun' = begun /\ slowed' = slowed
      /\ \/ control = "normal" /\ AtRest /\ control' = "held"
         \/ control = "held" /\ control' = "normal"
  BY DEF planVars, ovrVars, history, HoldIdle, Resume
<1>2. Types'
  BY <1>1 DEF PlannerInv, Types, TypeOK, Controls
<1>3. PlannedInQueue' /\ Limits'
  BY <1>1 DEF PlannerInv, PlannedInQueue, Limits, IsEmpty, Queued, Count, Last
<1>4. PlBlock' = tail /\ PlBlock = tail
  BY <1>1 DEF PlBlock
<1>5. QueueUsed' /\ ProfileFits'
  BY <1>1, <1>4 DEF PlannerInv, QueueUsed, ProfileFits, AtStop, IsEmpty, Moving, Parking, AtRest
<1>6. exec.speed = 0 /\ exec.exit = 0 /\ ~exec.loaded
  BY <1>1 DEF PlannerInv, AtStop, AtRest, ProfileFits
<1>7. AtStop' /\ BegunKnown'
  BY <1>1, <1>6 DEF PlannerInv, AtStop, BegunKnown, AtRest, Parking
<1>8. ExitAgrees'
  BY <1>1, <1>6 DEF ExitAgrees
<1> QED
  BY <1>2, <1>3, <1>5, <1>7, <1>8 DEF PlannerInv

\* Nothing is appended or discarded, and the queued blocks keep what limits them.
LEMMA QueueStays ==
  ASSUME PlannerInv, UNCHANGED <<tail, head, prevNominal, ovrVars>>,
         begun' \in BOOLEAN, slowed' \in BOOLEAN, control' \in Controls, block' \in Ring, exec' \in Execution,
         planned' = planned \/ (planned' \in Indices
                                /\ (tail # head => planned' \in QueueOf(tail, head))),
         \A i \in QueueOf(tail, head) :
           /\ block'[i].kind = block[i].kind /\ block'[i].rate = block[i].rate
           /\ block'[i].corner = block[i].corner /\ block'[i].max = block[i].max,
         \A i \in QueueOf(tail, head) \ {tail} :
           block'[i].entry = block[i].entry \/ block'[i].entry <= block'[i].max
  PROVE  Types' /\ PlannedInQueue' /\ Limits'
<1>1. /\ tail' = tail /\ head' = head /\ prevNominal' = prevNominal
      /\ feedOvr' = feedOvr /\ rapidOvr' = rapidOvr
  BY DEF ovrVars
<1>2. Types'
  BY <1>1 DEF PlannerInv, Types, TypeOK
<1>3. tail \in Indices /\ head \in Indices
  BY DEF PlannerInv, Types, TypeOK
<1>4. Queued' = QueueOf(tail, head) /\ Queued = QueueOf(tail, head)
  BY <1>1, <1>3, QueuedIs
<1>5. PlannedInQueue'
  BY <1>1, <1>4 DEF PlannerInv, PlannedInQueue, IsEmpty
<1>6. LimitsOf(block', tail, head, feedOvr, rapidOvr)
  <2>1. LimitsOf(block, tail, head, feedOvr, rapidOvr)
    BY DEF PlannerInv, Limits
  <2> DEFINE c == block'
  <2>2. \A i \in QueueOf(tail, head) : c[i].kind = block[i].kind /\ c[i].rate = block[i].rate
                                  /\ c[i].corner = block[i].corner /\ c[i].max = block[i].max
    OBVIOUS
  <2>3. \A i \in QueueOf(tail, head) \ {tail} : c[i].entry = block[i].entry \/ c[i].entry <= c[i].max
    OBVIOUS
  <2> HIDE DEF c
  <2>4. LimitsOf(c, tail, head, feedOvr, rapidOvr)
    BY <1>3, <2>1, <2>2, <2>3, LimitsKept
  <2> QED
    BY <2>4 DEF c
<1>7. ~IsEmpty' => prevNominal' = Nominal(block'[Last], feedOvr, rapidOvr)
  <2> SUFFICES ASSUME ~IsEmpty PROVE prevNominal = Nominal(block'[Last], feedOvr, rapidOvr)
    BY <1>1 DEF IsEmpty
  <2>1. Last \in QueueOf(tail, head)
    BY <1>3, QueueEnds DEF Last, IsEmpty
  <2>2. prevNominal = Nominal(block[Last], feedOvr, rapidOvr)
    BY DEF PlannerInv, Limits
  <2> QED
    BY <2>1, <2>2, NominalSame
<1> QED
  BY <1>1, <1>2, <1>5, <1>6, <1>7 DEF Limits, Last

LEMMA QueueKept ==
  ASSUME PlannerInv, UNCHANGED <<tail, head, prevNominal, ovrVars, history>>,
         control' \in Controls, block' \in Ring, exec' \in Execution,
         planned' = planned \/ (planned' \in Indices
                                /\ (tail # head => planned' \in QueueOf(tail, head))),
         \A i \in QueueOf(tail, head) :
           /\ block'[i].kind = block[i].kind /\ block'[i].rate = block[i].rate
           /\ block'[i].corner = block[i].corner /\ block'[i].max = block[i].max,
         \A i \in QueueOf(tail, head) \ {tail} :
           block'[i].entry = block[i].entry \/ block'[i].entry <= block'[i].max
  PROVE  Types' /\ PlannedInQueue' /\ Limits'
<1>1. begun' \in BOOLEAN /\ slowed' \in BOOLEAN
  BY DEF PlannerInv, Types, history
<1> QED
  BY <1>1, QueueStays

LEMMA HoldKeeps ==
  ASSUME PlannerInv, Hold \/ ParkReopened
  PROVE  PlannerInv'
<1> DEFINE st == StUpdate(block, exec)
<1>1. Types
  BY DEF PlannerInv
<1>2. PlBlock \in Indices /\ block \in Ring /\ exec \in Execution /\ tail \in Indices /\ head \in Indices
  BY <1>1, PlBlockIn DEF Types, TypeOK
<1>3. /\ block' = st.block /\ exec' = st.exec
      /\ UNCHANGED <<tail, head, planned, prevNominal, ovrVars, history>>
      /\ \/ control = "normal" /\ control' = "hold"
         \/ control = "park" /\ control' = "parkHold"
  BY DEF Hold, ParkReopened
<1>4. /\ st.block \in Ring /\ SameBlocks(block, st.block) /\ st.exec \in Execution
      /\ \A i \in Indices : st.block[i].entry = IF i = PlBlock /\ exec.loaded THEN exec.speed
                                                ELSE block[i].entry
      /\ st.exec = [exec EXCEPT !.loaded = FALSE, !.recalc = exec.loaded \/ exec.recalc]
  BY <1>2, StUpdateIs
<1> HIDE DEF st
<1>5. /\ exec'.loaded = FALSE /\ exec'.recalc = (exec.loaded \/ exec.recalc)
      /\ exec'.speed = exec.speed /\ exec'.exit = exec.exit /\ exec'.partial = exec.partial
  BY <1>2, <1>3, <1>4 DEF Execution
<1>6. PlBlock' = PlBlock /\ (control = "normal" => PlBlock = tail) /\ (control = "park" => PlBlock = head)
      /\ tail' = tail /\ head' = head /\ begun' = begun
  BY <1>3 DEF PlBlock, history
<1>7. QueueOf(tail, head) \subseteq Indices /\ head \notin QueueOf(tail, head)
  BY <1>2, QueueEnds
<1>8. Types' /\ PlannedInQueue' /\ Limits'
  <2>1. control' \in Controls /\ block' \in Ring /\ exec' \in Execution
    BY <1>3, <1>4 DEF Controls
  <2>2. \A i \in QueueOf(tail, head) :
           /\ block'[i].kind = block[i].kind /\ block'[i].rate = block[i].rate
           /\ block'[i].corner = block[i].corner /\ block'[i].max = block[i].max
    BY <1>3, <1>4, <1>7 DEF SameBlocks
  <2>3. \A i \in QueueOf(tail, head) \ {tail} : block'[i].entry = block[i].entry
    BY <1>3, <1>4, <1>6, <1>7
  <2> QED
    BY <1>3, <2>1, <2>2, <2>3, QueueKept
<1>9. QueueUsed'
  BY <1>3, <1>5, <1>6 DEF PlannerInv, QueueUsed, IsEmpty, Moving, Parking
<1>10. ProfileFits'
  BY <1>2, <1>3, <1>4, <1>5, <1>6 DEF PlannerInv, ProfileFits
<1>11. AtStop'
  <2>1. block'[head].room = block[head].room /\ (block'[tail].entry = block[tail].entry \/ tail = PlBlock)
    BY <1>2, <1>3, <1>4 DEF SameBlocks
  <2>2. CASE control = "normal"
    BY <1>3, <1>5, <1>6, <2>1, <2>2 DEF PlannerInv, AtStop, Parking
  <2>3. CASE control = "park"
    <3>1. exec.partial => tail # head
      BY DEF PlannerInv, QueueUsed, IsEmpty
    <3> QED
      BY <1>3, <1>5, <1>6, <2>1, <2>3, <3>1 DEF PlannerInv, AtStop, Parking
  <2> QED
    BY <1>3, <2>2, <2>3
<1>12. BegunKnown'
  BY <1>2, <1>3, <1>5, <1>6 DEF PlannerInv, BegunKnown, Parking, Execution
<1>13. ExitAgrees'
  BY <1>5 DEF ExitAgrees
<1> QED
  BY <1>8, <1>9, <1>10, <1>11, <1>12, <1>13 DEF PlannerInv

LEMMA ParkKeeps ==
  ASSUME PlannerInv, Park
  PROVE  PlannerInv'
<1> DEFINE new == [kind |-> ParkLine.kind, rate |-> ParkLine.rate, room |-> ParkLine.room,
                   corner |-> 0, max |-> 0, entry |-> 0]
<1>1. Types
  BY DEF PlannerInv
<1>2. block \in Ring /\ exec \in Execution /\ tail \in Indices /\ head \in Indices
  BY <1>1 DEF Types, TypeOK
<1>3. /\ block' = [block EXCEPT ![head] = new]
      /\ exec' = [exec EXCEPT !.loaded = FALSE, !.recalc = FALSE]
      /\ control = "held" /\ control' = "park"
      /\ UNCHANGED <<tail, head, planned, prevNominal, ovrVars, history>>
  BY DEF Park
<1>4. new \in Cell
  BY PlannerAssumption DEF Line, Cell
<1>5. block' \in Ring /\ block'[head] = new /\ \A i \in Indices \ {head} : block'[i] = block[i]
  <2> HIDE DEF new
  <2> QED
    BY <1>2, <1>3, <1>4 DEF Ring
<1>6. /\ exec' \in Execution /\ exec'.loaded = FALSE /\ exec'.recalc = FALSE
      /\ exec'.speed = exec.speed /\ exec'.exit = exec.exit /\ exec'.partial = exec.partial
  BY <1>2, <1>3 DEF Execution
<1>7. exec.speed = 0 /\ exec.exit = 0
  BY <1>3 DEF PlannerInv, AtStop
<1>8. PlBlock = tail /\ PlBlock' = head /\ tail' = tail /\ head' = head /\ begun' = begun
  BY <1>3 DEF PlBlock, history
<1>9. QueueOf(tail, head) \subseteq Indices /\ head \notin QueueOf(tail, head)
  BY <1>2, QueueEnds
<1>10. Types' /\ PlannedInQueue' /\ Limits'
  <2>1. \A i \in QueueOf(tail, head) : block'[i] = block[i]
    BY <1>5, <1>9
  <2> HIDE DEF new
  <2> QED
    BY <1>3, <1>5, <1>6, <2>1, QueueKept DEF Controls
<1>11. exec.partial => tail # head /\ exec.recalc
  BY <1>3 DEF PlannerInv, QueueUsed, BegunKnown, IsEmpty
<1>12. exec.partial => block'[tail].entry = 0
  BY <1>2, <1>5, <1>7, <1>8, <1>11 DEF PlannerInv, ProfileFits
<1>13. block'[head].room \in Nat /\ block'[head].entry = 0
  BY <1>2, <1>5 DEF Ring, Cell
<1>14. QueueUsed' /\ ProfileFits' /\ AtStop' /\ BegunKnown' /\ ExitAgrees'
  <2> HIDE DEF new
  <2>1. QueueUsed'
    BY <1>3, <1>6, <1>8, <1>11 DEF QueueUsed, IsEmpty, Parking
  <2>2. ProfileFits'
    BY <1>6, <1>7 DEF ProfileFits
  <2>3. AtStop'
    BY <1>3, <1>6, <1>7, <1>8, <1>12, <1>13 DEF AtStop, Parking
  <2>4. BegunKnown'
    BY <1>3, <1>6, <1>8 DEF PlannerInv, BegunKnown, Parking
  <2>5. ExitAgrees'
    BY <1>6 DEF ExitAgrees
  <2> QED
    BY <2>1, <2>2, <2>3, <2>4, <2>5
<1> QED
  BY <1>10, <1>14 DEF PlannerInv

\* A feed hold or a parking motion is complete: the plan is made again.
LEMMA HoldCompleteKeeps ==
  ASSUME PlannerInv, HoldComplete
  PROVE  PlannerInv'
<1>1. Types
  BY DEF PlannerInv
<1>2. PlBlock \in Indices /\ block \in Ring /\ exec \in Execution /\ tail \in Indices /\ head \in Indices
  BY <1>1, PlBlockIn DEF Types, TypeOK
<1>3. PICK r \in Reinitialize(block, exec) :
        block' = r.block /\ planned' = r.planned /\ exec' = r.exec
  BY DEF HoldComplete
<1>4. /\ control = "holdEnd" \/ (control = "hold" /\ AtRest)
      /\ control' = "held"
      /\ UNCHANGED <<tail, head, prevNominal, ovrVars, history>>
  BY DEF HoldComplete
<1>5. Reinitialized(block, exec, r)
  BY <1>2, ReinitializeIs
<1>6. PlBlock = tail /\ PlBlock' = tail /\ tail' = tail /\ head' = head /\ begun' = begun
  BY <1>4 DEF PlBlock, history
<1>7. /\ exec'.loaded = FALSE /\ exec'.recalc = (exec.loaded \/ exec.recalc)
      /\ exec'.speed = exec.speed /\ exec'.exit = exec.exit /\ exec'.partial = exec.partial
  BY <1>2, <1>3, <1>5 DEF Reinitialized, Execution
<1>8. exec.speed = 0 /\ exec.exit = 0
  BY <1>4 DEF PlannerInv, AtStop, AtRest, ProfileFits
<1>9. block'[tail].entry = IF exec.loaded THEN exec.speed ELSE block[tail].entry
  BY <1>2, <1>3, <1>5, <1>6 DEF Reinitialized
<1>10. Types' /\ PlannedInQueue' /\ Limits'
  <2>1. \A i \in QueueOf(tail, head) : i \in Indices
    BY DEF QueueOf
  <2>2. \A i \in QueueOf(tail, head) :
           /\ block'[i].kind = block[i].kind /\ block'[i].rate = block[i].rate
           /\ block'[i].corner = block[i].corner /\ block'[i].max = block[i].max
    BY <1>3, <1>5, <2>1 DEF Reinitialized, SameBlocks
  <2> QED
    BY <1>3, <1>4, <1>5, <2>2, QueueKept DEF Reinitialized, Controls
<1>11. QueueUsed'
  BY <1>4, <1>6, <1>7 DEF PlannerInv, QueueUsed, IsEmpty, Moving, Parking
<1>12. ProfileFits'
  BY <1>6, <1>7, <1>8, <1>9 DEF PlannerInv, ProfileFits
<1>13. AtStop'
  BY <1>4, <1>7, <1>8 DEF AtStop, Parking
<1>14. BegunKnown'
  BY <1>4, <1>6, <1>7 DEF PlannerInv, BegunKnown, AtRest, Parking
<1>15. ExitAgrees'
  BY <1>7 DEF ExitAgrees
<1> QED
  BY <1>10, <1>11, <1>12, <1>13, <1>14, <1>15 DEF PlannerInv

LEMMA ParkedKeeps ==
  ASSUME PlannerInv, Parked
  PROVE  PlannerInv'
<1>1. Types
  BY DEF PlannerInv
<1>2. PlBlock \in Indices /\ block \in Ring /\ exec \in Execution /\ tail \in Indices /\ head \in Indices
  BY <1>1, PlBlockIn DEF Types, TypeOK
<1>3. PICK r \in Reinitialize(block, exec) :
        block' = [r.block EXCEPT ![head] = NoBlock] /\ planned' = r.planned
        /\ exec' = Restored(r.exec)
  BY DEF Parked
<1>4. /\ control = "parkEnd" /\ control' = "held"
      /\ UNCHANGED <<tail, head, prevNominal, ovrVars, history>>
  BY DEF Parked
<1>5. Reinitialized(block, exec, r)
  BY <1>2, ReinitializeIs
<1>6. PlBlock = head /\ PlBlock' = tail /\ tail' = tail /\ head' = head /\ begun' = begun
  BY <1>4 DEF PlBlock, history
<1>7. /\ exec' \in Execution
      /\ exec'.loaded = FALSE /\ exec'.recalc = exec.partial /\ exec'.partial = exec.partial
      /\ exec'.speed = exec.speed /\ exec'.exit = exec.exit
  BY <1>2, <1>3, <1>5 DEF Reinitialized, Restored, Execution
<1>8. exec.speed = 0 /\ exec.exit = 0
  BY <1>4 DEF PlannerInv, AtStop
<1>9. NoBlock \in Cell
  BY PlannerAssumption DEF NoBlock, Cell, Kinds
<1>10. block' \in Ring /\ \A i \in Indices \ {head} : block'[i] = r.block[i]
  BY <1>3, <1>5, <1>9 DEF Reinitialized, Ring
<1>11. exec.partial => tail # head /\ block'[tail].entry = 0
  <2> SUFFICES ASSUME exec.partial PROVE tail # head /\ block'[tail].entry = 0
    OBVIOUS
  <2>1. tail # head
    BY DEF PlannerInv, QueueUsed, IsEmpty
  <2>2. block'[tail].entry = block[tail].entry
    BY <1>2, <1>5, <1>6, <1>10, <2>1 DEF Reinitialized
  <2> QED
    BY <1>4, <2>1, <2>2 DEF PlannerInv, AtStop, Parking
<1>12. Types' /\ PlannedInQueue' /\ Limits'
  <2>1. \A i \in QueueOf(tail, head) : i \in Indices /\ i # head
    BY <1>2, QueueEnds
  <2>2. \A i \in QueueOf(tail, head) :
           /\ block'[i].kind = block[i].kind /\ block'[i].rate = block[i].rate
           /\ block'[i].corner = block[i].corner /\ block'[i].max = block[i].max
    BY <1>5, <1>10, <2>1 DEF Reinitialized, SameBlocks
  <2>3. \A i \in QueueOf(tail, head) \ {tail} : block'[i].entry <= block'[i].max
    BY <1>5, <1>10, <2>1 DEF Reinitialized
  <2>4. planned' \in Indices /\ (tail # head => planned' \in QueueOf(tail, head))
    BY <1>3, <1>5 DEF Reinitialized
  <2> QED
    BY <1>4, <1>7, <1>10, <2>2, <2>3, <2>4, QueueKept DEF Controls
<1>13. QueueUsed'
  BY <1>4, <1>6, <1>7, <1>11 DEF QueueUsed, IsEmpty, Moving, Parking
<1>14. ProfileFits'
  BY <1>6, <1>7, <1>8, <1>11 DEF ProfileFits
<1>15. AtStop'
  BY <1>4, <1>7, <1>8 DEF AtStop, Parking
<1>16. BegunKnown'
  BY <1>4, <1>6, <1>7 DEF PlannerInv, BegunKnown, Parking
<1>17. ExitAgrees'
  BY <1>7 DEF ExitAgrees
<1> QED
  BY <1>12, <1>13, <1>14, <1>15, <1>16, <1>17 DEF PlannerInv

LEMMA FeedOverrideIn ==
  ASSUME NEW old \in FeedMin..FeedMax, NEW flags
  PROVE  FeedOverride(old, flags) \in FeedMin..FeedMax
<1> DEFINE from  == IF "reset" \in flags THEN Full ELSE old
           plus  == (IF "coarsePlus" \in flags THEN FeedCoarse ELSE 0)
                    + (IF "finePlus" \in flags THEN FeedFine ELSE 0)
           minus == (IF "coarseMinus" \in flags THEN FeedCoarse ELSE 0)
                    + (IF "fineMinus" \in flags THEN FeedFine ELSE 0)
           sum == (from + plus - minus) % Width
<1>1. from + plus - minus \in Int /\ Width \in Nat \ {0} /\ FeedMin \in Nat /\ FeedMax \in Nat
      /\ FeedMin <= FeedMax
  BY PlannerAssumption
<1>2. FeedOverride(old, flags) = MaxOf(MinOf(sum, FeedMax), FeedMin)
  BY DEF FeedOverride
<1> HIDE DEF from, plus, minus
<1>3. sum \in Int
  BY <1>1, ModRange
<1> HIDE DEF sum
<1> QED
  BY <1>1, <1>2, <1>3 DEF MaxOf, MinOf

\* An override: every junction behind the tail gets its new limit, and the plan is made again
\* from the blocks b with these limits.
Overridden(b, r, feed, rapid) ==
  /\ b \in Ring /\ Reinitialized(b, exec, r)
  /\ block' = r.block /\ planned' = r.planned /\ exec' = r.exec
  /\ tail' = tail /\ head' = head /\ control' = control
  /\ \A i \in Indices : /\ b[i].kind = block[i].kind /\ b[i].rate = block[i].rate
                        /\ b[i].room = block[i].room /\ b[i].entry = block[i].entry
                        /\ b[i].corner = block[i].corner
  /\ \A i \in QueueOf(tail, head) \ {tail} : b[i].max =
       MaxEntry(block[i], Nominal(block[i], feed, rapid), Nominal(block[Before(i)], feed, rapid))
  /\ slowed' = (slowed \/ \E i \in QueueOf(tail, head) \ {tail} : b[i].max < block[i].max)

LEMMA OverrideIs ==
  ASSUME PlannerInv, NEW feed \in FeedMin..FeedMax, NEW rapid \in RapidOverrides,
         Override(feed, rapid)
  PROVE  \E b, r : Overridden(b, r, feed, rapid)
<1> DEFINE before(i) == IF i = tail THEN NoLimit ELSE Nominal(block[Before(i)], feed, rapid)
           updated == [i \in Indices |->
                         IF i \in Queued
                         THEN [block[i] EXCEPT !.max = UpdatedMaxEntry(block[i], before(i), feed, rapid)]
                         ELSE block[i]]
<1>1. Types
  BY DEF PlannerInv
<1>2. PlBlock \in Indices /\ block \in Ring /\ exec \in Execution /\ tail \in Indices /\ head \in Indices
      /\ control \in Controls /\ begun \in BOOLEAN
      /\ (control \in Parking => PlBlock = head) /\ (control \notin Parking => PlBlock = tail)
  BY <1>1, PlBlockIn DEF Types, TypeOK
<1>3. PICK r \in Reinitialize(updated, exec) :
        block' = r.block /\ planned' = r.planned /\ exec' = r.exec
  BY DEF Override
<1>4. tail' = tail /\ head' = head /\ control' = control
  BY DEF Override
<1>5. Queued = QueueOf(tail, head)
  BY <1>2, QueuedIs
<1>6. feed \in Nat /\ rapid \in Nat
  BY PlannerAssumption
<1>7. \A i \in Indices : /\ block[i] \in Cell /\ Before(i) \in Indices
                         /\ Nominal(block[i], feed, rapid) \in Nat
  <2> SUFFICES ASSUME NEW i \in Indices
               PROVE  /\ block[i] \in Cell /\ Before(i) \in Indices
                      /\ Nominal(block[i], feed, rapid) \in Nat
    OBVIOUS
  <2>1. block[i] \in Cell
    BY <1>2 DEF Ring
  <2>2. block[i].kind \in Kinds /\ block[i].rate \in Nat
    BY <2>1 DEF Cell
  <2> QED
    BY <2>1, <2>2, <1>6, NominalNat, RingSteps
<1>8. \A i \in Indices : UpdatedMaxEntry(block[i], before(i), feed, rapid) \in Nat
  <2> SUFFICES ASSUME NEW i \in Indices
               PROVE  UpdatedMaxEntry(block[i], before(i), feed, rapid) \in Nat
    OBVIOUS
  <2>1. before(i) \in Nat
    BY <1>7, NoLimitNat
  <2>2. block[i].corner \in Nat
    BY <1>7 DEF Cell
  <2> HIDE DEF before
  <2> QED
    BY <1>7, <2>1, <2>2, MaxEntryIs DEF UpdatedMaxEntry
<1>9. /\ updated \in Ring
      /\ \A i \in Indices : /\ updated[i].kind = block[i].kind /\ updated[i].rate = block[i].rate
                            /\ updated[i].room = block[i].room /\ updated[i].entry = block[i].entry
                            /\ updated[i].corner = block[i].corner
      /\ \A i \in QueueOf(tail, head) \ {tail} : updated[i].max =
           MaxEntry(block[i], Nominal(block[i], feed, rapid), Nominal(block[Before(i)], feed, rapid))
  <2>1. \A i \in Indices : updated[i] \in Cell
    <3> HIDE DEF before
    <3> QED
      BY <1>7, <1>8 DEF Cell
  <2>2. updated \in Ring
    BY <2>1 DEF Ring
  <2>3. \A i \in Indices : /\ updated[i].kind = block[i].kind /\ updated[i].rate = block[i].rate
                            /\ updated[i].room = block[i].room /\ updated[i].entry = block[i].entry
                            /\ updated[i].corner = block[i].corner
    BY <1>7 DEF Cell
  <2>4. \A i \in QueueOf(tail, head) \ {tail} : updated[i].max =
           MaxEntry(block[i], Nominal(block[i], feed, rapid), Nominal(block[Before(i)], feed, rapid))
    <3> SUFFICES ASSUME NEW i \in QueueOf(tail, head) \ {tail}
                 PROVE  updated[i].max = MaxEntry(block[i], Nominal(block[i], feed, rapid),
                                                  Nominal(block[Before(i)], feed, rapid))
      OBVIOUS
    <3>1. i \in Indices /\ block[i] \in Cell
      BY <1>7 DEF QueueOf
    <3>2. updated[i].max = UpdatedMaxEntry(block[i], before(i), feed, rapid)
      <4> HIDE DEF before
      <4> QED
        BY <1>5, <3>1 DEF Cell
    <3> QED
      BY <3>2 DEF UpdatedMaxEntry
  <2> HIDE DEF updated
  <2> QED
    BY <2>2, <2>3, <2>4
<1>10. slowed' = (slowed \/ \E i \in QueueOf(tail, head) \ {tail} : updated[i].max < block[i].max)
  BY <1>5 DEF Override
<1> HIDE DEF before, updated
<1>11. Reinitialized(updated, exec, r)
  BY <1>2, <1>3, <1>9, ReinitializeIs
<1>12. Overridden(updated, r, feed, rapid)
  BY <1>3, <1>4, <1>9, <1>10, <1>11 DEF Overridden
<1> QED
  BY <1>12

LEMMA OverrideKeeps ==
  ASSUME PlannerInv, NEW feed \in FeedMin..FeedMax, NEW rapid \in RapidOverrides,
         Override(feed, rapid)
  PROVE  PlannerInv'
<1>1. Types
  BY DEF PlannerInv
<1>2. PlBlock \in Indices /\ block \in Ring /\ exec \in Execution /\ tail \in Indices /\ head \in Indices
      /\ control \in Controls /\ begun \in BOOLEAN
      /\ (control \in Parking => PlBlock = head) /\ (control \notin Parking => PlBlock = tail)
  BY <1>1, PlBlockIn DEF Types, TypeOK
<1>3. PICK updated, r : Overridden(updated, r, feed, rapid)
  BY OverrideIs
<1>4. /\ feedOvr' = feed /\ rapidOvr' = rapid
      /\ tail' = tail /\ head' = head /\ control' = control /\ begun' = begun
      /\ prevNominal' = IF IsEmpty THEN NoLimit ELSE Nominal(block[Last], feed, rapid)
      /\ slowed' \in BOOLEAN
  BY DEF Override
<1>5. Queued = QueueOf(tail, head) /\ Queued' = QueueOf(tail, head)
  BY <1>2, <1>4, QueuedIs
<1>6. feed \in Nat /\ rapid \in Nat
  BY PlannerAssumption
<1>7. \A i \in Indices : /\ block[i] \in Cell /\ Before(i) \in Indices
                         /\ Nominal(block[i], feed, rapid) \in Nat
  <2> SUFFICES ASSUME NEW i \in Indices
               PROVE  /\ block[i] \in Cell /\ Before(i) \in Indices
                      /\ Nominal(block[i], feed, rapid) \in Nat
    OBVIOUS
  <2>1. block[i] \in Cell
    BY <1>2 DEF Ring
  <2>2. block[i].kind \in Kinds /\ block[i].rate \in Nat
    BY <2>1 DEF Cell
  <2> QED
    BY <2>1, <2>2, <1>6, NominalNat, RingSteps
<1>8. Reinitialized(updated, exec, r)
  BY <1>3 DEF Overridden
<1>9. /\ updated \in Ring
      /\ \A i \in Indices : /\ updated[i].kind = block[i].kind /\ updated[i].rate = block[i].rate
                            /\ updated[i].room = block[i].room /\ updated[i].entry = block[i].entry
                            /\ updated[i].corner = block[i].corner
      /\ \A i \in QueueOf(tail, head) \ {tail} : updated[i].max =
           MaxEntry(block[i], Nominal(block[i], feed, rapid), Nominal(block[Before(i)], feed, rapid))
  BY <1>3 DEF Overridden
<1>10. block' = r.block /\ planned' = r.planned /\ exec' = r.exec
  BY <1>3 DEF Overridden
<1>11. /\ block' \in Ring /\ exec' \in Execution /\ planned' \in Indices
       /\ \A i \in Indices : /\ block'[i].kind = block[i].kind /\ block'[i].rate = block[i].rate
                             /\ block'[i].room = block[i].room /\ block'[i].corner = block[i].corner
                             /\ block'[i].max = updated[i].max
       /\ \A i \in Indices : i \notin QueueOf(tail, head) \ {tail} =>
            block'[i].entry = IF i = PlBlock /\ exec.loaded THEN exec.speed ELSE block[i].entry
       /\ \A i \in QueueOf(tail, head) \ {tail} : block'[i].entry <= block'[i].max
       /\ tail # head => planned' \in QueueOf(tail, head)
  BY <1>8, <1>9, <1>10 DEF Reinitialized, SameBlocks
<1>12. /\ exec'.loaded = FALSE /\ exec'.recalc = (exec.loaded \/ exec.recalc)
       /\ exec'.speed = exec.speed /\ exec'.exit = exec.exit /\ exec'.partial = exec.partial
  BY <1>2, <1>8, <1>10 DEF Reinitialized, Execution
<1>13. PlBlock' = PlBlock
  BY <1>4 DEF PlBlock
<1>14. head \notin QueueOf(tail, head) /\ PlBlock \notin QueueOf(tail, head) \ {tail}
       /\ (tail # head => Last \in QueueOf(tail, head)) /\ QueueOf(tail, head) \subseteq Indices
  BY <1>2, QueueEnds DEF Last
<1>15. \A i \in Indices : Nominal(block'[i], feed, rapid) = Nominal(block[i], feed, rapid)
  BY <1>11, NominalSame
<1>16. prevNominal' \in Nat
  BY <1>2, <1>4, <1>7, RingSteps, NoLimitNat DEF Last
<1>17. Types'
  BY <1>1, <1>4, <1>11, <1>16 DEF Types, TypeOK
<1>18. PlannedInQueue'
  BY <1>4, <1>5, <1>11 DEF PlannedInQueue, IsEmpty
<1>19. Limits'
  <2>1. LimitsOf(block', tail, head, feed, rapid)
    <3> SUFFICES ASSUME NEW i \in QueueOf(tail, head) \ {tail}
                 PROVE  /\ block'[i].max = MaxEntry(block'[i], Nominal(block'[i], feed, rapid),
                                                    Nominal(block'[Before(i)], feed, rapid))
                        /\ block'[i].entry <= block'[i].max
      BY DEF LimitsOf
    <3>1. i \in Indices /\ Before(i) \in Indices
      BY <1>14, RingSteps
    <3>2. block'[i].max = MaxEntry(block[i], Nominal(block[i], feed, rapid),
                                   Nominal(block[Before(i)], feed, rapid))
      BY <1>9, <1>11, <3>1
    <3>3. MaxEntry(block'[i], Nominal(block[i], feed, rapid), Nominal(block[Before(i)], feed, rapid))
            = MaxEntry(block[i], Nominal(block[i], feed, rapid), Nominal(block[Before(i)], feed, rapid))
      BY <1>11, <3>1, MaxEntrySame
    <3> QED
      BY <1>11, <1>15, <3>1, <3>2, <3>3
  <2>2. ~IsEmpty' => prevNominal' = Nominal(block'[Last], feed, rapid)
    BY <1>4, <1>14, <1>15 DEF IsEmpty
  <2> QED
    BY <1>4, <2>1, <2>2 DEF Limits, Last
<1>20. QueueUsed'
  BY <1>2, <1>4, <1>12 DEF PlannerInv, QueueUsed, IsEmpty, AtStop, Moving, Parking, Controls
<1>21. ProfileFits'
  BY <1>2, <1>11, <1>12, <1>13, <1>14 DEF PlannerInv, ProfileFits
<1>22. AtStop'
  <2>1. block'[head].room = block[head].room
        /\ (control = "park" /\ ~exec.loaded => block'[head].entry = block[head].entry)
    BY <1>2, <1>11, <1>14
  <2>2. exec.partial /\ control \in Parking => block'[tail].entry = block[tail].entry
    BY <1>2, <1>11 DEF PlannerInv, QueueUsed, IsEmpty
  <2> QED
    BY <1>4, <1>12, <2>1, <2>2 DEF PlannerInv, AtStop
<1>23. BegunKnown'
  BY <1>2, <1>4, <1>12 DEF PlannerInv, BegunKnown, Execution
<1>24. ExitAgrees'
  BY <1>12 DEF ExitAgrees
<1> QED
  BY <1>17, <1>18, <1>19, <1>20, <1>21, <1>22, <1>23, <1>24 DEF PlannerInv

\* plan_buffer_line(): the new block gets its limits from the one before it, and the plan is
\* made again from the planned pointer on, from the blocks b with the new one at the head.
Buffered(l, new, b, r) ==
  /\ new \in Cell /\ new.kind = l.kind /\ new.rate = l.rate
  /\ new.corner = (IF IsEmpty THEN 0 ELSE l.corner)
  /\ new.max = MaxEntry(new, Nominal(l, feedOvr, rapidOvr), prevNominal)
  /\ new.max <= new.corner /\ new.entry = 0
  /\ b \in Ring /\ b[head] = new /\ \A i \in Indices \ {head} : b[i] = block[i]
  /\ Recalculated(b, planned, exec, Distance(planned, head), r)
  /\ block' = r.block /\ planned' = r.planned /\ exec' = r.exec
  /\ prevNominal' = Nominal(l, feedOvr, rapidOvr) /\ prevNominal' \in Nat
  /\ head' = After(head) /\ tail' = tail /\ tail # After(head)
  /\ control' = control /\ control \in {"normal", "hold", "holdEnd"}
  /\ feedOvr' = feedOvr /\ rapidOvr' = rapidOvr /\ begun' = begun /\ slowed' = slowed

LEMMA BufferLineIs ==
  ASSUME PlannerInv, NEW l \in Lines, BufferLine(l)
  PROVE  \E new, b, r : Buffered(l, new, b, r)
<1> DEFINE corner  == IF IsEmpty THEN 0 ELSE l.corner
           nominal == Nominal(l, feedOvr, rapidOvr)
           new     == [kind |-> l.kind, rate |-> l.rate, room |-> l.room, corner |-> corner,
                       max |-> MaxEntry([l EXCEPT !.corner = corner], nominal, prevNominal),
                       entry |-> 0]
           b == [block EXCEPT ![head] = new]
           r == Recalculate(b, After(head), planned, exec)
<1>1. Types
  BY DEF PlannerInv
<1>2. /\ block \in Ring /\ exec \in Execution /\ tail \in Indices /\ head \in Indices
      /\ planned \in Indices /\ prevNominal \in Nat /\ begun \in BOOLEAN
      /\ feedOvr \in Nat /\ rapidOvr \in Nat
  BY <1>1, PlannerAssumption DEF Types, TypeOK
<1>3. /\ block' = r.block /\ planned' = r.planned /\ exec' = r.exec
      /\ prevNominal' = nominal /\ head' = After(head)
      /\ tail' = tail /\ control' = control /\ control \in {"normal", "hold", "holdEnd"}
      /\ feedOvr' = feedOvr /\ rapidOvr' = rapidOvr /\ begun' = begun /\ slowed' = slowed
      /\ tail # After(head)
  BY DEF BufferLine, IsFull, ovrVars, history
<1>4. PlBlock = tail
  BY <1>3 DEF PlBlock
<1>5. l \in Line /\ nominal \in Nat \ {0} /\ corner \in Nat
  <2>1. l \in Line
    BY PlannerAssumption
  <2>2. l.kind \in Kinds /\ l.rate \in Nat /\ l.corner \in Nat
    BY <2>1 DEF Line
  <2> QED
    BY <1>2, <2>1, <2>2, NominalNat
<1>6. /\ new \in Cell /\ new.kind = l.kind /\ new.rate = l.rate /\ new.corner = corner
      /\ new.max = MaxEntry(new, nominal, prevNominal) /\ new.max <= corner /\ new.entry = 0
      /\ new.max \in Nat
  <2> DEFINE lc == [l EXCEPT !.corner = corner]
  <2>1. lc.corner = corner
    BY <1>5 DEF Line
  <2> HIDE DEF lc, corner, nominal
  <2>2. MaxEntry(lc, nominal, prevNominal) \in Nat /\ MaxEntry(lc, nominal, prevNominal) <= corner
    BY <1>2, <1>5, <2>1, MaxEntryIs
  <2>3. MaxEntry(lc, nominal, prevNominal) = MaxEntry(new, nominal, prevNominal)
    BY <2>1, MaxEntrySame
  <2> QED
    BY <1>5, <2>2, <2>3 DEF Line, Cell, lc
<1> HIDE DEF new, nominal, corner
<1>7. b \in Ring /\ b[head] = new /\ \A i \in Indices \ {head} : b[i] = block[i]
  BY <1>2, <1>6 DEF Ring
<1> HIDE DEF b
<1>8. After(head) \in Indices /\ Before(After(head)) = head /\ After(head) # head
  BY <1>2, RingSteps
<1>9. Recalculated(b, planned, exec, Distance(planned, head), r)
  BY <1>2, <1>4, <1>7, <1>8, RecalculateIs
<1> HIDE DEF r
<1>10. Buffered(l, new, b, r)
  BY <1>3, <1>5, <1>6, <1>7, <1>9 DEF Buffered, corner, nominal
<1> QED
  BY <1>10

LEMMA BufferLineKeeps ==
  ASSUME PlannerInv, NEW l \in Lines, BufferLine(l)
  PROVE  PlannerInv'
<1> DEFINE nominal == Nominal(l, feedOvr, rapidOvr)
           n == Distance(planned, head)
<1>1. Types
  BY DEF PlannerInv
<1>2. /\ block \in Ring /\ exec \in Execution /\ tail \in Indices /\ head \in Indices
      /\ planned \in Indices /\ prevNominal \in Nat /\ begun \in BOOLEAN
      /\ feedOvr \in Nat /\ rapidOvr \in Nat
  BY <1>1, PlannerAssumption DEF Types, TypeOK
<1> PICK new, b, r : Buffered(l, new, b, r)
  BY BufferLineIs
<1>3. /\ block' = r.block /\ planned' = r.planned /\ exec' = r.exec
      /\ prevNominal' = nominal /\ head' = After(head)
      /\ tail' = tail /\ control' = control /\ control \in {"normal", "hold", "holdEnd"}
      /\ feedOvr' = feedOvr /\ rapidOvr' = rapidOvr /\ begun' = begun /\ slowed' = slowed
      /\ tail # After(head)
  BY DEF Buffered
<1>4. PlBlock = tail /\ PlBlock' = tail
  BY <1>3 DEF PlBlock
<1>5. prevNominal' \in Nat
  BY DEF Buffered
<1>6. /\ new \in Cell /\ new.kind = l.kind /\ new.rate = l.rate
      /\ new.corner = (IF IsEmpty THEN 0 ELSE l.corner)
      /\ new.max = MaxEntry(new, nominal, prevNominal) /\ new.max <= new.corner /\ new.entry = 0
      /\ new.max \in Nat
  BY DEF Buffered, Cell
<1> HIDE DEF nominal
<1>7. b \in Ring /\ b[head] = new /\ \A i \in Indices \ {head} : b[i] = block[i]
  BY DEF Buffered
<1>8. After(head) \in Indices /\ Before(After(head)) = head /\ After(head) # head
  BY <1>2, RingSteps
<1>9. Recalculated(b, planned, exec, n, r)
  BY DEF Buffered
<1> HIDE DEF n
<1>10. /\ n \in 0..(BufferSize - 1)
       /\ exec' = Told(b, planned, n, exec).exec /\ exec' \in Execution
       /\ block' \in Ring /\ SameBlocks(b, block')
       /\ \A i \in Indices : Distance(planned, i) \notin 1..n => block'[i].entry = Told(b, planned, n, exec).block[i].entry
       /\ \A i \in Indices : Distance(planned, i) \in 1..n => block'[i].entry <= block'[i].max
  BY <1>3, <1>9 DEF Recalculated
<1>11. \E m \in 0..n : /\ planned' = Place(planned, m)
                       /\ \A d \in 1..n : m < d => block'[Place(planned, d)].entry # block'[Place(planned, d)].max
  BY <1>3, <1>9 DEF Recalculated
<1>12. /\ \A i \in Indices : Told(b, planned, n, exec).block[i].entry =
            IF n > 0 /\ planned = tail /\ i = tail /\ exec.loaded THEN exec.speed ELSE b[i].entry
       /\ Told(b, planned, n, exec).exec = IF n > 0 /\ planned = tail
                      THEN [exec EXCEPT !.loaded = FALSE, !.recalc = exec.loaded \/ exec.recalc]
                      ELSE exec
  <2>1. PlBlock \in Indices /\ n \in Nat /\ b \in Ring /\ exec \in Execution /\ planned \in Indices
    BY <1>2, <1>4, <1>7, <1>10
  <2>2. \A i \in Indices : Told(b, planned, n, exec).block[i].entry =
          IF n > 0 /\ planned = tail /\ i = PlBlock /\ exec.loaded THEN exec.speed ELSE b[i].entry
    BY <2>1, ToldEntry
  <2>3. Told(b, planned, n, exec).exec =
          IF n > 0 /\ planned = tail
          THEN [exec EXCEPT !.loaded = FALSE, !.recalc = exec.loaded \/ exec.recalc]
          ELSE exec
    BY <2>1, ToldExec
  <2> QED
    BY <1>4, <2>2, <2>3
<1>13. QueueOf(tail, After(head)) = QueueOf(tail, head) \cup {head}
  BY <1>2, <1>3, QueueGrown
<1>14. Queued = QueueOf(tail, head) /\ Queued' = QueueOf(tail, After(head))
  BY <1>2, <1>3, <1>8, QueuedIs
<1>15. /\ head \notin QueueOf(tail, head) /\ QueueOf(tail, head) \subseteq Indices
       /\ (tail = head => QueueOf(tail, head) = {})
       /\ (tail # head => tail \in QueueOf(tail, head) /\ Last \in QueueOf(tail, head))
  BY <1>2, QueueEnds DEF Last
<1>16. tail # head => planned \in QueueOf(tail, head)
  BY <1>14 DEF PlannerInv, PlannedInQueue, IsEmpty
<1>17. ~IsEmpty'
  BY <1>3 DEF IsEmpty
\* The planned pointer stays in the queue, also when the first block is planned from anywhere.
<1>18. planned' \in QueueOf(tail, After(head)) /\ planned' \in Indices
  <2>1. PICK m \in 0..n : /\ planned' = Place(planned, m)
                          /\ \A d \in 1..n : m < d => block'[Place(planned, d)].entry # block'[Place(planned, d)].max
    BY <1>11
  <2>2. m \in 0..(BufferSize - 1) /\ n \in 0..(BufferSize - 1)
    BY <1>10, PlannerAssumption
  <2>3. /\ Place(planned, m) \in Indices /\ Distance(planned, Place(planned, m)) = m
        /\ Place(planned, n) = head /\ Place(planned, 0) = planned
    BY <1>2, <2>2, RingPlace, RingDistance DEF n
  <2>4. CASE tail # head
    <3>1. planned \in QueueOf(tail, After(head))
      BY <1>13, <1>16, <2>4
    <3>2. m = 0 \/ m \in 1..n
      BY <2>2
    <3>3. CASE m = 0
      BY <2>1, <2>3, <3>1, <3>3
    <3>4. CASE m \in 1..n
      <4>1. Place(planned, m) \in QueueOf(tail, After(head))
        BY <1>2, <1>8, <2>3, <3>1, <3>4, PassPlaces DEF n
      <4> QED
        BY <2>1, <2>3, <4>1
    <3> QED
      BY <3>2, <3>3, <3>4
  <2>5. CASE tail = head
    <3>1. new.max = 0
      BY <1>6, <2>5 DEF IsEmpty
    <3>2. block'[head].max = 0
      BY <1>2, <1>7, <1>10, <3>1 DEF SameBlocks
    <3>3. n \in 1..n => block'[head].entry = 0
      <4> SUFFICES ASSUME n \in 1..n PROVE block'[head].entry = 0
        OBVIOUS
      <4>1. Distance(planned, head) \in 1..n
        BY DEF n
      <4>2. block'[head].entry <= 0
        BY <1>2, <1>10, <3>2, <4>1
      <4>3. block'[head].entry \in Nat
        BY <1>2, <1>10 DEF Ring, Cell
      <4> QED
        BY <4>2, <4>3
    <3>4. ~(m < n)
      BY <2>1, <2>2, <2>3, <3>2, <3>3
    <3>5. m = n
      BY <2>2, <3>4
    <3> QED
      BY <1>2, <1>13, <2>1, <2>3, <3>5
  <2> QED
    BY <2>4, <2>5
<1>19. Types'
  BY <1>1, <1>3, <1>5, <1>8, <1>10, <1>18 DEF Types, TypeOK
<1>20. PlannedInQueue'
  BY <1>14, <1>18 DEF PlannedInQueue
<1>21. \A i \in Indices : /\ block'[i].kind = b[i].kind /\ block'[i].rate = b[i].rate
                          /\ block'[i].room = b[i].room /\ block'[i].corner = b[i].corner
                          /\ block'[i].max = b[i].max
  BY <1>10 DEF SameBlocks
<1>22. Nominal(block'[head], feedOvr, rapidOvr) = nominal
  <2>1. block'[head].kind = l.kind /\ block'[head].rate = l.rate
    BY <1>2, <1>6, <1>7, <1>21
  <2> QED
    BY <2>1, NominalSame DEF nominal
<1>23. \A i \in QueueOf(tail, head) : Nominal(block'[i], feedOvr, rapidOvr) = Nominal(block[i], feedOvr, rapidOvr)
  <2> SUFFICES ASSUME NEW i \in QueueOf(tail, head)
               PROVE  Nominal(block'[i], feedOvr, rapidOvr) = Nominal(block[i], feedOvr, rapidOvr)
    OBVIOUS
  <2>1. block'[i].kind = block[i].kind /\ block'[i].rate = block[i].rate
    BY <1>7, <1>15, <1>21
  <2> QED
    BY <2>1, NominalSame
<1>24. Limits'
  <2>1. LimitsOf(block', tail, After(head), feedOvr, rapidOvr)
    <3> SUFFICES ASSUME NEW i \in QueueOf(tail, After(head)) \ {tail}
                 PROVE  /\ block'[i].max = MaxEntry(block'[i], Nominal(block'[i], feedOvr, rapidOvr),
                                                    Nominal(block'[Before(i)], feedOvr, rapidOvr))
                        /\ block'[i].entry <= block'[i].max
      BY DEF LimitsOf
    <3>1. i \in Indices /\ tail # head
      BY <1>2, <1>13, <1>15
    <3>2. Before(i) \in QueueOf(tail, head)
      <4>1. CASE i = head
        BY <1>15, <3>1, <4>1 DEF Last
      <4>2. CASE i # head
        BY <1>2, <1>13, <4>2, QueueNeighbours
      <4> QED
        BY <4>1, <4>2
    <3>3. b[i].max = MaxEntry(b[i], Nominal(block'[i], feedOvr, rapidOvr),
                              Nominal(block[Before(i)], feedOvr, rapidOvr)) /\ b[i].entry <= b[i].max
      <4>1. CASE i = head
        <5>1. prevNominal = Nominal(block[Before(i)], feedOvr, rapidOvr)
          BY <3>1, <4>1 DEF PlannerInv, Limits, IsEmpty, Last
        <5> QED
          BY <1>6, <1>7, <1>22, <4>1, <5>1
      <4>2. CASE i # head
        <5>1. i \in QueueOf(tail, head) \ {tail} /\ b[i] = block[i]
          BY <1>7, <1>13, <3>1, <4>2
        <5>2. LimitsOf(block, tail, head, feedOvr, rapidOvr)
          BY DEF PlannerInv, Limits
        <5> QED
          BY <1>23, <5>1, <5>2 DEF LimitsOf
      <4> QED
        BY <4>1, <4>2
    <3>4. MaxEntry(b[i], Nominal(block'[i], feedOvr, rapidOvr), Nominal(block[Before(i)], feedOvr, rapidOvr))
            = MaxEntry(block'[i], Nominal(block'[i], feedOvr, rapidOvr),
                       Nominal(block[Before(i)], feedOvr, rapidOvr))
      BY <1>21, <3>1, MaxEntrySame
    <3>5. block'[i].entry <= block'[i].max
      <4>1. CASE Distance(planned, i) \in 1..n
        BY <1>10, <3>1, <4>1
      <4>2. CASE Distance(planned, i) \notin 1..n
        <5>1. block'[i].entry = b[i].entry
          BY <1>10, <1>12, <3>1, <4>2
        <5> QED
          BY <1>21, <3>1, <3>3, <5>1
      <4> QED
        BY <4>1, <4>2
    <3> QED
      BY <1>21, <1>23, <3>1, <3>2, <3>3, <3>4, <3>5
  <2>2. prevNominal' = Nominal(block'[Before(After(head))], feedOvr, rapidOvr)
    BY <1>3, <1>8, <1>22
  <2> QED
    BY <1>3, <2>1, <2>2 DEF Limits, Last
\* The block at the tail is never behind the planned pointer.
<1>25. tail # head =>
         /\ n > 0 /\ Distance(planned, tail) \notin 1..n
         /\ block'[tail].entry = IF planned = tail /\ exec.loaded THEN exec.speed ELSE block[tail].entry
         /\ block'[tail].room = block[tail].room
         /\ exec' = IF planned = tail
                    THEN [exec EXCEPT !.loaded = FALSE, !.recalc = exec.loaded \/ exec.recalc]
                    ELSE exec
  <2> SUFFICES ASSUME tail # head
               PROVE  /\ n > 0 /\ Distance(planned, tail) \notin 1..n
                      /\ block'[tail].entry = IF planned = tail /\ exec.loaded THEN exec.speed
                                              ELSE block[tail].entry
                      /\ block'[tail].room = block[tail].room
                      /\ exec' = IF planned = tail
                                 THEN [exec EXCEPT !.loaded = FALSE, !.recalc = exec.loaded \/ exec.recalc]
                                 ELSE exec
    OBVIOUS
  <2>1. planned \in QueueOf(tail, After(head)) /\ planned # head
    BY <1>13, <1>15, <1>16
  <2>2. n > 0
    BY <1>2, <1>10, <2>1, RingDistance DEF n
  <2>3. Distance(tail, tail) = 0 /\ Distance(tail, planned) \in Nat
    BY <1>2, RingDistance
  <2>4. Distance(planned, tail) \notin 1..n
    BY <1>2, <1>8, <2>1, <2>3, PassPlaces DEF n
  <2> QED
    BY <1>2, <1>7, <1>10, <1>12, <1>21, <2>2, <2>4
<1>26. tail = head => ~exec.loaded /\ ~exec.recalc /\ ~exec.partial
  BY <1>3 DEF PlannerInv, QueueUsed, IsEmpty, Moving, Parking
<1>27. /\ exec'.speed = exec.speed /\ exec'.exit = exec.exit /\ exec'.partial = exec.partial
       /\ exec'.complete = exec.complete /\ exec'.declOvr = exec.declOvr
       /\ (exec'.loaded => exec.loaded /\ exec' = exec /\ planned # tail)
       /\ (exec'.recalc => exec.loaded \/ exec.recalc)
       /\ (exec.loaded \/ exec.recalc <=> exec'.loaded \/ exec'.recalc)
       /\ (exec.recalc => exec'.recalc)
  BY <1>2, <1>10, <1>12, <1>25, <1>26 DEF Execution
<1>28. QueueUsed'
  BY <1>17 DEF QueueUsed
<1>29. ProfileFits'
  BY <1>2, <1>3, <1>4, <1>25, <1>26, <1>27 DEF PlannerInv, ProfileFits, Fits
<1>30. AtStop'
  BY <1>3, <1>27 DEF PlannerInv, AtStop, Parking
<1>31. BegunKnown'
  BY <1>3, <1>27 DEF PlannerInv, BegunKnown, Parking
<1>32. ExitAgrees'
  <2> SUFFICES ASSUME exec'.loaded, control = "normal", ~exec.declOvr
               PROVE  exec.exit = ExitSpeed'
    BY <1>3, <1>27 DEF ExitAgrees
  <2>1. tail # head /\ planned # tail /\ exec.loaded
    BY <1>26, <1>27
  <2>2. exec.exit = ExitSpeed
    BY <2>1 DEF PlannerInv, ExitAgrees
  <2>3. planned \in QueueOf(tail, head) \ {tail}
    BY <1>16, <2>1
  <2>4. After(tail) # head /\ After(tail) \in Indices /\ After(tail) # After(head)
        /\ Distance(planned, After(tail)) \notin 1..n
    <3>1. Distance(tail, planned) \in 1..(Distance(tail, head) - 1)
      BY <1>2, <2>3, RingDistance DEF QueueOf
    <3>2. Distance(tail, After(tail)) = 1
      BY <1>2, PlannerAssumption DEF Indices, Distance, After
    <3>3. planned \in QueueOf(tail, After(head)) /\ After(tail) \in Indices
      BY <1>2, <1>13, <2>3, RingSteps
    <3>4. Distance(planned, After(tail)) \notin 1..n
      BY <1>2, <1>8, <3>1, <3>2, <3>3, PassPlaces DEF n
    <3>5. After(tail) # After(head)
      BY <1>2, <2>1, RingSteps
    <3>6. Distance(tail, head) # 1
      BY <1>2, <3>1, RingDistance
    <3> QED
      BY <3>2, <3>3, <3>4, <3>5, <3>6
  <2>5. block'[After(tail)].entry = block[After(tail)].entry
    BY <1>2, <1>7, <1>10, <1>12, <2>1, <2>4
  <2>6. After(tail) # tail
    BY <1>2, RingSteps
  <2> QED
    BY <1>3, <2>2, <2>4, <2>5 DEF ExitSpeed
<1> QED
  BY <1>19, <1>20, <1>24, <1>28, <1>29, <1>30, <1>31, <1>32 DEF PlannerInv

\* A profile that is loaded begins at the speed the machine has, and fits its block.
Loads(x) ==
  /\ x \in Execution /\ x.loaded /\ ~x.recalc
  /\ Fits(x, block[PlBlock].room)
  /\ control \in {"park", "parkHold"} => x.exit = 0 /\ x.speed <= block[head].room
                                         /\ x.partial = exec.partial
  /\ control \in {"normal", "hold"} => ~x.partial
  /\ control = "normal" /\ ~x.declOvr => x.exit = ExitSpeed

LEMMA LoadLoads ==
  ASSUME PlannerInv, ~exec.loaded, control \in {"normal", "hold", "park", "parkHold"}
  PROVE  Loads(Load)
<1> DEFINE b       == block[PlBlock]
           parking == control \in {"park", "parkHold"}
           hold    == control \in {"hold", "parkHold"}
           forced  == ~exec.recalc /\ (hold \/ exec.declOvr)
           entry   == IF forced THEN exec.exit ELSE b.entry
           exit    == IF parking THEN 0 ELSE ExitSpeed
           top     == Nominal(b, feedOvr, rapidOvr) * Nominal(b, feedOvr, rapidOvr)
           onlyDown == ~hold /\ entry > top /\ entry - top >= b.room
<1>1. Types
  BY DEF PlannerInv
<1>2. /\ PlBlock \in Indices /\ block \in Ring /\ exec \in Execution /\ tail \in Indices /\ head \in Indices
      /\ feedOvr \in Nat /\ rapidOvr \in Nat /\ (parking => PlBlock = head)
  BY <1>1, PlBlockIn, PlannerAssumption DEF Types, TypeOK, Parking
<1>3. b \in Cell /\ b.room \in Nat /\ b.entry \in Nat
  BY <1>2 DEF Ring, Cell
<1>4. top \in Nat
  <2>1. b.kind \in Kinds /\ b.rate \in Nat
    BY <1>3 DEF Cell
  <2>2. Nominal(b, feedOvr, rapidOvr) \in Nat
    BY <1>2, <2>1, NominalNat
  <2> QED
    BY <2>2, SquareNat
<1>5. ExitSpeed \in Nat
  <2>1. After(tail) \in Indices
    BY <1>2, RingSteps
  <2> QED
    BY <1>2, <2>1 DEF ExitSpeed, Ring, Cell
<1>6. entry \in Nat /\ exec.speed \in Nat /\ exec.exit \in Nat /\ exec.recalc \in BOOLEAN
      /\ exec.partial \in BOOLEAN /\ exec.declOvr \in BOOLEAN
  BY <1>2, <1>3 DEF Execution
<1>7. exec.recalc => b.entry = exec.speed /\ entry = exec.speed
  BY DEF PlannerInv, ProfileFits
<1>8. parking => exec.exit = 0 /\ exec.speed <= b.room /\ entry <= b.room
  <2> SUFFICES ASSUME parking PROVE exec.exit = 0 /\ exec.speed <= b.room /\ entry <= b.room
    OBVIOUS
  <2>1. exec.exit = 0 /\ exec.speed <= b.room
    BY <1>2 DEF PlannerInv, AtStop
  <2>2. CASE exec.recalc
    BY <1>7, <2>1, <2>2
  <2>3. CASE forced
    BY <1>3, <2>1, <2>3
  <2>4. CASE ~exec.recalc /\ ~forced
    BY <1>2, <1>3, <2>1, <2>4 DEF PlannerInv, AtStop
  <2> QED
    BY <2>1, <2>2, <2>3, <2>4
<1>9. Load = [loaded   |-> TRUE,
              speed    |-> IF exec.recalc THEN exec.speed ELSE entry,
              exit     |-> IF hold \/ onlyDown THEN MaxOf(entry - b.room, 0) ELSE exit,
              top      |-> top,
              complete |-> IF hold THEN MaxOf(b.room - entry, 0) ELSE 0,
              recalc   |-> FALSE,
              declOvr  |-> onlyDown \/ (exec.recalc /\ parking /\ exec.declOvr),
              partial  |-> exec.partial /\ (parking \/ ~exec.recalc)]
  BY DEF Load
<1> HIDE DEF b, entry, top, forced
<1>10. /\ Load.loaded = TRUE /\ Load.recalc = FALSE
       /\ Load.speed = entry
       /\ Load.exit = IF hold \/ onlyDown THEN MaxOf(entry - b.room, 0) ELSE exit
       /\ Load.complete = IF hold THEN MaxOf(b.room - entry, 0) ELSE 0
       /\ Load.top = top
       /\ Load.declOvr = (onlyDown \/ (exec.recalc /\ parking /\ exec.declOvr))
       /\ Load.partial = (exec.partial /\ (parking \/ ~exec.recalc))
  BY <1>7, <1>9
<1>11. Load \in Execution
  <2> DEFINE decl == onlyDown \/ (exec.recalc /\ parking /\ exec.declOvr)
             part == exec.partial /\ (parking \/ ~exec.recalc)
             out  == IF hold \/ onlyDown THEN MaxOf(entry - b.room, 0) ELSE exit
             compl == IF hold THEN MaxOf(b.room - entry, 0) ELSE 0
             in == IF exec.recalc THEN exec.speed ELSE entry
  <2>1. out \in Nat /\ compl \in Nat /\ in \in Nat
    BY <1>3, <1>5, <1>6 DEF MaxOf
  <2>2. decl \in BOOLEAN /\ part \in BOOLEAN
    OBVIOUS
  <2>3. Load = [loaded |-> TRUE, speed |-> in, exit |-> out, top |-> top, complete |-> compl,
                recalc |-> FALSE, declOvr |-> decl, partial |-> part]
    BY <1>9
  <2> HIDE DEF decl, part, out, compl, in
  <2> QED
    BY <1>4, <2>1, <2>2, <2>3 DEF Execution
<1>12. Load.complete <= b.room
  BY <1>3, <1>6, <1>10 DEF MaxOf
<1>13. hold => b.room <= Load.complete + Load.speed /\ (Load.complete > 0 => Load.exit = 0)
  BY <1>3, <1>6, <1>10 DEF MaxOf
<1>14. parking => Load.exit = 0 /\ Load.speed <= b.room
  BY <1>3, <1>6, <1>8, <1>10 DEF MaxOf
<1>15. control \in {"normal", "hold"} => (exec.partial => exec.recalc)
  BY DEF PlannerInv, BegunKnown
<1>16. control \in {"normal", "park"} => Load.complete = 0
  BY <1>10
<1>17. /\ parking => Load.partial = exec.partial
       /\ control \in {"normal", "hold"} => ~Load.partial
  BY <1>6, <1>10, <1>15
<1>18. control = "normal" /\ ~Load.declOvr => Load.exit = ExitSpeed
  BY <1>10
<1> QED
  BY <1>2, <1>10, <1>11, <1>12, <1>13, <1>14, <1>16, <1>17, <1>18 DEF Loads, Fits, b

\* The speed after part of a block: a number, the exit speed where the profile ends, and low
\* enough for what is left.
LEMMA SpeedAfterIs ==
  ASSUME NEW x \in Execution, NEW b \in Cell, Fits(x, b.room),
         control \in {"normal", "hold", "park", "parkHold"},
         NEW c \in 0..(b.room - x.complete)
  PROVE  /\ SpeedAfter(x, b, c) \in Nat
         /\ b.room - c = x.complete => SpeedAfter(x, b, c) = x.exit
         /\ b.room - c # x.complete /\ control \in {"hold", "parkHold"} =>
              SpeedAfter(x, b, c) = x.speed - c
         /\ control = "park" /\ x.exit = 0 /\ x.speed <= b.room => SpeedAfter(x, b, c) <= b.room - c
<1> DEFINE left == b.room - c
           down == x.speed - c
<1>1. /\ x.speed \in Nat /\ x.exit \in Nat /\ x.top \in Nat /\ x.complete \in Nat /\ b.room \in Nat
      /\ x.complete <= b.room
  BY DEF Execution, Cell, Fits
<1>2. c \in Nat /\ left \in Nat /\ left >= x.complete
  BY <1>1
<1>3. CASE left = x.complete
  <2>1. SpeedAfter(x, b, c) = x.exit
    BY <1>3 DEF SpeedAfter
  <2> QED
    BY <1>1, <1>2, <1>3, <2>1
<1>4. CASE left # x.complete /\ control \in {"hold", "parkHold"}
  <2>1. SpeedAfter(x, b, c) = down
    BY <1>4 DEF SpeedAfter
  <2>2. b.room <= x.complete + x.speed
    BY <1>4 DEF Fits
  <2> QED
    BY <1>1, <1>2, <1>4, <2>1, <2>2
<1>5. CASE left # x.complete /\ control \notin {"hold", "parkHold"}
  <2>1. SpeedAfter(x, b, c) =
          IF x.speed > x.top
          THEN IF down >= x.top THEN down ELSE MinOf(x.top, x.exit + left)
          ELSE MaxOf(down, MinOf(MinOf(x.speed + c, x.top), x.exit + left))
    BY <1>5 DEF SpeedAfter
  <2>2. SpeedAfter(x, b, c) \in Nat
    BY <1>1, <1>2, <2>1 DEF MinOf, MaxOf
  <2>3. x.exit = 0 /\ x.speed <= b.room => SpeedAfter(x, b, c) <= left
    BY <1>1, <1>2, <2>1 DEF MinOf, MaxOf
  <2> QED
    BY <1>5, <2>2, <2>3
<1> QED
  BY <1>3, <1>4, <1>5

\* One segment of st_prep_buffer(): c units of the profile x are executed.  The blocks b are
\* those of the queue after the profile was loaded.
Segment(x, b, c) ==
  /\ x = (IF exec.loaded THEN exec ELSE Load) /\ Loads(x)
  /\ b \in Ring /\ SameBlocks(block, b) /\ \A i \in Indices \ {PlBlock} : b[i] = block[i]
  /\ c \in IF b[PlBlock].room - x.complete = 0 THEN {0} ELSE 1..(b[PlBlock].room - x.complete)
  /\ LET y    == [x EXCEPT !.speed = SpeedAfter(x, b[PlBlock], c)]
         left == b[PlBlock].room - c
         ends == left = x.complete
     IN  IF ends /\ left = 0 /\ control \in {"normal", "hold"}
         THEN /\ block' = [b EXCEPT ![PlBlock] = NoBlock]
              /\ tail' = After(tail)
              /\ planned' = PlannedAfterDiscard
              /\ exec' = [y EXCEPT !.loaded = FALSE]
              /\ begun' = FALSE /\ slowed' = (slowed /\ After(tail) # head)
              /\ UNCHANGED control
         ELSE /\ block' = [b EXCEPT ![PlBlock].room = left]
              /\ exec' = [y EXCEPT !.partial = @ \/ (ends /\ control = "hold")]
              /\ control' = IF ~ends THEN control
                            ELSE IF control = "hold" THEN "holdEnd" ELSE "parkEnd"
              /\ begun' = (begun \/ (control \in {"normal", "hold"} /\ c > 0))
              /\ UNCHANGED <<tail, planned, slowed>>

LEMMA PrepIs ==
  ASSUME PlannerInv, Prep
  PROVE  \E x, b, c : Segment(x, b, c)
<1> DEFINE k == PlBlock
           x == IF exec.loaded THEN exec ELSE Load
           b == IF exec.loaded \/ exec.recalc THEN block
                ELSE [block EXCEPT ![k].entry = x.speed]
           room == b[k].room - x.complete
<1>1. Types
  BY DEF PlannerInv
<1>2. /\ PlBlock \in Indices /\ block \in Ring /\ exec \in Execution /\ tail \in Indices /\ head \in Indices
      /\ (control \in Parking => PlBlock = head) /\ (control \notin Parking => PlBlock = tail)
  BY <1>1, PlBlockIn DEF Types, TypeOK
<1>3. /\ control \in {"normal", "hold", "park", "parkHold"}
      /\ control \in {"normal", "hold"} => tail # head
  BY DEF Prep, IsEmpty
<1>4. Loads(x)
  <2>1. CASE exec.loaded
    <3>1. x = exec /\ Fits(exec, block[PlBlock].room) /\ ~exec.recalc
      BY <2>1 DEF PlannerInv, ProfileFits
    <3>2. control \in {"park", "parkHold"} => exec.exit = 0 /\ exec.speed <= block[head].room
      BY DEF PlannerInv, AtStop
    <3>3. control \in {"normal", "hold"} => ~exec.partial
      BY <3>1 DEF PlannerInv, BegunKnown
    <3>4. control = "normal" /\ ~exec.declOvr => exec.exit = ExitSpeed
      BY <2>1 DEF PlannerInv, ExitAgrees
    <3> QED
      BY <1>2, <2>1, <3>1, <3>2, <3>3, <3>4 DEF Loads
  <2>2. CASE ~exec.loaded
    BY <1>3, <2>2, LoadLoads
  <2> QED
    BY <2>1, <2>2
<1> HIDE DEF x
<1>5. x \in Execution /\ x.speed \in Nat
  BY <1>4 DEF Loads, Execution
<1>6. /\ b \in Ring /\ SameBlocks(block, b)
      /\ \A i \in Indices \ {k} : b[i] = block[i]
  <2>1. CASE exec.loaded \/ exec.recalc
    BY <1>2, <2>1 DEF SameBlocks
  <2>2. CASE ~(exec.loaded \/ exec.recalc)
    <3> DEFINE d == [block EXCEPT ![k].entry = x.speed]
    <3>1. d \in Ring /\ SameBlocks(block, d) /\ \A i \in Indices \ {k} : d[i] = block[i]
      <4> HIDE DEF k
      <4> QED
        BY <1>2, <1>5 DEF Ring, Cell, SameBlocks, k
    <3> HIDE DEF d
    <3> QED
      BY <2>2, <3>1 DEF d
  <2> QED
    BY <2>1, <2>2
<1>7. PICK c \in IF room = 0 THEN {0} ELSE 1..room :
        LET y    == [x EXCEPT !.speed = SpeedAfter(x, b[k], c)]
            left == b[k].room - c
            ends == left = x.complete
        IN  IF ends /\ left = 0 /\ control \in {"normal", "hold"}
            THEN /\ block' = [b EXCEPT ![k] = NoBlock]
                 /\ tail' = After(tail)
                 /\ planned' = PlannedAfterDiscard
                 /\ exec' = [y EXCEPT !.loaded = FALSE]
                 /\ begun' = FALSE /\ slowed' = (slowed /\ After(tail) # head)
                 /\ UNCHANGED control
            ELSE /\ block' = [b EXCEPT ![k].room = left]
                 /\ exec' = [y EXCEPT !.partial = @ \/ (ends /\ control = "hold")]
                 /\ control' = IF ~ends THEN control
                               ELSE IF control = "hold" THEN "holdEnd" ELSE "parkEnd"
                 /\ begun' = (begun \/ (control \in {"normal", "hold"} /\ c > 0))
                 /\ UNCHANGED <<tail, planned, slowed>>
  BY DEF Prep, x
<1> HIDE DEF b
<1>8. Segment(x, b, c)
  BY <1>4, <1>6, <1>7 DEF Segment, x
<1> QED
  BY <1>8

LEMMA PrepKeeps ==
  ASSUME PlannerInv, Prep
  PROVE  PlannerInv'
<1> PICK x, b, c : Segment(x, b, c)
  BY PrepIs
<1> DEFINE k == PlBlock
           room == b[k].room - x.complete
<1>1. Types
  BY DEF PlannerInv
<1>2. /\ PlBlock \in Indices /\ block \in Ring /\ exec \in Execution /\ tail \in Indices /\ head \in Indices
      /\ planned \in Indices /\ begun \in BOOLEAN /\ slowed \in BOOLEAN
      /\ (control \in Parking => PlBlock = head) /\ (control \notin Parking => PlBlock = tail)
  BY <1>1, PlBlockIn DEF Types, TypeOK
<1>3. /\ control \in {"normal", "hold", "park", "parkHold"}
      /\ control \in {"normal", "hold"} => tail # head
      /\ UNCHANGED <<head, prevNominal, ovrVars>>
  BY DEF Prep, IsEmpty
<1>4. Loads(x)
  BY DEF Segment
<1>5. /\ x \in Execution /\ x.loaded = TRUE /\ x.recalc = FALSE
      /\ x.speed \in Nat /\ x.complete \in Nat /\ x.exit \in Nat
  BY <1>4 DEF Loads, Execution
<1>6. /\ b \in Ring /\ SameBlocks(block, b)
      /\ \A i \in Indices \ {k} : b[i] = block[i]
  BY DEF Segment
<1>7. /\ c \in IF room = 0 THEN {0} ELSE 1..room
      /\ LET y    == [x EXCEPT !.speed = SpeedAfter(x, b[k], c)]
             left == b[k].room - c
             ends == left = x.complete
        IN  IF ends /\ left = 0 /\ control \in {"normal", "hold"}
            THEN /\ block' = [b EXCEPT ![k] = NoBlock]
                 /\ tail' = After(tail)
                 /\ planned' = PlannedAfterDiscard
                 /\ exec' = [y EXCEPT !.loaded = FALSE]
                 /\ begun' = FALSE /\ slowed' = (slowed /\ After(tail) # head)
                 /\ UNCHANGED control
            ELSE /\ block' = [b EXCEPT ![k].room = left]
                 /\ exec' = [y EXCEPT !.partial = @ \/ (ends /\ control = "hold")]
                 /\ control' = IF ~ends THEN control
                               ELSE IF control = "hold" THEN "holdEnd" ELSE "parkEnd"
                 /\ begun' = (begun \/ (control \in {"normal", "hold"} /\ c > 0))
                 /\ UNCHANGED <<tail, planned, slowed>>
  BY DEF Segment
<1> DEFINE left == b[k].room - c
           ends == left = x.complete
           speed == SpeedAfter(x, b[k], c)
<1>8. /\ b[k] \in Cell /\ b[k].room \in Nat /\ b[k].room = block[k].room
      /\ Fits(x, b[k].room)
  <2>1. b[k] \in Cell /\ b[k].room = block[k].room
    BY <1>2, <1>6 DEF Ring, SameBlocks
  <2> QED
    BY <1>4, <2>1 DEF Loads, Cell
<1>9. c \in 0..room /\ left \in Nat /\ x.complete <= left
  BY <1>5, <1>7, <1>8 DEF Fits
<1>10. /\ speed \in Nat
       /\ ends => speed = x.exit
       /\ ~ends /\ control \in {"hold", "parkHold"} => speed = x.speed - c
       /\ control = "park" /\ x.exit = 0 /\ x.speed <= b[k].room => speed <= left
  BY <1>3, <1>5, <1>8, <1>9, SpeedAfterIs
<1>11. QueueOf(tail, head) \subseteq Indices /\ head \notin QueueOf(tail, head)
       /\ (tail # head => tail \in QueueOf(tail, head) /\ Last \in QueueOf(tail, head))
  BY <1>2, QueueEnds DEF Last
<1>12. \A i \in Indices : /\ b[i].kind = block[i].kind /\ b[i].rate = block[i].rate
                          /\ b[i].corner = block[i].corner /\ b[i].max = block[i].max
  BY <1>6 DEF SameBlocks
<1>13. head' = head /\ prevNominal' = prevNominal /\ feedOvr' = feedOvr /\ rapidOvr' = rapidOvr
  BY <1>3 DEF ovrVars
<1> HIDE DEF room
\* The block is complete and discarded.
<1>14. CASE ends /\ left = 0 /\ control \in {"normal", "hold"}
  <2>1. /\ block' = [b EXCEPT ![k] = NoBlock]
        /\ tail' = After(tail) /\ planned' = PlannedAfterDiscard
        /\ exec' = [[x EXCEPT !.speed = speed] EXCEPT !.loaded = FALSE]
        /\ begun' = FALSE /\ slowed' = (slowed /\ After(tail) # head)
        /\ control' = control
    <3> HIDE DEF speed
    <3> QED
      BY <1>7, <1>14 DEF speed
  <2>2. k = tail /\ tail # head
    BY <1>2, <1>3, <1>14 DEF Parking
  <2> HIDE DEF k, left, ends, speed
  <2>3. /\ exec' \in Execution /\ exec'.loaded = FALSE /\ exec'.recalc = FALSE
        /\ exec'.speed = x.exit /\ exec'.exit = x.exit /\ exec'.partial = x.partial
    BY <1>5, <1>10, <1>14, <2>1 DEF Execution
  <2>4. ~x.partial
    BY <1>4, <1>14 DEF Loads
  <2>5. NoBlock \in Cell
    BY PlannerAssumption DEF NoBlock, Cell, Kinds
  <2>6. block' \in Ring /\ \A i \in Indices \ {tail} : block'[i] = block[i]
    BY <1>6, <2>1, <2>2, <2>5 DEF Ring
  <2>7. After(tail) \in Indices /\ QueueOf(After(tail), head) = QueueOf(tail, head) \ {tail}
        /\ Queued' = QueueOf(After(tail), head) /\ Queued = QueueOf(tail, head)
    BY <1>2, <1>13, <2>1, <2>2, RingSteps, QueueShrunk, QueuedIs
  <2>8. planned' \in Indices /\ (After(tail) # head => planned' \in QueueOf(After(tail), head))
    <3>1. planned \in QueueOf(tail, head)
      BY <2>2, <2>7 DEF PlannerInv, PlannedInQueue, IsEmpty
    <3>2. After(tail) # head => After(tail) \in QueueOf(After(tail), head)
      BY <1>2, <2>7, QueueEnds
    <3> QED
      BY <1>2, <2>1, <2>7, <3>1, <3>2 DEF PlannedAfterDiscard
  <2>9. Types'
    BY <1>1, <1>2, <1>13, <2>1, <2>3, <2>6, <2>7, <2>8 DEF Types, TypeOK
  <2>10. PlannedInQueue'
    BY <1>13, <2>1, <2>7, <2>8 DEF PlannedInQueue, IsEmpty
  <2>11. Limits'
    <3>1. LimitsOf(block, tail, head, feedOvr, rapidOvr)
      BY DEF PlannerInv, Limits
    <3> DEFINE d == block'
    <3>2. \A i \in QueueOf(After(tail), head) : d[i] = block[i]
      BY <1>11, <2>6, <2>7
    <3> HIDE DEF d
    <3>3. LimitsOf(d, After(tail), head, feedOvr, rapidOvr)
      BY <1>2, <2>2, <2>7, <3>1, <3>2, LimitsKept
    <3>4. After(tail) # head => prevNominal = Nominal(d[Last], feedOvr, rapidOvr)
      <4> SUFFICES ASSUME After(tail) # head PROVE prevNominal = Nominal(d[Last], feedOvr, rapidOvr)
        OBVIOUS
      <4>1. Last \in QueueOf(After(tail), head)
        BY <1>2, <2>7, QueueEnds DEF Last
      <4>2. prevNominal = Nominal(block[Last], feedOvr, rapidOvr)
        BY <2>2 DEF PlannerInv, Limits, IsEmpty
      <4> QED
        BY <3>2, <4>1, <4>2
    <3> QED
      BY <1>13, <2>1, <3>3, <3>4 DEF Limits, IsEmpty, Last, d
  <2>12. QueueUsed' /\ ProfileFits' /\ BegunKnown' /\ ExitAgrees'
    BY <2>1, <2>3, <2>4, <1>14 DEF QueueUsed, ProfileFits, BegunKnown, ExitAgrees, Parking
  <2>13. AtStop'
    BY <1>14, <2>1 DEF AtStop, Parking
  <2> QED
    BY <2>9, <2>10, <2>11, <2>12, <2>13 DEF PlannerInv
\* Something is left of it.
<1>15. CASE ~(ends /\ left = 0 /\ control \in {"normal", "hold"})
  <2> DEFINE part == x.partial \/ (ends /\ control = "hold")
  <2>1. /\ block' = [b EXCEPT ![k].room = left]
        /\ exec' = [[x EXCEPT !.speed = speed] EXCEPT !.partial = @ \/ (ends /\ control = "hold")]
        /\ control' = IF ~ends THEN control ELSE IF control = "hold" THEN "holdEnd" ELSE "parkEnd"
        /\ begun' = (begun \/ (control \in {"normal", "hold"} /\ c > 0))
        /\ tail' = tail /\ planned' = planned /\ slowed' = slowed
    <3> HIDE DEF speed
    <3> QED
      BY <1>7, <1>15 DEF speed
  <2> HIDE DEF speed
  <2>2. control = "normal" => ~ends
    BY <1>8, <1>9, <1>15 DEF Fits
  <2> HIDE DEF left
  <2>3. /\ exec' \in Execution /\ exec'.loaded = TRUE /\ exec'.recalc = FALSE
        /\ exec'.speed = speed /\ exec'.exit = x.exit /\ exec'.complete = x.complete
        /\ exec'.declOvr = x.declOvr /\ exec'.partial = part
    BY <1>5, <1>10, <2>1 DEF Execution
  <2>4. /\ block' \in Ring /\ SameBlocks([b EXCEPT ![k].room = left], block')
        /\ block'[k].room = left
        /\ \A i \in Indices \ {k} : block'[i] = block[i]
        /\ \A i \in Indices : /\ block'[i].kind = b[i].kind /\ block'[i].rate = b[i].rate
                              /\ block'[i].corner = b[i].corner /\ block'[i].max = b[i].max
    <3> HIDE DEF k
    <3> QED
      BY <1>2, <1>6, <1>8, <1>9, <2>1 DEF Ring, Cell, SameBlocks, k
  <2>5. k = tail \/ k = head
    BY <1>2
  <2>6. PlBlock' = PlBlock /\ control' \in Controls
    BY <1>3, <1>13, <2>1, <2>2 DEF PlBlock, Controls
  <2>7. Types' /\ PlannedInQueue' /\ Limits'
    <3>1. \A i \in QueueOf(tail, head) :
            /\ block'[i].kind = block[i].kind /\ block'[i].rate = block[i].rate
            /\ block'[i].corner = block[i].corner /\ block'[i].max = block[i].max
      BY <1>11, <1>12, <2>4
    <3>2. \A i \in QueueOf(tail, head) \ {tail} : block'[i].entry = block[i].entry
      BY <1>11, <2>4, <2>5
    <3>3. begun' \in BOOLEAN /\ slowed' \in BOOLEAN
      BY <1>2, <2>1
    <3>4. planned' = planned /\ UNCHANGED <<tail, head, prevNominal, ovrVars>>
      BY <1>3, <2>1
    <3> QED
      BY <2>3, <2>4, <2>6, <3>1, <3>2, <3>3, <3>4, QueueStays
  <2>8. QueueUsed'
    <3>1. control' \in Moving => tail # head
      BY <1>3, <2>1, <2>2 DEF Moving
    <3>2. part => tail # head
      BY <1>3, <1>4 DEF PlannerInv, QueueUsed, IsEmpty, Loads
    <3> HIDE DEF part
    <3> QED
      BY <1>13, <2>1, <2>3, <3>1, <3>2 DEF QueueUsed, IsEmpty
  <2>9. ProfileFits'
    <3>1. x.complete <= left
      BY <1>9
    <3>2. control' \in {"normal", "park"} => x.complete = 0
      BY <1>3, <1>8, <2>1 DEF Fits
    <3>3. control' \in {"hold", "parkHold"} => left <= x.complete + speed /\ (x.complete > 0 => x.exit = 0)
      BY <1>3, <1>5, <1>8, <1>9, <1>10, <2>1 DEF Fits, left
    <3>4. block'[PlBlock'].room = left
      BY <2>4, <2>6
    <3> HIDE DEF part, k, ends
    <3> QED
      BY <2>3, <3>1, <3>2, <3>3, <3>4 DEF ProfileFits, Fits
  <2>10. AtStop'
    <3>1. control' \in {"park", "parkHold"} =>
            x.exit = 0 /\ speed <= block'[head].room /\ control' = control /\ ~ends
      <4> SUFFICES ASSUME control' \in {"park", "parkHold"}
                   PROVE  x.exit = 0 /\ speed <= block'[head].room /\ control' = control /\ ~ends
        OBVIOUS
      <4>1. control' = control /\ ~ends /\ k = head
        BY <1>2, <1>3, <2>1 DEF Parking
      <4>2. x.exit = 0 /\ x.speed <= b[k].room
        BY <1>4, <1>8, <4>1 DEF Loads
      <4>3. speed <= left
        BY <1>5, <1>8, <1>9, <1>10, <4>1, <4>2 DEF left
      <4> QED
        BY <2>4, <4>1, <4>2, <4>3
    <3>2. control' \in {"held", "holdEnd", "parkEnd"} =>
            speed = 0 /\ x.exit = 0 /\ control' # "held"
      <4> SUFFICES ASSUME control' \in {"held", "holdEnd", "parkEnd"}
                   PROVE  speed = 0 /\ x.exit = 0 /\ control' # "held"
        OBVIOUS
      <4>1. ends /\ control' # "held" /\ speed = x.exit
        BY <1>3, <1>10, <2>1
      <4>2. CASE control = "hold"
        BY <1>5, <1>8, <1>15, <4>1, <4>2 DEF Fits
      <4>3. CASE control \in {"park", "parkHold"}
        BY <1>4, <4>1, <4>3 DEF Loads
      <4> QED
        BY <1>3, <2>2, <4>1, <4>2, <4>3
    <3>3. part /\ control' \in Parking => block'[tail].entry = 0
      <4> SUFFICES ASSUME part, control' \in Parking PROVE block'[tail].entry = 0
        OBVIOUS
      <4>1. control \in {"park", "parkHold"}
        BY <1>3, <2>1, <2>2 DEF Parking
      <4>2. exec.partial
        BY <1>4, <4>1 DEF Loads
      <4>3. tail # head
        BY <4>2 DEF PlannerInv, QueueUsed, IsEmpty
      <4>4. block'[tail] = block[tail]
        BY <1>2, <2>4, <4>1, <4>3 DEF Parking
      <4> QED
        BY <4>1, <4>2, <4>4 DEF PlannerInv, AtStop, Parking
    <3> HIDE DEF part, ends, k
    <3> QED
      BY <1>13, <2>1, <2>3, <3>1, <3>2, <3>3 DEF AtStop
  <2>11. BegunKnown'
    <3>1. control' \in {"normal", "hold", "held"} => ~part
      BY <1>3, <1>4, <2>1, <2>2 DEF Loads
    <3>2. control' = "holdEnd" => part
      BY <1>3, <2>1, <2>2
    <3>3. begun' /\ control' \in Parking \cup {"held"} => part
      <4> SUFFICES ASSUME begun', control' \in Parking \cup {"held"} PROVE part
        OBVIOUS
      <4>1. control \in {"park", "parkHold"}
        BY <1>3, <2>1, <2>2 DEF Parking
      <4>2. begun
        BY <1>2, <2>1, <4>1
      <4>3. exec.partial
        BY <4>1, <4>2 DEF PlannerInv, BegunKnown, Parking
      <4> QED
        BY <1>4, <4>1, <4>3 DEF Loads
    <3> HIDE DEF part
    <3> QED
      BY <2>3, <3>1, <3>2, <3>3 DEF BegunKnown
  <2>12. ExitAgrees'
    <3> SUFFICES ASSUME control' = "normal", ~x.declOvr PROVE x.exit = ExitSpeed'
      BY <2>3 DEF ExitAgrees
    <3>1. control = "normal" /\ k = tail
      BY <1>2, <1>3, <2>1 DEF Parking
    <3>2. x.exit = ExitSpeed
      BY <1>4, <3>1 DEF Loads
    <3>3. After(tail) \in Indices /\ After(tail) # tail
      BY <1>2, RingSteps
    <3>4. block'[After(tail)] = block[After(tail)]
      BY <2>4, <3>1, <3>3
    <3> QED
      BY <1>13, <2>1, <3>2, <3>4 DEF ExitSpeed
  <2> QED
    BY <2>7, <2>8, <2>9, <2>10, <2>11, <2>12 DEF PlannerInv
<1> QED
  BY <1>14, <1>15

LEMMA NextInv == PlannerInv /\ [Next]_vars => PlannerInv'
<1> SUFFICES ASSUME PlannerInv, [Next]_vars PROVE PlannerInv'
  OBVIOUS
<1>1. ASSUME NEW l \in Lines, BufferLine(l) PROVE PlannerInv'
  BY <1>1, BufferLineKeeps
<1>2. CASE Prep
  BY <1>2, PrepKeeps
<1>3. CASE Hold \/ ParkReopened
  BY <1>3, HoldKeeps
<1>4. CASE HoldIdle \/ Resume
  <2>1. UNCHANGED <<planVars, exec, ovrVars, history>>
    BY <1>4 DEF HoldIdle, Resume
  <2> QED
    BY <1>4, <2>1, ControlKeeps
<1>5. CASE HoldComplete
  BY <1>5, HoldCompleteKeeps
<1>6. CASE JogCancelled
  <2>1. feedOvr' \in FeedMin..FeedMax /\ rapidOvr' \in RapidOverrides
    BY <1>6 DEF JogCancelled, ovrVars, PlannerInv, Types, TypeOK
  <2> QED
    BY <1>6, <2>1, ResetKeeps DEF JogCancelled
<1>7. CASE Park
  BY <1>7, ParkKeeps
<1>8. CASE Parked
  BY <1>8, ParkedKeeps
<1>9. CASE MotionOverride
  <2>1. PICK feed \in {FeedOverride(feedOvr, flags) : flags \in SUBSET FeedFlags},
             rapid \in RapidOverrides : Override(feed, rapid)
    BY <1>9 DEF MotionOverride
  <2>2. feedOvr \in FeedMin..FeedMax
    BY DEF PlannerInv, Types, TypeOK
  <2>3. feed \in FeedMin..FeedMax
    BY <2>2, FeedOverrideIn
  <2> QED
    BY <2>1, <2>3, OverrideKeeps
<1>10. CASE Reset
  <2>1. feedOvr' \in FeedMin..FeedMax /\ rapidOvr' \in RapidOverrides
    BY <1>10, PlannerAssumption DEF Reset
  <2> QED
    BY <1>10, <2>1, ResetKeeps DEF Reset
<1>11. CASE UNCHANGED vars
  <2>1. /\ block' = block /\ tail' = tail /\ head' = head /\ planned' = planned
        /\ prevNominal' = prevNominal /\ exec' = exec /\ control' = control
        /\ feedOvr' = feedOvr /\ rapidOvr' = rapidOvr /\ begun' = begun /\ slowed' = slowed
    BY <1>11 DEF vars, planVars, ovrVars, history
  <2>2. PlBlock' = PlBlock /\ ExitSpeed' = ExitSpeed /\ Queued' = Queued /\ Last' = Last
        /\ IsEmpty' = IsEmpty
    BY <2>1 DEF PlBlock, ExitSpeed, Queued, Count, Last, IsEmpty
  <2>3. Types' /\ PlannedInQueue' /\ Limits' /\ QueueUsed'
    BY <2>1, <2>2 DEF PlannerInv, Types, TypeOK, PlannedInQueue, Limits, QueueUsed
  <2>4. ProfileFits' /\ AtStop' /\ BegunKnown' /\ ExitAgrees'
    BY <2>1, <2>2 DEF PlannerInv, ProfileFits, Fits, AtStop, BegunKnown, ExitAgrees
  <2> QED
    BY <2>3, <2>4 DEF PlannerInv
<1>12. CASE ProgramEnd
  BY <1>12, ProgramEndKeeps
<1> QED
  BY <1>1, <1>2, <1>3, <1>4, <1>5, <1>6, <1>7, <1>8, <1>9, <1>10, <1>11, <1>12 DEF Next

------------------------------------------------------------------------------
(* The theorems *)

\* The indices of the ring stay in the ring and the overrides within their bounds, for every
\* size of the ring and every set of lines, overrides and increments.
THEOREM PlannerTypeCorrect == Spec => []TypeOK
<1>1. PlannerInv => TypeOK
  BY DEF PlannerInv, Types
<1> QED
  BY <1>1, InitInv, NextInv, PTL DEF Spec

\* With blocks in the queue the planned pointer is one of them, so that the passes of
\* planner_recalculate() cover nothing but queued blocks: in spite of discarded blocks, and of
\* replans of an empty queue that leave it anywhere.
THEOREM PlannedInQueueHolds == Spec => []PlannedInQueue
<1>1. PlannerInv => PlannedInQueue
  BY DEF PlannerInv
<1> QED
  BY <1>1, InitInv, NextInv, PTL DEF Spec

\* No junction of the queue is planned faster than its corner, or than either of its two blocks
\* may go under the overrides in force now, whatever overrides, holds and parking motions came
\* between the planning of the one block and of the other.
THEOREM JunctionLimitsHolds == Spec => []JunctionLimits
<1>1. ASSUME PlannerInv PROVE JunctionLimits
  <2> DEFINE v(j) == Nominal(block[j], feedOvr, rapidOvr) * Nominal(block[j], feedOvr, rapidOvr)
  <2>1. /\ tail \in Indices /\ head \in Indices /\ block \in Ring
        /\ feedOvr \in Nat /\ rapidOvr \in Nat
    BY <1>1, PlannerAssumption DEF PlannerInv, Types, TypeOK
  <2>2. Queued = QueueOf(tail, head)
    BY <2>1, QueuedIs
  <2> SUFFICES ASSUME NEW i \in QueueOf(tail, head) \ {tail}
               PROVE  block[i].entry <= MinOf(block[i].corner, MinOf(v(i), v(Before(i))))
    BY <2>2 DEF JunctionLimits
  <2>3. i \in Indices /\ Before(i) \in Indices
    BY <2>1, RingSteps DEF QueueOf
  <2>4. block[i] \in Cell /\ block[Before(i)] \in Cell
    BY <2>1, <2>3 DEF Ring
  <2>5. /\ block[i].corner \in Nat /\ block[i].entry \in Nat
        /\ block[i].kind \in Kinds /\ block[i].rate \in Nat
        /\ block[Before(i)].kind \in Kinds /\ block[Before(i)].rate \in Nat
    BY <2>4 DEF Cell
  <2>6. Nominal(block[i], feedOvr, rapidOvr) \in Nat
        /\ Nominal(block[Before(i)], feedOvr, rapidOvr) \in Nat
    BY <2>1, <2>5, NominalNat
  <2> DEFINE m == MaxEntry(block[i], Nominal(block[i], feedOvr, rapidOvr),
                           Nominal(block[Before(i)], feedOvr, rapidOvr))
  <2>7. m \in Nat /\ m <= block[i].corner /\ m <= MinOf(v(i), v(Before(i)))
    BY <2>5, <2>6, MaxEntryIs
  <2>8. block[i].entry <= m
    BY <1>1, <2>1 DEF PlannerInv, Limits, LimitsOf
  <2>9. v(i) \in Nat /\ v(Before(i)) \in Nat
    BY <2>6, SquareNat
  <2> HIDE DEF m, v
  <2> QED
    BY <2>5, <2>7, <2>8, <2>9 DEF MinOf
<1> QED
  BY <1>1, InitInv, NextInv, PTL DEF Spec

\* The profile of the executing block ends with the speed at which the next block is planned
\* to begin: no change of the plan is missed by the stepper.
THEOREM ExitAgreesHolds == Spec => []ExitAgrees
<1>1. PlannerInv => ExitAgrees
  BY DEF PlannerInv
<1> QED
  BY <1>1, InitInv, NextInv, PTL DEF Spec

\* A block that has been executed in part is never loaded as a new one: its profile is loaded,
\* or is to be computed again from where it stands, through any sequence of holds, parking
\* motions, parking motions that are held themselves, and overrides.
THEOREM NotBegunAgainHolds == Spec => []NotBegunAgain
<1>1. PlannerInv => NotBegunAgain
  BY DEF PlannerInv, BegunKnown, NotBegunAgain
<1> QED
  BY <1>1, InitInv, NextInv, PTL DEF Spec

=============================================================================
