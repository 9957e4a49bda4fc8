------------------------- MODULE PlannerSpeedProofs -------------------------
(***************************************************************************)
(* Proofs about the speeds of the plan, for every size of the ring, all    *)
(* lines and all bounds of the overrides: the machine can reach every      *)
(* junction at its planned speed, can slow down to it unless an override   *)
(* has slowed down the junction, and can always stop within the queue.     *)
(***************************************************************************)
EXTENDS PlannerProofs

------------------------------------------------------------------------------
(* Plans, as functions of a ring b and its tail t and head h *)

\* The speed planned for the end of block i.
NextSpeed(b, h, i) == IF After(i) = h THEN 0 ELSE b[After(i)].entry

\* Behind the tail, every junction is reached by speeding up, and by slowing down.
SpeedsUp(b, t, h) ==
  \A i \in QueueOf(t, h) \ {t} : NextSpeed(b, h, i) <= b[i].entry + b[i].room

SlowsDown(b, t, h) ==
  \A i \in QueueOf(t, h) \ {t} : b[i].entry <= NextSpeed(b, h, i) + b[i].room

\* Speeds s at the junctions, none below the planned one, from which the machine can stop
\* before the end of the queue.
Stops(s, b, t, h) ==
  /\ s \in [Indices -> Nat] /\ s[h] = 0
  /\ \A i \in QueueOf(t, h) : s[i] <= s[After(i)] + b[i].room
  /\ \A i \in QueueOf(t, h) \ {t} : b[i].entry <= s[i]

\* The forward pass: no entry speed exceeds what the block before it allows.
LEMMA PassSpeedsUp ==
  ASSUME NEW b, NEW c \in Ring, NEW p \in Indices, NEW n \in 0..(BufferSize - 1), NEW rev,
         Passes(b, c, p, n, rev), b \in Ring, NEW d \in 1..n
  PROVE  c[Place(p, d)].entry <= c[Place(p, d - 1)].entry + b[Place(p, d - 1)].room
<1>1. /\ c[Place(p, d)].entry = MinOf(rev[d], c[Place(p, d - 1)].entry + b[Place(p, d - 1)].room)
      /\ rev[d] \in Nat
  BY DEF Passes
<1>2. d - 1 \in 0..(BufferSize - 1)
  BY PlannerAssumption
<1>3. Place(p, d - 1) \in Indices
  BY <1>2, RingPlace
<1>4. c[Place(p, d - 1)] \in Cell /\ b[Place(p, d - 1)] \in Cell
  BY <1>3 DEF Ring
<1>5. c[Place(p, d - 1)].entry \in Nat /\ b[Place(p, d - 1)].room \in Nat
  BY <1>4 DEF Cell
<1> QED
  BY <1>1, <1>5 DEF MinOf

\* The reverse pass: where the new entry speed is not one the block can slow down from, it is
\* not above the old one, since the pass has skipped the block at its maximum.
LEMMA PassSlowsDown ==
  ASSUME NEW b \in Ring, NEW c \in Ring, NEW p \in Indices, NEW n \in 0..(BufferSize - 1), NEW rev,
         Passes(b, c, p, n, rev), NEW d \in 1..n
  PROVE  \/ c[Place(p, d)].entry <= (IF d = n THEN 0 ELSE c[Place(p, d + 1)].entry)
                                    + b[Place(p, d)].room
         \/ /\ d # n /\ c[Place(p, d + 1)].entry = rev[d + 1]
            /\ c[Place(p, d)].entry <= b[Place(p, d)].entry
<1> DEFINE q == b[Place(p, d)]
           e == c[Place(p, d)].entry
           w == IF d = n THEN rev[d] ELSE rev[d + 1]
           f == IF d = n THEN 0 ELSE c[Place(p, d + 1)].entry
<1>1. Place(p, d) \in Indices /\ (d # n => Place(p, d + 1) \in Indices)
  BY RingPlace, PlannerAssumption
<1>2. q \in Cell /\ c[Place(p, d)] \in Cell
  BY <1>1 DEF Ring
<1>3. q.room \in Nat /\ q.max \in Nat /\ q.entry \in Nat /\ e \in Nat
  BY <1>2 DEF Cell
<1>4. /\ rev[d] \in Nat /\ w \in Nat
      /\ rev[d] = IF d = n THEN MinOf(q.max, q.room)
                  ELSE IF q.entry = q.max THEN q.max ELSE MinOf(q.max, w + q.room)
  <2>1. d # n => d + 1 \in 1..n
    OBVIOUS
  <2>2. rev \in [1..n -> Nat]
    BY DEF Passes
  <2>3. rev[d] \in Nat /\ w \in Nat
    BY <2>1, <2>2
  <2>4. CASE d = n
    BY <2>4 DEF Passes
  <2>5. CASE d # n
    BY <2>5 DEF Passes
  <2> QED
    BY <2>3, <2>4, <2>5
<1>5. e <= rev[d]
  <2>1. e = MinOf(rev[d], c[Place(p, d - 1)].entry + b[Place(p, d - 1)].room)
    BY DEF Passes
  <2>2. d - 1 \in 0..(BufferSize - 1)
    BY PlannerAssumption
  <2>3. Place(p, d - 1) \in Indices
    BY <2>2, RingPlace
  <2>4. c[Place(p, d - 1)] \in Cell /\ b[Place(p, d - 1)] \in Cell
    BY <2>3 DEF Ring
  <2>5. c[Place(p, d - 1)].entry \in Nat /\ b[Place(p, d - 1)].room \in Nat
    BY <2>4 DEF Cell
  <2> HIDE DEF e
  <2> QED
    BY <1>4, <2>1, <2>5 DEF MinOf
<1>6. CASE d = n
  <2>1. rev[d] <= q.room
    BY <1>3, <1>4, <1>6 DEF MinOf
  <2> HIDE DEF e, q
  <2> QED
    BY <1>3, <1>4, <1>5, <1>6, <2>1 DEF e, q
<1>7. CASE d # n
  <2>1. d + 1 \in 1..n
    BY <1>7
  <2>2. f = MinOf(w, c[Place(p, (d + 1) - 1)].entry + b[Place(p, (d + 1) - 1)].room)
    BY <1>7, <2>1 DEF Passes
  <2>3. (d + 1) - 1 = d
    OBVIOUS
  <2>4. f = MinOf(w, e + q.room)
    BY <2>2, <2>3
  <2> HIDE DEF e, q, w, f
  <2>5. f = w \/ e <= f + q.room
    BY <1>3, <2>4 DEF MinOf
  <2>6. f = w => e <= f + q.room \/ e <= q.entry
    BY <1>3, <1>4, <1>5, <1>7 DEF MinOf
  <2> QED
    BY <1>7, <2>5, <2>6 DEF e, q, w, f
<1> QED
  BY <1>6, <1>7

\* A plan the machine can follow down is not made slower by the reverse pass.
LEMMA ReverseImproves ==
  ASSUME NEW b \in Ring, NEW c \in Ring, NEW p \in Indices, NEW n \in 0..(BufferSize - 1), NEW rev,
         Passes(b, c, p, n, rev),
         \A d \in 1..n : /\ b[Place(p, d)].entry <= b[Place(p, d)].max
                         /\ b[Place(p, d)].entry <= (IF d = n THEN 0 ELSE b[Place(p, d + 1)].entry)
                                                    + b[Place(p, d)].room
  PROVE  \A d \in 1..n : b[Place(p, d)].entry <= rev[d]
<1> DEFINE Bad == {d \in 1..n : ~(b[Place(p, d)].entry <= rev[d])}
<1> SUFFICES ASSUME Bad # {} PROVE FALSE
  OBVIOUS
<1>1. n \in Nat /\ Bad \subseteq 0..n
  BY PlannerAssumption
<1>2. PICK d \in Bad : \A j \in Bad : d >= j
  <2> HIDE DEF Bad
  <2> QED
    BY <1>1, MaxInIs
<1> DEFINE q == b[Place(p, d)]
<1>3. d \in 1..n /\ ~(q.entry <= rev[d])
  OBVIOUS
<1>4. Place(p, d) \in Indices
  BY <1>3, RingPlace, PlannerAssumption
<1>5. q \in Cell
  BY <1>4 DEF Ring
<1>6. q.room \in Nat /\ q.max \in Nat /\ q.entry \in Nat
  BY <1>5 DEF Cell
<1>7. /\ rev[d] \in Nat
      /\ rev[d] = IF d = n THEN MinOf(q.max, q.room)
                  ELSE IF q.entry = q.max THEN q.max ELSE MinOf(q.max, rev[d + 1] + q.room)
  BY <1>3 DEF Passes
<1>8. q.entry <= q.max /\ q.entry <= (IF d = n THEN 0 ELSE b[Place(p, d + 1)].entry) + q.room
  BY <1>3
<1>9. CASE d = n
  <2> HIDE DEF q
  <2> QED
    BY <1>3, <1>6, <1>7, <1>8, <1>9 DEF MinOf
<1>10. CASE d # n
  <2>1. d + 1 \in 1..n /\ ~(d >= d + 1)
    BY <1>3, <1>10
  <2>2. b[Place(p, d + 1)].entry <= rev[d + 1] /\ rev[d + 1] \in Nat
    <3>1. d + 1 \notin Bad
      <4> HIDE DEF Bad
      <4> QED
        BY <1>2, <2>1
    <3> QED
      BY <2>1, <3>1 DEF Passes
  <2>3. Place(p, d + 1) \in Indices
    BY <2>1, RingPlace, PlannerAssumption
  <2>4. b[Place(p, d + 1)] \in Cell
    BY <2>3 DEF Ring
  <2>5. b[Place(p, d + 1)].entry \in Nat
    BY <2>4 DEF Cell
  <2> HIDE DEF q, Bad
  <2> QED
    BY <1>3, <1>6, <1>7, <1>8, <1>10, <2>2, <2>5 DEF MinOf
<1> QED
  BY <1>9, <1>10

\* The neighbours of a queued block, by its distance from the block the passes begin at.
LEMMA PassNeighbours ==
  ASSUME NEW t \in Indices, NEW h \in Indices, NEW p \in QueueOf(t, h), NEW i \in QueueOf(t, h),
         NEW n, n = Distance(p, Before(h))
  PROVE  /\ n \in 0..(BufferSize - 1)
         /\ Distance(p, i) \in 1..n =>
              /\ Place(p, Distance(p, i)) = i /\ Place(p, Distance(p, i) - 1) = Before(i)
              /\ Distance(p, i) = n <=> After(i) = h
              /\ Distance(p, i) # n => Place(p, Distance(p, i) + 1) = After(i)
         /\ Distance(p, i) \notin 1..n /\ i # p =>
              After(i) # h /\ Distance(p, After(i)) \notin 1..n
         /\ i = p => \/ After(i) = h /\ n = 0
                     \/ After(i) # h /\ n \in Nat \ {0} /\ Distance(p, After(i)) = 1
<1> DEFINE d == Distance(p, i)
<1>1. i \in Indices /\ p \in Indices /\ Before(h) \in Indices /\ After(i) \in Indices
      /\ After(Before(h)) = h /\ Before(After(i)) = i
  BY RingSteps DEF QueueOf
<1>2. n \in 0..(BufferSize - 1) /\ d \in 0..(BufferSize - 1) /\ Place(p, d) = i
      /\ (d = 0 <=> p = i) /\ Place(p, n) = Before(h)
  BY <1>1, RingDistance
<1>3. d > 0 => Place(p, d - 1) = Before(i)
  BY <1>1, <1>2, RingPlace
<1>4. d < BufferSize - 1 => Place(p, d + 1) = After(i)
  BY <1>1, <1>2, RingPlace
<1>5. d = n <=> After(i) = h
  BY <1>1, <1>2
<1>6. Distance(p, After(i)) = IF d = BufferSize - 1 THEN 0 ELSE d + 1
  BY <1>1, RingDistance
<1>7. n = Distance(t, h) - 1 - Distance(t, p)
      /\ (d \in 1..n <=> Distance(t, i) > Distance(t, p))
  BY <1>1, PassPlaces
<1>8. /\ Distance(t, h) \in 0..(BufferSize - 1) /\ Distance(t, i) \in 0..(BufferSize - 1)
      /\ Distance(t, p) \in 0..(BufferSize - 1) /\ (Distance(t, i) = Distance(t, p) => i = p)
      /\ Distance(t, After(i)) = (IF Distance(t, i) = BufferSize - 1 THEN 0 ELSE Distance(t, i) + 1)
      /\ Distance(t, i) < Distance(t, h) /\ Distance(t, p) < Distance(t, h)
  BY <1>1, RingDistance DEF QueueOf, Indices, Distance
<1>9. d \notin 1..n /\ i # p => After(i) # h /\ Distance(p, After(i)) \notin 1..n
  <2> SUFFICES ASSUME d \notin 1..n, i # p
               PROVE  After(i) # h /\ Distance(p, After(i)) \notin 1..n
    OBVIOUS
  <2>1. Distance(t, i) < Distance(t, p)
    BY <1>7, <1>8
  <2>2. Distance(t, After(i)) <= Distance(t, p)
    BY <1>8, <2>1, PlannerAssumption
  <2>3. After(i) \in QueueOf(t, h)
    BY <1>1, <1>8, <2>2 DEF QueueOf
  <2>4. Distance(p, After(i)) \notin 1..n
    BY <1>1, <1>8, <2>2, <2>3, PassPlaces
  <2> QED
    BY <1>8, <2>2, <2>4
<1>10. i = p => \/ After(i) = h /\ n = 0
                \/ After(i) # h /\ n \in Nat \ {0} /\ Distance(p, After(i)) = 1
  BY <1>2, <1>5, <1>6, PlannerAssumption
<1> HIDE DEF d
<1>11. d \in 1..n => d > 0 /\ (d # n => d < BufferSize - 1)
  BY <1>2, PlannerAssumption
<1> QED
  BY <1>2, <1>3, <1>4, <1>5, <1>9, <1>10, <1>11 DEF d

\* A plan made again from block p on: c is b with the entry speeds of the passes behind p.
Replanned(b, c, h, p) ==
  /\ b \in Ring /\ c \in Ring /\ SameBlocks(b, c)
  /\ \A i \in Indices : Distance(p, i) \notin 1..Distance(p, Before(h)) => c[i].entry = b[i].entry
  /\ \E rev : Passes(b, c, p, Distance(p, Before(h)), rev)

\* From p on, every junction of the new plan is reached by speeding up.
LEMMA ReplanSpeedsUp ==
  ASSUME NEW b, NEW c, NEW t \in Indices, NEW h \in Indices, NEW p \in QueueOf(t, h),
         Replanned(b, c, h, p)
  PROVE  /\ SpeedsUp(b, t, h) => SpeedsUp(c, t, h)
         /\ p = t => SpeedsUp(c, t, h)
         /\ p = t => NextSpeed(c, h, t) <= c[t].entry + c[t].room
         /\ p # t => NextSpeed(c, h, t) = NextSpeed(b, h, t) /\ c[t] = b[t]
<1> DEFINE n == Distance(p, Before(h))
<1>1. PICK rev : Passes(b, c, p, n, rev)
  BY DEF Replanned
<1>2. /\ p \in Indices /\ b \in Ring /\ c \in Ring /\ SameBlocks(b, c)
      /\ \A i \in Indices : Distance(p, i) \notin 1..n => c[i].entry = b[i].entry
  BY DEF Replanned, QueueOf
<1> HIDE DEF n
<1>3. \A i \in QueueOf(t, h) : i \in Indices /\ After(i) \in Indices /\ c[i].room \in Nat
                               /\ c[i].entry \in Nat /\ c[i].room = b[i].room
  <2> SUFFICES ASSUME NEW i \in QueueOf(t, h)
               PROVE  i \in Indices /\ After(i) \in Indices /\ c[i].room \in Nat
                      /\ c[i].entry \in Nat /\ c[i].room = b[i].room
    OBVIOUS
  <2>1. i \in Indices /\ After(i) \in Indices
    BY RingSteps DEF QueueOf
  <2>2. c[i] \in Cell
    BY <1>2, <2>1 DEF Ring
  <2> QED
    BY <1>2, <2>1, <2>2 DEF Cell, SameBlocks
\* From p on, and wherever the next block is one that was planned again.
<1>4. \A i \in QueueOf(t, h) : i = p \/ Distance(p, i) \in 1..n =>
        NextSpeed(c, h, i) <= c[i].entry + c[i].room
  <2> SUFFICES ASSUME NEW i \in QueueOf(t, h), i = p \/ Distance(p, i) \in 1..n
               PROVE  NextSpeed(c, h, i) <= c[i].entry + c[i].room
    OBVIOUS
  <2>1. CASE After(i) = h
    BY <1>3, <2>1 DEF NextSpeed
  <2>2. CASE After(i) # h
    <3> DEFINE d == Distance(p, i) + 1
    <3>1. Distance(p, p) = 0 /\ Place(p, 0) = p
      BY <1>2, RingDistance
    <3>2. n \in 0..(BufferSize - 1) /\ n \in Nat
      BY <1>2, PassNeighbours, PlannerAssumption DEF n
    <3>3. d \in 1..n /\ d - 1 = Distance(p, i)
      <4>1. CASE i = p
        <5>1. n \in Nat \ {0}
          BY <2>2, <4>1, PassNeighbours DEF n
        <5> QED
          BY <3>1, <4>1, <5>1
      <4>2. CASE Distance(p, i) \in 1..n
        <5>1. Distance(p, i) # n
          BY <2>2, <4>2, PassNeighbours DEF n
        <5> QED
          BY <3>2, <4>2, <5>1
      <4> QED
        BY <4>1, <4>2
    <3>4. Place(p, d - 1) = i
      BY <1>2, <1>3, <3>3, RingDistance
    <3>5. Place(p, d) = After(i)
      <4>1. CASE i = p
        <5>1. Distance(p, After(i)) = 1
          BY <2>2, <4>1, PassNeighbours
        <5>2. Place(p, Distance(p, After(i))) = After(i)
          BY <1>2, <1>3, RingDistance
        <5> QED
          BY <3>1, <4>1, <5>1, <5>2
      <4>2. CASE Distance(p, i) \in 1..n
        BY <2>2, <4>2, PassNeighbours DEF n
      <4> QED
        BY <4>1, <4>2
    <3> HIDE DEF d
    <3>6. c[Place(p, d)].entry <= c[Place(p, d - 1)].entry + b[Place(p, d - 1)].room
      BY <1>1, <1>2, <3>2, <3>3, PassSpeedsUp
    <3> QED
      BY <1>3, <2>2, <3>4, <3>5, <3>6 DEF NextSpeed
  <2> QED
    BY <2>1, <2>2
\* Before p nothing has changed.
<1>5. \A i \in QueueOf(t, h) : i # p /\ Distance(p, i) \notin 1..n =>
        NextSpeed(c, h, i) = NextSpeed(b, h, i) /\ c[i].entry = b[i].entry
  <2> SUFFICES ASSUME NEW i \in QueueOf(t, h), i # p, Distance(p, i) \notin 1..n
               PROVE  NextSpeed(c, h, i) = NextSpeed(b, h, i) /\ c[i].entry = b[i].entry
    OBVIOUS
  <2>1. Distance(p, After(i)) \notin 1..n
    BY PassNeighbours DEF n
  <2> QED
    BY <1>2, <1>3, <2>1 DEF NextSpeed
<1>6. Distance(t, t) = 0 /\ (p = t => \A i \in QueueOf(t, h) \ {t} : Distance(p, i) \in 1..n)
  <2>1. Distance(t, t) = 0
    BY RingDistance
  <2>2. ASSUME p = t, NEW i \in QueueOf(t, h) \ {t} PROVE Distance(p, i) \in 1..n
    <3>1. i \in Indices /\ Distance(t, i) \in 0..(BufferSize - 1) /\ Distance(t, i) # 0
      BY <1>3, RingDistance
    <3> QED
      BY <2>1, <2>2, <3>1, PassPlaces DEF n
  <2> QED
    BY <2>1, <2>2
<1>7. t \in QueueOf(t, h)
  <2>1. t # h
    BY QueueEnds
  <2> QED
    BY <2>1, QueueEnds
<1>8. SpeedsUp(b, t, h) => SpeedsUp(c, t, h)
  BY <1>3, <1>4, <1>5 DEF SpeedsUp
<1>9. p = t => SpeedsUp(c, t, h)
  BY <1>4, <1>6 DEF SpeedsUp
<1>10. p = t => NextSpeed(c, h, t) <= c[t].entry + c[t].room
  BY <1>4, <1>7
<1>11. p # t => NextSpeed(c, h, t) = NextSpeed(b, h, t) /\ c[t] = b[t]
  <2> SUFFICES ASSUME p # t PROVE NextSpeed(c, h, t) = NextSpeed(b, h, t) /\ c[t] = b[t]
    OBVIOUS
  <2>1. Distance(p, t) \notin 1..n
    BY <1>2, <1>6, RingDistance, PassPlaces DEF n
  <2>2. NextSpeed(c, h, t) = NextSpeed(b, h, t) /\ c[t].entry = b[t].entry
    BY <1>5, <1>7, <2>1
  <2>3. c[t] \in Cell /\ b[t] \in Cell
    BY <1>2 DEF Ring
  <2> QED
    BY <1>2, <2>2, <2>3 DEF SameBlocks, Cell
<1> QED
  BY <1>8, <1>9, <1>10, <1>11

\* Behind p, a new entry speed that the block cannot slow down from is not above the old one,
\* and if the old plan could be followed down no speed of the reverse pass is below it.
LEMMA ReplanBehind ==
  ASSUME NEW b, NEW c, NEW t \in Indices, NEW h \in Indices, NEW p \in QueueOf(t, h),
         Replanned(b, c, h, p), NEW i \in QueueOf(t, h),
         Distance(p, i) \in 1..Distance(p, Before(h))
  PROVE  /\ c[i].entry <= NextSpeed(c, h, i) + c[i].room \/ c[i].entry <= b[i].entry
         /\ (\A j \in QueueOf(t, h) \ {t} : b[j].entry <= b[j].max) /\ SlowsDown(b, t, h) =>
              /\ c[i].entry <= NextSpeed(c, h, i) + c[i].room
              /\ b[i].entry <= c[i].entry \/ c[i].entry = c[Before(i)].entry + b[Before(i)].room
<1> DEFINE n == Distance(p, Before(h))
           d == Distance(p, i)
<1>1. PICK rev : Passes(b, c, p, n, rev)
  BY DEF Replanned
<1>2. /\ p \in Indices /\ b \in Ring /\ c \in Ring /\ SameBlocks(b, c) /\ i \in Indices
      /\ Before(i) \in Indices /\ After(i) \in Indices
  BY RingSteps DEF Replanned, QueueOf
<1>3. c[i] \in Cell /\ b[i] \in Cell /\ c[After(i)] \in Cell /\ b[After(i)] \in Cell
      /\ b[Before(i)] \in Cell /\ c[Before(i)] \in Cell
  BY <1>2 DEF Ring
<1>4. c[i].room = b[i].room /\ b[i].room \in Nat /\ c[i].entry \in Nat /\ b[i].entry \in Nat
      /\ c[After(i)].entry \in Nat /\ b[After(i)].entry \in Nat
  BY <1>2, <1>3 DEF SameBlocks, Cell
<1>5. /\ n \in 0..(BufferSize - 1) /\ d \in 1..n
      /\ Place(p, d) = i /\ Place(p, d - 1) = Before(i)
      /\ (d = n <=> After(i) = h) /\ (d # n => Place(p, d + 1) = After(i))
  BY PassNeighbours
<1>6. NextSpeed(c, h, i) = IF d = n THEN 0 ELSE c[Place(p, d + 1)].entry
  BY <1>5 DEF NextSpeed
<1>7. t \notin {j \in Indices : Distance(p, j) \in 1..n}
  <2>1. Distance(t, t) = 0 /\ Distance(t, p) \in Nat
    BY <1>2, RingDistance
  <2> QED
    BY <2>1, PassPlaces
<1> HIDE DEF n, d
<1>8. \/ c[i].entry <= NextSpeed(c, h, i) + c[i].room
      \/ d # n /\ NextSpeed(c, h, i) = rev[d + 1] /\ c[i].entry <= b[i].entry
  <2>1. \/ c[Place(p, d)].entry <= (IF d = n THEN 0 ELSE c[Place(p, d + 1)].entry)
                                    + b[Place(p, d)].room
        \/ /\ d # n /\ c[Place(p, d + 1)].entry = rev[d + 1]
           /\ c[Place(p, d)].entry <= b[Place(p, d)].entry
    BY <1>1, <1>2, <1>5, PassSlowsDown
  <2> QED
    BY <1>4, <1>5, <1>6, <2>1
<1>9. ASSUME \A j \in QueueOf(t, h) \ {t} : b[j].entry <= b[j].max, SlowsDown(b, t, h)
      PROVE  /\ c[i].entry <= NextSpeed(c, h, i) + c[i].room
             /\ b[i].entry <= c[i].entry \/ c[i].entry = c[Before(i)].entry + b[Before(i)].room
  <2>1. \A m \in 1..n : b[Place(p, m)].entry <= rev[m]
    <3>1. ASSUME NEW m \in 1..n
          PROVE  /\ b[Place(p, m)].entry <= b[Place(p, m)].max
                 /\ b[Place(p, m)].entry <= (IF m = n THEN 0 ELSE b[Place(p, m + 1)].entry)
                                            + b[Place(p, m)].room
      <4> DEFINE j == Place(p, m)
      <4>1. j \in Indices /\ Distance(p, j) = m
        BY <1>2, <1>5, RingPlace, PlannerAssumption
      <4>2. j \in QueueOf(t, h) \ {t}
        BY <1>2, <1>7, <4>1, PassPlaces DEF n
      <4>3. (m = n <=> After(j) = h) /\ (m # n => Place(p, m + 1) = After(j))
        BY <4>1, <4>2, PassNeighbours DEF n
      <4> HIDE DEF j
      <4>4. b[j].entry <= b[j].max /\ b[j].entry <= NextSpeed(b, h, j) + b[j].room
        BY <1>9, <4>2 DEF SlowsDown
      <4>5. NextSpeed(b, h, j) = IF m = n THEN 0 ELSE b[Place(p, m + 1)].entry
        BY <4>3 DEF NextSpeed
      <4> QED
        BY <4>4, <4>5 DEF j
    <3> QED
      BY <1>1, <1>2, <1>5, <3>1, ReverseImproves
  <2>2. c[i].entry <= NextSpeed(c, h, i) + c[i].room
    <3> SUFFICES ASSUME d # n, NextSpeed(c, h, i) = rev[d + 1], c[i].entry <= b[i].entry
                 PROVE  c[i].entry <= NextSpeed(c, h, i) + c[i].room
      BY <1>8
    <3>1. d + 1 \in 1..n /\ Place(p, d + 1) = After(i) /\ After(i) # h
      BY <1>5
    <3>2. b[After(i)].entry <= rev[d + 1] /\ rev[d + 1] \in Nat
      BY <1>1, <2>1, <3>1 DEF Passes
    <3>3. i # t
      BY <1>2, <1>5, <1>7 DEF d
    <3>4. b[i].entry <= b[After(i)].entry + b[i].room
      BY <1>9, <3>1, <3>3 DEF SlowsDown, NextSpeed
    <3> QED
      BY <1>4, <3>2, <3>4
  <2>3. b[i].entry <= c[i].entry \/ c[i].entry = c[Before(i)].entry + b[Before(i)].room
    <3>1. c[i].entry = MinOf(rev[d], c[Before(i)].entry + b[Before(i)].room) /\ b[i].entry <= rev[d]
      BY <1>1, <1>5, <2>1 DEF Passes
    <3> QED
      BY <3>1 DEF MinOf
  <2> QED
    BY <2>2, <2>3
<1> QED
  BY <1>4, <1>8, <1>9

\* A plan that can be followed down is replaced by one that can, also from the tail.
LEMMA ReplanSlowsDown ==
  ASSUME NEW b, NEW c, NEW t \in Indices, NEW h \in Indices, NEW p \in QueueOf(t, h),
         Replanned(b, c, h, p), SlowsDown(b, t, h),
         \A j \in QueueOf(t, h) \ {t} : b[j].entry <= b[j].max
  PROVE  /\ SlowsDown(c, t, h)
         /\ b[t].entry <= NextSpeed(b, h, t) + b[t].room =>
              c[t].entry <= NextSpeed(c, h, t) + c[t].room
         /\ NextSpeed(b, h, t) <= NextSpeed(c, h, t)
              \/ NextSpeed(c, h, t) = c[t].entry + c[t].room
<1> DEFINE n == Distance(p, Before(h))
<1>1. /\ p \in Indices /\ b \in Ring /\ c \in Ring /\ SameBlocks(b, c)
      /\ \A i \in Indices : Distance(p, i) \notin 1..n => c[i].entry = b[i].entry
  BY DEF Replanned, QueueOf
<1> HIDE DEF n
<1>2. \A i \in QueueOf(t, h) : /\ i \in Indices /\ After(i) \in Indices
                               /\ c[i].room = b[i].room /\ b[i].room \in Nat
                               /\ c[i].entry \in Nat /\ b[i].entry \in Nat
                               /\ NextSpeed(c, h, i) \in Nat /\ NextSpeed(b, h, i) \in Nat
  <2> SUFFICES ASSUME NEW i \in QueueOf(t, h)
               PROVE  /\ i \in Indices /\ After(i) \in Indices
                      /\ c[i].room = b[i].room /\ b[i].room \in Nat
                      /\ c[i].entry \in Nat /\ b[i].entry \in Nat
                      /\ NextSpeed(c, h, i) \in Nat /\ NextSpeed(b, h, i) \in Nat
    OBVIOUS
  <2>1. i \in Indices /\ After(i) \in Indices
    BY RingSteps DEF QueueOf
  <2>2. c[i] \in Cell /\ b[i] \in Cell /\ c[After(i)] \in Cell /\ b[After(i)] \in Cell
    BY <1>1, <2>1 DEF Ring
  <2> QED
    BY <1>1, <2>1, <2>2 DEF SameBlocks, Cell, NextSpeed
<1>3. \A i \in QueueOf(t, h) : Distance(p, i) \in 1..n =>
        /\ c[i].entry <= NextSpeed(c, h, i) + c[i].room
        /\ b[i].entry <= c[i].entry \/ c[i].entry = c[Before(i)].entry + b[Before(i)].room
  BY ReplanBehind DEF n
<1>4. \A i \in QueueOf(t, h) : i # p /\ Distance(p, i) \notin 1..n =>
        NextSpeed(c, h, i) = NextSpeed(b, h, i) /\ c[i].entry = b[i].entry
  <2> SUFFICES ASSUME NEW i \in QueueOf(t, h), i # p, Distance(p, i) \notin 1..n
               PROVE  NextSpeed(c, h, i) = NextSpeed(b, h, i) /\ c[i].entry = b[i].entry
    OBVIOUS
  <2>1. Distance(p, After(i)) \notin 1..n
    BY PassNeighbours DEF n
  <2> QED
    BY <1>1, <1>2, <2>1 DEF NextSpeed
\* Block p keeps its entry speed, and the one after it gets none that is too slow.
<1>5. /\ c[p].entry = b[p].entry
      /\ \/ NextSpeed(b, h, p) <= NextSpeed(c, h, p)
         \/ NextSpeed(c, h, p) = c[p].entry + c[p].room
  <2>1. Distance(p, p) = 0
    BY <1>1, RingDistance
  <2>2. c[p].entry = b[p].entry
    BY <1>1, <2>1
  <2>3. CASE After(p) = h
    BY <1>2, <2>2, <2>3 DEF NextSpeed
  <2>4. CASE After(p) # h
    <3>1. n \in Nat \ {0} /\ Distance(p, After(p)) = 1
      BY <2>4, PassNeighbours DEF n
    <3>2. Distance(p, After(p)) \in 1..n
      BY <3>1
    <3>3. After(p) \in QueueOf(t, h) /\ Before(After(p)) = p
      BY <1>1, <1>2, <3>2, PassPlaces, RingSteps DEF n
    <3>4. b[After(p)].entry <= c[After(p)].entry \/ c[After(p)].entry = c[p].entry + b[p].room
      BY <1>3, <3>2, <3>3
    <3> QED
      BY <1>2, <2>2, <2>4, <3>4 DEF NextSpeed
  <2> QED
    BY <2>2, <2>3, <2>4
<1>6. t \in QueueOf(t, h)
  <2>1. t # h
    BY QueueEnds
  <2> QED
    BY <2>1, QueueEnds
<1>7. SlowsDown(c, t, h)
  <2> SUFFICES ASSUME NEW i \in QueueOf(t, h) \ {t}
               PROVE  c[i].entry <= NextSpeed(c, h, i) + c[i].room
    BY DEF SlowsDown
  <2>1. b[i].entry <= NextSpeed(b, h, i) + b[i].room
    BY DEF SlowsDown
  <2>2. CASE Distance(p, i) \in 1..n
    BY <1>3, <2>2
  <2>3. CASE i = p
    BY <1>2, <1>5, <2>1, <2>3
  <2>4. CASE i # p /\ Distance(p, i) \notin 1..n
    BY <1>2, <1>4, <2>1, <2>4
  <2> QED
    BY <2>2, <2>3, <2>4
<1>8. \/ NextSpeed(b, h, t) <= NextSpeed(c, h, t)
      \/ NextSpeed(c, h, t) = c[t].entry + c[t].room
  <2>1. CASE p = t
    BY <1>5, <2>1
  <2>2. CASE p # t
    <3>1. NextSpeed(c, h, t) = NextSpeed(b, h, t)
      BY <2>2, ReplanSpeedsUp
    <3> QED
      BY <1>2, <1>6, <3>1
  <2> QED
    BY <2>1, <2>2
<1>9. c[t].entry = b[t].entry
  <2>1. CASE p = t
    BY <1>5, <2>1
  <2>2. CASE p # t
    BY <2>2, ReplanSpeedsUp
  <2> QED
    BY <2>1, <2>2
<1>10. b[t].entry <= NextSpeed(b, h, t) + b[t].room => c[t].entry <= NextSpeed(c, h, t) + c[t].room
  BY <1>2, <1>6, <1>8, <1>9
<1> QED
  BY <1>7, <1>8, <1>10

\* The machine can stop from speeds not below s, and at the tail from s itself.
StillStops(s, c, t, h) ==
  \E z : /\ Stops(z, c, t, h) /\ z[t] = s[t]
         /\ \A i \in Indices : s[i] <= z[i] /\ z[i] \in Nat

\* The machine can stop within the queue under the new plan too: from speeds not below those
\* it could stop from under the old one.
LEMMA ReplanStops ==
  ASSUME NEW b, NEW c, NEW t \in Indices, NEW h \in Indices, NEW p \in QueueOf(t, h),
         Replanned(b, c, h, p), NEW s, Stops(s, b, t, h)
  PROVE  StillStops(s, c, t, h)
<1> DEFINE n == Distance(p, Before(h))
           z == [i \in Indices |-> IF i \in QueueOf(t, h) /\ Distance(p, i) \in 1..n
                                  THEN MaxOf(s[i], c[i].entry) ELSE s[i]]
<1>1. /\ p \in Indices /\ b \in Ring /\ c \in Ring /\ SameBlocks(b, c)
      /\ \A i \in Indices : Distance(p, i) \notin 1..n => c[i].entry = b[i].entry
  BY DEF Replanned, QueueOf
<1>2. \A i \in QueueOf(t, h) : Distance(p, i) \in 1..n =>
        c[i].entry <= NextSpeed(c, h, i) + c[i].room \/ c[i].entry <= b[i].entry
  BY ReplanBehind
<1>3. h \notin QueueOf(t, h)
  BY QueueEnds
<1>4. ~(Distance(p, t) \in 1..n)
  <2>1. Distance(t, t) = 0 /\ Distance(t, p) \in Nat
    BY <1>1, RingDistance
  <2> QED
    BY <2>1, PassPlaces
<1> HIDE DEF n
<1>5. \A i \in Indices : /\ s[i] \in Nat /\ c[i].entry \in Nat /\ c[i].room \in Nat
                         /\ c[i].room = b[i].room /\ b[i].entry \in Nat
  <2> SUFFICES ASSUME NEW i \in Indices
               PROVE  /\ s[i] \in Nat /\ c[i].entry \in Nat /\ c[i].room \in Nat
                      /\ c[i].room = b[i].room /\ b[i].entry \in Nat
    OBVIOUS
  <2>1. c[i] \in Cell /\ b[i] \in Cell
    BY <1>1 DEF Ring
  <2> QED
    BY <1>1, <2>1 DEF Stops, SameBlocks, Cell
<1>6. \A i \in Indices : /\ z[i] = IF i \in QueueOf(t, h) /\ Distance(p, i) \in 1..n
                                    THEN MaxOf(s[i], c[i].entry) ELSE s[i]
                         /\ z[i] \in Nat /\ s[i] <= z[i]
  BY <1>5 DEF MaxOf
<1>7. z \in [Indices -> Nat]
  BY <1>6
<1> HIDE DEF z
<1>8. z[h] = 0 /\ z[t] = s[t]
  BY <1>3, <1>4, <1>6 DEF Stops
<1>9. ASSUME NEW i \in QueueOf(t, h) PROVE z[i] <= z[After(i)] + c[i].room
  <2>1. i \in Indices /\ After(i) \in Indices
    BY RingSteps DEF QueueOf
  <2>2. s[i] <= s[After(i)] + b[i].room
    BY DEF Stops
  <2>3. s[i] <= z[After(i)] + c[i].room
    BY <1>5, <1>6, <2>1, <2>2
  <2>4. CASE Distance(p, i) \in 1..n
    <3>1. z[i] = MaxOf(s[i], c[i].entry)
      BY <1>6, <2>1, <2>4
    <3>2. CASE c[i].entry <= b[i].entry
      <4>1. i # t
        BY <1>4, <2>4
      <4>2. b[i].entry <= s[i]
        BY <4>1 DEF Stops
      <4>3. z[i] = s[i]
        BY <1>5, <2>1, <3>1, <3>2, <4>2 DEF MaxOf
      <4> QED
        BY <2>3, <4>3
    <3>3. CASE c[i].entry <= NextSpeed(c, h, i) + c[i].room
      <4>1. NextSpeed(c, h, i) \in Nat /\ NextSpeed(c, h, i) <= z[After(i)]
        <5>1. CASE After(i) = h
          BY <1>6, <2>1, <5>1 DEF NextSpeed
        <5>2. CASE After(i) # h
          <6>1. Distance(p, After(i)) \in 1..n /\ After(i) \in QueueOf(t, h)
            <7>1. n \in Nat /\ Distance(p, i) # n /\ Place(p, Distance(p, i) + 1) = After(i)
              BY <2>4, <5>2, PassNeighbours, PlannerAssumption DEF n
            <7>2. Distance(p, i) + 1 \in 1..n
              BY <2>4, <7>1
            <7>3. Distance(p, i) + 1 \in 0..(BufferSize - 1)
              BY <7>2, PassNeighbours, PlannerAssumption DEF n
            <7>4. Distance(p, After(i)) = Distance(p, i) + 1
              BY <1>1, <7>1, <7>3, RingPlace
            <7> QED
              BY <1>1, <2>1, <7>2, <7>4, PassPlaces DEF n
          <6>2. z[After(i)] = MaxOf(s[After(i)], c[After(i)].entry)
            BY <1>6, <2>1, <6>1
          <6> QED
            BY <1>5, <2>1, <5>2, <6>2 DEF NextSpeed, MaxOf
        <5> QED
          BY <5>1, <5>2
      <4>2. c[i].entry <= z[After(i)] + c[i].room
        BY <1>5, <1>6, <2>1, <3>3, <4>1
      <4> QED
        BY <2>3, <3>1, <4>2 DEF MaxOf
    <3> QED
      BY <1>2, <2>4, <3>2, <3>3
  <2>5. CASE Distance(p, i) \notin 1..n
    <3>1. z[i] = s[i]
      BY <1>6, <2>1, <2>5
    <3> QED
      BY <2>3, <3>1
  <2> QED
    BY <2>4, <2>5
<1>10. ASSUME NEW i \in QueueOf(t, h) \ {t} PROVE c[i].entry <= z[i]
  <2>1. i \in Indices /\ b[i].entry <= s[i]
    BY DEF Stops, QueueOf
  <2>2. CASE Distance(p, i) \in 1..n
    <3>1. z[i] = MaxOf(s[i], c[i].entry)
      BY <1>6, <2>1, <2>2
    <3> QED
      BY <1>5, <2>1, <3>1 DEF MaxOf
  <2>3. CASE Distance(p, i) \notin 1..n
    <3>1. z[i] = s[i] /\ c[i].entry = b[i].entry
      BY <1>1, <1>6, <2>1, <2>3
    <3> QED
      BY <2>1, <3>1
  <2> QED
    BY <2>2, <2>3
<1>11. Stops(z, c, t, h)
  BY <1>7, <1>8, <1>9, <1>10 DEF Stops
<1> QED
  BY <1>6, <1>8, <1>11 DEF StillStops

\* What these say depends on the rooms and the speeds behind the tail only, and is kept when
\* the block at the tail is discarded.
LEMMA SamePlan ==
  ASSUME NEW b, NEW c, NEW t \in Indices, NEW h \in Indices, NEW u \in Indices,
         u = t \/ (t # h /\ u = After(t)),
         \A i \in QueueOf(u, h) \ {u} : c[i].room = b[i].room /\ c[i].entry = b[i].entry
  PROVE  /\ SpeedsUp(b, t, h) => SpeedsUp(c, u, h)
         /\ SlowsDown(b, t, h) => SlowsDown(c, u, h)
         /\ \A i \in QueueOf(u, h) : NextSpeed(c, h, i) = NextSpeed(b, h, i)
         /\ \A s : Stops(s, b, t, h) /\ (u # h => c[u].room = b[u].room) => Stops(s, c, u, h)
<1>1. QueueOf(u, h) \subseteq QueueOf(t, h) /\ (u # t => t \notin QueueOf(u, h))
  BY QueueShrunk
<1>2. QueueOf(u, h) \ {u} \subseteq QueueOf(t, h) \ {t}
  BY <1>1
<1>3. \A i \in QueueOf(u, h) : NextSpeed(c, h, i) = NextSpeed(b, h, i)
  <2> SUFFICES ASSUME NEW i \in QueueOf(u, h), After(i) # h
               PROVE  c[After(i)].entry = b[After(i)].entry
    BY DEF NextSpeed
  <2>1. i # Before(h)
    BY RingSteps
  <2>2. After(i) \in QueueOf(u, h) \ {u}
    BY <2>1, QueueNeighbours
  <2> QED
    BY <2>2
<1>4. SpeedsUp(b, t, h) => SpeedsUp(c, u, h)
  BY <1>2, <1>3 DEF SpeedsUp
<1>5. SlowsDown(b, t, h) => SlowsDown(c, u, h)
  BY <1>2, <1>3 DEF SlowsDown
<1>6. ASSUME NEW s, Stops(s, b, t, h), u # h => c[u].room = b[u].room
      PROVE  Stops(s, c, u, h)
  <2>1. u = h => QueueOf(u, h) = {}
    BY QueueEnds
  <2>2. \A i \in QueueOf(u, h) : c[i].room = b[i].room
    BY <1>6, <2>1
  <2> QED
    BY <1>1, <1>2, <1>6, <2>2 DEF Stops
<1> QED
  BY <1>3, <1>4, <1>5, <1>6

\* A block is appended that is to be entered at a stop.
LEMMA Appended ==
  ASSUME NEW b, NEW d, NEW t \in Indices, NEW h \in Indices, t # h, t # After(h),
         \A i \in QueueOf(t, h) : d[i].room = b[i].room,
         \A i \in QueueOf(t, h) \ {t} : d[i].entry = b[i].entry,
         d[h].entry = 0, d[h].room \in Nat
  PROVE  /\ \A i \in QueueOf(t, h) : NextSpeed(d, After(h), i) = NextSpeed(b, h, i)
         /\ SpeedsUp(b, t, h) => SpeedsUp(d, t, After(h))
         /\ SlowsDown(b, t, h) => SlowsDown(d, t, After(h))
         /\ \A s : Stops(s, b, t, h) => Stops([s EXCEPT ![After(h)] = 0], d, t, After(h))
<1>1. /\ QueueOf(t, After(h)) = QueueOf(t, h) \cup {h} /\ After(h) \in Indices /\ After(h) # h
      /\ h \notin QueueOf(t, h) /\ QueueOf(t, h) \subseteq Indices
  BY QueueGrown, QueueEnds, RingSteps
<1>2. After(h) \notin QueueOf(t, After(h))
  BY <1>1, QueueEnds
<1>3. \A i \in QueueOf(t, h) : /\ After(i) \in Indices /\ After(i) # After(h)
                               /\ After(i) # h => After(i) \in QueueOf(t, h) \ {t}
  <2> SUFFICES ASSUME NEW i \in QueueOf(t, h)
               PROVE  /\ After(i) \in Indices /\ After(i) # After(h)
                      /\ After(i) # h => After(i) \in QueueOf(t, h) \ {t}
    OBVIOUS
  <2>1. i \in Indices /\ i # h
    BY <1>1
  <2>2. After(i) \in Indices /\ Before(After(i)) = i /\ Before(After(h)) = h /\ After(Before(h)) = h
    BY <2>1, RingSteps
  <2> QED
    BY <2>1, <2>2, QueueNeighbours
<1>4. \A i \in QueueOf(t, h) : NextSpeed(d, After(h), i) = NextSpeed(b, h, i)
  BY <1>3 DEF NextSpeed
<1>5. NextSpeed(d, After(h), h) = 0
  BY DEF NextSpeed
<1>6. SpeedsUp(b, t, h) => SpeedsUp(d, t, After(h))
  BY <1>1, <1>4, <1>5 DEF SpeedsUp
<1>7. SlowsDown(b, t, h) => SlowsDown(d, t, After(h))
  BY <1>1, <1>4, <1>5 DEF SlowsDown
<1>8. ASSUME NEW s, Stops(s, b, t, h)
      PROVE  Stops([s EXCEPT ![After(h)] = 0], d, t, After(h))
  <2> DEFINE v == [s EXCEPT ![After(h)] = 0]
  <2>1. /\ v \in [Indices -> Nat] /\ v[After(h)] = 0
        /\ \A i \in Indices : i # After(h) => v[i] = s[i]
    BY <1>1, <1>8 DEF Stops
  <2> HIDE DEF v
  <2>2. v[h] = 0
    BY <1>1, <1>8, <2>1 DEF Stops
  <2>3. \A i \in QueueOf(t, h) : v[i] = s[i] /\ v[After(i)] = s[After(i)]
    BY <1>1, <1>2, <1>3, <2>1
  <2>4. \A i \in QueueOf(t, h) : v[i] <= v[After(i)] + d[i].room
    BY <1>8, <2>3 DEF Stops
  <2>5. \A i \in QueueOf(t, h) \ {t} : d[i].entry <= v[i]
    BY <1>8, <2>3 DEF Stops
  <2> QED
    BY <1>1, <2>1, <2>2, <2>4, <2>5 DEF Stops, v
<1> QED
  BY <1>4, <1>6, <1>7, <1>8

------------------------------------------------------------------------------
(* The inductive invariant.  It takes the one of PlannerProofs for granted. *)

\* The square of the speed the block at the tail may have under the overrides in force.
TopSpeed == Nominal(block[tail], feedOvr, rapidOvr) * Nominal(block[tail], feedOvr, rapidOvr)

TailSpeeds ==
  ~IsEmpty =>
    /\ control \notin {"hold", "holdEnd"} => ExitSpeed <= Speed(tail) + block[tail].room
    /\ ~slowed => Speed(tail) <= ExitSpeed + block[tail].room

\* A deceleration override begins so fast that the block can only be slowed down in, and is
\* over when a hold or the next block is loaded.
ProfileSpeeds ==
  /\ exec.loaded /\ control = "normal" =>
       /\ exec.top = TopSpeed
       /\ exec.declOvr => exec.exit + block[tail].room = exec.speed /\ exec.top <= exec.exit
  /\ exec.loaded /\ control = "hold" => ~exec.declOvr /\ (~slowed => exec.exit <= ExitSpeed)
  /\ exec.declOvr => control \in {"normal", "hold"}
  /\ exec.declOvr /\ ~exec.loaded /\ ~exec.recalc => exec.exit > 0

\* Between two blocks the stepper has the speed at which the last one ended: the planned one,
\* a higher one after a deceleration override, a lower one in a hold.
BetweenBlocks ==
  ~exec.loaded /\ ~exec.recalc /\ ~IsEmpty /\ control \in {"normal", "hold", "held"} =>
    /\ control = "normal" /\ exec.declOvr => block[tail].entry <= exec.exit
    /\ ~slowed => exec.exit <= block[tail].entry

\* The machine can stop from the speed it has, and from the one at which its block will end.
SpeedStops(s) ==
  /\ ~IsEmpty => Speed(tail) <= s[tail]
  /\ exec.loaded /\ control \notin Parking => exec.exit <= s[After(tail)]
  /\ ~exec.loaded /\ ~exec.recalc /\ control \notin Parking => exec.exit <= s[tail]

CanStop == \E s : Stops(s, block, tail, head) /\ SpeedStops(s)

SpeedInv ==
  /\ SpeedsUp(block, tail, head)
  /\ ~slowed => SlowsDown(block, tail, head)
  /\ TailSpeeds /\ ProfileSpeeds /\ BetweenBlocks
  /\ CanStop

LEMMA StateTypes ==
  ASSUME PlannerInv
  PROVE  /\ block \in Ring /\ exec \in Execution /\ tail \in Indices /\ head \in Indices
         /\ PlBlock \in Indices /\ control \in Controls /\ slowed \in BOOLEAN
         /\ feedOvr \in Nat /\ rapidOvr \in Nat
         /\ exec.speed \in Nat /\ exec.exit \in Nat /\ exec.top \in Nat
         /\ exec.loaded \in BOOLEAN /\ exec.recalc \in BOOLEAN /\ exec.declOvr \in BOOLEAN
         /\ After(tail) \in Indices
         /\ \A i \in Indices : block[i].entry \in Nat /\ block[i].room \in Nat
<1>1. Types
  BY DEF PlannerInv
<1>2. /\ block \in Ring /\ exec \in Execution /\ tail \in Indices /\ head \in Indices
      /\ PlBlock \in Indices /\ control \in Controls /\ slowed \in BOOLEAN
      /\ feedOvr \in Nat /\ rapidOvr \in Nat
  BY <1>1, PlBlockIn, PlannerAssumption DEF Types, TypeOK
<1>3. \A i \in Indices : block[i] \in Cell
  BY <1>2 DEF Ring
<1> QED
  BY <1>2, <1>3, RingSteps DEF Cell, Execution

LEMMA StateTypesAfter ==
  ASSUME PlannerInv'
  PROVE  /\ block' \in Ring /\ exec' \in Execution /\ tail' \in Indices /\ head' \in Indices
         /\ \A i \in Indices : block'[i].entry \in Nat /\ block'[i].room \in Nat
<1>1. Types'
  BY DEF PlannerInv
<1>2. block' \in Ring /\ exec' \in Execution /\ tail' \in Indices /\ head' \in Indices
  BY <1>1 DEF Types, TypeOK
<1>3. \A i \in Indices : block'[i] \in Cell
  BY <1>2 DEF Ring
<1> QED
  BY <1>2, <1>3 DEF Cell

\* A block is never to end faster than it may go itself.
LEMMA ExitBelowTop ==
  ASSUME PlannerInv, tail # head
  PROVE  /\ ExitSpeed \in Nat /\ TopSpeed \in Nat /\ TopSpeed > 0 /\ ExitSpeed <= TopSpeed
         /\ ExitSpeed = NextSpeed(block, head, tail)
<1>1. /\ block \in Ring /\ tail \in Indices /\ head \in Indices /\ After(tail) \in Indices
      /\ feedOvr \in Nat /\ rapidOvr \in Nat
  BY StateTypes
<1>2. block[tail] \in Cell /\ block[After(tail)] \in Cell
  BY <1>1 DEF Ring
<1>3. /\ block[tail].kind \in Kinds /\ block[tail].rate \in Nat
      /\ block[After(tail)].kind \in Kinds /\ block[After(tail)].rate \in Nat
      /\ block[After(tail)].corner \in Nat /\ block[After(tail)].entry \in Nat
  BY <1>2 DEF Cell
<1> DEFINE v == Nominal(block[tail], feedOvr, rapidOvr)
           w == Nominal(block[After(tail)], feedOvr, rapidOvr)
<1>4. v \in Nat \ {0} /\ w \in Nat \ {0}
  BY <1>1, <1>3, NominalNat
<1> HIDE DEF v, w
<1>5. v * v \in Nat /\ w * w \in Nat /\ v * v > 0
  BY <1>4, SquareNat, SquareGrows
<1>6. TopSpeed = v * v
  BY DEF TopSpeed, v
<1>7. ExitSpeed = NextSpeed(block, head, tail) /\ ExitSpeed \in Nat
  BY <1>3 DEF ExitSpeed, NextSpeed
<1>8. CASE After(tail) = head
  BY <1>5, <1>6, <1>7, <1>8 DEF ExitSpeed
<1>9. CASE After(tail) # head
  <2>1. tail \in QueueOf(tail, head) /\ tail # Before(head)
    BY <1>1, <1>9, QueueEnds, RingSteps
  <2>2. After(tail) \in QueueOf(tail, head) \ {tail} /\ Before(After(tail)) = tail
    BY <1>1, <2>1, QueueNeighbours, RingSteps
  <2>3. block[After(tail)].entry <= MaxEntry(block[After(tail)], w, v)
    BY <2>2 DEF PlannerInv, Limits, LimitsOf, v, w
  <2>4. MaxEntry(block[After(tail)], w, v) \in Nat
        /\ MaxEntry(block[After(tail)], w, v) <= MinOf(w * w, v * v)
    BY <1>3, <1>4, MaxEntryIs
  <2>5. ExitSpeed <= v * v
    BY <1>3, <1>5, <1>9, <2>3, <2>4 DEF ExitSpeed, MinOf
  <2> QED
    BY <1>5, <1>6, <1>7, <2>5
<1> QED
  BY <1>8, <1>9

\* Stopping within the queue, with s for witness.
LEMMA StopsFrom ==
  ASSUME PlannerInv, NEW s, Stops(s, block, tail, head)
  PROVE  /\ s \in [Indices -> Nat]
         /\ tail # head => /\ ExitSpeed <= s[After(tail)]
                           /\ s[tail] <= s[After(tail)] + block[tail].room
<1>1. tail \in Indices /\ head \in Indices /\ After(tail) \in Indices
  BY StateTypes
<1>2. s \in [Indices -> Nat]
  BY DEF Stops
<1>3. ASSUME tail # head
      PROVE  ExitSpeed <= s[After(tail)] /\ s[tail] <= s[After(tail)] + block[tail].room
  <2>1. tail \in QueueOf(tail, head)
    BY <1>1, <1>3, QueueEnds
  <2>2. CASE After(tail) = head
    BY <1>1, <1>2, <2>1, <2>2 DEF Stops, ExitSpeed
  <2>3. CASE After(tail) # head
    <3>1. After(tail) \in QueueOf(tail, head) \ {tail}
      BY <1>1, <2>1, <2>3, QueueNeighbours, RingSteps
    <3> QED
      BY <2>1, <2>3, <3>1 DEF Stops, ExitSpeed
  <2> QED
    BY <2>2, <2>3
<1> QED
  BY <1>2, <1>3

------------------------------------------------------------------------------
(* The steps *)

\* A step that changes nothing of the queue but where the speed at its tail is kept.
LEMMA QuietKeeps ==
  ASSUME PlannerInv, SpeedInv, tail' = tail, head' = head, slowed' = slowed,
         \A i \in QueueOf(tail, head) : block'[i].room = block[i].room,
         \A i \in QueueOf(tail, head) \ {tail} : block'[i].entry = block[i].entry,
         tail # head => Speed(tail)' = Speed(tail),
         control' \notin {"hold", "holdEnd"} => control \notin {"hold", "holdEnd"}
  PROVE  /\ SpeedsUp(block', tail, head) /\ (~slowed => SlowsDown(block', tail, head))
         /\ TailSpeeds'
         /\ \A s : Stops(s, block, tail, head) => Stops(s, block', tail, head)
<1>1. tail \in Indices /\ head \in Indices
  BY StateTypes
<1>2. tail # head => tail \in QueueOf(tail, head)
  BY <1>1, QueueEnds
<1> DEFINE c == block'
<1>3. /\ \A i \in QueueOf(tail, head) : c[i].room = block[i].room
      /\ \A i \in QueueOf(tail, head) \ {tail} : c[i].room = block[i].room /\ c[i].entry = block[i].entry
  OBVIOUS
<1> HIDE DEF c
<1>4. tail # head => c[tail].room = block[tail].room
  BY <1>2, <1>3
<1>5. /\ SpeedsUp(block, tail, head) => SpeedsUp(c, tail, head)
      /\ SlowsDown(block, tail, head) => SlowsDown(c, tail, head)
      /\ \A i \in QueueOf(tail, head) : NextSpeed(c, head, i) = NextSpeed(block, head, i)
      /\ \A s : Stops(s, block, tail, head) /\ (tail # head => c[tail].room = block[tail].room)
              => Stops(s, c, tail, head)
  BY <1>1, <1>3, SamePlan
<1>6. TailSpeeds'
  <2> SUFFICES ASSUME tail # head
               PROVE  /\ control' \notin {"hold", "holdEnd"} =>
                           ExitSpeed' <= Speed(tail) + block[tail].room
                      /\ ~slowed => Speed(tail) <= ExitSpeed' + block[tail].room
    BY <1>4 DEF TailSpeeds, IsEmpty, c
  <2>1. ExitSpeed' = NextSpeed(c, head, tail) /\ ExitSpeed = NextSpeed(block, head, tail)
    BY DEF ExitSpeed, NextSpeed, c
  <2>2. ExitSpeed' = ExitSpeed
    BY <1>2, <1>5, <2>1
  <2> QED
    BY <2>2 DEF SpeedInv, TailSpeeds, IsEmpty
<1> QED
  BY <1>4, <1>5, <1>6 DEF SpeedInv, c

\* The entry speed of the tail is the speed there once nothing is loaded, or the stepper is
\* busy with a parking motion.
LEMMA SpeedAtTail ==
  ASSUME PlannerInv, tail # head
  PROVE  /\ ~exec.loaded \/ control \in Parking => Speed(tail) = block[tail].entry
         /\ exec.loaded /\ control \notin Parking => Speed(tail) = exec.speed
<1>1. Types
  BY DEF PlannerInv
<1>2. (control \in Parking => PlBlock = head) /\ (control \notin Parking => PlBlock = tail)
  BY <1>1, PlBlockIn
<1> QED
  BY <1>2 DEF Speed

\* HoldIdle, Resume and Park: nothing is loaded before or after.
LEMMA IdleSpeeds ==
  ASSUME PlannerInv, PlannerInv', SpeedInv, HoldIdle \/ Resume \/ Park
  PROVE  SpeedInv'
<1>1. /\ tail \in Indices /\ head \in Indices /\ block \in Ring /\ exec \in Execution
      /\ exec.exit \in Nat
  BY StateTypes
<1>2. head \notin QueueOf(tail, head) /\ QueueOf(tail, head) \subseteq Indices
      /\ (tail # head => tail \in QueueOf(tail, head))
  BY <1>1, QueueEnds
<1>3. /\ tail' = tail /\ head' = head /\ slowed' = slowed
      /\ exec'.loaded = FALSE /\ ~exec.loaded /\ exec'.exit = exec.exit /\ exec'.declOvr = exec.declOvr
      /\ (exec.recalc => exec'.recalc \/ control' = "park")
      /\ control' \in {"normal", "held", "park"} /\ control \in {"normal", "held"}
      /\ (control' = "normal" => control = "held")
      /\ (control = "normal" => ~exec.recalc /\ exec.speed = 0)
  BY <1>1 DEF HoldIdle, Resume, Park, planVars, history, AtRest, PlannerInv, AtStop, Execution
<1>4. \A i \in QueueOf(tail, head) : block'[i] = block[i]
  BY <1>1, <1>2 DEF HoldIdle, Resume, Park, planVars, Ring
<1>5. tail # head => Speed(tail)' = Speed(tail)
  <2> SUFFICES ASSUME tail # head PROVE Speed(tail)' = Speed(tail)
    OBVIOUS
  <2>1. Speed(tail) = block[tail].entry
    BY <1>3, SpeedAtTail
  <2>2. Speed(tail)' = block'[tail].entry
    BY <1>3 DEF Speed
  <2> QED
    BY <1>2, <1>4, <2>1, <2>2
<1>6. /\ SpeedsUp(block', tail, head) /\ (~slowed => SlowsDown(block', tail, head))
      /\ TailSpeeds'
      /\ \A s : Stops(s, block, tail, head) => Stops(s, block', tail, head)
  BY <1>3, <1>4, <1>5, QuietKeeps
<1>7. exec.exit = 0
  BY <1>3 DEF PlannerInv, AtStop, ProfileFits
<1>8. ~exec.declOvr
  BY <1>1, <1>3, <1>7 DEF SpeedInv, ProfileSpeeds
<1>9. ProfileSpeeds'
  BY <1>3, <1>8 DEF ProfileSpeeds
<1>10. BetweenBlocks'
  BY <1>2, <1>3, <1>4, <1>7, <1>8, StateTypes DEF BetweenBlocks, IsEmpty
<1>11. CanStop'
  <2>1. PICK s : Stops(s, block, tail, head) /\ SpeedStops(s)
    BY DEF SpeedInv, CanStop
  <2>2. s[tail] \in Nat
    BY <1>1, <2>1 DEF Stops
  <2>3. Stops(s, block', tail, head)
    BY <1>6, <2>1
  <2>4. SpeedStops(s)'
    BY <1>3, <1>5, <1>7, <2>1, <2>2 DEF SpeedStops, IsEmpty
  <2> QED
    BY <1>3, <2>3, <2>4 DEF CanStop
<1> QED
  BY <1>3, <1>6, <1>9, <1>10, <1>11 DEF SpeedInv

\* A hold: what was loaded is to be computed again, at the speed it has reached.
LEMMA HoldSpeeds ==
  ASSUME PlannerInv, PlannerInv', SpeedInv, Hold \/ ParkReopened
  PROVE  SpeedInv'
<1>1. /\ tail \in Indices /\ head \in Indices /\ block \in Ring /\ exec \in Execution
      /\ PlBlock \in Indices
  BY StateTypes
<1>2. head \notin QueueOf(tail, head) /\ QueueOf(tail, head) \subseteq Indices
      /\ (tail # head => tail \in QueueOf(tail, head))
  BY <1>1, QueueEnds
<1> DEFINE st == StUpdate(block, exec)
<1>3. /\ tail' = tail /\ head' = head /\ slowed' = slowed /\ block' = st.block /\ exec' = st.exec
      /\ \/ control = "normal" /\ control' = "hold" /\ PlBlock = tail
         \/ control = "park" /\ control' = "parkHold" /\ PlBlock = head
  BY DEF Hold, ParkReopened, history, PlBlock
<1>4. /\ SameBlocks(block, st.block)
      /\ \A i \in Indices : st.block[i].entry = IF i = PlBlock /\ exec.loaded THEN exec.speed
                                                ELSE block[i].entry
      /\ st.exec = [exec EXCEPT !.loaded = FALSE, !.recalc = exec.loaded \/ exec.recalc]
  BY <1>1, StUpdateIs
<1> HIDE DEF st
<1>5. /\ exec'.loaded = FALSE /\ exec'.recalc = (exec.loaded \/ exec.recalc)
      /\ exec'.exit = exec.exit /\ exec'.declOvr = exec.declOvr
  BY <1>1, <1>3, <1>4 DEF Execution
<1>6. \A i \in QueueOf(tail, head) : block'[i].room = block[i].room
  BY <1>2, <1>3, <1>4 DEF SameBlocks
<1>7. \A i \in QueueOf(tail, head) \ {tail} : block'[i].entry = block[i].entry
  BY <1>2, <1>3, <1>4
<1>8. tail # head => Speed(tail)' = Speed(tail)
  <2> SUFFICES ASSUME tail # head PROVE Speed(tail)' = Speed(tail)
    OBVIOUS
  <2>1. Speed(tail)' = block'[tail].entry
    BY <1>3, <1>5 DEF Speed
  <2> QED
    BY <1>1, <1>3, <1>4, <2>1 DEF Speed
<1>9. /\ SpeedsUp(block', tail, head) /\ (~slowed => SlowsDown(block', tail, head))
      /\ TailSpeeds'
      /\ \A s : Stops(s, block, tail, head) => Stops(s, block', tail, head)
  BY <1>3, <1>6, <1>7, <1>8, QuietKeeps
<1>10. ProfileSpeeds'
  BY <1>3, <1>5 DEF SpeedInv, ProfileSpeeds
<1>11. BetweenBlocks'
  BY <1>1, <1>3, <1>4, <1>5 DEF SpeedInv, BetweenBlocks, IsEmpty
<1>12. CanStop'
  <2>1. PICK s : Stops(s, block, tail, head) /\ SpeedStops(s)
    BY DEF SpeedInv, CanStop
  <2>2. Stops(s, block', tail, head)
    BY <1>9, <2>1
  <2>3. SpeedStops(s)'
    BY <1>3, <1>5, <1>8, <2>1 DEF SpeedStops, IsEmpty, Parking
  <2> QED
    BY <1>3, <2>2, <2>3 DEF CanStop
<1> QED
  BY <1>3, <1>9, <1>10, <1>11, <1>12 DEF SpeedInv

\* What a step that plans the whole queue again makes of the speeds.
Replans ==
  /\ SpeedsUp(block', tail, head) /\ (~slowed' => SlowsDown(block', tail, head))
  /\ TailSpeeds'
  /\ tail # head => block'[tail].entry = Speed(tail)
  /\ \E z : /\ Stops(z, block', tail, head) /\ (tail # head => Speed(tail)' <= z[tail])
            /\ ~exec.loaded /\ ~exec.recalc /\ control \notin Parking => exec.exit <= z[tail]

\* plan_cycle_reinitialize() with blocks b that have other limits at most makes the plan again
\* from the tail, and from the speed the machine has.
LEMMA ReinitializedPlan ==
  ASSUME PlannerInv, tail # head, NEW b \in Ring, NEW r, Reinitialized(b, exec, r),
         \A i \in Indices : b[i].room = block[i].room /\ b[i].entry = block[i].entry,
         NEW d, d = StUpdate(b, exec).block
  PROVE  /\ Replanned(d, r.block, head, tail)
         /\ \A i \in QueueOf(tail, head) : d[i].room = block[i].room /\ d[i].max = b[i].max
         /\ \A i \in QueueOf(tail, head) \ {tail} : d[i].entry = block[i].entry
         /\ d[tail].entry = Speed(tail) /\ r.block[tail].entry = Speed(tail)
         /\ Distance(tail, Before(head)) = Distance(tail, head) - 1
<1> DEFINE c == r.block
<1>1. /\ tail \in Indices /\ head \in Indices /\ block \in Ring /\ exec \in Execution
      /\ PlBlock \in Indices
  BY StateTypes
<1>2. QueueOf(tail, head) \subseteq Indices /\ tail \in QueueOf(tail, head)
  BY <1>1, QueueEnds
<1>3. d \in Ring /\ SameBlocks(b, d)
      /\ \A i \in Indices : d[i].entry = IF i = PlBlock /\ exec.loaded THEN exec.speed
                                          ELSE b[i].entry
  BY <1>1, StUpdateIs
<1>4. /\ c \in Ring /\ SameBlocks(b, c)
      /\ \A i \in Indices : i \notin QueueOf(tail, head) \ {tail} =>
           c[i].entry = IF i = PlBlock /\ exec.loaded THEN exec.speed ELSE b[i].entry
      /\ \E rev : Passes(d, c, tail, Distance(tail, head) - 1, rev)
  BY DEF Reinitialized
<1> HIDE DEF c
<1>5. Distance(tail, Before(head)) = Distance(tail, head) - 1
      /\ \A i \in Indices : Distance(tail, i) \notin 1..Distance(tail, Before(head))
                            => i \notin QueueOf(tail, head) \ {tail}
  <2>1. Distance(tail, Before(head)) = Distance(tail, head) - 1
    BY <1>1, QueueEnds
  <2>2. Distance(tail, tail) = 0 /\ \A i \in Indices : Distance(tail, i) \in 0..(BufferSize - 1)
                                                       /\ (Distance(tail, i) = 0 <=> tail = i)
    BY <1>1, RingDistance
  <2>3. \A i \in Indices : i \in QueueOf(tail, head) /\ Distance(tail, i) > 0
          => Distance(tail, i) \in 1..Distance(tail, Before(head))
    BY <1>1, <1>2, <2>2, PassPlaces
  <2> QED
    BY <2>1, <2>2, <2>3
<1>6. Replanned(d, c, head, tail)
  BY <1>3, <1>4, <1>5 DEF Replanned, SameBlocks
\* d differs from the blocks before only at the one that is executed.
<1>7. \A i \in QueueOf(tail, head) \ {tail} : i # PlBlock
  <2>1. head \notin QueueOf(tail, head)
    BY <1>1, QueueEnds
  <2> QED
    BY <1>1, <2>1, PlBlockIn DEF PlannerInv
<1>8. d[tail].entry = Speed(tail) /\ c[tail].entry = Speed(tail)
  BY <1>1, <1>3, <1>4 DEF Speed
<1> QED
  BY <1>2, <1>3, <1>5, <1>6, <1>7, <1>8 DEF SameBlocks, c

\* That is a plan the machine can follow.
LEMMA ReinitializedSpeeds ==
  ASSUME PlannerInv, PlannerInv', SpeedInv, tail' = tail, head' = head,
         NEW b \in Ring, NEW r, Reinitialized(b, exec, r),
         \A i \in Indices : b[i].room = block[i].room /\ b[i].entry = block[i].entry,
         \A i \in QueueOf(tail, head) : block'[i] = r.block[i],
         ~exec'.loaded,
         ~slowed' => ~slowed /\ \A j \in QueueOf(tail, head) \ {tail} : b[j].entry <= b[j].max
  PROVE  Replans
<1>1. /\ tail \in Indices /\ head \in Indices /\ block \in Ring /\ exec \in Execution
      /\ PlBlock \in Indices /\ exec.exit \in Nat
  BY StateTypes
<1>2. head \notin QueueOf(tail, head) /\ QueueOf(tail, head) \subseteq Indices
      /\ (tail # head => tail \in QueueOf(tail, head)) /\ (tail = head => QueueOf(tail, head) = {})
  BY <1>1, QueueEnds
<1>3. CASE tail = head
  <2>1. SpeedsUp(block', tail, head) /\ SlowsDown(block', tail, head)
    BY <1>2, <1>3 DEF SpeedsUp, SlowsDown
  <2>2. TailSpeeds'
    BY <1>3 DEF TailSpeeds, IsEmpty
  <2> DEFINE z == [i \in Indices |-> 0]
  <2>3. Stops(z, block', tail, head)
    BY <1>1, <1>2, <1>3 DEF Stops
  <2>4. ~exec.loaded /\ ~exec.recalc /\ control \notin Parking => exec.exit <= z[tail]
    <3>1. PICK s : Stops(s, block, tail, head) /\ SpeedStops(s)
      BY DEF SpeedInv, CanStop
    <3> QED
      BY <1>1, <1>3, <3>1 DEF SpeedStops, Stops
  <2> HIDE DEF z
  <2> QED
    BY <1>3, <2>1, <2>2, <2>3, <2>4 DEF Replans
<1>4. CASE tail # head
  <2> DEFINE d == StUpdate(b, exec).block
             c == r.block
  <2> HIDE DEF d, c
  <2>1. /\ Replanned(d, c, head, tail)
        /\ \A i \in QueueOf(tail, head) : d[i].room = block[i].room /\ d[i].max = b[i].max
        /\ \A i \in QueueOf(tail, head) \ {tail} : d[i].entry = block[i].entry
        /\ d[tail].entry = Speed(tail) /\ c[tail].entry = Speed(tail)
    BY <1>4, ReinitializedPlan DEF d, c
  <2>2. tail \in QueueOf(tail, head)
    BY <1>2, <1>4
  <2>3. /\ SpeedsUp(c, tail, head)
        /\ NextSpeed(c, head, tail) <= c[tail].entry + c[tail].room
    BY <1>1, <2>1, <2>2, ReplanSpeedsUp
  <2>4. ASSUME ~slowed' PROVE SlowsDown(c, tail, head) /\ c[tail].entry <= NextSpeed(c, head, tail) + c[tail].room
    <3>1. SlowsDown(block, tail, head) /\ Speed(tail) <= ExitSpeed + block[tail].room
      BY <1>4, <2>4 DEF SpeedInv, TailSpeeds, IsEmpty
    <3>2. /\ SlowsDown(d, tail, head)
          /\ \A i \in QueueOf(tail, head) : NextSpeed(d, head, i) = NextSpeed(block, head, i)
      BY <1>1, <2>1, <3>1, SamePlan
    <3>3. ExitSpeed = NextSpeed(block, head, tail)
      BY <1>4, ExitBelowTop
    <3>4. d[tail].entry <= NextSpeed(d, head, tail) + d[tail].room
      BY <2>2, <2>1, <3>1, <3>2, <3>3
    <3>5. \A j \in QueueOf(tail, head) \ {tail} : d[j].entry <= d[j].max
      <4>1. \A j \in QueueOf(tail, head) \ {tail} : b[j].entry <= b[j].max /\ j \in Indices
        BY <1>2, <2>4
      <4>2. \A j \in QueueOf(tail, head) \ {tail} : d[j].max = b[j].max /\ d[j].entry = b[j].entry
        BY <1>2, <2>1
      <4> QED
        BY <4>1, <4>2
    <3> QED
      BY <1>1, <2>1, <2>2, <3>2, <3>4, <3>5, ReplanSlowsDown
  <2> DEFINE e == block'
  <2>5. \A i \in QueueOf(tail, head) : e[i] = c[i]
    BY DEF c
  <2> HIDE DEF e
  <2>6. /\ SpeedsUp(c, tail, head) => SpeedsUp(e, tail, head)
        /\ SlowsDown(c, tail, head) => SlowsDown(e, tail, head)
        /\ \A i \in QueueOf(tail, head) : NextSpeed(e, head, i) = NextSpeed(c, head, i)
        /\ \A s : Stops(s, c, tail, head) /\ (tail # head => e[tail].room = c[tail].room)
                => Stops(s, e, tail, head)
    BY <1>1, <2>5, SamePlan
  <2>7. Speed(tail)' = Speed(tail) /\ e[tail].entry = Speed(tail)
    BY <2>2, <2>1, <2>5 DEF Speed, e
  <2>8. TailSpeeds'
    <3>1. ExitSpeed' = NextSpeed(e, head, tail)
      BY DEF ExitSpeed, NextSpeed, e
    <3>2. NextSpeed(e, head, tail) = NextSpeed(c, head, tail) /\ e[tail] = c[tail]
      BY <2>2, <2>5, <2>6
    <3> QED
      BY <2>3, <2>1, <2>4, <2>7, <3>1, <3>2 DEF TailSpeeds, e
  <2>9. PICK s : Stops(s, block, tail, head) /\ SpeedStops(s)
    BY DEF SpeedInv, CanStop
  <2>10. Stops(s, d, tail, head)
    <3>1. \A v : Stops(v, block, tail, head) /\ (tail # head => d[tail].room = block[tail].room)
               => Stops(v, d, tail, head)
      BY <1>1, <2>1, SamePlan
    <3> QED
      BY <2>1, <2>2, <2>9, <3>1
  <2>11. PICK z : Stops(z, c, tail, head) /\ z[tail] = s[tail]
    <3>1. StillStops(s, c, tail, head)
      BY <1>1, <2>1, <2>2, <2>10, ReplanStops
    <3> QED
      BY <3>1 DEF StillStops
  <2>12. Stops(z, e, tail, head)
    BY <2>2, <2>5, <2>6, <2>11
  <2>13. Speed(tail)' <= z[tail]
    BY <1>4, <2>7, <2>9, <2>11 DEF SpeedStops, IsEmpty
  <2>14. ~exec.loaded /\ ~exec.recalc /\ control \notin Parking => exec.exit <= z[tail]
    BY <2>9, <2>11 DEF SpeedStops
  <2>15. SpeedsUp(e, tail, head) /\ (~slowed' => SlowsDown(e, tail, head))
    BY <2>3, <2>4, <2>6
  <2> QED
    BY <2>7, <2>8, <2>12, <2>13, <2>14, <2>15 DEF e, Replans
<1> QED
  BY <1>3, <1>4

\* The cycle stop after a hold.
LEMMA HoldCompleteSpeeds ==
  ASSUME PlannerInv, PlannerInv', SpeedInv, HoldComplete
  PROVE  SpeedInv'
<1>1. /\ tail \in Indices /\ head \in Indices /\ block \in Ring /\ exec \in Execution
      /\ PlBlock \in Indices /\ exec.exit \in Nat
  BY StateTypes
<1>2. PICK r \in Reinitialize(block, exec) :
        block' = r.block /\ planned' = r.planned /\ exec' = r.exec
  BY DEF HoldComplete
<1>3. /\ tail' = tail /\ head' = head /\ slowed' = slowed /\ control' = "held"
      /\ control \in {"hold", "holdEnd"} /\ (control = "hold" => AtRest)
  BY DEF HoldComplete, history
<1>4. Reinitialized(block, exec, r)
  BY <1>1, <1>2, ReinitializeIs
<1>5. /\ exec'.loaded = FALSE /\ exec'.recalc = (exec.loaded \/ exec.recalc)
      /\ exec'.exit = exec.exit /\ exec'.declOvr = exec.declOvr
  BY <1>1, <1>2, <1>4 DEF Reinitialized, Execution
<1>6. \A j \in QueueOf(tail, head) \ {tail} : block[j].entry <= block[j].max
  BY DEF PlannerInv, Limits, LimitsOf
<1> DEFINE b == block
<1>7. /\ b \in Ring /\ Reinitialized(b, exec, r)
      /\ \A i \in Indices : b[i].room = block[i].room /\ b[i].entry = block[i].entry
      /\ \A i \in QueueOf(tail, head) : block'[i] = r.block[i]
      /\ ~exec'.loaded
      /\ ~slowed' => ~slowed /\ \A j \in QueueOf(tail, head) \ {tail} : b[j].entry <= b[j].max
  BY <1>1, <1>2, <1>3, <1>4, <1>5, <1>6
<1>8. Replans
  BY <1>3, <1>7, ReinitializedSpeeds
<1>9. exec'.exit = 0 /\ ~exec'.declOvr
  <2>1. exec.exit = 0
    BY <1>3 DEF PlannerInv, AtStop, AtRest, ProfileFits
  <2>2. ~exec.declOvr
    BY <1>3, <2>1 DEF SpeedInv, ProfileSpeeds, AtRest
  <2> QED
    BY <1>5, <2>1, <2>2
<1>10. ProfileSpeeds'
  BY <1>3, <1>5, <1>9 DEF ProfileSpeeds
<1>11. BetweenBlocks'
  <2>1. \A i \in Indices : block'[i].entry \in Nat
    BY StateTypesAfter
  <2> QED
    BY <1>1, <1>3, <1>9, <2>1 DEF BetweenBlocks
<1>12. CanStop'
  <2>1. PICK z : Stops(z, block', tail, head) /\ (tail # head => Speed(tail)' <= z[tail])
    BY <1>8 DEF Replans
  <2>2. z[tail] \in Nat
    BY <1>1, <2>1 DEF Stops
  <2>3. SpeedStops(z)'
    BY <1>3, <1>5, <1>9, <2>1, <2>2 DEF SpeedStops, IsEmpty
  <2> QED
    BY <1>3, <2>1, <2>3 DEF CanStop
<1> QED
  BY <1>3, <1>8, <1>10, <1>11, <1>12 DEF SpeedInv, Replans

\* The cycle stop after a parking motion.
LEMMA ParkedSpeeds ==
  ASSUME PlannerInv, PlannerInv', SpeedInv, Parked
  PROVE  SpeedInv'
<1>1. /\ tail \in Indices /\ head \in Indices /\ block \in Ring /\ exec \in Execution
      /\ PlBlock \in Indices /\ exec.exit \in Nat
  BY StateTypes
<1>2. PICK r \in Reinitialize(block, exec) :
        block' = [r.block EXCEPT ![head] = NoBlock] /\ exec' = Restored(r.exec)
  BY DEF Parked
<1>3. /\ tail' = tail /\ head' = head /\ slowed' = slowed /\ control' = "held"
      /\ control = "parkEnd"
  BY DEF Parked, history
<1>4. Reinitialized(block, exec, r)
  BY <1>1, <1>2, ReinitializeIs
<1>5. ~exec'.loaded /\ exec'.exit = 0 /\ ~exec'.declOvr
  BY <1>1, <1>2, <1>3, <1>4 DEF Reinitialized, Restored, Execution, PlannerInv, AtStop
<1>6. \A j \in QueueOf(tail, head) \ {tail} : block[j].entry <= block[j].max
  BY DEF PlannerInv, Limits, LimitsOf
<1>7. \A i \in QueueOf(tail, head) : block'[i] = r.block[i]
  BY <1>1, <1>2, <1>4, QueueEnds DEF Reinitialized, Ring
<1> DEFINE b == block
<1>8. /\ b \in Ring /\ Reinitialized(b, exec, r)
      /\ \A i \in Indices : b[i].room = block[i].room /\ b[i].entry = block[i].entry
      /\ \A i \in QueueOf(tail, head) : block'[i] = r.block[i]
      /\ ~exec'.loaded
      /\ ~slowed' => ~slowed /\ \A j \in QueueOf(tail, head) \ {tail} : b[j].entry <= b[j].max
  BY <1>1, <1>3, <1>4, <1>5, <1>6, <1>7
<1>9. Replans
  BY <1>3, <1>8, ReinitializedSpeeds
<1>10. ProfileSpeeds'
  BY <1>3, <1>5 DEF ProfileSpeeds
<1>11. BetweenBlocks'
  <2>1. \A i \in Indices : block'[i].entry \in Nat
    BY StateTypesAfter
  <2> QED
    BY <1>1, <1>3, <1>5, <2>1 DEF BetweenBlocks
<1>12. CanStop'
  <2>1. PICK z : Stops(z, block', tail, head) /\ (tail # head => Speed(tail)' <= z[tail])
    BY <1>9 DEF Replans
  <2>2. z[tail] \in Nat
    BY <1>1, <2>1 DEF Stops
  <2>3. SpeedStops(z)'
    BY <1>3, <1>5, <2>1, <2>2 DEF SpeedStops, IsEmpty
  <2> QED
    BY <1>3, <2>1, <2>3 DEF CanStop
<1> QED
  BY <1>3, <1>9, <1>10, <1>11, <1>12 DEF SpeedInv, Replans

\* An override.  Where it lowers the limit of no junction, the plan it makes is not slower.
LEMMA OverrideSpeeds ==
  ASSUME PlannerInv, PlannerInv', SpeedInv, NEW feed \in FeedMin..FeedMax,
         NEW rapid \in RapidOverrides, Override(feed, rapid)
  PROVE  SpeedInv'
<1> PICK b, r : Overridden(b, r, feed, rapid)
  BY OverrideIs
<1>1. /\ b \in Ring /\ Reinitialized(b, exec, r)
      /\ block' = r.block /\ exec' = r.exec
      /\ tail' = tail /\ head' = head /\ control' = control
      /\ \A i \in Indices : b[i].room = block[i].room /\ b[i].entry = block[i].entry
      /\ slowed' = (slowed \/ \E i \in QueueOf(tail, head) \ {tail} : b[i].max < block[i].max)
  BY DEF Overridden
<1>2. /\ tail \in Indices /\ head \in Indices /\ block \in Ring /\ exec \in Execution
      /\ PlBlock \in Indices /\ exec.exit \in Nat /\ exec.recalc \in BOOLEAN
  BY StateTypes
<1>3. /\ exec'.loaded = FALSE /\ exec'.recalc = (exec.loaded \/ exec.recalc)
      /\ exec'.exit = exec.exit /\ exec'.declOvr = exec.declOvr
  BY <1>1, <1>2 DEF Reinitialized, Execution
<1>4. ASSUME ~slowed'
      PROVE  ~slowed /\ \A j \in QueueOf(tail, head) \ {tail} : b[j].entry <= b[j].max
  <2>1. ~slowed /\ \A i \in QueueOf(tail, head) \ {tail} : ~(b[i].max < block[i].max)
    BY <1>1, <1>4
  <2> SUFFICES ASSUME NEW j \in QueueOf(tail, head) \ {tail} PROVE b[j].entry <= b[j].max
    BY <2>1
  <2>2. j \in Indices /\ block[j].entry <= block[j].max
    BY DEF PlannerInv, Limits, LimitsOf, QueueOf
  <2>3. b[j] \in Cell /\ block[j] \in Cell
    BY <1>1, <1>2, <2>2 DEF Ring
  <2> QED
    BY <1>1, <2>1, <2>2, <2>3 DEF Cell
<1>5. Replans
  BY <1>1, <1>3, <1>4, ReinitializedSpeeds
<1>6. ProfileSpeeds'
  BY <1>1, <1>3 DEF SpeedInv, ProfileSpeeds
<1>7. BetweenBlocks'
  <2>1. ~exec'.recalc /\ tail # head /\ control \in {"normal", "hold", "held"}
          => ~exec.loaded /\ ~exec.recalc /\ block'[tail].entry = block[tail].entry
    BY <1>2, <1>3, <1>5, SpeedAtTail DEF Replans
  <2>2. ~slowed' => ~slowed
    BY <1>4
  <2> QED
    BY <1>1, <1>3, <2>1, <2>2 DEF SpeedInv, BetweenBlocks, IsEmpty
<1>8. CanStop'
  <2>1. PICK z : /\ Stops(z, block', tail, head) /\ (tail # head => Speed(tail)' <= z[tail])
                 /\ ~exec.loaded /\ ~exec.recalc /\ control \notin Parking => exec.exit <= z[tail]
    BY <1>5 DEF Replans
  <2>2. SpeedStops(z)'
    BY <1>1, <1>3, <2>1 DEF SpeedStops, IsEmpty
  <2> QED
    BY <1>1, <2>1, <2>2 DEF CanStop
<1> QED
  BY <1>1, <1>5, <1>6, <1>7, <1>8 DEF SpeedInv, Replans

\* A line is planned into the empty queue: the machine is to stand at both its ends.
LEMMA FirstLineSpeeds ==
  ASSUME PlannerInv, PlannerInv', SpeedInv, NEW l \in Lines, BufferLine(l), tail = head
  PROVE  SpeedInv'
<1> PICK new, b, r : Buffered(l, new, b, r)
  BY BufferLineIs
<1> DEFINE n == Distance(planned, head)
<1>1. /\ tail \in Indices /\ head \in Indices /\ block \in Ring /\ exec \in Execution
      /\ PlBlock \in Indices /\ exec.exit \in Nat /\ After(head) \in Indices /\ planned \in Indices
  BY StateTypes, RingSteps DEF PlannerInv, Types, TypeOK
<1>2. /\ block' = r.block /\ exec' = r.exec /\ head' = After(head) /\ tail' = tail
      /\ tail # After(head) /\ slowed' = slowed /\ control' = control /\ control \notin Parking
      /\ PlBlock = tail
  BY DEF Buffered, Parking, PlBlock
<1>3. QueueOf(tail, After(head)) = {tail}
  BY <1>1, <1>2, QueueGrown, QueueEnds
<1>4. ~exec.loaded /\ ~exec.recalc
  BY DEF PlannerInv, QueueUsed, IsEmpty, Buffered, Moving, Parking
<1>5. /\ b \in Ring /\ Recalculated(b, planned, exec, n, r)
      /\ b[head].entry = 0 /\ b[head].max = 0
  <2>1. b \in Ring /\ Recalculated(b, planned, exec, n, r) /\ b[head] = new /\ new.entry = 0
    BY DEF Buffered
  <2>2. new.max <= 0 /\ new.max \in Nat
    BY DEF Buffered, IsEmpty, Cell
  <2> QED
    BY <2>1, <2>2
<1> HIDE DEF n
<1>6. n \in Nat /\ exec' = exec
  <2>1. n \in Nat
    BY <1>5, PlannerAssumption DEF Recalculated
  <2>2. Told(b, planned, n, exec).exec =
          IF n > 0 /\ planned = tail
          THEN [exec EXCEPT !.loaded = FALSE, !.recalc = exec.loaded \/ exec.recalc] ELSE exec
    BY <1>1, <1>5, <2>1, ToldExec
  <2>3. exec = [exec EXCEPT !.loaded = FALSE, !.recalc = exec.loaded \/ exec.recalc]
    BY <1>1, <1>4 DEF Execution
  <2> QED
    BY <1>2, <1>5, <2>1, <2>2, <2>3 DEF Recalculated
<1>7. block'[tail].entry = 0
  <2>1. CASE Distance(planned, tail) \in 1..n
    <3>1. block'[tail].entry <= block'[tail].max /\ block'[tail].max = b[tail].max
      BY <1>1, <1>2, <1>5, <2>1 DEF Recalculated, SameBlocks
    <3>2. block'[tail].entry \in Nat
      BY <1>1, StateTypesAfter
    <3> QED
      BY <1>5, <3>1, <3>2
  <2>2. CASE Distance(planned, tail) \notin 1..n
    <3>1. block'[tail].entry = Told(b, planned, n, exec).block[tail].entry
      BY <1>1, <1>2, <1>5, <2>2 DEF Recalculated
    <3>2. Told(b, planned, n, exec).block[tail].entry = b[tail].entry
      BY <1>1, <1>4, <1>5, <1>6, ToldEntry
    <3> QED
      BY <1>5, <3>1, <3>2
  <2> QED
    BY <2>1, <2>2
<1>8. exec.exit = 0 /\ ~exec.declOvr
  <2>1. PICK s : Stops(s, block, tail, head) /\ SpeedStops(s)
    BY DEF SpeedInv, CanStop
  <2>2. exec.exit <= s[tail] /\ s[tail] = 0
    BY <1>2, <1>4, <2>1 DEF SpeedStops, Stops
  <2> QED
    BY <1>1, <1>4, <2>2 DEF SpeedInv, ProfileSpeeds
<1>9. SpeedsUp(block', tail, After(head)) /\ SlowsDown(block', tail, After(head))
  BY <1>3 DEF SpeedsUp, SlowsDown
<1>10. Speed(tail)' = 0 /\ ExitSpeed' = 0
  BY <1>2, <1>4, <1>6, <1>7 DEF Speed, ExitSpeed
<1>11. block'[tail].room \in Nat
  BY <1>1, StateTypesAfter
<1>12. TailSpeeds'
  BY <1>2, <1>10, <1>11 DEF TailSpeeds
<1>13. ProfileSpeeds' /\ BetweenBlocks'
  BY <1>2, <1>4, <1>6, <1>7, <1>8 DEF ProfileSpeeds, BetweenBlocks
<1>14. CanStop'
  <2> DEFINE z == [i \in Indices |-> 0]
             c == block'
  <2>1. c[tail].room \in Nat
    BY <1>11
  <2> HIDE DEF c
  <2>2. Stops(z, c, tail, After(head))
    BY <1>1, <1>3, <2>1, RingSteps DEF Stops
  <2>3. SpeedStops(z)'
    BY <1>1, <1>2, <1>4, <1>6, <1>8, <1>10 DEF SpeedStops
  <2> HIDE DEF z
  <2> QED
    BY <1>2, <2>2, <2>3 DEF CanStop, c
<1> QED
  BY <1>2, <1>9, <1>12, <1>13, <1>14 DEF SpeedInv

\* A line is planned behind others: d is the queue with the new block and the executing one told,
\* from which the plan is made again behind the planned pointer.
LinePlanned(d) ==
  /\ Replanned(d, block', After(head), planned)
  /\ Seals(d, block', planned, Distance(planned, head), planned')
  /\ \A i \in QueueOf(tail, head) : d[i].room = block[i].room
  /\ \A i \in QueueOf(tail, head) \ {tail} : d[i].entry = block[i].entry /\ d[i].max = block[i].max
  /\ d[head].entry = 0 /\ d[head].room \in Nat
  /\ planned # tail => d[tail].entry = block[tail].entry
  /\ planned = tail => d[tail].entry = Speed(tail)
  /\ \A j \in QueueOf(tail, After(head)) \ {tail} : d[j].entry <= d[j].max
  /\ block'[tail].room = block[tail].room /\ block'[tail].kind = block[tail].kind
  /\ block'[tail].rate = block[tail].rate /\ block'[tail].entry = d[tail].entry
  /\ Speed(tail)' = Speed(tail)
  /\ exec' = IF planned = tail
             THEN [exec EXCEPT !.loaded = FALSE, !.recalc = exec.loaded \/ exec.recalc] ELSE exec

LEMMA LineIsPlanned ==
  ASSUME PlannerInv, NEW l \in Lines, BufferLine(l), tail # head
  PROVE  \E d : LinePlanned(d)
<1> PICK new, b, r : Buffered(l, new, b, r)
  BY BufferLineIs
<1> DEFINE H == After(head)
           n == Distance(planned, head)
           c == block'
           d == Told(b, planned, n, exec).block
<1>1. /\ tail \in Indices /\ head \in Indices /\ block \in Ring /\ exec \in Execution
      /\ PlBlock \in Indices /\ exec.exit \in Nat /\ exec.speed \in Nat /\ planned \in Indices
      /\ exec.loaded \in BOOLEAN /\ exec.recalc \in BOOLEAN
  BY StateTypes DEF PlannerInv, Types, TypeOK
<1>2. /\ c = r.block /\ exec' = r.exec /\ head' = H /\ tail' = tail
      /\ tail # H /\ slowed' = slowed /\ control' = control /\ control \notin Parking
      /\ feedOvr' = feedOvr /\ rapidOvr' = rapidOvr /\ PlBlock = tail /\ PlBlock' = tail
  BY DEF Buffered, Parking, PlBlock
<1>3. /\ b \in Ring /\ Recalculated(b, planned, exec, n, r)
      /\ b[head].entry = 0 /\ \A i \in Indices \ {head} : b[i] = block[i]
  BY DEF Buffered
<1>4. H \in Indices /\ Before(H) = head
  BY <1>1, RingSteps
<1>5. /\ QueueOf(tail, H) = QueueOf(tail, head) \cup {head} /\ head \notin QueueOf(tail, head)
      /\ tail \in QueueOf(tail, head) /\ QueueOf(tail, head) \subseteq Indices
  BY <1>1, <1>2, QueueGrown, QueueEnds
<1>6. planned \in QueueOf(tail, head) /\ planned \in QueueOf(tail, H)
  <2>1. Queued = QueueOf(tail, head)
    BY <1>1, QueuedIs
  <2> QED
    BY <1>5, <2>1 DEF PlannerInv, PlannedInQueue, IsEmpty
<1>7. n \in Nat \ {0}
  <2>1. planned # head
    BY <1>5, <1>6
  <2> QED
    BY <1>1, <2>1, RingDistance, PlannerAssumption
<1>8. /\ d \in Ring /\ SameBlocks(b, d)
      /\ \A i \in Indices : d[i].entry =
           IF planned = tail /\ i = tail /\ exec.loaded THEN exec.speed ELSE b[i].entry
  <2>1. d \in Ring /\ SameBlocks(b, d)
    BY <1>1, <1>3, <1>7, ToldIs
  <2>2. \A i \in Indices : d[i].entry =
          IF n > 0 /\ planned = tail /\ i = PlBlock /\ exec.loaded THEN exec.speed ELSE b[i].entry
    <3> HIDE DEF n
    <3> QED
      BY <1>1, <1>3, <1>7, ToldEntry
  <2> HIDE DEF n
  <2> QED
    BY <1>2, <1>7, <2>1, <2>2
<1>9. exec' = IF planned = tail
              THEN [exec EXCEPT !.loaded = FALSE, !.recalc = exec.loaded \/ exec.recalc] ELSE exec
  <2> HIDE DEF n
  <2>1. PlBlock \in Indices /\ n \in Nat /\ n > 0 /\ b \in Ring /\ exec \in Execution /\ planned \in Indices
    BY <1>1, <1>3, <1>7
  <2>2. Told(b, planned, n, exec).exec =
          IF n > 0 /\ planned = tail
          THEN [exec EXCEPT !.loaded = FALSE, !.recalc = exec.loaded \/ exec.recalc] ELSE exec
    BY <2>1, ToldExec
  <2> QED
    BY <1>2, <1>3, <2>1, <2>2 DEF Recalculated
<1>10. Replanned(d, c, H, planned)
  <2>1. Distance(planned, Before(H)) = n
    BY <1>4
  <2>2. /\ c \in Ring /\ SameBlocks(b, c)
        /\ \A i \in Indices : Distance(planned, i) \notin 1..n => c[i].entry = d[i].entry
        /\ \E rev : Passes(d, c, planned, n, rev)
    BY <1>2, <1>3 DEF Recalculated
  <2> HIDE DEF n, c, d
  <2> QED
    BY <1>8, <2>1, <2>2 DEF Replanned, SameBlocks
<1> HIDE DEF d, c, n, H
<1>11. /\ \A i \in QueueOf(tail, head) : d[i].room = block[i].room
       /\ \A i \in QueueOf(tail, head) \ {tail} : d[i].entry = block[i].entry
       /\ d[head].entry = 0 /\ d[head].room \in Nat
       /\ planned # tail => d[tail].entry = block[tail].entry
       /\ planned = tail => d[tail].entry = Speed(tail)
  <2>1. \A i \in QueueOf(tail, head) : i \in Indices /\ b[i] = block[i]
    BY <1>3, <1>5
  <2>2. \A i \in QueueOf(tail, head) : d[i].room = b[i].room
    BY <1>8, <2>1 DEF SameBlocks
  <2>3. d[head] \in Cell
    BY <1>1, <1>8 DEF Ring
  <2>4. d[tail].entry = IF planned = tail /\ exec.loaded THEN exec.speed ELSE block[tail].entry
    BY <1>1, <1>5, <1>8, <2>1
  <2>5. planned = tail => d[tail].entry = Speed(tail)
    BY <1>2, <2>4 DEF Speed
  <2>6. d[head].entry = 0
    BY <1>1, <1>3, <1>5, <1>8
  <2>7. \A i \in QueueOf(tail, head) \ {tail} : d[i].entry = block[i].entry
    BY <1>8, <2>1
  <2> QED
    BY <2>1, <2>2, <2>3, <2>4, <2>5, <2>6, <2>7 DEF Cell
<1>12. /\ c[tail].room = block[tail].room /\ c[tail].kind = block[tail].kind
       /\ c[tail].rate = block[tail].rate /\ c[tail].entry = d[tail].entry
  <2>1. Distance(planned, tail) \notin 1..Distance(planned, Before(H))
    <3>1. Distance(tail, tail) = 0 /\ Distance(tail, planned) \in Nat
      BY <1>1, RingDistance
    <3> QED
      BY <1>1, <1>4, <1>6, <3>1, PassPlaces
  <2>2. c[tail].entry = d[tail].entry
    BY <1>1, <1>10, <2>1 DEF Replanned
  <2>3. b[tail] = block[tail]
    BY <1>3, <1>5
  <2> QED
    BY <1>1, <1>8, <1>10, <2>2, <2>3 DEF Replanned, SameBlocks
<1>13. Speed(tail)' = Speed(tail)
  <2>1. CASE planned = tail
    <3>1. ~exec'.loaded
      BY <1>1, <1>9, <2>1 DEF Execution
    <3>2. Speed(tail)' = c[tail].entry
      BY <1>2, <3>1 DEF Speed, c
    <3> QED
      BY <1>11, <1>12, <2>1, <3>2
  <2>2. CASE planned # tail
    <3>1. exec' = exec /\ c[tail].entry = block[tail].entry
      BY <1>9, <1>11, <1>12, <2>2
    <3> QED
      BY <1>2, <3>1 DEF Speed, c
  <2> QED
    BY <2>1, <2>2
<1>14. \A j \in QueueOf(tail, H) \ {tail} : d[j].entry <= d[j].max
  <2> SUFFICES ASSUME NEW j \in QueueOf(tail, H) \ {tail} PROVE d[j].entry <= d[j].max
    OBVIOUS
  <2>1. CASE j = head
    <3>1. d[head] \in Cell
      BY <1>1, <1>8 DEF Ring
    <3> QED
      BY <1>11, <2>1, <3>1 DEF Cell
  <2>2. CASE j # head
    <3>1. j \in QueueOf(tail, head) \ {tail} /\ j \in Indices
      BY <1>5, <2>2
    <3>2. block[j].entry <= block[j].max
      BY <3>1 DEF PlannerInv, Limits, LimitsOf
    <3>3. d[j].max = block[j].max
      BY <1>3, <1>8, <2>2, <3>1 DEF SameBlocks
    <3> QED
      BY <1>11, <3>1, <3>2, <3>3
  <2> QED
    BY <2>1, <2>2
<1>15. \A i \in QueueOf(tail, head) \ {tail} : d[i].max = block[i].max
  <2>1. \A i \in QueueOf(tail, head) : i \in Indices /\ b[i] = block[i]
    BY <1>3, <1>5
  <2> QED
    BY <1>8, <2>1 DEF SameBlocks
<1>16. Seals(d, c, planned, n, planned')
  BY <1>2, <1>3 DEF Recalculated, Buffered, c, d
<1>17. LinePlanned(d)
  BY <1>9, <1>10, <1>11, <1>12, <1>13, <1>14, <1>15, <1>16 DEF LinePlanned, c, n, H
<1> QED
  BY <1>17

\* The machine can follow a plan with one more line.
LEMMA NextLineSpeeds ==
  ASSUME PlannerInv, PlannerInv', SpeedInv, NEW l \in Lines, BufferLine(l), tail # head
  PROVE  SpeedInv'
<1> DEFINE H == After(head)
           c == block'
<1> PICK d : LinePlanned(d)
  BY LineIsPlanned
<1>1. /\ tail \in Indices /\ head \in Indices /\ block \in Ring /\ exec \in Execution
      /\ PlBlock \in Indices /\ exec.exit \in Nat /\ exec.speed \in Nat /\ planned \in Indices
      /\ exec.loaded \in BOOLEAN /\ exec.recalc \in BOOLEAN
  BY StateTypes DEF PlannerInv, Types, TypeOK
<1>2. /\ head' = H /\ tail' = tail
      /\ tail # H /\ slowed' = slowed /\ control' = control /\ control \notin Parking
      /\ feedOvr' = feedOvr /\ rapidOvr' = rapidOvr /\ PlBlock = tail /\ PlBlock' = tail
  BY DEF BufferLine, IsFull, ovrVars, history, Parking, PlBlock
<1>4. H \in Indices /\ Before(H) = head
  BY <1>1, RingSteps
<1>5. /\ QueueOf(tail, H) = QueueOf(tail, head) \cup {head} /\ head \notin QueueOf(tail, head)
      /\ tail \in QueueOf(tail, head) /\ QueueOf(tail, head) \subseteq Indices
  BY <1>1, <1>2, QueueGrown, QueueEnds
<1>6. planned \in QueueOf(tail, head) /\ planned \in QueueOf(tail, H)
  <2>1. Queued = QueueOf(tail, head)
    BY <1>1, QueuedIs
  <2> QED
    BY <1>5, <2>1 DEF PlannerInv, PlannedInQueue, IsEmpty
<1>7. Replanned(d, c, H, planned)
  BY DEF LinePlanned
<1>8. exec' = IF planned = tail
              THEN [exec EXCEPT !.loaded = FALSE, !.recalc = exec.loaded \/ exec.recalc] ELSE exec
  BY DEF LinePlanned
<1>9. /\ \A i \in QueueOf(tail, head) : d[i].room = block[i].room
      /\ \A i \in QueueOf(tail, head) \ {tail} : d[i].entry = block[i].entry
      /\ d[head].entry = 0 /\ d[head].room \in Nat
      /\ planned # tail => d[tail].entry = block[tail].entry
      /\ planned = tail => d[tail].entry = Speed(tail)
      /\ \A j \in QueueOf(tail, H) \ {tail} : d[j].entry <= d[j].max
  BY DEF LinePlanned
<1>10. /\ c[tail].room = block[tail].room /\ c[tail].kind = block[tail].kind
       /\ c[tail].rate = block[tail].rate /\ c[tail].entry = d[tail].entry
       /\ Speed(tail)' = Speed(tail)
  BY DEF LinePlanned
<1> HIDE DEF c, H
<1>11. /\ \A i \in QueueOf(tail, head) : NextSpeed(d, H, i) = NextSpeed(block, head, i)
       /\ SpeedsUp(d, tail, H) /\ (~slowed => SlowsDown(d, tail, H))
       /\ \A s : Stops(s, block, tail, head) => Stops([s EXCEPT ![H] = 0], d, tail, H)
  <2>1. /\ \A i \in QueueOf(tail, head) : NextSpeed(d, After(head), i) = NextSpeed(block, head, i)
        /\ SpeedsUp(block, tail, head) => SpeedsUp(d, tail, After(head))
        /\ SlowsDown(block, tail, head) => SlowsDown(d, tail, After(head))
        /\ \A s : Stops(s, block, tail, head) => Stops([s EXCEPT ![After(head)] = 0], d, tail, After(head))
    <3>1. tail # After(head)
      BY <1>2 DEF H
    <3> QED
      BY <1>1, <1>9, <3>1, Appended
  <2> QED
    BY <2>1 DEF SpeedInv, H
<1>12. /\ SpeedsUp(c, tail, H)
       /\ planned = tail => NextSpeed(c, H, tail) <= c[tail].entry + c[tail].room
       /\ planned # tail => NextSpeed(c, H, tail) = NextSpeed(d, H, tail) /\ c[tail] = d[tail]
  BY <1>1, <1>4, <1>6, <1>7, <1>11, ReplanSpeedsUp
<1>13. /\ ExitSpeed' = NextSpeed(c, H, tail) /\ ExitSpeed = NextSpeed(block, head, tail)
       /\ planned # tail => ExitSpeed' = ExitSpeed
       /\ planned = tail => Speed(tail) = c[tail].entry
  <2>1. ExitSpeed' = NextSpeed(c, H, tail) /\ ExitSpeed = NextSpeed(block, head, tail)
    BY <1>2 DEF ExitSpeed, NextSpeed, c
  <2> QED
    BY <1>5, <1>9, <1>11, <1>12, <1>10, <2>1
<1>14. ASSUME ~slowed
       PROVE  SlowsDown(c, tail, H) /\ Speed(tail) <= ExitSpeed' + block[tail].room
  <2>2. /\ SlowsDown(c, tail, H)
        /\ d[tail].entry <= NextSpeed(d, H, tail) + d[tail].room =>
             c[tail].entry <= NextSpeed(c, H, tail) + c[tail].room
    BY <1>1, <1>4, <1>6, <1>7, <1>9, <1>11, <1>14, ReplanSlowsDown
  <2>3. Speed(tail) <= ExitSpeed + block[tail].room
    BY <1>14 DEF SpeedInv, TailSpeeds, IsEmpty
  <2>4. NextSpeed(d, H, tail) = ExitSpeed /\ d[tail].room = block[tail].room
    BY <1>5, <1>9, <1>11, <1>13
  <2> QED
    BY <1>9, <1>10, <1>13, <2>2, <2>3, <2>4
<1>15. TailSpeeds'
  <2>1. control \notin {"hold", "holdEnd"} => ExitSpeed' <= Speed(tail) + block[tail].room
    BY <1>12, <1>10, <1>13 DEF SpeedInv, TailSpeeds, IsEmpty
  <2> QED
    BY <1>2, <1>10, <1>14, <2>1 DEF TailSpeeds, c
<1>16. /\ exec'.exit = exec.exit /\ exec'.declOvr = exec.declOvr
       /\ exec'.loaded => exec.loaded /\ planned # tail /\ exec' = exec
       /\ ~exec'.loaded /\ ~exec'.recalc => ~exec.loaded /\ ~exec.recalc
  BY <1>1, <1>8 DEF Execution
<1>17. ProfileSpeeds'
  <2>1. TopSpeed' = TopSpeed
    <3>1. Nominal(c[tail], feedOvr, rapidOvr) = Nominal(block[tail], feedOvr, rapidOvr)
      BY <1>10, NominalSame
    <3> QED
      BY <1>2, <3>1 DEF TopSpeed, c
  <2> QED
    BY <1>2, <1>10, <1>13, <1>16, <2>1 DEF SpeedInv, ProfileSpeeds, c
<1>18. BetweenBlocks'
  <2>1. ~exec.loaded => c[tail].entry = block[tail].entry
    BY <1>2, <1>9, <1>10 DEF Speed
  <2> QED
    BY <1>2, <1>16, <2>1 DEF SpeedInv, BetweenBlocks, IsEmpty, c
<1>19. CanStop'
  <2>1. PICK s : Stops(s, block, tail, head) /\ SpeedStops(s)
    BY DEF SpeedInv, CanStop
  <2> DEFINE v == [s EXCEPT ![H] = 0]
  <2>2. Stops(v, d, tail, H)
    BY <1>11, <2>1
  <2>3. s \in [Indices -> Nat] /\ After(tail) \in Indices /\ After(tail) # H
    BY <1>1, <1>5, <2>1, RingSteps DEF Stops, H
  <2>4. v[tail] = s[tail] /\ v[After(tail)] = s[After(tail)]
    BY <1>1, <1>2, <2>3
  <2> HIDE DEF v
  <2>5. StillStops(v, c, tail, H)
    BY <1>1, <1>4, <1>6, <1>7, <2>2, ReplanStops
  <2>6. PICK z : /\ Stops(z, c, tail, H) /\ z[tail] = v[tail]
                 /\ v[After(tail)] <= z[After(tail)] /\ z[After(tail)] \in Nat
    BY <2>3, <2>5 DEF StillStops
  <2>7. Speed(tail) <= z[tail]
    BY <2>1, <2>4, <2>6 DEF SpeedStops, IsEmpty
  <2>8. exec'.loaded => exec.exit <= z[After(tail)]
    BY <1>1, <1>2, <1>16, <2>1, <2>3, <2>4, <2>6 DEF SpeedStops
  <2>9. ~exec'.loaded /\ ~exec'.recalc => exec.exit <= z[tail]
    BY <1>2, <1>16, <2>1, <2>4, <2>6 DEF SpeedStops
  <2>10. SpeedStops(z)'
    BY <1>2, <1>10, <1>16, <2>7, <2>8, <2>9 DEF SpeedStops
  <2> QED
    BY <1>2, <2>6, <2>10 DEF CanStop, c
<1> QED
  BY <1>2, <1>12, <1>14, <1>15, <1>17, <1>18, <1>19 DEF SpeedInv, c

\* What is known of the profile x of the block at the tail: its end is where the plan has it,
\* or a deceleration override brings it as near to that as the block allows.
LoadedSpeeds(x) ==
  /\ control = "normal" =>
       /\ x.top = TopSpeed /\ ExitSpeed <= x.speed + block[tail].room
       /\ x.declOvr => x.exit + block[tail].room = x.speed /\ x.top <= x.exit
       /\ ~x.declOvr => x.exit = ExitSpeed
  /\ control = "hold" => ~x.declOvr /\ (~slowed => x.exit <= ExitSpeed)
  /\ ~slowed => x.speed <= ExitSpeed + block[tail].room

\* The machine can stop from the speed of the profile x and from its exit speed.
ProfileStops(x, s) == x.speed <= s[tail] /\ x.exit <= s[After(tail)]

\* A profile that is loaded, new or again.
LEMMA LoadSpeeds ==
  ASSUME PlannerInv, SpeedInv, tail # head, ~exec.loaded, control \in {"normal", "hold"},
         NEW s, Stops(s, block, tail, head), SpeedStops(s)
  PROVE  LoadedSpeeds(Load) /\ ProfileStops(Load, s)
<1> DEFINE b      == block[tail]
           forced == ~exec.recalc /\ (control = "hold" \/ exec.declOvr)
           entry  == IF forced THEN exec.exit ELSE b.entry
           onlyDown == control # "hold" /\ entry > TopSpeed /\ entry - TopSpeed >= b.room
           x == Load
<1>1. /\ tail \in Indices /\ head \in Indices /\ After(tail) \in Indices
      /\ exec.exit \in Nat /\ exec.speed \in Nat /\ exec.recalc \in BOOLEAN
      /\ exec.declOvr \in BOOLEAN /\ b.entry \in Nat /\ b.room \in Nat
  BY StateTypes
<1>2. PlBlock = tail
  BY DEF PlBlock
<1>3. /\ ExitSpeed \in Nat /\ TopSpeed \in Nat /\ TopSpeed > 0 /\ ExitSpeed <= TopSpeed
  BY ExitBelowTop
<1>4. /\ s \in [Indices -> Nat] /\ ExitSpeed <= s[After(tail)]
      /\ s[tail] <= s[After(tail)] + b.room
  BY StopsFrom
<1>5. /\ x.speed = IF exec.recalc THEN exec.speed ELSE entry
      /\ x.exit = IF control = "hold" \/ onlyDown THEN MaxOf(entry - b.room, 0) ELSE ExitSpeed
      /\ x.top = TopSpeed /\ x.declOvr = onlyDown
  BY <1>2 DEF Load, TopSpeed
<1>6. exec.recalc => b.entry = exec.speed
  BY <1>2 DEF PlannerInv, ProfileFits
<1>7. Speed(tail) = b.entry
  BY SpeedAtTail
<1>8. /\ control = "normal" => ExitSpeed <= b.entry + b.room
      /\ ~slowed => b.entry <= ExitSpeed + b.room
  BY <1>7 DEF SpeedInv, TailSpeeds, IsEmpty
<1>9. /\ control = "normal" /\ forced => b.entry <= exec.exit
      /\ ~slowed /\ forced => exec.exit <= b.entry
  BY DEF SpeedInv, BetweenBlocks, IsEmpty
<1>10. s[tail] \in Nat /\ s[After(tail)] \in Nat /\ b.entry <= s[tail] /\ (forced => exec.exit <= s[tail])
  BY <1>1, <1>4, <1>7 DEF SpeedStops, IsEmpty, Parking
<1> HIDE DEF x, b
<1>11. entry \in Nat /\ x.speed = entry
  BY <1>1, <1>5, <1>6
<1>12. /\ control = "normal" => ExitSpeed <= entry + b.room
       /\ ~slowed => entry <= ExitSpeed + b.room
       /\ entry <= s[tail]
  BY <1>1, <1>3, <1>8, <1>9, <1>10
<1> HIDE DEF forced, entry
<1>13. /\ onlyDown => x.exit + b.room = x.speed /\ TopSpeed <= x.exit
       /\ ~slowed /\ control = "hold" => x.exit <= ExitSpeed
       /\ x.exit <= s[After(tail)]
  BY <1>1, <1>3, <1>4, <1>5, <1>10, <1>11, <1>12 DEF MaxOf
<1>14. LoadedSpeeds(x)
  BY <1>5, <1>11, <1>12, <1>13 DEF LoadedSpeeds, b
<1>15. ProfileStops(x, s)
  BY <1>11, <1>12, <1>13 DEF ProfileStops
<1> QED
  BY <1>14, <1>15 DEF x

\* While it is executed the profile keeps within what is known of it.
LEMMA SegmentSpeeds ==
  ASSUME NEW x \in Execution, NEW b \in Cell, Fits(x, b.room), control \in {"normal", "hold"},
         NEW c \in 0..(b.room - x.complete), NEW out \in Nat, NEW stop \in Nat,
         control = "normal" =>
           /\ out <= x.top /\ out <= x.speed + b.room
           /\ x.declOvr => x.exit + b.room = x.speed /\ x.top <= x.exit
           /\ ~x.declOvr => x.exit = out,
         x.speed <= stop + b.room, x.exit <= stop
  PROVE  /\ SpeedAfter(x, b, c) <= stop + (b.room - c)
         /\ control = "normal" /\ b.room - c # 0 =>
              /\ out <= SpeedAfter(x, b, c) + (b.room - c)
              /\ x.declOvr => x.exit + (b.room - c) = SpeedAfter(x, b, c)
         /\ x.speed <= out + b.room /\ (control = "hold" => x.exit <= out) =>
              SpeedAfter(x, b, c) <= out + (b.room - c)
<1> DEFINE left == b.room - c
           down == x.speed - c
           v == SpeedAfter(x, b, c)
<1>1. /\ x.speed \in Nat /\ x.exit \in Nat /\ x.top \in Nat /\ x.complete \in Nat /\ b.room \in Nat
      /\ x.complete <= b.room /\ x.declOvr \in BOOLEAN
  BY DEF Execution, Cell, Fits
<1>2. c \in Nat /\ left \in Nat /\ left >= x.complete /\ left + c = b.room
  BY <1>1
<1>3. CASE left = x.complete
  <2>1. v = x.exit /\ (control = "normal" => left = 0)
    BY <1>3 DEF SpeedAfter, Fits
  <2>2. control = "normal" => (x.speed <= out + b.room => x.exit <= out)
    BY <1>1
  <2> HIDE DEF v, left
  <2> QED
    BY <1>1, <1>2, <2>1, <2>2 DEF v, left
<1>4. CASE left # x.complete /\ control = "hold"
  <2>1. v = down
    BY <1>4 DEF SpeedAfter
  <2> HIDE DEF v
  <2> QED
    BY <1>1, <1>2, <1>4, <2>1 DEF v
<1>5. CASE left # x.complete /\ control = "normal"
  <2>1. v = IF x.speed > x.top
            THEN IF down >= x.top THEN down ELSE MinOf(x.top, x.exit + left)
            ELSE MaxOf(down, MinOf(MinOf(x.speed + c, x.top), x.exit + left))
    BY <1>5 DEF SpeedAfter
  <2>2. left > 0
    BY <1>2, <1>5 DEF Fits
  <2> HIDE DEF v, left
  <2>3. v <= stop + left /\ out <= v + left
    BY <1>1, <1>2, <1>5, <2>1 DEF MinOf, MaxOf
  <2>4. x.declOvr => x.exit + left = v
    BY <1>1, <1>2, <1>5, <2>1, <2>2 DEF MinOf, MaxOf
  <2>5. x.speed <= out + b.room => v <= out + left
    BY <1>1, <1>2, <1>5, <2>1 DEF MinOf, MaxOf
  <2> QED
    BY <1>5, <2>3, <2>4, <2>5 DEF v, left
<1> QED
  BY <1>3, <1>4, <1>5

\* The profile a segment executes, loaded before or now.
LEMMA SegmentLoaded ==
  ASSUME PlannerInv, SpeedInv, tail # head, control \in {"normal", "hold"},
         NEW x, x = (IF exec.loaded THEN exec ELSE Load),
         NEW s, Stops(s, block, tail, head), SpeedStops(s)
  PROVE  LoadedSpeeds(x) /\ ProfileStops(x, s)
<1>1. CASE ~exec.loaded
  BY <1>1, LoadSpeeds
<1>2. CASE exec.loaded
  <2>1. x = exec /\ Speed(tail) = exec.speed
    BY <1>2, SpeedAtTail DEF Parking
  <2>2. LoadedSpeeds(exec)
    BY <1>2, <2>1 DEF SpeedInv, TailSpeeds, ProfileSpeeds, IsEmpty, LoadedSpeeds, PlannerInv, ExitAgrees
  <2>3. ProfileStops(exec, s)
    BY <1>2, <2>1 DEF SpeedStops, IsEmpty, ProfileStops, Parking
  <2> QED
    BY <2>1, <2>2, <2>3
<1> QED
  BY <1>1, <1>2

\* A segment of a parking motion.
LEMMA ParkingSpeeds ==
  ASSUME PlannerInv, PlannerInv', SpeedInv, Prep, control \in {"park", "parkHold"}
  PROVE  SpeedInv'
<1> PICK x, b, c : Segment(x, b, c)
  BY PrepIs
<1>1. /\ tail \in Indices /\ head \in Indices /\ block \in Ring /\ exec \in Execution
      /\ PlBlock = head /\ b \in Ring
  BY StateTypes DEF PlBlock, Segment
<1>2. QueueOf(tail, head) \subseteq Indices \ {head}
  BY <1>1, QueueEnds
<1>3. /\ tail' = tail /\ head' = head /\ slowed' = slowed
      /\ control' \in {"park", "parkHold", "parkEnd"}
      /\ block' = [b EXCEPT ![head].room = b[head].room - c]
      /\ exec'.declOvr = x.declOvr /\ exec'.loaded = TRUE
  <2>1. x \in Execution /\ x.loaded
    BY DEF Segment, Loads
  <2>2. head' = head
    BY DEF Prep
  <2> QED
    BY <1>1, <2>1, <2>2 DEF Segment, Execution
<1>4. \A i \in QueueOf(tail, head) : block'[i] = block[i]
  <2>1. \A i \in Indices \ {head} : b[i] = block[i]
    BY <1>1 DEF Segment
  <2> QED
    BY <1>1, <1>2, <1>3, <2>1 DEF Ring
<1>5. tail # head => Speed(tail)' = Speed(tail)
  <2> SUFFICES ASSUME tail # head PROVE Speed(tail)' = Speed(tail)
    OBVIOUS
  <2>1. Speed(tail) = block[tail].entry
    BY SpeedAtTail DEF Parking
  <2>2. Speed(tail)' = block'[tail].entry
    BY <1>3 DEF Speed, PlBlock
  <2>3. tail \in QueueOf(tail, head)
    BY <1>1, QueueEnds
  <2> QED
    BY <1>4, <2>1, <2>2, <2>3
<1>6. /\ SpeedsUp(block', tail, head) /\ (~slowed => SlowsDown(block', tail, head))
      /\ TailSpeeds'
      /\ \A s : Stops(s, block, tail, head) => Stops(s, block', tail, head)
  BY <1>3, <1>4, <1>5, QuietKeeps
\* A parking motion begins slowly enough: there is no deceleration override in it.
<1>7. ~x.declOvr
  <2>1. ~exec.declOvr
    BY DEF SpeedInv, ProfileSpeeds
  <2>2. CASE exec.loaded
    BY <2>1, <2>2 DEF Segment
  <2>3. CASE ~exec.loaded
    <3> DEFINE q == block[head]
               top == Nominal(q, feedOvr, rapidOvr) * Nominal(q, feedOvr, rapidOvr)
               entry == IF ~exec.recalc /\ control = "parkHold" THEN exec.exit ELSE q.entry
    <3>1. x = Load /\ x.speed <= q.room
      BY <2>3 DEF Segment, Loads
    <3>2. x.speed = (IF exec.recalc THEN exec.speed ELSE entry)
          /\ x.declOvr = (control # "parkHold" /\ entry > top /\ entry - top >= q.room)
      BY <1>1, <2>1, <3>1 DEF Load
    <3>3. exec.recalc => q.entry = exec.speed
      BY <1>1 DEF PlannerInv, ProfileFits
    <3>4. entry \in Nat /\ q.room \in Nat
      BY <1>1, StateTypes
    <3>5. top \in Nat /\ top > 0
      <4>1. q \in Cell /\ feedOvr \in Nat /\ rapidOvr \in Nat
        BY <1>1, StateTypes DEF Ring
      <4>2. Nominal(q, feedOvr, rapidOvr) \in Nat \ {0}
        BY <4>1, NominalNat DEF Cell
      <4> QED
        BY <4>2, SquareNat, SquareGrows
    <3> HIDE DEF q, top, entry
    <3>6. x.speed = entry
      BY <3>2, <3>3 DEF entry
    <3>7. ~(entry > top /\ entry - top >= q.room)
      BY <3>1, <3>4, <3>5, <3>6
    <3> QED
      BY <3>2, <3>7
  <2> QED
    BY <2>2, <2>3
<1>8. ProfileSpeeds' /\ BetweenBlocks'
  BY <1>3, <1>7 DEF ProfileSpeeds, BetweenBlocks
<1>9. CanStop'
  <2>1. PICK s : Stops(s, block, tail, head) /\ SpeedStops(s)
    BY DEF SpeedInv, CanStop
  <2>2. Stops(s, block', tail, head)
    BY <1>6, <2>1
  <2>3. SpeedStops(s)'
    BY <1>3, <1>5, <2>1 DEF SpeedStops, IsEmpty, Parking
  <2> QED
    BY <1>3, <2>2, <2>3 DEF CanStop
<1> QED
  BY <1>3, <1>6, <1>8, <1>9 DEF SpeedInv

\* The last segment of a block, which is discarded: the next one is entered at the speed the
\* profile ends with.
LEMMA DiscardSpeeds ==
  ASSUME PlannerInv, PlannerInv', SpeedInv, Prep, control \in {"normal", "hold"}, tail' # tail
  PROVE  SpeedInv'
<1> PICK x, b, c : Segment(x, b, c)
  BY PrepIs
<1> DEFINE u == After(tail)
           e == block'
<1>1. /\ tail \in Indices /\ head \in Indices /\ block \in Ring /\ exec \in Execution
      /\ PlBlock = tail /\ b \in Ring /\ tail # head /\ u \in Indices /\ u # tail
      /\ x \in Execution
  BY StateTypes, RingSteps DEF PlBlock, Segment, Prep, IsEmpty, Loads
<1>2. /\ e = [b EXCEPT ![tail] = NoBlock] /\ tail' = u /\ head' = head /\ control' = control
      /\ slowed' = (slowed /\ u # head)
      /\ exec' = [[x EXCEPT !.speed = SpeedAfter(x, b[tail], c)] EXCEPT !.loaded = FALSE]
  BY <1>1 DEF Segment, Prep
<1> HIDE DEF u, e
<1>3. exec'.loaded = FALSE /\ exec'.exit = x.exit /\ exec'.declOvr = x.declOvr /\ exec'.recalc = FALSE
  <2>1. ~x.recalc
    BY DEF Segment, Loads
  <2> QED
    BY <1>1, <1>2, <2>1 DEF Execution
<1>4. \A i \in QueueOf(u, head) : i \in Indices /\ i # tail /\ e[i] = block[i]
  <2>1. QueueOf(u, head) = QueueOf(tail, head) \ {tail} /\ QueueOf(tail, head) \subseteq Indices
    BY <1>1, QueueShrunk, QueueEnds DEF u
  <2>2. \A i \in Indices \ {tail} : b[i] = block[i]
    BY <1>1 DEF Segment
  <2> QED
    BY <1>1, <1>2, <2>1, <2>2 DEF Ring
<1>5. u # head => u \in QueueOf(u, head) /\ u \in QueueOf(tail, head) \ {tail}
  BY <1>1, QueueEnds, QueueShrunk DEF u
<1>6. /\ SpeedsUp(block, tail, head) => SpeedsUp(e, u, head)
      /\ SlowsDown(block, tail, head) => SlowsDown(e, u, head)
      /\ \A i \in QueueOf(u, head) : NextSpeed(e, head, i) = NextSpeed(block, head, i)
      /\ \A s : Stops(s, block, tail, head) /\ (u # head => e[u].room = block[u].room)
              => Stops(s, e, u, head)
  BY <1>1, <1>4, SamePlan DEF u
<1>7. ~slowed' => SlowsDown(e, u, head)
  <2>1. u = head => QueueOf(u, head) = {}
    BY <1>1, QueueEnds
  <2> QED
    BY <1>2, <1>6, <2>1 DEF SpeedInv, SlowsDown
<1>8. PICK s : Stops(s, block, tail, head) /\ SpeedStops(s)
  BY DEF SpeedInv, CanStop
<1>9. LoadedSpeeds(x) /\ ProfileStops(x, s)
  BY <1>1, <1>8, SegmentLoaded DEF Segment
<1>10. /\ ExitSpeed \in Nat /\ TopSpeed \in Nat /\ TopSpeed > 0 /\ ExitSpeed <= TopSpeed
       /\ u # head => ExitSpeed = block[u].entry
  BY <1>1, ExitBelowTop DEF ExitSpeed, u
<1>11. u # head => Speed(tail)' = block[u].entry /\ e[u] = block[u]
  BY <1>2, <1>3, <1>4, <1>5 DEF Speed, e
<1>12. TailSpeeds'
  <2> SUFFICES ASSUME u # head
               PROVE  /\ ExitSpeed' <= block[u].entry + block[u].room
                      /\ ~slowed' => block[u].entry <= ExitSpeed' + block[u].room
    BY <1>2, <1>11 DEF TailSpeeds, IsEmpty, e
  <2>1. ExitSpeed' = NextSpeed(e, head, u)
    BY <1>2 DEF ExitSpeed, NextSpeed, e
  <2>2. ExitSpeed' = NextSpeed(block, head, u)
    BY <1>5, <1>6, <2>1
  <2> QED
    BY <1>2, <1>5, <2>2 DEF SpeedInv, SpeedsUp, SlowsDown
<1>13. x.exit \in Nat /\ x.speed \in Nat /\ x.top \in Nat /\ x.declOvr \in BOOLEAN /\ block[tail].room \in Nat
  BY <1>1, StateTypes DEF Execution
<1>14. ProfileSpeeds'
  <2>1. x.declOvr => control = "normal" /\ x.exit > 0
    BY <1>9, <1>10, <1>13 DEF LoadedSpeeds
  <2> QED
    BY <1>2, <1>3, <2>1 DEF ProfileSpeeds
<1>15. BetweenBlocks'
  <2> SUFFICES ASSUME u # head
               PROVE  /\ control = "normal" /\ x.declOvr => block[u].entry <= x.exit
                      /\ ~slowed => x.exit <= block[u].entry
    BY <1>2, <1>3, <1>11 DEF BetweenBlocks, IsEmpty, e
  <2> QED
    BY <1>9, <1>10, <1>13 DEF LoadedSpeeds
<1>16. CanStop'
  <2>1. Stops(s, e, u, head)
    BY <1>6, <1>8, <1>11
  <2>2. u # head => Speed(tail)' <= s[u]
    BY <1>1, <1>8, <1>10, <1>11, StopsFrom DEF u
  <2>3. exec'.exit <= s[u]
    BY <1>3, <1>9 DEF ProfileStops, u
  <2>4. SpeedStops(s)'
    BY <1>2, <1>3, <2>2, <2>3 DEF SpeedStops, IsEmpty
  <2> QED
    BY <1>2, <2>1, <2>4 DEF CanStop, e
<1>17. SpeedsUp(e, u, head)
  BY <1>6 DEF SpeedInv
<1> QED
  BY <1>2, <1>7, <1>12, <1>14, <1>15, <1>16, <1>17 DEF SpeedInv, e

\* A segment that leaves something of the block.
LEMMA PartialSpeeds ==
  ASSUME PlannerInv, PlannerInv', SpeedInv, Prep, control \in {"normal", "hold"}, tail' = tail
  PROVE  SpeedInv'
<1> PICK x, b, c : Segment(x, b, c)
  BY PrepIs
<1> DEFINE e == block'
           v == SpeedAfter(x, b[tail], c)
           left == b[tail].room - c
<1>1. /\ tail \in Indices /\ head \in Indices /\ block \in Ring /\ exec \in Execution
      /\ PlBlock = tail /\ b \in Ring /\ tail # head /\ After(tail) \in Indices /\ After(tail) # tail
      /\ x \in Execution
  BY StateTypes, RingSteps DEF PlBlock, Segment, Prep, IsEmpty, Loads
<1>2. /\ b[tail] \in Cell /\ b[tail].room = block[tail].room /\ Fits(x, b[tail].room)
      /\ b[tail].kind = block[tail].kind /\ b[tail].rate = block[tail].rate
  BY <1>1 DEF Ring, Segment, SameBlocks, Loads
<1>3. /\ x.speed \in Nat /\ x.exit \in Nat /\ x.top \in Nat /\ x.complete \in Nat
      /\ x.declOvr \in BOOLEAN /\ b[tail].room \in Nat /\ x.complete <= b[tail].room
  BY <1>1, <1>2 DEF Execution, Cell, Fits
<1>4. c \in 0..(b[tail].room - x.complete) /\ left \in Nat
  <2>1. c \in IF b[tail].room - x.complete = 0 THEN {0} ELSE 1..(b[tail].room - x.complete)
    BY <1>1 DEF Segment
  <2> QED
    BY <1>3, <2>1
<1>5. /\ e = [b EXCEPT ![tail].room = left] /\ head' = head /\ slowed' = slowed
      /\ exec' = [[x EXCEPT !.speed = v] EXCEPT !.partial = @ \/ (left = x.complete /\ control = "hold")]
      /\ control' = IF left # x.complete THEN control ELSE IF control = "hold" THEN "holdEnd" ELSE "parkEnd"
      /\ ~(left = x.complete /\ left = 0)
      /\ feedOvr' = feedOvr /\ rapidOvr' = rapidOvr
  BY <1>1 DEF Segment, Prep, ovrVars
<1>6. control = "normal" => left # 0 /\ left # x.complete
  BY <1>2, <1>3, <1>5 DEF Fits
<1>7. /\ control' \in {control, "holdEnd"} /\ (control' = "holdEnd" => control = "hold")
      /\ control' \notin Parking /\ PlBlock' = tail
  BY <1>1, <1>5, <1>6 DEF Parking, PlBlock
<1> HIDE DEF v, left, e
<1>8. PICK s : Stops(s, block, tail, head) /\ SpeedStops(s)
  BY DEF SpeedInv, CanStop
<1>9. LoadedSpeeds(x) /\ ProfileStops(x, s)
  BY <1>1, <1>8, SegmentLoaded DEF Segment
<1>10. /\ ExitSpeed \in Nat /\ TopSpeed \in Nat /\ ExitSpeed <= TopSpeed
       /\ ExitSpeed = NextSpeed(block, head, tail)
  BY <1>1, ExitBelowTop
<1>11. /\ s \in [Indices -> Nat] /\ s[After(tail)] \in Nat
       /\ x.speed <= s[After(tail)] + b[tail].room /\ x.exit <= s[After(tail)]
  <2>1. s \in [Indices -> Nat] /\ s[tail] <= s[After(tail)] + block[tail].room
    BY <1>1, <1>8, StopsFrom
  <2>2. s[tail] \in Nat /\ s[After(tail)] \in Nat
    BY <1>1, <2>1
  <2> QED
    BY <1>2, <1>3, <1>9, <2>1, <2>2 DEF ProfileStops
<1>12. control = "normal" =>
         /\ ExitSpeed <= x.top /\ ExitSpeed <= x.speed + b[tail].room
         /\ x.declOvr => x.exit + b[tail].room = x.speed /\ x.top <= x.exit
         /\ ~x.declOvr => x.exit = ExitSpeed
  BY <1>2, <1>9, <1>10 DEF LoadedSpeeds
<1>13. /\ v <= s[After(tail)] + left
       /\ control = "normal" => ExitSpeed <= v + left /\ (x.declOvr => x.exit + left = v)
       /\ ~slowed => v <= ExitSpeed + left
  <2>1. /\ v <= s[After(tail)] + left
        /\ control = "normal" /\ left # 0 =>
             /\ ExitSpeed <= v + left
             /\ x.declOvr => x.exit + left = v
        /\ x.speed <= ExitSpeed + b[tail].room /\ (control = "hold" => x.exit <= ExitSpeed) =>
             v <= ExitSpeed + left
    BY <1>1, <1>2, <1>4, <1>10, <1>11, <1>12, SegmentSpeeds DEF v, left
  <2> QED
    BY <1>2, <1>6, <1>9, <2>1 DEF LoadedSpeeds
<1>14. v \in Nat
  BY <1>1, <1>2, <1>4, SpeedAfterIs DEF v
<1>15. /\ exec'.loaded = TRUE /\ exec'.speed = v /\ exec'.exit = x.exit /\ exec'.top = x.top
       /\ exec'.declOvr = x.declOvr /\ exec'.recalc = FALSE
  <2>1. x.loaded = TRUE /\ x.recalc = FALSE
    BY <1>1 DEF Segment, Loads, Execution
  <2> QED
    BY <1>1, <1>5, <2>1 DEF Execution
<1>16. /\ e[tail].room = left /\ e[tail].kind = block[tail].kind /\ e[tail].rate = block[tail].rate
       /\ \A i \in Indices \ {tail} : e[i] = block[i]
  <2>1. \A i \in Indices \ {tail} : b[i] = block[i]
    BY <1>1 DEF Segment
  <2> QED
    BY <1>1, <1>2, <1>5, <2>1 DEF Ring, Cell
<1>17. /\ SpeedsUp(block, tail, head) => SpeedsUp(e, tail, head)
       /\ SlowsDown(block, tail, head) => SlowsDown(e, tail, head)
       /\ \A i \in QueueOf(tail, head) : NextSpeed(e, head, i) = NextSpeed(block, head, i)
  <2>1. QueueOf(tail, head) \subseteq Indices
    BY <1>1, QueueEnds
  <2>2. \A i \in QueueOf(tail, head) \ {tail} : e[i].room = block[i].room /\ e[i].entry = block[i].entry
    BY <1>16, <2>1
  <2> QED
    BY <1>1, <2>2, SamePlan
<1>18. tail \in QueueOf(tail, head) /\ head \notin QueueOf(tail, head) /\ QueueOf(tail, head) \subseteq Indices
  BY <1>1, QueueEnds
<1>19. ExitSpeed' = ExitSpeed /\ Speed(tail)' = v /\ TopSpeed' = TopSpeed
  <2>1. ExitSpeed' = NextSpeed(e, head, tail)
    BY <1>5 DEF ExitSpeed, NextSpeed, e
  <2>2. Speed(tail)' = v
    BY <1>7, <1>15 DEF Speed
  <2>3. Nominal(e[tail], feedOvr, rapidOvr) = Nominal(block[tail], feedOvr, rapidOvr)
    BY <1>16, NominalSame
  <2> QED
    BY <1>5, <1>10, <1>17, <1>18, <2>1, <2>2, <2>3 DEF TopSpeed, e
<1>20. TailSpeeds'
  BY <1>5, <1>7, <1>13, <1>16, <1>19 DEF TailSpeeds, e
<1>21. ProfileSpeeds'
  <2>1. control = "hold" => ~x.declOvr /\ (~slowed => x.exit <= ExitSpeed)
    BY <1>9 DEF LoadedSpeeds
  <2>2. control = "normal" => x.top = TopSpeed /\ (x.declOvr => x.exit + left = v /\ x.top <= x.exit)
    BY <1>9, <1>12, <1>13 DEF LoadedSpeeds
  <2> QED
    BY <1>5, <1>7, <1>15, <1>16, <1>19, <2>1, <2>2 DEF ProfileSpeeds, e
<1>22. BetweenBlocks'
  BY <1>15 DEF BetweenBlocks
<1>23. CanStop'
  <2> PICK z : z = [s EXCEPT ![tail] = v]
    OBVIOUS
  <2>1. z \in [Indices -> Nat] /\ z[tail] = v /\ \A i \in Indices \ {tail} : z[i] = s[i]
    BY <1>1, <1>11, <1>14
  <2>2. z[head] = 0
    BY <1>1, <1>8, <2>1 DEF Stops
  <2>3. \A i \in QueueOf(tail, head) : After(i) \in Indices \ {tail}
    <3> SUFFICES ASSUME NEW i \in QueueOf(tail, head) PROVE After(i) \in Indices \ {tail}
      OBVIOUS
    <3>1. After(i) \in Indices /\ After(Before(head)) = head
      BY <1>1, <1>18, RingSteps
    <3> QED
      BY <1>1, <3>1, QueueNeighbours
  <2>4. \A i \in QueueOf(tail, head) : z[i] <= z[After(i)] + e[i].room
    <3> SUFFICES ASSUME NEW i \in QueueOf(tail, head) PROVE z[i] <= z[After(i)] + e[i].room
      OBVIOUS
    <3>1. z[After(i)] = s[After(i)]
      BY <2>1, <2>3
    <3>2. CASE i = tail
      BY <1>13, <1>16, <2>1, <3>1, <3>2
    <3>3. CASE i # tail
      BY <1>8, <1>16, <1>18, <2>1, <3>1, <3>3 DEF Stops
    <3> QED
      BY <3>2, <3>3
  <2>5. \A i \in QueueOf(tail, head) \ {tail} : e[i].entry <= z[i]
    BY <1>8, <1>16, <1>18, <2>1 DEF Stops
  <2>6. Stops(z, e, tail, head)
    BY <2>1, <2>2, <2>4, <2>5 DEF Stops
  <2>7. v <= z[tail] /\ x.exit <= z[After(tail)]
    BY <1>1, <1>11, <1>14, <2>1
  <2>8. SpeedStops(z)'
    BY <1>5, <1>15, <1>19, <2>7 DEF SpeedStops
  <2> QED
    BY <1>5, <2>6, <2>8 DEF CanStop, e
<1>24. SpeedsUp(e, tail, head) /\ (~slowed => SlowsDown(e, tail, head))
  BY <1>17 DEF SpeedInv
<1> QED
  BY <1>5, <1>20, <1>21, <1>22, <1>23, <1>24 DEF SpeedInv, e

\* One segment of st_prep_buffer().
LEMMA PrepSpeeds ==
  ASSUME PlannerInv, PlannerInv', SpeedInv, Prep
  PROVE  SpeedInv'
<1>1. control \in {"normal", "hold", "park", "parkHold"}
  BY DEF Prep
<1> QED
  BY <1>1, ParkingSpeeds, DiscardSpeeds, PartialSpeeds

\* Everything is reset, at the start or later.
LEMMA EmptySpeeds ==
  ASSUME tail = 0, head = 0, exec = NoExec, control = "normal"
  PROVE  SpeedInv
<1> DEFINE s == [i \in Indices |-> 0]
<1>1. 0 \in Indices
  BY PlannerAssumption DEF Indices
<1>2. QueueOf(tail, head) = {}
  BY <1>1, QueueEnds
<1>3. Stops(s, block, tail, head)
  BY <1>1, <1>2 DEF Stops
<1>4. SpeedStops(s)
  BY <1>1 DEF SpeedStops, IsEmpty, NoExec
<1> HIDE DEF s
<1>5. CanStop
  BY <1>3, <1>4 DEF CanStop
<1> QED
  BY <1>2, <1>5 DEF SpeedInv, SpeedsUp, SlowsDown, TailSpeeds, ProfileSpeeds, BetweenBlocks,
                    IsEmpty, NoExec

LEMMA ResetSpeeds ==
  ASSUME tail' = 0, head' = 0, exec' = NoExec, control' = "normal"
  PROVE  SpeedInv'
<1> DEFINE s == [i \in Indices |-> 0]
<1>1. 0 \in Indices
  BY PlannerAssumption DEF Indices
<1>2. QueueOf(tail', head') = {}
  BY <1>1, QueueEnds
<1>3. Stops(s, block', tail', head')
  BY <1>1, <1>2 DEF Stops
<1>4. SpeedStops(s)'
  BY <1>1 DEF SpeedStops, IsEmpty, NoExec
<1> HIDE DEF s
<1>5. CanStop'
  BY <1>3, <1>4 DEF CanStop
<1> QED
  BY <1>2, <1>5 DEF SpeedInv, SpeedsUp, SlowsDown, TailSpeeds, ProfileSpeeds, BetweenBlocks,
                    IsEmpty, NoExec

\* The overrides are restored while nothing is queued.
LEMMA ProgramEndSpeeds ==
  ASSUME PlannerInv, SpeedInv, ProgramEnd
  PROVE  SpeedInv'
<1>1. /\ block' = block /\ tail' = tail /\ head' = head /\ exec' = exec /\ control' = control
      /\ slowed' = slowed /\ IsEmpty
  BY DEF ProgramEnd, planVars, history
<1>2. ~exec.loaded /\ IsEmpty'
  BY <1>1 DEF PlannerInv, QueueUsed, ProgramEnd, Moving, IsEmpty
<1>3. TailSpeeds' /\ ProfileSpeeds' /\ BetweenBlocks'
  BY <1>1, <1>2 DEF SpeedInv, TailSpeeds, ProfileSpeeds, BetweenBlocks
<1>4. CanStop'
  <2>1. PICK s : Stops(s, block, tail, head) /\ SpeedStops(s)
    BY DEF SpeedInv, CanStop
  <2>2. SpeedStops(s)'
    BY <1>1, <1>2, <2>1 DEF SpeedStops
  <2> QED
    BY <1>1, <2>1, <2>2 DEF CanStop
<1> QED
  BY <1>1, <1>3, <1>4 DEF SpeedInv

LEMMA NextSpeeds == PlannerInv /\ SpeedInv /\ [Next]_vars => PlannerInv' /\ SpeedInv'
<1> SUFFICES ASSUME PlannerInv, SpeedInv, [Next]_vars PROVE PlannerInv' /\ SpeedInv'
  OBVIOUS
<1> PlannerInv'
  BY NextInv
<1>1. ASSUME NEW l \in Lines, BufferLine(l) PROVE SpeedInv'
  BY <1>1, FirstLineSpeeds, NextLineSpeeds
<1>2. CASE Prep
  BY <1>2, PrepSpeeds
<1>3. CASE Hold \/ ParkReopened
  BY <1>3, HoldSpeeds
<1>4. CASE HoldIdle \/ Resume \/ Park
  BY <1>4, IdleSpeeds
<1>5. CASE HoldComplete
  BY <1>5, HoldCompleteSpeeds
<1>6. CASE JogCancelled \/ Reset
  BY <1>6, ResetSpeeds DEF JogCancelled, Reset, PlanReset
<1>7. CASE Parked
  BY <1>7, ParkedSpeeds
<1>8. CASE MotionOverride
  <2>1. PICK feed \in {FeedOverride(feedOvr, flags) : flags \in SUBSET FeedFlags},
             rapid \in RapidOverrides : Override(feed, rapid)
    BY <1>8 DEF MotionOverride
  <2>2. feedOvr \in FeedMin..FeedMax
    BY DEF PlannerInv, Types, TypeOK
  <2>3. feed \in FeedMin..FeedMax
    BY <2>2, FeedOverrideIn
  <2> QED
    BY <2>1, <2>3, OverrideSpeeds
<1>9. CASE UNCHANGED vars
  <2>1. /\ block' = block /\ tail' = tail /\ head' = head /\ exec' = exec /\ control' = control
        /\ feedOvr' = feedOvr /\ rapidOvr' = rapidOvr /\ slowed' = slowed
    BY <1>9 DEF vars, planVars, ovrVars, history
  <2>2. /\ Speed(tail)' = Speed(tail) /\ ExitSpeed' = ExitSpeed /\ TopSpeed' = TopSpeed
        /\ IsEmpty' = IsEmpty
    BY <2>1 DEF Speed, PlBlock, ExitSpeed, TopSpeed, IsEmpty
  <2>3. TailSpeeds' /\ ProfileSpeeds' /\ BetweenBlocks'
    BY <2>1, <2>2 DEF SpeedInv, TailSpeeds, ProfileSpeeds, BetweenBlocks
  <2>4. CanStop'
    <3>1. PICK s : Stops(s, block, tail, head) /\ SpeedStops(s)
      BY DEF SpeedInv, CanStop
    <3>2. SpeedStops(s)'
      BY <2>1, <2>2, <3>1 DEF SpeedStops
    <3> QED
      BY <2>1, <3>1, <3>2 DEF CanStop
  <2> QED
    BY <2>1, <2>3, <2>4 DEF SpeedInv
<1>10. CASE ProgramEnd
  BY <1>10, ProgramEndSpeeds
<1> QED
  BY <1>1, <1>2, <1>3, <1>4, <1>5, <1>6, <1>7, <1>8, <1>9, <1>10 DEF Next

LEMMA InitSpeeds == Init => PlannerInv /\ SpeedInv
<1> SUFFICES ASSUME Init PROVE PlannerInv /\ SpeedInv
  OBVIOUS
<1>1. SpeedInv
  BY EmptySpeeds DEF Init
<1> QED
  BY <1>1, InitInv

------------------------------------------------------------------------------
(* The best plan *)

\* Induction through the queue from its end to the block behind the tail.
LEMMA QueueDown ==
  ASSUME NEW t \in Indices, NEW h \in Indices, NEW S,
         \A i \in QueueOf(t, h) \ {t} : (After(i) # h => After(i) \in S) => i \in S
  PROVE  QueueOf(t, h) \ {t} \subseteq S
<1> DEFINE Bad == {i \in QueueOf(t, h) \ {t} : i \notin S}
           Far == {Distance(t, i) : i \in Bad}
<1> SUFFICES ASSUME Bad # {} PROVE FALSE
  OBVIOUS
<1>1. \A i \in QueueOf(t, h) : i \in Indices /\ Distance(t, i) \in 0..(BufferSize - 1)
  BY RingDistance DEF QueueOf
<1>2. Far \subseteq 0..(BufferSize - 1) /\ Far # {} /\ BufferSize - 1 \in Nat
  BY <1>1, PlannerAssumption
<1>3. MaxIn(Far) \in Far /\ \A m \in Far : MaxIn(Far) >= m
  <2> HIDE DEF Far
  <2> QED
    BY <1>2, MaxInIs
<1>4. PICK i \in Bad : \A j \in Bad : Distance(t, i) >= Distance(t, j)
  BY <1>3
<1>5. i \in QueueOf(t, h) /\ i # t /\ i \notin S /\ i \in Indices
  BY <1>1
<1>6. After(i) # h /\ After(i) \notin S
  BY <1>5
<1>7. After(i) \in QueueOf(t, h) \ {t} /\ Before(After(i)) = i
  BY <1>5, <1>6, QueueNeighbours, RingSteps
<1>8. After(i) \in Bad
  BY <1>6, <1>7
<1>9. Distance(t, i) = Distance(t, After(i)) - 1
  <2>1. After(i) \in Indices /\ t # After(i)
    BY <1>1, <1>7
  <2> QED
    BY <1>7, <2>1, RingDistance
<1>10. Distance(t, After(i)) \in Nat /\ Distance(t, i) >= Distance(t, After(i))
  BY <1>1, <1>4, <1>7, <1>8, PlannerAssumption
<1> QED
  BY <1>9, <1>10

\* The highest entry speeds k from which the machine can slow down through the rest of the
\* queue within the limits of its blocks.
Backs(k, b, t, h) ==
  /\ k \in [Indices -> Nat] /\ k[h] = 0
  /\ \A i \in QueueOf(t, h) \ {t} : k[i] = MinOf(b[i].max, k[After(i)] + b[i].room)

\* In e every block is entered as fast as these and the block before it allow.
Fastest(k, e, t, h) ==
  \A i \in QueueOf(t, h) \ {t} :
    e[i].entry = MinOf(k[i], e[Before(i)].entry + e[Before(i)].room)

\* No block that is appended can raise the entry speed of block p, or of one before it.
Sealed(k, b, t, p) == p = t \/ b[p].entry < k[p] \/ b[p].entry = b[p].max

LEMMA CellNat ==
  ASSUME NEW b \in Ring, NEW i \in Indices
  PROVE  b[i].entry \in Nat /\ b[i].max \in Nat /\ b[i].room \in Nat
<1>1. b[i] \in Cell
  BY DEF Ring
<1> QED
  BY <1>1 DEF Cell

LEMMA QueueAfter ==
  ASSUME NEW t \in Indices, NEW h \in Indices, NEW i \in QueueOf(t, h) \ {t}
  PROVE  /\ i \in Indices /\ After(i) \in Indices /\ Before(i) \in QueueOf(t, h)
         /\ Before(i) \in Indices /\ After(Before(i)) = i
         /\ After(i) # h => After(i) \in QueueOf(t, h) \ {t}
<1>1. i \in Indices
  BY DEF QueueOf
<1>2. After(i) \in Indices /\ Before(i) \in Indices /\ After(Before(i)) = i /\ Before(After(i)) = i
  BY <1>1, RingSteps
<1>3. Before(i) \in QueueOf(t, h)
  BY QueueNeighbours
<1>4. After(i) # h => After(i) \in QueueOf(t, h) \ {t}
  <2>1. After(Before(h)) = h
    BY RingSteps
  <2> QED
    BY <1>2, <2>1, QueueNeighbours
<1> QED
  BY <1>1, <1>2, <1>3, <1>4

LEMMA BackExists ==
  ASSUME NEW b \in Ring, NEW t \in Indices, NEW h \in Indices
  PROVE  \E k : Backs(k, b, t, h)
<1>1. CASE t = h
  <2> DEFINE k == [i \in Indices |-> 0]
  <2>1. QueueOf(t, h) = {}
    BY <1>1, QueueEnds
  <2>2. Backs(k, b, t, h)
    BY <2>1 DEF Backs
  <2> QED
    BY <2>2
<1>2. CASE t # h
  <2> DEFINE n == Distance(t, h) - 1
             c == [i \in Indices |-> [b[i] EXCEPT !.entry = b[i].max + 1]]
             rev == ReversePass(c, t, n)
             k == [i \in Indices |-> IF i \in QueueOf(t, h) \ {t} THEN rev[Distance(t, i)] ELSE 0]
  <2>1. t \in QueueOf(t, h) /\ n = Distance(t, Before(h)) /\ h \notin QueueOf(t, h)
    BY <1>2, QueueEnds
  <2>2. n \in 0..(BufferSize - 1)
    BY <2>1, RingSteps, RingDistance
  <2>3. \A i \in Indices : c[i] \in Cell /\ c[i].max = b[i].max /\ c[i].room = b[i].room
                           /\ c[i].entry # c[i].max
    <3> SUFFICES ASSUME NEW i \in Indices
                 PROVE  c[i] \in Cell /\ c[i].max = b[i].max /\ c[i].room = b[i].room
                        /\ c[i].entry # c[i].max
      OBVIOUS
    <3>1. b[i] \in Cell /\ b[i].max \in Nat
      BY CellNat DEF Ring
    <3> QED
      BY <3>1 DEF Cell
  <2>4. c \in Ring
    BY <2>3 DEF Ring
  <2> HIDE DEF n, c
  <2>5. /\ rev \in [1..n -> Nat]
        /\ \A d \in 1..n : rev[d] =
             LET q == c[Place(t, d)]
             IN  IF d = n THEN MinOf(q.max, q.room)
                 ELSE IF q.entry = q.max THEN q.max
                 ELSE MinOf(q.max, rev[d + 1] + q.room)
    BY <2>2, <2>4, ReversePassIs
  <2> HIDE DEF rev
  <2>6. \A i \in QueueOf(t, h) \ {t} :
          /\ i \in Indices /\ Distance(t, i) \in 1..n /\ Place(t, Distance(t, i)) = i
          /\ Distance(t, i) = n <=> After(i) = h
          /\ Distance(t, i) # n => Distance(t, After(i)) = Distance(t, i) + 1
    <3> SUFFICES ASSUME NEW i \in QueueOf(t, h) \ {t}
                 PROVE  /\ i \in Indices /\ Distance(t, i) \in 1..n /\ Place(t, Distance(t, i)) = i
                        /\ Distance(t, i) = n <=> After(i) = h
                        /\ Distance(t, i) # n => Distance(t, After(i)) = Distance(t, i) + 1
      OBVIOUS
    <3>1. i \in Indices
      BY QueueAfter
    <3>2. Distance(t, t) = 0 /\ Distance(t, i) \in 0..(BufferSize - 1) /\ Distance(t, i) # 0
          /\ Distance(t, After(i)) = (IF Distance(t, i) = BufferSize - 1 THEN 0
                                      ELSE Distance(t, i) + 1)
      BY <3>1, RingDistance
    <3>3. Distance(t, i) \in 1..n
      BY <2>1, <3>1, <3>2, PassPlaces
    <3>4. /\ Place(t, Distance(t, i)) = i
          /\ Distance(t, i) = n <=> After(i) = h
      BY <2>1, <3>3, PassNeighbours
    <3>5. Distance(t, i) # n => Distance(t, i) # BufferSize - 1
      BY <2>2, <3>2, <3>3
    <3> QED
      BY <3>1, <3>2, <3>3, <3>4, <3>5
  <2>7. k \in [Indices -> Nat] /\ k[h] = 0
    BY <2>1, <2>5, <2>6
  <2>8. ASSUME NEW i \in QueueOf(t, h) \ {t}
        PROVE  k[i] = MinOf(b[i].max, k[After(i)] + b[i].room)
    <3>1. k[i] = rev[Distance(t, i)] /\ c[i].entry # c[i].max
          /\ c[i].max = b[i].max /\ c[i].room = b[i].room
      BY <2>3, <2>6
    <3>2. CASE After(i) = h
      <4>1. k[i] = MinOf(b[i].max, b[i].room) /\ k[After(i)] = 0 /\ b[i].room \in Nat
        BY <2>5, <2>6, <2>7, <3>1, <3>2, CellNat
      <4> QED
        BY <4>1
    <3>3. CASE After(i) # h
      <4>1. k[i] = MinOf(b[i].max, rev[Distance(t, i) + 1] + b[i].room)
        BY <2>5, <2>6, <3>1, <3>3
      <4>2. k[After(i)] = rev[Distance(t, i) + 1]
        BY <2>6, <3>3, QueueAfter
      <4> QED
        BY <4>1, <4>2
    <3> QED
      BY <3>2, <3>3
  <2> HIDE DEF k
  <2>9. Backs(k, b, t, h)
    BY <2>7, <2>8 DEF Backs
  <2> QED
    BY <2>9
<1> QED
  BY <1>1, <1>2

\* A plan that can be followed down is nowhere faster than that.
LEMMA EntriesBelow ==
  ASSUME NEW b \in Ring, NEW t \in Indices, NEW h \in Indices, NEW k, Backs(k, b, t, h),
         SlowsDown(b, t, h), \A i \in QueueOf(t, h) \ {t} : b[i].entry <= b[i].max
  PROVE  \A i \in QueueOf(t, h) \ {t} : b[i].entry <= k[i]
<1> DEFINE S == {i \in Indices : b[i].entry <= k[i]}
<1>1. ASSUME NEW i \in QueueOf(t, h) \ {t}, After(i) # h => After(i) \in S
      PROVE  i \in S
  <2>1. i \in Indices /\ After(i) \in Indices
    BY QueueAfter
  <2>2. b[i].entry \in Nat /\ b[i].max \in Nat /\ b[i].room \in Nat /\ b[After(i)].entry \in Nat
    BY <2>1, CellNat
  <2>3. k[i] = MinOf(b[i].max, k[After(i)] + b[i].room) /\ k[After(i)] \in Nat /\ k[h] = 0
    BY <2>1 DEF Backs
  <2>4. b[i].entry <= b[i].max /\ b[i].entry <= NextSpeed(b, h, i) + b[i].room
    BY DEF SlowsDown
  <2>5. NextSpeed(b, h, i) \in Nat /\ NextSpeed(b, h, i) <= k[After(i)]
    BY <1>1, <2>2, <2>3 DEF NextSpeed
  <2> QED
    BY <2>1, <2>2, <2>3, <2>4, <2>5 DEF MinOf
<1>2. QueueOf(t, h) \ {t} \subseteq S
  <2> HIDE DEF S
  <2> QED
    BY <1>1, QueueDown
<1> QED
  BY <1>2

\* A block that is appended does not lower the speeds the others may be entered at.
LEMMA BacksGrow ==
  ASSUME NEW b \in Ring, NEW d \in Ring, NEW t \in Indices, NEW h \in Indices, t # h, t # After(h),
         NEW k, Backs(k, b, t, h), NEW l, Backs(l, d, t, After(h)),
         \A i \in QueueOf(t, h) \ {t} : d[i].max = b[i].max /\ d[i].room = b[i].room
  PROVE  \A i \in QueueOf(t, h) \ {t} : k[i] <= l[i]
<1> DEFINE S == {i \in Indices : k[i] <= l[i]}
<1>1. QueueOf(t, After(h)) = QueueOf(t, h) \cup {h} /\ After(h) \in Indices
  BY QueueGrown, RingSteps
<1>2. ASSUME NEW i \in QueueOf(t, h) \ {t}, After(i) # h => After(i) \in S
      PROVE  i \in S
  <2>1. i \in Indices /\ After(i) \in Indices
    BY QueueAfter
  <2>2. b[i].max \in Nat /\ b[i].room \in Nat
    BY <2>1, CellNat
  <2>3. /\ k[i] = MinOf(b[i].max, k[After(i)] + b[i].room) /\ k[After(i)] \in Nat /\ k[h] = 0
        /\ l[i] = MinOf(b[i].max, l[After(i)] + b[i].room) /\ l[After(i)] \in Nat
    BY <1>1, <2>1 DEF Backs
  <2>4. k[After(i)] <= l[After(i)]
    BY <1>2, <2>3
  <2> QED
    BY <2>1, <2>2, <2>3, <2>4 DEF MinOf
<1>3. QueueOf(t, h) \ {t} \subseteq S
  <2> HIDE DEF S
  <2> QED
    BY <1>2, QueueDown
<1> QED
  BY <1>3

\* Once the old plan can be followed down, the reverse pass finds these speeds, also where it
\* skips a block at its maximum.
LEMMA PassBacks ==
  ASSUME NEW b \in Ring, NEW c, NEW t \in Indices, NEW h \in Indices, NEW p \in QueueOf(t, h),
         NEW n, n = Distance(p, Before(h)), NEW rev, Passes(b, c, p, n, rev),
         NEW k, Backs(k, b, t, h),
         SlowsDown(b, t, h), \A i \in QueueOf(t, h) \ {t} : b[i].entry <= b[i].max
  PROVE  \A i \in QueueOf(t, h) : Distance(p, i) \in 1..n => rev[Distance(p, i)] = k[i]
<1> DEFINE S == {i \in Indices : Distance(p, i) \in 1..n => rev[Distance(p, i)] = k[i]}
<1>1. /\ rev \in [1..n -> Nat]
      /\ \A d \in 1..n : rev[d] =
           LET q == b[Place(p, d)]
           IN  IF d = n THEN MinOf(q.max, q.room)
               ELSE IF q.entry = q.max THEN q.max ELSE MinOf(q.max, rev[d + 1] + q.room)
  BY DEF Passes
<1>2. \A i \in QueueOf(t, h) \ {t} : b[i].entry <= k[i]
  BY EntriesBelow
<1>3. p \in Indices /\ t # h
  BY QueueEnds DEF QueueOf
<1>4. ASSUME NEW i \in QueueOf(t, h) \ {t}, After(i) # h => After(i) \in S
      PROVE  i \in S
  <2> DEFINE d == Distance(p, i)
  <2> SUFFICES ASSUME d \in 1..n PROVE rev[d] = k[i]
    BY QueueAfter
  <2>1. i \in Indices /\ After(i) \in Indices
    BY QueueAfter
  <2>2. b[i].entry \in Nat /\ b[i].max \in Nat /\ b[i].room \in Nat
    BY <2>1, CellNat
  <2>3. k[i] = MinOf(b[i].max, k[After(i)] + b[i].room) /\ k[After(i)] \in Nat /\ k[h] = 0
    BY <2>1 DEF Backs
  <2>4. Place(p, d) = i /\ (d = n <=> After(i) = h) /\ n \in 0..(BufferSize - 1)
    BY PassNeighbours
  <2>5. b[i].entry <= k[i]
    BY <1>2
  <2>6. CASE After(i) = h
    <3>1. rev[d] = MinOf(b[i].max, b[i].room)
      <4> HIDE DEF d
      <4> QED
        BY <1>1, <2>4, <2>6
    <3> QED
      BY <2>2, <2>3, <2>6, <3>1
  <2>7. CASE After(i) # h
    <3>1. d + 1 \in 1..n
      BY <2>4, <2>7
    <3>2. d + 1 = Distance(p, After(i))
      <4>1. n \in 0..(BufferSize - 1) /\ d # BufferSize - 1
        BY <2>4, <2>7, PassNeighbours
      <4> QED
        BY <1>3, <2>1, <4>1, RingDistance
    <3>3. rev[d + 1] = k[After(i)]
      BY <1>4, <2>7, <3>1, <3>2
    <3>4. rev[d] = IF b[i].entry = b[i].max THEN b[i].max
                   ELSE MinOf(b[i].max, rev[d + 1] + b[i].room)
      <4> HIDE DEF d
      <4> QED
        BY <1>1, <2>4, <2>7
    <3> HIDE DEF d
    <3> QED
      BY <2>2, <2>3, <2>5, <3>3, <3>4 DEF MinOf
  <2> QED
    BY <2>6, <2>7
<1>5. QueueOf(t, h) \ {t} \subseteq S
  <2> HIDE DEF S
  <2> QED
    BY <1>4, QueueDown
<1>6. Distance(p, t) \notin 1..n
  <2>1. Distance(t, t) = 0 /\ Distance(t, p) \in Nat
    BY <1>3, RingDistance
  <2> QED
    BY <2>1, PassPlaces
<1> QED
  BY <1>5, <1>6

\* In c every block behind p is entered as fast as it can be, and q is p or a sealed block.
FastestBehind(k, c, t, h, p, q) ==
  /\ \A i \in QueueOf(t, h) : Distance(p, i) \in 1..Distance(p, Before(h)) =>
       c[i].entry = MinOf(k[i], c[Before(i)].entry + c[Before(i)].room)
  /\ q = p \/ c[q].entry < k[q] \/ c[q].entry = c[q].max

\* What a plan made again from block p on gives behind p, and where it leaves the pointer.
LEMMA ReplanFastest ==
  ASSUME NEW b, NEW c, NEW t \in Indices, NEW h \in Indices, NEW p \in QueueOf(t, h),
         Replanned(b, c, h, p), SlowsDown(b, t, h),
         \A i \in QueueOf(t, h) \ {t} : b[i].entry <= b[i].max,
         NEW k, Backs(k, b, t, h), NEW q, Seals(b, c, p, Distance(p, Before(h)), q)
  PROVE  FastestBehind(k, c, t, h, p, q)
<1> DEFINE n == Distance(p, Before(h))
<1>1. b \in Ring /\ c \in Ring /\ SameBlocks(b, c) /\ p \in Indices /\ Place(p, 0) = p
  BY RingPlace, PlannerAssumption DEF Replanned, QueueOf
<1>2. PICK rev, m : /\ Passes(b, c, p, n, rev)
                    /\ m \in 0..n /\ q = Place(p, m)
                    /\ m > 0 => c[q].entry < rev[m] \/ c[q].entry = c[q].max
  BY DEF Seals
<1>3. n \in 0..(BufferSize - 1)
  BY RingSteps, RingDistance, <1>1
<1> HIDE DEF n
<1>4. \A i \in QueueOf(t, h) : Distance(p, i) \in 1..n => rev[Distance(p, i)] = k[i]
  BY <1>1, <1>2, PassBacks DEF n
<1>5. ASSUME NEW i \in QueueOf(t, h), Distance(p, i) \in 1..n
      PROVE  c[i].entry = MinOf(k[i], c[Before(i)].entry + c[Before(i)].room)
  <2>1. Place(p, Distance(p, i)) = i /\ Place(p, Distance(p, i) - 1) = Before(i)
    BY <1>5, PassNeighbours DEF n
  <2>2. c[i].entry = MinOf(rev[Distance(p, i)], c[Before(i)].entry + b[Before(i)].room)
    BY <1>2, <1>5, <2>1 DEF Passes
  <2>3. c[Before(i)].room = b[Before(i)].room
    <3>1. Before(i) \in Indices
      BY RingSteps DEF QueueOf
    <3> QED
      BY <1>1, <3>1 DEF SameBlocks
  <2> QED
    BY <1>4, <1>5, <2>2, <2>3
<1>6. ASSUME q # p PROVE c[q].entry < k[q] \/ c[q].entry = c[q].max
  <2>1. m > 0 /\ m \in 1..n
    BY <1>1, <1>2, <1>6, <1>3
  <2>2. q \in Indices /\ Distance(p, q) = m
    BY <1>1, <1>2, <1>3, <2>1, RingPlace, PlannerAssumption
  <2>3. q \in QueueOf(t, h)
    BY <2>1, <2>2, PassPlaces DEF n
  <2>4. rev[m] = k[q]
    BY <1>4, <2>1, <2>2, <2>3
  <2> QED
    BY <1>2, <2>1, <2>4
<1> QED
  BY <1>5, <1>6 DEF n, FastestBehind

\* Up to a sealed block the plan stays the fastest when a block is appended.
LEMMA KeptFastest ==
  ASSUME NEW e \in Ring, NEW d \in Ring, NEW t \in Indices, NEW h \in Indices, t # After(h),
         NEW p \in QueueOf(t, h),
         NEW k, Backs(k, e, t, h), Fastest(k, e, t, h), Sealed(k, e, t, p),
         NEW l, Backs(l, d, t, After(h)),
         \A i \in QueueOf(t, h) \ {t} : d[i].max = e[i].max /\ d[i].room = e[i].room
  PROVE  /\ \A i \in QueueOf(t, h) \ {t} : Distance(t, i) <= Distance(t, p) =>
              e[i].entry = MinOf(l[i], e[Before(i)].entry + e[Before(i)].room)
         /\ Sealed(l, e, t, p)
<1> DEFINE S == {i \in Indices : Distance(t, i) <= Distance(t, p) => e[i].entry < k[i] \/ k[i] = l[i]}
<1>1. t # h /\ p \in Indices /\ h \notin QueueOf(t, h)
  BY QueueEnds DEF QueueOf
<1>2. \A i \in QueueOf(t, h) \ {t} : k[i] <= l[i]
  BY <1>1, BacksGrow
<1>3. QueueOf(t, After(h)) = QueueOf(t, h) \cup {h} /\ After(h) \in Indices
  BY QueueGrown, RingSteps
<1>4. \A i \in QueueOf(t, h) \ {t} :
        /\ i \in Indices /\ After(i) \in Indices /\ Before(i) \in Indices
        /\ e[i].entry \in Nat /\ e[i].max \in Nat /\ e[i].room \in Nat
        /\ e[Before(i)].entry \in Nat /\ e[Before(i)].room \in Nat
        /\ k[i] \in Nat /\ l[i] \in Nat /\ k[After(i)] \in Nat /\ l[After(i)] \in Nat
        /\ k[i] = MinOf(e[i].max, k[After(i)] + e[i].room)
        /\ l[i] = MinOf(e[i].max, l[After(i)] + e[i].room)
        /\ e[i].entry = MinOf(k[i], e[Before(i)].entry + e[Before(i)].room)
  <2> SUFFICES ASSUME NEW i \in QueueOf(t, h) \ {t}
               PROVE  /\ i \in Indices /\ After(i) \in Indices /\ Before(i) \in Indices
                      /\ e[i].entry \in Nat /\ e[i].max \in Nat /\ e[i].room \in Nat
                      /\ e[Before(i)].entry \in Nat /\ e[Before(i)].room \in Nat
                      /\ k[i] \in Nat /\ l[i] \in Nat /\ k[After(i)] \in Nat /\ l[After(i)] \in Nat
                      /\ k[i] = MinOf(e[i].max, k[After(i)] + e[i].room)
                      /\ l[i] = MinOf(e[i].max, l[After(i)] + e[i].room)
                      /\ e[i].entry = MinOf(k[i], e[Before(i)].entry + e[Before(i)].room)
    OBVIOUS
  <2>1. i \in Indices /\ After(i) \in Indices /\ Before(i) \in Indices
    BY QueueAfter
  <2>2. /\ e[i].entry \in Nat /\ e[i].max \in Nat /\ e[i].room \in Nat
        /\ e[Before(i)].entry \in Nat /\ e[Before(i)].room \in Nat
    BY <2>1, CellNat
  <2>3. k \in [Indices -> Nat] /\ l \in [Indices -> Nat]
    BY DEF Backs
  <2>4. /\ k[i] = MinOf(e[i].max, k[After(i)] + e[i].room)
        /\ l[i] = MinOf(e[i].max, l[After(i)] + e[i].room)
        /\ e[i].entry = MinOf(k[i], e[Before(i)].entry + e[Before(i)].room)
    BY <1>3 DEF Backs, Fastest
  <2> QED
    BY <2>1, <2>2, <2>3, <2>4
<1>5. ASSUME p # t
      PROVE  e[p].entry < k[p] \/ k[p] = l[p]
  <2>1. p \in QueueOf(t, h) \ {t}
    BY <1>5
  <2>2. e[p].entry < k[p] \/ e[p].entry = e[p].max
    BY <1>5 DEF Sealed
  <2> QED
    BY <1>2, <1>4, <2>1, <2>2 DEF MinOf
<1>6. \A i \in QueueOf(t, h) : Distance(t, i) \in Nat /\ (Distance(t, i) = Distance(t, p) => i = p)
                               /\ i \in Indices
  BY <1>1, RingDistance DEF QueueOf
<1>7. ASSUME NEW i \in QueueOf(t, h) \ {t}, After(i) # h => After(i) \in S
      PROVE  i \in S
  <2> SUFFICES ASSUME Distance(t, i) <= Distance(t, p)
               PROVE  e[i].entry < k[i] \/ k[i] = l[i]
    BY <1>4
  <2>1. CASE i = p
    BY <1>5, <2>1
  <2>2. CASE i # p
    <3>1. Distance(t, i) < Distance(t, p)
      BY <1>6, <2>2
    <3>2. After(i) # h
      <4>1. Distance(t, p) < Distance(t, h) /\ Distance(t, h) \in 0..(BufferSize - 1)
        BY RingDistance DEF QueueOf
      <4>2. Distance(t, After(i)) = IF Distance(t, i) = BufferSize - 1 THEN 0 ELSE Distance(t, i) + 1
        BY <1>6, RingDistance
      <4> QED
        BY <1>6, <3>1, <4>1, <4>2, PlannerAssumption
    <3>3. After(i) \in QueueOf(t, h) \ {t} /\ Before(After(i)) = i
      BY <1>4, <3>2, QueueAfter, RingSteps
    <3>4. Distance(t, After(i)) <= Distance(t, p)
      <4>1. Distance(t, After(i)) = IF Distance(t, i) = BufferSize - 1 THEN 0 ELSE Distance(t, i) + 1
        BY <1>6, RingDistance
      <4> QED
        BY <1>6, <3>1, <4>1
    <3>5. e[After(i)].entry < k[After(i)] \/ k[After(i)] = l[After(i)]
      BY <1>7, <3>2, <3>4
    <3>6. e[After(i)].entry = MinOf(k[After(i)], e[i].entry + e[i].room)
      BY <1>4, <3>3
    <3>7. k[i] <= l[i]
      BY <1>2
    <3> QED
      BY <1>4, <3>5, <3>6, <3>7 DEF MinOf
  <2> QED
    BY <2>1, <2>2
<1>8. QueueOf(t, h) \ {t} \subseteq S
  <2> HIDE DEF S
  <2> QED
    BY <1>7, QueueDown
<1>9. \A i \in QueueOf(t, h) \ {t} : Distance(t, i) <= Distance(t, p) =>
        e[i].entry = MinOf(l[i], e[Before(i)].entry + e[Before(i)].room)
  <2> SUFFICES ASSUME NEW i \in QueueOf(t, h) \ {t}, Distance(t, i) <= Distance(t, p)
               PROVE  e[i].entry = MinOf(l[i], e[Before(i)].entry + e[Before(i)].room)
    OBVIOUS
  <2>1. e[i].entry < k[i] \/ k[i] = l[i]
    BY <1>8
  <2>2. k[i] <= l[i]
    BY <1>2
  <2> QED
    BY <1>4, <2>1, <2>2 DEF MinOf
<1>10. Sealed(l, e, t, p)
  <2>1. p # t => p \in QueueOf(t, h) \ {t}
    OBVIOUS
  <2>2. p # t => k[p] <= l[p] /\ e[p].entry \in Nat /\ k[p] \in Nat /\ l[p] \in Nat
    BY <1>2, <1>4, <2>1
  <2> QED
    BY <2>2 DEF Sealed
<1> QED
  BY <1>9, <1>10

\* k shows that the plan is the best one there is: every queued block is entered as fast as the
\* blocks behind it and the speed at the tail allow, and the planned pointer is at a sealed one.
Optimum(k) ==
  /\ Backs(k, block, tail, head)
  /\ \A i \in QueueOf(tail, head) \ {tail} :
       block[i].entry = MinOf(k[i], Speed(Before(i)) + block[Before(i)].room)
  /\ Sealed(k, block, tail, planned)

BestInv == ~slowed /\ control \in {"normal", "held"} /\ tail # head => \E k : Optimum(k)

\* A step that plans the whole queue again, where no limit is below a planned speed.
LEMMA ReplannedBest ==
  ASSUME PlannerInv, SpeedInv, tail' = tail, head' = head, tail # head, ~slowed,
         NEW b \in Ring, NEW r, Reinitialized(b, exec, r),
         \A i \in Indices : b[i].room = block[i].room /\ b[i].entry = block[i].entry,
         \A i \in QueueOf(tail, head) \ {tail} : b[i].entry <= b[i].max,
         \A i \in QueueOf(tail, head) : block'[i] = r.block[i],
         planned' = r.planned, ~exec'.loaded
  PROVE  \E k : Optimum(k)'
<1> DEFINE c == r.block
           e == block'
           n == Distance(tail, Before(head))
           q == r.planned
<1> PICK d : d = StUpdate(b, exec).block
  OBVIOUS
<1>1. /\ tail \in Indices /\ head \in Indices /\ block \in Ring /\ Before(head) \in Indices
  BY StateTypes, RingSteps
<1>2. /\ QueueOf(tail, head) \subseteq Indices /\ tail \in QueueOf(tail, head)
  BY <1>1, QueueEnds
<1>3. /\ Replanned(d, c, head, tail)
      /\ \A i \in QueueOf(tail, head) : d[i].room = block[i].room /\ d[i].max = b[i].max
      /\ \A i \in QueueOf(tail, head) \ {tail} : d[i].entry = block[i].entry
      /\ n = Distance(tail, head) - 1
  BY ReinitializedPlan
<1>4. d \in Ring /\ c \in Ring /\ SameBlocks(d, c)
  BY <1>3 DEF Replanned
<1>5. q \in QueueOf(tail, head) /\ Seals(d, c, tail, n, q)
  BY <1>3 DEF Reinitialized
<1> HIDE DEF c, n, e, q
<1>6. \A i \in QueueOf(tail, head) : e[i] = c[i]
  BY DEF c, e
<1>7. SlowsDown(d, tail, head)
  <2>1. SlowsDown(block, tail, head) => SlowsDown(d, tail, head)
    BY <1>1, <1>3, SamePlan
  <2> QED
    BY <2>1 DEF SpeedInv
<1>8. \A i \in QueueOf(tail, head) \ {tail} : d[i].entry <= d[i].max
  BY <1>2, <1>3
<1>9. PICK k : Backs(k, d, tail, head)
  BY <1>1, <1>4, BackExists
<1>10. /\ \A i \in QueueOf(tail, head) : Distance(tail, i) \in 1..n =>
            c[i].entry = MinOf(k[i], c[Before(i)].entry + c[Before(i)].room)
       /\ q = tail \/ c[q].entry < k[q] \/ c[q].entry = c[q].max
  <2>1. FastestBehind(k, c, tail, head, tail, q)
    BY <1>1, <1>2, <1>3, <1>5, <1>7, <1>8, <1>9, ReplanFastest DEF n
  <2> QED
    BY <2>1 DEF FastestBehind, n
<1>11. \A i \in QueueOf(tail, head) \ {tail} : Distance(tail, i) \in 1..n
  <2> SUFFICES ASSUME NEW i \in QueueOf(tail, head) \ {tail} PROVE Distance(tail, i) \in 1..n
    OBVIOUS
  <2>1. i \in Indices /\ Distance(tail, tail) = 0 /\ Distance(tail, i) \in Nat /\ Distance(tail, i) # 0
    BY <1>1, <1>2, RingDistance
  <2> QED
    BY <1>1, <1>2, <2>1, PassPlaces DEF n
<1>12. Backs(k, e, tail, head)
  <2>1. \A i \in QueueOf(tail, head) : e[i].max = d[i].max /\ e[i].room = d[i].room
    BY <1>2, <1>4, <1>6 DEF SameBlocks
  <2> QED
    BY <1>9, <2>1 DEF Backs
<1>13. ASSUME NEW i \in QueueOf(tail, head) \ {tail}
       PROVE  e[i].entry = MinOf(k[i], Speed(Before(i))' + e[Before(i)].room)
  <2>1. Before(i) \in QueueOf(tail, head)
    BY <1>1, QueueAfter
  <2>2. Speed(Before(i))' = e[Before(i)].entry
    BY DEF Speed, e
  <2> QED
    BY <1>6, <1>10, <1>11, <2>1, <2>2
<1>14. Sealed(k, e, tail, q)
  BY <1>5, <1>6, <1>10 DEF Sealed
<1>15. Optimum(k)'
  BY <1>12, <1>13, <1>14 DEF Optimum, e, q
<1> QED
  BY <1>15

\* A line behind others: the plan is made again behind the planned pointer only, and what is
\* before it was the best already.
LEMMA NextLineBest ==
  ASSUME PlannerInv, SpeedInv, BestInv, NEW l \in Lines, BufferLine(l), tail # head,
         ~slowed, control = "normal"
  PROVE  \E k : Optimum(k)'
<1> DEFINE H == After(head)
           c == block'
           n == Distance(planned, head)
           e == [block EXCEPT ![tail].entry = Speed(tail)]
           q == planned'
<1> PICK d : LinePlanned(d)
  BY LineIsPlanned
<1>1. /\ tail \in Indices /\ head \in Indices /\ block \in Ring /\ planned \in Indices
      /\ exec.speed \in Nat /\ \A i \in Indices : block[i].entry \in Nat
  BY StateTypes DEF PlannerInv, Types, TypeOK
<1>2. head' = H /\ tail' = tail /\ tail # H
  BY DEF BufferLine, IsFull
<1>3. H \in Indices /\ Before(H) = head
  BY <1>1, RingSteps
<1>4. /\ QueueOf(tail, H) = QueueOf(tail, head) \cup {head} /\ head \notin QueueOf(tail, head)
      /\ tail \in QueueOf(tail, head) /\ QueueOf(tail, head) \subseteq Indices
  BY <1>1, <1>2, QueueGrown, QueueEnds
<1>5. planned \in QueueOf(tail, head) /\ planned \in QueueOf(tail, H)
  <2>1. Queued = QueueOf(tail, head)
    BY <1>1, QueuedIs
  <2> QED
    BY <1>4, <2>1 DEF PlannerInv, PlannedInQueue, IsEmpty
<1>6. /\ Replanned(d, c, H, planned) /\ Seals(d, c, planned, n, q)
      /\ \A i \in QueueOf(tail, head) : d[i].room = block[i].room
      /\ \A i \in QueueOf(tail, head) \ {tail} : d[i].entry = block[i].entry /\ d[i].max = block[i].max
      /\ d[head].entry = 0 /\ d[head].room \in Nat
      /\ planned = tail => d[tail].entry = Speed(tail)
      /\ \A j \in QueueOf(tail, H) \ {tail} : d[j].entry <= d[j].max
      /\ c[tail].entry = d[tail].entry /\ Speed(tail)' = Speed(tail)
  BY DEF LinePlanned
<1>7. /\ d \in Ring /\ c \in Ring /\ SameBlocks(d, c)
      /\ \A i \in Indices : Distance(planned, i) \notin 1..n => c[i].entry = d[i].entry
  BY <1>3, <1>6 DEF Replanned
<1>8. /\ e \in Ring /\ e[tail].entry = Speed(tail) /\ SameBlocks(block, e)
      /\ \A i \in Indices \ {tail} : e[i].entry = block[i].entry
  <2>1. Speed(tail) \in Nat
    BY <1>1 DEF Speed
  <2> QED
    BY <1>1, <2>1 DEF Ring, Cell, SameBlocks
<1> HIDE DEF c, H, n, e, q
<1>9. SlowsDown(d, tail, H)
  <2>1. SlowsDown(block, tail, head) => SlowsDown(d, tail, H)
    BY <1>1, <1>2, <1>6, Appended DEF H
  <2> QED
    BY <2>1 DEF SpeedInv
<1>10. PICK k : Optimum(k)
  BY DEF BestInv
<1>11. PICK m : Backs(m, d, tail, H)
  BY <1>1, <1>3, <1>7, BackExists
\* Behind the pointer.
<1>12. /\ \A i \in QueueOf(tail, H) : Distance(planned, i) \in 1..n =>
            c[i].entry = MinOf(m[i], c[Before(i)].entry + c[Before(i)].room)
       /\ q = planned \/ c[q].entry < m[q] \/ c[q].entry = c[q].max
  <2>1. n = Distance(planned, Before(H))
    BY <1>3 DEF n
  <2>2. FastestBehind(m, c, tail, H, planned, q)
    BY <1>1, <1>3, <1>5, <1>6, <1>9, <1>11, <2>1, ReplanFastest
  <2> QED
    BY <2>1, <2>2 DEF FastestBehind
\* Up to the pointer.
<1>13. /\ \A i \in QueueOf(tail, head) \ {tail} : Distance(tail, i) <= Distance(tail, planned) =>
            e[i].entry = MinOf(m[i], e[Before(i)].entry + e[Before(i)].room)
       /\ Sealed(m, e, tail, planned)
  <2>1. Backs(k, e, tail, head)
    BY <1>4, <1>8, <1>10 DEF Optimum, Backs, SameBlocks
  <2>2. Fastest(k, e, tail, head)
    <3> SUFFICES ASSUME NEW i \in QueueOf(tail, head) \ {tail}
                 PROVE  e[i].entry = MinOf(k[i], e[Before(i)].entry + e[Before(i)].room)
      BY DEF Fastest
    <3>1. i \in Indices /\ Before(i) \in Indices
      BY <1>1, QueueAfter
    <3>2. Speed(Before(i)) = e[Before(i)].entry
      BY <1>8, <3>1 DEF Speed
    <3> QED
      BY <1>8, <1>10, <3>1, <3>2 DEF Optimum, SameBlocks
  <2>3. Sealed(k, e, tail, planned)
    BY <1>1, <1>8, <1>10 DEF Optimum, Sealed, SameBlocks
  <2>4. \A i \in QueueOf(tail, head) \ {tail} : d[i].max = e[i].max /\ d[i].room = e[i].room
    BY <1>4, <1>6, <1>8 DEF SameBlocks
  <2> QED
    BY <1>1, <1>2, <1>5, <1>7, <1>8, <1>11, <2>1, <2>2, <2>3, <2>4, KeptFastest DEF H
<1>14. \A i \in QueueOf(tail, H) : i \in Indices /\ Distance(tail, i) \in Nat
                                   /\ Distance(tail, planned) \in Nat
  BY <1>1, <1>4, RingDistance
<1>15. \A i \in QueueOf(tail, H) : Distance(planned, i) \in 1..n
                                     <=> Distance(tail, i) > Distance(tail, planned)
  BY <1>1, <1>3, <1>5, <1>14, PassPlaces DEF n
<1>16. \A i \in QueueOf(tail, head) \ {tail} : Distance(tail, i) <= Distance(tail, planned) =>
         c[i].entry = e[i].entry
  BY <1>4, <1>6, <1>7, <1>8, <1>14, <1>15
<1>17. \A i \in QueueOf(tail, head) : c[i].room = e[i].room
  BY <1>4, <1>6, <1>7, <1>8 DEF SameBlocks
<1>18. ASSUME NEW i \in QueueOf(tail, H) \ {tail}
       PROVE  c[i].entry = MinOf(m[i], Speed(Before(i))' + c[Before(i)].room)
  <2>1. i \in Indices /\ Before(i) \in Indices /\ Before(i) \in QueueOf(tail, H)
    BY <1>1, <1>3, QueueAfter
  <2>2. Before(i) # tail => Speed(Before(i))' = c[Before(i)].entry
    BY <1>2 DEF Speed, c
  <2>3. Distance(tail, Before(i)) = Distance(tail, i) - 1 /\ Distance(tail, tail) = 0
    BY <1>1, <2>1, RingDistance
  <2>4. CASE Distance(tail, i) > Distance(tail, planned)
    <3>1. c[i].entry = MinOf(m[i], c[Before(i)].entry + c[Before(i)].room)
      BY <1>12, <1>15, <2>4
    <3>2. ASSUME Before(i) = tail PROVE Speed(Before(i))' = c[Before(i)].entry
      <4>1. Distance(tail, planned) = 0
        BY <1>14, <2>3, <2>4, <3>2
      <4>2. planned = tail
        BY <1>1, <4>1, RingDistance
      <4> QED
        BY <1>2, <1>6, <3>2, <4>2
    <3> QED
      BY <2>2, <3>1, <3>2
  <2>5. CASE ~(Distance(tail, i) > Distance(tail, planned))
    <3>1. Distance(tail, i) <= Distance(tail, planned)
      BY <1>14, <2>5
    <3>2. i \in QueueOf(tail, head) \ {tail}
      <4>1. Distance(tail, planned) < Distance(tail, head)
        BY <1>5 DEF QueueOf
      <4>2. Distance(tail, head) \in Nat
        BY <1>1, RingDistance
      <4>3. i # head
        BY <1>14, <3>1, <4>1, <4>2
      <4> QED
        BY <1>4, <4>3
    <3>3. Before(i) \in QueueOf(tail, head)
      BY <1>1, <3>2, QueueAfter
    <3>4. Distance(tail, Before(i)) <= Distance(tail, planned)
      BY <1>14, <2>1, <2>3, <3>1
    <3>5. Speed(Before(i))' = e[Before(i)].entry
      <4>1. CASE Before(i) = tail
        BY <1>2, <1>6, <1>8, <4>1
      <4>2. CASE Before(i) # tail
        BY <1>16, <2>2, <3>3, <3>4, <4>2
      <4> QED
        BY <4>1, <4>2
    <3> QED
      BY <1>13, <1>16, <1>17, <3>1, <3>2, <3>3, <3>5
  <2> QED
    BY <2>4, <2>5
<1>19. Backs(m, c, tail, H)
  BY <1>7, <1>11, <1>14 DEF Backs, SameBlocks
<1>20. Sealed(m, c, tail, q)
  <2>1. CASE q # planned
    BY <1>12, <2>1 DEF Sealed
  <2>2. CASE q = planned /\ planned # tail
    <3>1. c[planned].entry = e[planned].entry
      BY <1>5, <1>14, <1>16, <2>2
    <3>2. c[planned].max = e[planned].max
      BY <1>1, <1>5, <1>6, <1>7, <1>8, <2>2 DEF SameBlocks
    <3> QED
      BY <1>13, <2>2, <3>1, <3>2 DEF Sealed
  <2> QED
    BY <2>1, <2>2 DEF Sealed
<1>21. Optimum(m)'
  BY <1>2, <1>18, <1>19, <1>20 DEF Optimum, c, q
<1> QED
  BY <1>21

\* A line in an empty queue: there is nothing behind the tail.
LEMMA FirstLineBest ==
  ASSUME PlannerInv, PlannerInv', NEW l \in Lines, BufferLine(l), tail = head
  PROVE  \E k : Optimum(k)'
<1> DEFINE H == After(head)
           k == [i \in Indices |-> 0]
<1>1. tail \in Indices /\ head \in Indices /\ H \in Indices /\ tail' = tail /\ head' = H
      /\ tail # H
  BY StateTypes, RingSteps DEF BufferLine, IsFull
<1>2. QueueOf(tail, H) = {tail}
  BY <1>1, QueueGrown, QueueEnds
<1>3. Queued' = QueueOf(tail', head')
  BY <1>1, QueuedIs
<1>4. planned' = tail
  BY <1>1, <1>2, <1>3 DEF PlannerInv, PlannedInQueue, IsEmpty
<1>5. Backs(k, block', tail, H)
  BY <1>1, <1>2 DEF Backs
<1>6. Optimum(k)'
  BY <1>1, <1>2, <1>4, <1>5 DEF Optimum, Sealed
<1> QED
  BY <1>6

\* A profile is never begun faster than the block at the tail is planned to be entered at.
LEMMA SegmentBegins ==
  ASSUME PlannerInv, SpeedInv, tail # head, ~slowed, control = "normal",
         NEW x, x = (IF exec.loaded THEN exec ELSE Load)
  PROVE  x.speed <= Speed(tail)
<1>1. exec.speed \in Nat /\ block[tail].entry \in Nat
  BY StateTypes
<1>2. CASE exec.loaded
  BY <1>1, <1>2, SpeedAtTail DEF Parking
<1>3. CASE ~exec.loaded
  <2>1. PlBlock = tail /\ Speed(tail) = block[tail].entry
    BY <1>3, SpeedAtTail DEF PlBlock
  <2>2. exec.recalc => block[tail].entry = exec.speed
    BY <2>1 DEF PlannerInv, ProfileFits
  <2>3. ~exec.recalc => exec.exit <= block[tail].entry
    BY <1>3 DEF SpeedInv, BetweenBlocks, IsEmpty
  <2>4. x.speed = IF exec.recalc THEN exec.speed
                  ELSE IF exec.declOvr THEN exec.exit ELSE block[tail].entry
    BY <1>3, <2>1 DEF Load
  <2> QED
    BY <1>1, <2>1, <2>2, <2>3, <2>4
<1> QED
  BY <1>2, <1>3

\* A segment speeds up by no more than its length allows.
LEMMA SegmentSpeedsUp ==
  ASSUME NEW x \in Execution, NEW b \in Cell, Fits(x, b.room), control = "normal",
         NEW c \in 0..b.room, b.room - c # 0
  PROVE  SpeedAfter(x, b, c) <= x.speed + c
<1> DEFINE left == b.room - c
           down == x.speed - c
           v == SpeedAfter(x, b, c)
<1>1. /\ x.speed \in Nat /\ x.exit \in Nat /\ x.top \in Nat /\ b.room \in Nat /\ c \in Nat
      /\ x.complete = 0 /\ left \in Nat
  BY DEF Execution, Cell, Fits
<1>2. v = IF x.speed > x.top
          THEN IF down >= x.top THEN down ELSE MinOf(x.top, x.exit + left)
          ELSE MaxOf(down, MinOf(MinOf(x.speed + c, x.top), x.exit + left))
  BY <1>1 DEF SpeedAfter
<1> HIDE DEF v
<1>3. v <= x.speed + c
  BY <1>1, <1>2 DEF MinOf, MaxOf
<1> QED
  BY <1>3 DEF v

\* A segment that leaves something of the block: the block behind it is entered as fast as
\* before, and can still be.
LEMMA PartialBest ==
  ASSUME PlannerInv, SpeedInv, SpeedInv', Prep, control = "normal", control' = "normal",
         tail' = tail, ~slowed, NEW k, Optimum(k)
  PROVE  Optimum(k)'
<1> PICK x, b, c : Segment(x, b, c)
  BY PrepIs
<1> DEFINE e == block'
           v == SpeedAfter(x, b[tail], c)
           left == b[tail].room - c
<1>1. /\ tail \in Indices /\ head \in Indices /\ block \in Ring /\ exec \in Execution
      /\ PlBlock = tail /\ b \in Ring /\ tail # head /\ After(tail) \in Indices /\ After(tail) # tail
      /\ x \in Execution
  BY StateTypes, RingSteps DEF PlBlock, Segment, Prep, IsEmpty, Loads
<1>2. /\ b[tail] \in Cell /\ b[tail].room = block[tail].room /\ Fits(x, b[tail].room)
  BY <1>1 DEF Ring, Segment, SameBlocks, Loads
<1>3. /\ x.speed \in Nat /\ x.complete = 0 /\ b[tail].room \in Nat
  BY <1>1, <1>2 DEF Execution, Cell, Fits
<1>4. c \in 0..b[tail].room /\ left \in Nat /\ left + c = b[tail].room
  <2>1. c \in IF b[tail].room - x.complete = 0 THEN {0} ELSE 1..(b[tail].room - x.complete)
    BY <1>1 DEF Segment
  <2> QED
    BY <1>3, <2>1
<1>5. /\ e = [b EXCEPT ![tail].room = left] /\ head' = head /\ planned' = planned
      /\ exec' = [[x EXCEPT !.speed = v] EXCEPT !.partial = @ \/ (left = x.complete /\ control = "hold")]
      /\ left # 0
  BY <1>1, <1>3 DEF Segment, Prep
<1> HIDE DEF v, left, e
<1>6. v <= x.speed + c /\ v \in Nat
  BY <1>1, <1>2, <1>3, <1>4, <1>5, SegmentSpeedsUp, SpeedAfterIs DEF v, left
<1>7. x.speed <= Speed(tail)
  BY <1>1, SegmentBegins DEF Segment
<1>8. /\ e[tail].room = left /\ e[tail].max = block[tail].max /\ \A i \in Indices \ {tail} : e[i] = block[i]
  <2>1. \A i \in Indices \ {tail} : b[i] = block[i]
    BY <1>1 DEF Segment
  <2>2. b[tail].max = block[tail].max
    BY <1>1 DEF Segment, SameBlocks
  <2> QED
    BY <1>1, <1>2, <1>5, <2>1, <2>2 DEF Ring, Cell
<1>9. Speed(tail)' = v
  <2>1. x.loaded = TRUE
    BY <1>1 DEF Segment, Loads, Execution
  <2>2. exec'.loaded /\ exec'.speed = v
    BY <1>1, <1>5, <2>1 DEF Execution
  <2> QED
    BY <2>2 DEF Speed, PlBlock
<1>10. QueueOf(tail, head) \subseteq Indices /\ tail \in QueueOf(tail, head)
  BY <1>1, QueueEnds
<1>11. Backs(k, e, tail, head)
  BY <1>8, <1>10 DEF Optimum, Backs
<1>12. Sealed(k, e, tail, planned)
  <2>1. planned \in Indices
    BY DEF PlannerInv, Types, TypeOK
  <2> QED
    BY <1>8, <2>1 DEF Optimum, Sealed
<1>13. ASSUME NEW i \in QueueOf(tail, head) \ {tail}
       PROVE  e[i].entry = MinOf(k[i], Speed(Before(i))' + e[Before(i)].room)
  <2>1. /\ i \in Indices /\ Before(i) \in Indices /\ After(Before(i)) = i
        /\ e[i] = block[i] /\ block[i].entry \in Nat /\ k[i] \in Nat
        /\ block[i].entry = MinOf(k[i], Speed(Before(i)) + block[Before(i)].room)
    BY <1>1, <1>8, <1>10, QueueAfter, CellNat DEF Optimum, Backs
  <2>2. CASE Before(i) # tail
    <3>1. Speed(Before(i))' = e[Before(i)].entry /\ Speed(Before(i)) = block[Before(i)].entry
      BY <1>1, <2>2 DEF Speed, e
    <3> QED
      BY <1>8, <2>1, <2>2, <3>1
  <2>3. CASE Before(i) = tail
    <3>1. After(tail) = i /\ i # head
      BY <1>1, <2>1, <2>3, QueueEnds
    <3>2. ExitSpeed' = e[i].entry
      BY <1>5, <3>1 DEF ExitSpeed, e
    <3>3. ExitSpeed' <= Speed(tail)' + e[tail].room
      BY <1>1, <1>5 DEF SpeedInv, TailSpeeds, IsEmpty, e
    <3>4. block[i].entry = MinOf(k[i], Speed(tail) + b[tail].room) /\ block[i].entry <= v + left
      BY <1>2, <1>8, <1>9, <2>1, <2>3, <3>2, <3>3
    <3>5. Speed(tail) \in Nat
      BY <1>1, StateTypes DEF Speed
    <3>6. block[i].entry = MinOf(k[i], v + left)
      BY <1>3, <1>4, <1>6, <1>7, <2>1, <3>4, <3>5 DEF MinOf
    <3>7. Speed(Before(i))' = v /\ e[Before(i)].room = left
      BY <1>8, <1>9, <2>3
    <3> QED
      BY <2>1, <3>6, <3>7
  <2> QED
    BY <2>2, <2>3
<1> QED
  BY <1>5, <1>11, <1>12, <1>13 DEF Optimum, e

\* The block at the tail is complete: the rest of the plan is as it was.
LEMMA DiscardBest ==
  ASSUME PlannerInv, Prep, control = "normal", tail' # tail, tail' # head',
         NEW k, Optimum(k)
  PROVE  Optimum(k)'
<1> PICK x, b, c : Segment(x, b, c)
  BY PrepIs
<1> DEFINE u == After(tail)
           e == block'
<1>1. /\ tail \in Indices /\ head \in Indices /\ block \in Ring
      /\ PlBlock = tail /\ b \in Ring /\ tail # head /\ u \in Indices /\ u # tail
      /\ x \in Execution /\ planned \in Indices
  BY StateTypes, RingSteps DEF PlBlock, Segment, Prep, IsEmpty, Loads, PlannerInv, Types, TypeOK
<1>2. /\ e = [b EXCEPT ![tail] = NoBlock] /\ tail' = u /\ head' = head
      /\ planned' = IF tail = planned THEN u ELSE planned
      /\ exec'.loaded = FALSE
  <2>1. /\ e = [b EXCEPT ![tail] = NoBlock] /\ tail' = u /\ head' = head
        /\ planned' = PlannedAfterDiscard
        /\ exec' = [[x EXCEPT !.speed = SpeedAfter(x, b[tail], c)] EXCEPT !.loaded = FALSE]
    BY <1>1 DEF Segment, Prep
  <2> QED
    BY <1>1, <2>1 DEF Execution, PlannedAfterDiscard
<1> HIDE DEF u, e
<1>3. \A i \in Indices \ {tail} : e[i] = block[i]
  <2>1. \A i \in Indices \ {tail} : b[i] = block[i]
    BY <1>1 DEF Segment
  <2> QED
    BY <1>1, <1>2, <2>1 DEF Ring
<1>4. /\ QueueOf(u, head) = QueueOf(tail, head) \ {tail} /\ u \in QueueOf(u, head)
      /\ QueueOf(tail, head) \subseteq Indices
  BY <1>1, <1>2, QueueShrunk, QueueEnds DEF u
<1>5. Backs(k, e, u, head)
  BY <1>3, <1>4 DEF Optimum, Backs
<1>6. ASSUME NEW i \in QueueOf(u, head) \ {u}
      PROVE  e[i].entry = MinOf(k[i], Speed(Before(i))' + e[Before(i)].room)
  <2>1. Before(i) \in QueueOf(u, head)
    BY <1>1, QueueAfter
  <2>2. Before(i) \in Indices \ {tail} /\ i \in Indices \ {tail} /\ i \in QueueOf(tail, head) \ {tail}
    BY <1>4, <2>1
  <2>3. Speed(Before(i))' = e[Before(i)].entry /\ Speed(Before(i)) = block[Before(i)].entry
    BY <1>2, <2>2 DEF Speed, e
  <2> QED
    BY <1>3, <2>2, <2>3 DEF Optimum
<1>7. Sealed(k, e, u, planned')
  <2>1. CASE planned = tail
    BY <1>2, <2>1 DEF Sealed
  <2>2. CASE planned # tail
    BY <1>1, <1>2, <1>3, <2>2 DEF Sealed, Optimum
  <2> QED
    BY <2>1, <2>2
<1> QED
  BY <1>2, <1>5, <1>6, <1>7 DEF Optimum, e

LEMMA NextBest ==
  ASSUME PlannerInv, PlannerInv', SpeedInv, SpeedInv', BestInv, [Next]_vars
  PROVE  BestInv'
<1> SUFFICES ASSUME ~slowed', control' \in {"normal", "held"}, tail' # head'
             PROVE  \E k : Optimum(k)'
  BY DEF BestInv
<1>1. /\ tail \in Indices /\ head \in Indices /\ block \in Ring /\ exec \in Execution
      /\ PlBlock \in Indices
  BY StateTypes
<1>2. QueueOf(tail, head) \subseteq Indices /\ head \notin QueueOf(tail, head)
  BY <1>1, QueueEnds
<1>3. ASSUME NEW l \in Lines, BufferLine(l) PROVE \E k : Optimum(k)'
  <2>1. slowed' = slowed /\ control' = control /\ control # "held"
    BY <1>3 DEF BufferLine, history
  <2> QED
    BY <1>3, <2>1, FirstLineBest, NextLineBest
<1>4. CASE Prep
  <2>1. control = "normal" /\ control' = "normal"
    BY <1>4 DEF Prep
  <2>2. tail # head
    BY <1>4, <2>1 DEF Prep, IsEmpty
  <2>3. ~slowed
    <3> PICK x, b, c : Segment(x, b, c)
      BY <1>4, PrepIs
    <3>1. slowed' = slowed \/ (tail' = After(tail) /\ slowed' = (slowed /\ After(tail) # head))
      BY DEF Segment
    <3>2. head' = head
      BY <1>4 DEF Prep
    <3> QED
      BY <3>1, <3>2
  <2>4. PICK k : Optimum(k)
    BY <2>1, <2>2, <2>3 DEF BestInv
  <2> QED
    BY <1>4, <2>1, <2>3, <2>4, PartialBest, DiscardBest
<1>5. CASE HoldIdle \/ Resume \/ UNCHANGED vars
  <2>1. /\ block' = block /\ tail' = tail /\ head' = head /\ planned' = planned /\ exec' = exec
        /\ slowed' = slowed /\ control \in {"normal", "held"}
    BY <1>5 DEF HoldIdle, Resume, vars, planVars, ovrVars, history
  <2>2. PICK k : Optimum(k)
    BY <2>1 DEF BestInv
  <2>3. PlBlock' = PlBlock
    BY <2>1 DEF PlBlock
  <2>4. \A i : Speed(i)' = Speed(i)
    BY <2>1, <2>3 DEF Speed
  <2>5. Optimum(k)'
    BY <2>1, <2>2, <2>4 DEF Optimum
  <2> QED
    BY <2>5
<1>6. \A j \in QueueOf(tail, head) \ {tail} : block[j].entry <= block[j].max
  BY DEF PlannerInv, Limits, LimitsOf
<1>7. CASE HoldComplete
  <2>1. PICK r \in Reinitialize(block, exec) :
          block' = r.block /\ planned' = r.planned /\ exec' = r.exec
    BY <1>7 DEF HoldComplete
  <2>2. tail' = tail /\ head' = head /\ slowed' = slowed
    BY <1>7 DEF HoldComplete, history
  <2>3. Reinitialized(block, exec, r)
    BY <1>1, <2>1, ReinitializeIs
  <2>4. ~exec'.loaded
    BY <1>1, <2>1, <2>3 DEF Reinitialized, Execution
  <2> DEFINE b == block
  <2>5. /\ b \in Ring /\ Reinitialized(b, exec, r)
        /\ \A i \in Indices : b[i].room = block[i].room /\ b[i].entry = block[i].entry
        /\ \A j \in QueueOf(tail, head) \ {tail} : b[j].entry <= b[j].max
        /\ \A i \in QueueOf(tail, head) : block'[i] = r.block[i]
    BY <1>1, <1>6, <2>1, <2>3
  <2> QED
    BY <2>1, <2>2, <2>4, <2>5, ReplannedBest
<1>8. CASE Parked
  <2>1. PICK r \in Reinitialize(block, exec) :
          /\ block' = [r.block EXCEPT ![head] = NoBlock]
          /\ planned' = r.planned /\ exec' = Restored(r.exec)
    BY <1>8 DEF Parked
  <2>2. tail' = tail /\ head' = head /\ slowed' = slowed
    BY <1>8 DEF Parked, history
  <2>3. Reinitialized(block, exec, r)
    BY <1>1, <2>1, ReinitializeIs
  <2>4. ~exec'.loaded
    BY <1>1, <2>1, <2>3 DEF Reinitialized, Restored, Execution
  <2>5. \A i \in QueueOf(tail, head) : block'[i] = r.block[i]
    BY <1>1, <1>2, <2>1, <2>3 DEF Reinitialized, Ring
  <2> DEFINE b == block
  <2>6. /\ b \in Ring /\ Reinitialized(b, exec, r)
        /\ \A i \in Indices : b[i].room = block[i].room /\ b[i].entry = block[i].entry
        /\ \A j \in QueueOf(tail, head) \ {tail} : b[j].entry <= b[j].max
    BY <1>1, <1>6, <2>3
  <2> QED
    BY <2>1, <2>2, <2>4, <2>5, <2>6, ReplannedBest
<1>9. CASE MotionOverride
  <2>1. PICK feed \in {FeedOverride(feedOvr, flags) : flags \in SUBSET FeedFlags},
             rapid \in RapidOverrides : Override(feed, rapid)
    BY <1>9 DEF MotionOverride
  <2>2. feed \in FeedMin..FeedMax
    BY FeedOverrideIn DEF PlannerInv, Types, TypeOK
  <2> PICK b, r : Overridden(b, r, feed, rapid)
    BY <2>1, <2>2, OverrideIs
  <2>3. /\ b \in Ring /\ Reinitialized(b, exec, r)
        /\ block' = r.block /\ exec' = r.exec /\ planned' = r.planned
        /\ tail' = tail /\ head' = head
        /\ \A i \in Indices : b[i].room = block[i].room /\ b[i].entry = block[i].entry
        /\ slowed' = (slowed \/ \E i \in QueueOf(tail, head) \ {tail} : b[i].max < block[i].max)
    BY DEF Overridden
  <2>4. ~exec'.loaded
    BY <1>1, <2>3 DEF Reinitialized, Execution
  <2>5. ASSUME NEW j \in QueueOf(tail, head) \ {tail} PROVE b[j].entry <= b[j].max
    <3>1. ~(b[j].max < block[j].max) /\ j \in Indices /\ block[j].entry <= block[j].max
      BY <1>2, <1>6, <2>3
    <3>2. b[j].entry \in Nat /\ b[j].max \in Nat /\ block[j].max \in Nat
      BY <1>1, <2>3, <3>1, CellNat
    <3> QED
      BY <2>3, <3>1, <3>2
  <2>6. ~slowed
    BY <2>3
  <2> QED
    BY <2>3, <2>4, <2>5, <2>6, ReplannedBest
<1>10. CASE Hold \/ Park \/ ParkReopened
  BY <1>10 DEF Hold, Park, ParkReopened
<1>11. CASE JogCancelled \/ Reset
  BY <1>11 DEF JogCancelled, Reset, PlanReset
<1>12. CASE ProgramEnd
  BY <1>12 DEF ProgramEnd, planVars, IsEmpty
<1> QED
  BY <1>3, <1>4, <1>5, <1>7, <1>8, <1>9, <1>10, <1>11, <1>12 DEF Next

\* Then it is the plan a full replan makes, which knows nothing of the planned pointer.
LEMMA OptimumIsBest ==
  ASSUME PlannerInv, tail # head, NEW k, Optimum(k)
  PROVE  \A d \in 1..(Count - 1) : block[Place(tail, d)].entry = BestEntries[d]
<1> DEFINE n == Count - 1
           at(d) == Place(tail, d)
           BackValue(f, d) == MinOf(block[at(d)].max,
                                    block[at(d)].room + (IF d = n THEN 0 ELSE f[d + 1]))
           back == CHOOSE f : f = [d \in 1..n |-> BackValue(f, d)]
           BestValue(f, d) == IF d = 0 THEN Speed(tail)
                              ELSE MinOf(back[d], f[d - 1] + block[at(d - 1)].room)
           best == CHOOSE f : f = [d \in 0..n |-> BestValue(f, d)]
           known == [d \in 1..n |-> k[at(d)]]
           entries == [d \in 0..n |-> IF d = 0 THEN Speed(tail) ELSE block[at(d)].entry]
<1>1. /\ tail \in Indices /\ head \in Indices /\ block \in Ring /\ k \in [Indices -> Nat]
      /\ k[head] = 0
  BY StateTypes DEF Optimum, Backs
<1>2. n \in Nat /\ n < BufferSize - 1 /\ Count = n + 1 /\ at(0) = tail /\ at(n + 1) = head
  <2>1. Distance(tail, head) \in 0..(BufferSize - 1) /\ Distance(tail, head) # 0
        /\ Place(tail, Distance(tail, head)) = head
    BY <1>1, RingDistance
  <2>2. Place(tail, 0) = tail
    BY <1>1, RingPlace, PlannerAssumption
  <2> QED
    BY <2>1, <2>2, PlannerAssumption DEF Count
<1>3. BestEntries = best
  BY DEF BestEntries
<1> HIDE DEF n
<1>4. ASSUME NEW d \in 1..n
      PROVE  /\ at(d) \in QueueOf(tail, head) \ {tail} /\ at(d) \in Indices
             /\ After(at(d)) = at(d + 1) /\ Before(at(d)) = at(d - 1)
             /\ (d # 1 => at(d - 1) # tail) /\ (d # n => at(d + 1) \in Indices)
  <2>1. /\ d \in 0..(BufferSize - 1) /\ d > 0 /\ d < BufferSize - 1 /\ d < Count
        /\ d - 1 \in 0..(BufferSize - 1) /\ d + 1 \in 0..(BufferSize - 1) /\ BufferSize \in Nat
    BY <1>2, PlannerAssumption
  <2>2. /\ Place(tail, d) \in Indices /\ Distance(tail, Place(tail, d)) = d
        /\ After(Place(tail, d)) = Place(tail, d + 1) /\ Before(Place(tail, d)) = Place(tail, d - 1)
    BY <1>1, <2>1, RingPlace
  <2>3. Distance(tail, tail) = 0 /\ Distance(tail, Place(tail, d - 1)) = d - 1
        /\ Place(tail, d + 1) \in Indices
    BY <1>1, <2>1, RingDistance, RingPlace
  <2>4. Place(tail, d) # tail /\ (d # 1 => Place(tail, d - 1) # tail)
    BY <2>1, <2>2, <2>3
  <2> QED
    BY <2>1, <2>2, <2>3, <2>4 DEF QueueOf, Count
<1>5. \A d \in 1..n : block[at(d)].max \in Nat /\ block[at(d)].room \in Nat /\ block[at(d)].entry \in Nat
  BY <1>1, <1>4, CellNat
<1> HIDE DEF at
\* The speeds computed from the end of the queue are those of k.
<1>6. ASSUME NEW d \in 1..n, NEW f, d # n => f[d + 1] = k[at(d + 1)]
      PROVE  k[at(d)] = BackValue(f, d)
  <2>1. k[at(d)] = MinOf(block[at(d)].max, k[at(d + 1)] + block[at(d)].room)
    BY <1>4 DEF Optimum, Backs
  <2>2. k[at(d + 1)] = IF d = n THEN 0 ELSE f[d + 1]
    BY <1>1, <1>2, <1>6
  <2>3. k[at(d + 1)] \in Nat
    BY <1>1, <1>2, <1>4
  <2> DEFINE w == IF d = n THEN 0 ELSE f[d + 1]
  <2>4. k[at(d + 1)] = w
    BY <2>2
  <2> HIDE DEF w
  <2>5. k[at(d)] = MinOf(block[at(d)].max, block[at(d)].room + w)
    BY <1>5, <2>1, <2>3, <2>4
  <2> QED
    BY <2>5 DEF w
<1>7. \A d \in 1..n : back[d] = k[at(d)]
  <2>1. known = [d \in 1..n |-> BackValue(known, d)]
    <3>1. \A d \in 1..n : known[d] = BackValue(known, d)
      <4> SUFFICES ASSUME NEW d \in 1..n PROVE known[d] = BackValue(known, d)
        OBVIOUS
      <4>1. d # n => d + 1 \in 1..n
        BY <1>2
      <4>2. known[d] = k[at(d)] /\ (d # n => known[d + 1] = k[at(d + 1)])
        BY <4>1
      <4> HIDE DEF known, BackValue
      <4> QED
        BY <1>6, <4>2
    <3> HIDE DEF BackValue
    <3> QED
      BY <3>1
  <2>2. back = [d \in 1..n |-> BackValue(back, d)]
    <3> HIDE DEF BackValue, known
    <3> QED
      BY <2>1, Zenon
  <2>3. \A d \in 1..n : back[d] = BackValue(back, d)
    <3> HIDE DEF BackValue, back
    <3> QED
      BY <2>2
  <2> DEFINE S == {m \in 0..n : m < n => back[n - m] = k[at(n - m)]}
  <2> HIDE DEF back
  <2>4. 0 \in S
    <3> SUFFICES ASSUME 0 < n PROVE back[n] = k[at(n)]
      BY <1>2
    <3>1. n \in 1..n
      BY <1>2
    <3> HIDE DEF BackValue
    <3> QED
      BY <1>6, <2>3, <3>1
  <2>5. ASSUME NEW m \in 0..n, m \in S, m < n PROVE m + 1 \in S
    <3> SUFFICES ASSUME m + 1 < n PROVE back[n - (m + 1)] = k[at(n - (m + 1))]
      BY <1>2, <2>5
    <3>1. n - (m + 1) \in 1..n /\ (n - (m + 1)) + 1 = n - m
      BY <1>2
    <3>2. back[n - m] = k[at(n - m)]
      BY <2>5
    <3> HIDE DEF BackValue
    <3> QED
      BY <1>6, <2>3, <3>1, <3>2
  <2>6. \A m \in 0..n : m \in S
    <3> HIDE DEF S
    <3> QED
      BY <1>2, <2>4, <2>5, InductUpTo
  <2> SUFFICES ASSUME NEW d \in 1..n PROVE back[d] = k[at(d)]
    OBVIOUS
  <2>7. n - d \in 0..n /\ n - d < n /\ n - (n - d) = d
    BY <1>2
  <2> QED
    BY <2>6, <2>7
<1> HIDE DEF back
\* With them the entry speeds are those computed from the tail on.
<1>8. ASSUME NEW d \in 1..n, NEW f, f[d - 1] = entries[d - 1]
      PROVE  entries[d] = BestValue(f, d)
  <2>1. d \in 0..n /\ d # 0 /\ d - 1 \in 0..n
    BY <1>2
  <2>2. entries[d] = block[at(d)].entry
    BY <2>1
  <2>3. block[at(d)].entry = MinOf(k[at(d)], Speed(at(d - 1)) + block[at(d - 1)].room)
    BY <1>4 DEF Optimum
  <2>4. Speed(at(d - 1)) = entries[d - 1]
    <3>1. CASE d = 1
      BY <1>2, <2>1, <3>1
    <3>2. CASE d # 1
      <4>1. Speed(at(d - 1)) = block[at(d - 1)].entry /\ d - 1 # 0
        BY <1>4, <3>2 DEF Speed
      <4> QED
        BY <2>1, <4>1
    <3> QED
      BY <3>1, <3>2
  <2> HIDE DEF entries
  <2> QED
    BY <1>7, <1>8, <2>1, <2>2, <2>3, <2>4
<1>9. \A d \in 0..n : best[d] = entries[d]
  <2>1. entries[0] = BestValue(entries, 0)
    BY <1>2
  <2>2. entries = [d \in 0..n |-> BestValue(entries, d)]
    <3>1. \A d \in 0..n : entries[d] = BestValue(entries, d)
      <4> HIDE DEF entries, BestValue
      <4>1. \A d \in 0..n : d # 0 => d \in 1..n
        BY <1>2
      <4> QED
        BY <1>8, <2>1, <4>1
    <3> HIDE DEF BestValue
    <3> QED
      BY <3>1
  <2>3. best = [d \in 0..n |-> BestValue(best, d)]
    <3> HIDE DEF BestValue, entries
    <3> QED
      BY <2>2, Zenon
  <2>4. \A d \in 0..n : best[d] = BestValue(best, d)
    <3> HIDE DEF BestValue, best
    <3> QED
      BY <2>3
  <2> DEFINE S == {m \in 0..n : best[m] = entries[m]}
  <2> HIDE DEF best
  <2>5. 0 \in S
    BY <1>2, <2>4
  <2>6. ASSUME NEW m \in 0..n, m \in S, m < n PROVE m + 1 \in S
    <3>1. m + 1 \in 1..n /\ m + 1 \in 0..n /\ (m + 1) - 1 = m
      BY <1>2, <2>6
    <3>2. best[m] = entries[m]
      BY <2>6
    <3>3. best[m + 1] = BestValue(best, m + 1)
      <4> HIDE DEF BestValue
      <4> QED
        BY <2>4, <3>1
    <3>4. entries[m + 1] = BestValue(best, m + 1)
      <4> HIDE DEF BestValue, entries
      <4> QED
        BY <1>8, <3>1, <3>2
    <3> HIDE DEF BestValue, entries
    <3> QED
      BY <3>1, <3>3, <3>4
  <2>7. \A m \in 0..n : m \in S
    <3> HIDE DEF S
    <3> QED
      BY <1>2, <2>5, <2>6, InductUpTo
  <2> QED
    BY <2>7
<1>10. ASSUME NEW d \in 1..n PROVE block[at(d)].entry = BestEntries[d]
  <2>1. d \in 0..n /\ d # 0
    BY <1>2
  <2>2. entries[d] = block[at(d)].entry
    BY <2>1
  <2> HIDE DEF best, entries
  <2> QED
    BY <1>3, <1>9, <2>1, <2>2
<1> QED
  BY <1>10 DEF n, at


------------------------------------------------------------------------------
(* The theorems *)

\* The planned speeds are within the acceleration of the machine: every junction can be reached
\* by speeding up, from the speed the executing block has right now, and can be slowed down
\* from to the next one, unless an override has slowed down a queued junction.
THEOREM SpeedsReachableHolds == Spec => []SpeedsReachable
<1>1. ASSUME PlannerInv, SpeedInv PROVE SpeedsReachable
  <2>1. /\ tail \in Indices /\ head \in Indices /\ control \in Controls
        /\ \A i \in Indices : block[i].entry \in Nat /\ block[i].room \in Nat
    BY <1>1, StateTypes
  <2>2. Queued = QueueOf(tail, head)
    BY <2>1, QueuedIs
  <2> SUFFICES ASSUME NEW i \in QueueOf(tail, head)
               PROVE  /\ (i = tail => control \in {"normal", "held"}) =>
                           Exit(i) <= Speed(i) + block[i].room
                      /\ ~slowed => Speed(i) <= Exit(i) + block[i].room
    BY <2>2 DEF SpeedsReachable
  <2>3. Exit(i) = NextSpeed(block, head, i)
    <3>1. i \in Indices /\ After(Before(head)) = head /\ Before(After(i)) = i
      BY <2>1, RingSteps DEF QueueOf
    <3> QED
      BY <3>1 DEF Exit, NextSpeed, Last
  <2>4. CASE i = tail
    <3>1. tail # head
      BY <2>1, <2>4, QueueEnds
    <3>2. ExitSpeed = NextSpeed(block, head, tail)
      BY DEF ExitSpeed, NextSpeed
    <3> QED
      BY <1>1, <2>3, <2>4, <3>1, <3>2 DEF SpeedInv, TailSpeeds, IsEmpty
  <2>5. CASE i # tail
    <3>1. Speed(i) = block[i].entry
      BY <2>5 DEF Speed
    <3> QED
      BY <1>1, <2>3, <2>5, <3>1 DEF SpeedInv, SpeedsUp, SlowsDown
  <2> QED
    BY <2>4, <2>5
<1> QED
  BY <1>1, InitSpeeds, NextSpeeds, PTL DEF Spec

\* Whatever overrides, holds and parking motions have come, the machine can always come to a
\* stop within the queue: from the speed it has, and from the one at which the executing
\* profile will end, through speeds at the junctions that are not below the planned ones.  An
\* override can make the plan itself impossible to follow, since the reverse pass skips blocks
\* at their maximum, but never leaves the machine too fast for the length that is queued.
THEOREM CanStopHolds == Spec => []CanStop
<1>1. SpeedInv => CanStop
  BY DEF SpeedInv
<1> QED
  BY <1>1, InitSpeeds, NextSpeeds, PTL DEF Spec

\* "The plan is optimal and no further speed improvements are possible" (planner.c): although
\* the passes skip a block at its maximum, stop at the planned pointer and are not made again
\* when a block is discarded, the plan is the one a full replan would make, until an override
\* has slowed down a queued junction.
THEOREM PlanOptimalHolds == Spec => []PlanOptimal
<1>1. Init => PlannerInv /\ SpeedInv /\ BestInv
  <2>1. Init => BestInv
    BY DEF Init, BestInv
  <2> QED
    BY <2>1, InitSpeeds
<1>2. PlannerInv /\ SpeedInv /\ BestInv /\ [Next]_vars => PlannerInv' /\ SpeedInv' /\ BestInv'
  BY NextSpeeds, NextBest
<1>3. PlannerInv /\ BestInv => PlanOptimal
  BY OptimumIsBest DEF BestInv, PlanOptimal, IsEmpty
<1> QED
  BY <1>1, <1>2, <1>3, PTL DEF Spec

=============================================================================
