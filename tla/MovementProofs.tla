--------------------------- MODULE MovementProofs ---------------------------
(***************************************************************************)
(* Why the greedy walker of hex_path always converges, on a grid of any    *)
(* size: on every cell but the target some neighbour is nearer, and none   *)
(* is nearer by more.  And why a walk that is not crossed keeps to its     *)
(* schedule, whatever the costs, the skews and the order rows come in.     *)
(***************************************************************************)
EXTENDS Movement, SequenceTheorems, WellFoundedInduction, TLAPS


\* The length of an axial vector: three coordinates that sum to zero, so half
\* their sum is the largest of them.
Length(x, y) ==
    IF AbsInt(x) >= AbsInt(y)
    THEN IF AbsInt(x) >= AbsInt(x + y) THEN AbsInt(x) ELSE AbsInt(x + y)
    ELSE IF AbsInt(y) >= AbsInt(x + y) THEN AbsInt(y) ELSE AbsInt(x + y)

LEMMA DistanceIsLength ==
    ASSUME NEW a \in Cell, NEW b \in Cell
    PROVE  HexDistance(a, b) = Length(a[1] - b[1], a[2] - b[2])
<1>1. \A x, y \in Int : (AbsInt(x) + AbsInt(x + y) + AbsInt(y)) \div 2 = Length(x, y)
  BY SMTT(30) DEF Length, AbsInt
<1>2. a[1] - b[1] \in Int /\ a[2] - b[2] \in Int
  BY DEF Cell
<1> QED
  BY <1>1, <1>2 DEF HexDistance

\* hex_distance is a distance as far as the walker uses it.
LEMMA DistanceNat ==
    ASSUME NEW a \in Cell, NEW b \in Cell
    PROVE  /\ HexDistance(a, b) \in Nat
           /\ HexDistance(a, b) = 0 <=> a = b
<1>1. PICK p \in Int, q \in Int, u \in Int, v \in Int : a = <<p, q>> /\ b = <<u, v>>
  BY DEF Cell
<1>2. HexDistance(a, b) = Length(p - u, q - v)
  BY <1>1, DistanceIsLength
<1> QED
  BY <1>1, <1>2 DEF Length, AbsInt

LEMMA NeighbourCell ==
    ASSUME NEW c \in Cell, NEW i \in 1 .. 6
    PROVE  /\ HexNeighbors(c)[i] \in Cell
           /\ HexDistance(c, HexNeighbors(c)[i]) = 1
<1>1. PICK p \in Int, q \in Int : c = <<p, q>>
  BY DEF Cell
<1>2. PICK u \in Int, v \in Int :
        /\ HexNeighbors(c)[i] = <<u, v>>
        /\ <<u - p, v - q>> \in {<<1, 0>>, <<-1, 0>>, <<0, 1>>, <<0, -1>>, <<1, -1>>, <<-1, 1>>}
  <2>1. CASE i = 1
    BY <1>1, <2>1 DEF HexNeighbors
  <2>2. CASE i = 2
    BY <1>1, <2>2 DEF HexNeighbors
  <2>3. CASE i = 3
    BY <1>1, <2>3 DEF HexNeighbors
  <2>4. CASE i = 4
    BY <1>1, <2>4 DEF HexNeighbors
  <2>5. CASE i = 5
    BY <1>1, <2>5 DEF HexNeighbors
  <2>6. CASE i = 6
    BY <1>1, <2>6 DEF HexNeighbors
  <2> QED
    BY <2>1, <2>2, <2>3, <2>4, <2>5, <2>6
<1>3. HexNeighbors(c)[i] \in Cell
  BY <1>2 DEF Cell
<1>4. HexDistance(c, HexNeighbors(c)[i]) = Length(p - u, q - v)
  BY <1>1, <1>2, <1>3, DistanceIsLength
<1> QED
  BY <1>1, <1>2, <1>3, <1>4 DEF Length, AbsInt

\* A neighbour is at most one step nearer.
LEMMA NoneNearerByMore ==
    ASSUME NEW c \in Cell, NEW target \in Cell, NEW i \in 1 .. 6
    PROVE  HexDistance(HexNeighbors(c)[i], target) >= HexDistance(c, target) - 1
<1>1. PICK p \in Int, q \in Int, u \in Int, v \in Int : c = <<p, q>> /\ target = <<u, v>>
  BY DEF Cell
<1>2. HexDistance(c, target) = Length(p - u, q - v)
  BY <1>1, DistanceIsLength
<1>3. PICK r \in Int, s \in Int :
        /\ HexNeighbors(c)[i] = <<r, s>>
        /\ Length(p - r, q - s) = 1
  <2>1. HexNeighbors(c)[i] \in Cell /\ HexDistance(c, HexNeighbors(c)[i]) = 1
    BY NeighbourCell
  <2>2. PICK r \in Int, s \in Int : HexNeighbors(c)[i] = <<r, s>>
    BY <2>1 DEF Cell
  <2> QED
    BY <1>1, <2>1, <2>2, DistanceIsLength
<1>4. HexDistance(HexNeighbors(c)[i], target) = Length(r - u, s - v)
  BY <1>1, <1>3, NeighbourCell, DistanceIsLength
<1> QED
  BY <1>2, <1>3, <1>4, SMTT(30) DEF Length, AbsInt

\* Off the target, some neighbour is one step nearer.
LEMMA SomeNearer ==
    ASSUME NEW c \in Cell, NEW target \in Cell, c # target
    PROVE  \E i \in 1 .. 6 : HexDistance(HexNeighbors(c)[i], target) = HexDistance(c, target) - 1
<1>1. PICK p \in Int, q \in Int, u \in Int, v \in Int : c = <<p, q>> /\ target = <<u, v>>
  BY DEF Cell
<1>2. HexDistance(c, target) = Length(p - u, q - v)
  BY <1>1, DistanceIsLength
<1>3. /\ HexNeighbors(c)[1] = <<p + 1, q>>
      /\ HexNeighbors(c)[2] = <<p - 1, q>>
      /\ HexNeighbors(c)[3] = <<p, q + 1>>
      /\ HexNeighbors(c)[4] = <<p, q - 1>>
      /\ HexNeighbors(c)[5] = <<p + 1, q - 1>>
      /\ HexNeighbors(c)[6] = <<p - 1, q + 1>>
  BY <1>1 DEF HexNeighbors
<1>4. \A r \in Int, s \in Int : HexDistance(<<r, s>>, target) = Length(r - u, s - v)
  BY <1>1, DistanceIsLength DEF Cell
<1>5. p # u \/ q # v
  BY <1>1
<1>6. \/ Length(p + 1 - u, q - v) = Length(p - u, q - v) - 1
      \/ Length(p - 1 - u, q - v) = Length(p - u, q - v) - 1
      \/ Length(p - u, q + 1 - v) = Length(p - u, q - v) - 1
      \/ Length(p - u, q - 1 - v) = Length(p - u, q - v) - 1
      \/ Length(p + 1 - u, q - 1 - v) = Length(p - u, q - v) - 1
      \/ Length(p - 1 - u, q + 1 - v) = Length(p - u, q - v) - 1
  BY <1>5, SMTT(30) DEF Length, AbsInt
<1>7. /\ HexDistance(HexNeighbors(c)[1], target) = Length(p + 1 - u, q - v)
      /\ HexDistance(HexNeighbors(c)[2], target) = Length(p - 1 - u, q - v)
      /\ HexDistance(HexNeighbors(c)[3], target) = Length(p - u, q + 1 - v)
      /\ HexDistance(HexNeighbors(c)[4], target) = Length(p - u, q - 1 - v)
      /\ HexDistance(HexNeighbors(c)[5], target) = Length(p + 1 - u, q - 1 - v)
      /\ HexDistance(HexNeighbors(c)[6], target) = Length(p - 1 - u, q + 1 - v)
  BY <1>3, <1>4
<1> QED
  BY <1>2, <1>6, <1>7

\* The walker's step: off the target it always takes a neighbouring cell exactly
\* one nearer.  So the loop of hex_path never ends at its second test (no
\* neighbour improves) and walks a shortest path, whatever the two cells.
THEOREM StepConverges ==
    ASSUME NEW c \in Cell, NEW target \in Cell, c # target
    PROVE  /\ StepToward(c, target) \in Cell
           /\ HexDistance(c, StepToward(c, target)) = 1
           /\ HexDistance(StepToward(c, target), target) = HexDistance(c, target) - 1
<1> DEFINE dist(i) == HexDistance(HexNeighbors(c)[i], target)
           best == CHOOSE d \in Reach(c, target) : \A e \in Reach(c, target) : d <= e
           nearest(i) == dist(i) = best
           first(i) == nearest(i) /\ \A j \in 1 .. i - 1 : ~nearest(j)
           chosen == CHOOSE i \in 1 .. 6 : first(i)
<1>1. \A i \in 1 .. 6 : dist(i) \in Nat
  BY NeighbourCell, DistanceNat
<1>2. \A i \in 1 .. 6 : dist(i) >= HexDistance(c, target) - 1
  BY NoneNearerByMore
<1>3. PICK i \in 1 .. 6 : dist(i) = HexDistance(c, target) - 1
  BY SomeNearer
<1>4. Reach(c, target) = {dist(j) : j \in 1 .. 6}
  BY DEF Reach
<1>5. best = HexDistance(c, target) - 1
  <2>1. HexDistance(c, target) - 1 \in Reach(c, target)
    BY <1>3, <1>4
  <2>2. \A e \in Reach(c, target) : e \in Int /\ HexDistance(c, target) - 1 <= e
    BY <1>1, <1>2, <1>4
  <2> HIDE DEF dist
  <2>3. \A d \in Reach(c, target) :
          (\A e \in Reach(c, target) : d <= e) => d = HexDistance(c, target) - 1
    BY <2>1, <2>2, DistanceNat
  <2> QED
    BY <2>1, <2>2, <2>3
<1> HIDE DEF dist, best
<1>6. \E k \in 1 .. 6 : first(k)
  <2>1. nearest(i)
    BY <1>3, <1>5
  <2> HIDE DEF nearest
  <2>2. CASE nearest(1)
    BY <2>2
  <2>3. CASE ~nearest(1) /\ nearest(2)
    BY <2>3
  <2>4. CASE ~nearest(1) /\ ~nearest(2) /\ nearest(3)
    BY <2>4
  <2>5. CASE ~nearest(1) /\ ~nearest(2) /\ ~nearest(3) /\ nearest(4)
    BY <2>5
  <2>6. CASE ~nearest(1) /\ ~nearest(2) /\ ~nearest(3) /\ ~nearest(4) /\ nearest(5)
    BY <2>6
  <2>7. CASE ~nearest(1) /\ ~nearest(2) /\ ~nearest(3) /\ ~nearest(4) /\ ~nearest(5)
    BY <2>1, <2>7
  <2> QED
    BY <2>2, <2>3, <2>4, <2>5, <2>6, <2>7
<1>7. chosen \in 1 .. 6 /\ nearest(chosen)
  BY <1>6
<1>8. StepToward(c, target) = HexNeighbors(c)[chosen]
  BY DEF StepToward, dist, best
<1> HIDE DEF chosen
<1> QED
  BY <1>5, <1>7, <1>8, NeighbourCell DEF dist

-----------------------------------------------------------------------------
\* hex_path: the path after the first k steps of the loop, as a function of k.

\* p tells the path after each of the first m steps of the loop.
IsWalk(p, start, target, m) ==
    p = [k \in 0 .. m |->
          IF k = 0 THEN << >>
          ELSE LET sofar == p[k - 1]
                   cur == IF sofar = << >> THEN start ELSE sofar[Len(sofar)]
                   best == StepToward(cur, target)
               IN  IF cur = target \/ HexDistance(best, target) >= HexDistance(cur, target)
                   THEN sofar ELSE Append(sofar, best)]

\* The next path of the loop, when sofar is the one it has.
Onward(sofar, start, target) ==
    LET cur == IF sofar = << >> THEN start ELSE sofar[Len(sofar)]
        best == StepToward(cur, target)
    IN  IF cur = target \/ HexDistance(best, target) >= HexDistance(cur, target)
        THEN sofar ELSE Append(sofar, best)

LEMMA LeastNat ==
    ASSUME NEW T \in SUBSET Nat, T # {}
    PROVE  \E x \in T : \A y \in T : x <= y
<1>1. PICK x \in T : \A y \in T : ~(<<y, x>> \in OpToRel(<, Nat))
  BY NatLessThanWellFounded, WFMin
<1>2. \A y \in T : ~(y < x)
  BY <1>1 DEF OpToRel
<1> QED
  BY <1>2

LEMMA WalkIs ==
    ASSUME NEW p, NEW start, NEW target, NEW m \in Nat
    PROVE  IsWalk(p, start, target, m) <=>
             p = [k \in 0 .. m |-> IF k = 0 THEN << >> ELSE Onward(p[k - 1], start, target)]
  BY DEF IsWalk, Onward

LEMMA WalkExists ==
    ASSUME NEW start, NEW target, NEW m \in Nat
    PROVE  \E p : IsWalk(p, start, target, m)
<1> DEFINE T == {n \in Nat : ~\E p : IsWalk(p, start, target, n)}
<1>1. SUFFICES ASSUME T # {} PROVE FALSE
  OBVIOUS
<1>2. PICK k \in T : \A n \in T : k <= n
  BY <1>1, LeastNat
<1>3. CASE k = 0
  <2> DEFINE p == [n \in 0 .. 0 |-> << >>]
  <2>1. p = [n \in 0 .. 0 |-> IF n = 0 THEN << >> ELSE Onward(p[n - 1], start, target)]
    OBVIOUS
  <2>2. IsWalk(p, start, target, 0)
    BY <2>1, WalkIs
  <2> QED
    BY <1>3, <2>2
<1>4. CASE k # 0
  <2>1. k \in Nat /\ k - 1 \in Nat /\ ~(k <= k - 1)
    BY <1>4
  <2>2. PICK g : IsWalk(g, start, target, k - 1)
    BY <1>2, <2>1
  <2>3. \A n \in 0 .. k - 1 : g[n] = IF n = 0 THEN << >> ELSE Onward(g[n - 1], start, target)
    BY <2>1, <2>2, WalkIs
  <2> DEFINE p == [n \in 0 .. k |-> IF n = k THEN Onward(g[k - 1], start, target) ELSE g[n]]
  <2>4. \A n \in 0 .. k : p[n] = IF n = 0 THEN << >> ELSE Onward(p[n - 1], start, target)
    BY <2>1, <2>3
  <2>5. p = [n \in 0 .. k |-> IF n = 0 THEN << >> ELSE Onward(p[n - 1], start, target)]
    BY <2>4
  <2>6. IsWalk(p, start, target, k)
    BY <2>1, <2>5, WalkIs
  <2> QED
    BY <1>2, <2>6
<1> QED
  BY <1>3, <1>4

LEMMA PathIsWalk ==
    ASSUME NEW start, NEW target
    PROVE  \E p : /\ IsWalk(p, start, target, MaxPathSteps)
                  /\ HexPath(start, target) = p[MaxPathSteps]
<1> DEFINE p == CHOOSE g : IsWalk(g, start, target, MaxPathSteps)
<1>1. IsWalk(p, start, target, MaxPathSteps)
  BY HexAssumption, WalkExists DEF HexAssumption
<1>2. HexPath(start, target) = p[MaxPathSteps]
  BY DEF HexPath, IsWalk
<1> QED
  BY <1>1, <1>2

\* Where a path from start ends.
End(path, start) == IF path = << >> THEN start ELSE path[Len(path)]

\* A path that comes one cell nearer to its target with each step.
Straight(path, start, target) ==
    /\ path \in Seq(Cell)
    /\ \A k \in 1 .. Len(path) :
         /\ HexDistance(path[k], target) = HexDistance(start, target) - k
         /\ HexDistance(IF k = 1 THEN start ELSE path[k - 1], path[k]) = 1

LEMMA EndIs ==
    ASSUME NEW start \in Cell, NEW target \in Cell, NEW path, Straight(path, start, target)
    PROVE  /\ End(path, start) \in Cell
           /\ HexDistance(End(path, start), target) = HexDistance(start, target) - Len(path)
           /\ Len(path) \in Nat /\ Len(path) <= HexDistance(start, target)
<1>1. path \in Seq(Cell) /\ Len(path) \in Nat
  BY DEF Straight
<1>2. HexDistance(start, target) \in Nat
  BY DistanceNat
<1>3. CASE path = << >>
  BY <1>2, <1>3 DEF End
<1>4. CASE path # << >>
  <2>1. Len(path) \in 1 .. Len(path) /\ path[Len(path)] \in Cell
    BY <1>1, <1>4
  <2>2. HexDistance(path[Len(path)], target) = HexDistance(start, target) - Len(path)
    BY <2>1 DEF Straight
  <2>3. HexDistance(path[Len(path)], target) \in Nat
    BY <2>1, DistanceNat
  <2> QED
    BY <1>1, <1>2, <1>4, <2>1, <2>2, <2>3 DEF End
<1> QED
  BY <1>3, <1>4

\* The loop goes straight on until it is at the target.
LEMMA OnwardIs ==
    ASSUME NEW start \in Cell, NEW target \in Cell, NEW path, Straight(path, start, target)
    PROVE  /\ Straight(Onward(path, start, target), start, target)
           /\ Len(Onward(path, start, target)) =
                IF Len(path) < HexDistance(start, target) THEN Len(path) + 1 ELSE Len(path)
<1> DEFINE cur == End(path, start)
           best == StepToward(cur, target)
<1>1. /\ cur \in Cell /\ HexDistance(cur, target) = HexDistance(start, target) - Len(path)
      /\ Len(path) \in Nat /\ Len(path) <= HexDistance(start, target)
  BY EndIs
<1>2. HexDistance(start, target) \in Nat /\ (HexDistance(cur, target) = 0 <=> cur = target)
  BY <1>1, DistanceNat
<1>3. Onward(path, start, target) =
        IF cur = target \/ HexDistance(best, target) >= HexDistance(cur, target)
        THEN path ELSE Append(path, best)
  BY DEF Onward, End
<1> HIDE DEF cur, best
<1>4. CASE cur = target
  BY <1>1, <1>2, <1>3, <1>4
<1>5. CASE cur # target
  <2>1. best \in Cell /\ HexDistance(cur, best) = 1
        /\ HexDistance(best, target) = HexDistance(cur, target) - 1
    BY <1>1, <1>5, StepConverges DEF best
  <2>2. Onward(path, start, target) = Append(path, best)
    BY <1>1, <1>2, <1>3, <1>5, <2>1
  <2> DEFINE longer == Append(path, best)
  <2>3. path \in Seq(Cell)
    BY DEF Straight
  <2>4. /\ longer \in Seq(Cell) /\ Len(longer) = Len(path) + 1
        /\ longer[Len(path) + 1] = best /\ \A k \in 1 .. Len(path) : longer[k] = path[k]
    BY <2>1, <2>3
  <2> HIDE DEF longer
  <2>5. ASSUME NEW k \in 1 .. Len(longer)
        PROVE  /\ HexDistance(longer[k], target) = HexDistance(start, target) - k
               /\ HexDistance(IF k = 1 THEN start ELSE longer[k - 1], longer[k]) = 1
    <3>1. CASE k \in 1 .. Len(path)
      <4>1. longer[k] = path[k] /\ (k # 1 => longer[k - 1] = path[k - 1])
        BY <1>1, <2>4, <3>1
      <4> QED
        BY <3>1, <4>1 DEF Straight
    <3>2. CASE k = Len(path) + 1
      <4>1. (IF k = 1 THEN start ELSE longer[k - 1]) = cur
        <5>1. CASE Len(path) = 0
          BY <2>3, <3>2, <5>1 DEF cur, End
        <5>2. CASE Len(path) # 0
          <6>1. path # << >> /\ k - 1 = Len(path) /\ Len(path) \in 1 .. Len(path) /\ k # 1
            BY <1>1, <3>2, <5>2
          <6>2. longer[k - 1] = path[Len(path)]
            BY <2>4, <6>1
          <6> QED
            BY <6>1, <6>2 DEF cur, End
        <5> QED
          BY <5>1, <5>2
      <4> QED
        BY <1>1, <1>2, <2>1, <2>4, <3>2, <4>1
    <3> QED
      BY <1>1, <2>4, <3>1, <3>2
  <2>6. Straight(longer, start, target)
    BY <2>4, <2>5 DEF Straight
  <2> QED
    BY <1>1, <1>2, <1>5, <2>2, <2>4, <2>6 DEF longer
<1> QED
  BY <1>4, <1>5

\* hex_path: straight for the target, until there or at the cap.
LEMMA PathIs ==
    ASSUME NEW start \in Cell, NEW target \in Cell
    PROVE  /\ Straight(HexPath(start, target), start, target)
           /\ Len(HexPath(start, target)) =
                IF HexDistance(start, target) < MaxPathSteps
                THEN HexDistance(start, target) ELSE MaxPathSteps
<1> DEFINE dist == HexDistance(start, target)
           len(k) == IF dist < k THEN dist ELSE k
<1>1. dist \in Nat /\ MaxPathSteps \in Nat
  BY DistanceNat, HexAssumption DEF HexAssumption
<1>2. PICK p : IsWalk(p, start, target, MaxPathSteps) /\ HexPath(start, target) = p[MaxPathSteps]
  BY PathIsWalk
<1>3. \A k \in 0 .. MaxPathSteps : p[k] = IF k = 0 THEN << >> ELSE Onward(p[k - 1], start, target)
  BY <1>1, <1>2, WalkIs
<1> DEFINE T == {k \in 0 .. MaxPathSteps : ~(Straight(p[k], start, target) /\ Len(p[k]) = len(k))}
<1> HIDE DEF dist
<1>4. T = {}
  <2>1. SUFFICES ASSUME T # {} PROVE FALSE
    OBVIOUS
  <2>2. T \in SUBSET Nat
    BY <1>1
  <2>3. PICK k \in T : \A n \in T : k <= n
    BY <2>1, <2>2, LeastNat
  <2>4. CASE k = 0
    <3>1. p[k] = << >> /\ len(k) = 0
      BY <1>1, <1>3, <2>4
    <3>2. << >> \in Seq(Cell) /\ Len(<< >>) = 0
      OBVIOUS
    <3>3. Straight(p[k], start, target)
      BY <3>1, <3>2 DEF Straight
    <3> QED
      BY <2>3, <3>1, <3>2, <3>3
  <2>5. CASE k # 0
    <3>1. k \in 1 .. MaxPathSteps /\ k - 1 \in 0 .. MaxPathSteps /\ ~(k <= k - 1)
      BY <1>1, <2>3, <2>5
    <3>2. k - 1 \notin T
      BY <2>3, <3>1
    <3>3. Straight(p[k - 1], start, target) /\ Len(p[k - 1]) = len(k - 1)
      BY <3>1, <3>2
    <3>4. p[k] = Onward(p[k - 1], start, target)
      BY <1>3, <3>1
    <3>5. /\ Straight(p[k], start, target)
          /\ Len(p[k]) = IF Len(p[k - 1]) < dist THEN Len(p[k - 1]) + 1 ELSE Len(p[k - 1])
      BY <3>3, <3>4, OnwardIs DEF dist
    <3>6. Len(p[k]) = len(k)
      BY <1>1, <3>1, <3>3, <3>5
    <3> QED
      BY <2>3, <3>5, <3>6
  <2> QED
    BY <2>4, <2>5
<1>5. Straight(p[MaxPathSteps], start, target) /\ Len(p[MaxPathSteps]) = len(MaxPathSteps)
  BY <1>1, <1>4
<1> QED
  BY <1>2, <1>5 DEF dist

-----------------------------------------------------------------------------
\* The inductive invariant.

\* Some version is always due, and versions are keyed by their time.
Keyed(versions) ==
    /\ \E v \in versions : v.t = 0
    /\ \A v, w \in versions : v.t = w.t => v = w

Plans == [path : Seq(Cell), requested : Nat, last_dest : Cell, last_arrival : Nat, walk : Nat]

Types ==
    /\ TypeOK
    /\ Keyed(rows) /\ Keyed(shard)
    /\ walks \in Nat /\ steps \in Nat /\ dups \in Nat /\ refused \in BOOLEAN
    /\ plan # None =>
         /\ plan \in Plans
         /\ \A j, k \in 1 .. Len(plan.path) : plan.path[j] = plan.path[k] => j = k

\* The shard's versions are the start and the steps taken, in their order, each
\* as much later than the one before as it takes.
Taken ==
    /\ \A v \in shard : v.by[2] = 0 => v.t = 0
    /\ \A v, w \in shard : v.by[2] < w.by[2] => v.t < w.t
    /\ \A v, w \in shard : v.by[2] = w.by[2] => v = w
    /\ \A v, w \in shard :
         v.by[2] > 0 /\ w.by[2] = v.by[2] + 1 =>
           \E skew \in Skews : w.t = v.t + Travel(v.cell, w.cell) + skew

\* Call f is the step after v, the newest the shard has.
Follows(f, v) ==
    /\ v \in shard /\ \A w \in shard : w.by[2] <= v.by[2]
    /\ f.by[2] = v.by[2] + 1 /\ f.from = v.cell
    /\ v.t <= f.depart /\ (v.by[2] > 0 => f.depart = v.t)
    /\ f.arrival = f.depart + Travel(f.from, f.dest) /\ f.depart < f.arrival

\* At most one call is on its way, and it is the next step.
OneAtATime ==
    /\ Len(wire) <= 1
    /\ wire # << >> => \E v \in shard : Follows(wire[1], v)

\* What was taken and what is on its way are steps of the plan.
AsPlanned ==
    plan # None =>
      /\ \A v \in shard : v.by[2] > 0 => /\ v.by[2] <= plan.requested
                                         /\ v.cell = plan.path[v.by[2]]
      /\ wire # << >> => /\ wire[1].by[2] = plan.requested
                         /\ wire[1].dest = plan.path[plan.requested]

NotStarted ==
    walks = 0 => plan = None /\ wire = << >> /\ \A v \in shard : v.by[2] = 0

Walked ==
    steps = 0 /\ walks <= 1 =>
      /\ ~refused
      /\ rows \subseteq shard /\ coming \subseteq shard
      /\ Taken /\ OneAtATime /\ AsPlanned /\ NotStarted

IInv == Types /\ Walked

-----------------------------------------------------------------------------
\* The operators of the walk.

LEMMA TravelIs ==
    ASSUME NEW from \in DOMAIN Cost, NEW dest \in DOMAIN Cost
    PROVE  Travel(from, dest) \in Nat /\ Travel(from, dest) >= 1
<1>1. Cost[from] \in Nat /\ Cost[dest] \in Nat /\ Second \in Nat /\ Speed \in Nat \ {0}
  BY MovementAssumption DEF MovementAssumption
<1> DEFINE n == (Cost[from] + Cost[dest]) * Second
           d == 2 * Speed
<1>2. n \in Nat /\ d \in Nat \ {0}
  BY <1>1
<1>3. Travel(from, dest) = IF n \div d < 1 THEN 1 ELSE n \div d
  BY DEF Travel
<1> HIDE DEF n, d
<1>4. n \div d \in Int
  BY <1>2
<1> QED
  BY <1>3, <1>4

LEMMA StepIs ==
    ASSUME NEW from \in Cell, NEW dest \in Cell, CanStep(from, dest),
           NEW depart \in Nat, NEW by \in Nat \X Nat
    PROVE  LET f == Step(from, dest, depart, by)
           IN  /\ f \in Frames
               /\ f.from = from /\ f.dest = dest /\ f.depart = depart /\ f.by = by
               /\ f.arrival = depart + Travel(from, dest) /\ f.depart < f.arrival
<1>1. Travel(from, dest) \in Nat /\ Travel(from, dest) >= 1
  BY TravelIs DEF CanStep
<1> QED
  BY <1>1 DEF Step, Frames

\* The version in force is the newest that is due.
LEMMA AtIs ==
    ASSUME NEW versions \in SUBSET Rows, Keyed(versions), NEW at \in Nat
    PROVE  /\ \E v \in versions : v.t <= at
           /\ At(versions, at) \in Cell
           /\ \A v \in versions :
                (v.t <= at /\ \A w \in versions : w.t <= at => w.t <= v.t) =>
                  At(versions, at) = v.cell
           /\ \E v \in versions : v.t <= at /\ At(versions, at) = v.cell
<1> DEFINE due == {v \in versions : v.t <= at}
           ages == {at - v.t : v \in due}
           newest(v) == v.t <= at /\ \A w \in versions : w.t <= at => w.t <= v.t
<1>1. \A v \in versions : v.t \in Nat /\ v.cell \in Cell
  BY DEF Rows
<1>2. PICK first \in versions : first.t = 0
  BY DEF Keyed
<1>3. ages \in SUBSET Nat /\ at - first.t \in ages
  BY <1>1, <1>2
<1>4. PICK age \in ages : \A other \in ages : age <= other
  BY <1>3, LeastNat
<1>5. PICK v \in due : age = at - v.t
  BY <1>4
<1>6. \A w \in due : at - w.t \in ages
  OBVIOUS
<1> HIDE DEF ages
<1>7. newest(v)
  <2>1. v.t <= at
    BY <1>5
  <2>2. ASSUME NEW w \in versions, w.t <= at PROVE w.t <= v.t
    <3>1. age <= at - w.t
      BY <1>4, <1>6, <2>2
    <3> QED
      BY <1>1, <1>5, <3>1
  <2> QED
    BY <2>1, <2>2
<1>8. \A u, w \in versions : newest(u) /\ newest(w) => u = w
  <2> SUFFICES ASSUME NEW u \in versions, NEW w \in versions, newest(u), newest(w) PROVE u = w
    OBVIOUS
  <2>1. u.t <= w.t /\ w.t <= u.t
    OBVIOUS
  <2>2. u.t = w.t
    BY <1>1, <2>1
  <2> QED
    BY <2>2 DEF Keyed
<1> DEFINE force == CHOOSE u \in versions : newest(u)
<1>9. force \in versions /\ newest(force)
  BY <1>5, <1>7
<1>10. At(versions, at) = force.cell
  BY DEF At
<1> HIDE DEF force
<1>11. \A u \in versions : newest(u) => At(versions, at) = u.cell
  BY <1>8, <1>9, <1>10
<1> QED
  BY <1>1, <1>5, <1>9, <1>10, <1>11

\* The version of an instant is in force at that instant.
LEMMA AtItsTime ==
    ASSUME NEW versions \in SUBSET Rows, Keyed(versions), NEW v \in versions
    PROVE  At(versions, v.t) = v.cell
<1>1. \A w \in versions : w.t \in Nat
  BY DEF Rows
<1>2. v.t <= v.t
  BY <1>1
<1> QED
  BY <1>1, <1>2, AtIs

LEMMA WithRowIs ==
    ASSUME NEW versions \in SUBSET Rows, Keyed(versions), NEW row \in Rows
    PROVE  /\ WithRow(versions, row) \in SUBSET Rows /\ Keyed(WithRow(versions, row))
           /\ row \in WithRow(versions, row)
           /\ WithRow(versions, row) \subseteq versions \cup {row}
<1>1. \E v \in WithRow(versions, row) : v.t = 0
  BY DEF Keyed, WithRow
<1> QED
  BY <1>1 DEF Keyed, WithRow

\* A path never comes back to a cell.
LEMMA PathIsSimple ==
    ASSUME NEW start \in Cell, NEW target \in Cell
    PROVE  LET path == HexPath(start, target)
           IN  /\ path \in Seq(Cell) /\ Len(path) \in Nat /\ Len(path) <= MaxPathSteps
               /\ \A j, k \in 1 .. Len(path) : path[j] = path[k] => j = k
<1> DEFINE path == HexPath(start, target)
           dist == HexDistance(start, target)
<1>1. /\ Straight(path, start, target) /\ dist \in Nat /\ MaxPathSteps \in Nat
      /\ Len(path) = IF dist < MaxPathSteps THEN dist ELSE MaxPathSteps
  BY PathIs, DistanceNat, HexAssumption DEF HexAssumption
<1>2. path \in Seq(Cell) /\ \A k \in 1 .. Len(path) : HexDistance(path[k], target) = dist - k
  BY <1>1 DEF Straight
<1> HIDE DEF path, dist
<1>3. Len(path) \in Nat /\ Len(path) <= MaxPathSteps
  BY <1>1
<1>4. ASSUME NEW j \in 1 .. Len(path), NEW k \in 1 .. Len(path), path[j] = path[k]
      PROVE  j = k
  <2>1. dist - j = dist - k
    BY <1>2, <1>4
  <2> QED
    BY <1>1, <1>3, <2>1
<1> QED
  BY <1>2, <1>3, <1>4 DEF path

-----------------------------------------------------------------------------
\* The types.

LEMMA InitTypes == Init => Types
<1> SUFFICES ASSUME Init PROVE Types
  OBVIOUS
<1> DEFINE first == Row(0, Start, <<0, 0>>)
<1>1. first \in Rows /\ first.t = 0
  BY MovementAssumption DEF MovementAssumption, Rows, Row
<1>2. rows = {first} /\ shard = {first}
  BY DEF Init
<1> HIDE DEF first
<1>3. Keyed(rows) /\ Keyed(shard)
  BY <1>1, <1>2 DEF Keyed
<1>4. /\ now \in 0 .. MaxTime /\ unloaded \subseteq Unloaded /\ wire \in Seq(Frames)
      /\ rows \subseteq Rows /\ shard \subseteq Rows /\ coming \subseteq Rows
  BY <1>1, <1>2, MovementAssumption DEF Init, MovementAssumption
<1>5. /\ plan = None /\ walks \in Nat /\ steps \in Nat /\ dups \in Nat
      /\ refused \in BOOLEAN
  BY DEF Init
<1> QED
  BY <1>3, <1>4, <1>5 DEF Types, TypeOK, Keyed

LEMMA MoveStepTypes ==
    ASSUME Types, NEW dest \in Cell, MoveStep(dest)
    PROVE  Types'
<1> DEFINE from == At(rows, now)
<1>1. from \in Cell
  BY AtIs DEF Types, TypeOK
<1>2. wire' \in Seq(Frames)
  <2>1. CASE CanStep(from, dest)
    <3>1. now \in Nat /\ <<0, 0>> \in Nat \X Nat
      BY DEF Types, TypeOK
    <3>2. Step(from, dest, now, <<0, 0>>) \in Frames
      BY <1>1, <2>1, <3>1, StepIs
    <3>3. wire' = Append(wire, Step(from, dest, now, <<0, 0>>))
      BY <2>1 DEF MoveStep
    <3> QED
      BY <3>2, <3>3 DEF Types, TypeOK
  <2>2. CASE ~CanStep(from, dest)
    BY <2>2 DEF MoveStep, Types, TypeOK
  <2> QED
    BY <2>1, <2>2
<1> QED
  BY <1>2 DEF MoveStep, history, Types, TypeOK, Keyed

\* What planning a walk comes to.
LEMMA StartIs ==
    ASSUME Types, NEW target \in Targets, StartMoveTo(target)
    PROVE  /\ walks' = walks + 1
           /\ UNCHANGED <<now, unloaded, rows, shard, coming, steps, dups, late>>
           /\ \/ (plan' = None \/ UNCHANGED plan) /\ UNCHANGED <<wire, refused>>
              \/ \E path \in Seq(Cell), f \in Frames :
                   /\ Len(path) \in 1 .. MaxPathSteps
                   /\ \A j, k \in 1 .. Len(path) : path[j] = path[k] => j = k
                   /\ f = Step(At(rows, now), path[1], now, <<walks + 1, 1>>)
                   /\ f.from = At(rows, now) /\ f.dest = path[1] /\ f.depart = now
                   /\ f.by = <<walks + 1, 1>>
                   /\ f.arrival = now + Travel(f.from, f.dest) /\ f.depart < f.arrival
                   /\ wire' = Append(wire, f) /\ plan' = Plan(path, f.arrival, walks + 1)
                   /\ refused' = FALSE
<1> DEFINE from == At(rows, now)
           path == HexPath(from, target)
           f == Step(from, path[1], now, <<walks + 1, 1>>)
<1>1. now \in Nat /\ <<walks + 1, 1>> \in Nat \X Nat
  BY DEF Types, TypeOK
<1>2. from \in Cell /\ target \in Cell
  BY AtIs, MovementAssumption DEF Types, TypeOK, MovementAssumption
<1>3. /\ path \in Seq(Cell) /\ Len(path) \in Nat /\ Len(path) <= MaxPathSteps
      /\ \A j, k \in 1 .. Len(path) : path[j] = path[k] => j = k
  BY <1>2, PathIsSimple
<1>4. CASE path = << >>
  BY <1>4 DEF StartMoveTo
<1>5. CASE path # << >> /\ ~CanStep(from, path[1])
  BY <1>5 DEF StartMoveTo
<1>6. CASE path # << >> /\ CanStep(from, path[1])
  <2>1. Len(path) \in 1 .. MaxPathSteps /\ path[1] \in Cell
    BY <1>3, <1>6, HexAssumption DEF HexAssumption
  <2>2. /\ f \in Frames
        /\ f.from = from /\ f.dest = path[1] /\ f.depart = now /\ f.by = <<walks + 1, 1>>
        /\ f.arrival = now + Travel(from, path[1]) /\ f.depart < f.arrival
    BY <1>1, <1>2, <1>6, <2>1, StepIs
  <2>3. /\ wire' = Append(wire, f) /\ plan' = Plan(path, f.arrival, walks + 1)
        /\ refused' = FALSE
    BY <1>6 DEF StartMoveTo
  <2>4. f = Step(from, path[1], now, <<walks + 1, 1>>)
    OBVIOUS
  <2> HIDE DEF path, f
  <2>5. /\ Len(path) \in 1 .. MaxPathSteps
        /\ \A j, k \in 1 .. Len(path) : path[j] = path[k] => j = k
        /\ f = Step(At(rows, now), path[1], now, <<walks + 1, 1>>)
        /\ f.from = At(rows, now) /\ f.dest = path[1] /\ f.depart = now
        /\ f.by = <<walks + 1, 1>>
        /\ f.arrival = now + Travel(f.from, f.dest) /\ f.depart < f.arrival
        /\ wire' = Append(wire, f) /\ plan' = Plan(path, f.arrival, walks + 1)
        /\ refused' = FALSE
    BY <1>3, <2>1, <2>2, <2>3, <2>4
  <2>6. /\ walks' = walks + 1
        /\ UNCHANGED <<now, unloaded, rows, shard, coming, steps, dups, late>>
    BY DEF StartMoveTo
  <2> QED
    BY <1>3, <2>2, <2>5, <2>6
<1> QED
  BY <1>4, <1>5, <1>6

LEMMA StartMoveToTypes ==
    ASSUME Types, NEW target \in Targets, StartMoveTo(target)
    PROVE  Types'
<1>1. /\ walks' = walks + 1
      /\ UNCHANGED <<now, unloaded, rows, shard, coming, steps, dups, late>>
  BY StartIs
<1>2. CASE (plan' = None \/ UNCHANGED plan) /\ UNCHANGED <<wire, refused>>
  BY <1>1, <1>2 DEF Types, TypeOK, Keyed
<1>3. ASSUME NEW path \in Seq(Cell), NEW f \in Frames,
             Len(path) \in 1 .. MaxPathSteps,
             \A j, k \in 1 .. Len(path) : path[j] = path[k] => j = k,
             wire' = Append(wire, f), plan' = Plan(path, f.arrival, walks + 1),
             refused' = FALSE
      PROVE  Types'
  <2>1. wire' \in Seq(Frames)
    BY <1>3 DEF Types, TypeOK
  <2>2. path[1] \in Cell /\ f.arrival \in Nat /\ walks + 1 \in Nat
    BY <1>3, HexAssumption DEF HexAssumption, Frames, Types
  <2>3. /\ plan' \in Plans
        /\ plan'.path = path /\ plan'.requested = 1 /\ plan'.last_dest = path[1]
        /\ plan'.last_arrival = f.arrival /\ plan'.walk = walks + 1
    BY <1>3, <2>2 DEF Plan, Plans
  <2>4. TypeOK'
    BY <1>1, <1>3, <2>1, <2>2, <2>3, HexAssumption DEF HexAssumption, Types, TypeOK
  <2>5. \A j, k \in 1 .. Len(plan'.path) : plan'.path[j] = plan'.path[k] => j = k
    BY <1>3, <2>3
  <2>6. Keyed(rows)' /\ Keyed(shard)'
    BY <1>1 DEF Types, Keyed
  <2>7. walks' \in Nat /\ steps' \in Nat /\ dups' \in Nat
    BY <1>1 DEF Types
  <2>8. refused' \in BOOLEAN
    BY <1>3, Zenon
  <2> QED
    BY <2>3, <2>4, <2>5, <2>6, <2>7, <2>8, Zenon DEF Types, Keyed
<1> QED
  BY <1>2, <1>3, StartIs

\* What a row's arrival does to the plan.
LEMMA AdvanceIs ==
    ASSUME Types, NEW versions \in SUBSET Rows, Keyed(versions), NEW arrival \in Nat,
           AdvanceMovement(versions, arrival)
    PROVE  \/ UNCHANGED <<wire, plan>>
           \/ /\ plan # None /\ plan.requested < Len(plan.path)
              /\ At(versions, arrival) = plan.last_dest
              /\ \E f \in Frames :
                   /\ f.from = plan.last_dest /\ f.dest = plan.path[plan.requested + 1]
                   /\ f.depart = arrival /\ f.by = <<plan.walk, plan.requested + 1>>
                   /\ f.arrival = arrival + Travel(f.from, f.dest) /\ f.depart < f.arrival
                   /\ wire' = Append(wire, f)
                   /\ plan' = [plan EXCEPT !.requested = @ + 1, !.last_dest = f.dest,
                                           !.last_arrival = f.arrival]
<1> DEFINE next == plan.path[plan.requested + 1]
           f == Step(plan.last_dest, next, arrival, <<plan.walk, plan.requested + 1>>)
           onward == /\ plan # None /\ plan.requested < Len(plan.path)
                     /\ Confirms(versions, arrival) /\ CanStep(plan.last_dest, next)
<1>1. CASE ~onward
  BY <1>1 DEF AdvanceMovement
<1>2. CASE onward
  <2>1. /\ plan.path \in Seq(Cell) /\ plan.requested \in 1 .. Len(plan.path)
        /\ plan.last_dest = plan.path[plan.requested] /\ plan.walk \in Nat
    BY <1>2 DEF Types, TypeOK, Plans
  <2>2. Len(plan.path) \in Nat
    BY <2>1
  <2>3. plan.requested + 1 \in 1 .. Len(plan.path) /\ plan.requested + 1 \in Nat
    BY <1>2, <2>1, <2>2
  <2>4. plan.last_dest \in Cell /\ next \in Cell
    BY <2>1, <2>3
  <2>5. <<plan.walk, plan.requested + 1>> \in Nat \X Nat
    BY <2>1, <2>3
  <2>6. /\ f \in Frames
        /\ f.from = plan.last_dest /\ f.dest = next /\ f.depart = arrival
        /\ f.by = <<plan.walk, plan.requested + 1>>
        /\ f.arrival = arrival + Travel(plan.last_dest, next) /\ f.depart < f.arrival
    BY <1>2, <2>4, <2>5, StepIs
  <2>7. /\ wire' = Append(wire, f)
        /\ plan' = [plan EXCEPT !.requested = @ + 1, !.last_dest = next,
                                !.last_arrival = f.arrival]
    BY <1>2 DEF AdvanceMovement
  <2>8. plan # None /\ plan.requested < Len(plan.path) /\ At(versions, arrival) = plan.last_dest
    BY <1>2 DEF Confirms
  <2> HIDE DEF f
  <2> QED
    BY <2>6, <2>7, <2>8
<1> QED
  BY <1>1, <1>2

\* A row arrives: new versions, and perhaps the next step.
LEMMA ApplyRowIs ==
    ASSUME Types, NEW row \in Rows, ApplyRow(row)
    PROVE  /\ rows' \in SUBSET Rows /\ Keyed(rows') /\ row \in rows'
           /\ rows' \subseteq rows \cup {row}
           /\ UNCHANGED <<now, unloaded, shard, walks, steps, refused>>
           /\ \/ UNCHANGED <<wire, plan>>
              \/ /\ row.t > now /\ plan # None /\ plan.requested < Len(plan.path)
                 /\ row.cell = plan.last_dest
                 /\ \E f \in Frames :
                      /\ f.from = plan.last_dest /\ f.dest = plan.path[plan.requested + 1]
                      /\ f.depart = row.t /\ f.by = <<plan.walk, plan.requested + 1>>
                      /\ f.arrival = row.t + Travel(f.from, f.dest) /\ f.depart < f.arrival
                      /\ wire' = Append(wire, f)
                      /\ plan' = [plan EXCEPT !.requested = @ + 1, !.last_dest = f.dest,
                                              !.last_arrival = f.arrival]
<1>1. /\ rows' = WithRow(rows, row)
      /\ UNCHANGED <<now, unloaded, shard, walks, steps, refused>>
      /\ row.t > now => AdvanceMovement(rows', row.t)
      /\ ~(row.t > now) => UNCHANGED <<wire, plan>>
  BY DEF ApplyRow
<1>2. /\ rows' \in SUBSET Rows /\ Keyed(rows') /\ row \in rows'
      /\ rows' \subseteq rows \cup {row}
  BY <1>1, WithRowIs DEF Types, TypeOK
<1>3. row.t \in Nat /\ At(rows', row.t) = row.cell
  BY <1>2, AtItsTime DEF Rows
<1> DEFINE advanced ==
      /\ plan # None /\ plan.requested < Len(plan.path)
      /\ row.cell = plan.last_dest
      /\ \E f \in Frames :
           /\ f.from = plan.last_dest /\ f.dest = plan.path[plan.requested + 1]
           /\ f.depart = row.t /\ f.by = <<plan.walk, plan.requested + 1>>
           /\ f.arrival = row.t + Travel(f.from, f.dest) /\ f.depart < f.arrival
           /\ wire' = Append(wire, f)
           /\ plan' = [plan EXCEPT !.requested = @ + 1, !.last_dest = f.dest,
                                   !.last_arrival = f.arrival]
<1>4. CASE row.t > now
  <2>1. AdvanceMovement(rows', row.t)
    BY <1>1, <1>4
  <2>2. UNCHANGED <<wire, plan>> \/ advanced
    BY <1>2, <1>3, <2>1, AdvanceIs
  <2> QED
    BY <1>1, <1>2, <1>4, <2>2
<1>5. CASE ~(row.t > now)
  BY <1>1, <1>2, <1>5
<1> QED
  BY <1>4, <1>5

LEMMA ApplyRowTypes ==
    ASSUME Types, NEW row \in Rows, ApplyRow(row),
           coming' \subseteq coming, dups' \in Nat
    PROVE  Types'
<1>1. /\ rows' \in SUBSET Rows /\ Keyed(rows') /\ row \in rows'
      /\ UNCHANGED <<now, unloaded, shard, walks, steps, refused>>
  BY ApplyRowIs
<1>2. Keyed(rows)' /\ Keyed(shard)'
  BY <1>1 DEF Types, Keyed
<1>3. /\ now' \in 0 .. MaxTime /\ unloaded' \subseteq Unloaded
      /\ rows' \subseteq Rows /\ shard' \subseteq Rows /\ coming' \subseteq Rows
      /\ \A v, w \in rows' : v.t = w.t => v = w
      /\ walks' \in Nat /\ steps' \in Nat /\ dups' \in Nat /\ refused' \in BOOLEAN
  BY <1>1 DEF Types, TypeOK, Keyed
<1>4. CASE UNCHANGED <<wire, plan>>
  BY <1>1, <1>2, <1>3, <1>4 DEF Types, TypeOK, Keyed
<1>5. ASSUME plan # None, plan.requested < Len(plan.path),
             NEW f \in Frames, f.dest = plan.path[plan.requested + 1],
             wire' = Append(wire, f),
             plan' = [plan EXCEPT !.requested = @ + 1, !.last_dest = f.dest,
                                  !.last_arrival = f.arrival]
      PROVE  Types'
  <2>1. /\ plan \in Plans /\ plan.requested \in 1 .. Len(plan.path)
        /\ plan.walk \in 1 .. walks /\ Len(plan.path) <= MaxPathSteps
        /\ \A j, k \in 1 .. Len(plan.path) : plan.path[j] = plan.path[k] => j = k
    BY <1>5 DEF Types, TypeOK
  <2>2. plan = [path |-> plan.path, requested |-> plan.requested,
                last_dest |-> plan.last_dest, last_arrival |-> plan.last_arrival,
                walk |-> plan.walk]
    BY <2>1 DEF Plans
  <2>3. plan' = [path |-> plan.path, requested |-> plan.requested + 1,
                 last_dest |-> f.dest, last_arrival |-> f.arrival, walk |-> plan.walk]
    BY <1>5, <2>2, Zenon
  <2>4. /\ plan'.path = plan.path /\ plan'.requested = plan.requested + 1
        /\ plan'.last_dest = f.dest /\ plan'.last_arrival = f.arrival
        /\ plan'.walk = plan.walk
    BY <2>3
  <2>5. plan.path \in Seq(Cell) /\ f.arrival \in Nat /\ f.dest \in Cell
    BY <2>1 DEF Plans, Frames
  <2>6. plan' \in Plans
    BY <2>1, <2>3, <2>5 DEF Plans
  <2>7. wire' \in Seq(Frames)
    BY <1>5 DEF Types, TypeOK
  <2>8. plan'.requested \in 1 .. Len(plan'.path)
    BY <1>5, <2>1, <2>4, <2>5
  <2>9. /\ plan'.path \in Seq(Cell) /\ Len(plan'.path) <= MaxPathSteps
        /\ plan'.last_dest = plan'.path[plan'.requested]
        /\ plan'.last_arrival \in Nat /\ plan'.walk \in 1 .. walks'
    BY <1>1, <1>5, <2>1, <2>4, <2>5
  <2>10. TypeOK'
    BY <1>3, <2>7, <2>8, <2>9 DEF TypeOK
  <2>11. \A j, k \in 1 .. Len(plan'.path) : plan'.path[j] = plan'.path[k] => j = k
    BY <2>1, <2>4
  <2> QED
    BY <1>2, <1>3, <2>6, <2>10, <2>11, Zenon DEF Types, Keyed
<1> QED
  BY <1>4, <1>5, ApplyRowIs

LEMMA ShardMovesTypes ==
    ASSUME Types, NEW skew \in Skews, ShardMoves(skew)
    PROVE  Types'
<1> DEFINE f == Head(wire)
           row == Row(f.arrival + skew, f.dest, f.by)
<1>1. f \in Frames /\ Tail(wire) \in Seq(Frames)
  BY DEF ShardMoves, Types, TypeOK
<1>2. row \in Rows
  <2>1. f.arrival \in Nat /\ f.dest \in Cell /\ f.by \in Nat \X Nat /\ skew \in Nat
    BY <1>1, MovementAssumption DEF MovementAssumption, Frames
  <2> HIDE DEF f
  <2>2. f.arrival + skew \in Nat
    BY <2>1
  <2> QED
    BY <2>1, <2>2 DEF Row, Rows
<1>3. /\ shard' = WithRow(shard, row) /\ coming' = coming \cup {row} /\ wire' = Tail(wire)
      /\ UNCHANGED <<now, unloaded, rows, plan, walks, steps, dups, refused>>
  BY DEF ShardMoves, bounds, history
<1> HIDE DEF f, row
<1>4. shard' \in SUBSET Rows /\ Keyed(shard')
  BY <1>2, <1>3, WithRowIs DEF Types, TypeOK
<1>5. Keyed(rows)' /\ Keyed(shard)'
  BY <1>3, <1>4 DEF Types, Keyed
<1>6. TypeOK'
  BY <1>1, <1>2, <1>3, <1>4 DEF Types, TypeOK
<1> QED
  BY <1>3, <1>5, <1>6 DEF Types, Keyed

LEMMA NextTypes ==
    ASSUME Types, [Next]_vars
    PROVE  Types'
<1>1. ASSUME NEW i \in 1 .. 6, MoveStep(HexNeighbors(At(rows, now))[i]) PROVE Types'
  <2>1. At(rows, now) \in Cell
    BY AtIs DEF Types, TypeOK
  <2>2. HexNeighbors(At(rows, now))[i] \in Cell
    BY <2>1, NeighbourCell
  <2> QED
    BY <1>1, <2>2, MoveStepTypes
<1>2. ASSUME NEW target \in Targets, StartMoveTo(target) PROVE Types'
  BY <1>2, StartMoveToTypes
<1>3. ASSUME NEW row \in coming, RowArrives(row) PROVE Types'
  <2>1. row \in Rows /\ coming' \subseteq coming /\ dups' \in Nat /\ ApplyRow(row)
    BY <1>3 DEF RowArrives, Types, TypeOK
  <2> QED
    BY <2>1, ApplyRowTypes
<1>4. ASSUME NEW row \in shard, RowAgain(row) PROVE Types'
  <2>1. row \in Rows /\ coming' \subseteq coming /\ dups' \in Nat /\ ApplyRow(row)
    BY <1>4 DEF RowAgain, Types, TypeOK
  <2> QED
    BY <2>1, ApplyRowTypes
<1>5. ASSUME NEW skew \in Skews, ShardMoves(skew) PROVE Types'
  BY <1>5, ShardMovesTypes
<1>6. CASE ShardRefuses
  <2>1. wire' \in Seq(Frames)
    BY <1>6 DEF ShardRefuses, Types, TypeOK
  <2>2. refused' \in BOOLEAN
    BY <1>6 DEF ShardRefuses, Types, TypeOK
  <2> QED
    BY <1>6, <2>1, <2>2 DEF ShardRefuses, Types, TypeOK, Keyed, bounds
<1>7. ASSUME NEW c \in unloaded, Load(c) PROVE Types'
  BY <1>7 DEF Load, Types, TypeOK, Keyed, bounds, history
<1>8. CASE Tick
  <2>1. now' \in 0 .. MaxTime
    BY <1>8, MovementAssumption DEF MovementAssumption, Tick, Types, TypeOK
  <2> QED
    BY <1>8, <2>1 DEF Tick, Types, TypeOK, Keyed, bounds, history
<1>9. CASE UNCHANGED vars
  BY <1>9 DEF vars, Types, TypeOK, Keyed, bounds, history
<1> QED
  BY <1>1, <1>2, <1>3, <1>4, <1>5, <1>6, <1>7, <1>8, <1>9 DEF Next

-----------------------------------------------------------------------------
\* Wherever a walk can be planned, hex_path finds a shortest path one adjacent
\* cell after another, on a grid without bounds and for every cap; and every
\* variable has its type.
THEOREM WalksAreShortest == Spec => []PathShortest
<1>1. Init => Types
  BY InitTypes
<1>2. Types /\ [Next]_vars => Types'
  BY NextTypes
<1>3. Types => PathShortest
  <2> SUFFICES ASSUME Types, NEW target \in Targets
               PROVE  LET from == At(rows, now)
                          path == HexPath(from, target)
                          dist == HexDistance(from, target)
                      IN  /\ Len(path) = IF dist < MaxPathSteps THEN dist ELSE MaxPathSteps
                          /\ dist <= MaxPathSteps /\ dist > 0 => path[Len(path)] = target
                          /\ \A k \in 1 .. Len(path) :
                               HexDistance(IF k = 1 THEN from ELSE path[k - 1], path[k]) = 1
    BY DEF PathShortest, Types
  <2> DEFINE from == At(rows, now)
             path == HexPath(from, target)
             dist == HexDistance(from, target)
  <2>1. from \in Cell /\ target \in Cell
    BY AtIs, MovementAssumption DEF Types, TypeOK, MovementAssumption
  <2>2. /\ Straight(path, from, target)
        /\ Len(path) = IF dist < MaxPathSteps THEN dist ELSE MaxPathSteps
        /\ dist \in Nat /\ MaxPathSteps \in Nat
    BY <2>1, PathIs, DistanceNat, HexAssumption DEF HexAssumption
  <2>3. /\ path \in Seq(Cell)
        /\ \A k \in 1 .. Len(path) :
             /\ HexDistance(path[k], target) = dist - k
             /\ HexDistance(IF k = 1 THEN from ELSE path[k - 1], path[k]) = 1
    BY <2>2 DEF Straight
  <2> HIDE DEF from, path, dist
  <2>4. ASSUME dist <= MaxPathSteps, dist > 0 PROVE path[Len(path)] = target
    <3>1. Len(path) = dist /\ Len(path) \in 1 .. Len(path)
      BY <2>2, <2>4
    <3>2. path[Len(path)] \in Cell /\ HexDistance(path[Len(path)], target) = 0
      BY <2>2, <2>3, <3>1
    <3> QED
      BY <2>1, <3>2, DistanceNat
  <2> QED
    BY <2>2, <2>3, <2>4 DEF from, path, dist
<1> QED
  BY <1>1, <1>2, <1>3, PTL DEF Spec

-----------------------------------------------------------------------------
\* The walk of a soul that nothing else moves.

LEMMA InitWalked == Init => Walked
<1> SUFFICES ASSUME Init PROVE Walked
  OBVIOUS
<1> DEFINE first == Row(0, Start, <<0, 0>>)
<1>1. first.t = 0 /\ first.by[2] = 0
  BY DEF Row
<1>2. /\ rows = {first} /\ shard = {first} /\ coming = {} /\ wire = << >>
      /\ plan = None /\ walks = 0 /\ ~refused
  BY DEF Init
<1> HIDE DEF first
<1>3. Taken
  BY <1>1, <1>2 DEF Taken
<1>4. OneAtATime /\ AsPlanned /\ NotStarted
  BY <1>1, <1>2 DEF OneAtATime, AsPlanned, NotStarted
<1> QED
  BY <1>2, <1>3, <1>4 DEF Walked

\* One call, and it is on the wire alone.
LEMMA AloneOnWire ==
    ASSUME NEW f \in Frames, wire = << >>, wire' = Append(wire, f)
    PROVE  wire' # << >> /\ Len(wire') = 1 /\ wire'[1] = f
  OBVIOUS

LEMMA StartMoveToWalked ==
    ASSUME Types, Walked, NEW target \in Targets, StartMoveTo(target)
    PROVE  Walked'
<1>1. /\ walks' = walks + 1
      /\ UNCHANGED <<now, unloaded, rows, shard, coming, steps, dups, late>>
  BY StartIs
<1>2. SUFFICES ASSUME steps = 0, walks = 0 PROVE Walked'
  BY <1>1 DEF Walked, Types
<1>3. /\ ~refused /\ rows \subseteq shard /\ coming \subseteq shard /\ Taken
      /\ plan = None /\ wire = << >> /\ \A v \in shard : v.by[2] = 0
  BY <1>2 DEF Walked, NotStarted
<1>4. rows' \subseteq shard' /\ coming' \subseteq shard' /\ Taken'
  BY <1>1, <1>3 DEF Taken
<1>5. walks' # 0
  BY <1>1, <1>2
<1>6. CASE (plan' = None \/ UNCHANGED plan) /\ UNCHANGED <<wire, refused>>
  BY <1>3, <1>4, <1>5, <1>6 DEF Walked, OneAtATime, AsPlanned, NotStarted
<1>7. ASSUME NEW path \in Seq(Cell), NEW f \in Frames,
             f.from = At(rows, now), f.dest = path[1], f.depart = now,
             f.by = <<walks + 1, 1>>,
             f.arrival = now + Travel(f.from, f.dest), f.depart < f.arrival,
             wire' = Append(wire, f), plan' = Plan(path, f.arrival, walks + 1),
             ~refused'
      PROVE  Walked'
  <2>1. PICK v \in rows : v.t <= now /\ At(rows, now) = v.cell
    BY AtIs DEF Types, TypeOK
  <2>2. v \in shard /\ v.by[2] = 0 /\ \A w \in shard : w.by[2] <= v.by[2]
    BY <1>3, <2>1
  <2>3. Follows(f, v)'
    BY <1>1, <1>7, <2>1, <2>2 DEF Follows
  <2>4. wire' # << >> /\ Len(wire') = 1 /\ wire'[1] = f
    BY <1>3, <1>7, AloneOnWire
  <2>5. OneAtATime'
    BY <1>1, <2>2, <2>3, <2>4 DEF OneAtATime
  <2>6. plan'.requested = 1 /\ plan'.path = path
    BY <1>7 DEF Plan
  <2>7. AsPlanned'
    BY <1>1, <1>3, <1>7, <2>4, <2>6 DEF AsPlanned
  <2> QED
    BY <1>4, <1>5, <1>7, <2>5, <2>7 DEF Walked, NotStarted
<1> QED
  BY <1>6, <1>7, StartIs

LEMMA ApplyRowWalked ==
    ASSUME Types, Walked, NEW row \in shard, ApplyRow(row), coming' \subseteq coming
    PROVE  Walked'
<1>1. row \in Rows
  BY DEF Types, TypeOK
<1>2. /\ rows' \subseteq rows \cup {row}
      /\ UNCHANGED <<now, unloaded, shard, walks, steps, refused>>
  BY <1>1, ApplyRowIs
<1>3. SUFFICES ASSUME steps = 0, walks <= 1 PROVE Walked'
  BY <1>2 DEF Walked
<1>4. /\ ~refused /\ rows \subseteq shard /\ coming \subseteq shard
      /\ Taken /\ OneAtATime /\ AsPlanned /\ NotStarted
  BY <1>3 DEF Walked
<1>5. ~refused' /\ rows' \subseteq shard' /\ coming' \subseteq shard' /\ Taken'
  BY <1>2, <1>4 DEF Taken
<1>6. CASE UNCHANGED <<wire, plan>>
  <2>1. OneAtATime'
    BY <1>2, <1>4, <1>6 DEF OneAtATime, Follows
  <2>2. AsPlanned' /\ NotStarted'
    BY <1>2, <1>4, <1>6 DEF AsPlanned, NotStarted
  <2> QED
    BY <1>5, <2>1, <2>2 DEF Walked
<1>7. ASSUME row.t > now, plan # None, plan.requested < Len(plan.path),
             row.cell = plan.last_dest, NEW f \in Frames,
             f.from = plan.last_dest, f.dest = plan.path[plan.requested + 1],
             f.depart = row.t, f.by = <<plan.walk, plan.requested + 1>>,
             f.arrival = row.t + Travel(f.from, f.dest), f.depart < f.arrival,
             wire' = Append(wire, f),
             plan' = [plan EXCEPT !.requested = @ + 1, !.last_dest = f.dest,
                                  !.last_arrival = f.arrival]
      PROVE  Walked'
  <2>1. /\ plan \in Plans /\ plan.requested \in 1 .. Len(plan.path)
        /\ plan.last_dest = plan.path[plan.requested]
        /\ \A j, k \in 1 .. Len(plan.path) : plan.path[j] = plan.path[k] => j = k
    BY <1>7 DEF Types, TypeOK
  <2>2. Len(plan.path) \in Nat /\ plan.requested \in Nat /\ plan.requested + 1 \in Nat
    BY <2>1 DEF Plans
  <2>3. \A v \in shard : v.by[2] \in Nat /\ v.t \in Nat
    BY DEF Types, TypeOK, Rows
  \* The row is that of the step last asked for, for it is none of the others'.
  <2>4. row.by[2] = plan.requested
    <3>1. row.by[2] > 0
      <4>1. now \in Nat
        BY DEF Types, TypeOK
      <4> QED
        BY <1>4, <1>7, <2>3, <4>1 DEF Taken
    <3>2. row.by[2] <= plan.requested /\ row.cell = plan.path[row.by[2]]
      BY <1>4, <1>7, <3>1 DEF AsPlanned
    <3>3. row.by[2] \in 1 .. Len(plan.path)
      BY <2>1, <2>2, <2>3, <3>1, <3>2
    <3> QED
      BY <1>7, <2>1, <3>2, <3>3
  <2>5. \A w \in shard : w.by[2] <= row.by[2]
    BY <1>4, <1>7, <2>2, <2>3, <2>4 DEF AsPlanned
  \* So it has been taken, and no other is on its way.
  <2>6. wire = << >>
    <3> SUFFICES ASSUME wire # << >> PROVE FALSE
      OBVIOUS
    <3>1. PICK v \in shard : Follows(wire[1], v)
      BY <1>4 DEF OneAtATime
    <3>2. wire[1].by[2] = v.by[2] + 1 /\ row.by[2] <= v.by[2]
      BY <3>1 DEF Follows
    <3>3. wire[1].by[2] = plan.requested
      BY <1>4, <1>7 DEF AsPlanned
    <3> QED
      BY <2>2, <2>3, <2>4, <3>2, <3>3
  <2>7. wire' # << >> /\ Len(wire') = 1 /\ wire'[1] = f
    BY <1>7, <2>6, AloneOnWire
  <2>8. f.by[2] = row.by[2] + 1
    BY <1>7, <2>4
  <2>9. Follows(f, row)'
    BY <1>2, <1>7, <2>3, <2>4, <2>5, <2>8 DEF Follows
  <2>10. OneAtATime'
    BY <1>2, <2>7, <2>9 DEF OneAtATime
  <2>11. plan'.path = plan.path /\ plan'.requested = plan.requested + 1
    <3>1. plan = [path |-> plan.path, requested |-> plan.requested,
                  last_dest |-> plan.last_dest, last_arrival |-> plan.last_arrival,
                  walk |-> plan.walk]
      BY <2>1 DEF Plans
    <3>2. plan' = [path |-> plan.path, requested |-> plan.requested + 1,
                   last_dest |-> f.dest, last_arrival |-> f.arrival, walk |-> plan.walk]
      BY <1>7, <3>1, Zenon
    <3> QED
      BY <3>2
  <2>12. AsPlanned'
    <3>1. \A v \in shard : v.by[2] > 0 => /\ v.by[2] <= plan.requested + 1
                                          /\ v.cell = plan.path[v.by[2]]
      BY <1>4, <1>7, <2>2, <2>3 DEF AsPlanned
    <3>2. f.by[2] = plan.requested + 1
      BY <1>7
    <3> QED
      BY <1>2, <1>7, <2>7, <2>11, <3>1, <3>2 DEF AsPlanned
  <2>13. walks # 0
    BY <1>4, <1>7 DEF NotStarted
  <2> QED
    BY <1>2, <1>5, <2>10, <2>12, <2>13 DEF Walked, NotStarted
<1> QED
  BY <1>1, <1>6, <1>7, ApplyRowIs

\* The oldest call, when it is the next step.
LEMMA HeadIs ==
    ASSUME Types, OneAtATime, wire # << >>
    PROVE  /\ Head(wire) = wire[1] /\ wire[1] \in Frames /\ Tail(wire) = << >>
           /\ \E v \in shard : Follows(wire[1], v)
<1>1. wire \in Seq(Frames) /\ Len(wire) = 1
  <2>1. wire \in Seq(Frames) /\ Len(wire) <= 1
    BY DEF OneAtATime, Types, TypeOK
  <2>2. Len(wire) \in Nat /\ Len(wire) # 0
    BY <2>1, EmptySeq, LenProperties
  <2>3. \A n \in Nat : n <= 1 /\ n # 0 => n = 1
    OBVIOUS
  <2> QED
    BY <2>1, <2>2, <2>3, Zenon
<1>2. Head(wire) = wire[1] /\ wire[1] \in Frames /\ Tail(wire) = << >>
  <2>1. Head(wire) = wire[1] /\ wire[1] \in Frames
    BY <1>1
  <2>2. Tail(wire) \in Seq(Frames) /\ Len(Tail(wire)) = 0
    BY <1>1, HeadTailProperties
  <2> QED
    BY <2>1, <2>2, EmptySeq
<1> QED
  BY <1>2 DEF OneAtATime

LEMMA ShardMovesWalked ==
    ASSUME Types, Walked, NEW skew \in Skews, ShardMoves(skew)
    PROVE  Walked'
<1> DEFINE row == Row(Head(wire).arrival + skew, Head(wire).dest, Head(wire).by)
<1>1. /\ shard' = WithRow(shard, row) /\ coming' = coming \cup {row} /\ wire' = Tail(wire)
      /\ wire # << >>
      /\ UNCHANGED <<now, unloaded, rows, plan, walks, steps, dups, refused>>
  BY DEF ShardMoves, bounds, history
<1>2. SUFFICES ASSUME steps = 0, walks <= 1 PROVE Walked'
  BY <1>1 DEF Walked
<1>3. /\ ~refused /\ rows \subseteq shard /\ coming \subseteq shard
      /\ Taken /\ OneAtATime /\ AsPlanned /\ NotStarted
  BY <1>2 DEF Walked
<1>4. /\ Head(wire) = wire[1] /\ wire[1] \in Frames /\ Tail(wire) = << >>
  BY <1>1, <1>3, HeadIs
<1>5. PICK v \in shard : Follows(wire[1], v)
  BY <1>1, <1>3, HeadIs
<1> DEFINE f == wire[1]
<1>6. /\ row.t = f.arrival + skew /\ row.cell = f.dest /\ row.by = f.by
  BY <1>4 DEF Row
<1>7. /\ f.depart \in Nat /\ f.arrival \in Nat /\ skew \in Nat
      /\ \A w \in shard : w.by[2] \in Nat /\ w.t \in Nat
  BY <1>4, MovementAssumption DEF MovementAssumption, Frames, Types, TypeOK, Rows
<1>8. /\ \A w \in shard : w.by[2] <= v.by[2]
      /\ f.by[2] = v.by[2] + 1 /\ f.from = v.cell
      /\ v.t <= f.depart /\ (v.by[2] > 0 => f.depart = v.t)
      /\ f.arrival = f.depart + Travel(f.from, f.dest) /\ f.depart < f.arrival
  BY <1>5 DEF Follows
<1> HIDE DEF row, f
<1>9. \A w \in shard : w.t <= v.t
  BY <1>3, <1>7, <1>8 DEF Taken
<1>10. row.t \in Nat /\ \A w \in shard : w.t < row.t /\ w.by[2] < row.by[2]
  BY <1>6, <1>7, <1>8, <1>9
<1>11. shard' = shard \cup {row}
  BY <1>1, <1>7, <1>10 DEF WithRow
<1>12. row.by[2] = v.by[2] + 1 /\ row.by[2] \in Nat /\ row.by[2] > 0
  BY <1>6, <1>7, <1>8
<1>13. Taken'
  <2>1. \A w \in shard' : w.by[2] = 0 => w.t = 0
    BY <1>3, <1>11, <1>12 DEF Taken
  <2>2. \A u, w \in shard' : u.by[2] < w.by[2] => u.t < w.t
    BY <1>3, <1>7, <1>10, <1>11, <1>12 DEF Taken
  <2>3. \A u, w \in shard' : u.by[2] = w.by[2] => u = w
    BY <1>3, <1>7, <1>10, <1>11, <1>12 DEF Taken
  <2>4. ASSUME NEW u \in shard', NEW w \in shard', u.by[2] > 0, w.by[2] = u.by[2] + 1
        PROVE  \E s \in Skews : w.t = u.t + Travel(u.cell, w.cell) + s
    <3>1. CASE u \in shard /\ w \in shard
      BY <1>3, <2>4, <3>1 DEF Taken
    <3>2. CASE u \in shard /\ w = row
      <4>1. u = v
        BY <1>3, <1>7, <1>12, <2>4, <3>2 DEF Taken
      <4>2. row.t = v.t + Travel(v.cell, row.cell) + skew
        BY <1>6, <1>7, <1>8, <2>4, <4>1
      <4> QED
        BY <3>2, <4>1, <4>2
    <3>3. CASE u = row
      <4>1. u.by[2] < w.by[2] /\ w.by[2] <= row.by[2]
        BY <1>7, <1>10, <1>11, <1>12, <2>4, <3>3
      <4> QED
        BY <1>12, <2>4, <3>3, <4>1
    <3> QED
      BY <1>11, <3>1, <3>2, <3>3
  <2> QED
    BY <2>1, <2>2, <2>3, <2>4 DEF Taken
<1>14. wire' = << >> /\ OneAtATime'
  BY <1>1, <1>4 DEF OneAtATime
<1>15. AsPlanned'
  <2> SUFFICES ASSUME plan # None PROVE AsPlanned'
    BY <1>1 DEF AsPlanned
  <2>1. /\ f.by[2] = plan.requested /\ f.dest = plan.path[plan.requested]
        /\ \A w \in shard : w.by[2] > 0 => /\ w.by[2] <= plan.requested
                                           /\ w.cell = plan.path[w.by[2]]
    BY <1>1, <1>3 DEF AsPlanned, f
  <2>2. row.by[2] <= plan.requested /\ row.cell = plan.path[row.by[2]]
    BY <1>6, <1>12, <2>1
  <2> QED
    BY <1>1, <1>11, <1>14, <2>1, <2>2 DEF AsPlanned
<1>16. walks # 0
  BY <1>1, <1>3 DEF NotStarted
<1> QED
  BY <1>1, <1>3, <1>11, <1>13, <1>14, <1>15, <1>16 DEF Walked, NotStarted

\* The call on its way departs from the cell the shard has the soul on.
LEMMA ShardRefusesWalked ==
    ASSUME Types, Walked, ShardRefuses
    PROVE  Walked'
<1>1. wire # << >> /\ At(shard, Head(wire).depart) # Head(wire).from
      /\ UNCHANGED <<steps, walks>>
  BY DEF ShardRefuses, bounds
<1>2. SUFFICES ASSUME steps = 0, walks <= 1 PROVE FALSE
  BY <1>1 DEF Walked
<1>3. OneAtATime /\ Taken
  BY <1>2 DEF Walked
<1>4. /\ Head(wire) = wire[1] /\ wire[1] \in Frames
  BY <1>1, <1>3, HeadIs
<1>5. PICK v \in shard : Follows(wire[1], v)
  BY <1>1, <1>3, HeadIs
<1>6. /\ wire[1].depart \in Nat
      /\ \A w \in shard : w.by[2] \in Nat /\ w.t \in Nat
  BY <1>4 DEF Frames, Types, TypeOK, Rows
<1>7. v.t <= wire[1].depart /\ wire[1].from = v.cell /\ \A w \in shard : w.by[2] <= v.by[2]
  BY <1>5 DEF Follows
<1>8. \A w \in shard : w.t <= v.t
  BY <1>3, <1>6, <1>7 DEF Taken
<1>9. At(shard, wire[1].depart) = v.cell
  BY <1>6, <1>7, <1>8, AtIs DEF Types, TypeOK
<1> QED
  BY <1>1, <1>4, <1>7, <1>9

LEMMA NextWalked ==
    ASSUME Types, Walked, [Next]_vars
    PROVE  Walked'
<1>1. ASSUME NEW i \in 1 .. 6, MoveStep(HexNeighbors(At(rows, now))[i]) PROVE Walked'
  <2>1. steps' = steps + 1 /\ steps \in Nat
    BY <1>1 DEF MoveStep, Types
  <2> QED
    BY <2>1 DEF Walked
<1>2. ASSUME NEW target \in Targets, StartMoveTo(target) PROVE Walked'
  BY <1>2, StartMoveToWalked
<1>3. ASSUME NEW row \in coming, RowArrives(row) PROVE Walked'
  <2>1. coming' \subseteq coming /\ ApplyRow(row)
    BY <1>3 DEF RowArrives
  <2>2. UNCHANGED <<steps, walks>>
    BY <2>1 DEF ApplyRow
  <2>3. SUFFICES ASSUME steps = 0, walks <= 1 PROVE Walked'
    BY <2>2 DEF Walked
  <2>4. row \in shard
    BY <2>3 DEF Walked
  <2> QED
    BY <2>1, <2>4, ApplyRowWalked
<1>4. ASSUME NEW row \in shard, RowAgain(row) PROVE Walked'
  <2>1. coming' \subseteq coming /\ ApplyRow(row)
    BY <1>4 DEF RowAgain
  <2> QED
    BY <2>1, ApplyRowWalked
<1>5. ASSUME NEW skew \in Skews, ShardMoves(skew) PROVE Walked'
  BY <1>5, ShardMovesWalked
<1>6. CASE ShardRefuses
  BY <1>6, ShardRefusesWalked
<1>7. CASE (\E c \in unloaded : Load(c)) \/ Tick \/ UNCHANGED vars
  <2>1. UNCHANGED <<rows, plan, wire, shard, coming, walks, steps, refused>>
    BY <1>7 DEF Load, Tick, vars, bounds, history
  <2>2. OneAtATime => OneAtATime'
    BY <2>1 DEF OneAtATime, Follows
  <2>3. /\ Taken => Taken'
        /\ AsPlanned => AsPlanned'
        /\ NotStarted => NotStarted'
    BY <2>1 DEF Taken, AsPlanned, NotStarted
  <2> QED
    BY <2>1, <2>2, <2>3 DEF Walked
<1> QED
  BY <1>1, <1>2, <1>3, <1>4, <1>5, <1>6, <1>7 DEF Next

\* The invariant of movement: the types, and of a walk that nothing crosses that
\* the shard has its steps in their order and time, and that the one on its way,
\* if any, is the next of them.
THEOREM Invariance == Spec => []IInv
<1>1. Init => IInv
  BY InitTypes, InitWalked DEF IInv
<1>2. IInv /\ [Next]_vars => IInv'
  BY NextTypes, NextWalked DEF IInv
<1> QED
  BY <1>1, <1>2, PTL DEF Spec

\* advance_movement keeps a walk that nothing crosses on its schedule: no step is
\* refused although each is sent before the soul is where it departs, and each
\* departs at the moment the one before arrives, however late, often and
\* disordered the rows are and whatever the tiles cost.
THEOREM WalksAreOnSchedule == Spec => []OnSchedule
<1>1. IInv => OnSchedule
  BY DEF IInv, Walked, Taken, OnSchedule
<1> QED
  BY <1>1, Invariance, PTL
=============================================================================
