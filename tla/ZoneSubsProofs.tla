--------------------------- MODULE ZoneSubsProofs ---------------------------
(***************************************************************************)
(* Proofs about ZoneSubs, for any zones, anchors, coverage and limits:     *)
(* what an anchor or a hold needs is open, regions are held by their open  *)
(* zones, the gate follows the intents however many are pending, and the   *)
(* manager implements the sticky-subscription contract.                    *)
(***************************************************************************)
EXTENDS ZoneSubs, FiniteSetTheorems, SequenceTheorems, WellFoundedInduction, TLAPS

RegionsHeld == \A r \in Region : region_wanted[r] = ZonesOf(Open(subs), r)

IInv == TypeOK /\ NeededIsOpen /\ RegionsHeld /\ GateFollowsManager

Wanted(ss) == {k \in Open(ss) : ss[k].wanted}

LEMMA NoSubIsClosed == NoSub \notin SubState /\ ~NoSub.wanted
<1>1. NoSub.updates \notin 0..RecentTolerance
  BY DEF NoSub
<1>2. \A sub \in SubState : sub.updates \in 0..RecentTolerance
  BY DEF SubState
<1> QED
  BY <1>1, <1>2 DEF NoSub

LEMMA KeysFinite ==
    ASSUME NEW ss
    PROVE  IsFiniteSet(Open(ss)) /\ Open(ss) \subseteq Key
<1>1. IsFiniteSet(Data)
  <2>1. IsFiniteSet({"card"}) /\ IsFiniteSet({"card"} \cup {"zone"})
    BY FS_Singleton, FS_AddElement
  <2>2. Data = {"card"} \cup {"zone"}
    BY DEF Data
  <2> QED
    BY <2>1, <2>2
<1>2. IsFiniteSet(Key)
  BY <1>1, FS_Product, ZoneAssumption DEF Key, ZoneAssumption
<1>3. Open(ss) \in SUBSET Key
  BY DEF Open
<1> QED
  BY <1>2, <1>3, FS_Subset

-----------------------------------------------------------------------------
\* enforce_capacity: it takes candidates only, no more than it must, and all of
\* them when even that is not enough.

LEMMA Evicted ==
    ASSUME NEW ss, NEW V \in Victims(ss)
    PROVE  /\ V \subseteq Open(ss) \ Wanted(ss)
           /\ V # {} => Cardinality(Open(ss) \ V) >= MaxOpen
           /\ Cardinality(Open(ss) \ V) > MaxOpen => Open(ss) \ V = Wanted(ss)
<1> DEFINE candidates == {k \in Open(ss) : ~ss[k].wanted}
           size == Cardinality(Open(ss))
           over == Max({0, size - MaxOpen})
<1>1. V \in SUBSET candidates /\ Cardinality(V) = Min({over, Cardinality(candidates)})
  BY DEF Victims
<1>2. IsFiniteSet(Open(ss)) /\ IsFiniteSet(candidates) /\ IsFiniteSet(V)
  <2>1. IsFiniteSet(Open(ss))
    BY KeysFinite
  <2>2. IsFiniteSet(candidates)
    BY <2>1, FS_Subset
  <2> QED
    BY <1>1, <2>1, <2>2, FS_Subset
<1>3. /\ size \in Nat /\ Cardinality(candidates) \in Nat /\ Cardinality(V) \in Nat
      /\ Cardinality(Open(ss) \ V) = size - Cardinality(V)
  <2>1. Open(ss) \cap V = V
    BY <1>1
  <2> QED
    BY <1>2, <2>1, FS_CardinalityType, FS_Difference
<1>4. MaxOpen \in Nat
  BY ZoneAssumption DEF ZoneAssumption
<1>5. over = IF size > MaxOpen THEN size - MaxOpen ELSE 0
  <2> HIDE DEF size
  <2>1. size - MaxOpen \in Int
    BY <1>3, <1>4
  <2> QED
    BY <1>3, <1>4, <2>1 DEF Max
<1>6. Cardinality(V) = IF over <= Cardinality(candidates) THEN over ELSE Cardinality(candidates)
  <2> HIDE DEF candidates, over
  <2>1. over \in Int
    <3> HIDE DEF size
    <3> QED
      BY <1>3, <1>4, <1>5
  <2> QED
    BY <1>1, <1>3, <2>1 DEF Min
<1>7. V # {} => Cardinality(V) > 0
  BY <1>2, <1>3, FS_EmptySet
<1>8. Cardinality(V) = Cardinality(candidates) => V = candidates
  BY <1>1, <1>2, FS_Subset
<1>9. V = candidates => Open(ss) \ V = Wanted(ss)
  BY DEF Wanted
<1>10. V \subseteq Open(ss) \ Wanted(ss)
  BY <1>1 DEF Wanted
<1> HIDE DEF candidates, over, size
<1> QED
  BY <1>3, <1>4, <1>5, <1>6, <1>7, <1>8, <1>9, <1>10

-----------------------------------------------------------------------------
\* zone_frames: what the fold over a queue of intents computes, one intent at a
\* time.

\* f tells what each of the first m intents of a queue makes of a subscription
\* of target t.
IsRun(f, t, start, queue, m) ==
    f = [n \in 0..m |-> IF n = 0 THEN start ELSE AfterIntent(t, f[n - 1], queue[n])]

LEMMA LeastNat ==
    ASSUME NEW T \in SUBSET Nat, T # {}
    PROVE  \E x \in T : \A y \in T : x <= y
<1>1. PICK x \in T : \A y \in T : ~(<<y, x>> \in OpToRel(<, Nat))
  BY NatLessThanWellFounded, WFMin
<1>2. \A y \in T : ~(y < x)
  BY <1>1 DEF OpToRel
<1> QED
  BY <1>2

LEMMA RunExists ==
    ASSUME NEW t, NEW start, NEW queue, NEW m \in Nat
    PROVE  \E f : IsRun(f, t, start, queue, m)
<1> DEFINE T == {n \in Nat : ~\E f : IsRun(f, t, start, queue, n)}
<1>1. SUFFICES ASSUME T # {} PROVE FALSE
  OBVIOUS
<1>2. PICK k \in T : \A n \in T : k <= n
  BY <1>1, LeastNat
<1>3. CASE k = 0
  <2>1. IsRun([n \in 0..0 |-> start], t, start, queue, 0)
    BY DEF IsRun
  <2> QED
    BY <1>3, <2>1
<1>4. CASE k # 0
  <2>1. k \in Nat /\ k - 1 \in Nat /\ ~(k <= k - 1)
    BY <1>4
  <2>2. PICK g : IsRun(g, t, start, queue, k - 1)
    BY <1>2, <2>1
  <2>3. \A n \in 0..k - 1 : g[n] = IF n = 0 THEN start ELSE AfterIntent(t, g[n - 1], queue[n])
    BY <2>1, <2>2 DEF IsRun
  <2> DEFINE f == [n \in 0..k |-> IF n = k THEN AfterIntent(t, g[k - 1], queue[k]) ELSE g[n]]
  <2>4. \A n \in 0..k : f[n] = IF n = 0 THEN start ELSE AfterIntent(t, f[n - 1], queue[n])
    BY <2>1, <2>3
  <2>5. IsRun(f, t, start, queue, k)
    BY <2>4 DEF IsRun
  <2> QED
    BY <1>2, <2>5
<1> QED
  BY <1>3, <1>4

\* Two runs agree as far as their queues do.
LEMMA RunsAgree ==
    ASSUME NEW t, NEW start, NEW f, NEW g, NEW q, NEW r, NEW m \in Nat, NEW k \in Nat,
           IsRun(f, t, start, q, m), IsRun(g, t, start, r, k),
           NEW j \in Nat, j <= m, j <= k, \A n \in 1..j : q[n] = r[n]
    PROVE  f[j] = g[j]
<1> DEFINE T == {n \in 0..j : f[n] # g[n]}
<1>1. SUFFICES ASSUME T # {} PROVE FALSE
  OBVIOUS
<1>2. PICK i \in T : \A n \in T : i <= n
  <2>1. T \in SUBSET Nat
    OBVIOUS
  <2> QED
    BY <1>1, <2>1, LeastNat
<1>3. /\ \A n \in 0..m : f[n] = IF n = 0 THEN start ELSE AfterIntent(t, f[n - 1], q[n])
      /\ \A n \in 0..k : g[n] = IF n = 0 THEN start ELSE AfterIntent(t, g[n - 1], r[n])
  BY DEF IsRun
<1>4. i # 0
  BY <1>3
<1>5. i \in 1..j /\ i - 1 \in 0..j /\ i - 1 \notin T
  BY <1>2, <1>4
<1>6. f[i - 1] = g[i - 1] /\ q[i] = r[i]
  BY <1>5
<1>7. f[i] = AfterIntent(t, f[i - 1], q[i]) /\ g[i] = AfterIntent(t, g[i - 1], r[i])
  BY <1>3, <1>4, <1>5
<1> QED
  BY <1>2, <1>6, <1>7

LEMMA FramesIsRun ==
    ASSUME NEW t, NEW start, NEW queue \in Seq(BOOLEAN)
    PROVE  \E f : IsRun(f, t, start, queue, Len(queue)) /\ Frames(t, start, queue) = f[Len(queue)]
<1> DEFINE f == CHOOSE g : IsRun(g, t, start, queue, Len(queue))
<1>1. IsRun(f, t, start, queue, Len(queue))
  <2>1. Len(queue) \in Nat
    BY LenProperties
  <2>2. \E g : IsRun(g, t, start, queue, Len(queue))
    BY <2>1, RunExists
  <2> QED
    BY <2>2
<1>2. Frames(t, start, queue) = f[Len(queue)]
  BY DEF Frames, IsRun
<1> QED
  BY <1>1, <1>2

LEMMA FramesEmpty ==
    ASSUME NEW t, NEW start
    PROVE  Frames(t, start, <<>>) = start
<1> DEFINE none == <<>>
<1>1. none \in Seq(BOOLEAN) /\ Len(none) = 0
  OBVIOUS
<1> HIDE DEF none
<1>2. PICK f : IsRun(f, t, start, none, Len(none)) /\ Frames(t, start, none) = f[Len(none)]
  BY <1>1, FramesIsRun
<1>3. f[0] = start
  BY <1>1, <1>2 DEF IsRun
<1> QED
  BY <1>1, <1>2, <1>3 DEF none

LEMMA FramesAppend ==
    ASSUME NEW t, NEW start, NEW queue \in Seq(BOOLEAN), NEW on \in BOOLEAN
    PROVE  Frames(t, start, Append(queue, on)) = AfterIntent(t, Frames(t, start, queue), on)
<1> DEFINE longer == Append(queue, on)
           size == Len(queue)
<1>1. /\ size \in Nat /\ Len(longer) = size + 1 /\ longer \in Seq(BOOLEAN)
      /\ longer[size + 1] = on /\ \A n \in 1..size : longer[n] = queue[n]
  OBVIOUS
<1>2. PICK f : IsRun(f, t, start, queue, size) /\ Frames(t, start, queue) = f[size]
  BY FramesIsRun
<1>3. PICK g : IsRun(g, t, start, longer, size + 1) /\ Frames(t, start, longer) = g[size + 1]
  BY <1>1, FramesIsRun
<1> HIDE DEF longer, size
<1>4. g[size] = f[size]
  BY <1>1, <1>2, <1>3, RunsAgree
<1>5. g[size + 1] = AfterIntent(t, g[size], longer[size + 1])
  BY <1>1, <1>3 DEF IsRun
<1> QED
  BY <1>1, <1>2, <1>3, <1>4, <1>5 DEF longer

LEMMA FramesPush ==
    ASSUME NEW t, NEW start, NEW queue \in Seq(BOOLEAN)
    PROVE  /\ Frames(t, start, Append(queue, TRUE)) = AfterIntent(t, Frames(t, start, queue), TRUE)
           /\ Frames(t, start, Append(queue, FALSE)) = AfterIntent(t, Frames(t, start, queue), FALSE)
<1>1. \A on \in BOOLEAN :
        Frames(t, start, Append(queue, on)) = AfterIntent(t, Frames(t, start, queue), on)
  BY FramesAppend
<1>2. TRUE \in BOOLEAN /\ FALSE \in BOOLEAN
  OBVIOUS
<1> QED
  BY <1>1, <1>2, Zenon

-----------------------------------------------------------------------------
\* A subscription the client and the gate have, and one neither has.

Up(st) == st = [held |-> TRUE, live |-> 1]
Down(st) == st = [held |-> FALSE, live |-> 0]

LEMMA OneIntent ==
    ASSUME NEW t, NEW st
    PROVE  /\ ~(Up(st) /\ Down(st))
           /\ Up(st) \/ Down(st) => Down(AfterIntent(t, st, FALSE))
           /\ Down(st) => Up(AfterIntent(t, st, TRUE))
           /\ Up(st) /\ t[1] # "region" => Up(AfterIntent(t, st, TRUE))
<1>1. Up(st) => st.held = TRUE /\ st.live = 1
  BY DEF Up
<1>2. Down(st) => st.held = FALSE /\ st.live = 0
  BY DEF Down
<1>3. ~(Up(st) /\ Down(st))
  BY <1>1, <1>2
<1>4. Up(st) => Down(AfterIntent(t, st, FALSE))
  <2> SUFFICES ASSUME Up(st) PROVE Down(AfterIntent(t, st, FALSE))
    OBVIOUS
  <2>1. st.held
    BY <1>1
  <2>2. AfterIntent(t, st, FALSE) = [held |-> FALSE, live |-> st.live - 1]
    BY <2>1, Zenon DEF AfterIntent
  <2>3. st.live - 1 = 0
    BY <1>1
  <2> QED
    BY <2>2, <2>3 DEF Down
<1>5. Down(st) => Down(AfterIntent(t, st, FALSE))
  BY <1>2 DEF AfterIntent
<1>6. Down(st) => Up(AfterIntent(t, st, TRUE))
  <2> SUFFICES ASSUME Down(st) PROVE Up(AfterIntent(t, st, TRUE))
    OBVIOUS
  <2>1. ~st.held
    BY <1>2
  <2>2. AfterIntent(t, st, TRUE) = [held |-> TRUE, live |-> st.live + 1]
    BY <2>1, Zenon DEF AfterIntent
  <2>3. st.live + 1 = 1
    BY <1>2
  <2> QED
    BY <2>2, <2>3 DEF Up
<1>7. Up(st) /\ t[1] # "region" => Up(AfterIntent(t, st, TRUE))
  BY <1>1 DEF AfterIntent
<1> QED
  BY <1>3, <1>4, <1>5, <1>6, <1>7, Zenon

Pushed(queue, k, on, off) ==
    queue \o (IF k \in on THEN <<TRUE>> ELSE <<>>) \o (IF k \in off THEN <<FALSE>> ELSE <<>>)

\* open_sub queues an On and close_sub an Off; a region is subscribed only when
\* it is not.
LEMMA PushedIntents ==
    ASSUME NEW t, NEW start, NEW queue \in Seq(BOOLEAN),
           NEW k, NEW on, NEW off,
           Up(Frames(t, start, queue)) \/ Down(Frames(t, start, queue)),
           t[1] = "region" /\ k \in on => Down(Frames(t, start, queue))
    PROVE  /\ k \notin off /\ (Up(Frames(t, start, queue)) \/ k \in on)
                => Up(Frames(t, start, Pushed(queue, k, on, off)))
           /\ k \in off \/ (Down(Frames(t, start, queue)) /\ k \notin on)
                => Down(Frames(t, start, Pushed(queue, k, on, off)))
<1> DEFINE longer == Pushed(queue, k, on, off)
           mid == queue \o (IF k \in on THEN <<TRUE>> ELSE <<>>)
<1>1. /\ mid \in Seq(BOOLEAN)
      /\ k \in on => Up(Frames(t, start, mid))
      /\ k \notin on => Frames(t, start, mid) = Frames(t, start, queue)
  <2>1. CASE k \notin on
    <3>1. mid = queue
      BY <2>1, ConcatEmptySeq
    <3> QED
      BY <2>1, <3>1
  <2>2. CASE k \in on
    <3>1. mid = Append(queue, TRUE)
      BY <2>2, AppendIsConcat
    <3>2. Frames(t, start, Append(queue, TRUE)) = AfterIntent(t, Frames(t, start, queue), TRUE)
      BY FramesPush, Zenon
    <3>3. mid \in Seq(BOOLEAN)
      BY <3>1, AppendProperties
    <3>4. Up(AfterIntent(t, Frames(t, start, queue), TRUE))
      BY <2>2, OneIntent, Zenon
    <3> QED
      BY <2>2, <3>1, <3>2, <3>3, <3>4, Zenon
  <2> QED
    BY <2>1, <2>2
<1>2. longer = mid \o (IF k \in off THEN <<FALSE>> ELSE <<>>)
  BY DEF Pushed
<1> HIDE DEF mid, longer
<1>3. CASE k \notin off
  <2>1. longer = mid
    BY <1>1, <1>2, <1>3, ConcatEmptySeq
  <2> QED
    BY <1>1, <1>3, <2>1, Zenon DEF longer
<1>4. CASE k \in off
  <2>1. longer = Append(mid, FALSE)
    BY <1>1, <1>2, <1>4, AppendIsConcat
  <2>2. Frames(t, start, Append(mid, FALSE)) = AfterIntent(t, Frames(t, start, mid), FALSE)
    BY <1>1, FramesPush, Zenon
  <2>4. Up(Frames(t, start, mid)) \/ Down(Frames(t, start, mid))
    BY <1>1, Zenon
  <2>5. Down(AfterIntent(t, Frames(t, start, mid), FALSE))
    BY <2>4, OneIntent, Zenon
  <2> QED
    BY <1>4, <2>1, <2>2, <2>5, Zenon DEF longer
<1> QED
  BY <1>3, <1>4 DEF longer

\* The three kinds of target.
LEMMA Targets ==
    ASSUME NEW t \in Target
    PROVE  \/ t \in Key /\ t[1] # "region" /\ t[1] # "tile_cards"
           \/ \E z \in Zone : t = <<"tile_cards", z>> /\ <<"card", z>> \in Key
           \/ \E r \in Region : t = <<"region", r>>
<1>1. \A z \in Zone : <<"card", z>> \in Key
  BY DEF Key, Data
<1>2. CASE t \in Key
  BY <1>2 DEF Key, Data
<1>3. CASE t \in {"tile_cards"} \X Zone
  BY <1>1, <1>3
<1>4. CASE t \in {"region"} \X Region
  BY <1>4
<1> QED
  BY <1>2, <1>3, <1>4 DEF Target

\* open_sub and close_sub push the intents that take the gate from what was open
\* to what is.
LEMMA IntendFollows ==
    ASSUME TypeOK, GateFollowsManager,
           NEW opened \in SUBSET Key, NEW closed \in SUBSET Key,
           Open(subs') = (Open(subs) \cup opened) \ closed,
           region_wanted' = RegionWanted(opened, closed),
           intents' = Intend(opened, closed),
           UNCHANGED <<held, gate>>
    PROVE  /\ \A t \in Target : intents'[t] \in Seq(BOOLEAN)
           /\ GateFollowsManager'
<1> DEFINE on == opened \cup RegionOn(opened)
           off == closed \cup RegionOff(opened, closed)
           start(t) == [held |-> t \in held, live |-> gate[t]]
           Before(t, k) == Frames(t, start(t), intents[k])
           After(t, k) == Frames(t, start(t), intents'[k])
<1>1. ASSUME NEW k \in Target, NEW t,
             Up(Before(t, k)) \/ Down(Before(t, k)),
             t[1] = "region" /\ k \in on => Down(Before(t, k))
      PROVE  /\ k \notin off /\ (Up(Before(t, k)) \/ k \in on) => Up(After(t, k))
             /\ k \in off \/ (Down(Before(t, k)) /\ k \notin on) => Down(After(t, k))
  <2>1. intents'[k] = Pushed(intents[k], k, on, off) /\ intents[k] \in Seq(BOOLEAN)
    BY DEF Intend, Pushed, TypeOK
  <2>2. /\ Up(Frames(t, start(t), intents[k])) \/ Down(Frames(t, start(t), intents[k]))
        /\ t[1] = "region" /\ k \in on => Down(Frames(t, start(t), intents[k]))
    BY <1>1
  <2> HIDE DEF on, off, start
  <2>3. /\ k \notin off /\ (Up(Frames(t, start(t), intents[k])) \/ k \in on)
             => Up(Frames(t, start(t), intents'[k]))
        /\ k \in off \/ (Down(Frames(t, start(t), intents[k])) /\ k \notin on)
             => Down(Frames(t, start(t), intents'[k]))
    BY <2>1, <2>2, PushedIntents
  <2> QED
    BY <2>3
<1>2. \A k \in Key : k \in Target /\ (k \in on <=> k \in opened) /\ (k \in off <=> k \in closed)
  BY DEF RegionOn, RegionOff, Target, Key, Data
<1>3. ASSUME NEW k \in Key, NEW t, t[1] # "region",
             k \in Open(subs) => Up(Before(t, k)),
             k \notin Open(subs) => Down(Before(t, k))
      PROVE  /\ k \in Open(subs') => Up(After(t, k))
             /\ k \notin Open(subs') => Down(After(t, k))
  <2> HIDE DEF on, off, Before, After
  <2> QED
    BY <1>1, <1>2, <1>3
<1>4. ASSUME NEW t \in Target
      PROVE  /\ ShouldStream(t) => Up(Drained(t))
             /\ ~ShouldStream(t) => Down(Drained(t))
  BY DEF GateFollowsManager, Up, Down
<1>5. ASSUME NEW t \in Target
      PROVE  /\ ShouldStream(t)' => Up(Drained(t)')
             /\ ~ShouldStream(t)' => Down(Drained(t)')
  <2>1. CASE t \in Key /\ t[1] # "region" /\ t[1] # "tile_cards"
    <3>1. ShouldStream(t) <=> t \in Open(subs)
      BY <2>1 DEF ShouldStream
    <3>2. ShouldStream(t)' <=> t \in Open(subs')
      BY <2>1 DEF ShouldStream
    <3>3. Drained(t) = Before(t, t) /\ Drained(t)' = After(t, t)
      BY <2>1 DEF Drained, Queue
    <3> QED
      BY <1>3, <1>4, <2>1, <3>1, <3>2, <3>3
  <2>2. ASSUME NEW z \in Zone, t = <<"tile_cards", z>>, <<"card", z>> \in Key
        PROVE  /\ ShouldStream(t)' => Up(Drained(t)')
               /\ ~ShouldStream(t)' => Down(Drained(t)')
    <3> DEFINE k == <<"card", z>>
    <3>1. ShouldStream(t) <=> k \in Open(subs)
      BY <2>2 DEF ShouldStream
    <3>2. ShouldStream(t)' <=> k \in Open(subs')
      BY <2>2 DEF ShouldStream
    <3>3. Drained(t) = Before(t, k) /\ Drained(t)' = After(t, k)
      BY <2>2 DEF Drained, Queue
    <3> QED
      BY <1>3, <1>4, <2>2, <3>1, <3>2, <3>3
  <2>3. ASSUME NEW r \in Region, t = <<"region", r>>
        PROVE  /\ ShouldStream(t)' => Up(Drained(t)')
               /\ ~ShouldStream(t)' => Down(Drained(t)')
    <3>1. /\ t \in on <=> region_wanted[r] = {} /\ ZonesOf(opened, r) # {}
          /\ t \in off <=> ZonesOf(closed, r) # {} /\ region_wanted'[r] = {}
          /\ region_wanted'[r] = (region_wanted[r] \cup ZonesOf(opened, r)) \ ZonesOf(closed, r)
      <4>1. t \notin opened /\ t \notin closed
        BY <2>3 DEF Key, Data
      <4> QED
        BY <2>3, <4>1 DEF RegionOn, RegionOff, RegionWanted
    <3>2. (ShouldStream(t) <=> region_wanted[r] # {}) /\ (ShouldStream(t)' <=> region_wanted'[r] # {})
      BY <2>3 DEF ShouldStream
    <3>3. Drained(t) = Before(t, t) /\ Drained(t)' = After(t, t)
      BY <2>3 DEF Drained, Queue
    <3> HIDE DEF on, off, Before, After
    <3> QED
      BY <1>1, <1>4, <3>1, <3>2, <3>3
  <2> QED
    BY <2>1, <2>2, <2>3, Targets
<1>6. GateFollowsManager'
  BY <1>5 DEF GateFollowsManager, Up, Down
<1>7. ASSUME NEW t \in Target
      PROVE  intents'[t] \in Seq(BOOLEAN)
  <2> DEFINE left == IF t \in on THEN <<TRUE>> ELSE <<>>
             right == IF t \in off THEN <<FALSE>> ELSE <<>>
  <2>1. intents'[t] = intents[t] \o left \o right /\ intents[t] \in Seq(BOOLEAN)
    BY DEF Intend, TypeOK
  <2>2. left \in Seq(BOOLEAN) /\ right \in Seq(BOOLEAN)
    <3>1. <<>> \in Seq(BOOLEAN) /\ <<TRUE>> \in Seq(BOOLEAN) /\ <<FALSE>> \in Seq(BOOLEAN)
      OBVIOUS
    <3> QED
      BY <3>1, Zenon
  <2> HIDE DEF left, right
  <2> QED
    BY <2>1, <2>2, ConcatProperties
<1> QED
  BY <1>6, <1>7

-----------------------------------------------------------------------------
\* The steps.

\* A recompute wants what the anchors and holds want and opens it all; the rest
\* stays open but for what is evicted; the regions follow.
LEMMA RecomputeIs ==
    ASSUME TypeOK, RegionsHeld, GateFollowsManager, NEW as, NEW rs, Recompute(as, rs),
           UNCHANGED <<held, gate>>
    PROVE  /\ subs' \in [Key -> SubState \cup {NoSub}]
           /\ \A t \in Target : intents'[t] \in Seq(BOOLEAN)
           /\ GateFollowsManager'
           /\ region_wanted' \in [Region -> SUBSET Zone]
           /\ RegionsHeld'
           /\ Wanted(subs') = WantedKeys(as, rs)
           /\ \E evicted \in SUBSET Key :
                /\ evicted \subseteq Open(subs) \ WantedKeys(as, rs)
                /\ Open(subs') = (Open(subs) \cup WantedKeys(as, rs)) \ evicted
                /\ evicted # {} => Cardinality(Open(subs')) >= MaxOpen
                /\ Cardinality(Open(subs')) > MaxOpen => Open(subs') = WantedKeys(as, rs)
<1> DEFINE want == WantedKeys(as, rs)
           updated == [k \in Key |-> UpdatedSub(subs[k], k \in want)]
           opened == want \ Open(subs)
<1>1. PICK closed \in Victims(updated) :
        /\ subs' = [k \in Key |-> IF k \in closed THEN NoSub ELSE updated[k]]
        /\ region_wanted' = RegionWanted(opened, closed)
        /\ intents' = Intend(opened, closed)
  BY DEF Recompute
<1>2. want \subseteq Key
  BY DEF WantedKeys
<1> HIDE DEF want
<1>3. ASSUME NEW k \in Key
      PROVE  /\ updated[k] \in SubState \cup {NoSub}
             /\ updated[k] # NoSub <=> k \in want \/ subs[k] # NoSub
             /\ updated[k] # NoSub => (updated[k].wanted <=> k \in want)
  <2>1. subs[k] \in SubState \cup {NoSub} /\ now \in 0..MaxNow /\ 0 \in 0..RecentTolerance
    BY ZoneAssumption DEF TypeOK, ZoneAssumption
  <2>2. updated[k] = UpdatedSub(subs[k], k \in want)
    BY DEF updated
  <2> HIDE DEF updated, want
  <2>3. CASE k \in want
    <3>1. updated[k] = [wanted |-> TRUE, last_present |-> now, updates |-> 0]
      BY <2>2, <2>3 DEF UpdatedSub
    <3>2. updated[k] \in SubState
      BY <2>1, <3>1 DEF SubState
    <3>3. updated[k].wanted
      BY <3>1
    <3> QED
      BY <2>3, <3>2, <3>3, NoSubIsClosed
  <2>4. CASE k \notin want /\ subs[k].wanted
    <3>1. updated[k] = [wanted |-> FALSE, last_present |-> now, updates |-> 0]
      BY <2>2, <2>4 DEF UpdatedSub
    <3>2. subs[k] # NoSub
      BY <2>4, NoSubIsClosed
    <3>3. updated[k] \in SubState
      BY <2>1, <3>1 DEF SubState
    <3>4. ~updated[k].wanted
      BY <3>1
    <3> QED
      BY <2>4, <3>2, <3>3, <3>4, NoSubIsClosed
  <2>5. CASE k \notin want /\ ~subs[k].wanted
    <3>1. updated[k] = subs[k]
      BY <2>2, <2>5 DEF UpdatedSub
    <3> QED
      BY <2>1, <2>5, <3>1
  <2> QED
    BY <2>3, <2>4, <2>5
<1> HIDE DEF updated
<1>4. Open(updated) = Open(subs) \cup want /\ Wanted(updated) = want
  BY <1>2, <1>3 DEF Open, Wanted
<1>5. /\ closed \subseteq Open(updated) \ Wanted(updated)
      /\ closed # {} => Cardinality(Open(updated) \ closed) >= MaxOpen
      /\ Cardinality(Open(updated) \ closed) > MaxOpen => Open(updated) \ closed = Wanted(updated)
  BY Evicted
<1>6. /\ \A k \in Key : subs'[k] = IF k \in closed THEN NoSub ELSE updated[k]
      /\ subs' \in [Key -> SubState \cup {NoSub}]
  BY <1>1, <1>3
<1>7. Open(subs') = Open(updated) \ closed
  BY <1>6 DEF Open
<1>8. Wanted(subs') = want
  BY <1>4, <1>5, <1>6, <1>7 DEF Wanted, Open
<1>9. closed \subseteq Open(subs) \ want /\ closed \in SUBSET Key
  BY <1>4, <1>5 DEF Open
<1>10. region_wanted' \in [Region -> SUBSET Zone]
  BY <1>1 DEF TypeOK, RegionWanted, ZonesOf
<1>11. ASSUME NEW r \in Region
       PROVE  region_wanted'[r] = ZonesOf(Open(subs'), r)
  <2>1. region_wanted'[r] = (region_wanted[r] \cup ZonesOf(opened, r)) \ ZonesOf(closed, r)
    BY <1>1 DEF RegionWanted
  <2>2. region_wanted[r] = ZonesOf(Open(subs), r)
    BY DEF RegionsHeld
  <2>3. Open(subs') = (Open(subs) \cup opened) \ closed
    BY <1>4, <1>7
  <2> QED
    BY <2>1, <2>2, <2>3 DEF ZonesOf
<1>12. (\A t \in Target : intents'[t] \in Seq(BOOLEAN)) /\ GateFollowsManager'
  <2>1. opened \in SUBSET Key /\ Open(subs') = (Open(subs) \cup opened) \ closed
    BY <1>2, <1>4, <1>7
  <2> HIDE DEF opened
  <2> QED
    BY <1>1, <1>9, <2>1, IntendFollows
<1> QED
  BY <1>4, <1>5, <1>7, <1>8, <1>9, <1>6, <1>10, <1>11, <1>12 DEF RegionsHeld, want

LEMMA SameCardinality == ASSUME NEW S PROVE Sticky!Cardinality(S) = Cardinality(S)
  BY Zenon DEF Sticky!Cardinality, Cardinality

\* So it preserves the invariant, and is a step of the contract.
LEMMA RecomputeSteps ==
    ASSUME IInv, Recompute(anchors', refs'), UNCHANGED <<held, gate, now>>,
           anchors' \in [Anchor -> Position \cup {NoPosition}], refs' \in [Zone -> 0..MaxRefs]
    PROVE  IInv' /\ Sticky!Next
<1>1. PICK evicted \in SUBSET Key :
        /\ evicted \subseteq Open(subs) \ WantedKeys(anchors', refs')
        /\ Open(subs') = (Open(subs) \cup WantedKeys(anchors', refs')) \ evicted
        /\ evicted # {} => Cardinality(Open(subs')) >= MaxOpen
        /\ Cardinality(Open(subs')) > MaxOpen => Open(subs') = WantedKeys(anchors', refs')
  BY RecomputeIs DEF IInv
<1>2. /\ subs' \in [Key -> SubState \cup {NoSub}]
      /\ region_wanted' \in [Region -> SUBSET Zone]
      /\ RegionsHeld'
      /\ Wanted(subs') = WantedKeys(anchors', refs')
      /\ \A t \in Target : intents'[t] \in Seq(BOOLEAN)
      /\ GateFollowsManager'
  BY RecomputeIs DEF IInv
<1>3. IInv'
  <2>1. TypeOK'
    BY <1>2 DEF IInv, TypeOK
  <2>2. NeededIsOpen'
    BY <1>2 DEF NeededIsOpen, Wanted
  <2> QED
    BY <1>2, <2>1, <2>2 DEF IInv
<1>4. Sticky!Retarget(WantedKeys(anchors', refs'), evicted)
  BY <1>1, <1>2, SameCardinality DEF Sticky!Retarget, Wanted
<1>5. WantedKeys(anchors', refs') \in SUBSET Key
  BY DEF WantedKeys
<1> QED
  BY <1>3, <1>4, <1>5 DEF Sticky!Next

LEMMA SetAnchorSteps ==
    ASSUME IInv, NEW a \in Anchor, NEW p \in Position, SetAnchor(a, p)
    PROVE  IInv' /\ Sticky!Next
<1>1. anchors' \in [Anchor -> Position \cup {NoPosition}] /\ UNCHANGED <<refs, held, gate, now>>
  BY DEF SetAnchor, IInv, TypeOK
<1>2. Recompute(anchors', refs')
  BY <1>1 DEF SetAnchor
<1> QED
  BY <1>1, <1>2, RecomputeSteps DEF IInv, TypeOK

LEMMA ClearAnchorSteps ==
    ASSUME IInv, NEW a \in Anchor, ClearAnchor(a)
    PROVE  IInv' /\ Sticky!Next
<1>1. anchors' \in [Anchor -> Position \cup {NoPosition}] /\ UNCHANGED <<refs, held, gate, now>>
  BY DEF ClearAnchor, IInv, TypeOK
<1>2. Recompute(anchors', refs')
  BY <1>1 DEF ClearAnchor
<1> QED
  BY <1>1, <1>2, RecomputeSteps DEF IInv, TypeOK

LEMMA ReleaseSteps ==
    ASSUME IInv, NEW z \in Zone, Release(z)
    PROVE  IInv' /\ Sticky!Next
<1>1. refs' \in [Zone -> 0..MaxRefs] /\ UNCHANGED <<anchors, held, gate, now>>
  BY ZoneAssumption DEF Release, IInv, TypeOK, ZoneAssumption
<1>2. Recompute(anchors', refs')
  BY <1>1 DEF Release
<1> QED
  BY <1>1, <1>2, RecomputeSteps DEF IInv, TypeOK

\* Nothing is pending for any target when nothing is intended.
LEMMA EmptyQueue ==
    ASSUME NEW t \in Target, NEW pending, \A k \in Target : pending[k] = <<>>
    PROVE  (IF t[1] = "tile_cards" THEN pending[<<"card", t[2]>>] ELSE pending[t]) = <<>>
<1>1. Key \subseteq Target
  BY DEF Target
<1>2. CASE t[1] # "tile_cards"
  BY <1>2
<1>3. ASSUME NEW z \in Zone, t = <<"tile_cards", z>>, <<"card", z>> \in Key
      PROVE  pending[<<"card", t[2]>>] = <<>>
  <2>1. t[2] = z
    BY <1>3
  <2> QED
    BY <1>1, <1>3, <2>1
<1>4. ASSUME NEW r \in Region, t = <<"region", r>>
      PROVE  t[1] # "tile_cards"
  BY <1>4
<1> QED
  BY <1>2, <1>3, <1>4, Targets

LEMMA GateUnmoved ==
    ASSUME GateFollowsManager, UNCHANGED <<region_wanted, intents, held, gate>>,
           Open(subs') = Open(subs)
    PROVE  GateFollowsManager'
  BY DEF GateFollowsManager, Drained, Queue, ShouldStream

\* A second hold of a zone changes nothing that is wanted.
LEMMA EnsureSteps ==
    ASSUME IInv, NEW z \in Zone, Ensure(z)
    PROVE  IInv' /\ (Sticky!Next \/ UNCHANGED subs)
<1>1. refs' \in [Zone -> 0..MaxRefs] /\ UNCHANGED <<anchors, held, gate, now>>
  BY ZoneAssumption DEF Ensure, IInv, TypeOK, ZoneAssumption
<1>2. CASE refs[z] = 0
  <2>1. Recompute(anchors', refs')
    BY <1>1, <1>2 DEF Ensure
  <2> QED
    BY <1>1, <2>1, RecomputeSteps DEF IInv, TypeOK
<1>3. CASE refs[z] # 0
  <2>1. UNCHANGED <<subs, region_wanted, intents>>
    BY <1>3 DEF Ensure
  <2>2. refs[z] \in Nat /\ refs' = [refs EXCEPT ![z] = refs[z] + 1]
    BY DEF Ensure, IInv, TypeOK
  <2>3. \A y \in Zone : refs'[y] > 0 <=> refs[y] > 0
    BY <1>3, <2>2 DEF IInv, TypeOK
  <2>4. Desired(anchors', refs') = Desired(anchors, refs)
    BY <1>1, <2>3 DEF Desired
  <2>5. WantedKeys(anchors', refs') = WantedKeys(anchors, refs)
    BY <2>4 DEF WantedKeys
  <2>6. GateFollowsManager'
    BY <1>1, <2>1, GateUnmoved DEF IInv
  <2> QED
    BY <1>1, <2>1, <2>5, <2>6 DEF IInv, TypeOK, NeededIsOpen, RegionsHeld
<1> QED
  BY <1>2, <1>3

LEMMA NoteUpdateSteps ==
    ASSUME IInv, NEW k \in Key, NoteUpdate(k)
    PROVE  IInv' /\ (Sticky!Next \/ UNCHANGED <<Open(subs), Wanted(subs)>>)
<1> DEFINE counted == [subs[k] EXCEPT !.updates = @ + 1]
           since == IF now > subs[k].last_present THEN now - subs[k].last_present ELSE 0
<1>1. k \in Open(subs) /\ ~subs[k].wanted /\ UNCHANGED <<anchors, refs, held, gate, now>>
  BY DEF NoteUpdate
<1>2. subs[k] \in SubState /\ subs[k] # NoSub
  BY <1>1 DEF IInv, TypeOK, Open
<1>3. Tolerance(since) \in 0..RecentTolerance
  <2> HIDE DEF since
  <2> QED
    BY ZoneAssumption DEF ZoneAssumption, Tolerance
<1>4. CASE /\ subs' = [subs EXCEPT ![k] = NoSub]
           /\ region_wanted' = RegionWanted({}, {k})
           /\ intents' = Intend({}, {k})
  <2>1. subs' \in [Key -> SubState \cup {NoSub}]
    BY <1>4 DEF IInv, TypeOK
  <2>2. Open(subs') = Open(subs) \ {k}
    BY <1>4 DEF IInv, TypeOK, Open
  <2>3. Wanted(subs') = Wanted(subs)
    BY <1>1, <1>4, <2>2 DEF IInv, TypeOK, Open, Wanted
  <2>4. region_wanted' \in [Region -> SUBSET Zone]
    BY <1>4 DEF IInv, TypeOK, RegionWanted, ZonesOf
  <2>5. RegionsHeld'
    <3> SUFFICES ASSUME NEW r \in Region PROVE region_wanted'[r] = ZonesOf(Open(subs'), r)
      BY DEF RegionsHeld
    <3>1. region_wanted'[r] = (region_wanted[r] \cup ZonesOf({}, r)) \ ZonesOf({k}, r)
      BY <1>4 DEF RegionWanted
    <3> QED
      BY <2>2, <3>1 DEF ZonesOf, IInv, RegionsHeld
  <2>6. (\A t \in Target : intents'[t] \in Seq(BOOLEAN)) /\ GateFollowsManager'
    <3>1. {} \in SUBSET Key /\ {k} \in SUBSET Key /\ Open(subs') = (Open(subs) \cup {}) \ {k}
      BY <2>2
    <3> QED
      BY <1>1, <1>4, <3>1, IntendFollows DEF IInv
  <2>8. IInv'
    BY <1>1, <2>1, <2>3, <2>4, <2>5, <2>6 DEF IInv, TypeOK, NeededIsOpen, Wanted
  <2>7. Sticky!DropCandidate(k)
    BY <1>1, <2>2, <2>3 DEF Sticky!DropCandidate, Wanted
  <2> QED
    BY <2>7, <2>8 DEF Sticky!Next
<1>5. CASE /\ counted.updates <= Tolerance(since)
           /\ subs' = [subs EXCEPT ![k] = counted]
           /\ UNCHANGED <<region_wanted, intents>>
  <2>1. counted \in SubState /\ counted # NoSub /\ ~counted.wanted
    <3>1. /\ subs[k].updates \in 0..RecentTolerance /\ RecentTolerance \in Nat
          /\ counted.updates = subs[k].updates + 1
      BY <1>2, ZoneAssumption DEF SubState, ZoneAssumption
    <3>2. counted.updates \in 0..RecentTolerance
      <4> HIDE DEF counted, since
      <4> QED
        BY <1>3, <1>5, <3>1
    <3>3. /\ counted = [wanted |-> subs[k].wanted, last_present |-> subs[k].last_present,
                        updates |-> counted.updates]
          /\ subs[k].wanted \in BOOLEAN /\ subs[k].last_present \in 0..MaxNow
      BY <1>2 DEF SubState
    <3> HIDE DEF counted
    <3>4. counted \in SubState
      BY <3>2, <3>3 DEF SubState
    <3> QED
      BY <1>1, <3>3, <3>4, NoSubIsClosed
  <2> HIDE DEF counted, since
  <2>2. subs' \in [Key -> SubState \cup {NoSub}]
    BY <1>5, <2>1 DEF IInv, TypeOK
  <2>3. Open(subs') = Open(subs)
    BY <1>2, <1>5, <2>1 DEF IInv, TypeOK, Open
  <2>4. Wanted(subs') = Wanted(subs)
    BY <1>1, <1>5, <2>1, <2>3 DEF IInv, TypeOK, Open, Wanted
  <2>5. GateFollowsManager'
    BY <1>1, <1>5, <2>3, GateUnmoved DEF IInv
  <2> QED
    BY <1>1, <1>5, <2>2, <2>3, <2>4, <2>5 DEF IInv, TypeOK, NeededIsOpen, RegionsHeld, Wanted
<1>6. counted.updates > Tolerance(since) \/ counted.updates <= Tolerance(since)
  <2>1. counted.updates \in Int
    BY <1>2 DEF SubState
  <2> HIDE DEF counted, since
  <2> QED
    BY <1>3, <2>1
<1>7. IF counted.updates > Tolerance(since)
      THEN /\ subs' = [subs EXCEPT ![k] = NoSub]
           /\ region_wanted' = RegionWanted({}, {k})
           /\ intents' = Intend({}, {k})
      ELSE /\ subs' = [subs EXCEPT ![k] = counted]
           /\ UNCHANGED <<region_wanted, intents>>
  BY DEF NoteUpdate
<1> HIDE DEF counted, since
<1> QED
  BY <1>4, <1>5, <1>6, <1>7

\* The clock says nothing of what is open.
LEMMA ClockSteps ==
    ASSUME IInv, NEW t \in 0..MaxNow, ClockMoves(t)
    PROVE  IInv' /\ UNCHANGED subs
<1>1. GateFollowsManager'
  BY GateUnmoved DEF ClockMoves, IInv
<1> QED
  BY <1>1 DEF ClockMoves, IInv, TypeOK, NeededIsOpen, RegionsHeld

\* Once drained, what the intents were to make of the gate is what it is.
LEMMA DrainSteps ==
    ASSUME IInv, Drain
    PROVE  IInv' /\ UNCHANGED subs
<1>1. ASSUME NEW t \in Target
      PROVE  /\ t \in held' <=> Drained(t).held
             /\ gate'[t] = Drained(t).live
             /\ intents'[t] = <<>>
  BY Zenon DEF Drain
<1>2. ASSUME NEW t \in Target
      PROVE  Drained(t)' = [held |-> t \in held', live |-> gate'[t]]
  <2>1. Queue(t)' = <<>>
    BY <1>1, EmptyQueue DEF Queue
  <2> QED
    BY <2>1, FramesEmpty DEF Drained
<1>8. ASSUME NEW t \in Target
      PROVE  /\ ShouldStream(t) => t \in held' /\ gate'[t] = 1
             /\ ~ShouldStream(t) => t \notin held' /\ gate'[t] = 0
  <2>1. Drained(t) = IF ShouldStream(t) THEN [held |-> TRUE, live |-> 1]
                                        ELSE [held |-> FALSE, live |-> 0]
    BY DEF IInv, GateFollowsManager
  <2>2. ShouldStream(t) => Drained(t).held /\ Drained(t).live = 1
    BY <2>1
  <2>3. ~ShouldStream(t) => ~Drained(t).held /\ Drained(t).live = 0
    BY <2>1
  <2> QED
    BY <1>1, <2>2, <2>3
<1>3. GateFollowsManager'
  <2> SUFFICES ASSUME NEW t \in Target
               PROVE  Drained(t)' = IF ShouldStream(t) THEN [held |-> TRUE, live |-> 1]
                                                       ELSE [held |-> FALSE, live |-> 0]
    BY DEF Drain, GateFollowsManager, ShouldStream
  <2>1. CASE ShouldStream(t)
    <3>1. (t \in held') = TRUE /\ gate'[t] = 1
      BY <1>8, <2>1
    <3> QED
      BY <1>2, <2>1, <3>1, Zenon
  <2>2. CASE ~ShouldStream(t)
    <3>1. (t \in held') = FALSE /\ gate'[t] = 0
      BY <1>8, <2>2
    <3> QED
      BY <1>2, <2>2, <3>1, Zenon
  <2> QED
    BY <2>1, <2>2
<1>4. (\A t \in Target : intents'[t] \in Seq(BOOLEAN) /\ gate'[t] \in Nat) /\ held' \subseteq Target
  <2>1. <<>> \in Seq(BOOLEAN)
    OBVIOUS
  <2>2. ASSUME NEW t \in Target
        PROVE  gate'[t] \in {0, 1}
    BY <1>8
  <2> QED
    BY <1>1, <2>1, <2>2 DEF Drain
<1>5. gate' \in [Target -> Nat]
  BY <1>4 DEF Drain
<1> QED
  BY <1>3, <1>4, <1>5 DEF Drain, IInv, TypeOK, NeededIsOpen, RegionsHeld

\* Every step preserves the invariant and is a step of the contract or one it
\* says nothing of.
LEMMA Steps ==
    ASSUME IInv, [Next]_vars
    PROVE  IInv' /\ [Sticky!Next]_(Sticky!vars)
<1>1. ASSUME NEW a \in Anchor, NEW p \in Position, SetAnchor(a, p)
      PROVE  IInv' /\ [Sticky!Next]_(Sticky!vars)
  BY <1>1, SetAnchorSteps
<1>2. ASSUME NEW a \in Anchor, ClearAnchor(a)
      PROVE  IInv' /\ [Sticky!Next]_(Sticky!vars)
  BY <1>2, ClearAnchorSteps
<1>3. ASSUME NEW z \in Zone, Ensure(z)
      PROVE  IInv' /\ [Sticky!Next]_(Sticky!vars)
  BY <1>3, EnsureSteps DEF Sticky!vars
<1>4. ASSUME NEW z \in Zone, Release(z)
      PROVE  IInv' /\ [Sticky!Next]_(Sticky!vars)
  BY <1>4, ReleaseSteps
<1>5. ASSUME NEW k \in Key, NoteUpdate(k)
      PROVE  IInv' /\ [Sticky!Next]_(Sticky!vars)
  BY <1>5, NoteUpdateSteps DEF Sticky!vars, Wanted
<1>6. ASSUME NEW t \in 0..MaxNow, ClockMoves(t)
      PROVE  IInv' /\ [Sticky!Next]_(Sticky!vars)
  BY <1>6, ClockSteps DEF Sticky!vars
<1>7. CASE Drain
  BY <1>7, DrainSteps DEF Sticky!vars
<1>8. CASE UNCHANGED vars
  <2>1. GateFollowsManager'
    BY <1>8, GateUnmoved DEF vars, IInv
  <2> QED
    BY <1>8, <2>1 DEF vars, IInv, TypeOK, NeededIsOpen, RegionsHeld, Sticky!vars
<1> QED
  BY <1>1, <1>2, <1>3, <1>4, <1>5, <1>6, <1>7, <1>8 DEF Next

-----------------------------------------------------------------------------

LEMMA InitInvariant == Init => IInv /\ Sticky!Init
<1> SUFFICES ASSUME Init PROVE IInv /\ Sticky!Init
  OBVIOUS
<1>1. Open(subs) = {}
  BY DEF Init, Open
<1>2. WantedKeys(anchors, refs) = {}
  <2>1. \A z \in Zone : Desired(anchors, refs)[z] = 0
    <3>1. {a \in Anchor : anchors[a] # NoPosition} = {}
      BY DEF Init
    <3>2. ASSUME NEW z \in Zone
          PROVE  Desired(anchors, refs)[z] = Max({0})
      <4>1. refs[z] = 0
        BY DEF Init
      <4>2. {0} \cup {Coverage[anchors[a]][z] : a \in {b \in Anchor : anchors[b] # NoPosition}} = {0}
        BY <3>1
      <4>3. Desired(anchors, refs)[z]
              = Max({0} \cup {Coverage[anchors[a]][z] : a \in {b \in Anchor : anchors[b] # NoPosition}})
        BY <4>1 DEF Desired
      <4> QED
        BY <4>2, <4>3
    <3>3. Max({0}) = 0
      BY DEF Max
    <3> QED
      BY <3>2, <3>3
  <2> QED
    BY <2>1 DEF WantedKeys, WantedAt, Hot, Key, Data
<1>3. TypeOK
  <2>1. <<>> \in Seq(BOOLEAN)
    OBVIOUS
  <2> QED
    BY <2>1, ZoneAssumption DEF Init, TypeOK, ZoneAssumption
<1>4. RegionsHeld
  BY <1>1 DEF Init, RegionsHeld, ZonesOf
<1>5. GateFollowsManager
  <2> SUFFICES ASSUME NEW t \in Target
               PROVE  /\ ~ShouldStream(t)
                      /\ Drained(t) = [held |-> FALSE, live |-> 0]
    BY DEF GateFollowsManager
  <2>1. ~ShouldStream(t)
    <3>1. \A r \in Region : region_wanted[r] = {}
      BY DEF Init
    <3>2. ASSUME NEW z \in Zone, t = <<"tile_cards", z>>
          PROVE  ~ShouldStream(t)
      BY <1>1, <3>2 DEF ShouldStream
    <3>3. ASSUME NEW r \in Region, t = <<"region", r>>
          PROVE  ~ShouldStream(t)
      BY <3>1, <3>3 DEF ShouldStream
    <3>4. ASSUME t[1] # "region", t[1] # "tile_cards"
          PROVE  ~ShouldStream(t)
      BY <1>1, <3>4 DEF ShouldStream
    <3> QED
      BY <3>2, <3>3, <3>4, Targets
  <2>2. Queue(t) = <<>>
    <3>1. \A k \in Target : intents[k] = <<>>
      BY DEF Init
    <3> QED
      BY <3>1, EmptyQueue DEF Queue
  <2>3. t \notin held /\ gate[t] = 0
    BY DEF Init
  <2>4. Drained(t) = [held |-> t \in held, live |-> gate[t]]
    BY <2>2, FramesEmpty DEF Drained
  <2>5. (t \in held) = FALSE
    BY <2>3
  <2> QED
    BY <2>1, <2>3, <2>4, <2>5, Zenon
<1> QED
  BY <1>1, <1>2, <1>3, <1>4, <1>5 DEF IInv, NeededIsOpen, Sticky!Init

\* The invariant of the manager: types, needs, regions and gate together, for
\* the gate follows the regions, these the subscriptions and these the needs.
THEOREM Invariance == Spec => []IInv
<1>1. Init => IInv
  BY InitInvariant
<1>2. IInv /\ [Next]_vars => IInv'
  BY Steps
<1> QED
  BY <1>1, <1>2, PTL DEF Spec

\* recompute_anchor_zones and enforce_capacity never close what an anchor or a
\* container hold needs, nor leave it closed: wanted is needed, at any time.
THEOREM NeededStaysOpen == Spec => []NeededIsOpen
<1>1. IInv => NeededIsOpen
  BY DEF IInv
<1> QED
  BY <1>1, Invariance, PTL

\* want_region and unwant_region: a region is held by exactly its open Zone
\* subscriptions; and every variable has its type, so the noise counted against
\* a candidate stays within the tolerance.
THEOREM RegionsStayHeld == Spec => []RegionHeldByItsZones
<1>1. IInv => RegionHeldByItsZones
  BY DEF IInv, RegionsHeld, RegionHeldByItsZones
<1> QED
  BY <1>1, Invariance, PTL

\* zone_frames: however many intents have piled up between two frames, opens
\* and closes of one target in any order, draining them leaves the gate with
\* one live subscription for every target that should stream and none for any
\* other, and the client with the sid of each.
THEOREM GateCatchesUp == Spec => []GateFollowsManager
<1>1. IInv => GateFollowsManager
  BY DEF IInv
<1> QED
  BY <1>1, Invariance, PTL

\* The manager implements the contract of sticky subscriptions: nothing wanted
\* is ever dropped, and candidates go by one noisy update or by capacity only.
THEOREM Refinement == Spec => ImplementsSticky
<1>1. Init => Sticky!Init
  BY InitInvariant
<1>2. IInv /\ [Next]_vars => [Sticky!Next]_(Sticky!vars)
  BY Steps
<1> QED
  BY <1>1, <1>2, Invariance, PTL DEF Spec, ImplementsSticky, Sticky!Spec
=============================================================================
