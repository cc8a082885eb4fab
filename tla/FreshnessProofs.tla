--------------------------- MODULE FreshnessProofs ---------------------------
(***************************************************************************)
(* Proofs about Freshness, for any cards, roots and bounds, and a clock    *)
(* that only advances: nobody joins a chain without the matcher being told, *)
(* and nothing comes into force without the view being given it.           *)
(***************************************************************************)
EXTENDS Freshness, WellFoundedInduction, TLAPS

\* A card has one version at an instant.
Keyed(rows) == \A row, other \in rows : row.time = other.time => row = other

Types ==
    /\ hist \in [Card -> SUBSET Version]
    /\ \A c \in Card : Keyed(hist[c])
    /\ tiles \in SUBSET (0..MaxTime)
    /\ clock \in 0..MaxTime
    /\ pending_promotions \in SUBSET ((0..MaxTime) \X Card)
    /\ next_zone_promote \in 0..Never
    /\ dirty_roots \in SUBSET Root
    /\ render_kick \in BOOLEAN /\ changed \in BOOLEAN
    /\ gathered \in SUBSET Card

\* A version still to come into force has its promotion pending.
Scheduled ==
    \A c \in Card : \A row \in hist[c] :
        row.time > clock => <<row.time, c>> \in pending_promotions

\* Who joined a chain since its last evaluation has marked it, or will.
Told ==
    \A r \in Root : r \notin dirty_roots =>
        \A m \in Members(hist, r, clock) :
            m \in seen[r] \/ \E p \in Due(clock) : p[2] = m[1]

IInv == Types /\ Scheduled /\ Told

-----------------------------------------------------------------------------
\* A nonempty set of instants has a least one.

LEMMA MinIs ==
    ASSUME NEW T \in SUBSET Nat, T # {}
    PROVE  /\ Min(T) \in T
           /\ \A y \in T : Min(T) <= y
<1>1. PICK x \in T : \A y \in T : ~(<<y, x>> \in OpToRel(<, Nat))
  BY NatLessThanWellFounded, WFMin
<1>2. \A y \in T : ~(y < x)
  BY <1>1 DEF OpToRel
<1>3. \A y \in T : x <= y
  BY <1>2
<1> QED
  BY <1>3 DEF Min

LEMMA NextPromoteType ==
    ASSUME NEW t, tiles \in SUBSET (0..MaxTime)
    PROVE  NextPromote(t) \in 0..Never
<1> DEFINE T == {Never} \cup {s \in tiles : s > t}
<1>1. /\ MaxTime \in Nat /\ Never \in Nat /\ Never \in 0..Never
      /\ 0..MaxTime \subseteq 0..Never /\ 0..Never \subseteq Nat
  BY BoundAssumption DEF BoundAssumption, Never
<1>2. T \in SUBSET (0..Never) /\ T # {} /\ T \in SUBSET Nat
  BY <1>1
<1>3. Min(T) \in T
  BY <1>2, MinIs
<1> QED
  BY <1>2, <1>3 DEF NextPromote

LEMMA EarlierType ==
    ASSUME NEW s \in 0..MaxTime, next_zone_promote \in 0..Never
    PROVE  Min({next_zone_promote, s}) \in 0..Never
<1>1. {next_zone_promote, s} \in SUBSET Nat /\ {next_zone_promote, s} # {} /\ s \in 0..Never
  BY BoundAssumption DEF BoundAssumption, Never
<1>2. Min({next_zone_promote, s}) \in {next_zone_promote, s}
  BY <1>1, MinIs
<1> QED
  BY <1>1, <1>2

\* A chain a current version hangs from.
LEMMA RootOfCurrent ==
    ASSUME NEW rows, NEW t, NEW row \in Current(rows, t)
    PROVE  row.root \in ChainRoot(rows, t)
  BY DEF ChainRoot

LEMMA MemberIs ==
    ASSUME NEW cards, NEW r, NEW t, NEW m \in Members(cards, r, t)
    PROVE  /\ m[1] \in Card /\ m[2] \in Version
           /\ m[2] \in Current(cards[m[1]], t)
           /\ m[2].root = r
           /\ m = <<m[1], m[2]>>
  BY DEF Members

LEMMA CurrentIs ==
    ASSUME NEW rows, NEW t, NEW row \in Current(rows, t)
    PROVE  /\ row \in rows
           /\ row.time <= t
           /\ \A other \in rows : other.time <= t => other.time <= row.time
  BY DEF Current, Upto

LEMMA IsCurrent ==
    ASSUME NEW rows, NEW t, NEW row \in rows, row.time <= t,
           \A other \in rows : other.time <= t => other.time <= row.time
    PROVE  row \in Current(rows, t)
  BY DEF Current, Upto

LEMMA MemberOf ==
    ASSUME NEW cards, NEW r, NEW t, NEW c \in Card, NEW row \in Version,
           row \in Current(cards[c], t), row.root = r
    PROVE  <<c, row>> \in Members(cards, r, t)
  BY DEF Members

\* Rows stay one to an instant.
LEMMA UpsertedKeyed ==
    ASSUME NEW rows \in SUBSET Version, Keyed(rows), NEW row \in Version
    PROVE  Upserted(rows, row) \in SUBSET Version /\ Keyed(Upserted(rows, row))
  BY DEF Upserted, Keyed

-----------------------------------------------------------------------------
\* The clock advances.

\* A member at a later instant was one before, or is promoted.
LEMMA JoinedByTime ==
    ASSUME IInv, NEW t \in clock..MaxTime, NEW r \in Root, NEW m \in Members(hist, r, t)
    PROVE  \/ \E p \in Due(t) : p[2] = m[1]
           \/ m \in Members(hist, r, clock)
<1>1. /\ m[1] \in Card /\ m[2] \in Version /\ m[2] \in Current(hist[m[1]], t)
      /\ m[2].root = r /\ m = <<m[1], m[2]>>
  BY MemberIs
<1>2. /\ m[2] \in hist[m[1]] /\ m[2].time <= t
      /\ \A other \in hist[m[1]] : other.time <= t => other.time <= m[2].time
  BY <1>1, CurrentIs
<1>3. m[2].time \in Nat /\ clock \in Nat /\ t \in Nat /\ clock <= t
  BY <1>1 DEF Version, IInv, Types
<1>4. CASE m[2].time > clock
  <2>1. <<m[2].time, m[1]>> \in Due(t)
    BY <1>1, <1>2, <1>4 DEF IInv, Scheduled, Due
  <2> QED
    BY <2>1
<1>5. CASE m[2].time <= clock
  <2>1. \A other \in hist[m[1]] : other.time \in Nat
    BY <1>1 DEF IInv, Types, Version
  <2>2. \A other \in hist[m[1]] : other.time <= clock => other.time <= m[2].time
    BY <1>2, <1>3, <2>1
  <2>3. m[2] \in Current(hist[m[1]], clock)
    BY <1>2, <1>5, <2>2, IsCurrent
  <2> QED
    BY <1>1, <2>3, MemberOf
<1> QED
  BY <1>3, <1>4, <1>5

LEMMA DueLater ==
    ASSUME IInv, NEW t \in clock..MaxTime
    PROVE  Due(clock) \subseteq Due(t)
<1>1. \A p \in pending_promotions : p[1] \in Nat
  BY DEF IInv, Types
<1>2. clock \in Nat /\ t \in Nat /\ clock <= t
  BY DEF IInv, Types
<1> QED
  BY <1>1, <1>2 DEF Due

LEMMA AdvanceSteps ==
    ASSUME IInv, NEW t \in clock..MaxTime, NEW in_budget \in BOOLEAN, Advance(t, in_budget),
           render_kick' \in BOOLEAN, changed' \in BOOLEAN, gathered' \in SUBSET Card
    PROVE  IInv'
<1> DEFINE dirty == dirty_roots \cup Promoted(t)
<1>1. /\ clock' = t /\ hist' = hist /\ tiles' = tiles
      /\ pending_promotions' = pending_promotions \ Due(t)
      /\ next_zone_promote' = IF next_zone_promote <= t THEN NextPromote(t) ELSE next_zone_promote
      /\ \/ /\ dirty_roots' = {}
            /\ seen' = [r \in Root |-> IF r \in dirty THEN Members(hist, r, t) ELSE seen[r]]
         \/ dirty_roots' = dirty /\ seen' = seen
  BY DEF Advance, world
<1>2. Promoted(t) \subseteq Root
  <2> SUFFICES ASSUME NEW p \in Due(t), NEW row \in Current(hist[p[2]], t)
               PROVE  row.root \in Root
    BY DEF Promoted, ChainRoot
  <2>1. p[2] \in Card
    BY DEF Due, IInv, Types
  <2>2. row \in hist[p[2]]
    BY CurrentIs
  <2> QED
    BY <2>1, <2>2 DEF IInv, Types, Version
<1>3. Types'
  <2>1. next_zone_promote' \in 0..Never
    BY <1>1, NextPromoteType DEF IInv, Types
  <2>2. clock' \in 0..MaxTime
    BY <1>1 DEF IInv, Types
  <2>3. dirty_roots' \in SUBSET Root
    BY <1>1, <1>2 DEF IInv, Types
  <2>4. pending_promotions' \in SUBSET ((0..MaxTime) \X Card)
    BY <1>1 DEF IInv, Types
  <2> QED
    BY <1>1, <2>1, <2>2, <2>3, <2>4 DEF IInv, Types
<1>4. Scheduled'
  <2> SUFFICES ASSUME NEW c \in Card, NEW row \in hist[c], row.time > t
               PROVE  <<row.time, c>> \in pending_promotions \ Due(t)
    BY <1>1 DEF Scheduled
  <2>1. row.time \in Nat /\ clock \in Nat /\ t \in Nat /\ clock <= t
    BY DEF IInv, Types, Version
  <2> QED
    BY <2>1 DEF IInv, Scheduled, Due
<1>5. Told'
  <2> SUFFICES ASSUME NEW r \in Root, r \notin dirty_roots', NEW m \in Members(hist, r, t)
               PROVE  m \in seen'[r]
    BY <1>1 DEF Told
  <2>1. CASE r \in dirty
    BY <1>1, <2>1
  <2>2. CASE r \notin dirty
    <3>1. ~ \E p \in Due(t) : p[2] = m[1]
      <4> SUFFICES ASSUME NEW p \in Due(t), p[2] = m[1] PROVE FALSE
        OBVIOUS
      <4>1. r \in ChainRoot(hist[m[1]], t)
        BY MemberIs, RootOfCurrent
      <4> QED
        BY <2>2, <4>1 DEF Promoted
    <3>2. m \in Members(hist, r, clock)
      BY <3>1, JoinedByTime
    <3>3. m \in seen[r]
      BY <2>2, <3>1, <3>2, DueLater DEF IInv, Told
    <3> QED
      BY <1>1, <2>2, <3>3
  <2> QED
    BY <2>1, <2>2
<1> QED
  BY <1>3, <1>4, <1>5 DEF IInv

LEMMA SampleSteps ==
    ASSUME IInv, NEW t \in clock..MaxTime, Sample(t)
    PROVE  IInv'
<1>1. clock' = t /\ UNCHANGED <<hist, tiles, pending_promotions, next_zone_promote, dirty_roots,
                                render_kick, changed, seen, shown, gathered>>
  BY DEF Sample, world, notes, readers
<1>2. Types'
  BY <1>1 DEF IInv, Types
<1>3. Scheduled'
  <2> SUFFICES ASSUME NEW c \in Card, NEW row \in hist[c], row.time > t
               PROVE  <<row.time, c>> \in pending_promotions
    BY <1>1 DEF Scheduled
  <2>1. row.time \in Nat /\ clock \in Nat /\ t \in Nat /\ clock <= t
    BY DEF IInv, Types, Version
  <2> QED
    BY <2>1 DEF IInv, Scheduled
<1>4. Told'
  <2> SUFFICES ASSUME NEW r \in Root, r \notin dirty_roots, NEW m \in Members(hist, r, t)
               PROVE  m \in seen[r] \/ \E p \in Due(t) : p[2] = m[1]
    BY <1>1 DEF Told, Due
  <2>1. CASE \E p \in Due(t) : p[2] = m[1]
    BY <2>1
  <2>2. CASE m \in Members(hist, r, clock)
    BY <2>2, DueLater DEF IInv, Told
  <2> QED
    BY <2>1, <2>2, JoinedByTime
<1> QED
  BY <1>2, <1>3, <1>4 DEF IInv

-----------------------------------------------------------------------------
\* Rows and moves.

LEMMA CardArrivesSteps ==
    ASSUME IInv, NEW c \in Card, NEW row \in Version, CardArrives(c, row)
    PROVE  IInv'
<1>1. /\ hist' = [hist EXCEPT ![c] = Upserted(hist[c], row)]
      /\ dirty_roots' = dirty_roots \cup ChainRoot(hist'[c], clock)
      /\ pending_promotions' = IF row.time > clock
                               THEN pending_promotions \cup {<<row.time, c>>}
                               ELSE pending_promotions
      /\ changed' = TRUE
      /\ UNCHANGED <<tiles, clock, next_zone_promote, render_kick, seen, gathered>>
  BY DEF CardArrives, readers
<1>2. /\ hist'[c] = Upserted(hist[c], row)
      /\ \A d \in Card : d # c => hist'[d] = hist[d]
      /\ row.time \in 0..MaxTime
  BY <1>1 DEF IInv, Types, Version
<1>3. hist'[c] \in SUBSET Version /\ Keyed(hist'[c])
  BY <1>2, UpsertedKeyed DEF IInv, Types
<1>4. ChainRoot(hist'[c], clock) \subseteq Root
  BY <1>3, CurrentIs DEF ChainRoot, Version
<1>5. Types'
  <2>1. hist' \in [Card -> SUBSET Version] /\ \A d \in Card : Keyed(hist'[d])
    BY <1>1, <1>2, <1>3 DEF IInv, Types
  <2>2. pending_promotions' \in SUBSET ((0..MaxTime) \X Card)
    BY <1>1, <1>2 DEF IInv, Types
  <2>3. dirty_roots' \in SUBSET Root
    BY <1>1, <1>4 DEF IInv, Types
  <2> QED
    BY <1>1, <2>1, <2>2, <2>3 DEF IInv, Types
<1>6. Scheduled'
  <2> SUFFICES ASSUME NEW d \in Card, NEW other \in hist'[d], other.time > clock
               PROVE  <<other.time, d>> \in pending_promotions'
    BY <1>1 DEF Scheduled
  <2>1. CASE d = c /\ other = row
    BY <1>1, <2>1
  <2>2. CASE ~(d = c /\ other = row)
    <3>1. other \in hist[d]
      BY <1>2, <2>2 DEF Upserted
    <3>2. <<other.time, d>> \in pending_promotions
      BY <3>1 DEF IInv, Scheduled
    <3> QED
      BY <1>1, <3>2
  <2> QED
    BY <2>1, <2>2
<1>7. Told'
  <2> SUFFICES ASSUME NEW r \in Root, r \notin dirty_roots', NEW m \in Members(hist', r, clock)
               PROVE  m \in seen[r] \/ \E p \in Due(clock) : p[2] = m[1]
    BY <1>1 DEF Told, Due
  <2>1. /\ m[1] \in Card /\ m[2] \in Version /\ m[2] \in Current(hist'[m[1]], clock)
        /\ m[2].root = r /\ m = <<m[1], m[2]>>
    BY MemberIs
  <2>2. m[1] # c
    BY <1>1, <2>1, RootOfCurrent
  <2>3. m \in Members(hist, r, clock)
    BY <1>2, <2>1, <2>2, MemberOf
  <2> QED
    BY <1>1, <2>3 DEF IInv, Told
<1> QED
  BY <1>5, <1>6, <1>7 DEF IInv

LEMMA CardDeletedSteps ==
    ASSUME IInv, NEW c \in Card, NEW row \in hist[c], CardDeleted(c, row)
    PROVE  IInv'
<1>1. /\ \A other \in hist[c] : row.time <= other.time
      /\ hist' = [hist EXCEPT ![c] = hist[c] \ {row}]
      /\ changed' = TRUE
      /\ UNCHANGED <<tiles, clock, pending_promotions, next_zone_promote, dirty_roots,
                     render_kick, seen, gathered>>
  BY DEF CardDeleted, readers
<1>2. /\ hist'[c] = hist[c] \ {row}
      /\ \A d \in Card : d # c => hist'[d] = hist[d]
  BY <1>1 DEF IInv, Types
<1>3. Types'
  <2>1. hist' \in [Card -> SUBSET Version]
    BY <1>1 DEF IInv, Types
  <2>2. \A d \in Card : Keyed(hist'[d])
    BY <1>2 DEF IInv, Types, Keyed
  <2> QED
    BY <1>1, <2>1, <2>2 DEF IInv, Types
<1>4. Scheduled'
  <2>1. \A d \in Card : hist'[d] \subseteq hist[d]
    BY <1>2
  <2> QED
    BY <1>1, <2>1 DEF IInv, Scheduled
<1>5. Told'
  <2> SUFFICES ASSUME NEW r \in Root, r \notin dirty_roots, NEW m \in Members(hist', r, clock)
               PROVE  m \in seen[r] \/ \E p \in Due(clock) : p[2] = m[1]
    BY <1>1 DEF Told, Due
  <2>1. /\ m[1] \in Card /\ m[2] \in Version /\ m[2] \in Current(hist'[m[1]], clock)
        /\ m[2].root = r /\ m = <<m[1], m[2]>>
    BY MemberIs
  <2>2. /\ m[2] \in hist'[m[1]] /\ m[2].time <= clock
        /\ \A other \in hist'[m[1]] : other.time <= clock => other.time <= m[2].time
    BY <2>1, CurrentIs
  <2>3. m[2] \in hist[m[1]] /\ \A other \in hist[m[1]] : other.time <= clock => other.time <= m[2].time
    BY <1>1, <1>2, <2>1, <2>2
  <2>4. m \in Members(hist, r, clock)
    BY <2>1, <2>2, <2>3, IsCurrent, MemberOf
  <2> QED
    BY <2>4 DEF IInv, Told
<1> QED
  BY <1>3, <1>4, <1>5 DEF IInv

LEMMA TileSteps ==
    ASSUME IInv, NEW s \in 0..MaxTime, TileArrives(s) \/ TileDeleted(s)
    PROVE  IInv'
<1>1. /\ next_zone_promote' \in {next_zone_promote, Min({next_zone_promote, s})}
      /\ tiles' \in {tiles \cup {s}, tiles \ {s}} /\ changed' = TRUE
      /\ UNCHANGED <<hist, clock, pending_promotions, dirty_roots, render_kick, seen, gathered>>
  BY DEF TileArrives, TileDeleted, readers
<1>2. Types'
  <2>1. next_zone_promote' \in 0..Never
    BY <1>1, EarlierType DEF IInv, Types
  <2> QED
    BY <1>1, <2>1 DEF IInv, Types
<1> QED
  BY <1>1, <1>2 DEF IInv, Scheduled, Told, Due

\* What a move makes of the versions of a card it takes along: each is pinned to
\* the chain but for one still to come that the server requires.
Pinned(row, r, required) ==
    IF row.time > clock /\ required THEN row ELSE [row EXCEPT !.root = r]

LEMMA PinnedIs ==
    ASSUME NEW row \in Version, NEW r \in Root, NEW required, clock \in 0..MaxTime
    PROVE  /\ Pinned(row, r, required) \in Version
           /\ Pinned(row, r, required).time = row.time
           /\ row.time <= clock => Pinned(row, r, required).root = r
<1>1. row.time \in 0..MaxTime /\ (row.time <= clock => ~(row.time > clock))
  BY DEF Version
<1> QED
  BY <1>1 DEF Pinned, Version

LEMMA PlacedSteps ==
    ASSUME IInv, NEW cards \in SUBSET Card, NEW c \in Card, NEW r \in Root,
           NEW required \in BOOLEAN, Placed(cards, c, r, required),
           changed' \in BOOLEAN, gathered' \in SUBSET Card
    PROVE  IInv'
<1> DEFINE landed == [time |-> clock, root |-> r]
           moved(d) == {Pinned(row, r, required) : row \in Upserted(hist[d], landed)}
<1>1. /\ c \in cards
      /\ hist' = [d \in Card |-> IF d \in cards THEN moved(d) ELSE hist[d]]
      /\ dirty_roots' = dirty_roots \cup {r} \cup ChainRoot(hist[c], clock)
      /\ UNCHANGED <<tiles, clock, pending_promotions, next_zone_promote, render_kick, seen>>
  BY DEF Placed, Pinned
<1>2. landed \in Version /\ clock \in 0..MaxTime
  BY DEF IInv, Types, Version
<1>3. ASSUME NEW d \in Card
      PROVE  /\ Upserted(hist[d], landed) \in SUBSET Version
             /\ Keyed(Upserted(hist[d], landed))
  BY <1>2, UpsertedKeyed DEF IInv, Types
<1> HIDE DEF landed
<1>4. ASSUME NEW d \in Card
      PROVE  moved(d) \in SUBSET Version /\ Keyed(moved(d))
  <2>1. \A row \in Upserted(hist[d], landed) :
           /\ Pinned(row, r, required) \in Version
           /\ Pinned(row, r, required).time = row.time
    BY <1>2, <1>3, PinnedIs
  <2>2. ASSUME NEW row \in Upserted(hist[d], landed), NEW other \in Upserted(hist[d], landed),
               Pinned(row, r, required).time = Pinned(other, r, required).time
        PROVE  Pinned(row, r, required) = Pinned(other, r, required)
    BY <1>3, <2>1, <2>2 DEF Keyed
  <2> QED
    BY <2>1, <2>2 DEF Keyed
<1>5. ASSUME NEW d \in cards, NEW row \in hist'[d]
      PROVE  /\ row.time > clock => \E old \in hist[d] : old.time = row.time
             /\ row.time <= clock => row.root = r
  <2>1. PICK old \in Upserted(hist[d], landed) : row = Pinned(old, r, required)
    BY <1>1, <1>5
  <2>2. /\ old \in Version /\ row.time = old.time /\ (old.time <= clock => row.root = r)
    BY <1>2, <1>3, <2>1, PinnedIs
  <2>3. old.time > clock => old \in hist[d]
    BY <1>2 DEF Upserted, landed
  <2> QED
    BY <2>2, <2>3
<1> HIDE DEF moved
<1>6. Types'
  <2>1. hist' \in [Card -> SUBSET Version] /\ \A d \in Card : Keyed(hist'[d])
    BY <1>1, <1>4 DEF IInv, Types
  <2>2. ChainRoot(hist[c], clock) \subseteq Root
    BY CurrentIs DEF ChainRoot, IInv, Types, Version
  <2>3. dirty_roots' \in SUBSET Root
    BY <1>1, <2>2 DEF IInv, Types
  <2> QED
    BY <1>1, <2>1, <2>3 DEF IInv, Types
<1>7. Scheduled'
  <2> SUFFICES ASSUME NEW d \in Card, NEW row \in hist'[d], row.time > clock
               PROVE  <<row.time, d>> \in pending_promotions
    BY <1>1 DEF Scheduled
  <2>1. \E old \in hist[d] : old.time = row.time
    BY <1>1, <1>5
  <2> QED
    BY <2>1 DEF IInv, Scheduled
<1>8. Told'
  <2> SUFFICES ASSUME NEW q \in Root, q \notin dirty_roots', NEW m \in Members(hist', q, clock)
               PROVE  m \in seen[q] \/ \E p \in Due(clock) : p[2] = m[1]
    BY <1>1 DEF Told, Due
  <2>1. /\ m[1] \in Card /\ m[2] \in Version /\ m[2] \in Current(hist'[m[1]], clock)
        /\ m[2].root = q /\ m = <<m[1], m[2]>>
    BY MemberIs
  <2>2. m[2] \in hist'[m[1]] /\ m[2].time <= clock
    BY <2>1, CurrentIs
  <2>3. m[1] \notin cards
    BY <1>1, <1>5, <2>1, <2>2
  <2>4. m \in Members(hist, q, clock)
    BY <1>1, <2>1, <2>3, MemberOf
  <2> QED
    BY <1>1, <2>4 DEF IInv, Told
<1> QED
  BY <1>6, <1>7, <1>8 DEF IInv

-----------------------------------------------------------------------------

LEMMA Steps ==
    ASSUME IInv, [Steady]_vars
    PROVE  IInv'
<1>1. ASSUME NEW c \in Card, NEW row \in Version, CardArrives(c, row) PROVE IInv'
  BY <1>1, CardArrivesSteps
<1>2. ASSUME NEW c \in Card, NEW row \in hist[c], CardDeleted(c, row) PROVE IInv'
  BY <1>2, CardDeletedSteps
<1>3. ASSUME NEW s \in 0..MaxTime, TileArrives(s) \/ TileDeleted(s) PROVE IInv'
  BY <1>3, TileSteps
<1>4. ASSUME NEW cards \in SUBSET Card, NEW c \in Card, NEW r \in Root, Place(cards, c, r)
      PROVE  IInv'
  BY <1>4, PlacedSteps DEF Place, IInv, Types
<1>5. ASSUME NEW c \in Card, NEW r \in Root, Gather(c, r) PROVE IInv'
  <2>1. gathered' \in SUBSET Card /\ changed' \in BOOLEAN /\ {c} \in SUBSET Card
    BY <1>5 DEF Gather, IInv, Types
  <2> QED
    BY <1>5, <2>1, PlacedSteps DEF Gather
<1>6. ASSUME NEW t \in clock..MaxTime, NEW in_budget \in BOOLEAN, Tick(t, in_budget) PROVE IInv'
  <2>1. /\ render_kick' \in BOOLEAN /\ changed' \in BOOLEAN /\ gathered' \in SUBSET Card
        /\ Advance(t, in_budget)
    BY <1>6 DEF Tick, Kicked, IInv, Types
  <2> QED
    BY <2>1, AdvanceSteps
<1>7. ASSUME NEW t \in clock..MaxTime, NEW in_budget \in BOOLEAN, PumpEnds(t, in_budget)
      PROVE  IInv'
  <2>1. /\ render_kick' \in BOOLEAN /\ changed' \in BOOLEAN /\ gathered' \in SUBSET Card
        /\ Advance(t, in_budget)
    BY <1>7 DEF PumpEnds, IInv, Types
  <2> QED
    BY <2>1, AdvanceSteps
<1>8. ASSUME NEW t \in clock..MaxTime, Sample(t) PROVE IInv'
  BY <1>8, SampleSteps
<1>9. CASE UNCHANGED vars
  BY <1>9 DEF vars, world, notes, readers, IInv, Types, Scheduled, Told, Due
<1> QED
  BY <1>1, <1>2, <1>3, <1>4, <1>5, <1>6, <1>7, <1>8, <1>9 DEF Steady, Board, TimeMoves

\* The invariant of the two readers' notes under a clock that only advances:
\* that promotions are pending for whatever is still to come is what lets the
\* passing of time bring nobody in untold.
THEOREM Invariance == SteadySpec => []IInv
<1>1. Init => IInv
  <2> SUFFICES ASSUME Init PROVE IInv
    OBVIOUS
  <2>1. Types
    <3>1. 0 \in 0..MaxTime /\ Never \in 0..Never
      BY BoundAssumption DEF BoundAssumption, Never
    <3>2. hist \in [Card -> SUBSET Version] /\ \A c \in Card : Keyed(hist[c])
      BY DEF Init, Keyed
    <3> QED
      BY <3>1, <3>2 DEF Init, Types
  <2>2. Scheduled
    BY DEF Init, Scheduled
  <2>3. Told
    BY DEF Init, Told, Members, Current, Upto
  <2> QED
    BY <2>1, <2>2, <2>3 DEF IInv
<1>2. IInv /\ [Steady]_vars => IInv'
  BY Steps
<1> QED
  BY <1>1, <1>2, PTL DEF SteadySpec

\* apply_row, place, tick and the drain of pending_promotions between them:
\* whoever is in a chain was seen by its last evaluation, or the chain is
\* marked, or the next tick will mark it.
THEOREM MembersAreSeen == SteadySpec => []MembersSeen
<1>1. IInv => MembersSeen
  BY DEF IInv, Types, Keyed, Told, MembersSeen, TypeOK
<1> QED
  BY <1>1, Invariance, PTL
-----------------------------------------------------------------------------
\* The view.

\* next_zone_promote is no later than any tile row still to come.
TilesNoted == \A s \in tiles : s > clock => next_zone_promote <= s

ViewInv == TilesNoted /\ ViewFollows

\* While nothing has come due, time brings nothing into force.
LEMMA NothingComesDue ==
    ASSUME IInv, TilesNoted, NEW t \in clock..MaxTime, ~Kicked(t)
    PROVE  /\ ~Kicked(clock)
           /\ \A c \in Card : Current(hist[c], t) = Current(hist[c], clock)
           /\ View(hist, tiles, t) = View(hist, tiles, clock)
<1>1. clock \in Nat /\ t \in Nat /\ clock <= t /\ next_zone_promote \in Nat /\ t < next_zone_promote
  BY DEF IInv, Types, Kicked
<1>2. Due(t) = {} /\ ~render_kick
  BY DEF Kicked
<1>3. ~Kicked(clock)
  BY <1>1, <1>2, DueLater DEF Kicked
<1>4. ASSUME NEW c \in Card
      PROVE  Current(hist[c], t) = Current(hist[c], clock)
  <2>1. \A row \in hist[c] : row.time <= t <=> row.time <= clock
    <3> SUFFICES ASSUME NEW row \in hist[c], row.time <= t, row.time > clock PROVE FALSE
      <4>1. \A row \in hist[c] : row.time \in Nat
        BY DEF IInv, Types, Version
      <4> QED
        BY <1>1, <4>1
    <3>1. <<row.time, c>> \in Due(t)
      BY DEF IInv, Scheduled, Due
    <3> QED
      BY <1>2, <3>1
  <2>2. Upto(hist[c], t) = Upto(hist[c], clock)
    BY <2>1 DEF Upto
  <2> QED
    BY <2>2 DEF Current
<1>5. {s \in tiles : s <= t} = {s \in tiles : s <= clock}
  <2>1. \A s \in tiles : s \in Nat /\ (s > clock => next_zone_promote <= s)
    BY DEF IInv, Types, TilesNoted
  <2> QED
    BY <1>1, <2>1
<1>6. [c \in Card |-> Current(hist[c], t)] = [c \in Card |-> Current(hist[c], clock)]
  BY <1>4
<1> QED
  BY <1>3, <1>4, <1>5, <1>6, Zenon DEF View

LEMMA NextPromoteIs ==
    ASSUME IInv, NEW t, NEW s \in tiles, s > t
    PROVE  NextPromote(t) <= s
<1> DEFINE T == {Never} \cup {x \in tiles : x > t}
<1>1. T \in SUBSET Nat /\ T # {} /\ s \in T
  <2>1. Never \in Nat
    BY BoundAssumption DEF BoundAssumption, Never
  <2>2. tiles \subseteq Nat
    BY DEF IInv, Types
  <2>3. s \in {x \in tiles : x > t}
    OBVIOUS
  <2>4. {x \in tiles : x > t} \subseteq Nat
    BY <2>2
  <2> QED
    BY <2>1, <2>3, <2>4
<1> HIDE DEF T
<1>2. Min(T) <= s
  BY <1>1, MinIs
<1> QED
  BY <1>2 DEF NextPromote, T

\* A clock that advances, by a tick or by a sample, kicks the view or brings
\* nothing into force.
LEMMA AdvanceView ==
    ASSUME IInv, ViewInv, NEW t \in clock..MaxTime, NEW in_budget \in BOOLEAN,
           Advance(t, in_budget),
           \/ UNCHANGED <<changed, shown, gathered>> /\ render_kick' = Kicked(t)
           \/ UNCHANGED <<changed, shown, gathered>> /\ ~Kicked(t)
           \/ shown' = View(hist, tiles, t)
    PROVE  ViewInv'
<1>1. /\ clock' = t /\ hist' = hist /\ tiles' = tiles
      /\ next_zone_promote' = IF next_zone_promote <= t THEN NextPromote(t) ELSE next_zone_promote
  BY DEF Advance, world
<1>2. TilesNoted'
  <2> SUFFICES ASSUME NEW s \in tiles, s > t PROVE next_zone_promote' <= s
    BY <1>1 DEF TilesNoted
  <2>1. NextPromote(t) <= s
    BY NextPromoteIs
  <2>2. s > clock
    <3>1. s \in Nat /\ clock \in Nat /\ t \in Nat /\ clock <= t
      BY DEF IInv, Types
    <3> QED
      BY <3>1
  <2> QED
    BY <1>1, <2>1, <2>2 DEF ViewInv, TilesNoted
<1>3. CASE shown' = View(hist, tiles, t)
  <2>1. \A c \in Card : shown'.cards[c] = View(hist, tiles, t).cards[c]
    BY <1>3
  <2> QED
    BY <1>1, <1>2, <1>3, <2>1 DEF ViewInv, ViewFollows
<1>4. CASE UNCHANGED <<changed, shown, gathered>> /\ Kicked(t) /\ render_kick' = TRUE
  BY <1>2, <1>4 DEF ViewInv, ViewFollows, Kicked
<1>5. CASE UNCHANGED <<changed, shown, gathered>> /\ ~Kicked(t)
  <2>1. ~Kicked(clock) /\ View(hist, tiles, t) = View(hist, tiles, clock)
    BY <1>5, NothingComesDue DEF ViewInv
  <2> QED
    BY <1>1, <1>2, <1>5, <2>1 DEF ViewInv, ViewFollows
<1> QED
  BY <1>3, <1>4, <1>5

LEMMA SampleView ==
    ASSUME IInv, ViewInv, NEW t \in clock..MaxTime, Sample(t)
    PROVE  ViewInv'
<1>1. clock' = t /\ UNCHANGED <<hist, tiles, pending_promotions, next_zone_promote, dirty_roots,
                                render_kick, changed, seen, shown, gathered>>
  BY DEF Sample, world, notes, readers
<1>2. TilesNoted'
  <2> SUFFICES ASSUME NEW s \in tiles, s > t PROVE next_zone_promote <= s
    BY <1>1 DEF TilesNoted
  <2>1. s \in Nat /\ clock \in Nat /\ t \in Nat /\ clock <= t
    BY DEF IInv, Types
  <2> QED
    BY <2>1 DEF ViewInv, TilesNoted
<1>3. CASE Kicked(t)
  BY <1>1, <1>2, <1>3 DEF ViewInv, ViewFollows, Kicked, Due
<1>4. CASE ~Kicked(t)
  <2>1. ~Kicked(clock) /\ View(hist, tiles, t) = View(hist, tiles, clock)
    BY <1>4, NothingComesDue DEF ViewInv
  <2> QED
    BY <1>1, <1>2, <2>1 DEF ViewInv, ViewFollows
<1> QED
  BY <1>3, <1>4

\* Rows of tiles are noted as they come; and every row flags the view.
LEMMA TileView ==
    ASSUME IInv, ViewInv, NEW s \in 0..MaxTime, TileArrives(s) \/ TileDeleted(s)
    PROVE  ViewInv'
<1>1. /\ next_zone_promote' = IF s > clock THEN Min({next_zone_promote, s}) ELSE next_zone_promote
      /\ tiles' \in {tiles \cup {s}, tiles \ {s}} /\ changed' = TRUE /\ clock' = clock
  BY DEF TileArrives, TileDeleted
<1>2. {next_zone_promote, s} \in SUBSET Nat /\ next_zone_promote \in Nat /\ s \in Nat /\ clock \in Nat
  BY DEF IInv, Types
<1>3. /\ Min({next_zone_promote, s}) \in Nat
      /\ Min({next_zone_promote, s}) <= next_zone_promote
      /\ Min({next_zone_promote, s}) <= s
  BY <1>2, MinIs
<1>4. \A r \in tiles : r \in Nat /\ (r > clock => next_zone_promote <= r)
  BY DEF IInv, Types, ViewInv, TilesNoted
<1>5. TilesNoted'
  <2> SUFFICES ASSUME NEW r \in tiles', r > clock PROVE next_zone_promote' <= r
    BY <1>1 DEF TilesNoted
  <2>1. CASE r \in tiles
    <3>1. r \in Nat /\ next_zone_promote <= r
      BY <1>4, <2>1
    <3>2. CASE s > clock
      BY <1>1, <1>2, <1>3, <3>1, <3>2
    <3>3. CASE ~(s > clock)
      BY <1>1, <3>1, <3>3
    <3> QED
      BY <3>2, <3>3
  <2>2. CASE r \notin tiles
    <3>1. r = s
      BY <1>1, <2>2
    <3> QED
      BY <1>1, <1>3, <3>1
  <2> QED
    BY <2>1, <2>2
<1> QED
  BY <1>1, <1>5 DEF ViewInv, ViewFollows

LEMMA ViewSteps ==
    ASSUME IInv, ViewInv, [Steady]_vars
    PROVE  ViewInv'
<1>1. CASE changed' = TRUE /\ UNCHANGED <<tiles, clock, next_zone_promote>>
  BY <1>1 DEF ViewInv, ViewFollows, TilesNoted
<1>2. ASSUME NEW s \in 0..MaxTime, TileArrives(s) \/ TileDeleted(s) PROVE ViewInv'
  BY <1>2, TileView
<1>3. ASSUME NEW c \in Card, NEW r \in Root, Gather(c, r) PROVE ViewInv'
  <2>1. PICK required \in BOOLEAN : Placed({c}, c, r, required)
    BY <1>3 DEF Gather
  <2>2. /\ \A d \in Card \ {c} : hist'[d] = hist[d]
        /\ UNCHANGED <<tiles, clock, pending_promotions, next_zone_promote, render_kick, shown, changed>>
        /\ gathered' = gathered \cup {c}
    BY <1>3, <2>1 DEF Placed, Gather
  <2>3. \A d \in Card \ gathered' : View(hist, tiles, clock)'.cards[d] = View(hist, tiles, clock).cards[d]
    BY <2>2 DEF View
  <2>4. View(hist, tiles, clock)'.tile = View(hist, tiles, clock).tile
    BY <2>2 DEF View
  <2>5. TilesNoted'
    BY <2>2 DEF ViewInv, TilesNoted
  <2>6. Kicked(clock)' <=> Kicked(clock)
    BY <2>2 DEF Kicked, Due
  <2>7. CASE changed \/ Kicked(clock)
    BY <2>2, <2>5, <2>6, <2>7 DEF ViewInv, ViewFollows
  <2>8. CASE ~(changed \/ Kicked(clock))
    <3>1. /\ \A d \in Card \ gathered : shown.cards[d] = View(hist, tiles, clock).cards[d]
          /\ shown.tile = View(hist, tiles, clock).tile
      BY <2>8 DEF ViewInv, ViewFollows
    <3> QED
      BY <2>2, <2>3, <2>4, <2>5, <3>1 DEF ViewInv, ViewFollows
  <2> QED
    BY <2>7, <2>8
<1>4. ASSUME NEW t \in clock..MaxTime, NEW in_budget \in BOOLEAN, Tick(t, in_budget)
      PROVE  ViewInv'
  BY <1>4, AdvanceView DEF Tick
<1>5. ASSUME NEW t \in clock..MaxTime, NEW in_budget \in BOOLEAN, PumpEnds(t, in_budget)
      PROVE  ViewInv'
  <2>1. CASE changed \/ Kicked(t)
    BY <1>5, <2>1, AdvanceView DEF PumpEnds
  <2>2. CASE ~(changed \/ Kicked(t))
    <3>1. changed' = changed
      BY <1>5, <2>2 DEF PumpEnds, IInv, Types
    <3> QED
      BY <1>5, <2>2, <3>1, AdvanceView DEF PumpEnds
  <2> QED
    BY <2>1, <2>2
<1>6. ASSUME NEW t \in clock..MaxTime, Sample(t) PROVE ViewInv'
  BY <1>6, SampleView
<1>7. CASE UNCHANGED vars
  BY <1>7 DEF vars, world, notes, readers, ViewInv, TilesNoted, ViewFollows, Kicked, Due
<1>8. ASSUME NEW c \in Card, NEW row, CardArrives(c, row) \/ CardDeleted(c, row)
      PROVE  ViewInv'
  BY <1>1, <1>8 DEF CardArrives, CardDeleted
<1>9. ASSUME NEW cards \in SUBSET Card, NEW c \in Card, NEW r \in Root, Place(cards, c, r)
      PROVE  ViewInv'
  BY <1>1, <1>9 DEF Place, Placed
<1> QED
  BY <1>2, <1>3, <1>4, <1>5, <1>6, <1>7, <1>8, <1>9 DEF Steady, Board, TimeMoves

\* render_kick, next_zone_promote and the driver's flag between them: whatever
\* comes into force, by a row, a move or the passing of time, the view has been
\* given it or the next pump gives it, but for what magnets took.
THEOREM ViewIsTold == SteadySpec => []ViewFollows
<1>1. Init => ViewInv
  <2> SUFFICES ASSUME Init PROVE ViewInv
    OBVIOUS
  <2>1. TilesNoted
    BY DEF Init, TilesNoted
  <2>2. shown = View(hist, tiles, clock)
    BY DEF Init
  <2> QED
    BY <2>1, <2>2 DEF ViewInv, ViewFollows
<1>2. IInv /\ ViewInv /\ [Steady]_vars => ViewInv'
  BY ViewSteps
<1>3. ViewInv => ViewFollows
  BY DEF ViewInv
<1> QED
  BY <1>1, <1>2, <1>3, Invariance, PTL DEF SteadySpec
=============================================================================
