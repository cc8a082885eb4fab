----------------------------- MODULE SoulProofs -----------------------------
(***************************************************************************)
(* Proofs about what a soul knows and what is matched in it.               *)
(*                                                                         *)
(* SoulMemory, for any souls, zones, cards, coverage and bounds: what a    *)
(* soul remembers is bounded, is what it left while it is away, and is     *)
(* untouched by the collector.                                             *)
(*                                                                         *)
(* Matcher, for any cards, recipes and worlds: the filter of the index     *)
(* skips no match, a match is the first place where its recipe holds, and  *)
(* what is matched in a zone that was left is what it was.                 *)
(***************************************************************************)
EXTENDS SoulMemory, Matcher, FiniteSetTheorems, SequenceTheorems,
        WellFoundedInduction, TLAPS

Entry == [known : BOOLEAN, card_ms : 0..MaxTime, zone_ms : 0..MaxTime, present : BOOLEAN]

\* A card has one version at an instant.
Keyed(rows) == \A row, other \in rows : row.time = other.time => row = other

Types ==
    /\ anchors \in [Soul -> Position \cup {NoPosition}]
    /\ soul_mem \in [Soul -> [Zone -> Entry]]
    /\ hist \in [Card -> SUBSET Version]
    /\ \A c \in Card : Keyed(hist[c])
    /\ clock \in 0..MaxTime

\* Where s stands it knows, and nowhere else is it present.
Presence ==
    \A s \in Soul : anchors[s] # NoPosition =>
        \A z \in Zone : Coverage[anchors[s]][z] > 0 <=> soul_mem[s][z].present

\* A full memory holds nothing but where the soul stands.
Bounded(mem) ==
    Cardinality(Known(mem)) > MaxMemory => \A z \in Known(mem) : mem[z].present

IInv == Types /\ Presence /\ \A s \in Soul : Bounded(soul_mem[s])

-----------------------------------------------------------------------------
\* Versions have a latest one: their stamps are bounded.

LEMMA LeastNat ==
    ASSUME NEW T \in SUBSET Nat, T # {}
    PROVE  \E x \in T : \A y \in T : x <= y
<1>1. PICK x \in T : \A y \in T : ~(<<y, x>> \in OpToRel(<, Nat))
  BY NatLessThanWellFounded, WFMin
<1>2. \A y \in T : ~(y < x)
  BY <1>1 DEF OpToRel
<1> QED
  BY <1>2

LEMMA LatestIs ==
    ASSUME NEW rows \in SUBSET Version, rows # {}
    PROVE  /\ Latest(rows) \in rows
           /\ \A other \in rows : other.time <= Latest(rows).time
<1> DEFINE ages == {MaxTime - row.time : row \in rows}
<1>1. ages \in SUBSET Nat /\ ages # {}
  <2>1. \A row \in rows : row.time \in 0..MaxTime
    BY DEF Version
  <2>2. \A row \in rows : MaxTime - row.time \in Nat
    BY <2>1, MemoryAssumption DEF MemoryAssumption
  <2> QED
    BY <2>2
<1>2. PICK age \in ages : \A other \in ages : age <= other
  BY <1>1, LeastNat
<1>3. PICK row \in rows : age = MaxTime - row.time
  BY <1>2
<1>4. \A other \in rows : other.time <= row.time
  <2> TAKE other \in rows
  <2>1. age <= MaxTime - other.time
    BY <1>2
  <2>2. row.time \in 0..MaxTime /\ other.time \in 0..MaxTime
    BY DEF Version
  <2> QED
    BY <1>3, <2>1, <2>2, MemoryAssumption DEF MemoryAssumption
<1> QED
  BY <1>4 DEF Latest

\* current() of the versions that a set keeps is what it was, if what it was is
\* kept.
LEMMA CurrentOfKept ==
    ASSUME NEW rows \in SUBSET Version, Keyed(rows),
           NEW kept \in SUBSET rows, NEW t \in Int,
           Current(rows, t) \subseteq kept
    PROVE  Current(kept, t) = Current(rows, t)
<1>1. CASE Upto(rows, t) = {}
  BY <1>1 DEF Current, Upto
<1>2. CASE Upto(rows, t) # {}
  <2> DEFINE last == Latest(Upto(rows, t))
             lastKept == Latest(Upto(kept, t))
  <2>1. Current(rows, t) = {last}
    BY <1>2 DEF Current
  <2>2. Upto(rows, t) \in SUBSET Version /\ Upto(kept, t) \in SUBSET Upto(rows, t)
    BY DEF Upto
  <2>3. last \in Upto(rows, t) /\ \A other \in Upto(rows, t) : other.time <= last.time
    BY <1>2, <2>2, LatestIs
  <2>4. last \in Upto(kept, t)
    BY <2>1, <2>3 DEF Upto
  <2>5. lastKept \in Upto(kept, t) /\ \A other \in Upto(kept, t) : other.time <= lastKept.time
    BY <2>2, <2>4, LatestIs
  <2> HIDE DEF last, lastKept
  <2>6. last.time = lastKept.time
    BY <2>2, <2>3, <2>4, <2>5 DEF Version
  <2>7. last = lastKept
    BY <2>2, <2>3, <2>5, <2>6 DEF Keyed, Upto
  <2> QED
    BY <2>1, <2>4, <2>7 DEF Current, lastKept
<1> QED
  BY <1>1, <1>2

-----------------------------------------------------------------------------
\* The collector.

LEMMA KeptSubset ==
    ASSUME NEW rows \in SUBSET Version
    PROVE  Kept(rows) \subseteq rows
<1>1. \A t : Current(rows, t) \subseteq rows
  <2> TAKE t
  <2>1. Upto(rows, t) \subseteq rows /\ Upto(rows, t) \in SUBSET Version
    BY DEF Upto
  <2> QED
    BY <2>1, LatestIs DEF Current
<1> QED
  BY <1>1 DEF Kept

LEMMA PromotedPinned ==
    ASSUME NEW rows \in SUBSET Version, NEW z, \A row \in rows : row.zone = z,
           rows # {}, clock \in Int
    PROVE  ZoneOf(rows) = z /\ PinnedZone(rows) = z
<1>1. Latest(rows) \in rows
  BY LatestIs
<1>2. Upto(rows, clock) # {} => Latest(Upto(rows, clock)) \in rows
  BY LatestIs DEF Upto
<1> QED
  BY <1>1, <1>2 DEF ZoneOf, PinnedZone

\* A collection changes neither what is in force from now on nor, for a card
\* that stayed in its zone, what was in force when a soul left.
LEMMA CollectorKeeps ==
    ASSUME NEW rows \in SUBSET Version, Keyed(rows), Settled(rows),
           clock \in 0..MaxTime, soul_mem \in [Soul -> [Zone -> Entry]]
    PROVE  /\ \A t \in clock..MaxTime : Current(Kept(rows), t) = Current(rows, t)
           /\ \A s \in Soul : View(s, Kept(rows)) = View(s, rows)
<1>0. clock \in Int /\ MaxTime \in Int
  BY MemoryAssumption DEF MemoryAssumption
<1>1. CASE Cardinality(rows) <= 1
  BY <1>1 DEF Kept
<1>2. CASE ~(Cardinality(rows) <= 1)
  <2>1. Kept(rows) = Current(rows, clock) \cup {row \in rows : row.time > clock}
                       \cup UNION {Current(rows, t) : t \in Pins(PinnedZone(rows))}
    BY <1>2 DEF Kept
  <2>2. Kept(rows) \in SUBSET rows
    BY KeptSubset
  <2>3. ASSUME NEW t \in clock..MaxTime
        PROVE  Current(Kept(rows), t) = Current(rows, t)
    <3>1. CASE Upto(rows, t) = {}
      BY <2>2, <3>1 DEF Current, Upto
    <3>2. CASE Upto(rows, t) # {}
      <4> DEFINE last == Latest(Upto(rows, t))
      <4>1. Upto(rows, t) \in SUBSET Version
        BY DEF Upto
      <4>2. last \in Upto(rows, t) /\ \A other \in Upto(rows, t) : other.time <= last.time
        BY <3>2, <4>1, LatestIs
      <4>3. Current(rows, t) = {last}
        BY <3>2 DEF Current
      <4> HIDE DEF last
      <4>4. last \in rows /\ last.time \in 0..MaxTime /\ last.time <= t
        BY <4>2 DEF Upto, Version
      <4>5. CASE last.time > clock
        <5>1. Current(rows, t) \subseteq Kept(rows)
          BY <2>1, <4>3, <4>4, <4>5
        <5> QED
          BY <1>0, <2>2, <5>1, CurrentOfKept
      <4>6. CASE ~(last.time > clock)
        <5>1. Upto(rows, t) = Upto(rows, clock)
          <6>1. \A row \in rows : row.time <= t => row.time <= clock
            <7> TAKE row \in rows
            <7> HAVE row.time <= t
            <7>1. row \in Upto(rows, t) /\ row.time \in 0..MaxTime
              BY DEF Upto, Version
            <7>2. row.time <= last.time
              BY <4>2, <7>1
            <7> QED
              BY <1>0, <4>4, <4>6, <7>1, <7>2
          <6>2. \A row \in rows : row.time <= clock => row.time <= t
            BY <1>0 DEF Version
          <6> QED
            BY <6>1, <6>2 DEF Upto
        <5>2. Current(rows, t) = Current(rows, clock)
          BY <5>1 DEF Current
        <5> QED
          BY <1>0, <2>1, <2>2, <5>2, CurrentOfKept
      <4> QED
        BY <4>5, <4>6
    <3> QED
      BY <3>1, <3>2
  <2>4. ASSUME NEW s \in Soul
        PROVE  View(s, Kept(rows)) = View(s, rows)
    <3>1. CASE rows = {}
      BY <2>2, <3>1
    <3>2. CASE rows # {}
      <4>1. Kept(rows) # {}
        <5>1. CASE Upto(rows, clock) = {}
          <6>1. \A row \in rows : row.time > clock
            BY <1>0, <5>1 DEF Upto, Version
          <6> QED
            BY <2>1, <3>2, <6>1
        <5>2. CASE Upto(rows, clock) # {}
          BY <2>1, <5>2 DEF Current
        <5> QED
          BY <5>1, <5>2
      <4>2. PICK z \in Zone : \A row \in rows : row.zone = z
        <5>1. PICK row \in rows : row.zone \in Zone
          BY <3>2 DEF Version
        <5> QED
          BY <5>1 DEF Settled
      <4>3. /\ ZoneOf(rows) = z /\ PinnedZone(rows) = z
            /\ ZoneOf(Kept(rows)) = z
        BY <1>0, <2>2, <3>2, <4>1, <4>2, PromotedPinned
      <4> DEFINE at == IF soul_mem[s][z].known THEN ViewTime(s, z) ELSE clock
      <4>4. View(s, rows) = Current(rows, at) /\ View(s, Kept(rows)) = Current(Kept(rows), at)
        BY <3>2, <4>1, <4>3 DEF View
      <4>5. at \in Int /\ Current(rows, at) \subseteq Kept(rows)
        <5>1. CASE soul_mem[s][z].known /\ ~soul_mem[s][z].present
          <6>1. at = soul_mem[s][z].card_ms
            BY <5>1 DEF ViewTime
          <6>2. at \in Int
            BY <1>0, <6>1 DEF Entry
          <6>3. at \in Pins(z)
            BY <5>1, <6>1 DEF Pins
          <6> HIDE DEF at
          <6> QED
            BY <2>1, <4>3, <6>2, <6>3
        <5>2. CASE ~(soul_mem[s][z].known /\ ~soul_mem[s][z].present)
          <6>1. at = clock
            BY <5>2 DEF ViewTime
          <6> QED
            BY <1>0, <2>1, <6>1
        <5> QED
          BY <5>1, <5>2
      <4> HIDE DEF at
      <4> QED
        BY <2>2, <4>4, <4>5, CurrentOfKept
    <3> QED
      BY <3>1, <3>2
  <2> QED
    BY <2>3, <2>4
<1> QED
  BY <1>1, <1>2

-----------------------------------------------------------------------------
\* The watermarks.

LEMMA Trimmed ==
    ASSUME NEW seen \in [Zone -> Entry], NEW V \in Forgettable(seen),
           NEW mem \in [Zone -> Entry],
           \A z \in Zone : mem[z] = IF z \in V THEN NoEntry ELSE seen[z]
    PROVE  /\ Bounded(mem)
           /\ \A z \in Zone : mem[z].present <=> seen[z].present /\ z \notin V
           /\ \A z \in V : ~seen[z].present
<1> DEFINE frozen == {z \in Known(seen) : ~seen[z].present}
           over == Max({0, Cardinality(Known(seen)) - MaxMemory})
<1>1. V \in SUBSET frozen /\ Cardinality(V) = Min({over, Cardinality(frozen)})
  BY DEF Forgettable
<1>2. Known(mem) = Known(seen) \ V
  BY <1>1 DEF Known, NoEntry
<1>3. \A z \in Zone : mem[z].present <=> seen[z].present /\ z \notin V
  BY DEF NoEntry
<1>4. Bounded(mem)
  <2>1. IsFiniteSet(Known(seen)) /\ IsFiniteSet(frozen)
    BY MemoryAssumption, FS_Subset DEF MemoryAssumption, Known
  <2>2. /\ Cardinality(Known(seen)) \in Nat /\ Cardinality(frozen) \in Nat
        /\ Cardinality(Known(mem)) = Cardinality(Known(seen)) - Cardinality(V)
    <3>1. Known(seen) \cap V = V
      BY <1>1
    <3> QED
      BY <1>2, <2>1, <3>1, FS_CardinalityType, FS_Difference
  <2>3. over \in Nat /\ over >= Cardinality(Known(seen)) - MaxMemory
    <3>1. Cardinality(Known(seen)) - MaxMemory \in Int
      BY <2>2, MemoryAssumption DEF MemoryAssumption
    <3> QED
      BY <3>1 DEF Max
  <2> HIDE DEF over, frozen
  <2>4. CASE over <= Cardinality(frozen)
    <3>1. Cardinality(V) = over
      BY <1>1, <2>2, <2>3, <2>4 DEF Min
    <3> QED
      BY <2>2, <2>3, <3>1, MemoryAssumption DEF Bounded, MemoryAssumption
  <2>5. CASE ~(over <= Cardinality(frozen))
    <3>1. Cardinality(V) = Cardinality(frozen)
      BY <1>1, <2>2, <2>3, <2>5 DEF Min
    <3>2. V = frozen
      BY <1>1, <2>1, <3>1, FS_Subset
    <3> QED
      BY <1>2, <1>3, <3>2 DEF Bounded, frozen, Known
  <2> QED
    BY <2>4, <2>5
<1> QED
  BY <1>1, <1>3, <1>4

LEMMA RememberedType ==
    ASSUME Types, NEW s \in Soul, NEW z \in Zone
    PROVE  Remembered(s, z) \in Entry
<1>1. soul_mem[s][z] \in Entry /\ clock \in 0..MaxTime
  BY DEF Types
<1>2. CASE Tier(s, z) > 0
  <2> DEFINE e == soul_mem[s][z]
             card_ms == IF Tier(s, z) >= Hot \/ ~e.known THEN clock ELSE e.card_ms
  <2>1. card_ms \in 0..MaxTime
    BY <1>1 DEF Entry
  <2>2. Remembered(s, z) = [known |-> TRUE, zone_ms |-> clock, present |-> TRUE,
                            card_ms |-> card_ms]
    BY <1>2 DEF Remembered
  <2> HIDE DEF card_ms
  <2> QED
    BY <1>1, <2>1, <2>2 DEF Entry
<1>3. CASE ~(Tier(s, z) > 0)
  <2>1. Remembered(s, z) = [soul_mem[s][z] EXCEPT !.present = FALSE]
    BY <1>3 DEF Remembered
  <2> QED
    BY <1>1, <2>1 DEF Entry
<1> QED
  BY <1>2, <1>3

LEMMA UpdateMemoryPreserves ==
    ASSUME IInv, anchors' \in [Soul -> Position \cup {NoPosition}], UpdateMemory,
           UNCHANGED <<hist, clock>>,
           \A s \in Soul : anchors'[s] = NoPosition => anchors[s] = NoPosition
    PROVE  IInv'
<1> DEFINE seen == [s \in Soul |-> IF anchors'[s] = NoPosition THEN soul_mem[s]
                                   ELSE [z \in Zone |-> Remembered(s, z)]]
<1>1. PICK forgotten \in [Soul -> SUBSET Zone] :
        /\ \A s \in Soul : forgotten[s] \in Forgettable(seen[s])
        /\ soul_mem' = [s \in Soul |-> [z \in Zone |-> IF z \in forgotten[s] THEN NoEntry
                                                      ELSE seen[s][z]]]
  BY DEF UpdateMemory
<1>2. \A s \in Soul : seen[s] \in [Zone -> Entry]
  BY RememberedType DEF IInv, Types
<1>3. NoEntry \in Entry
  BY MemoryAssumption DEF NoEntry, Entry, MemoryAssumption
<1>4. \A s \in Soul, z \in Zone : anchors'[s] # NoPosition =>
        (Coverage[anchors'[s]][z] > 0 <=> seen[s][z].present)
  <2> TAKE s \in Soul, z \in Zone
  <2> HAVE anchors'[s] # NoPosition
  <2>1. seen[s][z] = Remembered(s, z) /\ Tier(s, z) = Coverage[anchors'[s]][z]
    BY DEF Tier
  <2>2. soul_mem[s][z] \in Entry
    BY DEF IInv, Types
  <2> HIDE DEF seen
  <2> QED
    BY <2>1, <2>2 DEF Remembered, Entry
<1> HIDE DEF seen
<1>5. soul_mem' \in [Soul -> [Zone -> Entry]]
  <2>1. \A s \in Soul, z \in Zone :
          (IF z \in forgotten[s] THEN NoEntry ELSE seen[s][z]) \in Entry
    BY <1>2, <1>3
  <2> QED
    BY <1>1, <2>1
<1>6. ASSUME NEW s \in Soul
      PROVE  /\ Bounded(soul_mem'[s])
             /\ \A z \in Zone : soul_mem'[s][z].present <=> seen[s][z].present /\ z \notin forgotten[s]
             /\ \A z \in forgotten[s] : ~seen[s][z].present
  <2> DEFINE V == forgotten[s]
             mem == soul_mem'[s]
             before == seen[s]
  <2>1. mem \in [Zone -> Entry] /\ before \in [Zone -> Entry]
    BY <1>2, <1>5
  <2>2. V \in Forgettable(before)
    BY <1>1
  <2>3. \A z \in Zone : mem[z] = IF z \in V THEN NoEntry ELSE before[z]
    BY <1>1
  <2> HIDE DEF V, mem, before
  <2>4. /\ Bounded(mem)
        /\ \A z \in Zone : mem[z].present <=> before[z].present /\ z \notin V
        /\ \A z \in V : ~before[z].present
    BY <2>1, <2>2, <2>3, Trimmed
  <2> QED
    BY <2>4 DEF V, mem, before
<1>7. Types'
  BY <1>5 DEF IInv, Types
<1>8. Presence'
  BY <1>4, <1>6 DEF Presence
<1> QED
  BY <1>6, <1>7, <1>8 DEF IInv

LEMMA GcPreserves == ASSUME IInv, Gc PROVE IInv'
<1>1. hist' = [c \in Card |-> Kept(hist[c])] /\ UNCHANGED <<anchors, soul_mem, clock>>
  BY DEF Gc
<1>2. \A c \in Card : Kept(hist[c]) \subseteq hist[c] /\ hist[c] \in SUBSET Version
  BY KeptSubset DEF IInv, Types
<1>3. hist' \in [Card -> SUBSET Version] /\ \A c \in Card : Keyed(hist'[c])
  BY <1>1, <1>2 DEF IInv, Types, Keyed
<1> QED
  BY <1>1, <1>3 DEF IInv, Types, Presence

LEMMA RowArrivesPreserves ==
    ASSUME IInv, NEW c \in Card, NEW row \in Version, RowArrives(c, row) PROVE IInv'
<1> DEFINE rows == {r \in hist[c] : r.time # row.time} \cup {row}
<1>1. hist' = [hist EXCEPT ![c] = rows] /\ UNCHANGED <<anchors, soul_mem, clock>>
  BY DEF RowArrives
<1>2. rows \in SUBSET Version /\ Keyed(rows)
  BY DEF IInv, Types, Keyed
<1> HIDE DEF rows
<1>3. hist' \in [Card -> SUBSET Version] /\ \A d \in Card : Keyed(hist'[d])
  BY <1>1, <1>2 DEF IInv, Types
<1> QED
  BY <1>1, <1>3 DEF IInv, Types, Presence

LEMMA RowDeletedPreserves ==
    ASSUME IInv, NEW c \in Card, NEW row, RowDeleted(c, row) PROVE IInv'
<1>1. hist' = [hist EXCEPT ![c] = @ \ {row}] /\ UNCHANGED <<anchors, soul_mem, clock>>
  BY DEF RowDeleted
<1>2. hist' \in [Card -> SUBSET Version] /\ \A d \in Card : Keyed(hist'[d])
  BY <1>1 DEF IInv, Types, Keyed
<1> QED
  BY <1>1, <1>2 DEF IInv, Types, Presence

-----------------------------------------------------------------------------

\* In every reachable state the variables have their types, a soul is present
\* exactly where its anchor reaches, and a full memory is all presence.
THEOREM Invariance == Spec => []IInv
<1>1. Init => IInv
  <2> SUFFICES ASSUME Init PROVE IInv
    OBVIOUS
  <2>1. NoEntry \in Entry /\ 0 \in 0..MaxTime
    BY MemoryAssumption DEF NoEntry, Entry, MemoryAssumption
  <2>2. Types
    BY <2>1 DEF Init, Types, Keyed
  <2>3. \A s \in Soul : Known(soul_mem[s]) = {}
    BY DEF Init, Known, NoEntry
  <2> QED
    BY <2>2, <2>3 DEF Init, IInv, Presence, Bounded
<1>2. IInv /\ [Next]_vars => IInv'
  <2> SUFFICES ASSUME IInv, [Next]_vars PROVE IInv'
    OBVIOUS
  <2>1. ASSUME NEW s \in Soul, NEW p \in Position, SetAnchor(s, p) PROVE IInv'
    <3>1. /\ anchors' \in [Soul -> Position \cup {NoPosition}]
          /\ \A t \in Soul : anchors'[t] = NoPosition => anchors[t] = NoPosition
      BY <2>1, MemoryAssumption DEF SetAnchor, IInv, Types, MemoryAssumption
    <3> QED
      BY <2>1, <3>1, UpdateMemoryPreserves DEF SetAnchor
  <2>2. CASE Recompute
    BY <2>2, UpdateMemoryPreserves DEF Recompute, IInv, Types
  <2>3. CASE Gc
    BY <2>3, GcPreserves
  <2>4. ASSUME NEW c \in Card, NEW row \in Version, RowArrives(c, row) PROVE IInv'
    BY <2>4, RowArrivesPreserves
  <2>5. ASSUME NEW c \in Card, NEW row \in hist[c], RowDeleted(c, row) PROVE IInv'
    BY <2>5, RowDeletedPreserves
  <2>6. ASSUME NEW t \in 0..MaxTime, ClockMoves(t) PROVE IInv'
    BY <2>6 DEF ClockMoves, IInv, Types, Presence
  <2>7. CASE UNCHANGED vars
    BY <2>7 DEF vars, IInv, Types, Presence
  <2> QED
    BY <2>1, <2>2, <2>3, <2>4, <2>5, <2>6, <2>7 DEF Next
<1> QED
  BY <1>1, <1>2, PTL DEF Spec

\* enforce_memory_lru keeps what a soul remembers within max_memory_zones, and
\* never forgets a zone the soul stands in, however many zones it has passed.
THEOREM MemoryStaysBounded == Spec => []MemoryBounded
<1>1. IInv => MemoryBounded
  BY DEF IInv, Types, Entry, Keyed, Presence, Bounded, MemoryBounded, TypeOK
<1> QED
  BY <1>1, Invariance, PTL

\* update_memory leaves the watermark of a zone alone that is not covered.
LEMMA WatermarkStays ==
    ASSUME Types, UpdateMemory, NEW s \in Soul, NEW z \in Zone, Away(s, z)'
    PROVE  soul_mem'[s][z].card_ms = soul_mem[s][z].card_ms
<1> DEFINE seen == [t \in Soul |-> IF anchors'[t] = NoPosition THEN soul_mem[t]
                                   ELSE [y \in Zone |-> Remembered(t, y)]]
<1>1. PICK forgotten \in [Soul -> SUBSET Zone] :
        soul_mem' = [t \in Soul |-> [y \in Zone |-> IF y \in forgotten[t] THEN NoEntry
                                                    ELSE seen[t][y]]]
  BY DEF UpdateMemory
<1>2. soul_mem'[s][z] = seen[s][z]
  BY <1>1 DEF NoEntry, Away
<1>3. seen[s][z] = soul_mem[s][z] \/ seen[s][z] = Remembered(s, z)
  OBVIOUS
<1> HIDE DEF seen
<1>4. CASE soul_mem'[s][z] = Remembered(s, z)
  <2>1. Remembered(s, z) = [soul_mem[s][z] EXCEPT !.present = FALSE]
    BY <1>4 DEF Remembered, Away
  <2>2. soul_mem[s][z] \in Entry
    BY DEF Types
  <2> QED
    BY <1>4, <2>1, <2>2 DEF Entry
<1> QED
  BY <1>2, <1>3, <1>4

\* What is read of a card in a zone that was left depends on its versions up to
\* the watermark alone.
LEMMA ReadAtWatermark ==
    ASSUME NEW s \in Soul, NEW z \in Zone, Away(s, z),
           NEW rows \in SUBSET Version, \A row \in rows : row.zone = z
    PROVE  View(s, rows) = Current(rows, soul_mem[s][z].card_ms)
<1>1. CASE rows = {}
  BY <1>1 DEF View, Current, Upto
<1>2. CASE rows # {}
  <2>1. ZoneOf(rows) = z
    BY <1>2, LatestIs DEF ZoneOf
  <2> QED
    BY <1>2, <2>1 DEF View, ViewTime, Away
<1> QED
  BY <1>1, <1>2

\* The retained rows are the soul's memory of a zone it has left: a card that
\* stays there reads as it did, whatever is collected, arrives later or moves.
THEOREM MemoryIsWhatWasLeft == Spec => RemembersAsLeft
<1> DEFINE AsLeft == \A s \in Soul, c \in Card, z \in Zone :
        (/\ hist[c] # {} /\ z = ZoneOf(hist[c]) /\ Settled(hist[c] \cup hist'[c])
         /\ Away(s, z) /\ Away(s, z)'
         /\ Gc \/ Upto(hist'[c], soul_mem[s][z].card_ms) = Upto(hist[c], soul_mem[s][z].card_ms))
            => View(s, hist[c])' = View(s, hist[c])
<1>1. IInv /\ IInv' /\ [Next]_vars => AsLeft
  <2> SUFFICES ASSUME IInv, IInv', [Next]_vars, NEW s \in Soul, NEW c \in Card, NEW z \in Zone,
                      hist[c] # {}, z = ZoneOf(hist[c]), Settled(hist[c] \cup hist'[c]),
                      Away(s, z), Away(s, z)',
                      Gc \/ Upto(hist'[c], soul_mem[s][z].card_ms)
                              = Upto(hist[c], soul_mem[s][z].card_ms)
               PROVE  View(s, hist[c])' = View(s, hist[c])
    OBVIOUS
  <2>1. hist[c] \in SUBSET Version /\ hist'[c] \in SUBSET Version
    BY DEF IInv, Types
  <2>2. \A row \in hist[c] \cup hist'[c] : row.zone = z
    <3>1. Latest(hist[c]) \in hist[c]
      BY <2>1, LatestIs
    <3> QED
      BY <3>1 DEF ZoneOf, Settled
  <2>3. CASE Gc
    <3>1. hist'[c] = Kept(hist[c]) /\ soul_mem' = soul_mem /\ clock' = clock
      BY <2>3 DEF Gc
    <3>2. /\ Keyed(hist[c]) /\ Settled(hist[c])
          /\ clock \in 0..MaxTime /\ soul_mem \in [Soul -> [Zone -> Entry]]
      BY DEF IInv, Types, Settled
    <3>3. View(s, Kept(hist[c])) = View(s, hist[c])
      BY <2>1, <3>2, CollectorKeeps
    <3>4. View(s, hist[c])' = View(s, Kept(hist[c]))
      BY <3>1 DEF View, ViewTime
    <3> QED
      BY <3>3, <3>4
  <2>4. CASE ~Gc
    <3>1. soul_mem'[s][z].card_ms = soul_mem[s][z].card_ms
      <4>1. CASE UpdateMemory
        BY <4>1, WatermarkStays DEF IInv
      <4>2. CASE UNCHANGED soul_mem
        BY <4>2
      <4> QED
        BY <4>1, <4>2
           DEF Next, vars, SetAnchor, Recompute, Gc, RowArrives, RowDeleted, ClockMoves
    <3>2. View(s, hist[c]) = Current(hist[c], soul_mem[s][z].card_ms)
      BY <2>1, <2>2, ReadAtWatermark
    <3>3. View(s, hist[c])' = Current(hist'[c], soul_mem'[s][z].card_ms)
      <4>1. CASE hist'[c] = {}
        BY <4>1 DEF View, Current, Upto
      <4>2. CASE hist'[c] # {}
        <5>1. ZoneOf(hist'[c]) = z
          BY <2>1, <2>2, <4>2, LatestIs DEF ZoneOf
        <5> QED
          BY <4>2, <5>1 DEF View, ViewTime, Away
      <4> QED
        BY <4>1, <4>2
    <3>4. Upto(hist'[c], soul_mem[s][z].card_ms) = Upto(hist[c], soul_mem[s][z].card_ms)
      BY <2>4
    <3> QED
      BY <3>1, <3>2, <3>3, <3>4 DEF Current
  <2> QED
    BY <2>3, <2>4
<1> QED
  BY <1>1, Invariance, PTL DEF Spec, RemembersAsLeft

\* Client::gc is invisible: it takes no version that is in force now or later,
\* nor, of a card that stayed in its zone, the version any soul remembers.
THEOREM CollectionInvisible == Spec => GcIsInvisible
<1> DEFINE Invisible == Gc => \A c \in Card : Settled(hist[c]) =>
            /\ \A s \in Soul : View(s, hist[c])' = View(s, hist[c])
            /\ \A t \in clock..MaxTime : Current(hist'[c], t) = Current(hist[c], t)
<1>1. IInv => Invisible
  <2> SUFFICES ASSUME IInv, Gc, NEW c \in Card, Settled(hist[c])
               PROVE  /\ \A s \in Soul : View(s, hist[c])' = View(s, hist[c])
                      /\ \A t \in clock..MaxTime : Current(hist'[c], t) = Current(hist[c], t)
    OBVIOUS
  <2>1. hist'[c] = Kept(hist[c]) /\ soul_mem' = soul_mem /\ clock' = clock
    BY DEF Gc
  <2>2. /\ hist[c] \in SUBSET Version /\ Keyed(hist[c])
        /\ clock \in 0..MaxTime /\ soul_mem \in [Soul -> [Zone -> Entry]]
    BY DEF IInv, Types
  <2>3. /\ \A t \in clock..MaxTime : Current(Kept(hist[c]), t) = Current(hist[c], t)
        /\ \A s \in Soul : View(s, Kept(hist[c])) = View(s, hist[c])
    BY <2>2, CollectorKeeps
  <2>4. \A s \in Soul : View(s, hist[c])' = View(s, Kept(hist[c]))
    BY <2>1 DEF View, ViewTime
  <2> QED
    BY <2>1, <2>3, <2>4
<1> QED
  BY <1>1, Invariance, PTL DEF Spec, GcIsInvisible

-----------------------------------------------------------------------------
\* What the matcher makes of a stack.

\* f tells which of the first m cards of s are free.
IsFree(f, s, held, m) ==
    f = [n \in 0..m |-> IF n = 0 THEN <<>>
                        ELSE IF s[n] \in held THEN f[n - 1] ELSE Append(f[n - 1], s[n])]

LEMMA FreeExists ==
    ASSUME NEW s, NEW held, NEW m \in Nat PROVE \E f : IsFree(f, s, held, m)
<1> DEFINE T == {n \in Nat : ~\E f : IsFree(f, s, held, n)}
<1>1. SUFFICES ASSUME T # {} PROVE FALSE
  OBVIOUS
<1>2. PICK k \in T : \A n \in T : k <= n
  BY <1>1, LeastNat
<1>3. CASE k = 0
  <2>1. IsFree([n \in 0..0 |-> <<>>], s, held, 0)
    BY DEF IsFree
  <2> QED
    BY <1>3, <2>1
<1>4. CASE k # 0
  <2>1. k \in Nat /\ k - 1 \in Nat /\ ~(k <= k - 1)
    BY <1>4
  <2>2. PICK g : IsFree(g, s, held, k - 1)
    BY <1>2, <2>1
  <2>3. \A n \in 0..k - 1 :
          g[n] = IF n = 0 THEN <<>>
                 ELSE IF s[n] \in held THEN g[n - 1] ELSE Append(g[n - 1], s[n])
    BY <2>1, <2>2 DEF IsFree
  <2> DEFINE f == [n \in 0..k |->
                     IF n = k THEN IF s[k] \in held THEN g[k - 1] ELSE Append(g[k - 1], s[k])
                     ELSE g[n]]
  <2>4. \A n \in 0..k :
          f[n] = IF n = 0 THEN <<>>
                 ELSE IF s[n] \in held THEN f[n - 1] ELSE Append(f[n - 1], s[n])
    BY <2>1, <2>3
  <2>5. IsFree(f, s, held, k)
    BY <2>4 DEF IsFree
  <2> QED
    BY <1>2, <2>5
<1> QED
  BY <1>3, <1>4

LEMMA FreeType ==
    ASSUME NEW S, NEW s \in Seq(S), NEW held PROVE Free(s, held) \in Seq(S)
<1> DEFINE f == CHOOSE g : IsFree(g, s, held, Len(s))
<1>1. IsFree(f, s, held, Len(s)) /\ Len(s) \in Nat
  <2>1. Len(s) \in Nat
    OBVIOUS
  <2>2. \E g : IsFree(g, s, held, Len(s))
    BY <2>1, FreeExists
  <2> QED
    BY <2>1, <2>2
<1>2. Free(s, held) = f[Len(s)]
  BY DEF Free, IsFree
<1> DEFINE T == {n \in 0..Len(s) : f[n] \notin Seq(S)}
<1>3. T = {}
  <2> SUFFICES ASSUME T # {} PROVE FALSE
    OBVIOUS
  <2>1. PICK k \in T : \A n \in T : k <= n
    <3>1. T \in SUBSET Nat
      BY <1>1
    <3> QED
      BY <3>1, LeastNat
  <2>2. \A n \in 0..Len(s) :
          f[n] = IF n = 0 THEN <<>>
                 ELSE IF s[n] \in held THEN f[n - 1] ELSE Append(f[n - 1], s[n])
    BY <1>1 DEF IsFree
  <2> HIDE DEF f
  <2>3. f[0] \in Seq(S)
    <3>1. 0 \in 0..Len(s) /\ <<>> \in Seq(S)
      BY <1>1
    <3>2. f[0] = <<>>
      BY <2>2, <3>1
    <3> QED
      BY <3>1, <3>2
  <2>4. k \in 1..Len(s) /\ k - 1 \in 0..Len(s) /\ k - 1 \notin T
    BY <1>1, <2>1, <2>3
  <2>5. f[k - 1] \in Seq(S) /\ s[k] \in S
    BY <2>4
  <2>6. f[k] = IF s[k] \in held THEN f[k - 1] ELSE Append(f[k - 1], s[k])
    BY <2>2, <2>4
  <2>7. f[k] \in Seq(S)
    BY <2>5, <2>6
  <2> QED
    BY <2>1, <2>7
<1> QED
  BY <1>1, <1>2, <1>3

LEMMA BranchType ==
    ASSUME NEW w \in World, NEW b \in 0..3 PROVE Branch(w, b) \in Seq(Member)
<1>1. CASE b = 0
  BY <1>1 DEF Branch
<1>2. CASE b # 0
  <2>1. Viewed(w) \in Moment
    BY DEF Viewed, World
  <2>2. b \in 1..3
    BY <1>2
  <2>3. Viewed(w).stack[b] \in Seq(Stackable)
    BY <2>1, <2>2 DEF Moment
  <2>4. Branch(w, b) \in Seq(Stackable)
    BY <1>2, <2>3, FreeType DEF Branch
  <2> QED
    BY <2>4 DEF Member
<1> QED
  BY <1>1, <1>2

LEMMA PromotedType ==
    ASSUME NEW w \in World, NEW p
    PROVE  /\ PromoteRoot(w, p) \in [0..3 -> Seq(Member)]
           /\ PromoteRoot(w, p)[0] = <<>>
           /\ \A b \in 1..3 : PromoteRoot(w, p)[b] = Laid(w, p, b)
           /\ \A b \in 1..3 : b # p => PromoteRoot(w, p)[b] = Branch(w, b)
<1>1. \A b \in 0..3 : Branch(w, b) \in Seq(Member)
  BY BranchType
<1>2. Root \in Member
  BY DEF Member
<1>3. \A b \in 0..3 : (<<Root>> \o Branch(w, b)) \in Seq(Member)
  BY <1>1, <1>2
<1>4. \A b \in 0..3 : <<>> \o Branch(w, b) = Branch(w, b)
  BY <1>1
<1>5. PromoteRoot(w, p) \in [0..3 -> Seq(Member)]
  BY <1>1, <1>3 DEF PromoteRoot
<1>6. ASSUME NEW b \in 1..3 PROVE PromoteRoot(w, p)[b] = Laid(w, p, b)
  <2>1. b \in 0..3 /\ (b = p => p # 0)
    OBVIOUS
  <2>2. CASE b = p
    BY <2>1, <2>2 DEF PromoteRoot, Laid
  <2>3. CASE b # p
    BY <1>4, <2>1, <2>3 DEF PromoteRoot, Laid
  <2> QED
    BY <2>2, <2>3
<1>7. PromoteRoot(w, p)[0] = <<>>
  BY DEF PromoteRoot, Branch
<1>8. ASSUME NEW b \in 1..3, b # p PROVE PromoteRoot(w, p)[b] = Branch(w, b)
  BY <1>8 DEF PromoteRoot
<1> QED
  BY <1>5, <1>6, <1>7, <1>8

-----------------------------------------------------------------------------
\* What the index knows of a recipe.

LEMMA SlotsType ==
    ASSUME NEW r \in Seq(Line), NEW s \in Slots(r)
    PROVE  /\ s \in Seq(Step) /\ Len(s) \in {1, 2}
           /\ s[1] \in Step /\ s[1][1] \in 0..3 /\ s[1][2] \in 0..254
           /\ Len(s) = 2 => s[2] \in Step /\ s[2][1] \in 0..3 /\ s[2][2] \in 0..254
<1>1. PICK i \in DOMAIN r : \E x \in r[i].reads : s = x.slot
  BY DEF Slots, Reads
<1>2. r[i] \in Line
  BY <1>1
<1>3. s \in Slot
  BY <1>1, <1>2 DEF Line
<1>4. s \in Seq(Step) /\ Len(s) \in {1, 2}
  BY <1>3 DEF Slot
<1>5. s[1] \in Step /\ (Len(s) = 2 => s[2] \in Step)
  BY <1>4
<1> QED
  BY <1>4, <1>5 DEF Step

\* The span of a stack is one more than the largest offset read in it.
LEMMA SpanBounds ==
    ASSUME NEW r \in Seq(Line), NEW b
    PROVE  /\ BranchSpan(r, b) \in Nat
           /\ \A s \in Slots(r) : s[1][1] = b => s[1][2] < BranchSpan(r, b)
           /\ b \notin WantBranches(r) /\ b # 0 => BranchSpan(r, b) = 0
           /\ b \in WantBranches(r) => BranchSpan(r, b) > 0
<1> DEFINE T == {0} \cup {s[1][2] + 1 : s \in {s \in Slots(r) : s[1][1] = b}}
           U == {n \in Nat : \E x \in T : n = 255 - x}
<1>1. ASSUME NEW x \in T PROVE x \in 0..255
  <2>1. CASE x = 0
    BY <2>1
  <2>2. CASE x # 0
    <3>1. PICK s \in Slots(r) : x = s[1][2] + 1
      BY <2>2
    <3>2. s[1][2] \in 0..254
      BY SlotsType
    <3>3. PICK o \in 0..254 : x = o + 1
      BY <3>1, <3>2
    <3> HIDE DEF T
    <3> QED
      BY <3>3
  <2> QED
    BY <2>1, <2>2
<1>2. PICK n \in U : \A m \in U : n <= m
  <2>1. 255 - 0 \in U
    OBVIOUS
  <2>2. U \in SUBSET Nat /\ U # {}
    BY <2>1
  <2> HIDE DEF U
  <2> QED
    BY <2>2, LeastNat
<1>3. PICK x \in T : n = 255 - x
  OBVIOUS
<1>4. ASSUME NEW y \in T PROVE x >= y
  <2>1. y \in 0..255 /\ x \in 0..255
    BY <1>1
  <2> HIDE DEF T
  <2>2. 255 - y \in Nat
    BY <2>1
  <2>3. 255 - y \in U
    BY <2>2
  <2> HIDE DEF U
  <2>4. n <= 255 - y
    BY <1>2, <2>3
  <2> QED
    BY <1>3, <2>1, <2>4
<1>5. BranchSpan(r, b) = Max(T)
  BY DEF BranchSpan
<1> DEFINE m == Max(T)
<1>6. m \in T /\ \A y \in T : m >= y
  BY <1>4 DEF Max
<1> HIDE DEF m
<1>7. m \in 0..255
  BY <1>1, <1>6
<1>8. ASSUME NEW s \in Slots(r), s[1][1] = b PROVE s[1][2] < m /\ m > 0
  <2> DEFINE o == s[1][2]
  <2>1. o \in 0..254
    BY SlotsType
  <2>2. o + 1 \in T
    BY <1>8
  <2>3. m >= o + 1
    BY <1>6, <2>2
  <2> HIDE DEF o
  <2>4. o < m /\ m > 0
    BY <1>7, <2>1, <2>3
  <2> QED
    BY <2>4 DEF o
<1>9. b \notin WantBranches(r) /\ b # 0 => m = 0
  <2>1. b \notin WantBranches(r) /\ b # 0 => T = {0}
    BY DEF WantBranches
  <2> QED
    BY <1>6, <2>1
<1>10. b \in WantBranches(r) => \E s \in Slots(r) : s[1][1] = b
  BY DEF WantBranches
<1>11. BranchSpan(r, b) = m
  BY <1>5 DEF m
<1> HIDE DEF T
<1>12. m \in Nat
  BY <1>7
<1> QED
  BY <1>8, <1>9, <1>10, <1>11, <1>12

-----------------------------------------------------------------------------
\* Where a recipe can be laid.

\* Every stack the recipe reads has as many cards as it reads there.
Fits(r, w, p, k2, k3) ==
    /\ p \in Passes(r) /\ k2 \in Nat /\ k3 \in Nat
    /\ IF 2 \in WantBranches(r) THEN k2 + BranchSpan(r, 2) <= Len(Laid(w, p, 2)) ELSE k2 = 0
    /\ IF 3 \in WantBranches(r) THEN k3 + BranchSpan(r, 3) <= Len(Laid(w, p, 3)) ELSE k3 = 0
    /\ 1 \in WantBranches(r) => Branch(w, 1) # <<>> \/ HasSynthetic(w)

LEMMA LaidType ==
    ASSUME NEW w \in World, NEW p, NEW b \in 1..3
    PROVE  /\ Laid(w, p, b) \in Seq(Member) /\ Len(Laid(w, p, b)) \in Nat
           /\ Len(Branch(w, b)) \in Nat
           /\ Len(Laid(w, p, b)) <= Len(Branch(w, b)) + 1
           /\ b # p => Laid(w, p, b) = Branch(w, b)
<1>1. Branch(w, b) \in Seq(Member) /\ Root \in Member
  BY BranchType DEF Member
<1>2. CASE p = b
  <2>1. Laid(w, p, b) = <<Root>> \o Branch(w, b)
    BY <1>2 DEF Laid
  <2>2. Len(<<Root>> \o Branch(w, b)) = 1 + Len(Branch(w, b))
    BY <1>1
  <2> QED
    BY <1>1, <1>2, <2>1, <2>2
<1>3. CASE p # b
  <2>1. Laid(w, p, b) = Branch(w, b)
    BY <1>1, <1>3 DEF Laid
  <2> QED
    BY <1>1, <1>3, <2>1
<1> QED
  BY <1>2, <1>3

\* The root is never promoted to the hex stack.
LEMMA HexUnmoved ==
    ASSUME NEW r, NEW w \in World, NEW p, NEW k2, NEW k3, Fits(r, w, p, k2, k3)
    PROVE  Laid(w, p, 1) = Branch(w, 1)
<1>1. p # 1
  BY DEF Fits, Passes
<1> QED
  BY <1>1, LaidType

LEMMA StartsFit ==
    ASSUME NEW r \in Seq(Line), NEW w \in World, NEW p, NEW b \in {2, 3}, NEW k
    PROVE  (/\ k \in Starts(Len(Laid(w, p, b)), BranchSpan(r, b))
            /\ b \in WantBranches(r) => Laid(w, p, b) # <<>>)
           <=> (/\ k \in Nat
                /\ IF b \in WantBranches(r) THEN k + BranchSpan(r, b) <= Len(Laid(w, p, b))
                                            ELSE k = 0)
<1> DEFINE span == BranchSpan(r, b)
           len == Len(Laid(w, p, b))
<1>5. b \in 1..3 /\ b # 0
  OBVIOUS
<1>6. span \in Nat
  BY SpanBounds
<1>7. len \in Nat
  BY <1>5, LaidType
<1>1. span \in Nat /\ len \in Nat /\ b # 0
  BY <1>5, <1>6, <1>7
<1>2. Laid(w, p, b) = <<>> <=> len = 0
  <2>1. Laid(w, p, b) \in Seq(Member)
    BY <1>5, LaidType
  <2> QED
    BY <2>1
<1>3. CASE b \in WantBranches(r)
  <2>1. span > 0
    BY <1>3, SpanBounds
  <2>2. Starts(len, span) = 0..len - span
    BY <1>1, <2>1 DEF Starts
  <2> HIDE DEF span, len
  <2>3. k \in 0..len - span /\ len # 0 <=> k \in Nat /\ k + span <= len
    BY <1>1, <2>1
  <2> QED
    BY <1>2, <1>3, <2>2, <2>3 DEF span, len
<1>4. CASE b \notin WantBranches(r)
  <2>1. span = 0
    BY <1>1, <1>4, SpanBounds
  <2>2. Starts(len, span) = {0}
    BY <2>1 DEF Starts
  <2> QED
    BY <1>4, <2>2
<1> QED
  BY <1>3, <1>4

LEMMA WantedAre ==
    ASSUME NEW r \in Seq(Line) PROVE WantBranches(r) \subseteq 1..3
<1> SUFFICES ASSUME NEW b \in WantBranches(r) PROVE b \in 1..3
  OBVIOUS
<1>1. PICK s \in Slots(r) : b = s[1][1]
  BY DEF WantBranches
<1>2. b \in 0..3
  BY <1>1, SlotsType
<1>3. b # 0
  BY DEF WantBranches
<1> QED
  BY <1>2, <1>3

LEMMA LayoutsFit ==
    ASSUME NEW r \in Seq(Line), NEW w \in World, NEW l
    PROVE  l \in Layouts(r, w) <=> \E p, k2, k3 : l = <<p, k2, k3>> /\ Fits(r, w, p, k2, k3)
<1> DEFINE L(p) == {p} \X Starts(Len(PromoteRoot(w, p)[2]), BranchSpan(r, 2))
                      \X Starts(Len(PromoteRoot(w, p)[3]), BranchSpan(r, 3))
           A(p) == AnchorsFit(r, PromoteRoot(w, p), HasSynthetic(w))
<1>1. l \in Layouts(r, w) <=> \E p \in Passes(r) : A(p) /\ l \in L(p)
  BY DEF Layouts
<1>2. ASSUME NEW p \in Passes(r)
      PROVE  (A(p) /\ l \in L(p)) <=> \E k2, k3 : l = <<p, k2, k3>> /\ Fits(r, w, p, k2, k3)
  <2>1. \A b \in 1..3 : PromoteRoot(w, p)[b] = Laid(w, p, b)
    BY PromotedType
  <2>2. Laid(w, p, 1) = Branch(w, 1)
    BY LaidType DEF Passes
  <2>3. L(p) = {p} \X Starts(Len(Laid(w, p, 2)), BranchSpan(r, 2))
                   \X Starts(Len(Laid(w, p, 3)), BranchSpan(r, 3))
    BY <2>1
  <2>4. A(p) <=> /\ 1 \in WantBranches(r) => Branch(w, 1) # <<>> \/ HasSynthetic(w)
                 /\ 2 \in WantBranches(r) => Laid(w, p, 2) # <<>>
                 /\ 3 \in WantBranches(r) => Laid(w, p, 3) # <<>>
    <3>1. \A b \in WantBranches(r) : b = 1 \/ b = 2 \/ b = 3
      BY WantedAre
    <3> QED
      BY <2>1, <2>2, <3>1 DEF AnchorsFit
  <2> HIDE DEF A, L
  <2>5. l \in L(p) <=> \E k2, k3 : /\ l = <<p, k2, k3>>
                                   /\ k2 \in Starts(Len(Laid(w, p, 2)), BranchSpan(r, 2))
                                   /\ k3 \in Starts(Len(Laid(w, p, 3)), BranchSpan(r, 3))
    BY <2>3
  <2>6. \A b \in {2, 3} : \A k :
           (/\ k \in Starts(Len(Laid(w, p, b)), BranchSpan(r, b))
            /\ b \in WantBranches(r) => Laid(w, p, b) # <<>>)
           <=> (/\ k \in Nat
                /\ IF b \in WantBranches(r) THEN k + BranchSpan(r, b) <= Len(Laid(w, p, b))
                                            ELSE k = 0)
    BY StartsFit
  <2>7. ASSUME NEW k2, NEW k3
        PROVE  (/\ A(p) /\ k2 \in Starts(Len(Laid(w, p, 2)), BranchSpan(r, 2))
                /\ k3 \in Starts(Len(Laid(w, p, 3)), BranchSpan(r, 3)))
               <=> Fits(r, w, p, k2, k3)
    BY <2>4, <2>6, ZenonT(30) DEF Fits
  <2> QED
    BY <2>5, <2>7
<1> HIDE DEF A, L
<1> QED
  BY <1>1, <1>2 DEF Fits

\* The stacks of a layout.
LEMMA WindowsAre ==
    ASSUME NEW r \in Seq(Line), NEW w \in World, NEW p, NEW k2, NEW k3, Fits(r, w, p, k2, k3)
    PROVE  LET v == WindowView(r, w, <<p, k2, k3>>)
           IN  /\ v[1] = Branch(w, 1)
               /\ v[2] = Window(Laid(w, p, 2), k2, BranchSpan(r, 2))
               /\ v[3] = Window(Laid(w, p, 3), k3, BranchSpan(r, 3))
<1> DEFINE l == <<p, k2, k3>>
<1>1. l[1] = p /\ l[2] = k2 /\ l[3] = k3
  OBVIOUS
<1> HIDE DEF l
<1> DEFINE f == PromoteRoot(w, l[1])
<1>2. f \in [0..3 -> Seq(Member)] /\ f[1] = Laid(w, p, 1) /\ f[2] = Laid(w, p, 2) /\ f[3] = Laid(w, p, 3)
  <2>1. f \in [0..3 -> Seq(Member)] /\ \A b \in 1..3 : f[b] = Laid(w, p, b)
    BY <1>1, PromotedType
  <2>2. 1 \in 1..3 /\ 2 \in 1..3 /\ 3 \in 1..3
    OBVIOUS
  <2> HIDE DEF f
  <2> QED
    BY <2>1, <2>2
<1>3. Laid(w, p, 1) = Branch(w, 1)
  BY HexUnmoved
<1> HIDE DEF f
<1>4. WindowView(r, w, l) = [f EXCEPT ![2] = Window(@, l[2], BranchSpan(r, 2)),
                                      ![3] = Window(@, l[3], BranchSpan(r, 3))]
  BY DEF WindowView, f
<1>5. /\ WindowView(r, w, l)[1] = f[1]
      /\ WindowView(r, w, l)[2] = Window(f[2], l[2], BranchSpan(r, 2))
      /\ WindowView(r, w, l)[3] = Window(f[3], l[3], BranchSpan(r, 3))
  BY <1>2, <1>4
<1> QED
  BY <1>1, <1>2, <1>3, <1>5 DEF l

LEMMA WindowShows ==
    ASSUME NEW r \in Seq(Line), NEW w \in World, NEW p, NEW b \in {2, 3}, NEW k \in Nat,
           b \in WantBranches(r), k + BranchSpan(r, b) <= Len(Laid(w, p, b)),
           NEW o \in Nat, o < BranchSpan(r, b)
    PROVE  LET v == Window(Laid(w, p, b), k, BranchSpan(r, b))
           IN  o < Len(v) /\ v[o + 1] = Laid(w, p, b)[k + o + 1] /\ k + o < Len(Laid(w, p, b))
<1> DEFINE span == BranchSpan(r, b)
           s == Laid(w, p, b)
<1>1. s \in Seq(Member) /\ Len(s) \in Nat /\ span \in Nat
  BY LaidType, SpanBounds
<1> HIDE DEF span, s
<1>2. o < span /\ k + span <= Len(s)
  BY DEF span, s
<1>3. span # 0 /\ k + 1 \in 1..Len(s) + 1 /\ k + span \in 0..Len(s) /\ k + 1 <= k + span /\ o + 1 \in 1..span
      /\ k + o < Len(s)
  BY <1>1, <1>2
<1>4. Window(s, k, span) = SubSeq(s, k + 1, k + span)
  BY <1>3 DEF Window
<1>5. Len(SubSeq(s, k + 1, k + span)) = span
  BY <1>1, <1>3
<1>6. SubSeq(s, k + 1, k + span)[o + 1] = s[k + o + 1]
  BY <1>1, <1>3
<1> QED
  BY <1>2, <1>3, <1>4, <1>5, <1>6 DEF span, s

\* The cards of the stack a slot is in.
LEMMA TopIsAt ==
    ASSUME NEW r \in Seq(Line), NEW w \in World, NEW p, NEW k2, NEW k3, Fits(r, w, p, k2, k3),
           NEW s \in Slots(r), s[1][1] # 0,
           NEW v, v = WindowView(r, w, <<p, k2, k3>>)
    PROVE  /\ s[1][1] \in 1..3
           /\ s[1][1] = 1 => v[1] = Branch(w, 1) /\ Laid(w, p, 1) = Branch(w, 1)
           /\ s[1][1] # 1 => /\ s[1][2] < Len(v[s[1][1]])
                             /\ LET k == <<0, k2, k3>>
                                    i == s[1][2] + k[s[1][1]] + 1
                                IN  /\ i <= Len(Laid(w, p, s[1][1])) /\ i \in 1..Len(Laid(w, p, s[1][1]))
                                    /\ v[s[1][1]][s[1][2] + 1] = Laid(w, p, s[1][1])[i]
<1> DEFINE b == s[1][1]
           o == s[1][2]
           k == <<0, k2, k3>>
<1>1. b \in 1..3 /\ o \in 0..254 /\ b \in WantBranches(r)
  BY SlotsType DEF WantBranches
<1>2. k[2] = k2 /\ k[3] = k3
  OBVIOUS
<1>3. o < BranchSpan(r, b)
  BY SpanBounds
<1>4. v[1] = Branch(w, 1) /\ Laid(w, p, 1) = Branch(w, 1)
  <2>1. v[1] = Branch(w, 1)
    BY WindowsAre
  <2>2. Laid(w, p, 1) = Branch(w, 1)
    BY HexUnmoved
  <2> QED
    BY <2>1, <2>2
<1> HIDE DEF b, o, k
<1>5. CASE b = 1
  BY <1>4, <1>5 DEF b
<1>6. CASE b = 2
  <2>1. k2 \in Nat /\ k2 + BranchSpan(r, 2) <= Len(Laid(w, p, 2)) /\ o \in Nat
    BY <1>1, <1>6 DEF Fits
  <2> DEFINE win == Window(Laid(w, p, 2), k2, BranchSpan(r, 2))
  <2>6. v[2] = win
    BY WindowsAre
  <2>7. 2 \in WantBranches(r) /\ o < BranchSpan(r, 2) /\ 2 \in {2, 3}
    BY <1>1, <1>3, <1>6
  <2>8. o < Len(win) /\ win[o + 1] = Laid(w, p, 2)[k2 + o + 1] /\ k2 + o < Len(Laid(w, p, 2))
    BY <2>1, <2>7, WindowShows
  <2>2. o < Len(v[2]) /\ v[2][o + 1] = Laid(w, p, 2)[k2 + o + 1] /\ k2 + o < Len(Laid(w, p, 2))
    BY <2>6, <2>8
  <2>3. o + k2 + 1 <= Len(Laid(w, p, 2)) /\ o + k2 + 1 \in 1..Len(Laid(w, p, 2)) /\ o + k2 + 1 = k2 + o + 1
    BY <2>1, <2>2, LaidType
  <2>4. k[b] = k2
    BY <1>2, <1>6
  <2>5. /\ o < Len(v[b]) /\ o + k[b] + 1 <= Len(Laid(w, p, b))
        /\ o + k[b] + 1 \in 1..Len(Laid(w, p, b))
        /\ v[b][o + 1] = Laid(w, p, b)[o + k[b] + 1]
    BY <1>6, <2>2, <2>3, <2>4
  <2> QED
    BY <1>1, <1>6, <2>5 DEF b, o, k
<1>7. CASE b = 3
  <2>1. k3 \in Nat /\ k3 + BranchSpan(r, 3) <= Len(Laid(w, p, 3)) /\ o \in Nat
    BY <1>1, <1>7 DEF Fits
  <2> DEFINE win == Window(Laid(w, p, 3), k3, BranchSpan(r, 3))
  <2>6. v[3] = win
    BY WindowsAre
  <2>7. 3 \in WantBranches(r) /\ o < BranchSpan(r, 3) /\ 3 \in {2, 3}
    BY <1>1, <1>3, <1>7
  <2>8. o < Len(win) /\ win[o + 1] = Laid(w, p, 3)[k3 + o + 1] /\ k3 + o < Len(Laid(w, p, 3))
    BY <2>1, <2>7, WindowShows
  <2>2. o < Len(v[3]) /\ v[3][o + 1] = Laid(w, p, 3)[k3 + o + 1] /\ k3 + o < Len(Laid(w, p, 3))
    BY <2>6, <2>8
  <2>3. o + k3 + 1 <= Len(Laid(w, p, 3)) /\ o + k3 + 1 \in 1..Len(Laid(w, p, 3)) /\ o + k3 + 1 = k3 + o + 1
    BY <2>1, <2>2, LaidType
  <2>4. k[b] = k3
    BY <1>2, <1>7
  <2>5. /\ o < Len(v[b]) /\ o + k[b] + 1 <= Len(Laid(w, p, b))
        /\ o + k[b] + 1 \in 1..Len(Laid(w, p, b))
        /\ v[b][o + 1] = Laid(w, p, b)[o + k[b] + 1]
    BY <1>7, <2>2, <2>3, <2>4
  <2> QED
    BY <1>1, <1>7, <2>5 DEF b, o, k
<1> QED
  BY <1>1, <1>5, <1>6, <1>7

LEMMA ByteIsNat ==
    ASSUME NEW x \in 0..254 PROVE x \in Nat
  OBVIOUS

LEMMA NthOfFew ==
    ASSUME NEW o \in 0..254
    PROVE  Nth(<<>>, o) = {} /\ \A x : Nth(<<x>>, o) = IF o = 0 THEN {x} ELSE {}
<1>1. ~(o < Len(<<>>))
  OBVIOUS
<1>2. ASSUME NEW x PROVE (o < Len(<<x>>) <=> o = 0) /\ (o = 0 => <<x>>[o + 1] = x)
  OBVIOUS
<1> QED
  BY <1>1, <1>2 DEF Nth

\* What At finds in the stack itself.
TopAt(w, p, k, s) ==
    IF s[1][1] = 0 THEN IF s[1][2] = 0 THEN {Root} ELSE {}
    ELSE IF s[1][1] = 1 /\ HasSynthetic(w) THEN (IF s[1][2] = 0 THEN {Tile} ELSE {})
    ELSE IF s[1][2] + k[s[1][1]] + 1 <= Len(Laid(w, p, s[1][1]))
         THEN {Laid(w, p, s[1][1])[s[1][2] + k[s[1][1]] + 1]} ELSE {}

LEMMA TopAgrees ==
    ASSUME NEW r \in Seq(Line), NEW w \in World, NEW p, NEW k2, NEW k3, Fits(r, w, p, k2, k3),
           NEW s \in Slots(r), s[1][1] # 0,
           NEW v, v = WindowView(r, w, <<p, k2, k3>>)
    PROVE  LET top == TopAt(w, p, <<0, k2, k3>>, s)
           IN  IF s[1][1] = 1 /\ HasSynthetic(w)
               THEN v[1] = <<>> /\ top = IF s[1][2] = 0 THEN {Tile} ELSE {}
               ELSE top = Nth(v[s[1][1]], s[1][2]) /\ top \subseteq Member
<1> DEFINE k == <<0, k2, k3>>
<1>1. s[1][2] \in 0..254
  BY SlotsType
<1>2. CASE s[1][1] = 1
  <2>1. v[1] = Branch(w, 1) /\ Laid(w, p, 1) = Branch(w, 1)
    <3>1. v[1] = Branch(w, 1)
      BY WindowsAre
    <3> QED
      BY <3>1, HexUnmoved
  <2>2. CASE HasSynthetic(w)
    BY <1>2, <2>1, <2>2 DEF TopAt, HasSynthetic
  <2>3. CASE ~HasSynthetic(w)
    <3> DEFINE o == s[1][2]
               c == Branch(w, 1)
    <3>1. k[1] = 0
      OBVIOUS
    <3> HIDE DEF k
    <3>2. TopAt(w, p, k, s) = IF o + 0 + 1 <= Len(c) THEN {c[o + 0 + 1]} ELSE {}
      BY <1>2, <2>1, <2>3, <3>1 DEF TopAt
    <3>3. c \in Seq(Member)
      BY BranchType
    <3>4. o \in Nat
      BY <1>1, ByteIsNat
    <3> HIDE DEF o, c
    <3>5. o + 0 + 1 = o + 1 /\ (o + 1 <= Len(c) <=> o < Len(c)) /\ (o < Len(c) => o + 1 \in 1..Len(c))
      BY <3>3, <3>4
    <3>6. Nth(c, o) = IF o + 0 + 1 <= Len(c) THEN {c[o + 0 + 1]} ELSE {}
      BY <3>5 DEF Nth
    <3>7. Nth(c, o) \subseteq Member
      BY <3>3, <3>5 DEF Nth
    <3> QED
      BY <1>2, <2>1, <2>3, <3>2, <3>6, <3>7 DEF o, c, k
  <2> QED
    BY <2>2, <2>3
<1>3. CASE s[1][1] # 1
  <2> DEFINE b == s[1][1]
             o == s[1][2]
             i == o + k[b] + 1
             c == Laid(w, p, b)
  <2>1. b \in 1..3 /\ o < Len(v[b]) /\ i <= Len(c) /\ i \in 1..Len(c) /\ v[b][o + 1] = c[i]
    BY <1>3, TopIsAt
  <2>2. TopAt(w, p, k, s) = {c[i]}
    BY <1>3, <2>1 DEF TopAt
  <2>3. c \in Seq(Member)
    BY <2>1, LaidType
  <2>4. c[i] \in Member
    BY <2>1, <2>3
  <2>5. Nth(v[b], o) = {c[i]}
    BY <2>1 DEF Nth
  <2> QED
    BY <1>3, <2>2, <2>4, <2>5
<1> QED
  BY <1>2, <1>3

LEMMA NthOfOne ==
    ASSUME NEW chain, NEW o
    PROVE  {ch[o + 1] : ch \in {ch \in {chain} : o < Len(ch)}} = Nth(chain, o)
<1>1. CASE o < Len(chain)
  <2>1. {ch \in {chain} : o < Len(ch)} = {chain}
    BY <1>1
  <2>2. Nth(chain, o) = {chain[o + 1]}
    BY <1>1 DEF Nth
  <2> QED
    BY <2>1, <2>2
<1>2. CASE ~(o < Len(chain))
  <2>1. {ch \in {chain} : o < Len(ch)} = {}
    BY <1>2
  <2>2. Nth(chain, o) = {}
    BY <1>2 DEF Nth
  <2> QED
    BY <2>1, <2>2
<1> QED
  BY <1>1, <1>2

LEMMA SlotsAgree ==
    ASSUME NEW r \in Seq(Line), NEW w \in World, NEW p, NEW k2, NEW k3, Fits(r, w, p, k2, k3),
           NEW s \in Slots(r), ~(Len(s) = 2 /\ s[1][1] = 0)
    PROVE  InSlot(s, LaidOut(r, w, <<p, k2, k3>>)) = At(w, p, <<0, k2, k3>>, s)
<1> DEFINE v == WindowView(r, w, <<p, k2, k3>>)
           k == <<0, k2, k3>>
           m == LaidOut(r, w, <<p, k2, k3>>)
           b == s[1][1]
           o == s[1][2]
           top == TopAt(w, p, k, s)
<1>1. b \in 0..3 /\ o \in 0..254 /\ Len(s) \in {1, 2}
  BY SlotsType
<1>2. At(w, p, k, s) =
        LET owners == {w.is.owner[c] : c \in top \ {Tile}} \ {NoOwner}
            chains == {BranchMembers(w, x, s[2][1]) : x \in owners}
        IN  IF Len(s) = 1 THEN top
            ELSE {ch[s[2][2] + 1] : ch \in {ch \in chains : s[2][2] < Len(ch)}}
  BY DEF At, TopAt
<1>3. b # 0 => IF b = 1 /\ HasSynthetic(w)
               THEN v[1] = <<>> /\ top = IF o = 0 THEN {Tile} ELSE {}
               ELSE top = Nth(v[b], o) /\ top \subseteq Member
  BY TopAgrees, ZenonT(60)
<1>4. m.root = ReferencesRoot(r) /\ m.bindings = BuildBindings(r, w, v)
  BY DEF LaidOut
<1> HIDE DEF v, k, m, top
<1>5. CASE b = 0
  <2>1. ReferencesRoot(r) /\ Len(s) = 1
    BY <1>1, <1>5 DEF ReferencesRoot
  <2>2. InSlot(s, m) = Nth(<<Root>>, o)
    BY <1>4, <1>5, <2>1 DEF InSlot
  <2>3. top = IF o = 0 THEN {Root} ELSE {}
    BY <1>5 DEF top, TopAt
  <2>4. Nth(<<Root>>, o) = IF o = 0 THEN {Root} ELSE {}
    BY <1>1, NthOfFew
  <2> QED
    BY <1>2, <2>1, <2>2, <2>3, <2>4 DEF m, k
<1>6. CASE b # 0 /\ Len(s) = 1
  <2>1. <<b>> \in Iters(r)
    BY <1>6 DEF Iters, TopIters
  <2>2. m.bindings[<<b>>] = IF b = 1 /\ HasSynthetic(w) THEN <<Tile>> ELSE v[b]
    <3>1. Len(<<b>>) # 2 /\ <<b>>[1] = b
      OBVIOUS
    <3> HIDE DEF b
    <3> QED
      BY <1>4, <2>1, <3>1 DEF BuildBindings
  <2>3. InSlot(s, m) = Nth(m.bindings[<<b>>], o)
    BY <1>6 DEF InSlot
  <2>4. Nth(<<Tile>>, o) = IF o = 0 THEN {Tile} ELSE {}
    BY <1>1, NthOfFew
  <2>5. InSlot(s, m) = top
    BY <1>3, <1>6, <2>2, <2>3, <2>4
  <2> QED
    BY <1>2, <1>6, <2>5 DEF m, k
<1>7. CASE b # 0 /\ Len(s) = 2
  <2> DEFINE it == <<s[1], s[2][1]>>
             o2 == s[2][2]
  <2>1. it \in Iters(r)
    BY <1>7 DEF Iters, NestedIters
  <2>2. Len(it) = 2 /\ it[1] = s[1] /\ it[2] = s[2][1]
    OBVIOUS
  <2> HIDE DEF it
  <2>3. m.bindings[it] = BranchMembers(w, NestedParent(w, s[1], v), s[2][1])
    BY <1>4, <2>1, <2>2 DEF BuildBindings
  <2>4. InSlot(s, m) = Nth(BranchMembers(w, NestedParent(w, s[1], v), s[2][1]), o2)
    BY <1>7, <2>3 DEF InSlot, it
  <2>5. o2 \in 0..254
    BY <1>7, SlotsType
  <2>6. Nth(<<>>, o2) = {}
    BY <2>5, NthOfFew
  <2> DEFINE owners == {w.is.owner[c] : c \in top \ {Tile}} \ {NoOwner}
             chains == {BranchMembers(w, x, s[2][1]) : x \in owners}
  <2>7. At(w, p, k, s) = {ch[o2 + 1] : ch \in {ch \in chains : o2 < Len(ch)}}
    BY <1>2, <1>7
  <2>8. BranchMembers(w, NoOwner, s[2][1]) = <<>>
    BY DEF BranchMembers
  <2>9. CASE top \subseteq {Tile} /\ ~(o < Len(v[b]))
    <3>1. chains = {}
      BY <2>9
    <3>2. NestedParent(w, s[1], v) = NoOwner
      BY <2>9 DEF NestedParent
    <3> QED
      BY <2>4, <2>6, <2>7, <2>8, <3>1, <3>2 DEF m, k
  <2>10. CASE o < Len(v[b]) /\ top = {v[b][o + 1]} /\ top \subseteq Member
    <3> DEFINE c == v[b][o + 1]
               ch == BranchMembers(w, w.is.owner[c], s[2][1])
    <3>1. c # Tile
      BY <2>10, MatcherAssumption DEF MatcherAssumption
    <3>2. top \ {Tile} = {c}
      BY <2>10, <3>1
    <3>3. owners = {w.is.owner[c]} \ {NoOwner}
      BY <3>2
    <3>4. NestedParent(w, s[1], v) = w.is.owner[c]
      BY <2>10 DEF NestedParent
    <3>5. CASE w.is.owner[c] = NoOwner
      <4>1. chains = {}
        BY <3>3, <3>5
      <4> QED
        BY <2>4, <2>6, <2>7, <2>8, <3>4, <3>5, <4>1 DEF m, k
    <3>6. CASE w.is.owner[c] # NoOwner
      <4> HIDE DEF owners, c
      <4>1. owners = {w.is.owner[c]}
        BY <3>3, <3>6
      <4>2. chains = {ch}
        BY <4>1
      <4> HIDE DEF chains, ch
      <4>3. At(w, p, k, s) = Nth(ch, o2)
        BY <2>7, <4>2, NthOfOne
      <4>4. InSlot(s, m) = Nth(ch, o2)
        BY <2>4, <3>4 DEF ch
      <4>5. InSlot(s, m) = At(w, p, k, s)
        BY <4>3, <4>4
      <4> QED
        BY <4>5 DEF m, k
    <3> QED
      BY <3>5, <3>6
  <2>11. CASE b = 1 /\ HasSynthetic(w)
    <3>1. v[1] = <<>> /\ top \subseteq {Tile}
      BY <1>3, <1>7, <2>11
    <3>2. ~(o < Len(v[b]))
      <4>1. o \in Nat
        BY <1>1, ByteIsNat
      <4> HIDE DEF o
      <4>2. ~(o < 0) /\ Len(<<>>) = 0
        BY <4>1
      <4> QED
        BY <2>11, <3>1, <4>2
    <3> QED
      BY <2>9, <3>1, <3>2
  <2>12. CASE ~(b = 1 /\ HasSynthetic(w))
    <3>1. top = Nth(v[b], o) /\ top \subseteq Member
      BY <1>3, <1>7, <2>12
    <3> QED
      BY <2>9, <2>10, <3>1 DEF Nth
  <2> QED
    BY <2>11, <2>12
<1> QED
  BY <1>1, <1>5, <1>6, <1>7

-----------------------------------------------------------------------------
\* The layouts that match are the places where the recipe holds.

\* No path leads from the root itself into the chain of its owner.
Unrooted(r) == \A s \in Slots(r) : ~(Len(s) = 2 /\ s[1][1] = 0)

LinesHold(r, w, p, k2, k3) ==
    \A i \in DOMAIN r :
        IF r[i].any THEN \E x \in r[i].reads : Test(w, x, At(w, p, <<0, k2, k3>>, x.slot))
                    ELSE \A x \in r[i].reads : Test(w, x, At(w, p, <<0, k2, k3>>, x.slot))

LEMMA HoldsThere ==
    ASSUME NEW r \in Seq(Line), Unrooted(r), NEW w \in World,
           NEW p, NEW k2, NEW k3, Fits(r, w, p, k2, k3)
    PROVE  Holds(r, w, LaidOut(r, w, <<p, k2, k3>>)) <=> LinesHold(r, w, p, k2, k3)
<1> DEFINE m == LaidOut(r, w, <<p, k2, k3>>)
<1>1. ASSUME NEW i \in DOMAIN r, NEW x \in r[i].reads
      PROVE  InSlot(x.slot, m) = At(w, p, <<0, k2, k3>>, x.slot)
  <2>1. x.slot \in Slots(r)
    BY DEF Slots, Reads
  <2> QED
    BY <2>1, SlotsAgree DEF Unrooted
<1> HIDE DEF m
<1>2. Holds(r, w, m) <=> \A i \in DOMAIN r :
        IF r[i].any THEN \E x \in r[i].reads : Test(w, x, InSlot(x.slot, m))
                    ELSE \A x \in r[i].reads : Test(w, x, InSlot(x.slot, m))
  BY DEF Holds, LineHolds
<1>3. Holds(r, w, m) <=> LinesHold(r, w, p, k2, k3)
  BY <1>1, <1>2 DEF LinesHold
<1> QED
  BY <1>3 DEF m

LEMMA SomethingBound ==
    ASSUME NEW r \in Seq(Line), Unrooted(r), NEW w \in World,
           NEW p, NEW k2, NEW k3, Fits(r, w, p, k2, k3), Iters(r) # {}
    PROVE  \E it \in Iters(r) : LaidOut(r, w, <<p, k2, k3>>).bindings[it] # <<>>
<1> DEFINE v == WindowView(r, w, <<p, k2, k3>>)
           bindings == LaidOut(r, w, <<p, k2, k3>>).bindings
<1>1. PICK s \in Slots(r) : s[1][1] # 0
  <2>1. PICK it \in Iters(r) : TRUE
    OBVIOUS
  <2>2. CASE it \in TopIters(r)
    BY <2>2 DEF TopIters
  <2>3. CASE it \in NestedIters(r)
    BY <2>3 DEF NestedIters, Unrooted
  <2> QED
    BY <2>1, <2>2, <2>3 DEF Iters
<1> DEFINE b == s[1][1]
           o == s[1][2]
<1>2. b \in 1..3 /\ o \in 0..254 /\ b \in WantBranches(r) /\ <<b>> \in Iters(r)
  BY <1>1, SlotsType DEF WantBranches, Iters, TopIters
<1>3. bindings[<<b>>] = IF b = 1 /\ HasSynthetic(w) THEN <<Tile>> ELSE v[b]
  BY <1>2 DEF LaidOut, BuildBindings
<1>4. CASE b = 1
  <2>1. v[1] = Branch(w, 1)
    BY WindowsAre
  <2>2. Branch(w, 1) # <<>> \/ HasSynthetic(w)
    BY <1>2, <1>4 DEF Fits
  <2>3. <<Tile>> # <<>>
    OBVIOUS
  <2> QED
    BY <1>2, <1>3, <1>4, <2>1, <2>2, <2>3
<1>5. CASE b # 1
  <2>1. o < Len(v[b])
    BY <1>1, <1>5, TopIsAt
  <2>2. o \in Nat
    BY <1>2, ByteIsNat
  <2> HIDE DEF o
  <2>3. v[b] # <<>>
    <3>1. ~(o < 0) /\ Len(<<>>) = 0
      BY <2>2
    <3> QED
      BY <2>1, <3>1
  <2> QED
    BY <1>2, <1>3, <1>5, <2>3
<1> QED
  BY <1>4, <1>5

LEMMA PlacementsFit ==
    ASSUME NEW r \in Seq(Line), NEW w \in World, NEW l
    PROVE  l \in Placements(r, w) <=>
             \E p, k2, k3 : l = <<p, k2, k3>> /\ Fits(r, w, p, k2, k3) /\ LinesHold(r, w, p, k2, k3)
<1> DEFINE P == (IF ReferencesRoot(r) THEN {0} ELSE {2, 3})
                  \X (0 .. Len(Branch(w, 2))) \X (0 .. Len(Branch(w, 3)))
           Good(p, k2, k3) ==
             /\ \A b \in {2, 3} : IF b \in WantBranches(r)
                                  THEN <<0, k2, k3>>[b] + BranchSpan(r, b) <= Len(Laid(w, p, b))
                                  ELSE <<0, k2, k3>>[b] = 0
             /\ 1 \in WantBranches(r) => Branch(w, 1) # <<>> \/ HasSynthetic(w)
             /\ \A i \in DOMAIN r : LineHolds(w, r[i], LAMBDA s : At(w, p, <<0, k2, k3>>, s))
<1>1. l \in Placements(r, w) <=> l \in P /\ Good(l[1], l[2], l[3])
  BY DEF Placements
<1>2. ASSUME NEW p, NEW k2, NEW k3
      PROVE  (<<p, k2, k3>> \in P /\ Good(p, k2, k3)) <=>
               Fits(r, w, p, k2, k3) /\ LinesHold(r, w, p, k2, k3)
  <2>1. (\A i \in DOMAIN r : LineHolds(w, r[i], LAMBDA s : At(w, p, <<0, k2, k3>>, s)))
          <=> LinesHold(r, w, p, k2, k3)
    BY DEF LineHolds, LinesHold
  <2>2. <<0, k2, k3>>[2] = k2 /\ <<0, k2, k3>>[3] = k3
    OBVIOUS
  <2> DEFINE Slot2 == IF 2 \in WantBranches(r) THEN k2 + BranchSpan(r, 2) <= Len(Laid(w, p, 2)) ELSE k2 = 0
             Slot3 == IF 3 \in WantBranches(r) THEN k3 + BranchSpan(r, 3) <= Len(Laid(w, p, 3)) ELSE k3 = 0
             Hex == 1 \in WantBranches(r) => Branch(w, 1) # <<>> \/ HasSynthetic(w)
  <2>3. Good(p, k2, k3) <=> Slot2 /\ Slot3 /\ Hex /\ LinesHold(r, w, p, k2, k3)
    BY <2>1, <2>2
  <2>4. ASSUME NEW b \in {2, 3}, NEW k,
               IF b \in WantBranches(r) THEN k + BranchSpan(r, b) <= Len(Laid(w, p, b)) ELSE k = 0
        PROVE  k \in 0..Len(Branch(w, b)) <=> k \in Nat
    <3> DEFINE span == BranchSpan(r, b)
               len == Len(Laid(w, p, b))
               n == Len(Branch(w, b))
    <3>1. span \in Nat /\ (b \in WantBranches(r) => span > 0)
      BY SpanBounds
    <3>2. len \in Nat /\ n \in Nat /\ len <= n + 1
      <4>1. b \in 1..3
        OBVIOUS
      <4> QED
        BY <4>1, LaidType
    <3>3. IF b \in WantBranches(r) THEN k + span <= len ELSE k = 0
      BY <2>4
    <3> HIDE DEF span, len, n
    <3>4. k \in 0..n <=> k \in Nat
      BY <3>1, <3>2, <3>3
    <3> QED
      BY <3>4 DEF n
  <2>5. Slot2 => (k2 \in 0..Len(Branch(w, 2)) <=> k2 \in Nat)
    BY <2>4
  <2>6. Slot3 => (k3 \in 0..Len(Branch(w, 3)) <=> k3 \in Nat)
    BY <2>4
  <2>7. <<p, k2, k3>> \in P <=> /\ p \in Passes(r)
                                /\ k2 \in 0..Len(Branch(w, 2)) /\ k3 \in 0..Len(Branch(w, 3))
    BY DEF Passes
  <2>8. Fits(r, w, p, k2, k3) <=> p \in Passes(r) /\ k2 \in Nat /\ k3 \in Nat /\ Slot2 /\ Slot3 /\ Hex
    BY DEF Fits
  <2> HIDE DEF P, Good, Slot2, Slot3, Hex
  <2> QED
    BY <2>3, <2>5, <2>6, <2>7, <2>8
<1>3. ASSUME l \in P PROVE l = <<l[1], l[2], l[3]>>
  BY <1>3
<1>4. ASSUME NEW p, NEW k2, NEW k3, l = <<p, k2, k3>>
      PROVE  l[1] = p /\ l[2] = k2 /\ l[3] = k3
  BY <1>4
<1> HIDE DEF P, Good
<1>5. CASE l \in Placements(r, w)
  BY <1>1, <1>2, <1>3, <1>5
<1>6. ASSUME NEW p, NEW k2, NEW k3, l = <<p, k2, k3>>,
             Fits(r, w, p, k2, k3), LinesHold(r, w, p, k2, k3)
      PROVE  l \in Placements(r, w)
  BY <1>1, <1>2, <1>4, <1>6
<1> QED
  BY <1>5, <1>6

\* What the search through the layouts finds is where the recipe holds.
LEMMA MatchingIsPlacements ==
    ASSUME NEW r \in Seq(Line), Unrooted(r), NEW w \in World
    PROVE  Matching(r, w) = Placements(r, w)
<1> SUFFICES ASSUME NEW l PROVE l \in Matching(r, w) <=> l \in Placements(r, w)
  BY DEF Matching, Placements
<1>1. l \in Matching(r, w) <=>
        /\ l \in Layouts(r, w)
        /\ Iters(r) # {} => \E it \in Iters(r) : LaidOut(r, w, l).bindings[it] # <<>>
        /\ Holds(r, w, LaidOut(r, w, l))
  BY DEF Matching
<1>2. l \in Matching(r, w) <=> \E p, k2, k3 :
        /\ l = <<p, k2, k3>> /\ Fits(r, w, p, k2, k3)
        /\ Iters(r) # {} => \E it \in Iters(r) : LaidOut(r, w, l).bindings[it] # <<>>
        /\ Holds(r, w, LaidOut(r, w, l))
  BY <1>1, LayoutsFit
<1>3. ASSUME NEW p, NEW k2, NEW k3, l = <<p, k2, k3>>, Fits(r, w, p, k2, k3)
      PROVE  /\ Iters(r) # {} => \E it \in Iters(r) : LaidOut(r, w, l).bindings[it] # <<>>
             /\ Holds(r, w, LaidOut(r, w, l)) <=> LinesHold(r, w, p, k2, k3)
  BY <1>3, SomethingBound, HoldsThere
<1> QED
  BY <1>2, <1>3, PlacementsFit

\* A set of layouts has a first one.
LEMMA FirstIsLeast ==
    ASSUME NEW T, T # {}, \A l \in T : l[1] \in Nat /\ l[2] \in Nat /\ l[3] \in Nat
    PROVE  First(T) \in T /\ \A l \in T : Before(First(T), l)
<1> DEFINE P == {l[1] : l \in T}
<1>1. PICK p \in P : \A x \in P : p <= x
  <2>1. P \in SUBSET Nat /\ P # {}
    OBVIOUS
  <2> QED
    BY <2>1, LeastNat
<1> DEFINE T2 == {l \in T : l[1] = p}
           K2 == {l[2] : l \in T2}
<1>2. PICK k2 \in K2 : \A x \in K2 : k2 <= x
  <2>1. K2 \in SUBSET Nat /\ K2 # {}
    OBVIOUS
  <2> QED
    BY <2>1, LeastNat
<1> DEFINE T3 == {l \in T2 : l[2] = k2}
           K3 == {l[3] : l \in T3}
<1>3. PICK k3 \in K3 : \A x \in K3 : k3 <= x
  <2>1. K3 \in SUBSET Nat /\ K3 # {}
    OBVIOUS
  <2> QED
    BY <2>1, LeastNat
<1>4. PICK f \in T : f[1] = p /\ f[2] = k2 /\ f[3] = k3
  OBVIOUS
<1>5. ASSUME NEW l \in T PROVE Before(f, l)
  <2>1. p \in Nat /\ k2 \in Nat /\ k3 \in Nat /\ l[1] \in Nat /\ l[2] \in Nat /\ l[3] \in Nat
    OBVIOUS
  <2>2. p <= l[1]
    BY <1>1
  <2>3. l[1] = p => k2 <= l[2]
    BY <1>2
  <2>4. l[1] = p /\ l[2] = k2 => k3 <= l[3]
    BY <1>3
  <2> DEFINE x == l[1]
             y == l[2]
             z == l[3]
  <2> HIDE DEF x, y, z
  <2>5. p < x \/ (p = x /\ (k2 < y \/ (k2 = y /\ k3 <= z)))
    BY <2>1, <2>2, <2>3, <2>4 DEF x, y, z
  <2> QED
    BY <1>4, <2>5 DEF Before, x, y, z
<1> QED
  BY <1>4, <1>5 DEF First

-----------------------------------------------------------------------------
\* The filter: a match needs no aspect that no card of the candidate has.

LEMMA LaidShows ==
    ASSUME NEW w \in World, NEW p, NEW b \in 1..3, NEW i \in 1..Len(Laid(w, p, b))
    PROVE  Laid(w, p, b)[i] \in Filling(w)
<1>1. Branch(w, b) \in Seq(Member) /\ Root \in Member
  BY BranchType DEF Member
<1>2. ASSUME NEW j \in 1..Len(Branch(w, b)) PROVE Branch(w, b)[j] \in Filling(w)
  <2>1. Branch(w, b)[j] \in ToSet(Branch(w, b))
    BY <1>1 DEF ToSet
  <2> QED
    BY <2>1 DEF Filling
<1>3. CASE b # p
  <2>1. Laid(w, p, b) = Branch(w, b)
    BY <1>3, LaidType
  <2> QED
    BY <1>2, <2>1
<1>4. CASE b = p
  <2> DEFINE s == Branch(w, b)
  <2>1. Laid(w, p, b) = <<Root>> \o s
    BY <1>4 DEF Laid
  <2> HIDE DEF s
  <2>2. i \in 1..1 + Len(s) /\ s \in Seq(Member)
    BY <1>1, <2>1 DEF s
  <2>3. (<<Root>> \o s)[i] = IF i = 1 THEN Root ELSE s[i - 1]
    BY <1>1, <2>2
  <2>4. i # 1 => i - 1 \in 1..Len(s)
    BY <2>2
  <2>5. Root \in Filling(w)
    BY DEF Filling
  <2> QED
    BY <1>2, <2>1, <2>3, <2>4, <2>5 DEF s
<1> QED
  BY <1>3, <1>4

LEMMA TopFills ==
    ASSUME NEW r \in Seq(Line), NEW w \in World, NEW p, NEW k2, NEW k3, Fits(r, w, p, k2, k3),
           NEW s \in Slots(r), Len(s) = 1
    PROVE  InSlot(s, LaidOut(r, w, <<p, k2, k3>>)) \subseteq Filling(w)
<1> DEFINE k == <<0, k2, k3>>
<1>1. InSlot(s, LaidOut(r, w, <<p, k2, k3>>)) = At(w, p, k, s)
  BY SlotsAgree
<1>2. At(w, p, k, s) = TopAt(w, p, k, s)
  BY DEF At, TopAt
<1> HIDE DEF k
<1>3. CASE s[1][1] = 0
  BY <1>1, <1>2, <1>3 DEF TopAt, Filling, k
<1>4. CASE s[1][1] = 1 /\ HasSynthetic(w)
  <2>1. TopAt(w, p, k, s) \subseteq {Tile}
    BY <1>4 DEF TopAt
  <2>2. Tile \in Filling(w)
    BY <1>4 DEF Filling
  <2> QED
    BY <1>1, <1>2, <2>1, <2>2 DEF k
<1>5. CASE s[1][1] # 0 /\ ~(s[1][1] = 1 /\ HasSynthetic(w))
  <2> DEFINE b == s[1][1]
             o == s[1][2]
             i == o + k[b] + 1
  <2>1. b \in 1..3
    BY <1>5, TopIsAt
  <2>2. ASSUME i <= Len(Laid(w, p, b)) PROVE i \in 1..Len(Laid(w, p, b))
    <3>1. CASE b = 1
      <4>1. o \in Nat
        BY SlotsType, ByteIsNat
      <4>2. k[b] = 0
        BY <3>1 DEF k
      <4>3. Len(Laid(w, p, b)) \in Nat
        BY <2>1, LaidType
      <4> HIDE DEF o, b
      <4>4. o + 0 + 1 >= 1 /\ o + 0 + 1 \in Nat
        BY <4>1
      <4> QED
        BY <2>2, <4>2, <4>3, <4>4
    <3>2. CASE b # 1
      BY <1>5, <3>2, TopIsAt DEF k
    <3> QED
      BY <3>1, <3>2
  <2>3. TopAt(w, p, k, s) = IF i <= Len(Laid(w, p, b)) THEN {Laid(w, p, b)[i]} ELSE {}
    BY <1>5 DEF TopAt
  <2> HIDE DEF i, b
  <2>4. TopAt(w, p, k, s) \subseteq Filling(w)
    BY <2>1, <2>2, <2>3, LaidShows
  <2> QED
    BY <1>1, <1>2, <2>4 DEF k
<1> QED
  BY <1>3, <1>4, <1>5

LEMMA FilterPasses ==
    ASSUME NEW n \in DOMAIN Recipes, NEW w \in World, NEW l \in Matching(Recipes[n], w)
    PROVE  RequiredTopAspects(Recipes[n]) \subseteq Available(w)
<1> DEFINE r == Recipes[n]
           m == LaidOut(r, w, l)
<1>1. r \in Seq(Line) /\ r \in ToSet(Recipes)
  BY MatcherAssumption DEF MatcherAssumption, ToSet
<1>2. l \in Layouts(r, w) /\ Holds(r, w, m)
  BY DEF Matching
<1> HIDE DEF r
<1>3. PICK p, k2, k3 : l = <<p, k2, k3>> /\ Fits(r, w, p, k2, k3)
  BY <1>1, <1>2, LayoutsFit
<1> HIDE DEF m
<1> SUFFICES ASSUME NEW a \in RequiredTopAspects(r) PROVE a \in Available(w)
  BY DEF r
<1>4. PICK i \in DOMAIN r : ~r[i].any /\ \E x \in r[i].reads :
                                Len(x.slot) = 1 /\ x.op = "ge" /\ a = x.attr
  BY DEF RequiredTopAspects
<1>9. PICK x \in r[i].reads : Len(x.slot) = 1 /\ x.op = "ge" /\ a = x.attr
  BY <1>4
<1>5. Test(w, x, InSlot(x.slot, m))
  BY <1>2, <1>4, <1>9 DEF Holds, LineHolds
<1>6. PICK c \in InSlot(x.slot, m) : a \in Lookup(w, c)
  BY <1>9, <1>5 DEF Test
<1>7. x.slot \in Slots(r)
  BY DEF Slots, Reads
<1>8. c \in Filling(w)
  BY <1>1, <1>3, <1>9, <1>6, <1>7, TopFills DEF m
<1>10. a \in UNION {Lookup(w, y) : y \in Filling(w)}
  BY <1>6, <1>8
<1>11. a \in UNION {RequiredTopAspects(y) : y \in ToSet(Recipes)}
  BY <1>1
<1> QED
  BY <1>10, <1>11 DEF Available

LEMMA FilterChangesNothing ==
    ASSUME NEW w \in World PROVE MatchRecipes(w, TRUE) = MatchRecipes(w, FALSE)
<1> DEFINE T(f) == {i \in Tried(w, f) : Matching(Recipes[i], w) # {}}
<1>1. T(TRUE) = T(FALSE)
  BY FilterPasses DEF Tried
<1> QED
  BY <1>1 DEF MatchRecipes

-----------------------------------------------------------------------------
\* What was evaluated is what match_recipes_inner returns, and its best.

Consistent ==
    /\ world \in World /\ evaluated \in BOOLEAN
    /\ evaluated => matches = MatchRecipes(world, TRUE) /\ best = Best(world, matches)
    /\ ~evaluated => matches = <<>> /\ best = {}

LEMMA Consistency == MatcherSpec => []Consistent
<1>1. MatcherInit => Consistent
  BY MatcherAssumption DEF MatcherInit, Consistent, MatcherAssumption
<1>2. ASSUME Consistent, [MatcherNext]_matcherVars PROVE Consistent'
  <2>1. CASE EvaluateRoot
    BY <1>2, <2>1 DEF Consistent, EvaluateRoot
  <2>2. CASE UNCHANGED matcherVars
    BY <1>2, <2>2 DEF Consistent, matcherVars
  <2> QED
    BY <1>2, <2>1, <2>2 DEF MatcherNext
<1> QED
  BY <1>1, <1>2, PTL DEF MatcherSpec

LEMMA FirstPlacement ==
    ASSUME NEW r \in Seq(Line), Unrooted(r), NEW w \in World, Placements(r, w) # {}
    PROVE  LET first == First(Placements(r, w))
           IN  /\ first \in Placements(r, w)
               /\ \A l \in Placements(r, w) : Before(first, l)
               /\ \A b \in {2, 3} \cap WantBranches(r) :
                    LaidOut(r, w, first).bindings[<<b>>] =
                      SubSeq(Laid(w, first[1], b), first[b] + 1, first[b] + BranchSpan(r, b))
<1> DEFINE T == Placements(r, w)
           l == First(T)
<1>1. ASSUME NEW x \in T PROVE x[1] \in Nat /\ x[2] \in Nat /\ x[3] \in Nat
  <2>1. PICK p, k2, k3 : x = <<p, k2, k3>> /\ Fits(r, w, p, k2, k3)
    BY PlacementsFit
  <2>2. p \in Nat /\ k2 \in Nat /\ k3 \in Nat
    BY <2>1 DEF Fits, Passes
  <2> QED
    BY <2>1, <2>2
<1>2. T # {}
  OBVIOUS
<1>3. l \in T /\ \A x \in T : Before(l, x)
  <2> HIDE DEF T
  <2> QED
    BY <1>1, <1>2, FirstIsLeast
<1>4. PICK p, k2, k3 : l = <<p, k2, k3>> /\ Fits(r, w, p, k2, k3)
  BY <1>3, PlacementsFit
<1> HIDE DEF l
<1>5. l[1] = p /\ l[2] = k2 /\ l[3] = k3
  BY <1>4
<1> DEFINE v == WindowView(r, w, <<p, k2, k3>>)
<1>6. ASSUME NEW b \in {2, 3} \cap WantBranches(r)
      PROVE  LaidOut(r, w, l).bindings[<<b>>] = SubSeq(Laid(w, l[1], b), l[b] + 1, l[b] + BranchSpan(r, b))
  <2>1. <<b>> \in Iters(r)
    BY DEF Iters, TopIters, WantBranches
  <2>2. LaidOut(r, w, l).bindings[<<b>>] = v[b]
    <3>1. LaidOut(r, w, l).bindings = BuildBindings(r, w, v)
      BY <1>4 DEF LaidOut
    <3>2. Len(<<b>>) # 2 /\ <<b>>[1] = b /\ b # 1
      OBVIOUS
    <3> HIDE DEF v
    <3>3. BuildBindings(r, w, v)[<<b>>] = v[b]
      BY <2>1, <3>2 DEF BuildBindings
    <3> QED
      BY <3>1, <3>3
  <2>3. v[b] = Window(Laid(w, l[1], b), l[b], BranchSpan(r, b))
    <3>1. v[2] = Window(Laid(w, p, 2), k2, BranchSpan(r, 2)) /\ v[3] = Window(Laid(w, p, 3), k3, BranchSpan(r, 3))
      BY <1>4, WindowsAre
    <3>2. CASE b = 2
      BY <1>5, <3>1, <3>2
    <3>3. CASE b = 3
      BY <1>5, <3>1, <3>3
    <3> QED
      BY <3>2, <3>3
  <2>4. BranchSpan(r, b) # 0
    BY SpanBounds
  <2> QED
    BY <2>2, <2>3, <2>4 DEF Window
<1> QED
  BY <1>3, <1>6 DEF l

\* FindsFirst, for a bundle in which no path leads from the root itself into the
\* chain of its owner.
THEOREM MatchesAreFirst ==
    ASSUME \A i \in DOMAIN Recipes : Unrooted(Recipes[i])
    PROVE  MatcherSpec => []FindsFirst
<1>1. ASSUME Consistent PROVE FindsFirst
  <2> SUFFICES ASSUME evaluated, Root \notin world.held, NEW i \in DOMAIN Recipes
               PROVE  LET r == Recipes[i]
                          all == Placements(r, world)
                          first == CHOOSE l \in all : \A m \in all : Before(l, m)
                      IN  IF all = {} THEN i \notin DOMAIN matches
                          ELSE /\ i \in DOMAIN matches
                               /\ \A b \in {2, 3} \cap WantBranches(r) :
                                    matches[i].bindings[<<b>>] =
                                      SubSeq(Laid(world, first[1], b), first[b] + 1, first[b] + BranchSpan(r, b))
    BY DEF FindsFirst
  <2> DEFINE r == Recipes[i]
             all == Placements(r, world)
  <2>1. world \in World /\ matches = MatchRecipes(world, FALSE)
    BY <1>1, FilterChangesNothing DEF Consistent
  <2>2. r \in Seq(Line) /\ Unrooted(r)
    BY MatcherAssumption DEF MatcherAssumption
  <2>3. Matching(r, world) = all
    BY <2>1, <2>2, MatchingIsPlacements
  <2>4. i \in DOMAIN matches <=> all # {}
    BY <2>1, <2>3 DEF MatchRecipes, Tried
  <2>5. all # {} => matches[i] = LaidOut(r, world, First(all))
    BY <2>1, <2>3 DEF MatchRecipes, Tried
  <2> HIDE DEF r
  <2>6. all # {} => \A b \in {2, 3} \cap WantBranches(r) :
          LaidOut(r, world, First(all)).bindings[<<b>>] =
            SubSeq(Laid(world, First(all)[1], b), First(all)[b] + 1, First(all)[b] + BranchSpan(r, b))
    BY <2>1, <2>2, FirstPlacement
  <2>7. First(all) = CHOOSE l \in all : \A m \in all : Before(l, m)
    BY DEF First
  <2> HIDE DEF all
  <2>8. IF all = {} THEN i \notin DOMAIN matches
        ELSE /\ i \in DOMAIN matches
             /\ \A b \in {2, 3} \cap WantBranches(r) :
                  matches[i].bindings[<<b>>] =
                    SubSeq(Laid(world, First(all)[1], b), First(all)[b] + 1, First(all)[b] + BranchSpan(r, b))
    BY <2>4, <2>5, <2>6
  <2> QED
    BY <2>7, <2>8 DEF all, r
<1> QED
  BY <1>1, Consistency, PTL

-----------------------------------------------------------------------------
\* Worlds that look the same have the same matches.

Alike(w, x) ==
    /\ Viewed(x) = Viewed(w) /\ x.held = w.held
    /\ x.is.owner = w.is.owner /\ x.chain = w.chain
    /\ \A c : Lookup(x, c) = Lookup(w, c)

LEMMA AlikeLaid ==
    ASSUME NEW w, NEW x, Alike(w, x), NEW r
    PROVE  /\ HasSynthetic(x) = HasSynthetic(w)
           /\ Filling(x) = Filling(w)
           /\ Layouts(r, x) = Layouts(r, w)
           /\ \A l : LaidOut(r, x, l) = LaidOut(r, w, l)
<1>1. \A b : Branch(x, b) = Branch(w, b)
  BY DEF Alike, Branch
<1>2. HasSynthetic(x) = HasSynthetic(w)
  BY <1>1 DEF Alike, HasSynthetic
<1>3. \A p : PromoteRoot(x, p) = PromoteRoot(w, p)
  BY <1>1 DEF PromoteRoot
<1>4. Filling(x) = Filling(w)
  BY <1>1, <1>2 DEF Filling
<1>5. Layouts(r, x) = Layouts(r, w)
  BY <1>2, <1>3 DEF Layouts
<1>6. \A l : WindowView(r, x, l) = WindowView(r, w, l)
  BY <1>3 DEF WindowView
<1>7. \A s, v : NestedParent(x, s, v) = NestedParent(w, s, v)
  BY DEF NestedParent, Alike
<1>8. \A o, b : BranchMembers(x, o, b) = BranchMembers(w, o, b)
  BY DEF BranchMembers, Alike
<1>9. \A v : BuildBindings(r, x, v) = BuildBindings(r, w, v)
  BY <1>2, <1>7, <1>8 DEF BuildBindings
<1>10. \A l : LaidOut(r, x, l) = LaidOut(r, w, l)
  BY <1>6, <1>9 DEF LaidOut
<1> QED
  BY <1>2, <1>4, <1>5, <1>10

LEMMA AlikeMatches ==
    ASSUME NEW w, NEW x, Alike(w, x), NEW f
    PROVE  MatchRecipes(x, f) = MatchRecipes(w, f)
<1>1. \A y, cards : Test(x, y, cards) = Test(w, y, cards)
  BY DEF Test, Alike
<1>2. \A r, m : Holds(r, x, m) = Holds(r, w, m)
  BY <1>1 DEF Holds, LineHolds
<1>3. \A r : Matching(r, x) = Matching(r, w)
  BY <1>2, AlikeLaid DEF Matching
<1>4. Available(x) = Available(w)
  <2>1. Filling(x) = Filling(w)
    BY AlikeLaid
  <2>2. \A c : Lookup(x, c) = Lookup(w, c)
    BY DEF Alike
  <2>3. {Lookup(x, c) : c \in Filling(x)} = {Lookup(w, c) : c \in Filling(w)}
    BY <2>1, <2>2
  <2> QED
    BY <2>3 DEF Available
<1>5. Tried(x, f) = Tried(w, f)
  BY <1>4 DEF Tried, Alike
<1>6. \A r, l : LaidOut(r, x, l) = LaidOut(r, w, l)
  BY AlikeLaid
<1> QED
  BY <1>3, <1>5, <1>6 DEF MatchRecipes

\* MemoryOnly: a zone the soul has left is matched as it was left, and nothing is
\* proposed for it.
THEOREM LeftZonesAreRemembered == MatcherSpec => []MemoryOnly
<1>1. ASSUME Consistent PROVE MemoryOnly
  <2> SUFFICES ASSUME evaluated, world.knows = "frozen"
               PROVE  /\ matches = MatchRecipes([world EXCEPT !.is.stack = world.was.stack, !.is.tile = world.was.tile,
                                     !.is.has = [c \in Member |-> IF c \in Tool THEN @[c] ELSE world.was.has[c]]],
                                  TRUE)
                      /\ best = {}
    BY DEF MemoryOnly
  <2> DEFINE has == [c \in Member |-> IF c \in Tool THEN world.is.has[c] ELSE world.was.has[c]]
             x == [world EXCEPT !.is.stack = world.was.stack, !.is.tile = world.was.tile,
                                !.is.has = [c \in Member |-> IF c \in Tool THEN @[c] ELSE world.was.has[c]]]
  <2>1. world \in World /\ world.is \in Moment
    BY <1>1 DEF Consistent, World
  <2>2. /\ x.knows = world.knows /\ x.was = world.was /\ x.held = world.held /\ x.chain = world.chain
        /\ x.is.owner = world.is.owner /\ x.is.has = has
    BY <2>1 DEF World, Moment
  <2>3. Viewed(x) = Viewed(world)
    BY <2>2 DEF Viewed
  <2>4. ASSUME NEW c \in Tool PROVE x.is.has[c] = world.is.has[c]
    <3>1. c \in Member
      BY DEF Member
    <3> QED
      BY <2>2, <3>1
  <2> HIDE DEF x
  <2>5. \A c : Lookup(x, c) = Lookup(world, c)
    BY <2>3, <2>4 DEF Lookup
  <2>6. Alike(world, x)
    BY <2>2, <2>3, <2>5 DEF Alike
  <2>7. matches = MatchRecipes(x, TRUE)
    BY <1>1, <2>6, AlikeMatches DEF Consistent
  <2>8. best = {}
    BY <1>1 DEF Consistent, Best, Live
  <2> QED
    BY <2>7, <2>8 DEF x
<1> QED
  BY <1>1, Consistency, PTL

-----------------------------------------------------------------------------
\* The matches have their type, and one of them is the best.

LEMMA RangeFinite ==
    ASSUME NEW f, IsFiniteSet(DOMAIN f), f = [x \in DOMAIN f |-> f[x]]
    PROVE  IsFiniteSet({f[x] : x \in DOMAIN f})
<1> DEFINE S == DOMAIN f
           T == {f[x] : x \in DOMAIN f}
<1>1. f \in Surjection(S, T)
  BY DEF Surjection
<1> HIDE DEF S, T
<1>2. IsFiniteSet(S)
  BY DEF S
<1>3. IsFiniteSet(T)
  BY <1>1, <1>2, FS_Surjection
<1> QED
  BY <1>3 DEF T

LEMMA ItersFinite ==
    ASSUME NEW r \in Seq(Line) PROVE IsFiniteSet(Iters(r))
<1> DEFINE top == [b \in 0..3 |-> <<b>>]
           T == {top[b] : b \in DOMAIN top}
<1>1. IsFiniteSet(0..3) /\ IsFiniteSet(0..254)
  <2>1. 0 \in Int /\ 3 \in Int /\ 254 \in Int
    OBVIOUS
  <2> QED
    BY <2>1, FS_Interval
<1>2. IsFiniteSet(T)
  <2>1. IsFiniteSet(DOMAIN top) /\ top = [b \in DOMAIN top |-> top[b]]
    BY <1>1
  <2> HIDE DEF top
  <2> QED
    BY <2>1, RangeFinite
<1>3. ASSUME NEW it \in TopIters(r) PROVE it \in T
  <2>1. PICK s \in Slots(r) : it = <<s[1][1]>>
    BY DEF TopIters
  <2>2. PICK b \in 0..3 : b = s[1][1]
    BY SlotsType
  <2>3. it = top[b]
    BY <2>1, <2>2
  <2> QED
    BY <2>3
<1>4. IsFiniteSet(Step \X (0..3))
  <2>1. IsFiniteSet(Step)
    BY <1>1, FS_Product DEF Step
  <2> QED
    BY <1>1, <2>1, FS_Product
<1>5. NestedIters(r) \subseteq Step \X (0..3)
  <2>1. ASSUME NEW s \in Slots(r), Len(s) = 2 PROVE <<s[1], s[2][1]>> \in Step \X (0..3)
    <3>1. s[1] \in Step /\ s[2][1] \in 0..3
      BY <2>1, SlotsType
    <3> QED
      BY <3>1
  <2> QED
    BY <2>1 DEF NestedIters
<1> HIDE DEF T
<1>6. IsFiniteSet(TopIters(r))
  BY <1>2, <1>3, FS_Subset
<1>7. IsFiniteSet(NestedIters(r))
  BY <1>4, <1>5, FS_Subset
<1> QED
  BY <1>6, <1>7, FS_Union DEF Iters

\* A layout binds cards.
LEMMA ViewType ==
    ASSUME NEW r \in Seq(Line), NEW w \in World, NEW p, NEW k2, NEW k3, Fits(r, w, p, k2, k3)
    PROVE  LET v == WindowView(r, w, <<p, k2, k3>>)
           IN  v \in [0..3 -> Seq(Member)] /\ v[0] = <<>>
<1>1. ASSUME NEW b \in {2, 3}, NEW k,
             IF b \in WantBranches(r) THEN k \in Nat /\ k + BranchSpan(r, b) <= Len(Laid(w, p, b)) ELSE k = 0
      PROVE  Window(Laid(w, p, b), k, BranchSpan(r, b)) \in Seq(Member)
  <2> DEFINE s == Laid(w, p, b)
             span == BranchSpan(r, b)
  <2>1. s \in Seq(Member) /\ span \in Nat /\ (b \notin WantBranches(r) => span = 0)
    BY LaidType, SpanBounds
  <2>2. b \in WantBranches(r) => k \in Nat /\ k + span <= Len(s)
    BY <1>1
  <2> HIDE DEF s, span
  <2>3. ASSUME span = 0 PROVE Window(s, k, span) \in Seq(Member)
    BY <2>1, <2>3 DEF Window
  <2>4. ASSUME span # 0 PROVE Window(s, k, span) \in Seq(Member)
    <3>1. k + 1 \in 1..Len(s) + 1 /\ k + span \in k..Len(s) /\ k + span \in Int /\ k + 1 \in Int
      BY <2>1, <2>2, <2>4
    <3>2. \A i \in k + 1..k + span : i \in 1..Len(s)
      BY <2>1, <2>2, <2>4, <3>1
    <3>3. SubSeq(s, k + 1, k + span) \in Seq(Member)
      BY <2>1, <3>1, <3>2
    <3> QED
      BY <2>4, <3>3 DEF Window
  <2> QED
    BY <2>3, <2>4 DEF s, span
<1> DEFINE l == <<p, k2, k3>>
           f == PromoteRoot(w, p)
           v == WindowView(r, w, l)
<1>2. f \in [0..3 -> Seq(Member)] /\ f[0] = <<>> /\ f[2] = Laid(w, p, 2) /\ f[3] = Laid(w, p, 3)
  BY PromotedType
<1>3. l[1] = p /\ l[2] = k2 /\ l[3] = k3
  OBVIOUS
<1> HIDE DEF l
<1>4. v = [f EXCEPT ![2] = Window(@, k2, BranchSpan(r, 2)), ![3] = Window(@, k3, BranchSpan(r, 3))]
  BY <1>3 DEF WindowView
<1> HIDE DEF f
<1>5. Window(f[2], k2, BranchSpan(r, 2)) \in Seq(Member) /\ Window(f[3], k3, BranchSpan(r, 3)) \in Seq(Member)
  BY <1>1, <1>2 DEF Fits
<1> HIDE DEF v
<1>6. v \in [0..3 -> Seq(Member)] /\ v[0] = <<>>
  BY <1>2, <1>4, <1>5
<1> QED
  BY <1>6 DEF v, l

LEMMA BindingType ==
    ASSUME NEW r \in Seq(Line), NEW w \in World, NEW v \in [0..3 -> Seq(Member)], v[0] = <<>>,
           NEW it \in Iters(r)
    PROVE  BuildBindings(r, w, v)[it] \in Seq(Member \cup {Tile})
<1>1. CASE it \in TopIters(r)
  <2>1. PICK s \in Slots(r) : it = <<s[1][1]>>
    BY <1>1 DEF TopIters
  <2> DEFINE b == s[1][1]
  <2>2. b \in 0..3
    BY SlotsType
  <2> HIDE DEF b
  <2>3. it = <<b>>
    BY <2>1 DEF b
  <2>4. Len(it) # 2 /\ it[1] = b
    BY <2>3
  <2>5. BuildBindings(r, w, v)[it] = IF b = 1 /\ HasSynthetic(w) THEN <<Tile>> ELSE v[b]
    BY <2>4 DEF BuildBindings
  <2>6. v[b] \in Seq(Member) /\ <<Tile>> \in Seq(Member \cup {Tile})
    BY <2>2
  <2>7. v[b] \in Seq(Member \cup {Tile})
    BY <2>6
  <2> HIDE DEF b
  <2>8. (IF b = 1 /\ HasSynthetic(w) THEN <<Tile>> ELSE v[b]) \in Seq(Member \cup {Tile})
    BY <2>6, <2>7
  <2> QED
    BY <2>5, <2>8
<1>2. CASE it \in NestedIters(r)
  <2>1. PICK s \in Slots(r) : Len(s) = 2 /\ it = <<s[1], s[2][1]>>
    BY <1>2 DEF NestedIters
  <2>2. s[1] \in Step /\ s[1][1] \in 0..3 /\ s[1][2] \in 0..254 /\ s[2][1] \in 0..3
    <3>1. s[1] \in Step /\ s[1][1] \in 0..3 /\ s[1][2] \in 0..254
      BY SlotsType
    <3>2. s[2][1] \in 0..3
      BY <2>1, SlotsType
    <3> QED
      BY <3>1, <3>2
  <2> DEFINE owner == NestedParent(w, s[1], v)
             b2 == s[2][1]
             b == s[1][1]
             o == s[1][2]
  <2>3. Len(it) = 2 /\ it[1] = s[1] /\ it[2] = b2
    BY <2>1
  <2>4. BuildBindings(r, w, v)[it] = BranchMembers(w, owner, b2)
    BY <2>3 DEF BuildBindings
  <2>5. owner \in Owner \cup {NoOwner}
    <3>1. o \in Nat
      BY <2>2, ByteIsNat
    <3>2. v[b] \in Seq(Member)
      BY <2>2
    <3> HIDE DEF o, b
    <3>3. o < Len(v[b]) => v[b][o + 1] \in Member
      BY <3>1, <3>2
    <3>4. w.is.owner \in [Member -> Owner \cup {NoOwner}]
      BY DEF World, Moment
    <3> QED
      BY <3>3, <3>4 DEF NestedParent, o, b
  <2>6. w.chain \in [Owner -> [1 .. 3 -> Seq(Member)]]
    BY DEF World
  <2>7. b2 # 0 => b2 \in 1..3
    <3>1. b2 \in 0..3
      BY <2>2
    <3> HIDE DEF b2
    <3> QED
      BY <3>1
  <2> HIDE DEF owner, b2
  <2>8. BranchMembers(w, owner, b2) \in Seq(Member)
    BY <2>5, <2>6, <2>7 DEF BranchMembers
  <2>9. BranchMembers(w, owner, b2) \in Seq(Member \cup {Tile})
    BY <2>8
  <2> QED
    BY <2>4, <2>9
<1> QED
  BY <1>1, <1>2 DEF Iters

\* The cards of a layout are counted.
LEMMA BoundType ==
    ASSUME NEW r \in Seq(Line), NEW w \in World, NEW l \in Layouts(r, w)
    PROVE  /\ DOMAIN LaidOut(r, w, l).bindings = Iters(r)
           /\ Bound(LaidOut(r, w, l)) \in Nat
<1> DEFINE m == LaidOut(r, w, l)
           v == WindowView(r, w, l)
<1>1. m.bindings = BuildBindings(r, w, v)
  BY DEF LaidOut
<1>2. DOMAIN m.bindings = Iters(r)
  BY <1>1 DEF BuildBindings
<1>3. ASSUME NEW it \in Iters(r) PROVE IsFiniteSet(DOMAIN m.bindings[it])
  <2>1. PICK p, k2, k3 : l = <<p, k2, k3>> /\ Fits(r, w, p, k2, k3)
    BY LayoutsFit
  <2>2. v \in [0..3 -> Seq(Member)] /\ v[0] = <<>>
    BY <2>1, ViewType
  <2>3. m.bindings[it] \in Seq(Member \cup {Tile})
    BY <1>1, <2>2, BindingType
  <2> HIDE DEF m
  <2>4. DOMAIN m.bindings[it] = 1..Len(m.bindings[it]) /\ Len(m.bindings[it]) \in Int /\ 1 \in Int
    BY <2>3
  <2>5. IsFiniteSet(1..Len(m.bindings[it]))
    BY <2>4, FS_Interval
  <2> QED
    BY <2>4, <2>5
<1> DEFINE at == [it \in Iters(r) |-> {it} \X DOMAIN m.bindings[it]]
           C == {at[it] : it \in DOMAIN at}
<1>4. IsFiniteSet(C)
  <2>1. IsFiniteSet(DOMAIN at) /\ at = [it \in DOMAIN at |-> at[it]]
    BY ItersFinite
  <2> HIDE DEF at
  <2> QED
    BY <2>1, RangeFinite
<1>5. ASSUME NEW c \in C PROVE IsFiniteSet(c)
  <2>1. PICK it \in Iters(r) : c = {it} \X DOMAIN m.bindings[it]
    OBVIOUS
  <2>2. IsFiniteSet({it})
    BY FS_Singleton
  <2> QED
    BY <1>3, <2>1, <2>2, FS_Product
<1> DEFINE U == UNION {{it} \X DOMAIN m.bindings[it] : it \in DOMAIN m.bindings}
<1>6. UNION C = U
  BY <1>2
<1> HIDE DEF C
<1>7. IsFiniteSet(U)
  BY <1>4, <1>5, <1>6, FS_UNION
<1> HIDE DEF U
<1>8. {b \in U : m.bindings[b[1]][b[2]] # Tile} \in SUBSET U
  OBVIOUS
<1>9. IsFiniteSet({b \in U : m.bindings[b[1]][b[2]] # Tile})
  BY <1>7, <1>8, FS_Subset
<1>10. Bound(m) = Cardinality({b \in U : m.bindings[b[1]][b[2]] # Tile})
  BY DEF Bound, U
<1>11. Bound(m) \in Nat
  BY <1>9, <1>10, FS_CardinalityType
<1> QED
  BY <1>2, <1>11

Ranked(D, found) == \A i \in D : i \in Nat /\ Len(Recipes[i]) \in Nat /\ Bound(found[i]) \in Nat

LEMMA RankOrder ==
    ASSUME NEW D, NEW found, Ranked(D, found), NEW i \in D, NEW j \in D, NEW k \in D
    PROVE  /\ i # j => Outranks(i, j, found) \/ Outranks(j, i, found)
           /\ ~(Outranks(i, j, found) /\ Outranks(j, i, found))
           /\ Outranks(i, j, found) /\ Outranks(j, k, found) => Outranks(i, k, found)
<1> DEFINE L(x) == Len(Recipes[x])
           B(x) == Bound(found[x])
<1>1. \A x \in D : x \in Nat /\ L(x) \in Nat /\ B(x) \in Nat
  BY DEF Ranked
<1>2. \A x, y \in D : Outranks(x, y, found) <=>
        \/ L(x) > L(y)
        \/ L(x) = L(y) /\ B(x) > B(y)
        \/ L(x) = L(y) /\ B(x) = B(y) /\ x > y
  BY DEF Outranks
<1> HIDE DEF L, B
<1> QED
  BY <1>1, <1>2

LEMMA SomeBest ==
    ASSUME NEW D \in SUBSET Nat, NEW found, Ranked(D, found), NEW n \in Nat, D \subseteq 1..n, D # {}
    PROVE  \E i \in D : \A j \in D \ {i} : Outranks(i, j, found)
<1> DEFINE E(k) == {i \in D : i <= k}
           Good(k) == E(k) # {} => \E i \in E(k) : \A j \in E(k) \ {i} : Outranks(i, j, found)
           T == {k \in Nat : ~Good(k)}
<1>1. SUFFICES T = {}
  <2>1. E(n) = D
    <3>1. \A i \in D : i \in 1..n
      OBVIOUS
    <3>2. \A i \in 1..n : i <= n
      OBVIOUS
    <3> QED
      BY <3>1, <3>2
  <2>2. Good(n)
    BY <1>1
  <2> QED
    BY <2>1, <2>2
<1>2. SUFFICES ASSUME T # {} PROVE FALSE
  OBVIOUS
<1>3. PICK k \in T : \A x \in T : k <= x
  BY <1>2, LeastNat
<1>4. k # 0
  <2>1. E(0) = {}
    <3>1. \A i \in D : i \in 1..n /\ ~(i <= 0)
      OBVIOUS
    <3> QED
      BY <3>1
  <2>2. Good(0)
    BY <2>1
  <2> QED
    BY <2>2
<1>5. k - 1 \in Nat /\ ~(k <= k - 1) /\ k \in Nat
  BY <1>4
<1>6. Good(k - 1)
  BY <1>3, <1>5
<1>7. E(k) = E(k - 1) \cup (D \cap {k})
  <2>1. ASSUME NEW i \in Nat PROVE i <= k <=> i <= k - 1 \/ i = k
    BY <1>5
  <2> QED
    BY <2>1
<1>8. ~Good(k)
  OBVIOUS
<1>9. E(k - 1) \subseteq D
  OBVIOUS
<1> HIDE DEF E
<1>10. k \in D /\ E(k - 1) # {}
  BY <1>6, <1>7, <1>8
<1>11. PICK i \in E(k - 1) : \A j \in E(k - 1) \ {i} : Outranks(i, j, found)
  BY <1>6, <1>10
<1>12. E(k) = E(k - 1) \cup {k}
  BY <1>7, <1>10
<1>13. CASE Outranks(k, i, found)
  <2>1. \A j \in E(k) \ {k} : Outranks(k, j, found)
    BY <1>9, <1>10, <1>11, <1>12, <1>13, RankOrder
  <2> QED
    BY <1>8, <1>12, <2>1
<1>14. CASE ~Outranks(k, i, found)
  <2>1. \A j \in E(k) \ {i} : Outranks(i, j, found)
    BY <1>9, <1>10, <1>11, <1>12, <1>14, RankOrder
  <2> QED
    BY <1>8, <1>12, <2>1
<1> QED
  BY <1>13, <1>14

LEMMA MatchesType ==
    ASSUME NEW w \in World, NEW found, found = MatchRecipes(w, TRUE)
    PROVE  /\ DOMAIN found \subseteq DOMAIN Recipes
           /\ \A i \in DOMAIN found : DOMAIN found[i].bindings = Iters(Recipes[i])
           /\ Ranked(DOMAIN found, found)
<1>1. DOMAIN found = {i \in Tried(w, TRUE) : Matching(Recipes[i], w) # {}}
  BY DEF MatchRecipes
<1>2. DOMAIN found \subseteq DOMAIN Recipes
  BY <1>1 DEF Tried
<1>3. ASSUME NEW i \in DOMAIN found
      PROVE  DOMAIN found[i].bindings = Iters(Recipes[i]) /\ Bound(found[i]) \in Nat
  <2> DEFINE r == Recipes[i]
             l == First(Matching(r, w))
  <2>1. r \in Seq(Line)
    <3>1. i \in DOMAIN Recipes
      BY <1>2
    <3> QED
      BY <3>1, MatcherAssumption DEF MatcherAssumption
  <2>2. found[i] = LaidOut(r, w, l)
    BY <1>1 DEF MatchRecipes
  <2>3. Matching(r, w) # {}
    BY <1>1
  <2>4. Matching(r, w) \subseteq Layouts(r, w)
    BY DEF Matching
  <2> HIDE DEF r
  <2>5. \A x \in Matching(r, w) : x[1] \in Nat /\ x[2] \in Nat /\ x[3] \in Nat
    <3> TAKE x \in Matching(r, w)
    <3>1. PICK p, k2, k3 : x = <<p, k2, k3>> /\ Fits(r, w, p, k2, k3)
      BY <2>1, <2>4, LayoutsFit
    <3>2. p \in Nat /\ k2 \in Nat /\ k3 \in Nat
      BY <3>1 DEF Fits, Passes
    <3> QED
      BY <3>1, <3>2
  <2>6. l \in Matching(r, w)
    BY <2>3, <2>5, FirstIsLeast
  <2> QED
    BY <2>1, <2>2, <2>4, <2>6, BoundType DEF r
<1>4. ASSUME NEW i \in DOMAIN found PROVE i \in Nat /\ Len(Recipes[i]) \in Nat
  <2>1. i \in DOMAIN Recipes
    BY <1>2
  <2> QED
    BY <2>1, MatcherAssumption DEF MatcherAssumption
<1> QED
  BY <1>2, <1>3, <1>4 DEF Ranked

LEMMA BestIsOne ==
    ASSUME NEW w \in World, NEW found, found = MatchRecipes(w, TRUE)
    PROVE  Cardinality(Best(w, found)) = IF Live(w) /\ DOMAIN found # {} THEN 1 ELSE 0
<1> DEFINE D == DOMAIN found
<1>1. CASE ~(Live(w) /\ D # {})
  <2>1. Best(w, found) = {}
    BY <1>1 DEF Best
  <2> QED
    BY <1>1, <2>1, FS_EmptySet
<1>2. CASE Live(w) /\ D # {}
  <2>1. Ranked(D, found) /\ D \in SUBSET Nat /\ D \subseteq 1..Len(Recipes) /\ Len(Recipes) \in Nat
    <3>1. Ranked(D, found) /\ D \subseteq DOMAIN Recipes
      BY MatchesType
    <3>2. DOMAIN Recipes = 1..Len(Recipes) /\ Len(Recipes) \in Nat
      BY MatcherAssumption DEF MatcherAssumption
    <3>3. 1..Len(Recipes) \subseteq Nat
      BY <3>2
    <3> HIDE DEF D
    <3> QED
      BY <3>1, <3>2, <3>3
  <2> HIDE DEF D
  <2>2. PICK i \in D : \A j \in D \ {i} : Outranks(i, j, found)
    BY <1>2, <2>1, SomeBest
  <2>3. \A j \in D : (\A k \in D \ {j} : Outranks(j, k, found)) => j = i
    BY <2>1, <2>2, RankOrder
  <2>4. Best(w, found) = {i}
    BY <1>2, <2>2, <2>3 DEF Best, D
  <2> QED
    BY <1>2, <2>4, FS_Singleton DEF D
<1> QED
  BY <1>1, <1>2

\* FilterSound: the index skips no recipe that matches; the matches have their
\* type, and if there are any and they are live, exactly one is the best.
THEOREM FilterSkipsNoMatch == MatcherSpec => []FilterSound
<1>1. ASSUME Consistent PROVE FilterSound
  <2>1. world \in World /\ evaluated \in BOOLEAN
    BY <1>1 DEF Consistent
  <2>2. CASE evaluated
    <3>1. matches = MatchRecipes(world, TRUE) /\ best = Best(world, matches)
      BY <1>1, <2>2 DEF Consistent
    <3>2. matches = MatchRecipes(world, FALSE)
      BY <2>1, <3>1, FilterChangesNothing
    <3> QED
      BY <2>1, <3>1, <3>2, MatchesType, BestIsOne DEF FilterSound, MatcherTypeOK
  <2>3. CASE ~evaluated
    <3>1. matches = <<>> /\ best = {}
      BY <1>1, <2>3 DEF Consistent
    <3>2. DOMAIN matches = {}
      BY <3>1
    <3>3. Cardinality(best) = 0
      BY <3>1, FS_EmptySet
    <3> QED
      BY <2>1, <2>3, <3>2, <3>3 DEF FilterSound, MatcherTypeOK
  <2> QED
    BY <2>2, <2>3
<1> QED
  BY <1>1, Consistency, PTL
=============================================================================
