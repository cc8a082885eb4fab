------------------------- MODULE PositionSyncProofs -------------------------
(***************************************************************************)
(* Proofs about PositionSync, for any cards, positions, zones, stamps and  *)
(* bounds: a local move sticks until it is sent, is not forgotten, and     *)
(* never lingers where others look.                                        *)
(***************************************************************************)
EXTENDS PositionSync, FiniteSetTheorems, WellFoundedInduction, TLAPS

\* A stamp names one version, and stamps are bounded.
Keyed(rows) == \A row, other \in rows : row.at = other.at => row = other
Histories == {rows \in SUBSET Row : Keyed(rows) /\ \A row \in rows : row.at <= 3 * MaxTime + 2}

Marks(rows) == {row.at : row \in {r \in rows : IsLocal(r)}}

Types ==
    /\ hist \in [Card -> Histories]
    /\ local_rows \in [Card -> SUBSET Nat]
    /\ \A c \in Card : local_rows[c] \subseteq Marks(hist[c])
    /\ dirty \subseteq Card
    /\ shared \subseteq Zone
    /\ clock \in 1..MaxTime
    /\ moved \in [Card -> Pos \cup {NoPos}]
    /\ chosen \in [Card -> Pos \cup {NoPos}]

\* A card with a move to send is in force.
DirtyKnown == \A c \in dirty : Known(hist[c], clock)

\* Whichever version of it is in force next, it has the player's position or one
\* the server requires.
DirtyPinned == \A c \in dirty : chosen[c] # NoPos =>
    \A row \in hist[c] : row.need \/ row.pos = chosen[c]

DirtyPrivate == \A c \in dirty : chosen[c] # NoPos => ZoneOf[chosen[c]] \notin shared

IInv == Types /\ DirtyKnown /\ DirtyPinned /\ DirtyPrivate /\ NoMoveForgotten

-----------------------------------------------------------------------------
\* The version in force.

LEMMA LeastNat ==
    ASSUME NEW T \in SUBSET Nat, T # {}
    PROVE  \E x \in T : \A y \in T : x <= y
<1>1. PICK x \in T : \A y \in T : ~(<<y, x>> \in OpToRel(<, Nat))
  BY NatLessThanWellFounded, WFMin
<1>2. \A y \in T : ~(y < x)
  BY <1>1 DEF OpToRel
<1> QED
  BY <1>2

LEMMA LatestIs ==
    ASSUME NEW rows \in SUBSET Row, rows # {}, \A row \in rows : row.at <= 3 * MaxTime + 2
    PROVE  /\ Latest(rows) \in rows
           /\ \A other \in rows : other.at <= Latest(rows).at
<1> DEFINE top == 3 * MaxTime + 2
           ages == {top - row.at : row \in rows}
<1>1. top \in Nat
  BY PositionAssumption DEF PositionAssumption
<1> HIDE DEF top
<1>2. \A row \in rows : row.at \in Nat /\ row.at <= top
  BY DEF Row, top
<1>3. ages \in SUBSET Nat /\ ages # {}
  <2>1. \A row \in rows : top - row.at \in Nat
    BY <1>1, <1>2
  <2> QED
    BY <2>1
<1>4. PICK age \in ages : \A other \in ages : age <= other
  BY <1>3, LeastNat
<1>5. PICK row \in rows : age = top - row.at
  BY <1>4
<1>6. \A other \in rows : other.at <= row.at
  <2> TAKE other \in rows
  <2>1. age <= top - other.at
    BY <1>4
  <2> QED
    BY <1>1, <1>2, <1>5, <2>1
<1> QED
  BY <1>6 DEF Latest

LEMMA CurrentIs ==
    ASSUME NEW rows \in Histories, NEW t, Known(rows, t)
    PROVE  /\ Current(rows, t) \in UpTo(rows, t)
           /\ Current(rows, t) \in rows
           /\ Current(rows, t).pos \in Pos
           /\ \A other \in UpTo(rows, t) : other.at <= Current(rows, t).at
<1>1. UpTo(rows, t) \in SUBSET Row /\ UpTo(rows, t) # {}
  BY DEF Histories, UpTo, Known
<1>2. \A row \in UpTo(rows, t) : row.at <= 3 * MaxTime + 2
  BY DEF Histories, UpTo
<1>3. /\ Current(rows, t) \in UpTo(rows, t)
      /\ \A other \in UpTo(rows, t) : other.at <= Current(rows, t).at
  BY <1>1, <1>2, LatestIs DEF Current
<1> QED
  BY <1>1, <1>3 DEF UpTo, Row

\* Once the position in force is pinned over every version, it is in force.
LEMMA PinnedIs ==
    ASSUME NEW rows \in Histories, NEW t, Known(rows, t),
           NEW pos, pos = Current(rows, t).pos
    PROVE  /\ Pinned(rows, pos) \in Histories
           /\ Marks(Pinned(rows, pos)) = Marks(rows)
           /\ Known(Pinned(rows, pos), t)
           /\ Current(Pinned(rows, pos), t).pos = pos
           /\ \A row \in Pinned(rows, pos) : row.need \/ row.pos = pos
<1> DEFINE pin(row) == IF row.need THEN row ELSE [row EXCEPT !.pos = pos]
           after == Pinned(rows, pos)
           last == Current(rows, t)
<1>1. after = {pin(row) : row \in rows}
  BY DEF Pinned
<1>2. pos \in Pos /\ last \in UpTo(rows, t) /\ \A other \in UpTo(rows, t) : other.at <= last.at
  BY CurrentIs
<1>3. \A row \in rows : /\ pin(row) \in Row /\ pin(row).at = row.at /\ pin(row).need = row.need
                        /\ pin(row).need \/ pin(row).pos = pos
                        /\ row.need => pin(row) = row
                        /\ row \in Row
  BY <1>2 DEF Histories, Row
<1> HIDE DEF pin, after, last
<1>4. after \in Histories
  <2>1. Keyed(after)
    BY <1>1, <1>3 DEF Histories, Keyed
  <2>2. \A row \in after : row.at <= 3 * MaxTime + 2
    BY <1>1, <1>3 DEF Histories
  <2> QED
    BY <1>1, <1>3, <2>1, <2>2 DEF Histories
<1>5. Marks(after) = Marks(rows)
  BY <1>1, <1>3 DEF Marks, IsLocal
<1>6. last \in rows /\ pin(last) \in UpTo(after, t)
  BY <1>1, <1>2, <1>3 DEF UpTo
<1>7. Known(after, t)
  BY <1>6 DEF Known
<1>8. /\ Current(after, t) \in UpTo(after, t)
      /\ \A other \in UpTo(after, t) : other.at <= Current(after, t).at
  BY <1>4, <1>7, CurrentIs
<1>9. PICK row \in rows : Current(after, t) = pin(row)
  BY <1>1, <1>8 DEF UpTo
<1>10. row \in UpTo(rows, t)
  BY <1>3, <1>8, <1>9 DEF UpTo
<1>11. row.at = last.at
  <2>1. row.at <= last.at
    BY <1>2, <1>10
  <2>2. last.at <= row.at
    BY <1>3, <1>6, <1>8, <1>9
  <2>3. row.at \in Nat /\ last.at \in Nat
    BY <1>3, <1>6 DEF Row
  <2> QED
    BY <2>1, <2>2, <2>3
<1>12. row = last
  BY <1>6, <1>11 DEF Histories, Keyed
<1>13. pin(row).pos = pos
  BY <1>3, <1>12 DEF last
<1> QED
  BY <1>1, <1>3, <1>4, <1>5, <1>7, <1>9, <1>13 DEF after

LEMMA UpsertedIs ==
    ASSUME NEW rows \in Histories, NEW row \in Row, row.at <= 3 * MaxTime + 2
    PROVE  /\ Upserted(rows, row) \in Histories
           /\ IsLocal(row) => Marks(Upserted(rows, row)) = Marks(rows) \cup {row.at}
           /\ ~IsLocal(row) => Marks(Upserted(rows, row)) = Marks(rows)
           /\ \A t : Known(rows, t) => Known(Upserted(rows, row), t)
           /\ \A other \in Upserted(rows, row) : other \in rows \/ other = row
<1>1. Upserted(rows, row) \in Histories
  BY DEF Upserted, Histories, Keyed
<1>2. ASSUME NEW t, Known(rows, t) PROVE Known(Upserted(rows, row), t)
  BY <1>2 DEF Known, UpTo, Upserted
<1>3. IsLocal(row) => Marks(Upserted(rows, row)) = Marks(rows) \cup {row.at}
  BY DEF Marks, IsLocal, Upserted
<1>4. ~IsLocal(row) => Marks(Upserted(rows, row)) = Marks(rows)
  BY DEF Marks, IsLocal, Upserted
<1> QED
  BY <1>1, <1>2, <1>3, <1>4 DEF Upserted

\* Resynced versions differ in their hold only.
LEMMA ResyncedIs ==
    ASSUME NEW rows \in Histories, NEW local
    PROVE  /\ Resynced(rows, local) \in Histories
           /\ Marks(Resynced(rows, local)) = Marks(rows)
           /\ \A t : Known(rows, t) => Known(Resynced(rows, local), t)
           /\ \A row \in Resynced(rows, local) :
                \E other \in rows : row.need = other.need /\ row.pos = other.pos
<1> DEFINE sync(row) ==
             IF row.at \in local /\ Known(Unmarked(rows, local), Time(row.at))
             THEN [row EXCEPT !.held = Current(Unmarked(rows, local), Time(row.at)).held]
             ELSE row
           after == Resynced(rows, local)
<1>1. after = {sync(row) : row \in rows}
  BY DEF Resynced
<1>2. Unmarked(rows, local) \in Histories
  BY DEF Unmarked, Histories, Keyed
<1>3. \A row \in rows : /\ sync(row) \in Row /\ sync(row).at = row.at
                        /\ sync(row).need = row.need /\ sync(row).pos = row.pos
  <2> TAKE row \in rows
  <2>1. row \in Row
    BY DEF Histories
  <2>2. ASSUME Known(Unmarked(rows, local), Time(row.at))
        PROVE  Current(Unmarked(rows, local), Time(row.at)).held \in BOOLEAN
    <3>1. Current(Unmarked(rows, local), Time(row.at)) \in Unmarked(rows, local)
      BY <1>2, <2>2, CurrentIs
    <3> QED
      BY <1>2, <3>1 DEF Histories, Row
  <2> QED
    BY <2>1, <2>2 DEF Row
<1> HIDE DEF sync, after
<1>4. after \in Histories
  <2>1. Keyed(after)
    BY <1>1, <1>3 DEF Histories, Keyed
  <2>2. \A row \in after : row.at <= 3 * MaxTime + 2
    BY <1>1, <1>3 DEF Histories
  <2> QED
    BY <1>1, <1>3, <2>1, <2>2 DEF Histories
<1>5. Marks(after) = Marks(rows)
  BY <1>1, <1>3 DEF Marks, IsLocal
<1>6. ASSUME NEW t, Known(rows, t) PROVE Known(after, t)
  BY <1>1, <1>3, <1>6 DEF Known, UpTo
<1> QED
  BY <1>1, <1>3, <1>4, <1>5, <1>6 DEF after

LEMMA WrittenIs ==
    ASSUME Types, NEW c \in Card, Known(hist[c], clock), NEW pos \in Pos
    PROVE  /\ Written(c, pos) \in Histories
           /\ Marks(Written(c, pos)) = Marks(hist[c]) \cup {Stamp(clock, 1)}
           /\ Known(Written(c, pos), clock)
           /\ Landed(c, pos) \in Pos
<1> DEFINE row == [at |-> Stamp(clock, 1), pos |-> pos,
                   held |-> Current(hist[c], clock).held, need |-> FALSE]
<1>1. hist[c] \in Histories /\ clock \in 1..MaxTime
  BY DEF Types
<1>2. Current(hist[c], clock).held \in BOOLEAN
  <2>1. Current(hist[c], clock) \in hist[c]
    BY <1>1, CurrentIs
  <2> QED
    BY <1>1, <2>1 DEF Histories, Row
<1>3. Stamp(clock, 1) \in Nat /\ Stamp(clock, 1) <= 3 * MaxTime + 2 /\ Stamp(clock, 1) % 3 = 1
  BY <1>1, PositionAssumption DEF Stamp, PositionAssumption
<1>4. row \in Row /\ row.at <= 3 * MaxTime + 2 /\ IsLocal(row) /\ row.at = Stamp(clock, 1)
  BY <1>2, <1>3 DEF Row, IsLocal
<1>5. Written(c, pos) = Upserted(hist[c], row)
  BY DEF Written
<1> HIDE DEF row
<1>6. /\ Written(c, pos) \in Histories
      /\ Marks(Written(c, pos)) = Marks(hist[c]) \cup {Stamp(clock, 1)}
      /\ Known(Written(c, pos), clock)
  BY <1>1, <1>4, <1>5, UpsertedIs
<1> QED
  BY <1>6, CurrentIs DEF Landed

-----------------------------------------------------------------------------
\* The steps.

LEMMA PlacePreserves ==
    ASSUME IInv, NEW cards \in SUBSET Card, NEW pos \in Pos, Place(cards, pos)
    PROVE  IInv'
<1> DEFINE moving == {c \in cards : Known(hist[c], clock)}
<1>1. /\ hist' = [c \in Card |-> IF c \in moving THEN Pinned(Written(c, pos), Landed(c, pos))
                                                 ELSE hist[c]]
      /\ chosen' = [c \in Card |-> IF c \in moving THEN Landed(c, pos) ELSE chosen[c]]
      /\ UNCHANGED <<shared, clock>>
  BY DEF Place
<1>2. moving \subseteq Card /\ \A c \in moving : Known(hist[c], clock)
  OBVIOUS
<1>3. CASE MoveCards(moving) /\ \E c \in moving : c \in Carrier \/ ZoneOf[Landed(c, pos)] \in shared
  <2>1. /\ moved' = [c \in Card |-> IF c \in moving /\ Known(hist'[c], clock)
                                    THEN Current(hist'[c], clock).pos ELSE moved[c]]
        /\ dirty' = dirty \ moving
        /\ local_rows' = [c \in Card |-> IF c \in moving THEN {} ELSE local_rows[c]]
    BY <1>3 DEF MoveCards
  <2> HIDE DEF moving
  <2>2. ASSUME NEW c \in moving
        PROVE  /\ hist'[c] \in Histories /\ moved'[c] = chosen'[c] /\ chosen'[c] \in Pos
               /\ local_rows'[c] = {}
    <3>1. c \in Card /\ Known(hist[c], clock)
      BY <1>2
    <3>2. /\ Written(c, pos) \in Histories /\ Known(Written(c, pos), clock)
          /\ Landed(c, pos) \in Pos
      BY <3>1, WrittenIs DEF IInv
    <3>3. /\ hist'[c] \in Histories /\ Known(hist'[c], clock)
          /\ Current(hist'[c], clock).pos = Landed(c, pos)
      BY <1>1, <3>1, <3>2, PinnedIs DEF Landed
    <3> QED
      BY <1>1, <2>1, <3>1, <3>2, <3>3
  <2>3. ASSUME NEW c \in Card \ moving
        PROVE  /\ hist'[c] = hist[c] /\ moved'[c] = moved[c] /\ chosen'[c] = chosen[c]
               /\ local_rows'[c] = local_rows[c]
    BY <1>1, <2>1
  <2>4. Types'
    <3>1. hist' \in [Card -> Histories] /\ chosen' \in [Card -> Pos \cup {NoPos}]
      BY <1>1, <2>2, <2>3 DEF IInv, Types
    <3>2. moved' \in [Card -> Pos \cup {NoPos}] /\ local_rows' \in [Card -> SUBSET Nat]
      BY <2>1, <2>2, <2>3 DEF IInv, Types
    <3>3. \A c \in Card : local_rows'[c] \subseteq Marks(hist'[c])
      BY <2>2, <2>3 DEF IInv, Types
    <3> QED
      BY <1>1, <2>1, <3>1, <3>2, <3>3 DEF IInv, Types
  <2>5. DirtyKnown' /\ DirtyPinned' /\ DirtyPrivate'
    BY <1>1, <2>1, <2>3 DEF IInv, Types, DirtyKnown, DirtyPinned, DirtyPrivate
  <2>6. NoMoveForgotten'
    BY <2>1, <2>2, <2>3 DEF IInv, NoMoveForgotten
  <2> QED
    BY <2>4, <2>5, <2>6 DEF IInv
<1>4. CASE /\ ~ \E c \in moving : c \in Carrier \/ ZoneOf[Landed(c, pos)] \in shared
           /\ dirty' = dirty \cup moving
           /\ local_rows' = [c \in Card |-> IF c \in moving
                                            THEN local_rows[c] \cup {Stamp(clock, 1)}
                                            ELSE local_rows[c]]
           /\ UNCHANGED moved
  <2> HIDE DEF moving
  <2>1. Stamp(clock, 1) \in Nat
    BY DEF IInv, Types, Stamp
  <2>2. ASSUME NEW c \in moving
        PROVE  /\ hist'[c] \in Histories /\ Known(hist'[c], clock')
               /\ chosen'[c] \in Pos /\ ZoneOf[chosen'[c]] \notin shared'
               /\ \A row \in hist'[c] : row.need \/ row.pos = chosen'[c]
               /\ local_rows'[c] \in SUBSET Nat /\ local_rows'[c] \subseteq Marks(hist'[c])
    <3>1. c \in Card /\ Known(hist[c], clock)
      BY <1>2
    <3>2. /\ Written(c, pos) \in Histories /\ Known(Written(c, pos), clock)
          /\ Landed(c, pos) \in Pos
          /\ Marks(Written(c, pos)) = Marks(hist[c]) \cup {Stamp(clock, 1)}
      BY <3>1, WrittenIs DEF IInv
    <3>3. /\ hist'[c] \in Histories /\ Known(hist'[c], clock)
          /\ Marks(hist'[c]) = Marks(Written(c, pos))
          /\ \A row \in hist'[c] : row.need \/ row.pos = Landed(c, pos)
      BY <1>1, <3>1, <3>2, PinnedIs DEF Landed
    <3>4. local_rows'[c] = local_rows[c] \cup {Stamp(clock, 1)}
      BY <1>4, <3>1
    <3> QED
      BY <1>1, <1>4, <2>1, <3>1, <3>2, <3>3, <3>4 DEF IInv, Types
  <2>3. ASSUME NEW c \in Card \ moving
        PROVE  /\ hist'[c] = hist[c] /\ chosen'[c] = chosen[c]
               /\ local_rows'[c] = local_rows[c]
    BY <1>1, <1>4
  <2>4. Types'
    <3>1. hist' \in [Card -> Histories] /\ chosen' \in [Card -> Pos \cup {NoPos}]
      BY <1>1, <2>2, <2>3 DEF IInv, Types
    <3>2. local_rows' \in [Card -> SUBSET Nat]
      BY <1>4, <2>2, <2>3 DEF IInv, Types
    <3>3. \A c \in Card : local_rows'[c] \subseteq Marks(hist'[c])
      BY <2>2, <2>3 DEF IInv, Types
    <3> QED
      BY <1>1, <1>2, <1>4, <3>1, <3>2, <3>3 DEF IInv, Types
  <2>5. DirtyKnown' /\ DirtyPinned' /\ DirtyPrivate'
    BY <1>1, <1>4, <2>2, <2>3 DEF IInv, Types, DirtyKnown, DirtyPinned, DirtyPrivate
  <2>6. NoMoveForgotten'
    BY <1>4, <2>3 DEF IInv, NoMoveForgotten
  <2> QED
    BY <2>4, <2>5, <2>6 DEF IInv
<1> QED
  BY <1>3, <1>4 DEF Place

\* What goes out of the cards that wait is where the player put them.
LEMMA SentPreserves ==
    ASSUME IInv, NEW cards \in SUBSET dirty, MoveCards(cards), UNCHANGED <<hist, clock>>,
           chosen' = Overridden(dirty), shared' \subseteq Zone,
           \A c \in dirty \ cards : chosen'[c] # NoPos => ZoneOf[chosen[c]] \notin shared'
    PROVE  IInv'
<1>1. /\ moved' = [c \in Card |-> IF c \in cards /\ Known(hist[c], clock)
                                  THEN Current(hist[c], clock).pos ELSE moved[c]]
      /\ dirty' = dirty \ cards
      /\ local_rows' = [c \in Card |-> IF c \in cards THEN {} ELSE local_rows[c]]
      /\ hist' = hist /\ clock' = clock
  BY DEF MoveCards
<1>2. cards \subseteq Card /\ \A c \in cards : c \in dirty
  BY DEF IInv, Types
<1>3. \A c \in Card : chosen'[c] = IF /\ c \in dirty /\ Known(hist[c], clock)
                                      /\ Current(hist[c], clock).need
                                   THEN NoPos ELSE chosen[c]
  BY DEF Overridden
<1>4. ASSUME NEW c \in cards
      PROVE  /\ moved'[c] \in Pos
             /\ chosen'[c] # NoPos => moved'[c] = chosen'[c]
  <2>1. c \in Card /\ c \in dirty /\ Known(hist[c], clock) /\ hist[c] \in Histories
    BY <1>2 DEF IInv, Types, DirtyKnown
  <2>2. moved'[c] = Current(hist[c], clock).pos
    BY <1>1, <2>1
  <2>3. Current(hist[c], clock) \in hist[c] /\ Current(hist[c], clock).pos \in Pos
    BY <2>1, CurrentIs
  <2> QED
    BY <1>3, <2>1, <2>2, <2>3 DEF IInv, DirtyPinned
<1>5. Types'
  <2>1. moved' \in [Card -> Pos \cup {NoPos}]
    <3>1. \A c \in Card \ cards : moved'[c] = moved[c]
      BY <1>1
    <3> QED
      BY <1>1, <1>4, <3>1 DEF IInv, Types
  <2>2. chosen' \in [Card -> Pos \cup {NoPos}]
    BY DEF Overridden, IInv, Types
  <2>3. local_rows' \in [Card -> SUBSET Nat] /\ \A c \in Card : local_rows'[c] \subseteq Marks(hist'[c])
    BY <1>1 DEF IInv, Types
  <2> QED
    BY <1>1, <2>1, <2>2, <2>3 DEF IInv, Types
<1>6. DirtyKnown' /\ DirtyPinned' /\ DirtyPrivate'
  BY <1>1, <1>3 DEF IInv, Types, DirtyKnown, DirtyPinned, DirtyPrivate
<1>7. NoMoveForgotten'
  BY <1>1, <1>3, <1>4 DEF IInv, NoMoveForgotten
<1> QED
  BY <1>5, <1>6, <1>7 DEF IInv

LEMMA FlushPreserves == ASSUME IInv, Flush PROVE IInv'
<1>1. shared' \subseteq Zone
  BY DEF Flush, IInv, Types
<1> QED
  BY <1>1, SentPreserves DEF Flush

LEMMA ZoneObserversPreserves ==
    ASSUME IInv, NEW z \in Zone, NEW many \in BOOLEAN, ZoneObservers(z, many)
    PROVE  IInv'
<1> DEFINE cards == NewlyShared(z, many)
<1>1. cards \in SUBSET dirty
  BY DEF NewlyShared
<1>2. shared' \subseteq Zone
  BY DEF ZoneObservers, IInv, Types
<1>3. ASSUME NEW c \in dirty \ cards, chosen'[c] # NoPos
      PROVE  ZoneOf[chosen[c]] \notin shared'
  <2>1. c \in Card /\ hist[c] \in Histories /\ Known(hist[c], clock)
    BY DEF IInv, Types, DirtyKnown
  <2>2. chosen'[c] = chosen[c] /\ ~Current(hist[c], clock).need
    BY <1>3, <2>1 DEF ZoneObservers, Overridden
  <2>3. Current(hist[c], clock).pos = chosen[c]
    <3>1. Current(hist[c], clock) \in hist[c]
      BY <2>1, CurrentIs
    <3> QED
      BY <1>3, <2>2, <3>1 DEF IInv, DirtyPinned
  <2>4. ZoneOf[chosen[c]] \notin shared
    BY <1>3, <2>2 DEF IInv, DirtyPrivate
  <2>5. CASE many /\ z \notin shared
    BY <1>3, <2>1, <2>3, <2>4, <2>5 DEF ZoneObservers, NewlyShared
  <2>6. CASE ~(many /\ z \notin shared)
    BY <2>4, <2>6 DEF ZoneObservers
  <2> QED
    BY <2>5, <2>6
<1> QED
  BY <1>1, <1>2, <1>3, SentPreserves DEF ZoneObservers

LEMMA ClockMovesPreserves ==
    ASSUME IInv, NEW t \in 1..MaxTime, ClockMoves(t) PROVE IInv'
<1>1. DirtyKnown'
  BY DEF ClockMoves, IInv, Types, DirtyKnown
<1> QED
  BY <1>1 DEF ClockMoves, IInv, Types, DirtyPinned, DirtyPrivate, NoMoveForgotten

\* The version that goes into the store is one of the server's, and keeps the
\* local position of a dirty card unless the server requires its own.
LEMMA ArrivingIs ==
    ASSUME IInv, NEW c \in Card,
           NEW row \in [at : ServerStamps, pos : Pos, held : BOOLEAN, need : BOOLEAN]
    PROVE  LET came == Reconciled(c, row)
           IN  /\ came \in Row /\ came.at <= 3 * MaxTime + 2 /\ ~IsLocal(came) /\ came.need = row.need
               /\ c \in dirty /\ ~row.need => came.pos = Current(hist[c], clock).pos
<1> DEFINE came == Reconciled(c, row)
<1>0. hist[c] \in Histories
  BY DEF IInv, Types
<1>1. /\ row.at \in Nat /\ row.at <= 3 * MaxTime + 2 /\ row.at % 3 # 1
      /\ row.pos \in Pos /\ row.held \in BOOLEAN /\ row.need \in BOOLEAN
  <2>1. row.at \in ServerStamps
    OBVIOUS
  <2>2. row.at \in {at \in 0..3 * MaxTime + 2 : at % 3 # 1}
    BY <2>1, PositionAssumption DEF PositionAssumption
  <2>3. 3 * MaxTime + 2 \in Nat
    BY PositionAssumption DEF PositionAssumption
  <2> QED
    BY <2>2, <2>3
<1>2. CASE c \in dirty /\ ~row.need /\ Known(hist[c], clock)
  <2>1. Current(hist[c], clock).pos \in Pos
    BY <1>0, <1>2, CurrentIs
  <2>2. came = [row EXCEPT !.pos = Current(hist[c], clock).pos]
    BY <1>2 DEF Reconciled
  <2> QED
    BY <1>1, <2>1, <2>2 DEF Row, IsLocal
<1>3. CASE ~(c \in dirty /\ ~row.need /\ Known(hist[c], clock))
  <2>1. came = row
    BY <1>3 DEF Reconciled
  <2> QED
    BY <1>1, <1>3, <2>1 DEF Row, IsLocal, IInv, DirtyKnown
<1> QED
  BY <1>2, <1>3

LEMMA RowArrivesPreserves ==
    ASSUME IInv, NEW c \in Card,
           NEW row \in [at : ServerStamps, pos : Pos, held : BOOLEAN, need : BOOLEAN],
           RowArrives(c, row)
    PROVE  IInv'
<1> DEFINE marks == IF Requires(c, row) THEN {} ELSE local_rows[c]
           came == Reconciled(c, row)
           rows == Upserted(hist[c], came)
           after == IF marks = {} THEN rows ELSE Resynced(rows, marks)
<1>1. /\ hist' = [hist EXCEPT ![c] = after]
      /\ dirty' = IF Requires(c, row) THEN dirty \ {c} ELSE dirty
      /\ local_rows' = [local_rows EXCEPT ![c] = marks]
      /\ chosen' = IF row.need \/ (Known(hist[c], clock) /\ Current(hist[c], clock).need)
                   THEN [chosen EXCEPT ![c] = NoPos] ELSE chosen
      /\ UNCHANGED <<shared, clock, moved>>
  BY DEF RowArrives
<1>2. hist[c] \in Histories
  BY DEF IInv, Types
<1>3. /\ came \in Row /\ came.at <= 3 * MaxTime + 2 /\ ~IsLocal(came) /\ came.need = row.need
      /\ c \in dirty /\ ~row.need => came.pos = Current(hist[c], clock).pos
  BY ArrivingIs
<1> HIDE DEF came
<1>4. /\ rows \in Histories /\ Marks(rows) = Marks(hist[c])
      /\ \A t : Known(hist[c], t) => Known(rows, t)
      /\ \A other \in rows : other \in hist[c] \/ other = came
  BY <1>2, <1>3, UpsertedIs
<1> HIDE DEF rows
<1>5. /\ after \in Histories /\ Marks(after) = Marks(hist[c])
      /\ \A t : Known(hist[c], t) => Known(after, t)
      /\ \A other \in after :
           \E source \in rows : other.need = source.need /\ other.pos = source.pos
  BY <1>4, ResyncedIs
<1> HIDE DEF after
<1>6. marks \in SUBSET Nat /\ marks \subseteq Marks(hist[c])
  BY DEF IInv, Types
<1> HIDE DEF marks
<1>7. Types'
  <2>1. hist' \in [Card -> Histories] /\ local_rows' \in [Card -> SUBSET Nat]
    BY <1>1, <1>5, <1>6 DEF IInv, Types
  <2>2. \A d \in Card : local_rows'[d] \subseteq Marks(hist'[d])
    BY <1>1, <1>5, <1>6 DEF IInv, Types
  <2>3. chosen' \in [Card -> Pos \cup {NoPos}]
    BY <1>1 DEF IInv, Types
  <2> QED
    BY <1>1, <2>1, <2>2, <2>3 DEF IInv, Types
<1>8. DirtyKnown'
  BY <1>1, <1>5 DEF IInv, Types, DirtyKnown
<1>9. DirtyPinned'
  <2> SUFFICES ASSUME NEW d \in dirty', chosen'[d] # NoPos, NEW other \in hist'[d]
               PROVE  other.need \/ other.pos = chosen'[d]
    BY DEF DirtyPinned
  <2>1. CASE d # c
    BY <1>1, <2>1 DEF IInv, Types, DirtyPinned
  <2>2. CASE d = c
    <3>1. c \in dirty /\ ~row.need
      BY <1>1, <2>2 DEF Requires, IInv, Types
    <3>2. Known(hist[c], clock) /\ ~Current(hist[c], clock).need /\ chosen'[c] = chosen[c]
      BY <1>1, <2>2, <3>1 DEF IInv, Types, DirtyKnown
    <3>3. Current(hist[c], clock).pos = chosen[c]
      <4>1. Current(hist[c], clock) \in hist[c]
        BY <1>2, <3>2, CurrentIs
      <4> QED
        BY <2>2, <3>1, <3>2, <4>1 DEF IInv, DirtyPinned
    <3>4. other \in after
      BY <1>1, <2>2 DEF IInv, Types
    <3>5. PICK source \in rows : other.need = source.need /\ other.pos = source.pos
      BY <1>5, <3>4
    <3>6. source \in hist[c] \/ source = came
      BY <1>4
    <3> QED
      BY <1>3, <2>2, <3>1, <3>2, <3>3, <3>5, <3>6 DEF IInv, DirtyPinned
  <2> QED
    BY <2>1, <2>2
<1>10. DirtyPrivate' /\ NoMoveForgotten'
  BY <1>1 DEF IInv, Types, DirtyPrivate, NoMoveForgotten, Requires
<1> QED
  BY <1>7, <1>8, <1>9, <1>10 DEF IInv

LEMMA ReapsPreserves ==
    ASSUME IInv, NEW c \in Card, NEW row \in hist[c], Reaps(c, row) PROVE IInv'
<1> DEFINE after == hist[c] \ {row}
<1>1. /\ hist' = [hist EXCEPT ![c] = after] /\ row \in ServerRows(hist[c])
      /\ \A d \in Card : local_rows'[d] = local_rows[d] \/ local_rows'[d] = {}
      /\ local_rows' \in [Card -> SUBSET Nat]
      /\ UNCHANGED <<dirty, shared, clock, moved, chosen>>
  BY DEF Reaps, RowDeleted, IInv, Types
<1>2. after \in Histories /\ Marks(after) = Marks(hist[c])
  BY <1>1 DEF Histories, Keyed, Marks, ServerRows, IInv, Types
<1>3. Known(after, clock)
  <2>1. PICK other \in ServerRows(hist[c]) : other.at > row.at /\ Time(other.at) <= 1
    BY DEF Reaps
  <2>2. other \in hist[c] /\ other \in Row /\ row \in Row
    BY <2>1 DEF ServerRows, IInv, Types, Histories
  <2>3. other \in after
    BY <2>1, <2>2 DEF Row
  <2>4. Time(other.at) <= clock
    <3>1. Time(other.at) \in Int
      BY <2>2 DEF Time, Row
    <3> QED
      BY <2>1, <3>1 DEF IInv, Types
  <2> QED
    BY <2>3, <2>4 DEF Known, UpTo
<1> HIDE DEF after
<1>4. Types'
  <2>1. hist' \in [Card -> Histories] /\ \A d \in Card : local_rows'[d] \subseteq Marks(hist'[d])
    BY <1>1, <1>2 DEF IInv, Types
  <2> QED
    BY <1>1, <2>1 DEF IInv, Types
<1>5. \A d \in Card : \A other \in hist'[d] : other \in hist[d]
  BY <1>1 DEF after, IInv, Types
<1>6. DirtyKnown'
  BY <1>1, <1>3 DEF IInv, Types, DirtyKnown
<1>7. DirtyPinned'
  BY <1>1, <1>5 DEF IInv, Types, DirtyPinned
<1> QED
  BY <1>1, <1>4, <1>6, <1>7 DEF IInv, DirtyPrivate, NoMoveForgotten

-----------------------------------------------------------------------------

\* The invariant of optimistic positions: the types, and of every move that
\* waits for its commit that its card is in force, that every version of it is
\* pinned, and that nobody else looks where it went.
THEOREM Invariance == Spec => []IInv
<1>1. Init => IInv
  <2> SUFFICES ASSUME Init PROVE IInv
    OBVIOUS
  <2>1. {} \in Histories /\ 1 \in 1..MaxTime
    BY PositionAssumption DEF Histories, Keyed, PositionAssumption
  <2> QED
    BY <2>1 DEF Init, IInv, Types, DirtyKnown, DirtyPinned, DirtyPrivate, NoMoveForgotten
<1>2. IInv /\ [Next]_vars => IInv'
  <2> SUFFICES ASSUME IInv, [Next]_vars PROVE IInv'
    OBVIOUS
  <2>1. ASSUME NEW cards \in SUBSET Card, NEW pos \in Pos, Place(cards, pos) PROVE IInv'
    BY <2>1, PlacePreserves
  <2>2. CASE Flush
    BY <2>2, FlushPreserves
  <2>3. ASSUME NEW z \in Zone, NEW many \in BOOLEAN, ZoneObservers(z, many) PROVE IInv'
    BY <2>3, ZoneObserversPreserves
  <2>4. ASSUME NEW t \in 1..MaxTime, ClockMoves(t) PROVE IInv'
    BY <2>4, ClockMovesPreserves
  <2>5. ASSUME NEW c \in Card,
               NEW row \in [at : ServerStamps, pos : Pos, held : BOOLEAN, need : BOOLEAN],
               RowArrives(c, row)
        PROVE  IInv'
    BY <2>5, RowArrivesPreserves
  <2>6. ASSUME NEW c \in Card, NEW row \in hist[c], Reaps(c, row) PROVE IInv'
    BY <2>6, ReapsPreserves
  <2>7. CASE UNCHANGED vars
    BY <2>7 DEF vars, IInv, Types, DirtyKnown, DirtyPinned, DirtyPrivate, NoMoveForgotten
  <2> QED
    BY <2>1, <2>2, <2>3, <2>4, <2>5, <2>6, <2>7 DEF Next, Local, Remote
<1> QED
  BY <1>1, <1>2, PTL DEF Spec

\* place() pins every version, present and to come, so that neither a row that
\* arrives, nor one that promotes, nor a correction of the clock moves the card
\* back before its move is committed; only the server's own demand does.
THEOREM LocalMovesStick == Spec => []LocalMoveSticks
<1>1. IInv => LocalMoveSticks
  <2> SUFFICES ASSUME IInv, NEW c \in dirty, Known(hist[c], clock), chosen[c] # NoPos
               PROVE  \/ Current(hist[c], clock).pos = chosen[c]
                      \/ Current(hist[c], clock).need
    BY DEF LocalMoveSticks
  <2>1. hist[c] \in Histories
    BY DEF IInv, Types
  <2>2. Current(hist[c], clock) \in hist[c]
    BY <2>1, CurrentIs
  <2> QED
    BY <2>2 DEF IInv, DirtyPinned
<1> QED
  BY <1>1, Invariance, PTL

\* build_move_cards sends what the player chose: a card with nothing left to
\* send is, as far as the server was told, where the player put it.
THEOREM MovesAreSent == Spec => []NoMoveForgotten
<1>1. IInv => NoMoveForgotten
  BY DEF IInv
<1> QED
  BY <1>1, Invariance, PTL

\* The flush on ZoneObservers and the immediate sync of place() together leave
\* no unsent move in a zone that somebody else observes.
THEOREM SharedSpaceStaysSynced == Spec => []SharedSpaceIsSynced
<1>1. IInv => TypeOK
  BY DEF IInv, Types, Histories, Keyed, Marks, TypeOK
<1>2. IInv => SharedSpaceIsSynced
  BY <1>1 DEF IInv, DirtyPrivate, SharedSpaceIsSynced
<1> QED
  BY <1>2, Invariance, PTL
-----------------------------------------------------------------------------
\* The holds.

\* A history is finite, and so are the versions the server made.
LEMMA FiniteHistory ==
    ASSUME NEW rows \in Histories
    PROVE  IsFiniteSet(ServerRows(rows)) /\ Cardinality(ServerRows(rows)) \in Nat
<1> DEFINE top == 3 * MaxTime + 2
           at == [row \in rows |-> row.at]
<1>1. top \in Nat
  BY PositionAssumption DEF PositionAssumption
<1>2. IsFiniteSet(0..top)
  BY <1>1, FS_Interval
<1>3. at \in Injection(rows, 0..top)
  <2>1. \A row \in rows : row.at \in 0..top
    BY <1>1 DEF Histories, Row
  <2>2. \A row, other \in rows : row.at = other.at => row = other
    BY DEF Histories, Keyed
  <2> QED
    BY <2>1, <2>2 DEF Injection, IsInjective
<1>4. IsFiniteSet(rows)
  BY <1>2, <1>3, FS_Injection
<1>5. ServerRows(rows) \in SUBSET rows
  BY DEF ServerRows
<1> QED
  BY <1>4, <1>5, FS_Subset, FS_CardinalityType

\* A move adds no version of the server's.
LEMMA MoveAddsNone ==
    ASSUME Types, NEW c \in Card, Known(hist[c], clock), NEW pos \in Pos
    PROVE  Cardinality(ServerRows(Pinned(Written(c, pos), Landed(c, pos))))
             <= Cardinality(ServerRows(hist[c]))
<1> DEFINE there == Landed(c, pos)
           pin == [row \in ServerRows(hist[c]) |->
                     IF row.need THEN row ELSE [row EXCEPT !.pos = there]]
           after == ServerRows(Pinned(Written(c, pos), there))
<1>1. IsLocal([at |-> Stamp(clock, 1), pos |-> pos, held |-> Current(hist[c], clock).held, need |-> FALSE])
  BY DEF IsLocal, Stamp, Types
<1>2. ServerRows(Written(c, pos)) = {row \in ServerRows(hist[c]) : row.at # Stamp(clock, 1)}
  BY <1>1 DEF Written, Upserted, ServerRows
<1>3. \A row \in ServerRows(hist[c]) : row.at # Stamp(clock, 1)
  BY DEF ServerRows, IsLocal, Stamp, Types
<1>4. ServerRows(Written(c, pos)) = ServerRows(hist[c])
  BY <1>2, <1>3
<1>5. \A row \in Written(c, pos) :
        LET put == IF row.need THEN row ELSE [row EXCEPT !.pos = there] IN put.at = row.at
  <2>1. Written(c, pos) \in SUBSET Row
    BY WrittenIs DEF Histories
  <2> QED
    BY <2>1 DEF Row
<1>6. after = {pin[row] : row \in ServerRows(hist[c])}
  <2>1. after = {IF row.need THEN row ELSE [row EXCEPT !.pos = there] :
                   row \in ServerRows(Written(c, pos))}
    BY <1>5 DEF Pinned, ServerRows, IsLocal
  <2> QED
    BY <1>4, <2>1
<1>7. pin \in Surjection(ServerRows(hist[c]), after)
  BY <1>6 DEF Surjection
<1>8. hist[c] \in Histories
  BY DEF Types
<1> QED
  BY <1>7, <1>8, FiniteHistory, FS_Surjection

\* Resynced against the versions the server made, a marked version in force at
\* t carries the hold the server's own version in force at t carries.
LEMMA ResyncShows ==
    ASSUME NEW rows \in Histories, NEW local, Unmarked(rows, local) = ServerRows(rows),
           NEW t \in Nat, Known(Resynced(rows, local), t),
           Current(Resynced(rows, local), t).at \in local,
           Known(ServerRows(Resynced(rows, local)), t)
    PROVE  Current(Resynced(rows, local), t).held
             = Current(ServerRows(Resynced(rows, local)), t).held
<1> DEFINE sync(row) ==
             IF row.at \in local /\ Known(Unmarked(rows, local), Time(row.at))
             THEN [row EXCEPT !.held = Current(Unmarked(rows, local), Time(row.at)).held]
             ELSE row
           after == Resynced(rows, local)
           server == ServerRows(rows)
           last == Current(after, t)
           top == Current(server, t)
<1>1. after = {sync(row) : row \in rows} /\ after \in Histories
  BY ResyncedIs DEF Resynced
<1>2. \A row \in rows : sync(row).at = row.at /\ (row.at \notin local => sync(row) = row)
  BY DEF Histories, Row
<1>3. \A row \in server : row \in rows /\ row.at \notin local
  BY DEF Unmarked
<1>4. \A row \in rows : row.at \notin local => row \in server
  BY DEF Unmarked
<1>5. ServerRows(after) = server
  <2>1. \A row \in rows : IsLocal(sync(row)) <=> IsLocal(row)
    BY <1>2 DEF IsLocal
  <2>2. \A row \in rows : ~IsLocal(row) <=> row \in server
    BY DEF ServerRows
  <2> HIDE DEF sync, server, after
  <2>3. ServerRows(after) = {row \in after : ~IsLocal(row)}
    BY DEF ServerRows
  <2>4. \A row \in server : sync(row) = row /\ ~IsLocal(row) /\ row \in rows
    BY <1>2, <1>3, <2>2
  <2>5. \A row \in after : ~IsLocal(row) => row \in server
    BY <1>1, <2>1, <2>2, <2>4
  <2>6. \A row \in server : row \in after
    BY <1>1, <2>4
  <2> QED
    BY <2>3, <2>4, <2>5, <2>6
<1>6. server \in Histories
  BY DEF ServerRows, Histories, Keyed
<1>7. last \in UpTo(after, t) /\ \A other \in UpTo(after, t) : other.at <= last.at
  BY <1>1, CurrentIs
<1>8. Known(server, t) /\ top \in UpTo(server, t) /\ \A other \in UpTo(server, t) : other.at <= top.at
  BY <1>5, <1>6, CurrentIs
<1>9. PICK row \in rows : last = sync(row)
  BY <1>1, <1>7 DEF UpTo
<1>10. row.at \in local /\ row.at = last.at
  BY <1>2, <1>9
<1>11. /\ row.at \in Nat /\ Time(row.at) \in Nat /\ Time(row.at) <= t
       /\ top.at \in Nat /\ Time(top.at) \in Nat /\ Time(top.at) <= t
       /\ top.at <= row.at /\ Time(top.at) <= Time(row.at)
  <2>1. row.at \in Nat /\ top.at \in Nat
    BY <1>6, <1>8 DEF UpTo, Histories, Row
  <2>2. Time(row.at) <= t /\ Time(top.at) <= t
    BY <1>7, <1>8, <1>10 DEF UpTo
  <2>3. top \in UpTo(after, t)
    BY <1>5, <1>8 DEF UpTo, ServerRows
  <2>4. top.at <= row.at
    BY <1>7, <1>10, <2>3
  <2> HIDE DEF top
  <2> QED
    BY <2>1, <2>2, <2>4 DEF Time
<1> DEFINE base == Current(server, Time(row.at))
<1>12. top \in UpTo(server, Time(row.at))
  BY <1>8, <1>11 DEF UpTo
<1>13. Known(server, Time(row.at))
  BY <1>12 DEF Known
<1>14. /\ base \in UpTo(server, Time(row.at))
       /\ \A other \in UpTo(server, Time(row.at)) : other.at <= base.at
  BY <1>6, <1>13, CurrentIs
<1>15. base \in UpTo(server, t)
  <2>1. base \in server /\ base \in Row /\ Time(base.at) <= Time(row.at)
    BY <1>6, <1>14 DEF UpTo, Histories
  <2>2. Time(base.at) \in Int
    BY <2>1 DEF Time, Row
  <2> QED
    BY <1>11, <2>1, <2>2 DEF UpTo
<1>16. base = top
  <2>1. base.at <= top.at /\ top.at <= base.at
    BY <1>8, <1>12, <1>14, <1>15
  <2>2. base \in server /\ top \in server
    BY <1>8, <1>15 DEF UpTo
  <2>3. base.at \in Nat /\ top.at \in Nat
    BY <1>6, <2>2 DEF Histories, Row
  <2>4. base.at = top.at
    BY <2>1, <2>3
  <2> QED
    BY <1>6, <2>2, <2>4 DEF Histories, Keyed
<1>17. last.held = base.held
  <2>1. last = [row EXCEPT !.held = base.held]
    BY <1>9, <1>10, <1>13
  <2>2. row \in Row
    BY DEF Histories
  <2> HIDE DEF base, last
  <2> QED
    BY <2>1, <2>2 DEF Row
<1> QED
  BY <1>5, <1>16, <1>17

\* What ArrivingHoldIsSeen says of a card and a step.
HoldSeen(c) ==
    /\ AllMarked(c)'
    /\ Cardinality(ServerRows(hist'[c])) > Cardinality(ServerRows(hist[c]))
    => \A t \in {s \in 0..MaxTime : Known(hist'[c], s)} :
            Current(hist'[c], t).at \in local_rows'[c] => HoldVisible(c, t)'

LEMMA ArrivalSeen ==
    ASSUME IInv, NEW c \in Card, c \in dirty',
           NEW row \in [at : ServerStamps, pos : Pos, held : BOOLEAN, need : BOOLEAN],
           RowArrives(c, row), AllMarked(c)',
           NEW t \in 0..MaxTime, Known(hist'[c], t), Current(hist'[c], t).at \in local_rows'[c]
    PROVE  HoldVisible(c, t)'
<1> DEFINE marks == local_rows[c]
           rows == Upserted(hist[c], Reconciled(c, row))
<1>1. ~Requires(c, row) /\ local_rows'[c] = marks /\ marks # {}
  BY DEF RowArrives, Requires, IInv, Types
<1>2. hist'[c] = Resynced(rows, marks)
  BY <1>1 DEF RowArrives, IInv, Types
<1>3. hist[c] \in Histories /\ marks \subseteq Marks(hist[c]) /\ t \in Nat
  BY DEF IInv, Types
<1>4. Reconciled(c, row) \in Row /\ Reconciled(c, row).at <= 3 * MaxTime + 2 /\ ~IsLocal(Reconciled(c, row))
  BY ArrivingIs
<1>5. rows \in Histories /\ Marks(rows) = Marks(hist[c])
  BY <1>3, <1>4, UpsertedIs
<1> HIDE DEF rows
<1>6. Marks(Resynced(rows, marks)) = Marks(rows)
  BY <1>5, ResyncedIs
<1>7. \A at \in Marks(rows) : at \in marks
  BY <1>1, <1>2, <1>6 DEF AllMarked, Marks
<1>8. Unmarked(rows, marks) = ServerRows(rows)
  <2>1. \A other \in rows : IsLocal(other) => other.at \in marks
    BY <1>7 DEF Marks
  <2>2. \A other \in rows : other.at \in marks => IsLocal(other)
    BY <1>3, <1>5 DEF Marks, IsLocal
  <2> QED
    BY <2>1, <2>2 DEF Unmarked, ServerRows
<1>9. Known(ServerRows(hist'[c]), t) =>
        Current(hist'[c], t).held = Current(ServerRows(hist'[c]), t).held
  BY <1>1, <1>2, <1>3, <1>5, <1>8, ResyncShows
<1> QED
  BY <1>9 DEF HoldVisible

LEMMA HoldSteps ==
    ASSUME IInv, [Next]_vars, NEW c \in dirty \cap dirty'
    PROVE  HoldSeen(c)
<1> SUFFICES ASSUME AllMarked(c)',
                    Cardinality(ServerRows(hist'[c])) > Cardinality(ServerRows(hist[c])),
                    NEW t \in {s \in 0..MaxTime : Known(hist'[c], s)},
                    Current(hist'[c], t).at \in local_rows'[c]
             PROVE  HoldVisible(c, t)'
  BY DEF HoldSeen
<1>1. c \in Card /\ hist[c] \in Histories /\ Cardinality(ServerRows(hist[c])) \in Nat
  BY FiniteHistory DEF IInv, Types
<1>2. hist'[c] # hist[c]
  BY <1>1
<1>3. \A cards \in SUBSET Card, pos \in Pos : ~Place(cards, pos)
  <2> SUFFICES ASSUME NEW cards \in SUBSET Card, NEW pos \in Pos, Place(cards, pos) PROVE FALSE
    OBVIOUS
  <2>1. /\ Known(hist[c], clock)
        /\ hist'[c] = Pinned(Written(c, pos), Landed(c, pos))
    BY <1>1, <1>2 DEF Place
  <2>2. Cardinality(ServerRows(hist'[c])) <= Cardinality(ServerRows(hist[c]))
    BY <1>1, <2>1, MoveAddsNone DEF IInv
  <2>3. hist'[c] \in Histories
    BY <1>1, PlacePreserves DEF IInv, Types
  <2> QED
    BY <1>1, <2>2, <2>3, FiniteHistory
<1>4. \A d \in Card : \A row \in hist[d] : ~Reaps(d, row)
  <2> SUFFICES ASSUME NEW d \in Card, NEW row \in hist[d], Reaps(d, row) PROVE FALSE
    OBVIOUS
  <2>1. hist'[c] = hist[c] \ {row}
    BY <1>1, <1>2 DEF Reaps, RowDeleted, IInv, Types
  <2>2. ServerRows(hist'[c]) \in SUBSET ServerRows(hist[c])
    BY <2>1 DEF ServerRows
  <2>3. Cardinality(ServerRows(hist'[c])) <= Cardinality(ServerRows(hist[c]))
    BY <1>1, <2>2, FiniteHistory, FS_Subset
  <2>4. Cardinality(ServerRows(hist'[c])) \in Nat
    BY <1>1, <2>2, FiniteHistory, FS_Subset, FS_CardinalityType
  <2> QED
    BY <1>1, <2>3, <2>4
<1>5. ~(UNCHANGED hist)
  BY <1>2
<1>6. PICK d \in Card : \E row \in [at : ServerStamps, pos : Pos, held : BOOLEAN, need : BOOLEAN] :
        RowArrives(d, row)
  BY <1>3, <1>4, <1>5 DEF Next, Local, Remote, Flush, ZoneObservers, ClockMoves, vars
<1>7. d = c
  BY <1>1, <1>2, <1>6 DEF RowArrives, IInv, Types
<1> QED
  BY <1>1, <1>6, <1>7, ArrivalSeen

\* apply_row and resync_local_stock: a hold that arrives for a card whose moves
\* all wait is seen wherever one of its local versions is in force, now and at
\* every promotion to come.
THEOREM ArrivingHoldsAreSeen == Spec => ArrivingHoldIsSeen
<1>1. IInv /\ [Next]_vars => [\A c \in dirty \cap dirty' : HoldSeen(c)]_vars
  BY HoldSteps
<1> QED
  BY <1>1, Invariance, PTL DEF Spec, ArrivingHoldIsSeen, HoldSeen
=============================================================================
