---------------------------- MODULE PositionSync ----------------------------
(***************************************************************************)
(* Client-authoritative card positions: place, build_move_cards,           *)
(* flush_positions and the ZoneObservers flush of core/src/client.rs, the  *)
(* reconciliation in its apply_row, and the version store of               *)
(* core/src/world.rs they work on.                                         *)
(*                                                                         *)
(* A version is stamped with its time and a sequence within it.  Local     *)
(* rows take sequence 1 and server rows 0 or 2, so a local row can lose or *)
(* win against a server row of the same instant; a second local row of one *)
(* instant replaces the first, which it would shadow for ever anyway.  A   *)
(* position stands for macro_zone, micro_location and the placement bits;  *)
(* held for the stock bits that block a binding; need for pos_need.        *)
(* plan_place is external: any cards may be placed anywhere together.      *)
(***************************************************************************)
EXTENDS Integers, FiniteSets, FiniteSetsExt

CONSTANTS
    Card, Pos, Zone,
    ZoneOf,         \* Pos -> Zone
    Carrier,        \* the cards whose moves always sync: is_anchor_carrier
    NoPos,
    MaxTime,        \* bound on the clock and on the stamps
    ServerStamps,   \* the stamps the server gives
    MaxRows         \* bound on the server versions of one card

ASSUME PositionAssumption ==
    /\ ZoneOf \in [Pos -> Zone]
    /\ Carrier \subseteq Card
    /\ NoPos \notin Pos
    /\ MaxTime \in Nat \ {0} /\ MaxRows \in Nat
    /\ ServerStamps \subseteq {at \in 0..3 * MaxTime + 2 : at % 3 # 1}

VARIABLES
    hist,           \* Card -> its versions
    dirty,          \* dirty_positions
    local_rows,     \* Card -> the stamps of its local versions
    shared,         \* the zones with more than one observer
    clock,          \* clock_ms
    moved,          \* external: Card -> the position the server was told last
    chosen          \* the player's last choice, until the server required another

vars == <<hist, dirty, local_rows, shared, clock, moved, chosen>>

Stamp(time, seq) == 3 * time + seq
Time(at) == at \div 3
IsLocal(row) == row.at % 3 = 1

Row == [at : Nat, pos : Pos, held : BOOLEAN, need : BOOLEAN]

ServerRows(rows) == {row \in rows : ~IsLocal(row)}

Latest(rows) == CHOOSE row \in rows : \A other \in rows : other.at <= row.at

UpTo(rows, t) == {row \in rows : Time(row.at) <= t}

\* current(): the version in force at t.
Known(rows, t) == UpTo(rows, t) # {}
Current(rows, t) == Latest(UpTo(rows, t))

\* apply(): a version replaces the one of its stamp.
Upserted(rows, row) == {other \in rows : other.at # row.at} \cup {row}

-----------------------------------------------------------------------------

\* Mutant: a move leaves the versions already stored alone.
PinnedNone(rows, pos) == rows

\* pin_position: every version the server does not require takes the position.
Pinned(rows, pos) == {IF row.need THEN row ELSE [row EXCEPT !.pos = pos] : row \in rows}

\* The versions resync_local_stock takes for the server's: those not marked, a
\* move already sent among them.
Unmarked(rows, local) == {row \in rows : row.at \notin local}

\* Mutant: the hold of the newest server row, promoted or not, is taken.
ResyncedNewest(rows, local) ==
    {IF row.at \in local /\ Unmarked(rows, local) # {}
     THEN [row EXCEPT !.held = Latest(Unmarked(rows, local)).held]
     ELSE row : row \in rows}

\* resync_local_stock: a marked version takes the hold of the unmarked version
\* in force at its own time.
Resynced(rows, local) ==
    {IF row.at \in local /\ Known(Unmarked(rows, local), Time(row.at))
     THEN [row EXCEPT !.held = Current(Unmarked(rows, local), Time(row.at)).held]
     ELSE row : row \in rows}

\* Mutant: cards that are not sent are cleared with the rest.
MoveCardsClearing(cards) ==
    /\ moved' = [c \in Card |-> IF c \in cards /\ Known(hist'[c], clock)
                                THEN Current(hist'[c], clock).pos ELSE moved[c]]
    /\ dirty' = {}
    /\ local_rows' = [c \in Card |-> {}]

\* build_move_cards, on the world the handler has written so far.
MoveCards(cards) ==
    /\ moved' = [c \in Card |-> IF c \in cards /\ Known(hist'[c], clock)
                                THEN Current(hist'[c], clock).pos ELSE moved[c]]
    /\ dirty' = dirty \ cards
    /\ local_rows' = [c \in Card |-> IF c \in cards THEN {} ELSE local_rows[c]]

\* What a move of c to pos leaves in its history: a local version now, after
\* which the position in force is pinned over every version.
Written(c, pos) ==
    Upserted(hist[c], [at |-> Stamp(clock, 1), pos |-> pos,
                       held |-> Current(hist[c], clock).held, need |-> FALSE])

Landed(c, pos) == Current(Written(c, pos), clock).pos

\* place() of a card and those it carries; cards unknown now are passed over.
\* All go out at once when one of them is a carrier or lands in shared space,
\* and wait for a commit otherwise.
Place(cards, pos) ==
    LET moving == {c \in cards : Known(hist[c], clock)}
    IN  /\ moving # {}
        /\ hist' = [c \in Card |-> IF c \in moving THEN Pinned(Written(c, pos), Landed(c, pos))
                                                 ELSE hist[c]]
        /\ chosen' = [c \in Card |-> IF c \in moving THEN Landed(c, pos) ELSE chosen[c]]
        /\ IF \E c \in moving : c \in Carrier \/ ZoneOf[Landed(c, pos)] \in shared
           THEN MoveCards(moving)
           ELSE /\ dirty' = dirty \cup moving
                /\ local_rows' = [c \in Card |-> IF c \in moving
                                                 THEN local_rows[c] \cup {Stamp(clock, 1)}
                                                 ELSE local_rows[c]]
                /\ UNCHANGED moved
        /\ UNCHANGED <<shared, clock>>

\* A choice yields to the required version in force when positions go out.
Overridden(cards) ==
    [c \in Card |-> IF /\ c \in cards /\ Known(hist[c], clock)
                       /\ Current(hist[c], clock).need
                    THEN NoPos ELSE chosen[c]]

\* flush_positions(), the head of every proposal.
Flush ==
    /\ UNCHANGED hist
    /\ MoveCards(dirty)
    /\ chosen' = Overridden(dirty)
    /\ UNCHANGED <<shared, clock>>

\* Mutant: an observer arriving flushes nothing.
NewlySharedNone(z, many) == {}

\* The dirty cards a ZoneObservers message makes public.
NewlyShared(z, many) ==
    IF many /\ z \notin shared
    THEN {c \in dirty : Known(hist[c], clock) /\ ZoneOf[Current(hist[c], clock).pos] = z}
    ELSE {}

ZoneObservers(z, many) ==
    /\ UNCHANGED hist
    /\ shared' = IF many THEN shared \cup {z} ELSE shared \ {z}
    /\ MoveCards(NewlyShared(z, many))
    /\ chosen' = Overridden(dirty)
    /\ UNCHANGED clock

-----------------------------------------------------------------------------

\* apply_row: a version arriving for a dirty card keeps the local position.
Reconciled(c, row) ==
    IF c \in dirty /\ ~row.need /\ Known(hist[c], clock)
    THEN [row EXCEPT !.pos = Current(hist[c], clock).pos]
    ELSE row

\* A required position drops the marks of the local move, and only the marks.
Requires(c, row) == c \in dirty /\ row.need

\* external: a version of c arrives, in any order of stamps.
RowArrives(c, row) ==
    LET marks == IF Requires(c, row) THEN {} ELSE local_rows[c]
        rows == Upserted(hist[c], Reconciled(c, row))
    IN  /\ Cardinality(ServerRows(rows)) <= MaxRows
        /\ hist' = [hist EXCEPT ![c] = IF marks = {} THEN rows ELSE Resynced(rows, marks)]
        /\ dirty' = IF Requires(c, row) THEN dirty \ {c} ELSE dirty
        /\ local_rows' = [local_rows EXCEPT ![c] = marks]
        /\ chosen' = IF row.need \/ (Known(hist[c], clock) /\ Current(hist[c], clock).need)
                     THEN [chosen EXCEPT ![c] = NoPos] ELSE chosen
        /\ UNCHANGED <<shared, clock, moved>>

\* external: the server deletes a version: a superseded one it reaps, or any one
\* of a card it destroys.  The local marks go only with the last version.
RowDeleted(c, row) ==
    /\ row \in ServerRows(hist[c])
    /\ hist' = [hist EXCEPT ![c] = @ \ {row}]
    /\ local_rows' = IF hist'[c] = {} THEN [local_rows EXCEPT ![c] = {}] ELSE local_rows
    /\ UNCHANGED <<dirty, shared, clock, moved, chosen>>

\* A superseded version, one no estimate of the clock reads any more.
Reaps(c, row) ==
    /\ \E other \in ServerRows(hist[c]) : other.at > row.at /\ Time(other.at) <= 1
    /\ RowDeleted(c, row)

\* The versions of a destroyed card go oldest first.
Destroys(c, row) ==
    /\ \A other \in ServerRows(hist[c]) : row.at <= other.at
    /\ RowDeleted(c, row)

\* The estimate advances, and is corrected backwards now and then, by less than
\* the age of any known card.
ClockMoves(t) ==
    /\ t # clock
    /\ \A c \in Card : Known(hist[c], clock) => Known(hist[c], t)
    /\ clock' = t
    /\ UNCHANGED <<hist, dirty, local_rows, shared, moved, chosen>>

Init ==
    /\ hist = [c \in Card |-> {}]
    /\ dirty = {}
    /\ local_rows = [c \in Card |-> {}]
    /\ shared = {}
    /\ clock = 1
    /\ moved = [c \in Card |-> NoPos]
    /\ chosen = [c \in Card |-> NoPos]

Local ==
    \/ \E cards \in SUBSET Card, pos \in Pos : Place(cards, pos)
    \/ Flush
    \/ \E z \in Zone, many \in BOOLEAN : ZoneObservers(z, many)
    \/ \E t \in 1..MaxTime : ClockMoves(t)

Remote ==
    \/ \E c \in Card : \E row \in [at : ServerStamps, pos : Pos, held : BOOLEAN, need : BOOLEAN] :
            RowArrives(c, row)
    \/ \E c \in Card : \E row \in hist[c] : Reaps(c, row)

Next == Local \/ Remote

Spec == Init /\ [][Next]_vars

\* The same with cards the server destroys.
MortalSpec ==
    Init /\ [][Next \/ \E c \in Card : \E row \in hist[c] : Destroys(c, row)]_vars

-----------------------------------------------------------------------------

\* Every variable has its type, and a stamp names one version.
TypeOK ==
    /\ \A c \in Card :
        /\ hist[c] \subseteq Row
        /\ \A row, other \in hist[c] : row.at = other.at => row = other
        /\ local_rows[c] \subseteq {row.at : row \in {r \in hist[c] : IsLocal(r)}}
    /\ dirty \subseteq Card
    /\ shared \subseteq Zone
    /\ clock \in 1..MaxTime
    /\ moved \in [Card -> Pos \cup {NoPos}]
    /\ chosen \in [Card -> Pos \cup {NoPos}]

\* While a move waits for its commit the card stays where the player put it,
\* whatever arrives or promotes and however the clock is corrected, unless a
\* version in force is one the server requires.
LocalMoveSticks ==
    \A c \in dirty :
        LET row == Current(hist[c], clock)
        IN  Known(hist[c], clock) /\ chosen[c] # NoPos => row.pos = chosen[c] \/ row.need

\* No move is forgotten: the last the server was told of a card that is not
\* dirty is where the player put it, until the server required another place.
NoMoveForgotten ==
    \A c \in Card : chosen[c] # NoPos /\ c \notin dirty => moved[c] = chosen[c]

\* In shared space nothing lingers locally: a move that waits for its commit is
\* to a place nobody else observes, whoever came to observe what meanwhile, until
\* the server requires another place.  (And every variable has its type.)
SharedSpaceIsSynced ==
    /\ TypeOK
    /\ \A c \in dirty : chosen[c] # NoPos => ZoneOf[chosen[c]] \notin shared

\* At t the view of c carries the hold the server's own versions carry.
HoldVisible(c, t) ==
    Known(ServerRows(hist[c]), t) =>
        Current(hist[c], t).held = Current(ServerRows(hist[c]), t).held

\* No move of c was sent before those that wait: every local version is marked.
AllMarked(c) == \A row \in hist[c] : IsLocal(row) => row.at \in local_rows[c]

\* A hold that arrives for a card whose moves all wait is seen wherever a local
\* version is in force, now and at every promotion to come, whatever the order
\* of the stamps.
ArrivingHoldIsSeen ==
    [][\A c \in dirty \cap dirty' :
        /\ AllMarked(c)'
        /\ Cardinality(ServerRows(hist'[c])) > Cardinality(ServerRows(hist[c]))
        => \A t \in {s \in 0..MaxTime : Known(hist'[c], s)} :
                Current(hist'[c], t).at \in local_rows'[c] => HoldVisible(c, t)']_vars

\* client.rs: "an in-flight hold arriving at an EARLIER stamp is never shadowed
\* by a later local row".
HoldNeverShadowed == \A c \in Card : HoldVisible(c, clock)

\* client.rs: "the server REQUIRES this position (a spawn / authoritative
\* relocation), so adopt it".
RequiredIsAdopted ==
    [][\A c \in Card : \A row \in hist'[c] \ hist[c] :
        (/\ row.need /\ c \in dirty
         /\ Time(row.at) <= clock /\ row = Latest(ServerRows(UpTo(hist'[c], clock))))
            => Current(hist'[c], clock).pos = row.pos]_vars

\* world.rs: a deletion drops the version "(and the card if it was the last)".
DestroyedIsGone == \A c \in Card : ServerRows(hist[c]) = {} => hist[c] = {}
=============================================================================
