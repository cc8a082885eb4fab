------------------------------ MODULE Freshness ------------------------------
(***************************************************************************)
(* How the two readers of the client's world, the matcher and the view,    *)
(* learn that it changed: dirty_roots, pending_promotions,                 *)
(* next_zone_promote and render_kick in core/src/client.rs, and the pump   *)
(* of wasm/src/lib.rs that re-emits the view.                              *)
(*                                                                         *)
(* A version stamped ahead of the clock takes effect when the clock gets   *)
(* there, and no row says so.  A card's version is its instant and the     *)
(* chain root it hangs from; the tile rows of all zones, and of tile_cards, *)
(* are their instants.  Rows may carry any root: how apply_row reconciles  *)
(* positions is PositionSync's matter.                                     *)
(*                                                                         *)
(* The clock is an estimate.  SteadySpec lets it only advance;             *)
(* WanderingSpec lets it also be corrected backwards.                      *)
(***************************************************************************)
EXTENDS Integers, FiniteSets, FiniteSetsExt

CONSTANTS
    Card, Root,
    MaxTime,        \* bound on the clock and on the stamps
    MaxVersions,    \* bound on the versions of one card
    MaxTiles        \* bound on the tile rows

ASSUME BoundAssumption == MaxTime \in Nat /\ MaxVersions \in Nat /\ MaxTiles \in Nat

Never == MaxTime + 1     \* next_zone_promote = None

VARIABLES
    hist,                   \* Card -> its versions
    tiles,                  \* the instants of the tile rows
    clock,                  \* clock_ms
    pending_promotions,     \* <<instant, card>> pairs
    next_zone_promote,      \* an instant, or Never
    dirty_roots,
    render_kick,
    changed,                \* the driver's own flag
    seen,                   \* Root -> the members its last evaluation saw
    shown,                  \* the cards and the tiles the view was last given
    gathered                \* the cards magnets took since then

world == <<hist, tiles>>
notes == <<pending_promotions, next_zone_promote, dirty_roots, render_kick, changed>>
readers == <<seen, shown, gathered>>
vars == <<world, clock, notes, readers>>

Version == [time : 0..MaxTime, root : Root]

-----------------------------------------------------------------------------

Upto(rows, t) == {row \in rows : row.time <= t}

\* current(): none or one version.
Current(rows, t) == {row \in Upto(rows, t) : \A other \in Upto(rows, t) : other.time <= row.time}

\* chain_root(): none or one root.
ChainRoot(rows, t) == {row.root : row \in Current(rows, t)}

Members(cards, r, t) ==
    {m \in Card \X Version : m[2] \in Current(cards[m[1]], t) /\ m[2].root = r}

\* What the view shows of the world at t: the cards' versions and the tile row
\* in force.
View(cards, rows, t) ==
    [cards |-> [c \in Card |-> Current(cards[c], t)],
     tile |-> Max({-1} \cup {s \in rows : s <= t})]

-----------------------------------------------------------------------------
(* tick().                                                                 *)

Due(t) == {p \in pending_promotions : p[1] <= t}

\* Mutant: a promotion marks nothing.
PromotedNone(t) == {}

\* The roots the promotions that have come due re-mark.
Promoted(t) == UNION {ChainRoot(hist[p[2]], t) : p \in Due(t)}

\* Mutant: the next promotion of a tile row is not looked up again.
NextPromoteOnce(t) == Never

\* The earliest tile row still to come.
NextPromote(t) == Min({Never} \cup {s \in tiles : s > t})

Kicked(t) == render_kick \/ Due(t) # {} \/ next_zone_promote <= t

\* The clock is read, what came due is noted, and, in budget, the dirty roots
\* are evaluated.  (The end of a debounce raises render_kick too.)
Advance(t, in_budget) ==
    LET dirty == dirty_roots \cup Promoted(t)
    IN  /\ clock' = t
        /\ pending_promotions' = pending_promotions \ Due(t)
        /\ next_zone_promote' = IF next_zone_promote <= t THEN NextPromote(t)
                                                          ELSE next_zone_promote
        /\ IF in_budget
           THEN /\ dirty_roots' = {}
                /\ seen' = [r \in Root |-> IF r \in dirty THEN Members(hist, r, t) ELSE seen[r]]
           ELSE dirty_roots' = dirty /\ UNCHANGED seen
        /\ UNCHANGED world

\* The tick at the head of a pump.
Tick(t, in_budget) ==
    /\ Advance(t, in_budget)
    /\ render_kick' = Kicked(t)
    /\ UNCHANGED <<changed, shown, gathered>>

\* The tick at the end of a pump, after which the view is emitted if need be.
PumpEnds(t, in_budget) ==
    /\ Advance(t, in_budget)
    /\ render_kick' = FALSE
    /\ changed' = FALSE
    /\ IF changed \/ Kicked(t)
       THEN shown' = View(hist, tiles, t) /\ gathered' = {}
       ELSE UNCHANGED <<shown, gathered>>

\* sample_clock() and note_drift(): an answer or a heartbeat moves the estimate
\* in the middle of a pump.
Sample(t) ==
    /\ t # clock
    /\ clock' = t
    /\ UNCHANGED <<world, notes, readers>>

-----------------------------------------------------------------------------
(* Rows and moves.                                                         *)

Upserted(rows, row) == {other \in rows : other.time # row.time} \cup {row}

\* external: a version of c arrives or is updated.
CardArrives(c, row) ==
    /\ hist' = [hist EXCEPT ![c] = Upserted(@, row)]
    /\ Cardinality(hist'[c]) <= MaxVersions
    /\ dirty_roots' = dirty_roots \cup ChainRoot(hist'[c], clock)
    /\ pending_promotions' = IF row.time > clock
                             THEN pending_promotions \cup {<<row.time, c>>}
                             ELSE pending_promotions
    /\ changed' = TRUE
    /\ UNCHANGED <<tiles, clock, next_zone_promote, render_kick, readers>>

\* external: a version is deleted: one superseded for good, or the oldest of a
\* destroyed card.
CardDeleted(c, row) ==
    /\ \A other \in hist[c] : row.time <= other.time
    /\ hist' = [hist EXCEPT ![c] = @ \ {row}]
    /\ changed' = TRUE
    /\ UNCHANGED <<tiles, clock, pending_promotions, next_zone_promote, dirty_roots,
                   render_kick, readers>>

\* external: a zone or tile_cards row arrives.
TileArrives(s) ==
    /\ tiles' = tiles \cup {s}
    /\ Cardinality(tiles') <= MaxTiles
    /\ next_zone_promote' = IF s > clock THEN Min({next_zone_promote, s}) ELSE next_zone_promote
    /\ changed' = TRUE
    /\ UNCHANGED <<hist, clock, pending_promotions, dirty_roots, render_kick, readers>>

\* external: it is deleted; its instant is noted all the same.
TileDeleted(s) ==
    /\ s \in tiles
    /\ tiles' = tiles \ {s}
    /\ next_zone_promote' = IF s > clock THEN Min({next_zone_promote, s}) ELSE next_zone_promote
    /\ changed' = TRUE
    /\ UNCHANGED <<hist, clock, pending_promotions, dirty_roots, render_kick, readers>>

\* place() of c and the cards it carries on the chain r: a version now, pinned
\* over those to come unless the server requires them, and the chains moved to
\* and left are marked.
Placed(cards, c, r, required) ==
    /\ c \in cards
    /\ \A d \in cards : Current(hist[d], clock) # {}
    /\ hist' = [d \in Card |->
                   IF d \in cards
                   THEN {IF row.time > clock /\ required THEN row ELSE [row EXCEPT !.root = r] :
                            row \in Upserted(hist[d], [time |-> clock, root |-> r])}
                   ELSE hist[d]]
    /\ \A d \in cards : Cardinality(hist'[d]) <= MaxVersions
    /\ dirty_roots' = dirty_roots \cup {r} \cup ChainRoot(hist[c], clock)
    /\ UNCHANGED <<tiles, clock, pending_promotions, next_zone_promote, render_kick, seen, shown>>

\* The player moves cards: the driver flags the view.
Place(cards, c, r) ==
    /\ \E required \in BOOLEAN : Placed(cards, c, r, required)
    /\ changed' = TRUE
    /\ UNCHANGED gathered

\* A magnet takes a loose card, inside a tick: nothing flags the view.
Gather(c, r) ==
    /\ \E required \in BOOLEAN : Placed({c}, c, r, required)
    /\ gathered' = gathered \cup {c}
    /\ UNCHANGED changed

-----------------------------------------------------------------------------

Init ==
    /\ hist = [c \in Card |-> {}]
    /\ tiles = {}
    /\ clock = 0
    /\ pending_promotions = {}
    /\ next_zone_promote = Never
    /\ dirty_roots = {}
    /\ render_kick = FALSE
    /\ changed = FALSE
    /\ seen = [r \in Root |-> {}]
    /\ shown = View(hist, tiles, 0)
    /\ gathered = {}

Board ==
    \/ \E c \in Card, row \in Version : CardArrives(c, row)
    \/ \E c \in Card : \E row \in hist[c] : CardDeleted(c, row)
    \/ \E s \in 0..MaxTime : TileArrives(s)
    \/ \E s \in 0..MaxTime : TileDeleted(s)
    \/ \E cards \in SUBSET Card, c \in Card, r \in Root : Place(cards, c, r)
    \/ \E c \in Card, r \in Root : Gather(c, r)

TimeMoves(t) ==
    \/ \E in_budget \in BOOLEAN : Tick(t, in_budget)
    \/ \E in_budget \in BOOLEAN : PumpEnds(t, in_budget)
    \/ Sample(t)

Steady == Board \/ \E t \in clock..MaxTime : TimeMoves(t)

Wandering == Board \/ \E t \in 0..MaxTime : TimeMoves(t)

SteadySpec == Init /\ [][Steady]_vars

WanderingSpec == Init /\ [][Wandering]_vars

\* The driver pumps for ever, and the match pass is in budget again and again.
Pumped == \E t \in clock..MaxTime : PumpEnds(t, TRUE)

FairSpec == SteadySpec /\ WF_vars(Pumped)

-----------------------------------------------------------------------------

\* Every variable has its type, and a card has one version at an instant.
TypeOK ==
    /\ \A c \in Card :
        /\ hist[c] \subseteq Version
        /\ \A row, other \in hist[c] : row.time = other.time => row = other
    /\ tiles \subseteq 0..MaxTime
    /\ clock \in 0..MaxTime
    /\ pending_promotions \subseteq (0..MaxTime) \X Card
    /\ next_zone_promote \in 0..Never
    /\ dirty_roots \subseteq Root
    /\ render_kick \in BOOLEAN /\ changed \in BOOLEAN
    /\ gathered \subseteq Card

\* Nobody joins a chain unnoticed: unless the chain is marked, or the next tick
\* will mark it, its last evaluation saw every member as it now stands, whether
\* a row, a move or the mere passing of time brought it there.  (And every
\* variable has its type.)
MembersSeen ==
    /\ TypeOK
    /\ \A r \in Root : r \notin dirty_roots =>
        \A m \in Members(hist, r, clock) :
            m \in seen[r] \/ \E p \in Due(clock) : p[2] = m[1]

\* Nothing takes effect unshown: unless the next pump re-emits it, the view has
\* been given what is in force, but for the cards magnets took.
ViewFollows ==
    changed \/ Kicked(clock) \/
        LET now == View(hist, tiles, clock)
        IN  /\ \A c \in Card \ gathered : shown.cards[c] = now.cards[c]
            /\ shown.tile = now.tile

\* What comes into force is evaluated in the end, if it stays in force: no
\* promotion is lost between a row, a tick, a sample and the budget.
InForceIsEvaluated ==
    \A c \in Card, row \in Version :
        row \in Current(hist[c], clock) ~>
            (row \notin Current(hist[c], clock) \/ <<c, row>> \in seen[row.root])

\* client.rs, pending_promotions: "tick drains the due entries and re-marks
\* their chain roots dirty", lest "the matcher never re-evaluates a card" whose
\* last version comes into force.
PromotionIsMarked ==
    \A r \in Root : r \notin dirty_roots /\ Due(clock) = {} =>
        \A m \in Members(hist, r, clock) :
            (\A row \in hist[m[1]] : row.time <= m[2].time) => m \in seen[r]

\* actions.rs: "Re-evaluation on every stack/card change keeps the queue
\* current": a chain whose last evaluation saw a card it has lost is marked.
DepartureIsMarked ==
    \A r \in Root : r \notin dirty_roots /\ Due(clock) = {} =>
        seen[r] \subseteq Members(hist, r, clock)

\* wasm lib.rs: when "the local world changed" the view is emitted again, lest
\* "the renderer keeps the stale (pre-drop) cell".
LocalMoveIsShown ==
    changed \/ Kicked(clock) \/
        \A c \in Card : shown.cards[c] = Current(hist[c], clock)
=============================================================================
