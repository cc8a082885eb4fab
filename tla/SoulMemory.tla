----------------------------- MODULE SoulMemory -----------------------------
(***************************************************************************)
(* What a soul knows and what garbage collection leaves of it: the per-    *)
(* soul watermarks of core/src/zones.rs (update_memory,                    *)
(* enforce_memory_lru, card_view_time, zone_card_pins), the version store  *)
(* of core/src/world.rs with its gc, and the matcher's memory view in      *)
(* core/src/client.rs.                                                     *)
(*                                                                         *)
(* Each soul has the one anchor discover gives it, never cleared; the      *)
(* anchor is its position, and Coverage[p] stands for anchor_coverage, a   *)
(* tier being its rank plus one, 0 where nothing reaches.  A version is    *)
(* its instant and its zone; a gc reads nothing else of it.                *)
(***************************************************************************)
EXTENDS Integers, FiniteSets, FiniteSetsExt

CONSTANTS
    Soul, Zone, Card,
    Position,       \* where an anchor can stand, with its radii
    NoPosition,     \* a soul not discovered yet
    Coverage,       \* Position -> Zone -> 0..4
    MaxMemory,      \* max_memory_zones
    MaxTime,        \* bound on the clock and on the stamps
    MaxVersions     \* bound on the versions of one card

Active == 4
Hot == 3

ASSUME MemoryAssumption ==
    /\ IsFiniteSet(Zone)
    /\ NoPosition \notin Position
    /\ Coverage \in [Position -> [Zone -> 0..Active]]
    /\ MaxMemory \in Nat /\ MaxTime \in Nat /\ MaxVersions \in Nat

VARIABLES
    anchors,        \* Soul -> its position
    soul_mem,       \* Soul -> Zone -> MemEntry or NoEntry
    hist,           \* Card -> its versions
    clock           \* clock_ms

vars == <<anchors, soul_mem, hist, clock>>

NoEntry == [known |-> FALSE, card_ms |-> 0, zone_ms |-> 0, present |-> FALSE]

Version == [time : 0..MaxTime, zone : Zone]

-----------------------------------------------------------------------------
(* The store.                                                              *)

Upto(rows, t) == {row \in rows : row.time <= t}
Latest(rows) == CHOOSE row \in rows : \A other \in rows : other.time <= row.time

\* current(): what is in force at t, none or one version.
Current(rows, t) == IF Upto(rows, t) = {} THEN {} ELSE {Latest(Upto(rows, t))}

\* zone_of(): the zone of the newest version, promoted or not.
ZoneOf(rows) == Latest(rows).zone

-----------------------------------------------------------------------------
(* The watermarks.                                                         *)

Tier(s, z) == IF anchors'[s] = NoPosition THEN 0 ELSE Coverage[anchors'[s]][z]

\* Mutant: leaving a zone stamps what is remembered of it.
RememberedOnLeaving(s, z) ==
    LET e == soul_mem[s][z]
    IN  CASE Tier(s, z) > 0 -> [known |-> TRUE, zone_ms |-> clock, present |-> TRUE,
                                card_ms |-> IF Tier(s, z) >= Hot \/ ~e.known THEN clock ELSE e.card_ms]
          [] OTHER -> IF e.known THEN [e EXCEPT !.present = FALSE, !.card_ms = clock] ELSE e

\* What s knows of z once its coverage is looked at again.
Remembered(s, z) ==
    LET e == soul_mem[s][z]
    IN  CASE Tier(s, z) > 0 -> [known |-> TRUE, zone_ms |-> clock, present |-> TRUE,
                                card_ms |-> IF Tier(s, z) >= Hot \/ ~e.known THEN clock ELSE e.card_ms]
          [] OTHER -> [e EXCEPT !.present = FALSE]

Recency(e) == Max({e.card_ms, e.zone_ms})

Known(mem) == {z \in Zone : mem[z].known}

\* Mutant: the least recent zone goes, present or not.
ForgettableAnyone(mem) ==
    {V \in SUBSET Known(mem) :
        /\ Cardinality(V) = Max({0, Cardinality(Known(mem)) - MaxMemory})
        /\ \A v \in V, z \in Known(mem) \ V : Recency(mem[v]) <= Recency(mem[z])}

\* The zones enforce_memory_lru may forget: frozen ones, least recent first.
Forgettable(mem) ==
    LET frozen == {z \in Known(mem) : ~mem[z].present}
        over == Max({0, Cardinality(Known(mem)) - MaxMemory})
    IN  {V \in SUBSET frozen :
            /\ Cardinality(V) = Min({over, Cardinality(frozen)})
            /\ \A v \in V, z \in frozen \ V : Recency(mem[v]) <= Recency(mem[z])}

\* update_memory(): the souls with an anchor are looked at, then all are trimmed.
UpdateMemory ==
    LET seen == [s \in Soul |-> IF anchors'[s] = NoPosition THEN soul_mem[s]
                                ELSE [z \in Zone |-> Remembered(s, z)]]
    IN  \E forgotten \in [Soul -> SUBSET Zone] :
            /\ \A s \in Soul : forgotten[s] \in Forgettable(seen[s])
            /\ soul_mem' = [s \in Soul |-> [z \in Zone |-> IF z \in forgotten[s] THEN NoEntry
                                                          ELSE seen[s][z]]]

\* discover() anchors a soul where it stands; an unmoved anchor is left alone.
SetAnchor(s, p) ==
    /\ anchors[s] # p
    /\ anchors' = [anchors EXCEPT ![s] = p]
    /\ UpdateMemory
    /\ UNCHANGED <<hist, clock>>

\* Another anchor or a container hold has the coverage recomputed.
Recompute ==
    /\ UNCHANGED anchors
    /\ UpdateMemory
    /\ UNCHANGED <<hist, clock>>

-----------------------------------------------------------------------------
(* Views, rows and collection.                                             *)

\* card_view_time(), where s knows z.
ViewTime(s, z) == IF soul_mem[s][z].present THEN clock ELSE soul_mem[s][z].card_ms

\* What the matcher reads of a card for s: a zone s does not know is read live.
View(s, rows) ==
    IF rows = {} THEN {}
    ELSE Current(rows, IF soul_mem[s][ZoneOf(rows)].known THEN ViewTime(s, ZoneOf(rows)) ELSE clock)

\* zone_card_pins().
Pins(z) == {soul_mem[s][z].card_ms : s \in {t \in Soul : soul_mem[t][z].known
                                                         /\ ~soul_mem[t][z].present}}

\* The zone whose pins hold for a card: its current version's, else its newest.
PinnedZone(rows) == IF Upto(rows, clock) = {} THEN ZoneOf(rows) ELSE Latest(Upto(rows, clock)).zone

\* Mutant: only what is in force and what is to come is kept.
KeptUnpinned(rows) ==
    Current(rows, clock) \cup {row \in rows : row.time > clock}

\* gc_history(): the future, what is in force, and what was at every pin.
Kept(rows) ==
    IF Cardinality(rows) <= 1 THEN rows
    ELSE Current(rows, clock) \cup {row \in rows : row.time > clock}
             \cup UNION {Current(rows, t) : t \in Pins(PinnedZone(rows))}

\* Client::gc().
Gc ==
    /\ hist' = [c \in Card |-> Kept(hist[c])]
    /\ UNCHANGED <<anchors, soul_mem, clock>>

\* external: a version of c arrives or is updated.
RowArrives(c, row) ==
    LET rows == {r \in hist[c] : r.time # row.time} \cup {row}
    IN  /\ Cardinality(rows) <= MaxVersions
        /\ hist' = [hist EXCEPT ![c] = rows]
        /\ UNCHANGED <<anchors, soul_mem, clock>>

\* external: the server deletes a version.
RowDeleted(c, row) ==
    /\ hist' = [hist EXCEPT ![c] = @ \ {row}]
    /\ UNCHANGED <<anchors, soul_mem, clock>>

\* The estimate advances, and is corrected backwards now and then.
ClockMoves(t) ==
    /\ t # clock
    /\ clock' = t
    /\ UNCHANGED <<anchors, soul_mem, hist>>

Init ==
    /\ anchors = [s \in Soul |-> NoPosition]
    /\ soul_mem = [s \in Soul |-> [z \in Zone |-> NoEntry]]
    /\ hist = [c \in Card |-> {}]
    /\ clock = 0

Next ==
    \/ \E s \in Soul, p \in Position : SetAnchor(s, p)
    \/ Recompute
    \/ Gc
    \/ \E c \in Card, row \in Version : RowArrives(c, row)
    \/ \E c \in Card : \E row \in hist[c] : RowDeleted(c, row)
    \/ \E t \in 0..MaxTime : ClockMoves(t)

Spec == Init /\ [][Next]_vars

-----------------------------------------------------------------------------

\* Every variable has its type, and a card has one version at an instant.
TypeOK ==
    /\ anchors \in [Soul -> Position \cup {NoPosition}]
    /\ soul_mem \in [Soul -> [Zone -> [known : BOOLEAN, card_ms : 0..MaxTime,
                                       zone_ms : 0..MaxTime, present : BOOLEAN]]]
    /\ \A c \in Card : \A row, other \in hist[c] : row.time = other.time => row = other
    /\ clock \in 0..MaxTime

\* A soul remembers no more zones than it may, unless it stands among them all;
\* and where it stands it always knows, however full its memory is.  (And every
\* variable has its type.)
MemoryBounded ==
    /\ TypeOK
    /\ \A s \in Soul :
        /\ Cardinality(Known(soul_mem[s])) > MaxMemory =>
                \A z \in Known(soul_mem[s]) : soul_mem[s][z].present
        /\ anchors[s] # NoPosition =>
                \A z \in Zone : Coverage[anchors[s]][z] > 0 <=> soul_mem[s][z].present

Settled(rows) == \A row, other \in rows : row.zone = other.zone

\* zones.rs: "the retained rows become the soul's memory of that zone".  A card
\* that is in a zone s has left, and stays in it, reads to s as it did, through
\* the collector, corrections of the clock, later versions of the card and the
\* moves of s and of others, unless the server amends what was in force by the
\* watermark.
Away(s, z) == soul_mem[s][z].known /\ ~soul_mem[s][z].present

RemembersAsLeft ==
    [][\A s \in Soul, c \in Card, z \in Zone :
        (/\ hist[c] # {} /\ z = ZoneOf(hist[c]) /\ Settled(hist[c] \cup hist'[c])
         /\ Away(s, z) /\ Away(s, z)'
         /\ Gc \/ Upto(hist'[c], soul_mem[s][z].card_ms) = Upto(hist[c], soul_mem[s][z].card_ms))
            => View(s, hist[c])' = View(s, hist[c])]_vars

\* Collection is invisible: for a card that stayed in its zone, every soul reads
\* what it read before, and so does everybody from now on.
GcIsInvisible ==
    [][Gc => \A c \in Card : Settled(hist[c]) =>
            /\ \A s \in Soul : View(s, hist[c])' = View(s, hist[c])
            /\ \A t \in clock..MaxTime : Current(hist'[c], t) = Current(hist[c], t)]_vars

\* client.rs: gc reaps the rows "no soul remembers", keeping "the rows pinned by
\* every soul's frozen memory watermark for its zone".
GcKeepsRemembered ==
    [][Gc => \A c \in Card, s \in Soul : View(s, hist[c])' = View(s, hist[c])]_vars

\* zones.rs, of what gc pins: "Present souls pin the global-current row, kept
\* anyway": what is in force at the watermark a soul will leave with is kept too.
GcKeepsWatermarks ==
    [][Gc => \A c \in Card, s \in Soul :
        (/\ hist[c] # {} /\ Settled(hist[c])
         /\ soul_mem[s][ZoneOf(hist[c])].present)
            => LET watermark == soul_mem[s][ZoneOf(hist[c])].card_ms
               IN  Current(hist'[c], watermark) = Current(hist[c], watermark)]_vars

\* client.rs: each card is read "live (now) where the soul is present
\* (active/hot), or the frozen remembered moment for warm/cold zones".
LiveOnlyWhereHot ==
    \A s \in Soul, z \in Zone :
        soul_mem[s][z].known /\ soul_mem[s][z].card_ms # clock /\ ViewTime(s, z) = clock =>
            anchors[s] # NoPosition /\ Coverage[anchors[s]][z] >= Hot

\* zones.rs: "on leaving, the timestamps freeze at the last present moment".
FreezesOnLeaving ==
    [][\A s \in Soul, z \in Zone :
        (/\ anchors[s] # NoPosition /\ Coverage[anchors[s]][z] >= Hot
         /\ anchors'[s] # anchors[s] /\ Coverage[anchors'[s]][z] = 0
         /\ soul_mem'[s][z].known)
            => soul_mem'[s][z].card_ms = clock]_vars
=============================================================================
