------------------------------ MODULE ZoneSubs ------------------------------
(***************************************************************************)
(* The sticky subscription manager of core/src/zones.rs together with the  *)
(* part of core/src/client.rs that turns its intents into gate frames.     *)
(*                                                                         *)
(* Anchors and container holds decide a tier per zone; the tier decides    *)
(* which of a zone's two subscriptions are wanted; wanted ones are opened  *)
(* and the others linger as close-candidates until warmth (note_update) or *)
(* capacity evicts them.  An open Zone subscription holds its region.      *)
(*                                                                         *)
(* A tier is its rank plus one, 0 for an untracked zone.  An anchor is its *)
(* position: Coverage[p] stands for anchor_coverage.  HashMap iteration    *)
(* order is left open.  Intents are queued per target, because intents of  *)
(* different targets commute; the gate's subscriptions are counted per     *)
(* target, because the client keeps at most one sid for each.              *)
(***************************************************************************)
EXTENDS Integers, FiniteSets, Sequences, FiniteSetsExt

CONSTANTS
    Zone, Region,
    RegionOf,       \* Zone -> Region: region_of_zone
    Anchor,         \* anchor names
    Position,       \* where an anchor can stand, with its radii and owner
    Coverage,       \* Position -> Zone -> 0..4
    NoPosition,     \* the anchor is not set
    MaxRefs,        \* bound on the holds of one container
    MaxOpen,        \* max_open_subs
    MaxNow,         \* bound on the clock
    Recent, Stale,  \* the two recency limits of should_close (5 and 15 minutes)
    RecentTolerance, StaleTolerance,    \* updates tolerated below each (5 and 3)
    MaxPending      \* bound on the intents of one target between two drains

Active == 4
Hot == 3

Data == {"card", "zone"}
Key == Data \X Zone
Target == Key \cup ({"tile_cards"} \X Zone) \cup ({"region"} \X Region)

ASSUME ZoneAssumption ==
    /\ IsFiniteSet(Zone)
    /\ RegionOf \in [Zone -> Region]
    /\ Coverage \in [Position -> [Zone -> 0..Active]]
    /\ NoPosition \notin Position
    /\ MaxRefs \in Nat /\ MaxOpen \in Nat /\ MaxNow \in Nat /\ MaxPending \in Nat
    /\ Recent \in Nat /\ Stale \in Nat /\ Recent <= Stale
    /\ RecentTolerance \in Nat /\ StaleTolerance \in 0..RecentTolerance

VARIABLES
    anchors,        \* Anchor -> Position or NoPosition
    refs,           \* Zone -> number of container holds
    subs,           \* Key -> SubState; every entry kept is open, NoSub otherwise
    region_wanted,  \* Region -> the zones holding it
    intents,        \* Target -> queued on/off intents, oldest first
    held,           \* the targets the client has a sid for
    gate,           \* external: Target -> live subscriptions at the gate
    now             \* the server clock, as the manager is told it

vars == <<anchors, refs, subs, region_wanted, intents, held, gate, now>>

NoSub == [wanted |-> FALSE, last_present |-> 0, updates |-> -1]

SubState == [wanted : BOOLEAN, last_present : 0..MaxNow, updates : 0..RecentTolerance]

Open(ss) == {k \in Key : ss[k] # NoSub}

-----------------------------------------------------------------------------
(* Tiers.                                                                  *)

\* max-tier-wins over the anchors; a container hold is Active.
Desired(as, rs) ==
    [z \in Zone |->
        IF rs[z] > 0 THEN Active
        ELSE Max({0} \cup {Coverage[as[a]][z] : a \in {b \in Anchor : as[b] # NoPosition}})]

WantedAt(tier, data) == IF data = "card" THEN tier >= Hot ELSE tier > 0

WantedKeys(as, rs) == {k \in Key : WantedAt(Desired(as, rs)[k[2]], k[1])}

-----------------------------------------------------------------------------
(* Opening, closing and evicting.                                          *)

\* update_sub, before capacity.
UpdatedSub(sub, is_wanted) ==
    IF is_wanted THEN [wanted |-> TRUE, last_present |-> now, updates |-> 0]
    ELSE IF sub.wanted THEN [wanted |-> FALSE, last_present |-> now, updates |-> 0]
    ELSE sub

\* Mutant: eviction looks at every open subscription.
VictimsAnybody(ss) ==
    LET over == Max({0, Cardinality(Open(ss)) - MaxOpen})
    IN  {V \in SUBSET Open(ss) :
            /\ Cardinality(V) = over
            /\ \A v \in V, k \in Open(ss) \ V : ss[v].last_present <= ss[k].last_present}

\* Mutant: every candidate is closed at once.
VictimsAll(ss) == {{k \in Open(ss) : ~ss[k].wanted}}

\* The candidates enforce_capacity may evict, least recently present first.
Victims(ss) ==
    LET candidates == {k \in Open(ss) : ~ss[k].wanted}
        over == Max({0, Cardinality(Open(ss)) - MaxOpen})
    IN  {V \in SUBSET candidates :
            /\ Cardinality(V) = Min({over, Cardinality(candidates)})
            /\ \A v \in V, k \in candidates \ V : ss[v].last_present <= ss[k].last_present}

ZonesOf(keys, r) == {z \in Zone : <<"zone", z>> \in keys /\ RegionOf[z] = r}

\* Mutant: closing either subscription of a zone lets go of its region.
RegionWantedByData(opened, closed) ==
    [r \in Region |-> (region_wanted[r] \cup ZonesOf(opened, r)) \ {k[2] : k \in closed}]

\* want_region for every Zone sub opened, then unwant_region for every one closed.
RegionWanted(opened, closed) ==
    [r \in Region |-> (region_wanted[r] \cup ZonesOf(opened, r)) \ ZonesOf(closed, r)]

\* Mutant: every opened Zone subscription subscribes its region.
RegionOnAlways(opened) ==
    {<<"region", r>> : r \in {s \in Region : ZonesOf(opened, s) # {}}}

RegionOn(opened) ==
    {<<"region", r>> : r \in {s \in Region : region_wanted[s] = {} /\ ZonesOf(opened, s) # {}}}

RegionOff(opened, closed) ==
    {<<"region", r>> : r \in {s \in Region : /\ ZonesOf(closed, s) # {}
                                             /\ RegionWanted(opened, closed)[s] = {}}}

\* The intents pushed by open_sub and close_sub.
Intend(opened, closed) ==
    LET on == opened \cup RegionOn(opened)
        off == closed \cup RegionOff(opened, closed)
    IN  [t \in Target |-> intents[t] \o (IF t \in on THEN <<TRUE>> ELSE <<>>)
                                     \o (IF t \in off THEN <<FALSE>> ELSE <<>>)]

\* recompute_anchor_zones.
Recompute(as, rs) ==
    LET want == WantedKeys(as, rs)
        updated == [k \in Key |-> UpdatedSub(subs[k], k \in want)]
        opened == want \ Open(subs)
    IN  \E closed \in Victims(updated) :
            /\ subs' = [k \in Key |-> IF k \in closed THEN NoSub ELSE updated[k]]
            /\ region_wanted' = RegionWanted(opened, closed)
            /\ intents' = Intend(opened, closed)

\* The driver drains the intents every frame.
Bounded == \A t \in Target : Len(intents[t]) < MaxPending

-----------------------------------------------------------------------------
(* The manager's operations.                                               *)

SetAnchor(a, p) ==
    /\ Bounded
    /\ anchors[a] # p
    /\ anchors' = [anchors EXCEPT ![a] = p]
    /\ Recompute(anchors', refs)
    /\ UNCHANGED <<refs, held, gate, now>>

ClearAnchor(a) ==
    /\ Bounded
    /\ anchors[a] # NoPosition
    /\ anchors' = [anchors EXCEPT ![a] = NoPosition]
    /\ Recompute(anchors', refs)
    /\ UNCHANGED <<refs, held, gate, now>>

\* ensure(): only the first hold recomputes.
Ensure(z) ==
    /\ Bounded
    /\ refs[z] < MaxRefs
    /\ refs' = [refs EXCEPT ![z] = @ + 1]
    /\ IF refs[z] = 0 THEN Recompute(anchors, refs')
                      ELSE UNCHANGED <<subs, region_wanted, intents>>
    /\ UNCHANGED <<anchors, held, gate, now>>

\* release(): always recomputes, holds or not.
Release(z) ==
    /\ Bounded
    /\ refs' = [refs EXCEPT ![z] = IF @ <= 1 THEN 0 ELSE @ - 1]
    /\ Recompute(anchors, refs')
    /\ UNCHANGED <<anchors, held, gate, now>>

Tolerance(since) ==
    IF since < Recent THEN RecentTolerance
    ELSE IF since < Stale THEN StaleTolerance
    ELSE 0

\* note_update(): a row for a candidate counts against its warmth.
NoteUpdate(k) ==
    LET counted == [subs[k] EXCEPT !.updates = @ + 1]
        since == IF now > subs[k].last_present THEN now - subs[k].last_present ELSE 0
    IN  /\ Bounded
        /\ k \in Open(subs)
        /\ ~subs[k].wanted
        /\ IF counted.updates > Tolerance(since)
           THEN /\ subs' = [subs EXCEPT ![k] = NoSub]
                /\ region_wanted' = RegionWanted({}, {k})
                /\ intents' = Intend({}, {k})
           ELSE /\ subs' = [subs EXCEPT ![k] = counted]
                /\ UNCHANGED <<region_wanted, intents>>
        /\ UNCHANGED <<anchors, refs, held, gate, now>>

\* The clock handed to the manager is an estimate: it mostly advances, and
\* steps back when the estimate is corrected.
ClockMoves(t) ==
    /\ t # now
    /\ now' = t
    /\ UNCHANGED <<anchors, refs, subs, region_wanted, intents, held, gate>>

-----------------------------------------------------------------------------
(* zone_frames(): drain the intents in order.  A Sub for a zone target that *)
(* is already subscribed is skipped; one for a region is not checked.       *)

AfterIntent(t, st, on) ==
    IF on
    THEN IF st.held /\ t[1] # "region" THEN st
         ELSE [held |-> TRUE, live |-> st.live + 1]
    ELSE IF st.held THEN [held |-> FALSE, live |-> st.live - 1] ELSE st

Frames(t, start, queue) ==
    LET after[n \in 0..Len(queue)] ==
            IF n = 0 THEN start ELSE AfterIntent(t, after[n - 1], queue[n])
    IN  after[Len(queue)]

\* The promoted tile-cards of a zone ride with its Card subscription.
Queue(t) == IF t[1] = "tile_cards" THEN intents[<<"card", t[2]>>] ELSE intents[t]

\* What the pending intents make of a target's subscription.
Drained(t) == Frames(t, [held |-> t \in held, live |-> gate[t]], Queue(t))

Drain ==
    /\ intents' = [t \in Target |-> <<>>]
    /\ held' = {t \in Target : Drained(t).held}
    /\ gate' = [t \in Target |-> Drained(t).live]
    /\ UNCHANGED <<anchors, refs, subs, region_wanted, now>>

-----------------------------------------------------------------------------

Init ==
    /\ anchors = [a \in Anchor |-> NoPosition]
    /\ refs = [z \in Zone |-> 0]
    /\ subs = [k \in Key |-> NoSub]
    /\ region_wanted = [r \in Region |-> {}]
    /\ intents = [t \in Target |-> <<>>]
    /\ held = {}
    /\ gate = [t \in Target |-> 0]
    /\ now = 0

Next ==
    \/ \E a \in Anchor, p \in Position : SetAnchor(a, p)
    \/ \E a \in Anchor : ClearAnchor(a)
    \/ \E z \in Zone : Ensure(z)
    \/ \E z \in Zone : Release(z)
    \/ \E k \in Key : NoteUpdate(k)
    \/ \E t \in 0..MaxNow : ClockMoves(t)
    \/ Drain

Spec == Init /\ [][Next]_vars

-----------------------------------------------------------------------------

\* Every variable has its type; the updates counted against an open candidate
\* never exceed the largest tolerance.
TypeOK ==
    /\ anchors \in [Anchor -> Position \cup {NoPosition}]
    /\ refs \in [Zone -> 0..MaxRefs]
    /\ subs \in [Key -> SubState \cup {NoSub}]
    /\ region_wanted \in [Region -> SUBSET Zone]
    /\ \A t \in Target : intents[t] \in Seq(BOOLEAN)
    /\ held \subseteq Target
    /\ gate \in [Target -> Nat]
    /\ now \in 0..MaxNow

\* A zone some anchor or hold needs is subscribed at the grade its tier calls
\* for: neither noise, nor eviction, nor another anchor leaving closes it.
NeededIsOpen == WantedKeys(anchors, refs) = {k \in Open(subs) : subs[k].wanted}

\* A region is held exactly while a Zone subscription inside it is open.  (And
\* every variable has its type.)
RegionHeldByItsZones ==
    /\ TypeOK
    /\ \A r \in Region : region_wanted[r] = ZonesOf(Open(subs), r)

\* Once the pending intents are drained the gate streams exactly what the
\* manager believes open, each target once: no subscription is lost, doubled
\* or left behind under a sid the client has forgotten.
ShouldStream(t) ==
    CASE t[1] = "region" -> region_wanted[t[2]] # {}
      [] t[1] = "tile_cards" -> <<"card", t[2]>> \in Open(subs)
      [] OTHER -> t \in Open(subs)

GateFollowsManager ==
    \A t \in Target :
        Drained(t) = IF ShouldStream(t) THEN [held |-> TRUE, live |-> 1]
                                        ELSE [held |-> FALSE, live |-> 0]

Sticky ==
    INSTANCE StickySubs
        WITH wanted <- {k \in Open(subs) : subs[k].wanted}, open <- Open(subs)

\* The manager implements the sticky-subscription contract: candidates go only
\* one noisy update or one overfull recompute at a time.
ImplementsSticky == Sticky!Spec
=============================================================================
