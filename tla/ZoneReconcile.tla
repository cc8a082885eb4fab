---------------------------- MODULE ZoneReconcile ----------------------------
(***************************************************************************)
(* How a tracked zone comes to exist on the server: zone_needs of          *)
(* core/src/zones.rs read by reconcile_zones of core/src/client.rs, whose  *)
(* calls go through the outbound queue.  The queue enters as CallContract, *)
(* which Outbox is shown to implement; subscriptions enter as the sticky   *)
(* set StickySubs describes, reduced to the Zone subscriptions that hold a *)
(* region.                                                                 *)
(*                                                                         *)
(* The gate is external: it executes an attempt or only says so, answers   *)
(* or not, and streams the regions table to its subscribers in order,      *)
(* starting with the current row.  A row's presence bits never change;     *)
(* only its available bits are kept.                                       *)
(***************************************************************************)
EXTENDS Naturals, Sequences, FiniteSets

CONSTANTS
    Zone, Region,
    RegionOf,       \* Zone -> Region: region_of_zone
    Spawnable,      \* the zones whose presence bit the region row sets
    Cid, NoHash, NoCid,
    MaxPush,        \* bound on the rows of one region on their way
    MaxDeletes      \* how many region rows the server may delete

Hash == ({"ensure_region"} \X Region) \cup ({"request_zone"} \X Zone)

NoRow == [known |-> FALSE, available |-> {}]
Row(available) == [known |-> TRUE, available |-> available]

ASSUME ZoneAssumption ==
    /\ RegionOf \in [Zone -> Region]
    /\ Spawnable \subseteq Zone
    /\ MaxPush \in Nat \ {0} /\ MaxDeletes \in Nat

VARIABLES
    entries,            \* the tracked zones
    subscribed,         \* the zones whose Zone subscription is open
    region_bits,        \* the client's cached rows
    reconcile_hashes,   \* the calls the last reconcile wanted
    open, current, asked, reply,    \* the outbound queue, see CallContract
    row,                \* external: the server's region rows
    push,               \* external: the rows on their way to the client
    deletes             \* external: region rows deleted so far

queue == <<open, current, asked, reply>>
gate == <<row, push, deletes>>
vars == <<entries, subscribed, region_bits, reconcile_hashes, queue, gate>>

Calls == INSTANCE CallContract

-----------------------------------------------------------------------------

Holders(zones, r) == {z \in zones : RegionOf[z] = r}

\* external: every subscriber of r is sent its row.
Streamed(r, value) ==
    IF Holders(subscribed, r) # {} THEN [push EXCEPT ![r] = Append(@, value)] ELSE push

\* Room on the link: it bounds what the gate can still send.
Room == \A r \in Region : Len(push[r]) < MaxPush

\* An anchor reaches z.  The first Zone subscription of a region subscribes the
\* region, and the gate answers with its current row if there is one.
Enter(z) ==
    LET r == RegionOf[z]
    IN  /\ Room
        /\ z \notin entries
        /\ entries' = entries \cup {z}
        /\ subscribed' = subscribed \cup {z}
        /\ push' = IF Holders(subscribed, r) = {} /\ row[r].known
                   THEN [push EXCEPT ![r] = Append(@, row[r])] ELSE push
        /\ UNCHANGED <<region_bits, reconcile_hashes, queue, row, deletes>>

\* No anchor reaches z any more; its subscription stays open.
Leave(z) ==
    /\ z \in entries
    /\ entries' = entries \ {z}
    /\ UNCHANGED <<subscribed, region_bits, reconcile_hashes, queue, gate>>

\* The candidate subscription of z is closed; the last one of a region forgets
\* the region's cached row and unsubscribes it.
Close(z) ==
    LET r == RegionOf[z]
    IN  /\ z \in subscribed \ entries
        /\ subscribed' = subscribed \ {z}
        /\ region_bits' = IF Holders(subscribed', r) = {}
                          THEN [region_bits EXCEPT ![r] = NoRow] ELSE region_bits
        /\ UNCHANGED <<entries, reconcile_hashes, queue, gate>>

\* A region row, or its deletion, reaches the client: note_region and
\* note_region_removed ask nobody whether the region is still subscribed.
RegionRow(r) ==
    /\ push[r] # <<>>
    /\ region_bits' = [region_bits EXCEPT ![r] = Head(push[r])]
    /\ push' = [push EXCEPT ![r] = Tail(@)]
    /\ UNCHANGED <<entries, subscribed, reconcile_hashes, queue, row, deletes>>

-----------------------------------------------------------------------------
(* reconcile_zones, once per tick.                                         *)

ZoneNeed(z) ==
    LET bits == region_bits[RegionOf[z]]
    IN  IF ~bits.known THEN "ensure"
        ELSE IF z \in Spawnable \ bits.available THEN "request"
        ELSE "satisfied"

Needed ==
    {<<"ensure_region", RegionOf[z]>> : z \in {y \in entries : ZoneNeed(y) = "ensure"}}
        \cup {<<"request_zone", z>> : z \in {y \in entries : ZoneNeed(y) = "request"}}

\* Mutant: what was needed last time and is not any more is left in the queue.
ReconcileNeverDone ==
    /\ open' = open \cup Needed
    /\ reconcile_hashes' = Needed
    /\ UNCHANGED <<entries, subscribed, region_bits, current, asked, reply, gate>>

\* Mutant: a call asked for once is taken to have been done.
ReconcileOnce ==
    LET retired == reconcile_hashes \ Needed
    IN  /\ open' = (open \cup (Needed \ reconcile_hashes)) \ retired
        /\ current' = [h \in Hash |-> IF h \in retired THEN NoCid ELSE current[h]]
        /\ reconcile_hashes' = Needed
        /\ UNCHANGED <<entries, subscribed, region_bits, asked, reply, gate>>

\* want() every needed call, done() every call needed last time and not now.
Reconcile ==
    LET retired == reconcile_hashes \ Needed
    IN  /\ open' = (open \cup Needed) \ retired
        /\ current' = [h \in Hash |-> IF h \in retired THEN NoCid ELSE current[h]]
        /\ reconcile_hashes' = Needed
        /\ UNCHANGED <<entries, subscribed, region_bits, asked, reply, gate>>

-----------------------------------------------------------------------------
(* The queue's own steps, and the gate.                                    *)

Idle == UNCHANGED <<entries, subscribed, region_bits, reconcile_hashes>>

Pump(given_up, started) == Calls!Round(given_up, started) /\ Idle /\ UNCHANGED gate

Answer(c) ==
    /\ Calls!Confirmed(c) \/ Calls!Refused(c) \/ Calls!Promised(c) \/ Calls!Lost(c)
    /\ Idle
    /\ UNCHANGED gate

\* What executing a call does to the region row.
Executed(h) ==
    IF h[1] = "ensure_region"
    THEN IF row[h[2]].known THEN row ELSE [row EXCEPT ![h[2]] = Row({})]
    ELSE LET r == RegionOf[h[2]]
         IN  IF row[r].known /\ h[2] \in Spawnable
             THEN [row EXCEPT ![r] = Row(row[r].available \cup {h[2]})]
             ELSE row

\* external: the gate executes the attempt, and streams what changed.
GateExecutes(c) ==
    LET h == asked[c]
        r == IF h[1] = "ensure_region" THEN h[2] ELSE RegionOf[h[2]]
    IN  /\ Room
        /\ asked[c] # NoHash
        /\ row' = Executed(h)
        /\ row' # row
        /\ push' = Streamed(r, row'[r])
        /\ UNCHANGED <<deletes, queue>>
        /\ Idle

\* external: it answers, whether it executed the attempt or not.
GateReplies(c, kind) == Calls!Reply(c, kind) /\ Idle /\ UNCHANGED gate

\* external: the server deletes a region row.
ServerDeletes(r) ==
    /\ Room
    /\ deletes < MaxDeletes
    /\ row[r].known
    /\ row' = [row EXCEPT ![r] = NoRow]
    /\ push' = Streamed(r, NoRow)
    /\ deletes' = deletes + 1
    /\ UNCHANGED queue
    /\ Idle

-----------------------------------------------------------------------------

Init ==
    /\ entries = {}
    /\ subscribed = {}
    /\ region_bits = [r \in Region |-> NoRow]
    /\ reconcile_hashes = {}
    /\ Calls!Init
    /\ row = [r \in Region |-> NoRow]
    /\ push = [r \in Region |-> <<>>]
    /\ deletes = 0

Next ==
    \/ \E z \in Zone : Enter(z)
    \/ \E z \in Zone : Leave(z)
    \/ \E z \in Zone : Close(z)
    \/ \E r \in Region : RegionRow(r)
    \/ Reconcile
    \/ \E given_up, started \in SUBSET Hash : Pump(given_up, started)
    \/ \E c \in Cid : Answer(c)
    \/ \E c \in Cid : GateExecutes(c)
    \/ \E c \in Cid, kind \in {"ok", "err", "promise"} : GateReplies(c, kind)
    \/ \E r \in Region : ServerDeletes(r)

Spec == Init /\ [][Next]_vars

\* The driver keeps ticking and pumping (a call without an attempt gets one, an
\* attempt without an answer is given up: Outbox's NeverLatched), rows arrive,
\* stale attempts end, and a gate asked over and over executes at last.
Starts(h) == Pump({}, {h})
GivesUp(h) == current[h] # NoCid /\ Pump({h}, {})
LetsGo(c) == (\A h \in Hash : current[h] # c) /\ Calls!Lost(c) /\ Idle /\ UNCHANGED gate
Executes(h) == \E c \in Cid : asked[c] = h /\ current[h] = c /\ GateExecutes(c)

Fairness ==
    /\ WF_vars(Reconcile)
    /\ \A h \in Hash : SF_vars(Starts(h)) /\ WF_vars(GivesUp(h)) /\ SF_vars(Executes(h))
    /\ \A c \in Cid : WF_vars(LetsGo(c))
    /\ \A r \in Region : WF_vars(RegionRow(r))

FairSpec == Spec /\ Fairness

-----------------------------------------------------------------------------

\* Every variable has its type.
TypeOK ==
    /\ entries \subseteq subscribed /\ subscribed \subseteq Zone
    /\ \A r \in Region : region_bits[r].available \subseteq Spawnable
    /\ reconcile_hashes \subseteq Hash
    /\ open \subseteq Hash
    /\ current \in [Hash -> Cid \cup {NoCid}]
    /\ deletes \in 0..MaxDeletes

\* No call outlives its need: whatever is open or in flight is what the last
\* reconcile wanted, so a zone that left coverage is not materialized for ever.
\* (And every variable has its type.)
NoCallOutlivesItsNeed ==
    /\ TypeOK
    /\ open \subseteq reconcile_hashes
    /\ \A h \in Hash : current[h] # NoCid => h \in open

\* The cache holds the rows of subscribed regions only (zones.rs: "each
\* subscribed region's presence/available bitmask").
CacheIsOfSubscribedRegions ==
    \A r \in Region : region_bits[r].known => Holders(subscribed, r) # {}

\* A tracked zone the region says can exist ends up known to exist, or is let
\* go: a lying ok, a lost answer, a late row or a change of mind never latch.
\* (A deleted region row can: the stale cached one then speaks for a zone that
\* is gone.)
TrackedZoneMaterializes ==
    \A z \in Spawnable :
        z \in entries ~> \/ z \notin entries
                        \/ z \in region_bits[RegionOf[z]].available
                        \/ deletes > 0
=============================================================================
