------------------------------ MODULE GateProofs -----------------------------
(***************************************************************************)
(* The components that follow what the gate sends: the zone reconcile, the *)
(* discovery of what is ours, and the clock discipline.  For any zones,    *)
(* cards, calls, latencies and bounds.  They share no variable.            *)
(***************************************************************************)
EXTENDS ZoneReconcile, Discovery, ClockSync,
        SequenceTheorems, WellFoundedInduction, TLAPS

-----------------------------------------------------------------------------
(* Zone reconcile: no call to the gate outlives the need that asked for it. *)

RegionRows == [known : BOOLEAN, available : SUBSET Spawnable]

ZoneTypes ==
    /\ entries \subseteq subscribed /\ subscribed \subseteq Zone
    /\ region_bits \in [Region -> RegionRows]
    /\ row \in [Region -> RegionRows]
    /\ push \in [Region -> Seq(RegionRows)]
    /\ reconcile_hashes \subseteq Hash
    /\ current \in [Hash -> Cid \cup {NoCid}]
    /\ asked \in [Cid -> Hash \cup {NoHash}]
    /\ deletes \in 0..MaxDeletes

\* What is open is what the last reconcile wanted, and only open calls have an
\* attempt.
Wanted ==
    /\ open \subseteq reconcile_hashes
    /\ \A h \in Hash : current[h] # NoCid => h \in open

ZoneInv == ZoneTypes /\ Wanted

-----------------------------------------------------------------------------

LEMMA NeededIsCalls == ASSUME ZoneTypes PROVE Needed \subseteq Hash
  BY ZoneAssumption DEF ZoneTypes, Needed, Hash, ZoneAssumption

LEMMA StreamedType ==
    ASSUME ZoneTypes, NEW r \in Region, NEW value \in RegionRows
    PROVE  Streamed(r, value) \in [Region -> Seq(RegionRows)]
  BY DEF ZoneTypes, Streamed

LEMMA ExecutedType ==
    ASSUME ZoneTypes, NEW h \in Hash
    PROVE  Executed(h) \in [Region -> RegionRows]
<1>1. CASE h \in {"ensure_region"} \X Region
  <2>1. h[1] = "ensure_region" /\ h[2] \in Region
    BY <1>1
  <2>2. Row({}) \in RegionRows
    BY DEF Row, RegionRows
  <2> QED
    BY <2>1, <2>2 DEF Executed, ZoneTypes
<1>2. CASE h \in {"request_zone"} \X Zone
  <2>1. h[1] = "request_zone" /\ RegionOf[h[2]] \in Region
    BY <1>2, ZoneAssumption DEF ZoneAssumption
  <2> DEFINE r == RegionOf[h[2]]
  <2>2. h[2] \in Spawnable => Row(row[r].available \cup {h[2]}) \in RegionRows
    BY <2>1 DEF Row, RegionRows, ZoneTypes
  <2>3. Executed(h) = IF row[r].known /\ h[2] \in Spawnable
                      THEN [row EXCEPT ![r] = Row(row[r].available \cup {h[2]})]
                      ELSE row
    BY <2>1 DEF Executed
  <2> QED
    BY <2>1, <2>2, <2>3 DEF ZoneTypes
<1> QED
  BY <1>1, <1>2 DEF Hash

-----------------------------------------------------------------------------
\* The steps of the zones and of the reconcile.

LEMMA EnterPreserves == ASSUME ZoneInv, NEW z \in Zone, Enter(z) PROVE ZoneInv'
<1>1. push' \in [Region -> Seq(RegionRows)]
  BY ZoneAssumption DEF Enter, ZoneInv, ZoneTypes, ZoneAssumption
<1> QED
  BY <1>1 DEF Enter, ZoneInv, ZoneTypes, Wanted, queue

LEMMA ClosePreserves == ASSUME ZoneInv, NEW z \in Zone, Close(z) PROVE ZoneInv'
<1>1. NoRow \in RegionRows
  BY DEF NoRow, RegionRows
<1>2. region_bits' \in [Region -> RegionRows]
  BY <1>1 DEF Close, ZoneInv, ZoneTypes
<1> QED
  BY <1>2 DEF Close, ZoneInv, ZoneTypes, Wanted, queue, gate

LEMMA RegionRowPreserves == ASSUME ZoneInv, NEW r \in Region, RegionRow(r) PROVE ZoneInv'
<1>1. push[r] \in Seq(RegionRows) /\ push[r] # <<>>
  BY DEF RegionRow, ZoneInv, ZoneTypes
<1>2. Head(push[r]) \in RegionRows /\ Tail(push[r]) \in Seq(RegionRows)
  BY <1>1
<1>3. region_bits' \in [Region -> RegionRows] /\ push' \in [Region -> Seq(RegionRows)]
  BY <1>2 DEF RegionRow, ZoneInv, ZoneTypes
<1> QED
  BY <1>3 DEF RegionRow, ZoneInv, ZoneTypes, Wanted, queue

LEMMA ReconcilePreserves == ASSUME ZoneInv, Reconcile PROVE ZoneInv'
<1>1. /\ open' = (open \cup Needed) \ (reconcile_hashes \ Needed)
      /\ current' = [h \in Hash |-> IF h \in reconcile_hashes \ Needed THEN NoCid ELSE current[h]]
      /\ reconcile_hashes' = Needed
      /\ UNCHANGED <<entries, subscribed, region_bits, asked, row, push, deletes>>
  BY DEF Reconcile, gate
<1>2. ZoneTypes'
  BY <1>1, NeededIsCalls DEF ZoneInv, ZoneTypes
<1>3. open' \subseteq Needed
  BY <1>1 DEF ZoneInv, Wanted
<1>4. \A h \in Hash : current'[h] # NoCid => h \in open'
  BY <1>1 DEF ZoneInv, Wanted
<1> QED
  BY <1>1, <1>2, <1>3, <1>4 DEF ZoneInv, Wanted

-----------------------------------------------------------------------------
\* The steps of the queue and of the gate.

LEMMA PumpPreserves ==
    ASSUME ZoneInv, NEW given_up \in SUBSET Hash, NEW started \in SUBSET Hash,
           Pump(given_up, started)
    PROVE  ZoneInv'
<1>1. PICK mint \in [started -> {c \in Cid : asked[c] = NoHash}] :
        /\ current' = [h \in Hash |-> IF h \in started THEN mint[h]
                                      ELSE IF h \in given_up THEN NoCid ELSE current[h]]
        /\ asked' = [c \in Cid |-> IF \E h \in started : mint[h] = c
                                   THEN CHOOSE h \in started : mint[h] = c
                                   ELSE asked[c]]
  BY DEF Pump, Calls!Round
<1>2. /\ started \subseteq open /\ open' = open
      /\ UNCHANGED <<entries, subscribed, region_bits, reconcile_hashes, row, push, deletes>>
  BY DEF Pump, Calls!Round, Idle, gate
<1>3. current' \in [Hash -> Cid \cup {NoCid}]
  BY <1>1 DEF ZoneInv, ZoneTypes
<1>4. asked' \in [Cid -> Hash \cup {NoHash}]
  <2>1. \A c \in Cid : (\E h \in started : mint[h] = c) =>
          (CHOOSE h \in started : mint[h] = c) \in started
    OBVIOUS
  <2> QED
    BY <1>1, <2>1 DEF ZoneInv, ZoneTypes
<1>5. \A h \in Hash : current'[h] # NoCid => h \in open'
  BY <1>1, <1>2 DEF ZoneInv, Wanted
<1> QED
  BY <1>2, <1>3, <1>4, <1>5 DEF ZoneInv, ZoneTypes, Wanted

LEMMA AnswerPreserves == ASSUME ZoneInv, NEW c \in Cid, Answer(c) PROVE ZoneInv'
<1>1. UNCHANGED <<entries, subscribed, region_bits, reconcile_hashes, row, push, deletes>>
  BY DEF Answer, Idle, gate
<1>2. asked' \in [Cid -> Hash \cup {NoHash}]
  BY DEF Answer, Calls!Confirmed, Calls!Refused, Calls!Promised, Calls!Lost, Calls!Closed,
         ZoneInv, ZoneTypes
<1>3. /\ open' \subseteq open
      /\ current' \in [Hash -> Cid \cup {NoCid}]
      /\ \A h \in Hash : current'[h] # NoCid => h \in open'
  <2>1. CASE Calls!Confirmed(c)
    BY <2>1 DEF Calls!Confirmed, Calls!Released, Calls!Holders, ZoneInv, ZoneTypes, Wanted
  <2>2. CASE Calls!Refused(c)
    BY <2>2 DEF Calls!Refused, Calls!Released, ZoneInv, ZoneTypes, Wanted
  <2>3. CASE Calls!Promised(c) \/ Calls!Lost(c)
    BY <2>3 DEF Calls!Promised, Calls!Lost, ZoneInv, ZoneTypes, Wanted
  <2> QED
    BY <2>1, <2>2, <2>3 DEF Answer
<1> QED
  BY <1>1, <1>2, <1>3 DEF ZoneInv, ZoneTypes, Wanted

LEMMA GateExecutesPreserves == ASSUME ZoneInv, NEW c \in Cid, GateExecutes(c) PROVE ZoneInv'
<1> DEFINE h == asked[c]
           r == IF h[1] = "ensure_region" THEN h[2] ELSE RegionOf[h[2]]
<1>1. h \in Hash
  BY DEF GateExecutes, ZoneInv, ZoneTypes
<1>2. r \in Region
  BY <1>1, ZoneAssumption DEF Hash, ZoneAssumption
<1>3. row' = Executed(h) /\ push' = Streamed(r, row'[r])
  BY DEF GateExecutes
<1> HIDE DEF h, r
<1>4. row' \in [Region -> RegionRows]
  BY <1>1, <1>3, ExecutedType DEF ZoneInv
<1>5. push' \in [Region -> Seq(RegionRows)]
  BY <1>2, <1>3, <1>4, StreamedType DEF ZoneInv
<1> QED
  BY <1>4, <1>5 DEF GateExecutes, Idle, queue, ZoneInv, ZoneTypes, Wanted

LEMMA GateRepliesPreserves ==
    ASSUME ZoneInv, NEW c \in Cid, NEW kind, GateReplies(c, kind) PROVE ZoneInv'
  BY DEF GateReplies, Calls!Reply, Idle, gate, ZoneInv, ZoneTypes, Wanted

LEMMA ServerDeletesPreserves == ASSUME ZoneInv, NEW r \in Region, ServerDeletes(r) PROVE ZoneInv'
<1>1. NoRow \in RegionRows
  BY DEF NoRow, RegionRows
<1>2. push' \in [Region -> Seq(RegionRows)]
  BY <1>1, StreamedType DEF ServerDeletes, ZoneInv
<1>3. row' \in [Region -> RegionRows]
  BY <1>1 DEF ServerDeletes, ZoneInv, ZoneTypes
<1>4. deletes' \in 0..MaxDeletes
  BY ZoneAssumption DEF ServerDeletes, ZoneInv, ZoneTypes, ZoneAssumption
<1> QED
  BY <1>2, <1>3, <1>4 DEF ServerDeletes, Idle, queue, ZoneInv, ZoneTypes, Wanted

-----------------------------------------------------------------------------

\* In every reachable state the types hold, and what is open or in flight is
\* what the last reconcile wanted.
THEOREM ZoneInvariance == Spec => []ZoneInv
<1>1. Init => ZoneInv
  <2> SUFFICES ASSUME Init PROVE ZoneInv
    OBVIOUS
  <2>1. NoRow \in RegionRows /\ 0 \in 0..MaxDeletes
    BY ZoneAssumption DEF NoRow, RegionRows, ZoneAssumption
  <2> QED
    BY <2>1 DEF Init, Calls!Init, ZoneInv, ZoneTypes, Wanted
<1>2. ZoneInv /\ [Next]_vars => ZoneInv'
  <2> SUFFICES ASSUME ZoneInv, [Next]_vars PROVE ZoneInv'
    OBVIOUS
  <2>1. ASSUME NEW z \in Zone, Enter(z) PROVE ZoneInv'
    BY <2>1, EnterPreserves
  <2>2. ASSUME NEW z \in Zone, Leave(z) PROVE ZoneInv'
    BY <2>2 DEF Leave, queue, gate, ZoneInv, ZoneTypes, Wanted
  <2>3. ASSUME NEW z \in Zone, Close(z) PROVE ZoneInv'
    BY <2>3, ClosePreserves
  <2>4. ASSUME NEW r \in Region, RegionRow(r) PROVE ZoneInv'
    BY <2>4, RegionRowPreserves
  <2>5. CASE Reconcile
    BY <2>5, ReconcilePreserves
  <2>6. ASSUME NEW given_up \in SUBSET Hash, NEW started \in SUBSET Hash,
               Pump(given_up, started)
        PROVE  ZoneInv'
    BY <2>6, PumpPreserves
  <2>7. ASSUME NEW c \in Cid, Answer(c) PROVE ZoneInv'
    BY <2>7, AnswerPreserves
  <2>8. ASSUME NEW c \in Cid, GateExecutes(c) PROVE ZoneInv'
    BY <2>8, GateExecutesPreserves
  <2>9. ASSUME NEW c \in Cid, NEW kind \in {"ok", "err", "promise"}, GateReplies(c, kind)
        PROVE  ZoneInv'
    BY <2>9, GateRepliesPreserves
  <2>10. ASSUME NEW r \in Region, ServerDeletes(r) PROVE ZoneInv'
    BY <2>10, ServerDeletesPreserves
  <2>11. CASE UNCHANGED vars
    BY <2>11 DEF vars, queue, gate, ZoneInv, ZoneTypes, Wanted
  <2> QED
    BY <2>1, <2>2, <2>3, <2>4, <2>5, <2>6, <2>7, <2>8, <2>9, <2>10, <2>11 DEF Next
<1> QED
  BY <1>1, <1>2, PTL DEF Spec

\* reconcile_zones withdraws every call the moment its zone or region is no
\* longer needed, and no answer, retry or late row puts it back: a zone that
\* left coverage is not materialized for ever.
THEOREM CallsEndWithTheirNeed == Spec => []NoCallOutlivesItsNeed
<1>1. ZoneInv => NoCallOutlivesItsNeed
  BY DEF ZoneInv, ZoneTypes, Wanted, RegionRows, NoCallOutlivesItsNeed, TypeOK
<1> QED
  BY <1>1, ZoneInvariance, PTL

-----------------------------------------------------------------------------
(* Discovery: nothing of another player's is tracked, whatever the clock     *)
(* does; and while it undoes nothing, what is ours is anchored where it      *)
(* stands.                                                                   *)

DiscoveryTypes ==
    /\ clock_ms \in 0..MaxTime /\ named \in BOOLEAN
    /\ player_id \in {Me, NoPlayer}
    /\ rows \subseteq Versions /\ owed \subseteq Versions
    /\ \A p \in pending_promotions : \E v \in rows : v.t = p.t /\ v.card = p.card
    /\ souls = [c \in DOMAIN souls |-> souls[c]]

\* The player_souls found are ours.
RosterIsOurs ==
    \A c \in player_souls : c \in PlayerSoul /\ Owner[c] = Me /\ player_id = Me

\* The containers held are ours, and the bag of the holds is of them.
HeldIsOurs ==
    /\ DOMAIN souls \subseteq inventoried
    /\ inventoried \subseteq EverOurs
    /\ inventoried = DOMAIN holds
    /\ holds \in [DOMAIN holds -> Nat \ {0}]

DiscoveryInv == DiscoveryTypes /\ RosterIsOurs /\ HeldIsOurs

\* A version that is still to come into force has its promotion pending.
Scheduled ==
    \A v \in rows : v.t > clock_ms =>
        [t |-> v.t, card |-> v.card] \in pending_promotions

\* The rows of the player_souls found are in force.
RosterInForce == player_souls \subseteq Here(rows, clock_ms)

SteadyInv == DiscoveryInv /\ Scheduled /\ RosterInForce /\ SoulsAnchored

\* No version of w in force at s is out of force at t.
NoneUndone(w, s, t) == \A v \in w : v.t <= s => v.t <= t

-----------------------------------------------------------------------------
\* What is in force, and whose it is.

LEMMA HereGrows ==
    ASSUME NEW v, NEW w, NEW s, NEW t, v \subseteq w, NoneUndone(v, s, t)
    PROVE  Here(v, s) \subseteq Here(w, t)
  BY DEF Here, NoneUndone

LEMMA HereAreCards ==
    ASSUME NEW w, w \subseteq Versions, NEW t PROVE Here(w, t) \subseteq Card
  BY DiscoveryAssumption DEF Here, DiscoveryAssumption

\* What is ours by the versions in force is ours by all of them.
LEMMA OwnedIsOurs ==
    ASSUME NEW w, NEW t \in 0..MaxTime, w \subseteq Versions
    PROVE  Owned(w, t) \subseteq EverOurs
<1>1. Here(w, t) \subseteq Here(Versions, MaxTime)
  BY DiscoveryAssumption, HereGrows DEF NoneUndone, DiscoveryAssumption
<1>2. OwnedBy(Me, w, t) \subseteq OwnedBy(Me, Versions, MaxTime)
  BY <1>1 DEF OwnedBy
<1> QED
  BY <1>2 DEF Owned, EverOurs

\* The line of a card that a player_soul owns ends there.
LEMMA LineOfOwned ==
    ASSUME NEW c \in Card \ PlayerSoul, Owner[c] \in PlayerSoul
    PROVE  Line[c] \subseteq {c, Owner[c]} /\ Owner[c] \in Line[c]
<1> DEFINE pair == {c, Owner[c]}
           closed == {S \in SUBSET Card :
                        \A x \in S \ PlayerSoul : Owner[x] \in Card => Owner[x] \in S}
<1>0. Owner[c] \in Card
  BY DiscoveryAssumption DEF DiscoveryAssumption
<1>1. Line[c] = {a \in Card : \A S \in closed : c \in S => a \in S}
  BY DEF Line
<1>2. pair \in closed
  BY <1>0
<1>3. \A S \in closed : c \in S => Owner[c] \in S
  BY <1>0
<1> QED
  BY <1>0, <1>1, <1>2, <1>3

LEMMA OwnedByRoster ==
    ASSUME NEW w, NEW t, w \subseteq Versions,
           NEW c \in Here(w, t), c \notin PlayerSoul,
           Owner[c] \in Here(w, t) \cap PlayerSoul,
           Owner[Owner[c]] = Me, player_id = Me
    PROVE  c \in Owned(w, t)
<1>1. c \in Card
  BY HereAreCards
<1>2. Line[c] \subseteq {c, Owner[c]} /\ Owner[c] \in Line[c]
  BY <1>1, LineOfOwned
<1> QED
  BY <1>2 DEF Owned, OwnedBy

-----------------------------------------------------------------------------
\* discover and ensure_owned_inventory on the cards of S, whatever they are.

\* A player_soul that is new has our id as its owner, and its row is in force.
LEMMA FreshIsOurs ==
    ASSUME NEW w, NEW now, NEW S, w \subseteq Versions, player_id \in {Me, NoPlayer},
           NEW c \in Fresh(w, now, S)
    PROVE  c \in PlayerSoul /\ Owner[c] = Me /\ player_id = Me /\ c \in Here(w, now)
<1>1. c \in PlayerSoul /\ c \in Here(w, now) /\ Owner[c] = player_id
  BY DEF Fresh, Ours
<1>2. Owner[c] \in Card \cup {Me, Other}
  BY <1>1, HereAreCards, DiscoveryAssumption DEF DiscoveryAssumption
<1> QED
  BY <1>1, <1>2, DiscoveryAssumption DEF DiscoveryAssumption

LEMMA EnsureKeepsOurs ==
    ASSUME NEW w, NEW now \in 0..MaxTime, NEW S, w \subseteq Versions,
           player_id \in {Me, NoPlayer}, player_id' = player_id,
           RosterIsOurs, HeldIsOurs,
           DiscoverAndEnsure(w, now, S)
    PROVE  RosterIsOurs' /\ HeldIsOurs' /\ souls' = [c \in DOMAIN souls' |-> souls'[c]]
<1> DEFINE fresh == player_souls' \ player_souls
           tracked == Trackable(w, now, S \cup Swept(w, now, fresh))
           first == DOMAIN souls' \ DOMAIN souls
           more == (S \cap Owned(w, now) \cap Container) \ (inventoried \cup first)
<1>1. /\ player_souls' = player_souls \cup Fresh(w, now, S)
      /\ souls' = [c \in tracked \cup DOMAIN souls |->
                    IF c \in tracked THEN Current(w, now, c).place ELSE souls[c]]
      /\ inventoried' = inventoried \cup first \cup more
      /\ holds' = holds (+) SetToBag(first \cup more)
  BY DEF DiscoverAndEnsure
<1>2. RosterIsOurs'
  BY <1>1, FreshIsOurs DEF RosterIsOurs
<1>3. tracked \subseteq Owned(w, now) /\ more \subseteq Owned(w, now)
  BY DEF Trackable
<1>4. tracked \subseteq EverOurs /\ more \subseteq EverOurs
  BY <1>3, OwnedIsOurs
<1>5. /\ DOMAIN souls' = tracked \cup DOMAIN souls
      /\ souls' = [c \in DOMAIN souls' |-> souls'[c]]
  BY <1>1
<1>6. /\ DOMAIN holds' = DOMAIN holds \cup first \cup more
      /\ holds' \in [DOMAIN holds' -> Nat \ {0}]
  <2> HIDE DEF first, more
  <2> DEFINE new == first \cup more
  <2>1. holds' = [e \in DOMAIN holds \cup new |->
                    (IF e \in DOMAIN holds THEN holds[e] ELSE 0)
                    + (IF e \in new THEN 1 ELSE 0)]
    BY <1>1 DEF (+), SetToBag
  <2>2. \A e \in DOMAIN holds : holds[e] \in Nat \ {0}
    BY DEF HeldIsOurs
  <2> QED
    BY <2>1, <2>2
<1>7. HeldIsOurs'
  <2> HIDE DEF tracked, more
  <2> QED
    BY <1>1, <1>4, <1>5, <1>6 DEF HeldIsOurs, EverOurs
<1> QED
  BY <1>2, <1>5, <1>7

\* Whoever was put before discover, or is owned by a player_soul just found,
\* is anchored where it stands, if one of our player_souls owns it.
LEMMA EnsureAnchors ==
    ASSUME NEW w, NEW now \in 0..MaxTime, NEW S,
           w \subseteq Versions, rows \subseteq w, NoneUndone(rows, clock_ms, now),
           player_id \in {Me, NoPlayer}, player_id' = player_id,
           RosterIsOurs, RosterInForce,
           DiscoverAndEnsure(w, now, S)
    PROVE  /\ player_souls' \subseteq Here(w, now)
           /\ \A c \in Here(w, now) \ PlayerSoul :
                Owner[c] \in player_souls' /\ Current(w, now, c).place # Inside =>
                  IF c \in S \/ Owner[c] \notin player_souls
                  THEN c \in DOMAIN souls' /\ souls'[c] = Current(w, now, c).place
                  ELSE c \in DOMAIN souls =>
                         /\ c \in DOMAIN souls'
                         /\ souls'[c] \in {souls[c], Current(w, now, c).place}
<1> DEFINE fresh == player_souls' \ player_souls
           tracked == Trackable(w, now, S \cup Swept(w, now, fresh))
<1>1. /\ player_souls' = player_souls \cup Fresh(w, now, S)
      /\ souls' = [x \in tracked \cup DOMAIN souls |->
                    IF x \in tracked THEN Current(w, now, x).place ELSE souls[x]]
  BY DEF DiscoverAndEnsure
<1>2. \A x \in player_souls' :
        /\ x \in PlayerSoul /\ Owner[x] = Me /\ player_id = Me
        /\ x \in Here(w, now)
  <2>1. Here(rows, clock_ms) \subseteq Here(w, now)
    BY HereGrows
  <2> QED
    BY <1>1, <2>1, FreshIsOurs DEF RosterIsOurs, RosterInForce
<1>3. ASSUME NEW c \in Here(w, now) \ PlayerSoul, Owner[c] \in player_souls',
             Current(w, now, c).place # Inside,
             c \in S \/ Owner[c] \notin player_souls
      PROVE  c \in tracked
  <2>1. c \in Owned(w, now)
    BY <1>2, <1>3, OwnedByRoster
  <2>2. CASE c \in S
    BY <1>3, <2>1, <2>2 DEF Trackable, Ours
  <2>3. CASE Owner[c] \notin player_souls
    <3>1. c \in Swept(w, now, fresh)
      BY <1>1, <1>3, <2>3 DEF Swept
    <3> QED
      BY <1>3, <2>1, <3>1 DEF Trackable, Ours
  <2> QED
    BY <1>3, <2>2, <2>3
<1> QED
  <2> HIDE DEF tracked, fresh
  <2> QED
    BY <1>1, <1>2, <1>3

-----------------------------------------------------------------------------
\* Whatever the clock does, only what is ours is found.

LEMMA FoundIsKept ==
    ASSUME DiscoveryInv, UNCHANGED <<rows, pending_promotions, found>>,
           player_id' \in {player_id, Me}, named' \in BOOLEAN, owed' \subseteq Versions,
           clock_ms' \in 0..MaxTime
    PROVE  DiscoveryInv'
<1>1. DiscoveryTypes' /\ RosterIsOurs' /\ HeldIsOurs'
  BY DEF found, DiscoveryInv, DiscoveryTypes, RosterIsOurs, HeldIsOurs, EverOurs
<1> QED
  BY <1>1 DEF DiscoveryInv

LEMMA CardRowKeeps ==
    ASSUME DiscoveryInv, NEW v \in Versions, CardRow(v), owed' \subseteq Versions
    PROVE  DiscoveryInv'
<1>1. /\ rows' = rows \cup {v} /\ clock_ms' = clock_ms /\ player_id' = player_id
      /\ named' = named
      /\ pending_promotions' =
           IF v.t > clock_ms THEN pending_promotions \cup {[t |-> v.t, card |-> v.card]}
                             ELSE pending_promotions
      /\ DiscoverAndEnsure(rows', clock_ms, {v.card})
  BY DEF CardRow
<1>2. rows' \subseteq Versions /\ clock_ms \in 0..MaxTime /\ player_id \in {Me, NoPlayer}
  BY <1>1 DEF DiscoveryInv, DiscoveryTypes
<1>3. RosterIsOurs' /\ HeldIsOurs' /\ souls' = [c \in DOMAIN souls' |-> souls'[c]]
  BY <1>1, <1>2, EnsureKeepsOurs DEF DiscoveryInv
<1>4. \A p \in pending_promotions' : \E x \in rows' : x.t = p.t /\ x.card = p.card
  BY <1>1 DEF DiscoveryInv, DiscoveryTypes
<1>5. DiscoveryTypes'
  BY <1>1, <1>2, <1>3, <1>4 DEF DiscoveryInv, DiscoveryTypes
<1> QED
  BY <1>3, <1>5 DEF DiscoveryInv

LEMMA TickKeeps ==
    ASSUME DiscoveryInv, NEW now \in 0..MaxTime, Tick(now) PROVE DiscoveryInv'
<1> DEFINE S == {p.card : p \in pending_promotions \ pending_promotions'}
<1>1. /\ rows' = rows /\ clock_ms' = now /\ player_id' = player_id
      /\ named' = named /\ owed' = owed \cup NewlyOwed
      /\ DiscoverAndEnsure(rows, now, S)
      /\ pending_promotions' = {p \in pending_promotions : p.t > now}
  BY DEF Tick
<1>2. rows \subseteq Versions /\ player_id \in {Me, NoPlayer}
  BY DEF DiscoveryInv, DiscoveryTypes
<1>3. RosterIsOurs' /\ HeldIsOurs' /\ souls' = [c \in DOMAIN souls' |-> souls'[c]]
  <2> HIDE DEF S
  <2> QED
    BY <1>1, <1>2, EnsureKeepsOurs DEF DiscoveryInv
<1>4. DiscoveryTypes'
  BY <1>1, <1>3 DEF DiscoveryInv, DiscoveryTypes, NewlyOwed, Roster, Inventory, At
<1> QED
  BY <1>3, <1>4 DEF DiscoveryInv

LEMMA DiscoveryStep ==
    ASSUME DiscoveryInv, [DiscoveryNext]_discoveryVars PROVE DiscoveryInv'
<1>1. CASE Login
  BY <1>1, FoundIsKept DEF Login, At, DiscoveryInv, DiscoveryTypes
<1>2. CASE PlayerRow
  BY <1>2, FoundIsKept DEF PlayerRow, PlayerRoster, DiscoveryInv, DiscoveryTypes
<1>3. ASSUME NEW now \in 0..MaxTime, ClockMoves(now) PROVE DiscoveryInv'
  BY <1>3, FoundIsKept DEF ClockMoves, DiscoveryInv, DiscoveryTypes
<1>4. ASSUME NEW v \in Versions, Sent(v) \/ Again(v) PROVE DiscoveryInv'
  <2>1. CardRow(v) /\ owed' \subseteq Versions
    BY <1>4 DEF Sent, Again, NewlyOwed, Roster, Inventory, At, DiscoveryInv, DiscoveryTypes
  <2> QED
    BY <2>1, CardRowKeeps
<1>5. ASSUME NEW now \in 0..MaxTime, Tick(now) PROVE DiscoveryInv'
  BY <1>5, TickKeeps
<1>6. CASE UNCHANGED discoveryVars
  BY <1>6, FoundIsKept DEF discoveryVars, DiscoveryInv, DiscoveryTypes
<1> QED
  BY <1>1, <1>2, <1>3, <1>4, <1>5, <1>6 DEF DiscoveryNext

LEMMA DiscoveryStart == ASSUME DiscoveryInit PROVE DiscoveryInv
<1>1. souls = [c \in DOMAIN souls |-> souls[c]]
  BY DEF DiscoveryInit
<1>2. player_id \in {Me, NoPlayer} /\ clock_ms \in 0..MaxTime
  BY DiscoveryAssumption DEF DiscoveryInit, DiscoveryAssumption
<1>3. DiscoveryTypes /\ RosterIsOurs
  BY <1>1, <1>2 DEF DiscoveryInit, DiscoveryTypes, RosterIsOurs
<1>4. HeldIsOurs
  BY DEF DiscoveryInit, HeldIsOurs, EmptyBag, SetToBag
<1> QED
  BY <1>3, <1>4 DEF DiscoveryInv

\* Rows of other players arrive through the zones in view, before and after the
\* player row says who we are, and rosters bring cards whose owner is a player of
\* that id; the clock is corrected either way.  No roster is subscribed, and
\* nothing anchored or held, for another player's card.
THEOREM NothingOfOthers == DiscoverySpec => []OnlyOurs
<1>1. DiscoverySpec => []DiscoveryInv
  BY DiscoveryStart, DiscoveryStep, PTL DEF DiscoverySpec
<1>2. DiscoveryInv => OnlyOurs
  <2> SUFFICES ASSUME DiscoveryInv PROVE OnlyOurs
    OBVIOUS
  <2>1. EverOurs \subseteq Card
    BY HereAreCards DEF EverOurs, OwnedBy
  <2>2. IsABag(holds) /\ inventoried = BagToSet(holds)
    <3>1. Nat \ {0} = {n \in Nat : n > 0}
      OBVIOUS
    <3> QED
      BY <3>1 DEF DiscoveryInv, HeldIsOurs, IsABag, BagToSet
  <2> QED
    BY <2>1, <2>2 DEF DiscoveryInv, DiscoveryTypes, RosterIsOurs, HeldIsOurs, OnlyOurs,
                      DiscoveryTypeOK
<1> QED
  BY <1>1, <1>2, PTL

-----------------------------------------------------------------------------
\* While no correction undoes anything, what is ours is anchored.

\* Nothing comes into force for a card but through a promotion.
LEMMA NothingElseDue ==
    ASSUME DiscoveryTypes, Scheduled, NEW now \in 0..MaxTime,
           NoneUndone(rows, clock_ms, now),
           NEW c, \A p \in pending_promotions : p.t <= now => p.card # c
    PROVE  Due(rows, now, c) = Due(rows, clock_ms, c) /\ Settled(c)
<1>1. \A v \in rows : v.t \in 0..MaxTime
  BY DiscoveryAssumption DEF DiscoveryTypes, DiscoveryAssumption
<1>2. ASSUME NEW v \in rows, v.card = c, v.t <= now PROVE v.t <= clock_ms
  <2>1. SUFFICES ASSUME v.t > clock_ms PROVE FALSE
    BY <1>1, DiscoveryAssumption DEF DiscoveryTypes, DiscoveryAssumption
  <2>2. [t |-> v.t, card |-> v.card] \in pending_promotions
    BY <2>1 DEF Scheduled
  <2> QED
    BY <1>2, <2>2
<1>3. \A v \in rows : v.t <= clock_ms => v.t <= now
  BY DEF NoneUndone
<1>4. Settled(c)
  BY <1>3 DEF Settled, DiscoveryTypes
<1> QED
  BY <1>2, <1>3, <1>4 DEF Due

LEMMA HereIsDue ==
    ASSUME NEW w, NEW t, NEW c PROVE c \in Here(w, t) <=> Due(w, t, c) # {}
  BY DEF Here, Due

\* A card for which nothing came into force stays where it was anchored.
LEMMA StaysAnchored ==
    ASSUME SoulsAnchored, NEW w, NEW t,
           NEW c \in Card \ PlayerSoul, Owner[c] \in player_souls, Settled(c),
           Due(w, t, c) = Due(rows, clock_ms, c),
           c \in Here(w, t), Current(w, t, c).place # Inside
    PROVE  c \in DOMAIN souls /\ souls[c] = Current(w, t, c).place
<1>1. c \in Here(rows, clock_ms)
  BY HereIsDue
<1>2. Current(w, t, c) = Current(rows, clock_ms, c)
  BY DEF Current
<1> QED
  BY <1>1, <1>2 DEF SoulsAnchored, Standing, Placed

\* discover on the cards of S, to which every card belongs that a version came
\* into force for.
LEMMA DiscoverAnchors ==
    ASSUME SteadyInv, NEW w, NEW now \in 0..MaxTime, NEW S,
           w \subseteq Versions, rows \subseteq w, NoneUndone(rows, clock_ms, now),
           rows' = w, clock_ms' = now, player_id' = player_id,
           DiscoverAndEnsure(w, now, S),
           \A c \in Card \ S : Settled(c)' =>
               Due(w, now, c) = Due(rows, clock_ms, c) /\ Settled(c)
    PROVE  RosterInForce' /\ SoulsAnchored'
<1>1. /\ player_souls' \subseteq Here(w, now)
      /\ \A c \in Here(w, now) \ PlayerSoul :
           Owner[c] \in player_souls' /\ Current(w, now, c).place # Inside =>
             IF c \in S \/ Owner[c] \notin player_souls
             THEN c \in DOMAIN souls' /\ souls'[c] = Current(w, now, c).place
             ELSE c \in DOMAIN souls =>
                    /\ c \in DOMAIN souls'
                    /\ souls'[c] \in {souls[c], Current(w, now, c).place}
  BY EnsureAnchors DEF SteadyInv, DiscoveryInv, DiscoveryTypes
<1>2. SUFFICES ASSUME NEW c \in Card, Owner[c] \in player_souls', c \notin PlayerSoul,
                      c \in Here(w, now), Settled(c)',
                      Current(w, now, c).place # Inside
               PROVE  c \in DOMAIN souls' /\ souls'[c] = Current(w, now, c).place
  BY <1>1 DEF RosterInForce, SoulsAnchored, Standing, Placed
<1>3. CASE c \notin S /\ Owner[c] \in player_souls
  <2>1. Due(w, now, c) = Due(rows, clock_ms, c) /\ Settled(c)
    BY <1>2, <1>3
  <2>2. c \in DOMAIN souls /\ souls[c] = Current(w, now, c).place
    BY <1>2, <1>3, <2>1, StaysAnchored DEF SteadyInv
  <2> QED
    BY <1>1, <1>2, <1>3, <2>2
<1> QED
  BY <1>1, <1>2, <1>3

LEMMA CardRowAnchors ==
    ASSUME SteadyInv, NEW v \in Versions, CardRow(v)
    PROVE  Scheduled' /\ RosterInForce' /\ SoulsAnchored'
<1>1. /\ rows' = rows \cup {v} /\ clock_ms' = clock_ms /\ player_id' = player_id
      /\ pending_promotions' =
           IF v.t > clock_ms THEN pending_promotions \cup {[t |-> v.t, card |-> v.card]}
                             ELSE pending_promotions
      /\ DiscoverAndEnsure(rows', clock_ms, {v.card})
  BY DEF CardRow
<1>2. rows' \subseteq Versions /\ rows \subseteq rows' /\ clock_ms \in 0..MaxTime
  BY <1>1 DEF SteadyInv, DiscoveryInv, DiscoveryTypes
<1>3. NoneUndone(rows, clock_ms, clock_ms)
  BY DEF NoneUndone
<1>4. \A c \in Card \ {v.card} : Settled(c)' =>
        Due(rows', clock_ms, c) = Due(rows, clock_ms, c) /\ Settled(c)
  BY <1>1 DEF Due, Settled
<1>5. RosterInForce' /\ SoulsAnchored'
  BY <1>1, <1>2, <1>3, <1>4, DiscoverAnchors
<1>6. Scheduled'
  BY <1>1 DEF SteadyInv, Scheduled
<1> QED
  BY <1>5, <1>6

LEMMA TickAnchors ==
    ASSUME SteadyInv, NEW now \in 0..MaxTime, Tick(now), NothingUndone
    PROVE  Scheduled' /\ RosterInForce' /\ SoulsAnchored'
<1> DEFINE S == {p.card : p \in pending_promotions \ pending_promotions'}
<1>1. /\ rows' = rows /\ clock_ms' = now /\ player_id' = player_id
      /\ DiscoverAndEnsure(rows, now, S)
      /\ pending_promotions' = {p \in pending_promotions : p.t > now}
  BY DEF Tick
<1>2. rows \subseteq Versions /\ rows \subseteq rows /\ NoneUndone(rows, clock_ms, now)
  BY <1>1 DEF SteadyInv, DiscoveryInv, DiscoveryTypes, NothingUndone, NoneUndone
<1>3. /\ \A p \in pending_promotions : p.t \in Int
      /\ \A v \in rows : v.t \in Int
      /\ clock_ms \in Int /\ now \in Int
  BY DiscoveryAssumption
  DEF SteadyInv, DiscoveryInv, DiscoveryTypes, DiscoveryAssumption
<1>4. ASSUME NEW c \in Card \ S
      PROVE  Due(rows, now, c) = Due(rows, clock_ms, c) /\ Settled(c)
  <2>1. ASSUME NEW p \in pending_promotions, p.t <= now PROVE p.card # c
    <3>1. p \notin pending_promotions'
      BY <1>1, <1>3, <2>1
    <3> QED
      BY <1>4, <3>1
  <2> QED
    BY <1>2, <2>1, NothingElseDue DEF SteadyInv, DiscoveryInv
<1>5. RosterInForce' /\ SoulsAnchored'
  <2> HIDE DEF S
  <2> QED
    BY <1>1, <1>2, <1>4, DiscoverAnchors
<1>6. Scheduled'
  <2> SUFFICES ASSUME NEW v \in rows, v.t > now
               PROVE  [t |-> v.t, card |-> v.card] \in pending_promotions
    BY <1>1 DEF Scheduled
  <2>1. v.t > clock_ms
    BY <1>2, <1>3 DEF NoneUndone
  <2> QED
    BY <2>1 DEF SteadyInv, Scheduled
<1> QED
  BY <1>5, <1>6

LEMMA ClockMovesAnchors ==
    ASSUME SteadyInv, NEW now \in 0..MaxTime, ClockMoves(now), NothingUndone
    PROVE  Scheduled' /\ RosterInForce' /\ SoulsAnchored'
<1>1. /\ clock_ms' = now
      /\ UNCHANGED <<rows, pending_promotions, player_souls, souls>>
  BY DEF ClockMoves, found
<1>2. NoneUndone(rows, clock_ms, now)
  BY <1>1 DEF NothingUndone, NoneUndone
<1>3. Scheduled'
  <2> SUFFICES ASSUME NEW v \in rows, v.t > now
               PROVE  [t |-> v.t, card |-> v.card] \in pending_promotions
    BY <1>1 DEF Scheduled
  <2>1. v.t \in Int /\ clock_ms \in Int
    BY DiscoveryAssumption
    DEF SteadyInv, DiscoveryInv, DiscoveryTypes, DiscoveryAssumption
  <2>2. v.t > clock_ms
    BY <1>2, <2>1 DEF NoneUndone
  <2> QED
    BY <2>2 DEF SteadyInv, Scheduled
<1>4. RosterInForce'
  BY <1>1, <1>2, HereGrows DEF SteadyInv, RosterInForce
<1>5. SoulsAnchored'
  <2> SUFFICES ASSUME NEW c \in Card \ PlayerSoul, Owner[c] \in player_souls,
                      c \in Here(rows, now), Settled(c)',
                      Current(rows, now, c).place # Inside
               PROVE  c \in DOMAIN souls /\ souls[c] = Current(rows, now, c).place
    BY <1>1 DEF SoulsAnchored, Standing, Placed
  <2>1. \A p \in pending_promotions : p.t <= now => p.card # c
    BY <1>1 DEF Settled
  <2>2. Due(rows, now, c) = Due(rows, clock_ms, c) /\ Settled(c)
    BY <1>2, <2>1, NothingElseDue DEF SteadyInv, DiscoveryInv
  <2> QED
    BY <2>2, StaysAnchored DEF SteadyInv
<1> QED
  BY <1>3, <1>4, <1>5

LEMMA NothingComesDue ==
    ASSUME SteadyInv, UNCHANGED <<clock_ms, rows, pending_promotions, found>>
    PROVE  Scheduled' /\ RosterInForce' /\ SoulsAnchored'
  BY DEF found, SteadyInv, Scheduled, RosterInForce, SoulsAnchored, Standing, Placed,
         Settled

\* discover tracks a card of ours on its own row, on the row of its player_soul
\* and on a promotion of either (apply_row and tick): in whatever order those
\* come, it is anchored where it stands, unless a promotion of its own is due.
\* The premise is that no correction of the clock takes a version out of force
\* again; without it the code does not have this property.
THEOREM OwnedSoulsAreAnchored == SteadyDiscoverySpec => []SoulsAnchored
<1>1. DiscoveryInit => SteadyInv
  <2> SUFFICES ASSUME DiscoveryInit PROVE SteadyInv
    OBVIOUS
  <2>1. Scheduled /\ RosterInForce /\ SoulsAnchored
    BY DEF DiscoveryInit, Scheduled, RosterInForce, SoulsAnchored
  <2> QED
    BY <2>1, DiscoveryStart DEF SteadyInv
<1>2. SteadyInv /\ [DiscoveryNext /\ NothingUndone]_discoveryVars => SteadyInv'
  <2> SUFFICES ASSUME SteadyInv, [DiscoveryNext /\ NothingUndone]_discoveryVars
               PROVE  SteadyInv'
    OBVIOUS
  <2>1. DiscoveryInv'
    BY DiscoveryStep DEF SteadyInv
  <2>2. SUFFICES Scheduled' /\ RosterInForce' /\ SoulsAnchored'
    BY <2>1 DEF SteadyInv
  <2>3. CASE Login \/ PlayerRow \/ UNCHANGED discoveryVars
    BY <2>3, NothingComesDue DEF Login, PlayerRow, discoveryVars
  <2>4. ASSUME NEW v \in Versions, Sent(v) \/ Again(v)
        PROVE  Scheduled' /\ RosterInForce' /\ SoulsAnchored'
    <3>1. CardRow(v)
      BY <2>4 DEF Sent, Again
    <3> QED
      BY <3>1, CardRowAnchors
  <2>5. ASSUME NEW now \in 0..MaxTime, ClockMoves(now), NothingUndone
        PROVE  Scheduled' /\ RosterInForce' /\ SoulsAnchored'
    BY <2>5, ClockMovesAnchors
  <2>6. ASSUME NEW now \in 0..MaxTime, Tick(now), NothingUndone
        PROVE  Scheduled' /\ RosterInForce' /\ SoulsAnchored'
    BY <2>6, TickAnchors
  <2> QED
    BY <2>3, <2>4, <2>5, <2>6 DEF DiscoveryNext
<1>3. SteadyInv => SoulsAnchored
  BY DEF SteadyInv
<1> QED
  BY <1>1, <1>2, <1>3, PTL DEF SteadyDiscoverySpec

-----------------------------------------------------------------------------
(* The clock discipline.                                                     *)

LEMMA ClockConstants ==
    /\ Window \in Nat /\ Window > 1 /\ MaxSamples \in Nat /\ MaxCalls \in Nat
    /\ MaxSteps \in Nat /\ StaleMs \in Nat /\ DelayInit \in Nat
    /\ ClientDelayInit \in Nat /\ ClientDelayMin \in Nat /\ ClientDelayMax \in Nat
    /\ ClientDelayMin <= ClientDelayInit /\ ClientDelayInit <= ClientDelayMax
    /\ Latencies \subseteq Nat /\ Queued \subseteq Nat /\ ServerSteps \subseteq Nat
  BY ClockAssumption, SMT DEF ClockAssumption

-----------------------------------------------------------------------------
\* The freshest capture.

LEMMA LeastNatural ==
    ASSUME NEW T \in SUBSET Nat, T # {}
    PROVE  \E x \in T : \A y \in T : x <= y
<1>1. PICK x \in T : \A y \in T : ~(<<y, x>> \in OpToRel(<, Nat))
  BY NatLessThanWellFounded, WFMin
<1>2. \A y \in T : ~(y < x)
  BY <1>1 DEF OpToRel
<1> QED
  BY <1>2

\* One of the first n of w is the greatest of them.
HasTop(w, n) == \E i \in 1..n : \A j \in 1..n : w[j] <= w[i]

LEMMA TopOfMore ==
    ASSUME NEW w \in Seq(Int), NEW n \in Nat, 0 < n, n < Len(w), HasTop(w, n)
    PROVE  HasTop(w, n + 1)
<1>1. PICK i \in 1..n : \A j \in 1..n : w[j] <= w[i]
  BY DEF HasTop
<1>2. \A j \in 1..(n + 1) : w[j] \in Int
  OBVIOUS
<1>3. i \in 1..(n + 1) /\ n + 1 \in 1..(n + 1) /\ \A j \in 1..(n + 1) : j \in 1..n \/ j = n + 1
  OBVIOUS
<1>4. CASE w[n + 1] <= w[i]
  BY <1>1, <1>3, <1>4 DEF HasTop
<1>5. CASE w[i] <= w[n + 1]
  <2>1. ASSUME NEW j \in 1..(n + 1) PROVE w[j] <= w[n + 1]
    BY <1>1, <1>2, <1>3, <1>5
  <2> QED
    BY <1>3, <2>1 DEF HasTop
<1>6. w[i] \in Int /\ w[n + 1] \in Int
  BY <1>2, <1>3
<1> QED
  BY <1>4, <1>5, <1>6

LEMMA HasGreatest ==
    ASSUME NEW w \in Seq(Int), w # << >>
    PROVE  \E i \in DOMAIN w : \A j \in DOMAIN w : w[j] <= w[i]
<1> DEFINE Lacking == {n \in 1..Len(w) : ~HasTop(w, n)}
<1>1. DOMAIN w = 1..Len(w) /\ Len(w) \in Nat /\ Len(w) > 0 /\ \A i \in 1..Len(w) : w[i] \in Int
  OBVIOUS
<1>2. Lacking = {}
  <2> SUFFICES ASSUME Lacking # {} PROVE FALSE
    OBVIOUS
  <2>1. PICK n \in Lacking : \A m \in Lacking : n <= m
    <3>1. Lacking \in SUBSET Nat
      BY <1>1
    <3> HIDE DEF Lacking
    <3> QED
      BY <3>1, LeastNatural
  <2>2. n \in 1..Len(w) /\ ~HasTop(w, n)
    BY <2>1
  <2>3. n # 1
    <3>1. 1..1 = {1} /\ w[1] \in Int
      BY <1>1
    <3> QED
      BY <2>2, <3>1 DEF HasTop
  <2>4. n - 1 \in 1..Len(w) /\ ~(n <= n - 1)
    BY <1>1, <2>2, <2>3
  <2>5. HasTop(w, n - 1)
    BY <2>1, <2>4
  <2>6. HasTop(w, (n - 1) + 1)
    BY <1>1, <2>2, <2>4, <2>5, TopOfMore
  <2> QED
    BY <1>1, <2>2, <2>6
<1>3. HasTop(w, Len(w))
  BY <1>1, <1>2
<1> QED
  BY <1>1, <1>3 DEF HasTop

LEMMA AnchorIsFreshest ==
    ASSUME NEW w \in Seq(Int), w # << >>
    PROVE  /\ Anchor(w) \in Int
           /\ \E i \in DOMAIN w : Anchor(w) = w[i]
           /\ \A i \in DOMAIN w : w[i] <= Anchor(w)
<1>1. \E c \in {w[i] : i \in DOMAIN w} : \A i \in DOMAIN w : w[i] <= c
  BY HasGreatest
<1>2. /\ Anchor(w) \in {w[i] : i \in DOMAIN w}
      /\ \A i \in DOMAIN w : w[i] <= Anchor(w)
  BY <1>1 DEF Anchor
<1> QED
  BY <1>2

LEMMA AnchorOfOne == ASSUME NEW x \in Int PROVE Anchor(<<x>>) = x
<1>1. <<x>> \in Seq(Int) /\ <<x>> # << >> /\ DOMAIN <<x>> = {1} /\ <<x>>[1] = x
  OBVIOUS
<1> QED
  BY <1>1, AnchorIsFreshest

\* What joins the window is in it, and with it nothing but what was there.
LEMMA TrimKeeps ==
    ASSUME NEW w \in Seq(Int), Len(w) <= Window, NEW x \in Int
    PROVE  /\ Trim(Append(w, x)) \in Seq(Int) /\ Trim(Append(w, x)) # << >>
           /\ Len(Trim(Append(w, x))) <= Window
           /\ \A i \in DOMAIN Trim(Append(w, x)) :
                Trim(Append(w, x))[i] = x
                \/ \E j \in DOMAIN w : Trim(Append(w, x))[i] = w[j]
           /\ \E i \in DOMAIN Trim(Append(w, x)) : Trim(Append(w, x))[i] = x
<1> DEFINE v == Append(w, x)
<1>1. /\ v \in Seq(Int) /\ Len(v) = Len(w) + 1 /\ Len(w) \in Nat
      /\ \A i \in 1..Len(v) : v[i] = IF i = Len(v) THEN x ELSE w[i]
  OBVIOUS
<1>2. CASE Len(v) <= Window
  <2>1. Trim(v) = v
    BY <1>1, <1>2, ClockConstants DEF Trim
  <2> QED
    BY <1>1, <1>2, <2>1
<1>3. CASE Len(v) > Window
  <2>1. Len(v) = Window + 1
    BY <1>1, <1>3, ClockConstants
  <2>2. Trim(v) = SubSeq(v, 2, Len(v))
    BY <1>1, <1>3, <2>1, ClockConstants DEF Trim
  <2>3. /\ SubSeq(v, 2, Len(v)) \in Seq(Int) /\ Len(SubSeq(v, 2, Len(v))) = Window
        /\ \A i \in 1..Window : SubSeq(v, 2, Len(v))[i] = v[i + 1]
    BY <1>1, <2>1, ClockConstants
  <2> DEFINE u == SubSeq(v, 2, Len(v))
  <2>4. DOMAIN u = 1..Window /\ u # << >>
    BY <2>3, ClockConstants
  <2>5. u[Window] = x /\ Window \in 1..Window
    BY <1>1, <2>1, <2>3, ClockConstants
  <2>6. \A i \in 1..Window : u[i] = x \/ \E j \in DOMAIN w : u[i] = w[j]
    BY <1>1, <2>1, <2>3, ClockConstants
  <2> HIDE DEF u
  <2>7. Trim(v) = u
    BY <2>2 DEF u
  <2>8. u \in Seq(Int) /\ Len(u) <= Window
    BY <2>3, ClockConstants DEF u
  <2> QED
    BY <2>4, <2>5, <2>6, <2>7, <2>8
<1> QED
  BY <1>1, <1>2, <1>3, ClockConstants

-----------------------------------------------------------------------------
\* note_sample, on any window.

LEMMA Halving ==
    ASSUME NEW x \in Int
    PROVE  x \div 2 \in Int /\ 2 * (x \div 2) <= x /\ x <= 2 * (x \div 2) + 1
  BY SMT

LEMMA ClampBounds ==
    ASSUME NEW x \in Int PROVE Clamp(x) \in ClientDelayMin..ClientDelayMax
  BY ClockConstants DEF Clamp

\* A window of captures, with a correction, that note_sample may be given.
Noting(w, rd, x) ==
    /\ w \in Seq(Int) /\ Len(w) <= Window /\ rd \in Int /\ x \in Int
    /\ running_delay \in Nat /\ client_delay \in ClientDelayMin..ClientDelayMax

\* The correction moves only by a normal error, half its way.
LEMMA Corrected ==
    ASSUME NEW w, NEW rd, NEW x, Noting(w, rd, x), NoteSample(w, rd, x)
    PROVE  \/ running_delta' = rd
           \/ /\ w # << >> /\ Anchor(w) \in Int
              /\ running_delta' = rd - (Anchor(w) + rd - x) \div 2
<1>1. CASE w = << >>
  BY <1>1 DEF NoteSample
<1>2. CASE w # << >>
  <2>1. Anchor(w) \in Int
    BY <1>2, AnchorIsFreshest DEF Noting
  <2> QED
    BY <1>2, <2>1 DEF NoteSample, Feedback
<1> QED
  BY <1>1, <1>2

\* A sample joins the window, or it is stale and changes nothing.
LEMMA Windowed ==
    ASSUME NEW w, NEW rd, NEW x, Noting(w, rd, x), NoteSample(w, rd, x)
    PROVE  /\ captures' \in Seq(Int) /\ captures' # << >> /\ Len(captures') <= Window
           /\ \A i \in DOMAIN captures' :
                captures'[i] = x \/ \E j \in DOMAIN w : captures'[i] = w[j]
           /\ \/ \E i \in DOMAIN captures' : captures'[i] = x
              \/ w # << >> /\ captures' = w /\ Anchor(w) - x > StaleMs
                 /\ running_delta' = rd
<1>1. CASE w = << >>
  <2>1. captures' = <<x>>
    BY <1>1 DEF NoteSample
  <2>2. <<x>> \in Seq(Int) /\ <<x>> # << >> /\ Len(<<x>>) = 1 /\ <<x>>[1] = x
        /\ DOMAIN <<x>> = {1}
    BY DEF Noting
  <2> QED
    BY <2>1, <2>2, ClockConstants
<1>2. CASE w # << >> /\ captures' = Trim(Append(w, x))
  BY <1>2, TrimKeeps DEF Noting
<1>3. CASE w # << >> /\ captures' = w /\ Anchor(w) - x > StaleMs /\ running_delta' = rd
  BY <1>3 DEF Noting
<1> QED
  BY <1>1, <1>2, <1>3 DEF NoteSample

LEMMA NotedTypes ==
    ASSUME NEW w, NEW rd, NEW x, Noting(w, rd, x), NoteSample(w, rd, x)
    PROVE  /\ running_delta' \in Int /\ running_delay' \in Nat
           /\ client_delay' \in ClientDelayMin..ClientDelayMax
<1>1. running_delta' \in Int
  BY Corrected, Halving DEF Noting
<1>2. CASE UNCHANGED <<running_delay, client_delay>>
  BY <1>2, <1>1 DEF Noting
<1>3. CASE w # << >> /\ ~ UNCHANGED <<running_delay, client_delay>>
  <2> DEFINE delta == Anchor(w) + rd - x
             jitter == running_delay + (Abs(delta) - running_delay) \div 2
  <2>1. running_delay' = jitter /\ client_delay' = Clamp(2 * jitter)
    BY <1>3 DEF NoteSample
  <2>2. Anchor(w) \in Int
    BY <1>3, AnchorIsFreshest DEF Noting
  <2>3. Abs(delta) \in Nat
    BY <2>2 DEF Abs, Noting
  <2>4. jitter \in Nat
    <3> HIDE DEF delta
    <3> DEFINE d == Abs(delta) - running_delay
    <3>1. d \in Int /\ d >= -running_delay
      BY <2>3 DEF Noting
    <3>2. d \div 2 \in Int /\ 2 * (d \div 2) + 1 >= d
      BY <3>1, Halving
    <3> QED
      BY <3>1, <3>2 DEF Noting
  <2>5. Clamp(2 * jitter) \in ClientDelayMin..ClientDelayMax
    <3> HIDE DEF jitter
    <3> QED
      BY <2>4, ClampBounds
  <2> QED
    BY <1>1, <2>1, <2>4, <2>5
<1> QED
  BY <1>2, <1>3 DEF NoteSample

-----------------------------------------------------------------------------
\* The types of the clock and of the calls.

LEMMA NotingNow == ASSUME ClockTypeOK, NEW x \in Int PROVE Noting(captures, running_delta, x)
  BY DEF ClockTypeOK, Noting

LEMMA SampledTypes ==
    ASSUME ClockTypeOK, NEW late \in Int, CanSample, SampleClock(theta - late),
           UNCHANGED <<theta, sent, steps>>,
           calls' \in Seq([stamp : Int, recorded : BOOLEAN])
    PROVE  ClockTypeOK'
<1>1. theta - late \in Int
  BY DEF ClockTypeOK
<1>2. Noting(captures, running_delta, theta - late)
  BY <1>1, NotingNow
<1>3. samples' \in 0..MaxSamples
  BY ClockConstants DEF CanSample, ClockTypeOK
<1> QED
  BY <1>2, <1>3, Windowed, NotedTypes DEF SampleClock, ClockTypeOK

LEMMA EstimateType == ASSUME ClockTypeOK, IsSynced PROVE ServerNow \in Int
  BY AnchorIsFreshest, ClockConstants DEF ClockTypeOK, IsSynced, ServerNow

\* A call is on its way only once a sample has landed.
Synced == calls # << >> => IsSynced

LEMMA HeadTail ==
    ASSUME NEW T, NEW q \in Seq(T), q # << >> PROVE Head(q) \in T /\ Tail(q) \in Seq(T)
  OBVIOUS

LEMMA EntryOfSeq ==
    ASSUME NEW T, NEW q \in Seq(T), NEW i \in DOMAIN q PROVE q[i] \in T
  OBVIOUS

LEMMA HeadCall ==
    ASSUME ClockTypeOK, calls # << >>
    PROVE  /\ Head(calls).stamp \in Int /\ Head(calls).recorded \in BOOLEAN
           /\ Tail(calls) \in Seq([stamp : Int, recorded : BOOLEAN])
<1> DEFINE record == [stamp : Int, recorded : BOOLEAN]
<1>1. calls \in Seq(record)
  BY DEF ClockTypeOK
<1> HIDE DEF record
<1>2. Head(calls) \in record /\ Tail(calls) \in Seq(record)
  BY <1>1, HeadTail
<1> QED
  BY <1>2 DEF record

\* What a rejected call puts in the window: the gate's clock, off by how uneven
\* the two trips were.
LEMMA Reseated ==
    ASSUME ClockTypeOK, NEW up \in Nat, NEW down \in Nat, calls # << >>,
           Head(calls).recorded
    PROVE  Reseat(Head(calls), up, down) = theta + up - (up + down) \div 2
<1>1. Head(calls).stamp \in Int
  BY HeadCall
<1>2. (up + down) \div 2 \in Int
  BY Halving
<1> QED
  BY <1>1, <1>2 DEF Reseat, Drift, ClockTypeOK

LEMMA ReseatType ==
    ASSUME ClockTypeOK, Synced, NEW up \in Nat, NEW down \in Nat, calls # << >>
    PROVE  Reseat(Head(calls), up, down) \in Int
<1>1. Head(calls).stamp \in Int
  BY HeadCall
<1>2. (up + down) \div 2 \in Int
  BY Halving
<1>3. ServerNow \in Int
  BY EstimateType DEF Synced
<1> QED
  BY <1>1, <1>2, <1>3 DEF Reseat, Drift, ClockTypeOK

LEMMA NotingAfresh ==
    ASSUME ClockTypeOK, NEW r \in Int, NEW x \in Int PROVE Noting(<<r>>, 0, x)
<1>1. <<r>> \in Seq(Int) /\ Len(<<r>>) = 1
  OBVIOUS
<1> QED
  BY <1>1, ClockConstants DEF ClockTypeOK, Noting

LEMMA ClockTypesStep ==
    ASSUME ClockTypeOK, Synced, [ClockNext]_syncVars PROVE ClockTypeOK' /\ Synced'
<1>1. ASSUME NEW late \in Latencies \cup Queued, Time(late) PROVE ClockTypeOK' /\ Synced'
  <2>1. late \in Int /\ theta - late \in Int
    BY ClockConstants DEF ClockTypeOK
  <2>2. ClockTypeOK'
    BY <1>1, <2>1, SampledTypes DEF Time, ClockTypeOK
  <2>3. captures' # << >>
    BY <1>1, <2>1, NotingNow, Windowed DEF Time, SampleClock
  <2> QED
    BY <2>2, <2>3 DEF Synced, IsSynced
<1>2. CASE Send
  <2>1. ServerNow \in Int
    BY <1>2, EstimateType DEF Send
  <2>2. calls' \in Seq([stamp : Int, recorded : BOOLEAN])
    BY <1>2, <2>1 DEF Send, ClockTypeOK
  <2>3. sent' \in 0..MaxCalls
    BY <1>2, ClockConstants DEF Send, ClockTypeOK
  <2> QED
    BY <1>2, <2>2, <2>3 DEF Send, clockVars, ClockTypeOK, Synced, IsSynced
<1>3. ASSUME NEW up \in Latencies, NEW down \in Latencies, CallOk(up, down)
      PROVE  ClockTypeOK' /\ Synced'
  <2>1. down \in Int /\ theta - down \in Int
    BY ClockConstants DEF ClockTypeOK
  <2>2. calls' \in Seq([stamp : Int, recorded : BOOLEAN])
    BY <1>3, HeadCall DEF CallOk
  <2>3. ClockTypeOK'
    BY <1>3, <2>1, <2>2, SampledTypes DEF CallOk
  <2>4. captures' # << >>
    BY <1>3, <2>1, NotingNow, Windowed DEF CallOk, SampleClock
  <2> QED
    BY <2>3, <2>4 DEF Synced, IsSynced
<1>4. ASSUME NEW up \in Latencies, NEW down \in Latencies, CallPromise(up, down)
      PROVE  ClockTypeOK' /\ Synced'
  <2>1. down \in Int /\ theta - down \in Int
    BY ClockConstants DEF ClockTypeOK
  <2>2. calls' \in Seq([stamp : Int, recorded : BOOLEAN])
    <3> DEFINE record == [stamp : Int, recorded : BOOLEAN]
    <3>1. PICK i \in DOMAIN calls : calls' = [calls EXCEPT ![i].recorded = FALSE]
      BY <1>4 DEF CallPromise
    <3>2. calls[i] \in record
      <4>1. calls \in Seq(record)
        BY DEF ClockTypeOK
      <4> HIDE DEF record
      <4> QED
        BY <4>1, EntryOfSeq
    <3>3. [calls[i] EXCEPT !.recorded = FALSE] \in record
      BY <3>2
    <3>4. calls' = [calls EXCEPT ![i] = [calls[i] EXCEPT !.recorded = FALSE]]
      BY <3>1
    <3>5. calls \in Seq(record)
      BY DEF ClockTypeOK
    <3> HIDE DEF record
    <3>6. calls' \in Seq(record)
      BY <3>3, <3>4, <3>5, ExceptSeq
    <3> QED
      BY <3>6 DEF record
  <2>3. ClockTypeOK'
    BY <1>4, <2>1, <2>2, SampledTypes DEF CallPromise
  <2>4. captures' # << >>
    BY <1>4, <2>1, NotingNow, Windowed DEF CallPromise, SampleClock
  <2> QED
    BY <2>3, <2>4 DEF Synced, IsSynced
<1>5. ASSUME NEW up \in Latencies, NEW down \in Latencies, CallErrDrift(up, down)
      PROVE  ClockTypeOK' /\ Synced'
  <2> DEFINE r == Reseat(Head(calls), up, down)
  <2>1. up \in Nat /\ down \in Nat /\ theta - down \in Int
    BY ClockConstants DEF ClockTypeOK
  <2>2. calls # << >> /\ NoteSample(<<r>>, 0, theta - down) /\ calls' = Tail(calls)
        /\ CanSample /\ UNCHANGED <<theta, sent, steps>>
    BY <1>5 DEF CallErrDrift
  <2>3. r \in Int
    BY <2>1, <2>2, ReseatType
  <2> HIDE DEF r
  <2>4. Noting(<<r>>, 0, theta - down)
    BY <2>1, <2>3, NotingAfresh
  <2>5. /\ captures' \in Seq(Int) /\ captures' # << >> /\ Len(captures') <= Window
        /\ running_delta' \in Int /\ running_delay' \in Nat
        /\ client_delay' \in ClientDelayMin..ClientDelayMax
    BY <2>2, <2>4, Windowed, NotedTypes
  <2>6. samples' \in 0..MaxSamples
    BY <2>2, ClockConstants DEF CanSample, ClockTypeOK
  <2>7. calls' \in Seq([stamp : Int, recorded : BOOLEAN])
    BY <2>2, HeadCall
  <2> QED
    BY <2>2, <2>5, <2>6, <2>7 DEF ClockTypeOK, Synced, IsSynced
<1>6. ASSUME NEW by \in ServerSteps, ServerStep(by) \/ ServerStep(-by)
      PROVE  ClockTypeOK' /\ Synced'
  <2>1. theta' \in Int
    BY <1>6, ClockConstants DEF ServerStep, ClockTypeOK
  <2>2. steps' \in 0..MaxSteps
    BY <1>6, ClockConstants DEF ServerStep, ClockTypeOK
  <2>3. UNCHANGED <<captures, running_delta, running_delay, client_delay, calls, samples, sent>>
    BY <1>6 DEF ServerStep, clockVars
  <2> QED
    BY <2>1, <2>2, <2>3 DEF ClockTypeOK, Synced, IsSynced
<1>7. CASE UNCHANGED syncVars
  BY <1>7 DEF syncVars, clockVars, ClockTypeOK, Synced, IsSynced
<1> QED
  BY <1>1, <1>2, <1>3, <1>4, <1>5, <1>6, <1>7 DEF ClockNext

LEMMA ClockTypesHold == ClockSpec => [](ClockTypeOK /\ Synced)
<1>1. ClockInit => ClockTypeOK /\ Synced
  <2> SUFFICES ASSUME ClockInit PROVE ClockTypeOK /\ Synced
    OBVIOUS
  <2>1. /\ << >> \in Seq(Int) /\ << >> \in Seq([stamp : Int, recorded : BOOLEAN])
        /\ Len(<< >>) = 0
    OBVIOUS
  <2> QED
    BY <2>1, ClockConstants DEF ClockInit, ClockTypeOK, Synced
<1>2. ClockTypeOK /\ Synced /\ [ClockNext]_syncVars => (ClockTypeOK /\ Synced)'
  BY ClockTypesStep
<1> QED
  BY <1>1, <1>2, PTL DEF ClockSpec

-----------------------------------------------------------------------------
\* A rejection for drift.

LEMMA RejectedCall ==
    ASSUME ClockTypeOK, ~LateDrift, NEW up \in Latencies, NEW down \in Latencies,
           CallErrDrift(up, down)
    PROVE  /\ up \in Nat /\ down \in Nat /\ (up + down) \div 2 \in Int
           /\ theta + up - (up + down) \div 2 \in Int /\ theta - down \in Int
           /\ NoteSample(<<theta + up - (up + down) \div 2>>, 0, theta - down)
           /\ Noting(<<theta + up - (up + down) \div 2>>, 0, theta - down)
<1>1. up \in Nat /\ down \in Nat
  BY ClockConstants
<1>2. (up + down) \div 2 \in Int
  BY <1>1, Halving
<1>3. theta + up - (up + down) \div 2 \in Int /\ theta - down \in Int
  BY <1>1, <1>2 DEF ClockTypeOK
<1>4. calls # << >> /\ Head(calls).recorded
  BY DEF CallErrDrift, Refuses
<1>5. Reseat(Head(calls), up, down) = theta + up - (up + down) \div 2
  BY <1>1, <1>4, Reseated
<1> QED
  BY <1>1, <1>2, <1>3, <1>5, NotingAfresh DEF CallErrDrift

\* The correction starts from nothing, and the reply to the rejected call, which
\* is at most as fresh as what it put in the window, does not make it positive.
LEMMA CorrectedAfresh ==
    ASSUME NEW r \in Int, NEW x \in Int, x <= r, NoteSample(<<r>>, 0, x), Noting(<<r>>, 0, x)
    PROVE  /\ running_delta' = 0 \/ running_delta' = -((r - x) \div 2)
           /\ running_delta' <= 0 /\ running_delta' \in Int
<1>1. Anchor(<<r>>) = r
  BY AnchorOfOne
<1>2. running_delta' = 0 \/ running_delta' = 0 - (r + 0 - x) \div 2
  BY <1>1, Corrected
<1>3. r + 0 - x = r - x /\ r - x \in Nat
  OBVIOUS
<1>4. (r - x) \div 2 \in Int /\ (r - x) <= 2 * ((r - x) \div 2) + 1
  BY <1>3, Halving
<1>5. (r - x) \div 2 >= 0
  BY <1>3, <1>4
<1> QED
  BY <1>2, <1>3, <1>4, <1>5

\* What a rejection leaves in the window: what it put there, the freshest.
LEMMA AnchorAfresh ==
    ASSUME NEW r \in Int, NEW x \in Int, x <= r, NoteSample(<<r>>, 0, x), Noting(<<r>>, 0, x)
    PROVE  Anchor(captures') = r
<1>1. <<r>> \in Seq(Int) /\ <<r>> # << >> /\ Len(<<r>>) = 1 /\ DOMAIN <<r>> = {1}
      /\ <<r>>[1] = r
  OBVIOUS
<1>2. CASE captures' = <<r>>
  BY <1>2, AnchorOfOne
<1>3. CASE captures' = Trim(Append(<<r>>, x))
  <2> DEFINE v == Append(<<r>>, x)
  <2>1. v \in Seq(Int) /\ v # << >> /\ Len(v) = 2 /\ DOMAIN v = 1..2
        /\ v[1] = r /\ v[2] = x
    OBVIOUS
  <2>2. captures' = v
    BY <1>3, <2>1, ClockConstants DEF Trim
  <2> HIDE DEF v
  <2>3. Anchor(v) \in {r, x} /\ r <= Anchor(v)
    BY <2>1, AnchorIsFreshest
  <2> QED
    BY <2>2, <2>3
<1> QED
  BY <1>1, <1>2, <1>3 DEF NoteSample

LEMMA DriftReseatsStep ==
    ASSUME ClockTypeOK, ~LateDrift, ClockTypeOK',
           NEW up \in Latencies, NEW down \in Latencies, CallErrDrift(up, down)
    PROVE  Abs((ServerNow + client_delay)' - theta) <= up + down
<1> DEFINE half == (up + down) \div 2
           r == theta + up - half
           x == theta - down
           back == (r - x) \div 2
<1>1. up \in Nat /\ down \in Nat /\ half \in Int /\ r \in Int /\ x \in Int
      /\ NoteSample(<<r>>, 0, x) /\ Noting(<<r>>, 0, x)
  BY RejectedCall
<1>2. 2 * half <= up + down /\ up + down <= 2 * half + 1
  BY <1>1, Halving
<1>3. x <= r
  BY <1>1, <1>2 DEF ClockTypeOK
<1>4. Anchor(captures') = r
  BY <1>1, <1>3, AnchorAfresh
<1>5. running_delta' = 0 \/ running_delta' = -back
  BY <1>1, <1>3, CorrectedAfresh
<1>6. r - x = up + down - half
  BY <1>1 DEF ClockTypeOK
<1>7. back \in Int /\ 2 * back <= r - x /\ r - x <= 2 * back + 1
  BY <1>1, Halving
<1>8. (ServerNow + client_delay)' = r + running_delta'
  <2>1. client_delay' \in Int /\ running_delta' \in Int
    BY ClockConstants DEF ClockTypeOK
  <2> QED
    BY <1>1, <1>4, <2>1 DEF ServerNow
<1>9. theta \in Int /\ r - theta = up - half
  BY <1>1 DEF ClockTypeOK
<1> HIDE DEF half, r, x, back
<1>10. CASE running_delta' = 0
  <2>1. (ServerNow + client_delay)' - theta = up - half
    BY <1>1, <1>8, <1>9, <1>10
  <2> QED
    BY <1>1, <1>2, <2>1 DEF Abs
<1>11. CASE running_delta' = -back
  <2>1. (ServerNow + client_delay)' = r + (-back)
    BY <1>8, <1>11
  <2>2. ASSUME NEW e, e = r + (-back) PROVE Abs(e - theta) <= up + down
    <3>1. e - theta = up - half - back
      BY <1>1, <1>7, <1>9, <2>2
    <3> QED
      BY <1>1, <1>2, <1>6, <1>7, <3>1 DEF Abs
  <2> QED
    BY <2>1, <2>2
<1> QED
  BY <1>5, <1>10, <1>11

\* correct_from_drift: after a rejection the estimate is client_delay behind the
\* gate, up to the two trips, however far off either clock was, however many
\* rejections came before, and whatever samples the window held.
THEOREM RejectionsReseat ==
    ASSUME ~LateDrift
    PROVE  ClockSpec => DriftReseats
<1>1. ClockTypeOK /\ ClockTypeOK' /\ [ClockNext]_syncVars =>
        [\A up, down \in Latencies : CallErrDrift(up, down) =>
           Abs((ServerNow + client_delay)' - theta) <= up + down]_syncVars
  BY DriftReseatsStep
<1> QED
  BY <1>1, ClockTypesHold, PTL DEF ClockSpec, DriftReseats

-----------------------------------------------------------------------------
\* A reply that was on time, while the gate's clock has not been stepped.

\* No capture is fresher than the gate's clock and the uneven trips of a call
\* that was rejected.
NoFresher ==
    steps = 0 =>
        \A i \in DOMAIN captures :
            \/ captures[i] <= theta
            \/ \E up, down \in Latencies :
                 captures[i] = theta + up - (up + down) \div 2

LEMMA SampleIsNoFresher ==
    ASSUME ClockTypeOK, NoFresher, NEW late \in Nat, SampleClock(theta - late),
           UNCHANGED <<theta, steps>>
    PROVE  NoFresher'
<1>1. theta - late \in Int /\ theta - late <= theta
  BY DEF ClockTypeOK
<1>2. Noting(captures, running_delta, theta - late)
  BY <1>1, NotingNow
<1>3. \A i \in DOMAIN captures' :
        captures'[i] = theta - late \/ \E j \in DOMAIN captures : captures'[i] = captures[j]
  BY <1>2, Windowed DEF SampleClock
<1> QED
  BY <1>1, <1>3 DEF NoFresher

LEMMA NoFresherStep ==
    ASSUME ClockTypeOK, ~LateDrift, NoFresher, [ClockNext]_syncVars PROVE NoFresher'
<1>1. ASSUME NEW late \in Latencies \cup Queued, Time(late) PROVE NoFresher'
  BY <1>1, SampleIsNoFresher, ClockConstants DEF Time
<1>2. ASSUME NEW up \in Latencies, NEW down \in Latencies,
             CallOk(up, down) \/ CallPromise(up, down)
      PROVE  NoFresher'
  BY <1>2, SampleIsNoFresher, ClockConstants DEF CallOk, CallPromise
<1>3. ASSUME NEW up \in Latencies, NEW down \in Latencies, CallErrDrift(up, down)
      PROVE  NoFresher'
  <2> DEFINE r == theta + up - (up + down) \div 2
             x == theta - down
  <2>1. /\ x \in Int /\ r \in Int /\ down \in Nat
        /\ NoteSample(<<r>>, 0, x) /\ Noting(<<r>>, 0, x)
    BY <1>3, RejectedCall
  <2>2. \A i \in DOMAIN captures' :
          captures'[i] = x \/ \E j \in DOMAIN <<r>> : captures'[i] = <<r>>[j]
    <3> HIDE DEF r, x
    <3> QED
      BY <2>1, Windowed
  <2>3. \A i \in DOMAIN captures' : captures'[i] = x \/ captures'[i] = r
    BY <2>2
  <2>4. x <= theta
    BY <2>1 DEF ClockTypeOK
  <2>5. theta' = theta
    BY <1>3 DEF CallErrDrift
  <2> QED
    BY <2>3, <2>4, <2>5 DEF NoFresher
<1>4. CASE Send
  BY <1>4 DEF Send, clockVars, NoFresher
<1>5. ASSUME NEW by \in ServerSteps, ServerStep(by) \/ ServerStep(-by) PROVE NoFresher'
  <2>1. steps' = steps + 1 /\ steps \in Nat
    BY <1>5, ClockConstants DEF ServerStep, ClockTypeOK
  <2> QED
    BY <2>1 DEF NoFresher
<1>6. CASE UNCHANGED syncVars
  BY <1>6 DEF syncVars, clockVars, NoFresher
<1> QED
  BY <1>1, <1>2, <1>3, <1>4, <1>5, <1>6 DEF ClockNext

\* STALE_SAMPLE_MS is "well above real jitter" (clock.rs:30): it covers a reply
\* and the error two uneven trips leave.  Then no reply that was on time is
\* taken for a stale one.
THEOREM OnTimeIsHeard ==
    ASSUME ~LateDrift,
           \A late, up, down \in Latencies : late + up - (up + down) \div 2 <= StaleMs
    PROVE  ClockSpec => []NeverDeaf
<1>1. ClockInit => NoFresher
  BY DEF ClockInit, NoFresher
<1>2. ClockTypeOK /\ NoFresher /\ [ClockNext]_syncVars => NoFresher'
  BY NoFresherStep
<1>3. ClockTypeOK /\ NoFresher => NeverDeaf
  <2> SUFFICES ASSUME ClockTypeOK, NoFresher, IsSynced, steps = 0, NEW late \in Latencies
               PROVE  Anchor(captures) - (theta - late) <= StaleMs
    BY DEF NeverDeaf
  <2>1. PICK i \in DOMAIN captures : Anchor(captures) = captures[i]
    BY AnchorIsFreshest DEF ClockTypeOK, IsSynced
  <2>2. late \in Nat /\ theta \in Int /\ StaleMs \in Nat
    BY ClockConstants DEF ClockTypeOK
  <2>3. Anchor(captures) \in Int
    BY AnchorIsFreshest DEF ClockTypeOK, IsSynced
  <2>4. CASE captures[i] <= theta
    <3>1. late + late - (late + late) \div 2 <= StaleMs
      OBVIOUS
    <3>2. (late + late) \div 2 \in Int /\ 2 * ((late + late) \div 2) <= late + late
      BY <2>2, Halving
    <3> QED
      BY <2>1, <2>2, <2>3, <2>4, <3>1, <3>2
  <2>5. ASSUME NEW up \in Latencies, NEW down \in Latencies,
               captures[i] = theta + up - (up + down) \div 2
        PROVE  Anchor(captures) - (theta - late) <= StaleMs
    <3>1. late + up - (up + down) \div 2 <= StaleMs
      OBVIOUS
    <3>2. up \in Nat /\ down \in Nat /\ (up + down) \div 2 \in Int
      BY ClockConstants, Halving
    <3> QED
      BY <2>1, <2>2, <2>5, <3>1, <3>2
  <2> QED
    BY <2>4, <2>5 DEF NoFresher
<1> QED
  BY <1>1, <1>2, <1>3, ClockTypesHold, PTL DEF ClockSpec

-----------------------------------------------------------------------------
\* How far the estimate may be ahead of what it is kept behind of.

\* While no frame is later than latest, the correction never exceeds latest, and
\* while the freshest capture is ahead of the gate the correction is none forward.
Behind(latest) ==
    steps = 0 /\ IsSynced =>
        /\ \A i \in DOMAIN captures :
             captures[i] \in (theta - latest)..(theta + latest)
        /\ running_delta <= latest
        /\ Anchor(captures) > theta => running_delta <= 0

LEMMA SampleStaysBehind ==
    ASSUME NEW latest \in Nat, ClockTypeOK, Synced, Behind(latest), NEW late \in Nat, late <= latest,
           SampleClock(theta - late), UNCHANGED <<theta, steps>>,
           running_delta = 0 \/ captures # << >>
    PROVE  Behind(latest)'
<1> SUFFICES ASSUME steps = 0 PROVE Behind(latest)'
  BY DEF Behind
<1> DEFINE x == theta - late
           a == Anchor(captures)
           delta == a + running_delta - x
<1>1. theta \in Int /\ latest \in Nat /\ running_delta \in Int
  BY ClockConstants DEF ClockTypeOK
<1>2. x \in (theta - latest)..theta
  BY <1>1
<1>3. Noting(captures, running_delta, x) /\ NoteSample(captures, running_delta, x)
  BY <1>2, NotingNow DEF SampleClock
<1>4. /\ captures' \in Seq(Int) /\ captures' # << >>
      /\ \A i \in DOMAIN captures' :
           captures'[i] = x \/ \E j \in DOMAIN captures : captures'[i] = captures[j]
  BY <1>3, Windowed
<1>5. \A i \in DOMAIN captures' :
        captures'[i] \in (theta - latest)..(theta + latest)
  <2> SUFFICES ASSUME NEW i \in DOMAIN captures'
               PROVE  captures'[i] \in (theta - latest)..(theta + latest)
    OBVIOUS
  <2>1. CASE captures'[i] = x
    BY <1>1, <1>2, <2>1
  <2>2. ASSUME NEW j \in DOMAIN captures, captures'[i] = captures[j]
        PROVE  captures'[i] \in (theta - latest)..(theta + latest)
    BY <2>2 DEF Behind, IsSynced
  <2> QED
    BY <1>4, <2>1, <2>2
<1>6. Anchor(captures') > theta => captures # << >> /\ a > theta
  <2> SUFFICES ASSUME Anchor(captures') > theta PROVE captures # << >> /\ a > theta
    OBVIOUS
  <2>1. PICK i \in DOMAIN captures' : Anchor(captures') = captures'[i]
    BY <1>4, AnchorIsFreshest
  <2>2. captures'[i] # x
    BY <1>1, <1>2, <2>1
  <2>3. PICK j \in DOMAIN captures : captures'[i] = captures[j]
    BY <1>4, <2>2
  <2>4. captures # << >> /\ captures \in Seq(Int)
    BY <2>3 DEF ClockTypeOK
  <2>5. captures[j] <= a /\ a \in Int /\ captures[j] \in Int
    BY <2>3, <2>4, AnchorIsFreshest
  <2> QED
    BY <1>1, <2>1, <2>3, <2>4, <2>5
<1>7. CASE running_delta' = running_delta
  <2>1. captures # << >> => running_delta <= latest /\ (a > theta => running_delta <= 0)
    BY DEF Behind, IsSynced
  <2>2. running_delta' <= latest
    BY <1>1, <1>7, <2>1
  <2> QED
    BY <1>5, <1>6, <1>7, <2>1, <2>2 DEF Behind
<1>8. CASE captures # << >> /\ a \in Int /\ running_delta' = running_delta - delta \div 2
  <2>1. running_delta <= latest /\ (a > theta => running_delta <= 0)
    BY <1>8 DEF Behind, IsSynced
  <2>2. a >= theta - latest
    <3>1. PICK i \in DOMAIN captures : a = captures[i]
      BY <1>8, AnchorIsFreshest DEF ClockTypeOK
    <3> QED
      BY <1>1, <1>8, <3>1 DEF Behind, IsSynced
  <2>3. x \in Int /\ delta \in Int
    BY <1>1, <1>2, <1>8
  <2>4. delta \div 2 \in Int /\ delta <= 2 * (delta \div 2) + 1
    BY <2>3, Halving
  <2>5. delta = a + running_delta - x
    OBVIOUS
  <2> HIDE DEF delta, a, x
  <2>6. running_delta' <= latest
    BY <1>1, <1>2, <1>8, <2>1, <2>2, <2>3, <2>4, <2>5
  <2>7. a > theta => running_delta' <= 0
    BY <1>1, <1>2, <1>8, <2>1, <2>3, <2>4, <2>5
  <2> QED
    BY <1>5, <1>6, <2>6, <2>7 DEF Behind
<1> QED
  <2>1. \/ running_delta' = running_delta
        \/ captures # << >> /\ a \in Int /\ running_delta' = running_delta - delta \div 2
    BY <1>3, Corrected
  <2> QED
    BY <1>7, <1>8, <2>1

LEMMA BehindStep ==
    ASSUME NEW latest \in Nat, ClockTypeOK, Synced, ~LateDrift,
           \A late \in Latencies \cup Queued : late <= latest,
           running_delta = 0 \/ captures # << >>,
           Behind(latest), [ClockNext]_syncVars
    PROVE  Behind(latest)' /\ (running_delta' = 0 \/ captures' # << >>)
<1>0. \A late \in Latencies \cup Queued : late \in Nat
  BY ClockConstants
<1>1. ASSUME NEW late \in Latencies \cup Queued, SampleClock(theta - late),
             UNCHANGED <<theta, steps>>
      PROVE  Behind(latest)' /\ captures' # << >>
  <2>1. theta - late \in Int
    BY <1>0 DEF ClockTypeOK
  <2>2. captures' # << >>
    BY <1>1, <2>1, NotingNow, Windowed DEF SampleClock
  <2> QED
    BY <1>0, <1>1, <2>2, SampleStaysBehind
<1>2. ASSUME NEW up \in Latencies, NEW down \in Latencies, CallErrDrift(up, down)
      PROVE  Behind(latest)' /\ captures' # << >>
  <2> DEFINE half == (up + down) \div 2
             r == theta + up - half
             x == theta - down
  <2>1. /\ up \in Nat /\ down \in Nat /\ half \in Int /\ x \in Int /\ r \in Int
        /\ NoteSample(<<r>>, 0, x) /\ Noting(<<r>>, 0, x)
    BY <1>2, RejectedCall
  <2>2. 2 * half <= up + down /\ up + down <= 2 * half + 1
    BY <2>1, Halving
  <2>3. theta \in Int /\ latest \in Nat /\ up <= latest /\ down <= latest
    BY ClockConstants DEF ClockTypeOK
  <2>4. /\ x <= r /\ x \in (theta - latest)..(theta + latest)
        /\ r \in (theta - latest)..(theta + latest)
    <3> HIDE DEF half
    <3> QED
      BY <2>1, <2>2, <2>3
  <2> HIDE DEF r, x
  <2>5. /\ captures' # << >>
        /\ \A i \in DOMAIN captures' :
             captures'[i] = x \/ \E j \in DOMAIN <<r>> : captures'[i] = <<r>>[j]
    BY <2>1, Windowed
  <2>6. \A i \in DOMAIN captures' : captures'[i] = x \/ captures'[i] = r
    BY <2>5
  <2>7. running_delta' <= 0 /\ running_delta' \in Int
    BY <2>1, <2>4, CorrectedAfresh
  <2>8. running_delta' <= latest
    BY <2>3, <2>7
  <2>9. theta' = theta
    BY <1>2 DEF CallErrDrift
  <2> QED
    BY <2>4, <2>5, <2>6, <2>7, <2>8, <2>9 DEF Behind
<1>3. CASE Send
  BY <1>3 DEF Send, clockVars, Behind, IsSynced
<1>4. ASSUME NEW by \in ServerSteps, ServerStep(by) \/ ServerStep(-by)
      PROVE  Behind(latest)' /\ (running_delta' = 0 \/ captures' # << >>)
  <2>1. steps' = steps + 1 /\ steps \in Nat /\ UNCHANGED clockVars
    BY <1>4, ClockConstants DEF ServerStep, ClockTypeOK
  <2> QED
    BY <2>1 DEF Behind, clockVars
<1>5. CASE UNCHANGED syncVars
  BY <1>5 DEF syncVars, clockVars, Behind, IsSynced
<1> QED
  BY <1>1, <1>2, <1>3, <1>4, <1>5 DEF ClockNext, Time, CallOk, CallPromise

\* How far ahead of the gate the estimate may be when a frame was that late.
AheadAtMost(late) ==
    IsSynced /\ steps = 0 => ServerNow - theta <= late - ClientDelayMin

\* However late heartbeats come (a minute, of a client that slept), whatever the
\* mix of spikes, samples and rejections: the client stamps ahead of the gate by
\* no more than the latest of them was late, less the delay it always keeps
\* (CLIENT_DELAY_MIN_MS).
THEOREM AheadByLateness ==
    ASSUME NEW latest \in Nat, ~LateDrift, \A late \in Latencies \cup Queued : late <= latest
    PROVE  ClockSpec => []AheadAtMost(latest)
<1> DEFINE Inv == Behind(latest) /\ (running_delta = 0 \/ captures # << >>)
<1>1. ClockInit => Inv
  BY DEF ClockInit, Behind, IsSynced
<1>2. ClockTypeOK /\ Synced /\ Inv /\ [ClockNext]_syncVars => Inv'
  BY BehindStep
<1>3. ClockTypeOK /\ Inv => AheadAtMost(latest)
  <2> SUFFICES ASSUME ClockTypeOK, Behind(latest), IsSynced, steps = 0
               PROVE  ServerNow - theta <= latest - ClientDelayMin
    BY DEF AheadAtMost
  <2>1. PICK i \in DOMAIN captures : Anchor(captures) = captures[i]
    BY AnchorIsFreshest DEF ClockTypeOK, IsSynced
  <2>2. /\ Anchor(captures) \in Int /\ Anchor(captures) <= theta + latest
        /\ running_delta <= latest
        /\ Anchor(captures) > theta => running_delta <= 0
    BY <2>1, ClockConstants, AnchorIsFreshest DEF Behind, ClockTypeOK, IsSynced
  <2>3. /\ theta \in Int /\ running_delta \in Int /\ ClientDelayMin \in Nat
        /\ client_delay \in Int /\ ClientDelayMin <= client_delay
    BY ClockConstants DEF ClockTypeOK
  <2> QED
    BY <2>2, <2>3 DEF ServerNow
<1> QED
  BY <1>1, <1>2, <1>3, ClockTypesHold, PTL DEF ClockSpec
=============================================================================
