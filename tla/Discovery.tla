------------------------------ MODULE Discovery ------------------------------
(***************************************************************************)
(* The walk player -> player_soul -> soul -> cards: Client::discover and   *)
(* ensure_owned_inventory of src/core/src/client.rs, run for every card    *)
(* row that lands (apply_row) or comes due (tick), with the subscriptions  *)
(* that bring those rows.                                                  *)
(*                                                                         *)
(* The shard's rows are a fixed set of versions.  Each subscription the    *)
(* walk opens makes the gate send what it selects, whether or not it came  *)
(* through another one, in any order; a row may also come again.           *)
(*                                                                         *)
(* An owner_id is the id of a player for a player_soul and the id of a     *)
(* card for every other card, and the two kinds of id overlap: a player    *)
(* may have the id of any card.                                            *)
(***************************************************************************)
EXTENDS Integers, FiniteSets, Bags

CONSTANTS
  Card, Owner,     \* a card's owner_id
  Me, Other, NoPlayer,  \* the ids of the two players, and none
  PlayerSoul,      \* the cards with a player_soul definition
  Container,       \* the cards whose definition carries an inventory
  Inside,          \* the place of a card that is in its owner's inventory
  Viewport,        \* the places in the world that are in view
  Versions,        \* the shard's rows: [card, t, place]
  MaxTime

ASSUME DiscoveryAssumption ==
  /\ Owner \in [Card -> Card \cup {Me, Other}]
  /\ Me # Other /\ NoPlayer \notin Card \cup {Me, Other}
  /\ PlayerSoul \subseteq Card /\ Container \subseteq Card
  /\ MaxTime \in Nat
  /\ \A v \in Versions : v.card \in Card /\ v.t \in 0 .. MaxTime

VARIABLES
  clock_ms,
  named,        \* Login was dispatched
  player_id,    \* Me once our players row is in
  rows,         \* the versions in the world
  owed,         \* the versions the gate has yet to send (external)
  pending_promotions,  \* cards with the times their rows come due
  player_souls, \* the player_souls that are ours, their rosters subscribed
  souls,        \* the cell each tracked card is anchored at
  inventoried,  \* the containers held
  holds         \* the cards whose inventory zone is held, a bag

found == <<player_souls, souls, inventoried, holds>>
discoveryVars == <<clock_ms, named, player_id, rows, owed, pending_promotions, found>>

-----------------------------------------------------------------------------
(* current(c): the latest version that is due.                             *)
Due(w, now, c) == {v \in w : v.card = c /\ v.t <= now}
Here(w, now) == {v.card : v \in {v \in w : v.t <= now}}
Current(w, now, c) == CHOOSE v \in Due(w, now, c) : \A u \in Due(w, now, c) : u.t <= v.t

(* owning_player (external): every owner up to a player_soul is known, and *)
(* the player is that player_soul's.                                       *)
Line ==
  LET closed == {S \in SUBSET Card :
                   \A c \in S \ PlayerSoul : Owner[c] \in Card => Owner[c] \in S}
  IN  [c \in Card |-> {a \in Card : \A S \in closed : c \in S => a \in S}]
OwnedBy(player, w, now) ==
  LET here == Here(w, now)
  IN  {c \in here : /\ Line[c] \subseteq here
                    /\ \E a \in Line[c] \cap PlayerSoul : Owner[a] = player}
Owned(w, now) == IF player_id = Me THEN OwnedBy(Me, w, now) ELSE {}

\* Mutant: whatever carries our id as its owner is taken for a player_soul.
OursByOwner(w, now, S) == {c \in S \cap Here(w, now) : Owner[c] = player_id}
(* Role 1: the cards of S that are player_souls of ours.                   *)
Ours(w, now, S) == {c \in S \cap PlayerSoul \cap Here(w, now) : Owner[c] = player_id}
\* Mutant: souls that came first are left to their next row.
SweptNone(w, now, fresh) == {}
(* The sweep a new player_soul triggers: the current cards with its id as  *)
(* their owner.                                                            *)
Swept(w, now, fresh) == {c \in Here(w, now) : Owner[c] \in fresh}
(* The player_souls that are new.  A sweep finds more of ours when one has *)
(* the id of the player; theirs find no further ones.                      *)
Fresh(w, now, S) ==
  LET first == Ours(w, now, S) \ player_souls
  IN  first \cup (Ours(w, now, Swept(w, now, first)) \ player_souls)
(* Role 2: what is ours, at any remove, and stands in the world.           *)
Trackable(w, now, S) ==
  {c \in (S \ Ours(w, now, S)) \cap Owned(w, now) : Current(w, now, c).place # Inside}

(* discover on each card of S, then ensure_owned_inventory on each, in the *)
(* world w at a time now.                                                  *)
DiscoverAndEnsure(w, now, S) ==
  /\ player_souls' = player_souls \cup Fresh(w, now, S)
  /\ LET fresh == player_souls' \ player_souls
         tracked == Trackable(w, now, S \cup Swept(w, now, fresh))
     IN  souls' = [c \in tracked \cup DOMAIN souls |->
                    IF c \in tracked THEN Current(w, now, c).place ELSE souls[c]]
  /\ LET first == DOMAIN souls' \ DOMAIN souls
         more == (S \cap Owned(w, now) \cap Container) \ (inventoried \cup first)
     IN  /\ inventoried' = inventoried \cup first \cup more
         /\ holds' = holds (+) SetToBag(first \cup more)

-----------------------------------------------------------------------------
DiscoveryInit ==
  /\ clock_ms = 0
  /\ named = FALSE
  /\ player_id = NoPlayer
  /\ rows = {} /\ owed = {} /\ pending_promotions = {}
  /\ player_souls = {} /\ souls = [c \in {} |-> Inside]
  /\ inventoried = {}
  /\ holds = EmptyBag

(* What the gate sends on a subscription (external): to the zones in view  *)
(* or around an anchor, to the player's roster, which asks for player_souls*)
(* by their definition, to the roster of a player_soul, which asks for an  *)
(* owner_id only, to the zone of an inventory.                             *)
At(places) == {v \in Versions : v.place \in places \ {Inside}}
PlayerRoster == {v \in Versions : Owner[v.card] = Me /\ v.card \in PlayerSoul}
Roster(S) == {v \in Versions : Owner[v.card] \in S}
Inventory(S) == {v \in Versions : v.place = Inside /\ Owner[v.card] \in S}
NewlyOwed == Roster(player_souls' \ player_souls) \cup Inventory(inventoried' \ inventoried)
               \cup At({souls'[c] : c \in {c \in DOMAIN souls' :
                                             c \notin DOMAIN souls \/ souls'[c] # souls[c]}})

(* Login: the players subscription goes out with the call.  The viewport   *)
(* has its zones by now.                                                   *)
Login ==
  /\ ~named
  /\ named' = TRUE
  /\ owed' = At(Viewport)
  /\ UNCHANGED <<clock_ms, player_id, rows, pending_promotions, found>>

(* Our players row: the roster of our player_souls is subscribed.          *)
PlayerRow ==
  /\ named /\ player_id # Me
  /\ player_id' = Me
  /\ owed' = owed \cup PlayerRoster
  /\ UNCHANGED <<clock_ms, named, rows, pending_promotions, found>>

(* apply_row on a card's row.                                              *)
CardRow(v) ==
  /\ rows' = rows \cup {v}
  /\ pending_promotions' =
       IF v.t > clock_ms THEN pending_promotions \cup {[t |-> v.t, card |-> v.card]}
                         ELSE pending_promotions
  /\ DiscoverAndEnsure(rows', clock_ms, {v.card})
  /\ UNCHANGED <<clock_ms, named, player_id>>

Sent(v) == v \in owed /\ CardRow(v) /\ owed' = (owed \ {v}) \cup NewlyOwed
Again(v) == v \in rows \ owed /\ CardRow(v) /\ owed' = owed \cup NewlyOwed

(* A sample or a refusal for drift moves the clock, forward or back; what  *)
(* came due waits for the tick.                                            *)
ClockMoves(now) ==
  /\ now # clock_ms
  /\ clock_ms' = now
  /\ UNCHANGED <<named, player_id, rows, owed, pending_promotions, found>>

\* Mutant: a promotion only repaints.
TickRepaints(now) ==
  /\ \E p \in pending_promotions : p.t <= now
  /\ clock_ms' = now
  /\ pending_promotions' = {p \in pending_promotions : p.t > now}
  /\ UNCHANGED <<named, player_id, rows, owed, found>>
(* tick: the rows that came due are discovered anew.                       *)
Tick(now) ==
  /\ \E p \in pending_promotions : p.t <= now
  /\ clock_ms' = now
  /\ pending_promotions' = {p \in pending_promotions : p.t > now}
  /\ DiscoverAndEnsure(rows, now, {p.card : p \in pending_promotions \ pending_promotions'})
  /\ owed' = owed \cup NewlyOwed
  /\ UNCHANGED <<named, player_id, rows>>

DiscoveryNext ==
  \/ Login \/ PlayerRow
  \/ \E v \in Versions : Sent(v) \/ Again(v)
  \/ \E now \in 0 .. MaxTime : ClockMoves(now) \/ Tick(now)

DiscoverySpec == DiscoveryInit /\ [][DiscoveryNext]_discoveryVars

(* A correction of the clock that takes no version out of force again.     *)
NothingUndone == \A v \in rows : v.t <= clock_ms => v.t <= clock_ms'
SteadyDiscoverySpec == DiscoveryInit /\ [][DiscoveryNext /\ NothingUndone]_discoveryVars

(* The gate sends what it owes and the driver keeps ticking: while one of  *)
(* them has something to do, something of it gets done.  And time passes:  *)
(* the estimate gets beyond every instant for good.                        *)
Progress == \/ Login \/ PlayerRow
            \/ \E v \in owed : Sent(v)
            \/ \E now \in 0 .. MaxTime : Tick(now) /\ NothingUndone
DiscoveryFairness == WF_discoveryVars(Progress) /\ <>[](clock_ms = MaxTime)
FairDiscoverySpec == SteadyDiscoverySpec /\ DiscoveryFairness

-----------------------------------------------------------------------------
DiscoveryTypeOK ==
  /\ clock_ms \in 0 .. MaxTime /\ named \in BOOLEAN
  /\ player_id \in {Me, NoPlayer}
  /\ rows \subseteq Versions /\ owed \subseteq Versions
  /\ \A p \in pending_promotions : \E v \in rows : v.t = p.t /\ v.card = p.card
  /\ player_souls \subseteq PlayerSoul
  /\ DOMAIN souls \subseteq inventoried
  /\ inventoried = BagToSet(holds) /\ inventoried \subseteq Card
  /\ IsABag(holds)

Settled(c) == ~ \E p \in pending_promotions : p.card = c /\ p.t <= clock_ms
Placed(c) == c \in Here(rows, clock_ms) /\ Current(rows, clock_ms, c).place # Inside
Standing(c) == Placed(c) /\ Settled(c)

(* "so out-of-order arrivals aren't missed" (client.rs:921): a card that   *)
(* one of our player_souls owns is anchored, and where it now stands, in   *)
(* whatever order its rows and the player_soul's arrived or came due, as   *)
(* long as the clock takes no version out of force again.                  *)
SoulsAnchored ==
  \A c \in Card :
    Owner[c] \in player_souls /\ c \notin PlayerSoul /\ Standing(c)
      => c \in DOMAIN souls /\ souls[c] = Current(rows, clock_ms, c).place

EverOurs == OwnedBy(Me, Versions, MaxTime)

(* Nothing of another player's is ever tracked or held, nor its roster     *)
(* subscribed, though its rows come in through the zones we watch, even    *)
(* before we know who we are, though ids of players are ids of cards, and  *)
(* wherever the clock goes.  (And every variable has its type.)            *)
OnlyOurs ==
  /\ DiscoveryTypeOK
  /\ DOMAIN souls \cup inventoried \subseteq EverOurs
  /\ \A c \in player_souls : Owner[c] = Me

(* Every soul of ours that stands in the world is found in the end, and    *)
(* every container of ours within the inventories that opens.              *)
EverySoulIsFound ==
  <>[](\A c \in Card :
         /\ c \notin PlayerSoul /\ Owner[c] \in PlayerSoul /\ Owner[Owner[c]] = Me /\ Placed(c)
              => c \in DOMAIN souls
         /\ c \in Container /\ Owner[c] \in inventoried
              /\ c \in Here(rows, clock_ms) /\ ~Placed(c) => c \in inventoried)

(* "a card owned by a soul ... is tracked uniformly" (client.rs:939): so   *)
(* is a card at any remove, once every row that was asked for is in.       *)
TrackedUniformly ==
  owed = {} /\ pending_promotions = {} =>
    \A c \in Trackable(rows, clock_ms, Card) : c \in DOMAIN souls

(* "subscribe its soul roster ... so the souls it owns stream in"          *)
(* (client.rs:884): no roster asks for another player's cards.             *)
RostersAreOurs == \A v \in Roster(player_souls) : v.card \in EverOurs

(* "doesn't double-hold the same zone" (client.rs:950).                    *)
HeldOnce == \A c \in BagToSet(holds) : holds[c] = 1
=============================================================================
