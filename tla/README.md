# Verification of the Resonant Dust client core

The client core (`src/core/src`) is a library without I/O. A driver, native
(`session.rs`, `main.rs`) or in the browser (`src/wasm/src/lib.rs`), feeds it
messages of the gate (`Client::apply`), time (`Client::tick`) and player commands
(`place`, `set_anchor`, `dispatch`), and sends what it returns
(`drain_outbound`). This directory models the parts of the core that keep state
over several messages and its larger pure algorithms, checks them with TLC, and
proves the safety of the core components for every value of their constants with
TLAPS.

The core is single-threaded: each call of it is one action. What makes it hard
is that its inputs come in any order. Answers are late, lost or wrong; rows are
stamped for the past and the future; the clock is an estimate that steps back;
several small caches (dirty sets, watermarks, pending lists) have to agree with
one version store although each is updated in different handlers.

## Inventory

| component | state | operations | what makes it correct |
|---|---|---|---|
| Outbound call queue, `outbox.rs` | `calls`, `by_cid` | `want`, `done`, `pump`, `on_ok`, `on_err`, `on_promise` | one attempt in flight per call, an answer reaches only its own attempt, nothing latches, retries back off |
| Zone manager, `zones.rs` | anchors, `subs`, `region_wanted`, intents | `set_anchor`, `clear_anchor`, `ensure`, `release`, `note_update` | what is needed is open, capacity, regions held exactly by their zones, gate and manager agree |
| Soul memory, `zones.rs`, gc in `world.rs` | `soul_mem`, versions | `update_memory`, `enforce_memory_lru`, `card_view_time`, `zone_card_pins`, `gc` | bounded, a zone reads as it was left, gc invisible to a soul |
| Zone reconcile, `client.rs` | `region_bits`, wanted calls | `zone_needs`, `reconcile_zones`, `note_region` | tracked zones come to exist, no call outlives its need |
| Action queue, `actions.rs`, `client.rs` | `actions`, `dirty_roots` | `flush_dirty`, `evaluate_root`, `fire_ready`, `resolve_action`, `settle_or_drop`, `sweep_settled` | no answer orphaned, only live matches proposed, window honoured, resubmits bounded |
| Optimistic positions, `client.rs`, `world.rs` | versions, `dirty_positions`, `local_rows` | `place`, `build_move_cards`, `flush_positions`, `apply_row` | a move sticks until sent, none is forgotten, shared space in sync, holds seen |
| Promotion and freshness, `client.rs`, wasm `pump` | `pending_promotions`, `next_zone_promote`, `dirty_roots`, `render_kick`, `changed` | `tick`, `apply_row`, `place`, `pump` | whatever comes into force is evaluated and shown |
| Clock discipline, `clock.rs` | captures, delta, delay | `note_sample`, `correct_from_drift`, the replies that feed them | never ahead of the gate, never deaf to it, a refusal puts it right at once |
| Matcher, `client.rs` | the recipe index; otherwise pure | `match_recipes_inner` and its helpers | the aspect filter loses no match, each recipe is matched at the first place it holds and only there, memory is matched as remembered and never acted on |
| Movement, `client.rs` | plan of a soul | `hex_path`, `move_step`, `start_move_to`, `build_move_card_step`, `advance_movement` | shortest paths, no step refused while one walk is all that moves the soul, on time, a walk is carried to its end |
| Magnets, `client.rs` | windows, `magnet_failed` | `magnetic_pass` | gathers once, fails once (only the gathering itself is modelled) |
| Discovery, `client.rs` | `player_souls`, `souls`, `inventoried`, holds | `discover`, `ensure_owned_inventory` on arriving and promoted rows | every soul of ours anchored where it stands, nothing of another player's, in any order of rows and although ids of players are ids of cards |
| Drivers, `session.rs`, `main.rs`, wasm `lib.rs` | sockets, view flag | loops of I/O | (freshness of the view is modelled) |
| Framing and content, `gate.rs`, `transport.rs`, `content.rs`, `rows.rs`, `lib.rs`, chat | none | formatting, parsing, a pass-through buffer | not modelled |

How they meet: `apply_row` feeds rows to the world store, marks dirty roots and
pending promotions, tells the zone manager of noise and region bits, reconciles
positions, runs discovery and sends the next step of a walk (`advance_movement`).
`tick` refreshes the clock estimate, reconciles zones into wanted calls, promotes,
runs the match pass (sweep, flush, fire) and the magnets. `drain_outbound` takes
the subscription intents and pumps the queue. Every stored
row is a version with a stamp; what is in force is the newest version not ahead
of the clock estimate, so the clock is an input of nearly everything.

## Modules

`X.tla` is a component, `MCX.tla` gives its constants values for TLC, `X*.cfg`
are its configurations, `XProofs.tla` its theorems. **GateProofs** holds those
of the three components that follow what the gate sends (ZoneReconcile,
Discovery, ClockSync). They are extended together there, so Discovery and
ClockSync name their initial states, steps and specifications after themselves
(`DiscoverySpec`, `ClockSpec`).

* **CallContract** is the abstract queue: a call is open from want to
  confirmation or withdrawal, has at most one current attempt, and only the
  confirmation of that attempt completes it. **Outbox** is the detailed one, one
  action per handler; `calls`, `by_cid` are the code's fields and `asked`,
  `reply`, `promised` are the link. Timestamps are countdowns to them, which is
  all the code compares. **OutboxPacing** adds history for the back-off.
* **StickySubs** is the abstract subscription set: what is wanted is open, what
  is not may linger, nothing wanted is dropped. **ZoneSubs** is `ZoneManager`
  with its intents and the drain of `zone_frames`. The geometry of an anchor is
  the constant `Coverage`.
* **ZoneReconcile** composes the need of zones, the region cache and the queue:
  it instantiates `CallContract`, which Outbox implements, in place of Outbox,
  and keeps of the subscriptions only the Zone ones that hold regions. The
  gate's execution, answers, pushes and deletions are external actions.
* **ActionQueue** is the queue of matched recipes; `live` and `actor` stand for
  the answers of the matcher and of `actor_owner_root`, and change as rows do,
  with or without marking the root dirty. Time counts down one unit per tick;
  the match pass runs when its budget allows. **ActionHistory** adds history for
  the debounce window and the number of proposals.
* **PositionSync** is `place`, its sending, and the reconciliation of rows, over
  versions `[at, pos, held, need]`. Local stamps lie between the server stamps of
  the same instant, so both orders of a collision occur. `MortalSpec` lets the
  server destroy cards as well.
* **SoulMemory** is the watermarks, the LRU, the view and the collection.
* **Freshness** is how the two readers of the world, the matcher and the view,
  are told of changes. `seen`, `shown` and `gathered` are history: what each
  reader saw last, and which cards magnets took since.
* **ClockSync** is the estimate of the server's clock. All times are differences
  to the monotonic clock, the only form in which the code uses them; `theta` is
  the truth the estimate is held against. Calls carry the stamp they were sent
  with, because a refusal is applied to that stamp and not to the estimate of
  the moment. Halvings are exact: a unit is a small fraction of a millisecond.
* **HexGrid** is the grid and the greedy walker; **Movement** one soul's walk
  over it with the shard that judges each step and the rows that come back late
  or twice. A row carries the command that caused it (`by`), which no handler
  reads: it is there to say which step a row confirms.
* **Discovery** is the walk player, player_soul, soul, cards, together with what
  the gate sends for each subscription the walk opens. An `owner_id` is the id of a
  player or of a card, and the two kinds overlap: the constants `Me` and `Other` may
  be cards. The estimate of the clock goes to any instant, by a sample, a refusal
  (`ClockMoves`) or a `Tick`; `SteadyDiscoverySpec` restricts the corrections, not the
  handlers (see the premises).
* **Matcher** is a pure module: `MatchRecipes` is the code's search, with the
  filter, the passes, the windows and the bindings. A candidate layout is a pass
  and the offsets of its two windows (`Layouts`), and the code takes the first
  that matches in the order of its loops (`First`). `Placements` and `At` say,
  without filter, windows or bindings, at which places a recipe could be read and
  what is there. Its states are worlds, each matched once.

The world store has no module of its own: a store of versions is a set of
records in PositionSync, SoulMemory and Freshness, with the operations of
`world.rs` each of them depends on.

## Runs

All runs pass. Each takes half a minute to two minutes with two workers. The type
invariant of a module is a conjunct of its first invariant.

| run | module | shows | bounds and why they are enough |
|---|---|---|---|
| Outbox_safety | MCOutbox | `CidsMatchCalls`, `SentOnceWhileInFlight`, `OnlyOwnAckRetires`, `RetriesBackOff`, `ImplementsContract` | two calls, three ids: an old answer, a current one and a call beside them; promises shorter and longer than the time-out; back-offs 1 and 2, the cap, so growth and saturation both occur |
| Outbox_live | Outbox | `NeverLatched`, `WantedGetsDone` | two calls competing for two ids; `FairSpec` schedules the driver and the time-outs, and nothing else |
| ZoneSubs | MCZoneSubs | `NeededIsOpen`, `RegionHeldByItsZones`, `GateFollowsManager`, `ImplementsSticky` | two anchors over two zones of one region, four subscriptions and room for three: candidates must be chosen; the clock steps both ways |
| ZoneReconcile | MCZoneReconcile | `NoCallOutlivesItsNeed`, `TrackedZoneMaterializes` | two zones of a region, one of which the region cannot hold; a row on its way; one deletion, so that a stale row can be cached and believed |
| ActionQueue | MCActionHistory | `NoAnswerOrphaned`, `ResubmitsBounded`, `WindowHonoured`, `IdleRootIsEvaluated`, `WaitingEnds` | one root that changes hands between two souls, a debounced and an instant match of which one supersedes the other, a lossy link, a match pass in budget every other tick |
| PositionSync | MCPositionSync | `LocalMoveSticks`, `NoMoveForgotten`, `SharedSpaceIsSynced`, `ArrivingHoldIsSeen` | one card, two cells in two zones, two server versions of the past, the present or the future |
| SoulMemory | MCSoulMemory | `MemoryBounded`, `RemembersAsLeft`, `GcIsInvisible` | three zones, room for two; three versions over four instants |
| Freshness | MCFreshness | `MembersSeen`, `ViewFollows` | a card with two versions between two roots, and a tile row whose deletion leaves its instant noted, so the next promotion has to be looked up again |
| ClockSync | ClockSync | `NeverAhead`, `NeverDeaf`, `DriftReseats` | five samples over a window of three, so the window drops; latencies on both sides of the spike limit; two calls under one wrong clock; one step of the gate's clock |
| Movement | MCMovement | `PathShortest`, `OnSchedule`, `WalkCompletes` | two walks over two kinds of terrain, one as long as a path may be; one single step or repeated row in between; one cell whose tile comes late |
| Discovery | MCDiscovery | `SoulsAnchored`, `OnlyOurs`, `EverySoulIsFound` | a player_soul out of view and one in view, stamped after its soul, which moves and has a chest with a box in it; a stranger's player_soul, his soul in view and a bundle in its inventory. Our id is that of the stranger's soul, so his bundle carries our id; his is that of our player_soul in view, so our roster brings his. Rows in any order, repeated, some ahead of the clock (1 to 2 min) |
| Matcher | MCMatcher | `FilterSound`, `FindsFirst`, `MemoryOnly` | six recipes of the kinds the content has (adjacent cards, the root in a stack, a tile, an owner's tool, an alternative, a negation), every arrangement of three cards over three stacks, held or not, present, remembered or unknown |

## Further configurations

`tlc -config X.cfg MCY` reproduces each; they are not among the runs above.
Four pass: **ActionQueue_pair** (two roots and two ids: `NoAnswerOrphaned`,
and `ProposesWhatIsLive`, no match is proposed that does not hold at that
moment), **PositionSync_stack** (two cards, one an anchor carrier, which is sent
whatever zone it is in), **Freshness_live** (`InForceIsEvaluated`, the
liveness that `MembersSeen` is the safety of) and **Discovery + `OnlyOurs`** under
`DiscoverySpec` (nothing of another player's, wherever the clock goes).

The others end in a violation, because the code does otherwise than its comments
say. `PROJECT.json` quotes each comment and tells the case. A configuration
written `X + P` is `X.cfg` with `P` in place of its own properties.

| configuration | the code |
|---|---|
| ActionQueue_dirty (`DirtyRootIsEvaluated`) | consumes the mark of a root whose action is in flight |
| ActionQueue_dirty + `SettlesItsGrace` | drops a settling action when no soul acts on its root for a moment |
| ActionQueue_dirty + `ProposalEnds`, `Lossy = TRUE` | keeps a proposal whose answer is lost in flight for ever |
| ZoneReconcile_stale (`CacheIsOfSubscribedRegions`) | caches a region row that arrives after the region was released |
| PositionSync + `HoldNeverShadowed` | shadows a hold that arrives after the move was sent, stamped before it |
| PositionSync + `RequiredIsAdopted` | keeps the local version in force over a position the server requires |
| PositionSync + `DestroyedIsGone`, `MortalSpec` | keeps a destroyed card alive as its local versions |
| SoulMemory + `GcKeepsRemembered` | reaps a remembered version of a card about to change zones |
| SoulMemory + `GcKeepsWatermarks` | reaps the version a present soul is about to leave with, when a newer one came since its last `set_anchor` |
| SoulMemory + `LiveOnlyWhereHot` | reads a warm or cold zone live |
| SoulMemory + `FreezesOnLeaving` | freezes memory at the last `set_anchor`, not at the departure |
| Freshness_back (`PromotionIsMarked`) | loses a promotion when the estimate steps back over it |
| Freshness + `DepartureIsMarked` | does not evaluate the chain a row took a card out of |
| Freshness + `LocalMoveIsShown` | does not flag the view when a magnet places a card |
| ClockSync_steady (`SteadyConverges`) | never moves the correction once a steady error counts as a spike |
| ClockSync + `NeverAhead`, `Queued = {12288, 61440}` | stamps ahead of the gate after a first sample that queued for a minute: the delay is clamped, the jitter that tells a spike from a normal error is not |
| ClockSync + `DecaysByAge` | shrinks the delay on a smaller spike, with every old one still in the window |
| Movement_ghost (`ConfirmedByItsStep`) | takes a row of a former walk for the confirmation of a step of the new one; the shard can refuse what it then sends, and the walk stops |
| Movement + `ReissueReplaces` | keeps the old walk when the first step of the new one cannot be built |
| Discovery + `SoulsAnchored`, `DiscoverySpec` | misses a soul whose row comes while the estimate has stepped back over the row of its player_soul, which was drained |
| Discovery + `TrackedUniformly`, `SteadyDiscoverySpec`, `Versions <- OutVersions`, `Owner <- OutOwner` | misses a card owned by a soul that came before its owner |
| Discovery + `HeldOnce`, `SteadyDiscoverySpec`, `Versions <- CarriedVersions` | holds a container twice that is carried from an inventory into the world |
| Discovery + `RostersAreOurs` | subscribes the roster of a player_soul by its id alone, which the id of another player may equal |
| Matcher + `NeverBindsHeld` | binds a held tool of an owner |
| Matcher + `LiveIsPresent` | calls a match live in a zone the soul has no memory of |
| Matcher_rooted (`FindsFirst`) | never matches a recipe that reads the chain of the root's owner |
| Matcher + `MostCardsWin`, `Recipes <- PileRecipes` | prefers more input lines to more cards |
| Matcher + `AdjacentInStack` | binds two cards with a held one between them as neighbours |
| Matcher + `TileOnlyWhenBare` | binds the tile below a hex stack whose cards are held |

Two more show where a premise of a run bites, with no comment to hold against the
code. Movement_ghost with `NeverStandsStill` and `Unloaded <- Second2`: a walk
whose next tile has not come when the row does stands still for good.
ClockSync with `LateDrift = TRUE` and `DriftReseats`: a call that is refused
for drift after it was promised has lost its stamp, and the correction is applied
to the estimate of the moment instead.

### Premises to know about

* `ArrivingHoldIsSeen` speaks of cards whose local versions are all still
  marked; the unmarked ones are `HoldNeverShadowed`.
* `LocalMoveSticks`, `NoMoveForgotten` and `SharedSpaceIsSynced` hold of `Spec`,
  where the server destroys no card. A frame that is built counts as told.
* Freshness and Freshness_live let the clock estimate only
  advance (`SteadySpec`); `WanderingSpec` corrects it backwards and is
  Freshness_back. Versions may still arrive late and for the past.
* `ViewFollows` leaves out the cards magnets took, which are `LocalMoveIsShown`.
* `TrackedZoneMaterializes` ends its duty when the server deletes a region row.
  After that a stale cached row (ZoneReconcile_stale) can say that a zone exists
  which does not, and nothing corrects it.
* `NeverAhead` and `NeverDeaf` speak of a gate whose own clock was not stepped;
  `DriftReseats` also of one that was. `NeverAhead` also depends on how long a
  heartbeat may queue: it holds for the run's `Queued` (up to 10 s) and fails
  for a first sample that queued for a minute (see the configurations above).
* `OnSchedule` speaks of the first walk, and as long as no single step crossed
  it. A walk that replaces another may be refused: a row of the former one can
  confirm a step of the new one (`ConfirmedByItsStep`), which then departs from a
  cell the shard may have overwritten. `WalkCompletes` lets go of a walk that
  was refused or crossed, one of whose rows came back after its arrival, or
  while a tile is missing. `Prompt` keeps time from passing the arrival of a row
  still due; `OnSchedule` needs no such thing, and is proved without it.
* `SoulsAnchored` and `EverySoulIsFound` hold of a clock that may be corrected either
  way but takes no version that was in force out of force again (`NothingUndone`).
  When it does, `SoulsAnchored` fails, for the promotion was drained (see above).
  `OnlyOurs` holds wherever the clock goes (proved, and Discovery + `OnlyOurs`).
* `SoulsAnchored` speaks of the cards a player_soul owns directly; those at any
  remove are `TrackedUniformly`. A card one of whose versions has come due since
  the last tick is discovered by the next. The shard deletes no card in Discovery;
  `discover` does not run on a deletion.
* `CardDeleted` of Freshness takes the oldest version of a card: one superseded for
  good, or those of a destroyed card in turn. `apply_row` marks nothing on a deletion;
  one in another order would put an older version back in force unnoticed.
* `RemembersAsLeft` is about what a soul reads from the moment it is away: the
  watermark is that of its last `set_anchor` (`FreezesOnLeaving`), and what was in
  force at that instant may have been reaped before it left (`GcKeepsWatermarks`).
* `FindsFirst` compares with a definition of where a recipe holds that takes held
  cards out of the stacks first, as the code does; what that means for
  neighbours and tiles are `AdjacentInStack` and `TileOnlyWhenBare`. It is proved
  of bundles in which no slot leads from the root itself into the chain of its
  owner (`Unrooted`): such a recipe is never matched (Matcher_rooted). Offsets are
  at most 254, for the code keeps the span of a stack in a `u8`.

### Fairness

* The driver calls `tick` and `drain_outbound` in a loop, so `Tick`, `Pump`,
  `Reconcile` and `Pumped` are weakly fair: each is always possible, or stays so.
* The link may lose anything. Only an id must be let go some day, which is the
  time-out of the gate (`LetGo`), or else no id would be free: the code draws ids
  from a counter that does not run out, the model from a small set.
* `WantedGetsDone` and `TrackedZoneMaterializes` also assume that a gate which is
  able to execute and answer in time again and again does so at last (`SF`). No
  queue can do without that. In Outbox the assumption is the premise of
  `WantedGetsDone` itself, for the one call it speaks of, and the run's specification
  is `FairSpec`, which asks nothing of the gate: `NeverLatched` is checked without it.
* `WaitingEnds` and `IdleRootIsEvaluated` hold although answers are lost: they
  speak of roots that have no proposal out. A lost proposal is `ProposalEnds`.
* Discovery: as long as the gate owes a row or a due promotion is not drained,
  something of that gets done (`Progress`). Which, and in what order, is left open.
  And time passes: the estimate comes to stay beyond every stamp, which is
  `<>[](clock_ms = MaxTime)` where `MaxTime` is the last.
* Movement: rows on their way are delivered and calls on the wire are judged.
  Time itself need not pass.

## Proofs

Eight modules prove, for every value of the constants, what the runs show on
small instances. Each component has an inductive invariant, `IInv` (in GateProofs
`ZoneInv`, `DiscoveryInv` and `SteadyInv`, for Matcher `Consistent`), a lemma per action that
the action preserves it,
`THEOREM Invariance`, and the properties from it. Where a property speaks of
history, an invariant of the history is proved on top.

| module | theorems | the strengthening, and why it is needed |
|---|---|---|
| OutboxProofs | `TypeOK`, `CidsMatchCalls`, `SentOnceWhileInFlight`, `OnlyOwnAckRetires`, `ImplementsContract` | an id of the index is one the gate was asked under (`AskedMatchesCids`), an answer on its way belongs to a question (`RepliesAreAsked`): a new attempt takes an id that is neither asked nor answered, and the index stays one-to-one only if such an id is not in it |
| | `RetriesBackOff`, under `PacedSpec` | what a call still has to wait and what it has waited since it failed make up its back-off, and the failures counted are its `retry` (`PaceInv`): the countdown and the history are kept by different handlers |
| ZoneSubsProofs | `NeededIsOpen`, `RegionHeldByItsZones`, `GateFollowsManager`, `ImplementsSticky` | the types and these three together; `Evicted` counts what capacity may take, which is where the ceiling meets the wanted ones; `RecomputeIs` says what one recompute does, for every operation ends in one; the gate agrees with the manager once the queue is drained, by lemmas on what the drain makes of a queue one intent longer |
| GateProofs | `NoCallOutlivesItsNeed` | what is open is what the last reconcile wanted, and only open calls have an attempt (`Wanted`) |
| | `OnlyOurs`, under `DiscoverySpec` | the player_souls found have our id as their owner and are player_souls by definition (`RosterIsOurs`), whatever other cards carry that id, and every hold is of a container that is ours by some version (`HeldIsOurs`) |
| | `SoulsAnchored`, under `SteadyDiscoverySpec` | a version still to come has its promotion pending (`Scheduled`): between two rows a card only changes through one, and that promotion runs `discover`; the player_souls found are in force (`RosterInForce`), so what they own is owned by us at no remove |
| | `DriftReseats` | the types, and that calls exist only once a sample has landed (`Synced`): the stamp a refusal is applied to was an estimate |
| | `NeverDeaf`, while `StaleMs` covers a reply and the error of two uneven trips | no capture is fresher than the gate by more than such an error (`NoFresher`); a capture put there by a refusal is the only one that can be fresher at all |
| | `AheadByLateness` | the estimate is ahead by at most what the latest frame, replies and queued heartbeats alike, exceeds `ClientDelayMin`: every capture is within the latest of the gate, the correction is no more than that, and no correction forward is left when the freshest capture is itself ahead (`Behind`); a step half-way to a fresher sample and the jump of the anchor to it come in one update |
| ActionQueueProofs | `NoAnswerOrphaned`, `ProposesWhatIsLive` | a proposal on its way has exactly one action waiting under its id, with the match that was proposed (`Waited`): two actions under one id, or an exchanged match, would pass the property until the answer came |
| | `ResubmitsBounded`, `WindowHonoured`, under `WatchedSpec` | the match that waits is the one last seen, and what is left of its window and the looks that found it make up the whole (`Windowed`); every proposal counted is a retry or the attempt that is out (`Charged`) |
| PositionSyncProofs | `LocalMoveSticks`, `NoMoveForgotten`, `SharedSpaceIsSynced` | every version of a marked card, those to come included, has the player's position unless it is required (`DirtyPinned`): the clock may bring any of them into force; a marked card is in force (`DirtyKnown`) and stands where nobody else looks (`DirtyPrivate`) |
| | `ArrivingHoldIsSeen` | follows from the types: a hold is copied to the marked versions after it and stays the newest of the server's until the next; the history is finite, which is how a new server version is told from a replaced one |
| SoulProofs | `MemoryBounded`, `RemembersAsLeft`, `GcIsInvisible` | a soul is present exactly where its anchor reaches (`Presence`): the LRU never forgets those zones, and only those are stamped, so a watermark stands while the soul is away (`WatermarkStays`) and pins what it selects; a card has one version at an instant |
| | `FilterSound` | what has been evaluated is what the search returns (`Consistent`); a test a strict line makes of a top-level slot is made of a card on the stacks or of the tile, all of which the index has counted (`FilterPasses`); `Outranks` orders the matches totally, so exactly one is best (`BestIsOne`) |
| | `FindsFirst`, unless a slot leads from the root into the chain of its owner | the layouts are the pairs of offsets at which the windows fit (`LayoutsFit`), and in each a slot names the card the reference finds there (`SlotsAgree`), so the layouts that match are the placements (`MatchingIsPlacements`); any set of layouts has a first (`FirstIsLeast`) |
| | `MemoryOnly` | the search looks at a world only through the view, the owners and the chains, and two worlds alike in these match alike (`Alike`) |
| FreshnessProofs | `MembersSeen`, `ViewFollows`, under `SteadySpec` | whatever is still to come has its promotion pending (`Scheduled`): that alone makes up for the passing of time, which no row reports (`JoinedByTime`); the next tile promotion noted is no later than any tile row to come (`TilesNoted`) |
| MovementProofs | `PathShortest` | on the infinite grid some neighbour is exactly one nearer to the target and the greedy choice takes one such (`StepConverges`), so every turn of the loop keeps the path straight (`OnwardIs`); some version of the soul is always due (`Keyed`) |
| | `OnSchedule` | of a walk nothing crosses, the shard has its steps in order, each as much later as it takes (`Taken`), at most one call is on its way and it is the next step (`OneAtATime`), and both are steps of the plan (`AsPlanned`): a row on the cell last asked for is then the row of that step, for a path never comes back to a cell |

What is assumed is stated in the `ASSUME` of each component, and the runs evaluate
all of them. Beside types the assumptions say: there are finitely many zones
(ZoneSubs, SoulMemory), every nonempty set of matches has a best one
(ActionQueue), the code's constants are ordered as they are. The newest version,
the next promotion and the like exist because stamps are bounded or there is one
at the start; the proofs derive that from the well-foundedness of the naturals,
and so what a recursive function makes of a queue (`Frames`), a path (`HexPath`)
or a stack (`Free`): the least step at which it went wrong would be preceded by one at
which it had not.

What the theorems of ClockSync assume beside is how the constants relate, which
the code states only as the values it gives them. `NeverDeaf` needs
`late + up - (up + down) / 2 <= StaleMs` of any three trips that are on time: with
STALE_SAMPLE_MS at 6 s, trips of up to 4 s. `NeverAhead` is not a theorem: for
heartbeats that queued 10 s the run checks it, for a minute it is false (ClockSync +
`NeverAhead` above). What holds for every lateness is the bound `AheadByLateness`,
with `NeverAhead` as the case of frames within CLIENT_DELAY_MIN_MS (1.5 s). Both, and
`DriftReseats`, are about a gate
that does not refuse a call for drift which it promised (`~LateDrift`); of the
other kind `DriftReseats` is false (see the configurations). The theorems of
PositionSync are about `Spec`, not `MortalSpec`, those of Freshness about a clock
that only advances, and `SoulsAnchored` about `SteadyDiscoverySpec`, for the reasons
given under the premises.

Left to TLC: everything that must eventually happen, for the provers have no
`ENABLED` and no fairness; of the safety invariants, `NeverAhead`.

## Not modelled

* Formatting, parsing, sockets, logging and content (see the inventory): no state
  whose order matters. External crates (`resonantdust_codec`, `_dsl`, `_state`,
  `_protocol`) and the gate appear only as the inputs the code takes from them,
  marked external in the map.
* The native session and its harness (`session.rs`, `main.rs`): a loop of I/O
  around the same three calls the browser driver makes, whose pump is in
  Freshness.
* Magnets: the window a magnet opens, its failure frame and `magnet_failed`. Only
  the shard reads them, and nothing in the code says what it should see. What a
  magnet does to a card is in Freshness.
* A `move_cards` frame that is lost or refused: the marks are dropped when it is
  built and the code says nothing of what should follow, so there is no
  property to state. PositionSync takes a frame that is built as told.
* Tile pins, which are card pins over again; `progress_window` and the tile field
  lookups, which are arithmetic for the view; chat, a buffer passed through.

## Plan

Written, in this order: Outbox with its contract and proofs, ZoneSubs,
ZoneReconcile, ActionQueue, PositionSync, SoulMemory, Freshness; then ClockSync,
Movement, Discovery, Matcher; then the proofs of the other modules.

What is left, in the order of its worth:

1. The pump of the browser driver composed with PositionSync over a link that
   loses frames, once it is decided what a lost `move_cards` ought to do.
2. Magnets, when the shard's side of a failure is stated somewhere.
3. A proof of `NeverAhead` for heartbeats that queue longer than the least
   delay, which needs a bound on how far a first late sample can raise the
   jitter.
