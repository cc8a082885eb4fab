----------------------------- MODULE ActionQueue -----------------------------
(***************************************************************************)
(* The triggered action queue: core/src/actions.rs and the part of         *)
(* core/src/client.rs that drives it (evaluate_root, flush_dirty,          *)
(* fire_ready, resolve_action, settle_or_drop, sweep_settled, and their    *)
(* place in tick).                                                         *)
(*                                                                         *)
(* A root has at most one queued action.  What match_recipes would answer  *)
(* for a root, seen through a soul, is the state of the world here: live   *)
(* matches come and go with rows, moves and the clock, sometimes marking   *)
(* the root dirty and sometimes not.  Time is counted down, one unit to a  *)
(* tick.  propose() fails only for a recipe the bundle does not know,      *)
(* which no match names, so it always succeeds here.                       *)
(*                                                                         *)
(* The gate is external: it answers a proposal whichever way it likes and, *)
(* when Lossy, the link may lose the proposal or its answer.               *)
(***************************************************************************)
EXTENDS Integers, FiniteSets

CONSTANTS
    Root, Soul, Match, Cid,
    NoSoul, NoMatch, NoCid,
    Priority,       \* Match -> Nat, injective: RecipeMatch.priority
    Instant,        \* the matches of single-input recipes, never debounced
    Debounce,       \* DEFAULT_DELAY_MS
    Grace,          \* SETTLE_GRACE_MS
    Budget,         \* MATCH_BUDGET_MS
    MaxRetries,     \* MAX_TIME_DRIFT_RETRIES
    Gaps,           \* the waits a client_ahead answer can ask for, padded
    Lossy           \* whether the link may lose a proposal or its answer

ASSUME QueueAssumption ==
    /\ Priority \in [Match -> Nat]
    /\ \A m, n \in Match : Priority[m] = Priority[n] => m = n
    /\ \A S \in SUBSET Match : S # {} => \E m \in S : \A n \in S : Priority[n] <= Priority[m]
    /\ Instant \subseteq Match
    /\ Grace \in Nat \ {0} /\ Debounce \in Nat /\ Grace < Debounce
    /\ Budget \in Nat /\ MaxRetries \in Nat /\ Gaps \subseteq Nat \ {0}
    /\ NoSoul \notin Soul /\ NoMatch \notin Match /\ NoCid \notin Cid
    /\ Lossy \in BOOLEAN

VARIABLES
    actions,    \* Root -> QueuedAction, or NoAction
    dirty,      \* dirty_roots
    rest,       \* time until the next match pass is in budget
    asked,      \* Cid -> the proposal travelling under it, or NoProposal
    live,       \* external: Root -> Soul -> the matches live now
    actor       \* external: Root -> the soul acting on it, actor_owner_root

world == <<live, actor>>
vars == <<actions, dirty, rest, asked, world>>

NoProposal == [root |-> "none", m |-> NoMatch]

\* settle counts the grace down, 0 when the action is not settling.
NoAction == [m |-> NoMatch, soul |-> NoSoul, wait |-> 0, debounced |-> FALSE,
             retries |-> 0, cid |-> NoCid, settle |-> 0]

Queued(m, soul) ==
    [NoAction EXCEPT !.m = m, !.soul = soul,
                     !.wait = IF m \in Instant THEN 0 ELSE Debounce,
                     !.debounced = m \notin Instant]

InFlight(a) == a.cid # NoCid
Settling(a) == a.settle > 0
IsActive(a) == InFlight(a) \/ Settling(a)
Waiting(a) == a # NoAction /\ ~IsActive(a)
Ready(a) == Waiting(a) /\ a.wait = 0

\* The match evaluate_root would queue for r.
Best(r) ==
    CHOOSE m \in live[r][actor[r]] : \A n \in live[r][actor[r]] : Priority[n] <= Priority[m]

-----------------------------------------------------------------------------
(* The steps of a tick.                                                    *)

Less(n) == IF n > 0 THEN n - 1 ELSE 0

\* sweep_settled, one unit of time later.
Swept(a) ==
    IF a.settle = 1 THEN NoAction
    ELSE [a EXCEPT !.wait = Less(@), !.settle = Less(@)]

\* Mutant: only a settling action is left alone.
EvaluatedInFlight(a, r) ==
    CASE Settling(a) -> a
      [] ~Settling(a) /\ live[r][actor[r]] = {} -> NoAction
      [] OTHER -> IF a.m = Best(r) THEN a ELSE Queued(Best(r), actor[r])

\* Mutant: an unchanged match starts its window over.
EvaluatedAfresh(a, r) ==
    CASE IsActive(a) -> a
      [] ~IsActive(a) /\ live[r][actor[r]] = {} -> NoAction
      [] OTHER -> Queued(Best(r), actor[r])

\* Mutant: a superseding match inherits the running window.
EvaluatedKeepsTimer(a, r) ==
    CASE IsActive(a) -> a
      [] ~IsActive(a) /\ live[r][actor[r]] = {} -> NoAction
      [] OTHER -> IF a # NoAction THEN [a EXCEPT !.m = Best(r)] ELSE Queued(Best(r), actor[r])

\* evaluate_root for the soul acting on r.
Evaluated(a, r) ==
    CASE IsActive(a) -> a
      [] ~IsActive(a) /\ live[r][actor[r]] = {} -> NoAction
      [] OTHER -> IF a.m = Best(r) THEN a ELSE Queued(Best(r), actor[r])

\* flush_dirty: a root nobody acts on loses its action unless it is in flight.
Flushed(a, r) ==
    IF actor[r] # NoSoul THEN Evaluated(a, r)
    ELSE IF InFlight(a) THEN a ELSE NoAction

\* The match pass runs at most once per Budget.
Flushing == dirty # {} /\ rest <= 1

\* What the queue holds when fire_ready starts.
Pending(r) ==
    IF Flushing /\ r \in dirty THEN Flushed(Swept(actions[r]), r) ELSE Swept(actions[r])

\* Mutant: the dirty set is drained whether the pass is in budget or not.
DirtyDrained == {}

DirtyLeft == IF Flushing THEN {} ELSE dirty

\* The match still holds for the soul it was queued for.
StillMatches(a, r) == a.m \in live[r][a.soul]

\* One tick: sweep, flush when in budget, then fire what is ready and still
\* matches, each proposal under a fresh cid.
Tick ==
    LET queue == [r \in Root |-> Pending(r)]
        ready == {r \in Root : Ready(queue[r])}
        fired == {r \in ready : StillMatches(queue[r], r)}
    IN  \E cid \in [fired -> {c \in Cid : /\ asked[c] = NoProposal
                                          /\ \A r \in Root : actions[r].cid # c}] :
            /\ \A r, s \in fired : cid[r] = cid[s] => r = s
            /\ actions' = [r \in Root |->
                              IF r \in fired THEN [queue[r] EXCEPT !.cid = cid[r]]
                              ELSE IF r \in ready THEN NoAction
                              ELSE queue[r]]
            /\ asked' = [c \in Cid |->
                            IF \E r \in fired : cid[r] = c
                            THEN LET r == CHOOSE r \in fired : cid[r] = c
                                 IN  [root |-> r, m |-> queue[r].m]
                            ELSE asked[c]]
            /\ dirty' = DirtyLeft
            /\ rest' = IF Flushing THEN Budget ELSE Less(rest)
            /\ UNCHANGED world

-----------------------------------------------------------------------------
(* resolve_action: the answers.                                            *)

\* settle_or_drop, for an accepted action.
Accepted(a) ==
    IF a.debounced THEN [a EXCEPT !.cid = NoCid, !.settle = Grace] ELSE NoAction

\* Mutant: the retry is not counted.
RearmedUncounted(a, gap) ==
    IF a.retries < MaxRetries
    THEN [a EXCEPT !.wait = gap, !.debounced = TRUE, !.cid = NoCid]
    ELSE NoAction

\* client_ahead_by: wait the gap out and fire again, MaxRetries times.
Rearmed(a, gap) ==
    IF a.retries < MaxRetries
    THEN [a EXCEPT !.retries = @ + 1, !.wait = gap, !.debounced = TRUE, !.cid = NoCid]
    ELSE NoAction

\* The answer to c is folded into the action that waits for it, if any.
Resolve(c, Outcome(_)) ==
    /\ asked[c] # NoProposal
    /\ asked' = [asked EXCEPT ![c] = NoProposal]
    /\ actions' = [r \in Root |-> IF actions[r].cid = c THEN Outcome(actions[r]) ELSE actions[r]]
    /\ UNCHANGED <<dirty, rest, world>>

\* CallOk, or CallErr "already in flight".
RecvAccepted(c) == Resolve(c, Accepted)

RecvAhead(c) == \E gap \in Gaps : Resolve(c, LAMBDA a : Rearmed(a, gap))

\* Any other CallErr, client_behind among them.
RecvRejected(c) == Resolve(c, LAMBDA a : NoAction)

\* external: the link loses the proposal or its answer.
Lose(c) ==
    /\ Lossy
    /\ asked[c] # NoProposal
    /\ asked' = [asked EXCEPT ![c] = NoProposal]
    /\ UNCHANGED <<actions, dirty, rest, world>>

-----------------------------------------------------------------------------

\* external: rows, moves, the clock and coverage make a match of a soul at r
\* come or go, or change who acts on r.  A card row, a place, a promotion or a
\* magnet marks the root dirty, perhaps for nothing; a deletion, a zone row or a
\* change of coverage does not.
WorldMoves(r, marked) ==
    /\ \/ /\ \E s \in Soul, m \in Match :
                live' = [live EXCEPT ![r][s] = IF m \in @ THEN @ \ {m} ELSE @ \cup {m}]
          /\ UNCHANGED actor
       \/ /\ \E who \in (Soul \cup {NoSoul}) \ {actor[r]} : actor' = [actor EXCEPT ![r] = who]
          /\ UNCHANGED live
       \/ marked /\ UNCHANGED world
    /\ dirty' = IF marked THEN dirty \cup {r} ELSE dirty
    /\ UNCHANGED <<actions, rest, asked>>

Init ==
    /\ actions = [r \in Root |-> NoAction]
    /\ dirty = {}
    /\ rest = Budget
    /\ asked = [c \in Cid |-> NoProposal]
    /\ live = [r \in Root |-> [s \in Soul |-> {}]]
    /\ actor = [r \in Root |-> NoSoul]

\* What happens between two ticks.
Arrival ==
    \/ \E c \in Cid : RecvAccepted(c)
    \/ \E c \in Cid : RecvAhead(c)
    \/ \E c \in Cid : RecvRejected(c)
    \/ \E c \in Cid : Lose(c)
    \/ \E r \in Root, marked \in BOOLEAN : WorldMoves(r, marked)

Next == Tick \/ Arrival

Spec == Init /\ [][Next]_vars

\* The driver ticks for ever, and what is not lost is answered.
Answered(c) == RecvAccepted(c) \/ RecvAhead(c) \/ RecvRejected(c)

Fairness == WF_vars(Tick) /\ \A c \in Cid : WF_vars(Answered(c))

FairSpec == Spec /\ Fairness

-----------------------------------------------------------------------------

\* Every variable has its type; a drift-refused action is retried at most
\* MaxRetries times before it is dropped.
TypeOK ==
    /\ \A r \in Root :
        /\ actions[r].m \in Match \cup {NoMatch}
        /\ actions[r].soul \in Soul \cup {NoSoul}
        /\ actions[r].retries \in 0..MaxRetries
        /\ actions[r].cid \in Cid \cup {NoCid}
        /\ actions[r].settle \in 0..Grace
        /\ InFlight(actions[r]) => ~Settling(actions[r])
    /\ dirty \subseteq Root
    /\ rest \in 0..Budget
    /\ actor \in [Root -> Soul \cup {NoSoul}]

\* A proposal on its way has its action waiting for it, unchanged, whatever the
\* world, the flushes and the other roots did meanwhile: no answer is orphaned
\* and none is credited to another action.  (And every variable has its type.)
NoAnswerOrphaned ==
    /\ TypeOK
    /\ \A c \in Cid : asked[c] # NoProposal =>
        \E r \in Root : /\ asked[c].root = r
                        /\ {s \in Root : actions[s].cid = c} = {r}
                        /\ actions[r].m = asked[c].m

\* What is proposed is live at that moment for the soul it was queued for, though
\* the world moved unnoticed while it waited: nothing is proposed blind.
ProposesWhatIsLive ==
    [][\A c \in Cid :
        asked'[c] # asked[c] /\ asked'[c] # NoProposal =>
            LET r == asked'[c].root IN asked'[c].m \in live[r][actions'[r].soul]]_vars

\* A root with no action that a row marks dirty gets its best match queued, if
\* that stays the best: the budget delays the evaluation and never loses it.
IdleRootIsEvaluated ==
    \A r \in Root, m \in Match :
        LET stays == actor[r] # NoSoul /\ m \in live[r][actor[r]] /\ Best(r) = m
        IN  (r \in dirty /\ actions[r] = NoAction /\ stays) ~> (~stays \/ actions[r].m = m)

\* An action that only waits for its window does not wait for ever, however
\* often rows come in for its root: it is fired, superseded or dropped.
WaitingEnds ==
    \A r \in Root, m \in Match :
        (Waiting(actions[r]) /\ actions[r].m = m) ~> ~(Waiting(actions[r]) /\ actions[r].m = m)

\* An accepted action is kept for its whole grace (actions.rs: "kept SETTLING
\* for this long instead of being dropped").
SettlesItsGrace ==
    [][\A r \in Root : actions[r].settle > 1 => Settling(actions'[r])]_vars

\* Re-evaluation keeps the queue current (actions.rs): a match that appears with
\* a row, and stays the best one its root has, is queued or proposed.
DirtyRootIsEvaluated ==
    \A r \in Root, m \in Match :
        LET stays == actor[r] # NoSoul /\ m \in live[r][actor[r]] /\ Best(r) = m
        IN  (r \in dirty /\ stays) ~> (~stays \/ actions[r].m = m)

\* No call latches (outbox.rs: "the ONE path every gateway reducer call walks
\* through", "nothing can self-latch"): a proposal comes back or is given up.
ProposalEnds ==
    \A r \in Root : InFlight(actions[r]) ~> ~InFlight(actions[r])
=============================================================================
