-------------------------- MODULE ActionQueueProofs --------------------------
(***************************************************************************)
(* The proofs about ActionQueue: for any roots, souls, matches and call    *)
(* ids, no answer to a proposal is orphaned, nothing is proposed that is   *)
(* not live, nothing debounced is proposed before its window has passed,   *)
(* and the retries of an action are bounded.                               *)
(***************************************************************************)
EXTENDS ActionHistory, TLAPS

Action == [m : Match \cup {NoMatch}, soul : Soul \cup {NoSoul}, wait : Nat,
           debounced : BOOLEAN, retries : 0 .. MaxRetries, cid : Cid \cup {NoCid},
           settle : 0 .. Grace]

\* TypeOK, with the parts of it the runs leave to TLC spelled out.
Types ==
    /\ actions \in [Root -> Action]
    /\ \A r \in Root : InFlight(actions[r]) => ~Settling(actions[r])
    /\ dirty \subseteq Root
    /\ rest \in 0 .. Budget
    /\ DOMAIN asked = Cid
    /\ live \in [Root -> [Soul -> SUBSET Match]]
    /\ actor \in [Root -> Soul \cup {NoSoul}]

\* A proposal on its way under c has one action waiting for it, unchanged.
Waited(c) ==
    asked[c] # NoProposal =>
        \E r \in Root : /\ asked[c].root = r
                        /\ {s \in Root : actions[s].cid = c} = {r}
                        /\ actions[r].m = asked[c].m

\* The inductive invariant.
IInv == Types /\ \A c \in Cid : Waited(c)

-----------------------------------------------------------------------------
(* What the steps of a tick make of one action.                            *)

\* The match evaluate_root queues is one of the live ones.
LEMMA BestIsLive ==
    ASSUME Types, NEW r \in Root, actor[r] \in Soul, live[r][actor[r]] # {}
    PROVE  Best(r) \in live[r][actor[r]] /\ Best(r) \in Match
<1>1. live[r][actor[r]] \in SUBSET Match
  BY DEF Types
<1>2. \E m \in live[r][actor[r]] : \A n \in live[r][actor[r]] : Priority[n] <= Priority[m]
  BY <1>1, QueueAssumption DEF QueueAssumption
<1> QED
  BY <1>1, <1>2 DEF Best

\* No action is an action, in flight or settling for nobody.
LEMMA NoActionType ==
    NoAction \in Action /\ NoAction.cid = NoCid /\ ~Settling(NoAction)
  BY QueueAssumption DEF NoAction, Action, Settling, QueueAssumption

\* A freshly queued action is in flight for nobody.
LEMMA QueuedType ==
    ASSUME NEW m \in Match, NEW soul \in Soul
    PROVE  Queued(m, soul) \in Action /\ Queued(m, soul).cid = NoCid /\ ~Settling(Queued(m, soul))
<1>1. PICK w \in Nat, b \in BOOLEAN :
        Queued(m, soul) = [NoAction EXCEPT !.m = m, !.soul = soul, !.wait = w, !.debounced = b]
  <2>1. (IF m \in Instant THEN 0 ELSE Debounce) \in Nat
    BY QueueAssumption DEF QueueAssumption
  <2>2. (m \notin Instant) \in BOOLEAN
    OBVIOUS
  <2> QED
    BY <2>1, <2>2, Zenon DEF Queued
<1> QED
  BY <1>1, NoActionType DEF Action, Settling

\* sweep_settled touches no action in flight but its timer, and starts no flight.
LEMMA SweptType ==
    ASSUME NEW a \in Action, InFlight(a) => ~Settling(a)
    PROVE  /\ Swept(a) \in Action
           /\ InFlight(Swept(a)) => ~Settling(Swept(a))
           /\ InFlight(a) => Swept(a).cid = a.cid /\ Swept(a).m = a.m
           /\ ~InFlight(a) => Swept(a).cid = NoCid
<1>1. CASE a.settle = 1
  BY <1>1, NoActionType DEF Swept, InFlight, Settling
<1>2. CASE a.settle # 1
  <2>1. Swept(a) = [a EXCEPT !.wait = Less(@), !.settle = Less(@)]
    BY <1>2 DEF Swept
  <2>2. Less(a.wait) \in Nat /\ Less(a.settle) \in 0 .. Grace /\ (a.settle = 0 => Less(a.settle) = 0)
    BY QueueAssumption DEF Action, Less, QueueAssumption
  <2>3. Swept(a) \in Action /\ Swept(a).cid = a.cid /\ Swept(a).m = a.m
        /\ Swept(a).settle = Less(a.settle)
    BY <2>1, <2>2 DEF Action
  <2>4. a.settle \in Nat
    BY QueueAssumption DEF Action, QueueAssumption
  <2> QED
    BY <2>2, <2>3, <2>4 DEF InFlight, Settling
<1> QED
  BY <1>1, <1>2

\* flush_dirty leaves an action in flight alone, and starts no flight.
LEMMA FlushedType ==
    ASSUME Types, NEW r \in Root, NEW a \in Action, InFlight(a) => ~Settling(a)
    PROVE  /\ Flushed(a, r) \in Action
           /\ InFlight(Flushed(a, r)) => ~Settling(Flushed(a, r))
           /\ InFlight(a) => Flushed(a, r) = a
           /\ ~InFlight(a) => Flushed(a, r).cid = NoCid
<1>1. CASE actor[r] = NoSoul
  BY <1>1, NoActionType DEF Flushed, InFlight
<1>2. CASE actor[r] # NoSoul
  <2>1. actor[r] \in Soul
    BY <1>2 DEF Types
  <2>2. Flushed(a, r) = Evaluated(a, r)
    BY <1>2 DEF Flushed
  <2>3. CASE IsActive(a)
    BY <2>2, <2>3 DEF Evaluated, IsActive, InFlight
  <2>4. CASE ~IsActive(a) /\ live[r][actor[r]] = {}
    BY <2>2, <2>4, NoActionType DEF Evaluated, IsActive, InFlight
  <2>5. CASE ~IsActive(a) /\ live[r][actor[r]] # {}
    <3>1. Evaluated(a, r) = IF a.m = Best(r) THEN a ELSE Queued(Best(r), actor[r])
      BY <2>5 DEF Evaluated
    <3>2. Best(r) \in Match
      BY <2>1, <2>5, BestIsLive
    <3> QED
      BY <2>1, <2>2, <2>5, <3>1, <3>2, QueuedType DEF IsActive, InFlight
  <2> QED
    BY <2>3, <2>4, <2>5
<1> QED
  BY <1>1, <1>2

\* What the queue holds when fire_ready starts: no flight has begun or ended.
LEMMA PendingType ==
    ASSUME Types, NEW r \in Root
    PROVE  /\ Pending(r) \in Action
           /\ InFlight(Pending(r)) => ~Settling(Pending(r))
           /\ InFlight(actions[r]) => Pending(r).cid = actions[r].cid /\ Pending(r).m = actions[r].m
           /\ ~InFlight(actions[r]) => Pending(r).cid = NoCid
<1> DEFINE a == Swept(actions[r])
<1>1. actions[r] \in Action /\ (InFlight(actions[r]) => ~Settling(actions[r]))
  BY DEF Types
<1>2. /\ a \in Action
      /\ InFlight(a) => ~Settling(a)
      /\ InFlight(actions[r]) => a.cid = actions[r].cid /\ a.m = actions[r].m
      /\ ~InFlight(actions[r]) => a.cid = NoCid
  BY <1>1, SweptType
<1>3. /\ Flushed(a, r) \in Action
      /\ InFlight(Flushed(a, r)) => ~Settling(Flushed(a, r))
      /\ InFlight(a) => Flushed(a, r) = a
      /\ ~InFlight(a) => Flushed(a, r).cid = NoCid
  <2> HIDE DEF a
  <2> QED BY <1>2, FlushedType
<1>4. CASE Flushing /\ r \in dirty
  <2>1. Pending(r) = Flushed(a, r)
    BY <1>4 DEF Pending
  <2> HIDE DEF a
  <2> QED BY <1>2, <1>3, <2>1 DEF InFlight
<1>5. CASE ~(Flushing /\ r \in dirty)
  <2>1. Pending(r) = a
    BY <1>5 DEF Pending
  <2> HIDE DEF a
  <2> QED BY <1>2, <2>1
<1> QED
  BY <1>4, <1>5

-----------------------------------------------------------------------------
(* One lemma per action: the invariant is preserved.                       *)

LEMMA TickPreserves == ASSUME IInv, Tick PROVE IInv'
<1> DEFINE queue == [r \in Root |-> Pending(r)]
           ready == {r \in Root : Ready(queue[r])}
           fired == {r \in ready : StillMatches(queue[r], r)}
           free == {c \in Cid : asked[c] = NoProposal /\ \A r \in Root : actions[r].cid # c}
<1>1. PICK cid \in [fired -> free] :
        /\ \A r, s \in fired : cid[r] = cid[s] => r = s
        /\ actions' = [r \in Root |-> IF r \in fired THEN [queue[r] EXCEPT !.cid = cid[r]]
                                      ELSE IF r \in ready THEN NoAction ELSE queue[r]]
        /\ asked' = [c \in Cid |-> IF \E r \in fired : cid[r] = c
                                   THEN LET r == CHOOSE r \in fired : cid[r] = c
                                        IN  [root |-> r, m |-> queue[r].m]
                                   ELSE asked[c]]
        /\ dirty' = DirtyLeft
        /\ rest' = IF Flushing THEN Budget ELSE Less(rest)
        /\ UNCHANGED world
  BY DEF Tick
<1>2. Types
  BY DEF IInv
<1>3. \A r \in Root : /\ queue[r] \in Action
                      /\ InFlight(queue[r]) => ~Settling(queue[r])
                      /\ InFlight(actions[r]) => queue[r].cid = actions[r].cid /\ queue[r].m = actions[r].m
                      /\ ~InFlight(actions[r]) => queue[r].cid = NoCid
  BY <1>2, PendingType
<1>4. fired \subseteq ready /\ ready \subseteq Root /\ free \subseteq Cid
  OBVIOUS
<1>5. \A r \in ready : ~InFlight(queue[r]) /\ ~Settling(queue[r])
  BY DEF Ready, Waiting, IsActive
<1> HIDE DEF queue, ready, fired, free
<1>0. \A r, s \in fired : cid[r] = cid[s] => r = s
  BY <1>1
<1>6. \A r \in Root : /\ r \in fired => actions'[r] = [queue[r] EXCEPT !.cid = cid[r]]
                      /\ r \in ready \ fired => actions'[r] = NoAction
                      /\ r \notin ready => actions'[r] = queue[r]
  BY <1>1, <1>4
<1>7. \A r \in fired : /\ cid[r] \in free /\ cid[r] \in Cid /\ actions'[r] \in Action
                       /\ actions'[r].cid = cid[r]
                       /\ actions'[r].m = queue[r].m /\ actions'[r].settle = queue[r].settle
  <2> TAKE r \in fired
  <2>1. cid[r] \in free /\ cid[r] \in Cid /\ r \in Root
    BY <1>1, <1>4
  <2>2. actions'[r] = [queue[r] EXCEPT !.cid = cid[r]] /\ queue[r] \in Action
    BY <1>3, <1>6, <2>1
  <2> QED
    BY <2>1, <2>2 DEF Action
<1>8. Types'
  <2>1. \A r \in Root : actions'[r] \in Action
    BY <1>3, <1>4, <1>6, <1>7, NoActionType
  <2>2. \A r \in Root : InFlight(actions'[r]) => ~Settling(actions'[r])
    BY <1>3, <1>4, <1>5, <1>6, <1>7, NoActionType DEF InFlight, Settling
  <2>3. actions' \in [Root -> Action]
    BY <1>1, <2>1
  <2>4. dirty' \subseteq Root
    BY <1>1, <1>2 DEF DirtyLeft, Types
  <2>5. rest' \in 0 .. Budget
    BY <1>1, <1>2, QueueAssumption DEF Less, Types, QueueAssumption
  <2>6. DOMAIN asked' = Cid
    BY <1>1
  <2>7. live' = live /\ actor' = actor
    BY <1>1 DEF world
  <2> QED
    BY <1>2, <2>2, <2>3, <2>4, <2>5, <2>6, <2>7 DEF Types
<1>9. ASSUME NEW c \in Cid, asked'[c] # NoProposal
      PROVE  \E r \in Root : /\ asked'[c].root = r
                             /\ {s \in Root : actions'[s].cid = c} = {r}
                             /\ actions'[r].m = asked'[c].m
  <2>0. NoCid \notin Cid
    BY QueueAssumption DEF QueueAssumption
  <2>1. CASE \E r \in fired : cid[r] = c
    <3>1. PICK r \in fired : cid[r] = c /\ asked'[c] = [root |-> r, m |-> queue[r].m]
      <4> DEFINE first == CHOOSE r \in fired : cid[r] = c
      <4>1. first \in fired /\ cid[first] = c
        BY <2>1
      <4>2. asked'[c] = [root |-> first, m |-> queue[first].m]
        BY <1>1, <2>1
      <4> HIDE DEF first
      <4> QED
        BY <4>1, <4>2
    <3>2. c \in free
      BY <1>7, <3>1
    <3>3. \A s \in Root : actions[s].cid # c
      BY <3>2 DEF free
    <3>4. \A s \in Root : queue[s].cid # c
      BY <1>3, <2>0, <3>3 DEF InFlight
    <3>5. \A s \in Root : actions'[s].cid = c => s = r
      <4> TAKE s \in Root
      <4>1. CASE s \in fired
        BY <1>0, <1>7, <3>1, <4>1
      <4>2. CASE s \in ready \ fired
        BY <1>6, <2>0, <4>2, NoActionType
      <4>3. CASE s \notin ready
        BY <1>6, <3>4, <4>3
      <4> QED
        BY <1>4, <4>1, <4>2, <4>3
    <3>6. r \in Root /\ actions'[r].cid = c /\ actions'[r].m = queue[r].m
      BY <1>4, <1>7, <3>1
    <3> QED
      BY <3>1, <3>5, <3>6
  <2>2. CASE ~ \E r \in fired : cid[r] = c
    <3>1. asked'[c] = asked[c]
      BY <1>1, <2>2
    <3>2. PICK r \in Root : /\ asked[c].root = r
                            /\ {s \in Root : actions[s].cid = c} = {r}
                            /\ actions[r].m = asked[c].m
      BY <1>9, <3>1 DEF IInv, Waited
    <3>3. actions[r].cid = c /\ InFlight(actions[r])
      BY <2>0, <3>2 DEF InFlight
    <3>4. queue[r].cid = c /\ queue[r].m = actions[r].m /\ r \notin ready
      BY <1>3, <1>5, <2>0, <3>3 DEF InFlight
    <3>5. actions'[r] = queue[r]
      BY <1>6, <3>4
    <3>6. \A s \in Root : actions'[s].cid = c => s = r
      <4> TAKE s \in Root
      <4>0. queue[s].cid = c => s = r
        BY <1>3, <2>0, <3>2 DEF InFlight
      <4>1. CASE s \in fired
        BY <1>7, <2>2, <4>1
      <4>2. CASE s \in ready \ fired
        BY <1>6, <2>0, <4>2, NoActionType
      <4>3. CASE s \notin ready
        BY <1>6, <4>0, <4>3
      <4> QED
        BY <1>4, <4>1, <4>2, <4>3
    <3> QED
      BY <3>1, <3>2, <3>4, <3>5, <3>6
  <2> QED
    BY <2>1, <2>2
<1> QED
  BY <1>8, <1>9 DEF IInv, Waited

\* Whatever an answer makes of the actions it was for, it ends their flight and
\* touches no other: then the invariant is preserved.
LEMMA ResolvePreserves ==
    ASSUME IInv, NEW c \in Cid, NEW next \in [Root -> Action],
           actions' = next,
           asked' = [asked EXCEPT ![c] = NoProposal],
           UNCHANGED <<dirty, rest, live, actor>>,
           \A r \in Root : IF actions[r].cid = c THEN next[r].cid = NoCid
                                               ELSE next[r] = actions[r]
    PROVE  IInv'
<1>1. /\ asked' = [asked EXCEPT ![c] = NoProposal]
      /\ UNCHANGED <<dirty, rest, live, actor>>
  OBVIOUS
<1>2. Types
  BY DEF IInv
<1>3. NoCid \notin Cid
  BY QueueAssumption DEF QueueAssumption
<1>4. \A r \in Root : actions[r].cid = c => actions'[r] \in Action /\ actions'[r].cid = NoCid
  OBVIOUS
<1>5. \A r \in Root : actions[r].cid # c => actions'[r] = actions[r]
  OBVIOUS
<1>6. Types'
  <2>1. \A r \in Root : actions'[r] \in Action /\ (InFlight(actions'[r]) => ~Settling(actions'[r]))
    BY <1>2, <1>4, <1>5 DEF Types, InFlight
  <2>2. actions' \in [Root -> Action]
    BY <1>1, <2>1
  <2> QED
    BY <1>1, <1>2, <2>1, <2>2 DEF Types
<1>7. ASSUME NEW d \in Cid, asked'[d] # NoProposal
      PROVE  \E r \in Root : /\ asked'[d].root = r
                             /\ {s \in Root : actions'[s].cid = d} = {r}
                             /\ actions'[r].m = asked'[d].m
  <2>1. d # c /\ asked'[d] = asked[d]
    BY <1>1, <1>2, <1>7 DEF Types
  <2>2. PICK r \in Root : /\ asked[d].root = r
                          /\ {s \in Root : actions[s].cid = d} = {r}
                          /\ actions[r].m = asked[d].m
    BY <1>7, <2>1 DEF IInv, Waited
  <2>3. \A s \in Root : actions'[s].cid = d <=> actions[s].cid = d
    BY <1>3, <1>4, <1>5, <2>1
  <2>4. actions'[r] = actions[r]
    BY <1>5, <2>1, <2>2
  <2> QED
    BY <2>1, <2>2, <2>3, <2>4
<1> QED
  BY <1>6, <1>7 DEF IInv, Waited

\* settle_or_drop keeps the type and ends the flight.
LEMMA AcceptedType ==
    ASSUME NEW a \in Action
    PROVE  Accepted(a) \in Action /\ Accepted(a).cid = NoCid
<1>1. CASE a.debounced
  <2>1. Grace \in 0 .. Grace
    BY QueueAssumption DEF QueueAssumption
  <2>2. Accepted(a) = [a EXCEPT !.cid = NoCid, !.settle = Grace]
    BY <1>1 DEF Accepted
  <2> QED
    BY <2>1, <2>2 DEF Action
<1>2. CASE ~a.debounced
  BY <1>2, NoActionType DEF Accepted
<1> QED
  BY <1>1, <1>2

\* A retry keeps the type, stays within MaxRetries and ends the flight.
LEMMA RearmedType ==
    ASSUME NEW a \in Action, NEW gap \in Gaps
    PROVE  Rearmed(a, gap) \in Action /\ Rearmed(a, gap).cid = NoCid
<1>1. CASE a.retries < MaxRetries
  <2>1. a.retries + 1 \in 0 .. MaxRetries /\ gap \in Nat
    BY <1>1, QueueAssumption DEF Action, QueueAssumption
  <2>2. Rearmed(a, gap) =
          [a EXCEPT !.retries = a.retries + 1, !.wait = gap, !.debounced = TRUE, !.cid = NoCid]
    BY <1>1 DEF Rearmed, Action
  <2> QED
    BY <2>1, <2>2 DEF Action
<1>2. CASE ~(a.retries < MaxRetries)
  BY <1>2, NoActionType DEF Rearmed
<1> QED
  BY <1>1, <1>2

LEMMA RecvAcceptedPreserves == ASSUME IInv, NEW c \in Cid, RecvAccepted(c) PROVE IInv'
<1>1. /\ asked' = [asked EXCEPT ![c] = NoProposal]
      /\ actions' = [r \in Root |-> IF actions[r].cid = c THEN Accepted(actions[r])
                                                         ELSE actions[r]]
      /\ UNCHANGED <<dirty, rest, live, actor>>
  BY DEF RecvAccepted, Resolve, world
<1>2. \A r \in Root : actions[r] \in Action
  BY DEF IInv, Types
<1>3. /\ actions' \in [Root -> Action]
      /\ \A r \in Root : IF actions[r].cid = c THEN actions'[r].cid = NoCid
                                              ELSE actions'[r] = actions[r]
  BY <1>1, <1>2, AcceptedType
<1> QED
  BY <1>1, <1>3, ResolvePreserves

LEMMA RecvAheadPreserves == ASSUME IInv, NEW c \in Cid, RecvAhead(c) PROVE IInv'
<1>1. PICK gap \in Gaps : Resolve(c, LAMBDA a : Rearmed(a, gap))
  BY DEF RecvAhead
<1>2. /\ asked' = [asked EXCEPT ![c] = NoProposal]
      /\ actions' = [r \in Root |-> IF actions[r].cid = c THEN Rearmed(actions[r], gap)
                                                         ELSE actions[r]]
      /\ UNCHANGED <<dirty, rest, live, actor>>
  BY <1>1 DEF Resolve, world
<1>3. \A r \in Root : actions[r] \in Action
  BY DEF IInv, Types
<1>4. /\ actions' \in [Root -> Action]
      /\ \A r \in Root : IF actions[r].cid = c THEN actions'[r].cid = NoCid
                                              ELSE actions'[r] = actions[r]
  BY <1>2, <1>3, RearmedType
<1> QED
  BY <1>2, <1>4, ResolvePreserves

LEMMA RecvRejectedPreserves == ASSUME IInv, NEW c \in Cid, RecvRejected(c) PROVE IInv'
<1>1. /\ asked' = [asked EXCEPT ![c] = NoProposal]
      /\ actions' = [r \in Root |-> IF actions[r].cid = c THEN NoAction ELSE actions[r]]
      /\ UNCHANGED <<dirty, rest, live, actor>>
  BY DEF RecvRejected, Resolve, world
<1>2. \A r \in Root : actions[r] \in Action
  BY DEF IInv, Types
<1>3. /\ actions' \in [Root -> Action]
      /\ \A r \in Root : IF actions[r].cid = c THEN actions'[r].cid = NoCid
                                              ELSE actions'[r] = actions[r]
  BY <1>1, <1>2, NoActionType
<1> QED
  BY <1>1, <1>3, ResolvePreserves

LEMMA LosePreserves == ASSUME IInv, NEW c \in Cid, Lose(c) PROVE IInv'
<1>1. /\ asked' = [asked EXCEPT ![c] = NoProposal]
      /\ UNCHANGED <<actions, dirty, rest, live, actor>>
  BY DEF Lose, world
<1>2. Types'
  BY <1>1 DEF IInv, Types
<1>3. \A d \in Cid : asked'[d] # NoProposal => asked'[d] = asked[d]
  BY <1>1 DEF IInv, Types
<1> QED
  BY <1>1, <1>2, <1>3 DEF IInv, Waited

LEMMA WorldMovesPreserves ==
    ASSUME IInv, NEW r \in Root, NEW marked \in BOOLEAN, WorldMoves(r, marked) PROVE IInv'
<1>1. UNCHANGED <<actions, rest, asked>> /\ dirty' \subseteq dirty \cup {r}
  BY DEF WorldMoves
<1>2. live' \in [Root -> [Soul -> SUBSET Match]] /\ actor' \in [Root -> Soul \cup {NoSoul}]
  <2>1. CASE /\ \E s \in Soul, m \in Match :
                  live' = [live EXCEPT ![r][s] = IF m \in @ THEN @ \ {m} ELSE @ \cup {m}]
             /\ UNCHANGED actor
    BY <2>1 DEF IInv, Types
  <2>2. CASE /\ \E who \in (Soul \cup {NoSoul}) \ {actor[r]} : actor' = [actor EXCEPT ![r] = who]
             /\ UNCHANGED live
    BY <2>2 DEF IInv, Types
  <2>3. CASE marked /\ UNCHANGED world
    BY <2>3 DEF IInv, Types, world
  <2> QED
    BY <2>1, <2>2, <2>3 DEF WorldMoves
<1>3. Types'
  BY <1>1, <1>2 DEF IInv, Types
<1> QED
  BY <1>1, <1>3 DEF IInv, Waited

-----------------------------------------------------------------------------

LEMMA InitIInv == Init => IInv
<1> SUFFICES ASSUME Init PROVE IInv
  OBVIOUS
<1>1. Types
  BY NoActionType, QueueAssumption DEF Init, Types, InFlight, QueueAssumption, NoAction
<1> QED
  BY <1>1 DEF Init, IInv, Waited

LEMMA Steps == IInv /\ [Next]_vars => IInv'
<1> SUFFICES ASSUME IInv, [Next]_vars PROVE IInv'
  OBVIOUS
<1>1. CASE Tick
  BY <1>1, TickPreserves
<1>2. ASSUME NEW c \in Cid, RecvAccepted(c) PROVE IInv'
  BY <1>2, RecvAcceptedPreserves
<1>3. ASSUME NEW c \in Cid, RecvAhead(c) PROVE IInv'
  BY <1>3, RecvAheadPreserves
<1>4. ASSUME NEW c \in Cid, RecvRejected(c) PROVE IInv'
  BY <1>4, RecvRejectedPreserves
<1>5. ASSUME NEW c \in Cid, Lose(c) PROVE IInv'
  BY <1>5, LosePreserves
<1>6. ASSUME NEW r \in Root, NEW marked \in BOOLEAN, WorldMoves(r, marked) PROVE IInv'
  BY <1>6, WorldMovesPreserves
<1>7. CASE UNCHANGED vars
  BY <1>7 DEF IInv, Types, Waited, vars, world
<1> QED
  BY <1>1, <1>2, <1>3, <1>4, <1>5, <1>6, <1>7 DEF Next, Arrival

\* The invariant of the action queue holds in every reachable state: its types,
\* and that every proposal on its way has exactly its own action waiting for it.
THEOREM Invariance == Spec => []IInv
  BY InitIInv, Steps, PTL DEF Spec

\* A proposal on its way has its action waiting for it, unchanged, whatever the
\* world, the flushes and the other roots did meanwhile (resolve_action finds
\* the action by its call id): no answer is orphaned or credited to another.
THEOREM AnswersFindTheirAction == Spec => []NoAnswerOrphaned
<1>1. IInv => NoAnswerOrphaned
  <2> SUFFICES ASSUME IInv PROVE NoAnswerOrphaned
    OBVIOUS
  <2>1. TypeOK
    BY DEF IInv, Types, TypeOK, Action
  <2> QED
    BY <2>1 DEF IInv, Waited, NoAnswerOrphaned
<1> QED
  BY <1>1, Invariance, PTL

\* fire_ready proposes only what is live at that moment for the soul it was
\* queued for, though the world moved unnoticed while the action waited.
THEOREM NothingProposedBlind == Spec => ProposesWhatIsLive
<1> DEFINE Blind == \A c \in Cid :
        asked'[c] # asked[c] /\ asked'[c] # NoProposal =>
            LET r == asked'[c].root IN asked'[c].m \in live[r][actions'[r].soul]
<1>1. IInv /\ [Next]_vars => Blind
  <2> SUFFICES ASSUME IInv, [Next]_vars, NEW c \in Cid,
                      asked'[c] # asked[c], asked'[c] # NoProposal
               PROVE  asked'[c].m \in live[asked'[c].root][actions'[asked'[c].root].soul]
    OBVIOUS
  <2>1. CASE Tick
    <3> DEFINE queue == [r \in Root |-> Pending(r)]
               ready == {r \in Root : Ready(queue[r])}
               fired == {r \in ready : StillMatches(queue[r], r)}
               free == {d \in Cid : asked[d] = NoProposal /\ \A r \in Root : actions[r].cid # d}
    <3>1. PICK cid \in [fired -> free] :
            /\ actions' = [r \in Root |-> IF r \in fired THEN [queue[r] EXCEPT !.cid = cid[r]]
                                          ELSE IF r \in ready THEN NoAction ELSE queue[r]]
            /\ asked' = [d \in Cid |-> IF \E r \in fired : cid[r] = d
                                       THEN LET r == CHOOSE r \in fired : cid[r] = d
                                            IN  [root |-> r, m |-> queue[r].m]
                                       ELSE asked[d]]
      BY <2>1 DEF Tick
    <3>2. \A r \in fired : r \in Root /\ StillMatches(queue[r], r)
      OBVIOUS
    <3>3. \A r \in Root : queue[r] \in Action
      BY PendingType DEF IInv
    <3> HIDE DEF queue, ready, fired, free
    <3>4. \E r \in fired : cid[r] = c
      BY <3>1
    <3>5. PICK r \in fired : asked'[c] = [root |-> r, m |-> queue[r].m]
      BY <3>1, <3>4
    <3>6. actions'[r] = [queue[r] EXCEPT !.cid = cid[r]]
      BY <3>1, <3>2
    <3>7. actions'[r].soul = queue[r].soul
      BY <3>2, <3>3, <3>6 DEF Action
    <3> QED
      BY <3>2, <3>5, <3>7 DEF StillMatches
  <2>2. ASSUME NEW d \in Cid, asked' = [asked EXCEPT ![d] = NoProposal] PROVE FALSE
    BY <2>2 DEF IInv, Types
  <2>3. CASE \E d \in Cid : RecvAccepted(d) \/ RecvAhead(d) \/ RecvRejected(d) \/ Lose(d)
    BY <2>2, <2>3 DEF RecvAccepted, RecvAhead, RecvRejected, Lose, Resolve
  <2>4. CASE \E r \in Root, marked \in BOOLEAN : WorldMoves(r, marked)
    BY <2>4 DEF WorldMoves
  <2>5. CASE UNCHANGED vars
    BY <2>5 DEF vars
  <2> QED
    BY <2>1, <2>3, <2>4, <2>5 DEF Next, Arrival
<1> QED
  BY <1>1, Invariance, PTL DEF Spec, ProposesWhatIsLive
-----------------------------------------------------------------------------
(* The watched queue: what an action has cost, and how long its match has  *)
(* been seen to be the best.                                               *)

\* Only no action has no match.
Named(a) == a.m = NoMatch => a = NoAction

\* An action has cost one proposal for each retry and one for the attempt made.
Charged(a, n) == n \in Nat /\ n <= a.retries + 1 /\ (~IsActive(a) => n <= a.retries)

\* What is left of a window and what has passed of it make up the whole window,
\* and the match that was last seen is the one that waits.
Windowed(a, s) ==
    Waiting(a) /\ a.retries = 0 /\ a.debounced => s.m = a.m /\ Debounce <= s.ticks + a.wait

Look == [m : Match \cup {NoMatch}, ticks : 0 .. Debounce]

WInv ==
    \A r \in Root : /\ Named(actions[r])
                    /\ Charged(actions[r], sent[r])
                    /\ seen[r] \in Look
                    /\ Windowed(actions[r], seen[r])

\* sweep_settled ends a settling action or lets its timers run.
LEMMA SweptIs ==
    ASSUME NEW a \in Action, Named(a)
    PROVE  \/ a.settle = 1 /\ Swept(a) = NoAction
           \/ /\ a.settle # 1
              /\ Swept(a).m = a.m /\ Swept(a).soul = a.soul /\ Swept(a).cid = a.cid
              /\ Swept(a).retries = a.retries /\ Swept(a).debounced = a.debounced
              /\ Swept(a).wait = Less(a.wait) /\ Swept(a).settle = Less(a.settle)
              /\ Named(Swept(a))
<1>1. CASE a.settle = 1
  BY <1>1 DEF Swept
<1>2. CASE a.settle # 1
  <2>1. Swept(a) = [a EXCEPT !.wait = Less(a.wait), !.settle = Less(a.settle)]
    BY <1>2 DEF Swept, Action
  <2>2. ASSUME a = NoAction PROVE Swept(a) = NoAction
    <3>1. Less(a.wait) = 0 /\ Less(a.settle) = 0
      BY <2>2 DEF NoAction, Less
    <3>2. Swept(a) = [NoAction EXCEPT !.wait = 0, !.settle = 0]
      BY <2>1, <2>2, <3>1
    <3> QED
      BY <3>2 DEF NoAction
  <2> QED
    BY <1>2, <2>1, <2>2 DEF Action, Named
<1> QED
  BY <1>1, <1>2

LEMMA QueuedIs ==
    ASSUME NEW m \in Match, NEW soul \in Soul
    PROVE  /\ Queued(m, soul).m = m /\ Queued(m, soul).retries = 0
           /\ Queued(m, soul).debounced => Queued(m, soul).wait = Debounce
           /\ ~IsActive(Queued(m, soul)) /\ Named(Queued(m, soul))
<1>1. /\ Queued(m, soul).m = m /\ Queued(m, soul).retries = 0
      /\ Queued(m, soul).wait = IF m \in Instant THEN 0 ELSE Debounce
      /\ ~IsActive(Queued(m, soul))
  <2>1. Queued(m, soul).cid = NoCid /\ ~Settling(Queued(m, soul))
    BY QueuedType
  <2> QED
    BY <2>1 DEF Queued, NoAction, IsActive, InFlight
<1>2. Queued(m, soul).debounced => m \notin Instant
  BY Zenon DEF Queued, NoAction
<1> QED
  BY <1>1, <1>2, QueueAssumption DEF Named, QueueAssumption

\* evaluate_root keeps the action, drops it, or queues another match.
LEMMA PendingIs ==
    ASSUME Types, NEW r \in Root
    PROVE  \/ /\ Pending(r) = Swept(actions[r])
              /\ \/ ~(Flushing /\ r \in dirty)
                 \/ IsActive(Swept(actions[r]))
                 \/ Found(r) = Best(r) /\ Swept(actions[r]).m = Best(r)
           \/ Pending(r) = NoAction
           \/ /\ Flushing /\ r \in dirty /\ actor[r] \in Soul /\ Best(r) \in Match
              /\ Found(r) = Best(r) /\ Swept(actions[r]).m # Best(r)
              /\ Pending(r) = Queued(Best(r), actor[r])
<1> DEFINE a == Swept(actions[r])
<1>1. CASE ~(Flushing /\ r \in dirty)
  BY <1>1 DEF Pending
<1>2. CASE Flushing /\ r \in dirty
  <2>1. Pending(r) = Flushed(a, r)
    BY <1>2 DEF Pending
  <2> HIDE DEF a
  <2>2. CASE actor[r] = NoSoul
    <3>1. (Flushed(a, r) = a /\ InFlight(a)) \/ Flushed(a, r) = NoAction
      BY <2>2 DEF Flushed
    <3> QED
      BY <2>1, <3>1 DEF a, IsActive
  <2>3. CASE actor[r] # NoSoul
    <3>1. actor[r] \in Soul /\ Pending(r) = Evaluated(a, r)
      BY <2>1, <2>3 DEF Flushed, Types
    <3>2. CASE IsActive(a)
      BY <3>1, <3>2 DEF Evaluated, a
    <3>3. CASE ~IsActive(a) /\ live[r][actor[r]] = {}
      BY <3>1, <3>3 DEF Evaluated
    <3>4. CASE ~IsActive(a) /\ live[r][actor[r]] # {}
      <4>1. Best(r) \in Match /\ Found(r) = Best(r)
        BY <2>3, <3>1, <3>4, BestIsLive DEF Found
      <4>2. Evaluated(a, r) = IF a.m = Best(r) THEN a ELSE Queued(Best(r), actor[r])
        BY <3>4 DEF Evaluated
      <4> QED
        BY <1>2, <3>1, <4>1, <4>2 DEF a
    <3> QED
      BY <3>2, <3>3, <3>4
  <2> QED
    BY <2>2, <2>3
<1> QED
  BY <1>1, <1>2

\* fire_ready keeps the action, drops it, or puts it in flight.
LEMMA TickIs ==
    ASSUME Types, Tick, NEW r \in Root
    PROVE  \/ actions'[r] = Pending(r) /\ ~Ready(Pending(r))
           \/ actions'[r] = NoAction /\ Ready(Pending(r))
           \/ \E c \in Cid : actions'[r] = [Pending(r) EXCEPT !.cid = c] /\ Ready(Pending(r))
<1> DEFINE queue == [s \in Root |-> Pending(s)]
           ready == {s \in Root : Ready(queue[s])}
           fired == {s \in ready : StillMatches(queue[s], s)}
           free == {c \in Cid : asked[c] = NoProposal /\ \A s \in Root : actions[s].cid # c}
<1>1. PICK cid \in [fired -> free] :
        actions' = [s \in Root |-> IF s \in fired THEN [queue[s] EXCEPT !.cid = cid[s]]
                                   ELSE IF s \in ready THEN NoAction ELSE queue[s]]
  BY DEF Tick
<1>2. free \subseteq Cid /\ queue[r] = Pending(r) /\ fired \subseteq ready
  OBVIOUS
<1>3. r \in ready <=> Ready(Pending(r))
  OBVIOUS
<1> HIDE DEF queue, ready, fired, free
<1> QED
  BY <1>1, <1>2, <1>3

LEMMA NoActionIs ==
    /\ NoAction.m = NoMatch /\ NoAction.retries = 0 /\ ~IsActive(NoAction)
    /\ ~Waiting(NoAction) /\ ~Ready(NoAction) /\ Named(NoAction)
  BY DEF NoAction, IsActive, InFlight, Settling, Waiting, Ready, Named

\* No step forgets what an action has cost while it keeps its match.
LEMMA ChargedStays ==
    ASSUME NEW r \in Root, actions[r] \in Action, actions'[r] \in Action,
           Charged(actions[r], sent[r]), sent' = [s \in Root |-> Counted(s)],
           actions'[r].m # actions[r].m \/ Settling(actions[r])
             \/ Charged(actions'[r], IF InFlight(actions'[r]) /\ ~InFlight(actions[r])
                                     THEN sent[r] + 1 ELSE sent[r])
    PROVE  Charged(actions'[r], sent'[r])
<1>1. actions'[r].retries \in Nat
  BY QueueAssumption DEF Action, QueueAssumption
<1>2. sent'[r] = Counted(r)
  OBVIOUS
<1> QED
  BY <1>1, <1>2 DEF Counted, Charged, IsActive

LEMMA TickWatched ==
    ASSUME IInv, WInv, IInv', Tick, seen' = [s \in Root |-> Looked(s)],
           sent' = [s \in Root |-> Counted(s)], NEW r \in Root
    PROVE  /\ Named(actions'[r]) /\ Charged(actions'[r], sent'[r])
           /\ seen'[r] \in Look /\ Windowed(actions'[r], seen'[r])
           /\ InFlight(actions'[r]) /\ ~InFlight(actions[r])
                /\ actions'[r].retries = 0 /\ actions'[r].debounced
                => seen'[r] = [m |-> actions'[r].m, ticks |-> Debounce]
<1> DEFINE a == actions[r]
           w == Swept(a)
           p == Pending(r)
           b == actions'[r]
           s == seen'[r]
<1>1. /\ a \in Action /\ Named(a) /\ Charged(a, sent[r]) /\ seen[r] \in Look /\ Windowed(a, seen[r])
      /\ b \in Action /\ p \in Action
  BY PendingType DEF WInv, IInv, Types
<1>2. /\ Debounce \in Nat /\ 0 < Debounce /\ Grace \in Nat /\ MaxRetries \in Nat
      /\ NoCid \notin Cid /\ NoMatch \notin Match
  BY QueueAssumption DEF QueueAssumption
<1>3. \/ a.settle = 1 /\ w = NoAction
      \/ /\ a.settle # 1
         /\ w.m = a.m /\ w.soul = a.soul /\ w.cid = a.cid
         /\ w.retries = a.retries /\ w.debounced = a.debounced
         /\ w.wait = Less(a.wait) /\ w.settle = Less(a.settle)
         /\ Named(w)
  BY <1>1, SweptIs
<1>4. Found(r) \in Match \cup {NoMatch}
  BY BestIsLive DEF Found, IInv, Types
<1>5. /\ s \in Look
      /\ s.m = IF Flushing /\ r \in dirty THEN Found(r) ELSE seen[r].m
      /\ s.m = seen[r].m => s.ticks = Debounce \/ s.ticks = seen[r].ticks + 1
  <2>1. s = Looked(r)
    OBVIOUS
  <2> QED
    BY <1>1, <1>2, <1>4, <2>1 DEF Looked, Look
<1>6. \/ /\ p = w
         /\ \/ ~(Flushing /\ r \in dirty)
            \/ IsActive(w)
            \/ Found(r) = Best(r) /\ w.m = Best(r)
      \/ p = NoAction
      \/ /\ Flushing /\ r \in dirty /\ actor[r] \in Soul /\ Best(r) \in Match
         /\ Found(r) = Best(r) /\ w.m # Best(r)
         /\ p = Queued(Best(r), actor[r])
  BY PendingIs DEF IInv
<1>7. \/ b = p /\ ~Ready(p)
      \/ b = NoAction /\ Ready(p)
      \/ \E c \in Cid : b = [p EXCEPT !.cid = c] /\ Ready(p)
  BY TickIs DEF IInv
<1> HIDE DEF a, w, p, b, s
\* The window, of what is pending.
<1>8. Named(p) /\ Windowed(p, s)
  <2>1. CASE p = NoAction
    BY <2>1, NoActionIs DEF Windowed
  <2>2. CASE p = Queued(Best(r), actor[r]) /\ Flushing /\ r \in dirty /\ actor[r] \in Soul /\ Best(r) \in Match /\ Found(r) = Best(r)
    <3>1. /\ p.m = Best(r) /\ p.retries = 0 /\ Named(p)
          /\ p.debounced => p.wait = Debounce
      BY <2>2, QueuedIs
    <3>2. s.m = Best(r) /\ s.ticks \in Nat
      BY <1>2, <1>5, <2>2 DEF Look
    <3> QED
      BY <1>2, <3>1, <3>2 DEF Windowed
  <2>3. CASE /\ p = w /\ p # NoAction
             /\ \/ ~(Flushing /\ r \in dirty)
                \/ IsActive(w)
                \/ Found(r) = Best(r) /\ w.m = Best(r)
    <3>1. /\ w.m = a.m /\ w.cid = a.cid /\ w.retries = a.retries /\ w.debounced = a.debounced
          /\ w.wait = Less(a.wait) /\ w.settle = Less(a.settle) /\ Named(w) /\ a.settle # 1
      BY <1>3, <2>3
    <3> SUFFICES ASSUME Waiting(w), w.retries = 0, w.debounced
                 PROVE  s.m = w.m /\ Debounce <= s.ticks + w.wait
      BY <2>3, <3>1 DEF Windowed
    <3>2. a.settle \in Nat /\ a.wait \in Nat
      BY <1>1, <1>2 DEF Action
    <3>3. Waiting(a)
      <4>1. ~IsActive(w)
        BY DEF Waiting
      <4>2. a.settle = 0
        BY <3>1, <3>2, <4>1 DEF IsActive, Settling, Less
      <4>3. a # NoAction
        <5>1. a = NoAction => w.m = NoMatch
          BY <3>1, NoActionIs
        <5> QED
          BY <2>3, <3>1, <5>1 DEF Named
      <4> QED
        BY <3>1, <4>1, <4>2, <4>3 DEF Waiting, IsActive, InFlight, Settling
    <3>4. seen[r].m = a.m /\ Debounce <= seen[r].ticks + a.wait
      BY <1>1, <3>1, <3>3 DEF Windowed
    <3>5. s.m = w.m
      BY <1>5, <2>3, <3>1, <3>4 DEF Waiting
    <3>6. s.ticks = Debounce \/ s.ticks = seen[r].ticks + 1
      BY <1>5, <3>1, <3>4, <3>5
    <3>7. seen[r].ticks \in Nat /\ s.ticks \in Nat
      BY <1>1, <1>2, <1>5 DEF Look
    <3>8. w.wait \in Nat /\ a.wait <= w.wait + 1
      BY <3>1, <3>2 DEF Less
    <3> QED
      BY <1>2, <3>2, <3>4, <3>5, <3>6, <3>7, <3>8
  <2> QED
    BY <1>6, <2>1, <2>2, <2>3
<1>9. CASE b = p /\ ~Ready(p)
  <2>1. b.m # a.m \/ Settling(a) \/
          Charged(b, IF InFlight(b) /\ ~InFlight(a) THEN sent[r] + 1 ELSE sent[r])
    <3> SUFFICES ASSUME b.m = a.m, ~Settling(a)
                 PROVE  Charged(b, IF InFlight(b) /\ ~InFlight(a) THEN sent[r] + 1 ELSE sent[r])
      OBVIOUS
    <3>1. a.settle = 0
      BY <1>1, <1>2 DEF Settling, Action
    <3>2. w.m = a.m /\ w.cid = a.cid /\ w.retries = a.retries /\ w.settle = 0
      BY <1>3, <3>1 DEF Less
    <3>3. CASE p = w
      BY <1>1, <1>9, <3>1, <3>2, <3>3 DEF Charged, IsActive, InFlight, Settling
    <3>4. CASE p = NoAction
      <4>1. a = NoAction
        BY <1>1, <1>9, <3>4, NoActionIs DEF Named
      <4> QED
        BY <1>1, <1>9, <3>4, <4>1
    <3>5. CASE p = Queued(Best(r), actor[r]) /\ actor[r] \in Soul /\ Best(r) \in Match /\ w.m # Best(r)
      BY <1>9, <3>2, <3>5, QueuedIs
    <3> QED
      BY <1>6, <3>3, <3>4, <3>5
  <2>2. Charged(b, sent'[r])
    BY <1>1, <2>1, ChargedStays DEF a, b
  <2>3. ~(InFlight(b) /\ ~InFlight(a))
    <3>1. ~InFlight(a) => p.cid = NoCid
      BY PendingType DEF IInv, a, p
    <3> QED
      BY <1>9, <3>1 DEF InFlight
  <2> QED
    BY <1>5, <1>8, <1>9, <2>2, <2>3 DEF a, b, s
<1>10. CASE b = NoAction /\ Ready(p)
  <2>1. b.m # a.m \/ Charged(b, IF InFlight(b) /\ ~InFlight(a) THEN sent[r] + 1 ELSE sent[r])
    <3> SUFFICES ASSUME b.m = a.m
                 PROVE  Charged(b, IF InFlight(b) /\ ~InFlight(a) THEN sent[r] + 1 ELSE sent[r])
      OBVIOUS
    <3>1. a = NoAction
      BY <1>1, <1>10, NoActionIs DEF Named
    <3> QED
      BY <1>1, <1>10, <3>1
  <2>2. Charged(b, sent'[r])
    BY <1>1, <2>1, ChargedStays DEF a, b
  <2>3. ~InFlight(b)
    BY <1>10, NoActionIs DEF IsActive
  <2> QED
    BY <1>5, <1>10, <2>2, <2>3, NoActionIs DEF a, b, s, Windowed
<1>11. CASE \E c \in Cid : b = [p EXCEPT !.cid = c] /\ Ready(p)
  <2>1. PICK c \in Cid : b = [p EXCEPT !.cid = c] /\ Ready(p)
    BY <1>11
  <2>2. /\ b.cid = c /\ b.m = p.m /\ b.retries = p.retries /\ b.settle = p.settle
        /\ b.debounced = p.debounced /\ b.wait = p.wait
    BY <1>1, <2>1 DEF Action
  <2>3. InFlight(b) /\ IsActive(b) /\ ~Waiting(b) /\ p.wait = 0 /\ Waiting(p)
    BY <1>2, <2>1, <2>2 DEF InFlight, IsActive, Waiting, Ready
  <2>4. Named(b)
    BY <1>8, <2>2, <2>3, NoActionIs DEF Named, Waiting
  <2>5. b.m # a.m \/ Settling(a) \/
          Charged(b, IF InFlight(b) /\ ~InFlight(a) THEN sent[r] + 1 ELSE sent[r])
    <3> SUFFICES ASSUME b.m = a.m, ~Settling(a)
                 PROVE  Charged(b, IF InFlight(b) /\ ~InFlight(a) THEN sent[r] + 1 ELSE sent[r])
      OBVIOUS
    <3>1. a.settle = 0
      BY <1>1, <1>2 DEF Settling, Action
    <3>2. w.m = a.m /\ w.cid = a.cid /\ w.retries = a.retries
      BY <1>3, <3>1
    <3>3. p = w
      <4>1. p # NoAction
        BY <2>3 DEF Waiting
      <4>2. CASE p = Queued(Best(r), actor[r]) /\ actor[r] \in Soul /\ Best(r) \in Match /\ w.m # Best(r)
        BY <2>2, <3>2, <4>2, QueuedIs
      <4> QED
        BY <1>6, <4>1, <4>2
    <3>4. ~IsActive(a)
      BY <2>3, <3>2, <3>3 DEF Waiting, IsActive, InFlight
    <3>5. a.retries \in Nat /\ b.retries = a.retries
      BY <1>1, <1>2, <2>2, <3>2, <3>3 DEF Action
    <3> QED
      BY <1>1, <2>3, <3>4, <3>5 DEF Charged
  <2>6. Charged(b, sent'[r])
    BY <1>1, <2>5, ChargedStays DEF a, b
  <2>7. ASSUME b.retries = 0, b.debounced
        PROVE  s = [m |-> b.m, ticks |-> Debounce]
    <3>1. s.m = p.m /\ Debounce <= s.ticks + p.wait
      BY <1>8, <2>2, <2>3, <2>7 DEF Windowed
    <3>2. s.ticks = Debounce
      BY <1>2, <1>5, <2>3, <3>1 DEF Look
    <3> QED
      BY <1>5, <2>2, <3>1, <3>2 DEF Look
  <2> QED
    BY <1>5, <2>3, <2>4, <2>6, <2>7 DEF a, b, s, Windowed
<1> QED
  BY <1>7, <1>9, <1>10, <1>11

\* An answer ends a flight, and costs nothing.
LEMMA ArrivalWatched ==
    ASSUME IInv, WInv, IInv', Arrival, UNCHANGED seen,
           sent' = [s \in Root |-> Counted(s)], NEW r \in Root
    PROVE  /\ Named(actions'[r]) /\ Charged(actions'[r], sent'[r])
           /\ Windowed(actions'[r], seen'[r])
           /\ InFlight(actions'[r]) => InFlight(actions[r])
<1> DEFINE a == actions[r]
           b == actions'[r]
<1>1. /\ a \in Action /\ Named(a) /\ Charged(a, sent[r]) /\ Windowed(a, seen[r]) /\ b \in Action
  BY DEF WInv, IInv, Types
<1>2. Grace \in Nat \ {0} /\ MaxRetries \in Nat /\ NoCid \notin Cid /\ Gaps \subseteq Nat \ {0}
  BY QueueAssumption DEF QueueAssumption
<1>3. \/ b = a
      \/ InFlight(a) /\ b = Accepted(a)
      \/ InFlight(a) /\ \E gap \in Gaps : b = Rearmed(a, gap)
      \/ InFlight(a) /\ b = NoAction
  <2>1. ASSUME NEW c \in Cid, RecvAccepted(c) PROVE b = IF a.cid = c THEN Accepted(a) ELSE a
    BY <2>1 DEF RecvAccepted, Resolve
  <2>2. ASSUME NEW c \in Cid, RecvAhead(c)
        PROVE  \E gap \in Gaps : b = IF a.cid = c THEN Rearmed(a, gap) ELSE a
    BY <2>2 DEF RecvAhead, Resolve
  <2>3. ASSUME NEW c \in Cid, RecvRejected(c) PROVE b = IF a.cid = c THEN NoAction ELSE a
    BY <2>3 DEF RecvRejected, Resolve
  <2>4. ASSUME NEW c \in Cid, Lose(c) PROVE b = a
    BY <2>4 DEF Lose
  <2>5. ASSUME NEW q \in Root, NEW marked \in BOOLEAN, WorldMoves(q, marked) PROVE b = a
    BY <2>5 DEF WorldMoves
  <2>6. \A c \in Cid : a.cid = c => InFlight(a)
    BY <1>2 DEF InFlight
  <2> HIDE DEF a, b
  <2> QED
    BY <2>1, <2>2, <2>3, <2>4, <2>5, <2>6 DEF Arrival
<1> HIDE DEF a, b
<1>4. CASE b = a
  <2>1. Charged(b, IF InFlight(b) /\ ~InFlight(a) THEN sent[r] + 1 ELSE sent[r])
    BY <1>1, <1>4
  <2>2. Charged(b, sent'[r])
    BY <1>1, <2>1, ChargedStays DEF a, b
  <2> QED
    BY <1>1, <1>4, <2>2 DEF a, b
<1>5. CASE InFlight(a) /\ b = NoAction
  <2>1. b.m # a.m
    BY <1>1, <1>5, NoActionIs DEF Named, IsActive
  <2>2. Charged(b, sent'[r])
    BY <1>1, <2>1, ChargedStays DEF a, b
  <2> QED
    BY <1>5, <2>2, NoActionIs DEF a, b, Windowed, IsActive
<1>6. CASE InFlight(a) /\ b = Accepted(a) /\ b # NoAction
  <2>1. b = [a EXCEPT !.cid = NoCid, !.settle = Grace]
    BY <1>6 DEF Accepted
  <2>2. b.m = a.m /\ b.cid = NoCid /\ b.settle = Grace /\ b.retries = a.retries
    BY <1>1, <2>1 DEF Action
  <2>3. IsActive(b) /\ ~InFlight(b) /\ ~Waiting(b)
    BY <1>2, <2>2 DEF IsActive, InFlight, Settling, Waiting
  <2>4. Charged(b, IF InFlight(b) /\ ~InFlight(a) THEN sent[r] + 1 ELSE sent[r])
    BY <1>1, <2>2, <2>3 DEF Charged
  <2>5. Charged(b, sent'[r])
    BY <1>1, <2>4, ChargedStays DEF a, b
  <2>6. Named(b)
    BY <1>1, <1>6, <2>2, NoActionIs DEF Named, IsActive
  <2> QED
    BY <2>3, <2>5, <2>6 DEF a, b, Windowed
<1>7. CASE InFlight(a) /\ b # NoAction /\ \E gap \in Gaps : b = Rearmed(a, gap)
  <2>1. PICK gap \in Gaps : b = Rearmed(a, gap)
    BY <1>7
  <2>2. b = [a EXCEPT !.retries = a.retries + 1, !.wait = gap, !.debounced = TRUE, !.cid = NoCid]
    BY <1>1, <1>7, <2>1 DEF Rearmed, Action
  <2>3. b.m = a.m /\ b.cid = NoCid /\ b.retries = a.retries + 1 /\ a.retries \in Nat
    BY <1>1, <1>2, <2>2 DEF Action
  <2>4. ~InFlight(b) /\ b.retries # 0
    BY <2>3 DEF InFlight
  <2>5. Charged(b, IF InFlight(b) /\ ~InFlight(a) THEN sent[r] + 1 ELSE sent[r])
    BY <1>1, <2>3, <2>4 DEF Charged
  <2>6. Charged(b, sent'[r])
    BY <1>1, <2>5, ChargedStays DEF a, b
  <2>7. Named(b)
    BY <1>1, <1>7, <2>3, NoActionIs DEF Named, IsActive
  <2> QED
    BY <2>4, <2>6, <2>7 DEF a, b, Windowed
<1> QED
  BY <1>3, <1>4, <1>5, <1>6, <1>7

watchedVars == <<vars, seen, sent>>

\* The watched queue is the queue: its invariant holds, and each action's count
\* and window agree with what was watched.
LEMMA WatchedSteps ==
    ASSUME IInv, WInv, [WatchedNext]_watchedVars
    PROVE  IInv' /\ WInv'
<1>1. IInv'
  BY Steps DEF WatchedNext, Next, watchedVars
<1>2. CASE WatchedNext
  <2>1. CASE Tick /\ seen' = [s \in Root |-> Looked(s)]
    BY <1>1, <1>2, <2>1, TickWatched DEF WInv, WatchedNext
  <2>2. CASE Arrival /\ UNCHANGED seen
    BY <1>1, <1>2, <2>2, ArrivalWatched DEF WInv, WatchedNext
  <2> QED
    BY <1>2, <2>1, <2>2 DEF WatchedNext
<1>3. CASE UNCHANGED watchedVars
  BY <1>1, <1>3 DEF watchedVars, vars, WInv
<1> QED
  BY <1>1, <1>2, <1>3

THEOREM Watching == WatchedSpec => [](IInv /\ WInv)
<1>1. WatchedInit => IInv /\ WInv
  <2> SUFFICES ASSUME WatchedInit PROVE IInv /\ WInv
    OBVIOUS
  <2>1. IInv
    BY InitIInv DEF WatchedInit
  <2>2. ASSUME NEW r \in Root
        PROVE  /\ actions[r] = NoAction /\ sent[r] = 0 /\ seen[r] = [m |-> NoMatch, ticks |-> 0]
    BY DEF WatchedInit, Init
  <2>3. [m |-> NoMatch, ticks |-> 0] \in Look
    BY QueueAssumption DEF QueueAssumption, Look
  <2> QED
    BY <2>1, <2>2, <2>3, NoActionIs DEF WInv, Charged, Windowed
<1>2. IInv /\ WInv /\ [WatchedNext]_watchedVars => (IInv /\ WInv)'
  BY WatchedSteps
<1>3. WatchedSpec => WatchedInit /\ [][WatchedNext]_watchedVars
  BY PTL DEF WatchedSpec, watchedVars
<1> QED
  BY <1>1, <1>2, <1>3, PTL

\* resolve_action on client_ahead_by: skew cannot make an action loop, for what
\* is queued once costs one proposal and MaxRetries more at most.
THEOREM ResubmitsAreBounded == WatchedSpec => []ResubmitsBounded
<1>1. IInv /\ WInv => ResubmitsBounded
  <2> SUFFICES ASSUME IInv, WInv, NEW r \in Root PROVE sent[r] <= MaxRetries + 1
    BY DEF ResubmitsBounded
  <2>1. Charged(actions[r], sent[r]) /\ actions[r].retries \in 0 .. MaxRetries
    BY DEF WInv, IInv, Types, Action
  <2> QED
    BY <2>1, QueueAssumption DEF Charged, QueueAssumption
<1> QED
  BY <1>1, Watching, PTL

\* evaluate_root and fire_ready: a debounced match is first proposed only after
\* it was seen best for the whole cancel window, whatever rows, flushes, budgets
\* and superseding matches came between.
THEOREM WindowIsHonoured == WatchedSpec => WindowHonoured
<1>1. IInv /\ WInv /\ [WatchedNext]_watchedVars =>
        [\A r \in Root :
            LET a == actions'[r]
            IN  InFlight(a) /\ ~InFlight(actions[r]) /\ a.retries = 0 /\ a.debounced =>
                    seen'[r] = [m |-> a.m, ticks |-> Debounce]]_watchedVars
  <2> SUFFICES ASSUME IInv, WInv, WatchedNext, NEW r \in Root,
                      InFlight(actions'[r]), ~InFlight(actions[r]),
                      actions'[r].retries = 0, actions'[r].debounced
               PROVE  seen'[r] = [m |-> actions'[r].m, ticks |-> Debounce]
    OBVIOUS
  <2>1. IInv'
    BY Steps DEF WatchedNext, Next
  <2>2. Tick /\ seen' = [s \in Root |-> Looked(s)]
    BY <2>1, ArrivalWatched DEF WatchedNext
  <2> QED
    BY <2>1, <2>2, TickWatched DEF WatchedNext
<1>2. WatchedSpec => [][WatchedNext]_watchedVars
  BY PTL DEF WatchedSpec, watchedVars
<1> QED
  BY <1>1, <1>2, Watching, PTL DEF WindowHonoured, watchedVars
=============================================================================
