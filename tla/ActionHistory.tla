---------------------------- MODULE ActionHistory ----------------------------
(***************************************************************************)
(* The action queue, watched: when the best match of a root was last seen  *)
(* to change, and how many proposals the queued action has cost.           *)
(***************************************************************************)
EXTENDS ActionQueue

VARIABLES
    seen,   \* Root -> the best match the last flush saw, and for how long
    sent    \* Root -> proposals sent for the action that is queued now

\* The best match a flush of r sees.
Found(r) == IF actor[r] = NoSoul \/ live[r][actor[r]] = {} THEN NoMatch ELSE Best(r)

Looked(r) ==
    LET m == IF Flushing /\ r \in dirty THEN Found(r) ELSE seen[r].m
    IN  [m |-> m, ticks |-> IF m # seen[r].m THEN 0
                            ELSE IF seen[r].ticks < Debounce THEN seen[r].ticks + 1
                            ELSE Debounce]

Counted(r) ==
    LET a == actions'[r]
        before == IF a.m # actions[r].m \/ Settling(actions[r]) THEN 0 ELSE sent[r]
    IN  IF InFlight(a) /\ ~InFlight(actions[r]) THEN before + 1 ELSE before

WatchedInit ==
    /\ Init
    /\ seen = [r \in Root |-> [m |-> NoMatch, ticks |-> 0]]
    /\ sent = [r \in Root |-> 0]

WatchedNext ==
    /\ \/ Tick /\ seen' = [r \in Root |-> Looked(r)]
       \/ Arrival /\ UNCHANGED seen
    /\ sent' = [r \in Root |-> Counted(r)]

WatchedSpec == WatchedInit /\ [][WatchedNext]_<<vars, seen, sent>> /\ Fairness

\* The player's cancel window: a debounced match is first proposed only after
\* every look at its root found it best for the whole window, a superseding or
\* vanishing match having started the window over.
WindowHonoured ==
    [][\A r \in Root :
        LET a == actions'[r]
        IN  InFlight(a) /\ ~InFlight(actions[r]) /\ a.retries = 0 /\ a.debounced =>
                seen'[r] = [m |-> a.m, ticks |-> Debounce]]_<<vars, seen, sent>>

\* Clock skew cannot make an action loop: what is queued once costs at most
\* MaxRetries proposals more than the first.
ResubmitsBounded == \A r \in Root : sent[r] <= MaxRetries + 1
=============================================================================
