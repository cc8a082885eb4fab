----------------------------- MODULE StickySubs -----------------------------
(***************************************************************************)
(* What the zone manager promises about subscriptions, with no anchors,    *)
(* tiers, clocks or update counts: what is wanted is open; what is no      *)
(* longer wanted stays open as a close-candidate until noise or capacity   *)
(* drops it; nothing wanted is ever dropped.                               *)
(***************************************************************************)
EXTENDS Naturals, FiniteSets

CONSTANTS Key, MaxOpen

VARIABLES wanted, open

vars == <<wanted, open>>

Init == wanted = {} /\ open = {}

\* The anchors moved: want W, open what is missing and, while there are more
\* than MaxOpen subscriptions, evict candidates.
Retarget(W, evicted) ==
    /\ wanted' = W
    /\ evicted \subseteq open \ W
    /\ open' = (open \cup W) \ evicted
    /\ evicted # {} => Cardinality(open') >= MaxOpen
    /\ Cardinality(open') > MaxOpen => open' = W

\* A noisy candidate is dropped.
DropCandidate(k) ==
    /\ k \in open \ wanted
    /\ open' = open \ {k}
    /\ UNCHANGED wanted

Next ==
    \/ \E W, evicted \in SUBSET Key : Retarget(W, evicted)
    \/ \E k \in Key : DropCandidate(k)

Spec == Init /\ [][Next]_vars
=============================================================================
