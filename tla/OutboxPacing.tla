---------------------------- MODULE OutboxPacing ----------------------------
(***************************************************************************)
(* Outbox with two history variables: how often a call failed since it was *)
(* wanted, counted from the outside, and how long ago it failed last.      *)
(***************************************************************************)
EXTENDS Outbox

CONSTANT Long     \* a time longer than every back-off: quiet saturates here

ASSUME LongAssumption == Long \in Nat /\ Long > BackoffCap

VARIABLES failed, quiet

pacedVars == <<vars, failed, quiet>>

PacedInit ==
    /\ Init
    /\ failed = [h \in Hash |-> 0]
    /\ quiet = [h \in Hash |-> Long]

Fails(h) == InFlight(calls[h]) /\ calls'[h].state = "queued"

Observe(elapsed) ==
    /\ failed' = [h \in Hash |-> IF ~Live(calls'[h]) THEN 0
                                 ELSE IF Fails(h) THEN Least(failed[h] + 1, MaxShift)
                                 ELSE failed[h]]
    /\ quiet' = [h \in Hash |-> IF Fails(h) THEN 0 ELSE Least(quiet[h] + elapsed, Long)]

PacedNext ==
    \/ Step /\ Observe(0)
    \/ Tick /\ Observe(1)

PacedSpec == PacedInit /\ [][PacedNext]_pacedVars

-----------------------------------------------------------------------------

\* Every attempt after the n-th failure of a call, error or timeout in any
\* mix, waits at least the n-th back-off: a failing gate is never hammered
\* while the call stays wanted.
RetriesBackOff ==
    [][\A h \in Hash, c \in Cid :
        (asked[c] = NoHash /\ asked'[c] = h /\ failed[h] > 0)
            => quiet[h] >= Backoff(failed[h])]_pacedVars
=============================================================================
