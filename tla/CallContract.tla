---------------------------- MODULE CallContract ----------------------------
(***************************************************************************)
(* What the outbound call queue promises, with no timers, retry counts or  *)
(* cid index: a call is open from the moment it is wanted until it is      *)
(* confirmed or withdrawn; it has at most one current attempt; only the    *)
(* confirmation of the current attempt completes it.                       *)
(***************************************************************************)
CONSTANTS Hash, Cid, NoHash, NoCid

VARIABLES
    open,      \* the calls wanted and not yet confirmed
    current,   \* Hash -> the cid of its current attempt, or NoCid
    asked,     \* Cid -> the call it was sent for while unanswered, or NoHash
    reply      \* Cid -> the answer on its way, or "none"

vars == <<open, current, asked, reply>>
link == <<asked, reply>>

Init ==
    /\ open = {}
    /\ current = [h \in Hash |-> NoCid]
    /\ asked = [c \in Cid |-> NoHash]
    /\ reply = [c \in Cid |-> "none"]

Declare(h) ==
    /\ open' = open \cup {h}
    /\ UNCHANGED <<current, link>>

Withdraw(h) ==
    /\ open' = open \ {h}
    /\ current' = [current EXCEPT ![h] = NoCid]
    /\ UNCHANGED link

\* Give up the attempts of some calls and start one for others that have none.
Round(given_up, started) ==
    /\ started \subseteq open
    /\ \A h \in started : current[h] = NoCid
    /\ UNCHANGED <<open, reply>>
    /\ \E mint \in [started -> {c \in Cid : asked[c] = NoHash}] :
        /\ \A g, h \in started : mint[g] = mint[h] => g = h
        /\ current' = [h \in Hash |-> IF h \in started THEN mint[h]
                                      ELSE IF h \in given_up THEN NoCid ELSE current[h]]
        /\ asked' = [c \in Cid |-> IF \E h \in started : mint[h] = c
                                   THEN CHOOSE h \in started : mint[h] = c
                                   ELSE asked[c]]

\* The gate answers an attempt, current or not.
Reply(c, kind) ==
    /\ asked[c] # NoHash
    /\ reply[c] = "none"
    /\ reply' = [reply EXCEPT ![c] = kind]
    /\ UNCHANGED <<open, current, asked>>

Closed(c) ==
    /\ asked' = [asked EXCEPT ![c] = NoHash]
    /\ reply' = [reply EXCEPT ![c] = "none"]

Holders(c) == {h \in Hash : current[h] = c}

Released(c) == [h \in Hash |-> IF current[h] = c THEN NoCid ELSE current[h]]

\* A confirmation completes the call whose current attempt it confirms; that
\* of a given-up attempt completes nothing.
Confirmed(c) ==
    /\ reply[c] = "ok"
    /\ Closed(c)
    /\ open' = open \ Holders(c)
    /\ current' = Released(c)

\* A refusal ends the attempt and leaves the call open.
Refused(c) ==
    /\ reply[c] = "err"
    /\ Closed(c)
    /\ current' = Released(c)
    /\ UNCHANGED open

\* A promise ends nothing.
Promised(c) ==
    /\ reply[c] = "promise"
    /\ reply' = [reply EXCEPT ![c] = "none"]
    /\ UNCHANGED <<open, current, asked>>

Lost(c) ==
    /\ asked[c] # NoHash
    /\ Closed(c)
    /\ UNCHANGED <<open, current>>

Next ==
    \/ \E h \in Hash : Declare(h) \/ Withdraw(h)
    \/ \E given_up, started \in SUBSET Hash : Round(given_up, started)
    \/ \E c \in Cid, kind \in {"ok", "err", "promise"} : Reply(c, kind)
    \/ \E c \in Cid : Confirmed(c) \/ Refused(c) \/ Promised(c) \/ Lost(c)

Spec == Init /\ [][Next]_vars
=============================================================================
