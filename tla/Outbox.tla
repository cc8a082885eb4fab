------------------------------- MODULE Outbox -------------------------------
(***************************************************************************)
(* The outbound call queue of core/src/outbox.rs: every wanted gate call   *)
(* is kept until the gate confirms it, sent under a fresh call id (cid)    *)
(* per attempt, and re-queued with exponential back-off after an error or  *)
(* a timeout.  The gate and the websocket are external: an attempt stays   *)
(* in "asked" from the moment it is sent until its final answer is applied *)
(* or lost, and "reply" holds the answer on its way, so an answer may      *)
(* arrive arbitrarily late.                                                *)
(*                                                                         *)
(* Times are countdowns: left stands for send_at - now (queued) or         *)
(* expiry - now (sent, awaiting), floored at 0, which is all the code      *)
(* compares.  The retry count saturates at MaxShift, as in backoff().      *)
(***************************************************************************)
EXTENDS Integers, FiniteSets

CONSTANTS
    Hash,            \* call_hash values: one per logical request
    Cid,             \* call ids; a fresh one per attempt
    NoHash, NoCid,   \* "no such entry"
    TTL,             \* INFLIGHT_TTL_MS
    BackoffBase,     \* BACKOFF_BASE_MS
    BackoffCap,      \* BACKOFF_CAP_MS
    MaxShift,        \* the largest exponent of backoff(): 8 in the code
    PromiseTimeouts  \* timeout_ms values a call_promise may carry

ASSUME NoEntryAssumption == NoHash \notin Hash /\ NoCid \notin Cid
ASSUME TimeAssumption ==
    /\ TTL \in Nat \ {0}
    /\ BackoffBase \in Nat \ {0}
    /\ BackoffCap \in Nat \ {0}
    /\ MaxShift \in 1..8
    /\ PromiseTimeouts \subseteq Nat

VARIABLES
    calls,     \* Hash -> the entry of Outbox::calls, Absent when there is none
    by_cid,    \* Cid -> the hash whose current attempt it is, or NoHash
    asked,     \* external: Cid -> the hash it was sent for while unanswered
    reply,     \* external: Cid -> the answer on its way, "none" when there is none
    promised   \* external: the cids whose call_promise has been applied

vars == <<calls, by_cid, asked, reply, promised>>
outbox == <<calls, by_cid>>
link == <<asked, reply, promised>>

-----------------------------------------------------------------------------

Pow2 == <<1, 2, 4, 8, 16, 32, 64, 128, 256>>

Least(a, b) == IF a <= b THEN a ELSE b

Backoff(retry) == Least(BackoffBase * Pow2[Least(retry, MaxShift) + 1], BackoffCap)

CallState == {"absent", "queued", "sent", "awaiting"}

Call == [state : CallState, retry : 0..MaxShift, cid : Cid \cup {NoCid}, left : Nat]

Absent == [state |-> "absent", retry |-> 0, cid |-> NoCid, left |-> 0]
Fresh == [state |-> "queued", retry |-> 0, cid |-> NoCid, left |-> 0]

Live(call) == call.state # "absent"
InFlight(call) == call.state \in {"sent", "awaiting"}

Sent(call, c) == [state |-> "sent", retry |-> call.retry, cid |-> c, left |-> TTL]

\* Mutant: the promise's timeout is counted from the send.
PromisedSinceSent(call, timeout) ==
    [state |-> "awaiting", retry |-> call.retry, cid |-> call.cid, left |-> timeout - TTL]

Promised(call, timeout) ==
    [state |-> "awaiting", retry |-> call.retry, cid |-> call.cid, left |-> timeout]

Aged(call) ==
    [state |-> call.state, retry |-> call.retry, cid |-> call.cid,
     left |-> IF call.left = 0 THEN 0 ELSE call.left - 1]

\* Mutant: the back-off is computed before the retry is counted.
RequeuedEarly(call) ==
    [state |-> "queued", retry |-> Least(call.retry + 1, MaxShift), cid |-> NoCid,
     left |-> Backoff(call.retry)]

\* An attempt failed: queue the call again, one back-off step later.
Requeued(call) ==
    LET retry == Least(call.retry + 1, MaxShift)
    IN  [state |-> "queued", retry |-> retry, cid |-> NoCid, left |-> Backoff(retry)]

-----------------------------------------------------------------------------
(* The queue's operations on a set of hashes, for the modules that drive it. *)

\* Mutant: wanting a live call starts it afresh.
WantedAfresh(H) == [h \in Hash |-> IF h \in H THEN Fresh ELSE calls[h]]

\* want(): a live call keeps its state and schedule.
Wanted(H) ==
    [h \in Hash |-> IF h \in H /\ ~Live(calls[h]) THEN Fresh ELSE calls[h]]

\* done(): forget the call and, when it is in flight, its cid.
Retired(H) == [h \in Hash |-> IF h \in H THEN Absent ELSE calls[h]]

\* Mutant: the cid of a forgotten or timed-out attempt stays in the index.
UnboundNone(H) == by_cid

Unbound(H) ==
    [c \in Cid |-> IF \E h \in H : InFlight(calls[h]) /\ calls[h].cid = c
                   THEN NoHash ELSE by_cid[c]]

Want(h) ==
    /\ calls' = Wanted({h})
    /\ UNCHANGED by_cid
    /\ UNCHANGED link

Done(h) ==
    /\ calls' = Retired({h})
    /\ by_cid' = Unbound({h})
    /\ UNCHANGED link

-----------------------------------------------------------------------------
(* pump(): sweep the attempts that timed out, then send whatever is due.   *)

\* Mutant: an unkept promise is never swept.
ExpiredSent == {h \in Hash : calls[h].state = "sent" /\ calls[h].left = 0}

Expired == {h \in Hash : InFlight(calls[h]) /\ calls[h].left = 0}

Swept == [h \in Hash |-> IF h \in Expired THEN Requeued(calls[h]) ELSE calls[h]]

\* Mutant: a call that failed too often is given up.
DueUnlessTired ==
    {h \in Hash : /\ Swept[h].state = "queued" /\ Swept[h].left = 0
                  /\ Swept[h].retry < MaxShift}

Due == {h \in Hash : Swept[h].state = "queued" /\ Swept[h].left = 0}

\* The cids alloc_cid may mint.  next_cid only grows, so a cid still in use
\* anywhere is never minted again.
FreeCid == {c \in Cid : by_cid[c] = NoHash /\ asked[c] = NoHash}

Pump ==
    \E mint \in [Due -> FreeCid] :
        /\ \A g, h \in Due : mint[g] = mint[h] => g = h
        /\ calls' = [h \in Hash |-> IF h \in Due THEN Sent(Swept[h], mint[h]) ELSE Swept[h]]
        /\ by_cid' = [c \in Cid |-> IF \E h \in Due : mint[h] = c
                                    THEN CHOOSE h \in Due : mint[h] = c
                                    ELSE Unbound(Expired)[c]]
        /\ asked' = [c \in Cid |-> IF \E h \in Due : mint[h] = c
                                   THEN CHOOSE h \in Due : mint[h] = c
                                   ELSE asked[c]]
        /\ UNCHANGED <<reply, promised>>

\* One unit of the driver's clock passes.
Tick ==
    /\ calls' = [h \in Hash |-> Aged(calls[h])]
    /\ UNCHANGED by_cid
    /\ UNCHANGED link

-----------------------------------------------------------------------------
(* Answers.  An answer to a cid by_cid does not know is ignored.           *)

\* Mutant: an ok retires the call the cid was once sent for.
OnOkOfAnyAttempt(c) ==
    /\ calls' = Retired({asked[c]})
    /\ by_cid' = [by_cid EXCEPT ![c] = NoHash]

OnOk(c) ==
    /\ calls' = Retired({by_cid[c]})
    /\ by_cid' = [by_cid EXCEPT ![c] = NoHash]

\* Mutant: an error drops the call.
OnErrDrops(c) ==
    /\ calls' = Retired({by_cid[c]})
    /\ by_cid' = [by_cid EXCEPT ![c] = NoHash]

OnErr(c) ==
    /\ calls' = [h \in Hash |-> IF h = by_cid[c] THEN Requeued(calls[h]) ELSE calls[h]]
    /\ by_cid' = [by_cid EXCEPT ![c] = NoHash]

OnPromise(c, timeout) ==
    /\ calls' = [h \in Hash |-> IF h = by_cid[c] THEN Promised(calls[h], timeout)
                                                   ELSE calls[h]]
    /\ UNCHANGED by_cid

Reply == {"ok", "err", "promise"}

\* external: the gate answers an attempt, and promises it at most once.
GateReplies(c, kind) ==
    /\ asked[c] # NoHash
    /\ reply[c] = "none"
    /\ kind = "promise" => c \notin promised
    /\ reply' = [reply EXCEPT ![c] = kind]
    /\ UNCHANGED <<calls, by_cid, asked, promised>>

\* The gate has nothing more to say about c.
Closed(c) ==
    /\ asked' = [asked EXCEPT ![c] = NoHash]
    /\ reply' = [reply EXCEPT ![c] = "none"]
    /\ promised' = promised \ {c}

RecvOk(c) == reply[c] = "ok" /\ Closed(c) /\ OnOk(c)

RecvErr(c) == reply[c] = "err" /\ Closed(c) /\ OnErr(c)

RecvPromise(c, timeout) ==
    /\ reply[c] = "promise"
    /\ OnPromise(c, timeout)
    /\ reply' = [reply EXCEPT ![c] = "none"]
    /\ promised' = promised \cup {c}
    /\ UNCHANGED asked

\* external: the request or its answer is lost.
Lose(c) == asked[c] # NoHash /\ Closed(c) /\ UNCHANGED outbox

-----------------------------------------------------------------------------

Init ==
    /\ calls = [h \in Hash |-> Absent]
    /\ by_cid = [c \in Cid |-> NoHash]
    /\ asked = [c \in Cid |-> NoHash]
    /\ reply = [c \in Cid |-> "none"]
    /\ promised = {}

Step ==
    \/ \E h \in Hash : Want(h)
    \/ \E h \in Hash : Done(h)
    \/ Pump
    \/ \E c \in Cid, kind \in Reply : GateReplies(c, kind)
    \/ \E c \in Cid : RecvOk(c)
    \/ \E c \in Cid : RecvErr(c)
    \/ \E c \in Cid, t \in PromiseTimeouts : RecvPromise(c, t)
    \/ \E c \in Cid : Lose(c)

Next == Step \/ Tick

Spec == Init /\ [][Next]_vars

\* The driver ticks the client and drains it for ever.  The answer to an
\* attempt nobody waits for any more arrives or is lost eventually: that only
\* keeps the finite pool of cids from running dry.
LetGo(c) == by_cid[c] = NoHash /\ Lose(c)

Fairness ==
    /\ WF_vars(Tick)
    /\ WF_vars(Pump)
    /\ \A c \in Cid : WF_vars(LetGo(c))

\* Nothing is asked of the gate: it may answer no attempt at all.
FairSpec == Spec /\ Fairness

\* A gate that, asked again and again for h, confirms it in time at last.
Confirms(h) == \E c \in Cid : by_cid[c] = h /\ GateReplies(c, "ok")
AckInTime(h) == \E c \in Cid : by_cid[c] = h /\ RecvOk(c)

-----------------------------------------------------------------------------

\* Every variable has the type its Rust counterpart has.
TypeOK ==
    /\ calls \in [Hash -> Call]
    /\ by_cid \in [Cid -> Hash \cup {NoHash}]
    /\ asked \in [Cid -> Hash \cup {NoHash}]
    /\ reply \in [Cid -> Reply \cup {"none"}]
    /\ promised \subseteq Cid

\* calls and by_cid are two views of one relation: by_cid maps exactly the
\* cids of the in-flight attempts, each to the call whose attempt it is, so no
\* two calls share a cid and no answer can find a call that is not waiting.
CidsMatchCalls ==
    \A c \in Cid, h \in Hash :
        by_cid[c] = h <=> (InFlight(calls[h]) /\ calls[h].cid = c)

\* A request is put on the link only when no attempt of the same call is still
\* waited for ("a call is sent at most once while in flight"): not when it is
\* wanted again, nor when two answers or a sweep meet the pump.
SentOnceWhileInFlight ==
    [][\A h \in Hash, c \in Cid :
        (asked[c] = NoHash /\ asked'[c] = h) => \A d \in Cid : by_cid[d] # h]_vars

\* A confirmation retires a call only when it confirms the call's current
\* attempt: the late ok of an attempt that timed out, or of a call that was
\* retired and wanted anew, retires nothing.
OnlyOwnAckRetires ==
    [][\A h \in Hash, c \in Cid :
        (/\ asked[c] # NoHash /\ asked'[c] = NoHash
         /\ Live(calls[h]) /\ ~Live(calls'[h]))
            => (InFlight(calls[h]) /\ calls[h].cid = c /\ asked[c] = h)]_vars

\* Nothing self-latches: whatever the gate does, were it to lose or refuse every
\* attempt, a wanted call is sent again and again until it is confirmed or
\* retired.
NeverLatched ==
    \A h \in Hash : []<>(calls[h].state \in {"absent", "sent"})

\* Against a gate that keeps being able to confirm it, a wanted call gets done,
\* whatever the gate does of the other calls, which compete for the same cids.
WantedGetsDone ==
    \A h \in Hash :
        (SF_vars(Confirms(h)) /\ SF_vars(AckInTime(h))) => (Live(calls[h]) ~> ~Live(calls[h]))

Contract ==
    INSTANCE CallContract
        WITH open <- {h \in Hash : Live(calls[h])},
             current <- [h \in Hash |-> IF InFlight(calls[h]) THEN calls[h].cid ELSE NoCid]

\* The queue with its timers, retry counts and index implements the contract:
\* one current attempt per call, completed by its own confirmation only.
ImplementsContract == Contract!Spec
=============================================================================
