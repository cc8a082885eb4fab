---------------------------- MODULE OutboxProofs ----------------------------
(***************************************************************************)
(* For every set of calls and cids and every timing: the queue's maps stay *)
(* consistent, a call is sent only when none of its attempts is waited     *)
(* for, only the confirmation of its current attempt completes it, and a   *)
(* failing gate is asked again no sooner than the back-off allows.         *)
(***************************************************************************)
EXTENDS OutboxPacing, TLAPS

\* CidsMatchCalls is not inductive alone: that an answer completes the call it
\* was asked for also needs the link to agree with the index.
AskedMatchesCids ==
    \A c \in Cid : by_cid[c] # NoHash /\ asked[c] # NoHash => by_cid[c] = asked[c]

\* Only an unanswered attempt has an answer on its way.
RepliesAreAsked == \A c \in Cid : asked[c] = NoHash => reply[c] = "none"

IInv == TypeOK /\ CidsMatchCalls /\ AskedMatchesCids /\ RepliesAreAsked

-----------------------------------------------------------------------------

\* Back-off is a positive number of time units, whatever the retry count.
LEMMA BackoffType == \A retry \in 0..MaxShift : Backoff(retry) \in Nat \ {0}
<1>1. TAKE retry \in 0..MaxShift
<1>2. /\ Least(retry, MaxShift) + 1 \in 1..9
      BY TimeAssumption DEF Least
<1>3. \A i \in 1..9 : Pow2[i] \in Nat \ {0}
      BY DEF Pow2
<1>4. Pow2[Least(retry, MaxShift) + 1] \in Nat \ {0}
      BY <1>2, <1>3
<1> DEFINE p == Pow2[Least(retry, MaxShift) + 1]
<1>5. \A b \in Nat \ {0}, n \in Nat \ {0} : b * n \in Nat \ {0}
      OBVIOUS
<1>6. BackoffBase * p \in Nat \ {0}
      BY <1>4, <1>5, TimeAssumption
<1> HIDE DEF p
<1>7. Least(BackoffBase * p, BackoffCap) \in Nat \ {0}
      BY <1>6, TimeAssumption DEF Least
<1>8. QED
      BY <1>7 DEF Backoff, p

\* A failed attempt leaves a well-formed queued call that is not due yet.
LEMMA RequeuedType ==
    ASSUME NEW call \in Call
    PROVE  /\ Requeued(call) \in Call
           /\ Requeued(call).state = "queued"
           /\ Requeued(call).left # 0
<1> DEFINE retry == Least(call.retry + 1, MaxShift)
<1>1. retry \in 0..MaxShift
      BY TimeAssumption DEF Call, Least
<1> HIDE DEF retry
<1>2. Backoff(retry) \in Nat \ {0}
      BY <1>1, BackoffType
<1>3. QED
      BY <1>1, <1>2 DEF Requeued, Call, CallState, retry

\* The placeholder and a freshly wanted call are well-formed.
LEMMA FreshType == Absent \in Call /\ Fresh \in Call /\ Fresh.state = "queued"
BY TimeAssumption DEF Absent, Fresh, Call, CallState

\* A sent call is in flight under the cid it was sent with.
LEMMA SentType ==
    ASSUME NEW call \in Call, NEW c \in Cid
    PROVE  Sent(call, c) \in Call /\ InFlight(Sent(call, c)) /\ Sent(call, c).cid = c
<1>1. TTL \in Nat
      BY TimeAssumption
<1>2. QED
      BY <1>1 DEF Sent, Call, CallState, InFlight

\* The empty queue satisfies the inductive invariant.
LEMMA InitIInv == Init => IInv
BY FreshType, NoEntryAssumption
   DEF Init, IInv, TypeOK, CidsMatchCalls, AskedMatchesCids, RepliesAreAsked,
       InFlight, Absent

\* The sweep leaves every call well-formed and every call still in flight
\* untouched; a call that is due is no longer in flight.
LEMMA SweptType ==
    ASSUME TypeOK, NEW h \in Hash
    PROVE  /\ Swept[h] \in Call
           /\ InFlight(Swept[h]) => h \notin Expired /\ Swept[h] = calls[h]
           /\ h \in Expired => InFlight(calls[h]) /\ h \notin Due
           /\ h \in Due => Swept[h].state = "queued" /\ ~InFlight(calls[h])
<1>1. calls[h] \in Call
      BY DEF TypeOK
<1>2. CASE h \in Expired
  <2>1. Swept[h] = Requeued(calls[h])
        BY <1>2 DEF Swept
  <2>2. QED
        BY <1>1, <1>2, <2>1, RequeuedType DEF InFlight, Expired, Due
<1>3. CASE h \notin Expired
  <2>1. Swept[h] = calls[h]
        BY <1>3 DEF Swept
  <2>2. QED
        BY <1>1, <1>3, <2>1 DEF InFlight, Due
<1>4. QED
      BY <1>2, <1>3

\* The pump: the swept attempts leave the index, the minted ones enter it.
LEMMA PumpIInv == IInv /\ Pump => IInv'
<1> SUFFICES ASSUME IInv, Pump
             PROVE  IInv'
    OBVIOUS
<1> USE DEF IInv
<1>1. PICK mint \in [Due -> FreeCid] :
        /\ \A g, h \in Due : mint[g] = mint[h] => g = h
        /\ calls' = [h \in Hash |-> IF h \in Due THEN Sent(Swept[h], mint[h]) ELSE Swept[h]]
        /\ by_cid' = [c \in Cid |-> IF \E h \in Due : mint[h] = c
                                    THEN CHOOSE h \in Due : mint[h] = c
                                    ELSE Unbound(Expired)[c]]
        /\ asked' = [c \in Cid |-> IF \E h \in Due : mint[h] = c
                                   THEN CHOOSE h \in Due : mint[h] = c
                                   ELSE asked[c]]
        /\ UNCHANGED <<reply, promised>>
      BY DEF Pump
<1>2. Due \subseteq Hash /\ FreeCid \subseteq Cid
      BY DEF Due, FreeCid
<1>3. ASSUME NEW h \in Due
      PROVE  /\ mint[h] \in Cid /\ by_cid[mint[h]] = NoHash /\ asked[mint[h]] = NoHash
             /\ by_cid'[mint[h]] = h /\ asked'[mint[h]] = h
  <2>1. mint[h] \in FreeCid
        BY <1>1
  <2>2. (CHOOSE g \in Due : mint[g] = mint[h]) = h
        BY <1>1
  <2>3. QED
        BY <1>1, <1>2, <2>1, <2>2 DEF FreeCid
<1>4. ASSUME NEW c \in Cid, \A h \in Due : mint[h] # c
      PROVE  by_cid'[c] = Unbound(Expired)[c] /\ asked'[c] = asked[c]
      BY <1>1, <1>4
<1>5. ASSUME NEW c \in Cid
      PROVE  /\ Unbound(Expired)[c] \in {by_cid[c], NoHash}
             /\ Unbound(Expired)[c] = NoHash
                    <=> by_cid[c] = NoHash \/ by_cid[c] \in Expired
  <2>1. Expired \subseteq Hash
        BY DEF Expired
  <2>2. \A g \in Hash : by_cid[c] = g <=> (InFlight(calls[g]) /\ calls[g].cid = c)
        BY DEF CidsMatchCalls
  <2>3. QED
        BY <2>1, <2>2, NoEntryAssumption DEF Unbound, TypeOK
<1>6. ASSUME NEW h \in Hash
      PROVE  /\ h \in Due => calls'[h] = Sent(Swept[h], mint[h])
             /\ h \notin Due => calls'[h] = Swept[h]
      BY <1>1
<1>7. TypeOK'
  <2>1. calls' \in [Hash -> Call]
    <3>1. ASSUME NEW h \in Hash
          PROVE  calls'[h] \in Call
      <4>1. Swept[h] \in Call
            BY SweptType
      <4>2. CASE h \in Due
            BY <1>3, <1>6, <4>1, <4>2, SentType
      <4>3. CASE h \notin Due
            BY <1>6, <4>1, <4>3
      <4>4. QED
            BY <4>2, <4>3
    <3>2. QED
          BY <1>1, <3>1
  <2>2. by_cid' \in [Cid -> Hash \cup {NoHash}] /\ asked' \in [Cid -> Hash \cup {NoHash}]
    <3>1. ASSUME NEW c \in Cid
          PROVE  by_cid'[c] \in Hash \cup {NoHash} /\ asked'[c] \in Hash \cup {NoHash}
          BY <1>2, <1>3, <1>4, <1>5 DEF TypeOK
    <3>2. QED
          BY <1>1, <3>1
  <2>3. QED
        BY <1>1, <2>1, <2>2 DEF TypeOK
<1>8. CidsMatchCalls'
  <2> SUFFICES ASSUME NEW c \in Cid, NEW h \in Hash
               PROVE  by_cid'[c] = h <=> (InFlight(calls'[h]) /\ calls'[h].cid = c)
      BY DEF CidsMatchCalls
  <2>1. by_cid[c] = h <=> (InFlight(calls[h]) /\ calls[h].cid = c)
        BY DEF CidsMatchCalls
  <2>2. h \in Due => InFlight(calls'[h]) /\ calls'[h].cid = mint[h]
    <3>1. Swept[h] \in Call
          BY SweptType
    <3>2. QED
          BY <1>3, <1>6, <3>1, SentType
  <2>3. h \notin Due => calls'[h] = Swept[h]
        BY <1>6
  <2>4. InFlight(Swept[h]) => h \notin Expired /\ Swept[h] = calls[h]
        BY SweptType
  <2>5. h \notin Expired => Swept[h] = calls[h]
        BY DEF Swept
  <2>6. h \in Due => ~InFlight(calls[h])
        BY SweptType
  <2>7. CASE \E g \in Due : mint[g] = c
    <3>1. PICK g \in Due : mint[g] = c
          BY <2>7
    <3>2. by_cid'[c] = g /\ by_cid[c] = NoHash
          BY <1>3, <3>1
    <3>3. g = h => h \in Due /\ mint[h] = c
          BY <3>1
    <3>4. h \in Due /\ mint[h] = c => g = h
          BY <1>1, <3>1
    <3>5. QED
          BY <2>1, <2>2, <2>3, <2>4, <3>2, <3>3, <3>4, NoEntryAssumption
  <2>8. CASE \A g \in Due : mint[g] # c
    <3>1. by_cid'[c] = Unbound(Expired)[c]
          BY <1>4, <2>8
    <3>2. by_cid'[c] = h <=> (by_cid[c] = h /\ h \notin Expired)
          BY <1>5, <3>1, NoEntryAssumption
    <3>3. QED
          BY <2>1, <2>2, <2>3, <2>4, <2>5, <2>6, <2>8, <3>2
  <2>9. QED
        BY <2>7, <2>8
<1>9. AskedMatchesCids'
  <2> SUFFICES ASSUME NEW c \in Cid, by_cid'[c] # NoHash, asked'[c] # NoHash
               PROVE  by_cid'[c] = asked'[c]
      BY DEF AskedMatchesCids
  <2>1. CASE \E g \in Due : mint[g] = c
        BY <1>3, <2>1
  <2>2. CASE \A g \in Due : mint[g] # c
        BY <1>4, <1>5, <2>2 DEF AskedMatchesCids
  <2>3. QED
        BY <2>1, <2>2
<1>10. RepliesAreAsked'
  <2> SUFFICES ASSUME NEW c \in Cid, asked'[c] = NoHash
               PROVE  reply'[c] = "none"
      BY DEF RepliesAreAsked
  <2>1. \A g \in Due : mint[g] # c
        BY <1>2, <1>3, NoEntryAssumption
  <2>2. QED
        BY <1>1, <1>4, <2>1 DEF RepliesAreAsked
<1>11. QED
       BY <1>7, <1>8, <1>9, <1>10

\* What an answer to c does to the index and the link, whichever answer it is.
LEMMA AnswerIndex ==
    ASSUME IInv, NEW c \in Cid, Closed(c), by_cid' = [by_cid EXCEPT ![c] = NoHash]
    PROVE  /\ by_cid' \in [Cid -> Hash \cup {NoHash}]
           /\ asked' \in [Cid -> Hash \cup {NoHash}]
           /\ reply' \in [Cid -> Reply \cup {"none"}]
           /\ promised' \subseteq Cid
           /\ by_cid'[c] = NoHash
           /\ \A d \in Cid \ {c} : by_cid'[d] = by_cid[d] /\ asked'[d] = asked[d]
           /\ AskedMatchesCids'
           /\ RepliesAreAsked'
BY DEF IInv, TypeOK, Closed, AskedMatchesCids, RepliesAreAsked

\* An ok forgets the call that waits for it and its cid.
LEMMA OkIInv == ASSUME IInv, NEW c \in Cid, RecvOk(c) PROVE IInv'
<1> USE DEF IInv
<1>1. /\ calls' = [h \in Hash |-> IF h = by_cid[c] THEN Absent ELSE calls[h]]
      /\ by_cid' = [by_cid EXCEPT ![c] = NoHash]
      /\ Closed(c)
      BY DEF RecvOk, OnOk, Retired
<1>2. TypeOK'
      BY <1>1, AnswerIndex, FreshType DEF TypeOK
<1>3. CidsMatchCalls'
  <2> SUFFICES ASSUME NEW d \in Cid, NEW h \in Hash
               PROVE  by_cid'[d] = h <=> (InFlight(calls'[h]) /\ calls'[h].cid = d)
      BY DEF CidsMatchCalls
  <2>1. by_cid[d] = h <=> (InFlight(calls[h]) /\ calls[h].cid = d)
        BY DEF CidsMatchCalls
  <2>2. h # by_cid[c] => ~(InFlight(calls[h]) /\ calls[h].cid = c)
        BY DEF CidsMatchCalls
  <2>3. h = by_cid[c] => InFlight(calls[h]) /\ calls[h].cid = c
        BY DEF CidsMatchCalls
  <2>4. ~InFlight(Absent)
        BY DEF InFlight, Absent
  <2>5. by_cid'[c] = NoHash /\ (d # c => by_cid'[d] = by_cid[d])
        BY <1>1, AnswerIndex
  <2>6. calls'[h] = IF h = by_cid[c] THEN Absent ELSE calls[h]
        BY <1>1
  <2>7. QED
        BY <2>1, <2>2, <2>3, <2>4, <2>5, <2>6, NoEntryAssumption
<1>4. QED
      BY <1>1, <1>2, <1>3, AnswerIndex

\* An error re-queues the call that waits for it and forgets the cid.
LEMMA ErrIInv == ASSUME IInv, NEW c \in Cid, RecvErr(c) PROVE IInv'
<1> USE DEF IInv
<1>1. /\ calls' = [h \in Hash |-> IF h = by_cid[c] THEN Requeued(calls[h]) ELSE calls[h]]
      /\ by_cid' = [by_cid EXCEPT ![c] = NoHash]
      /\ Closed(c)
      BY DEF RecvErr, OnErr
<1>2. \A h \in Hash : /\ Requeued(calls[h]) \in Call
                      /\ ~InFlight(Requeued(calls[h]))
      BY RequeuedType DEF TypeOK, InFlight
<1>3. TypeOK'
      BY <1>1, <1>2, AnswerIndex DEF TypeOK
<1>4. CidsMatchCalls'
  <2> SUFFICES ASSUME NEW d \in Cid, NEW h \in Hash
               PROVE  by_cid'[d] = h <=> (InFlight(calls'[h]) /\ calls'[h].cid = d)
      BY DEF CidsMatchCalls
  <2>1. by_cid[d] = h <=> (InFlight(calls[h]) /\ calls[h].cid = d)
        BY DEF CidsMatchCalls
  <2>2. h # by_cid[c] => ~(InFlight(calls[h]) /\ calls[h].cid = c)
        BY DEF CidsMatchCalls
  <2>3. h = by_cid[c] => InFlight(calls[h]) /\ calls[h].cid = c
        BY DEF CidsMatchCalls
  <2>4. by_cid'[c] = NoHash /\ (d # c => by_cid'[d] = by_cid[d])
        BY <1>1, AnswerIndex
  <2>5. calls'[h] = IF h = by_cid[c] THEN Requeued(calls[h]) ELSE calls[h]
        BY <1>1
  <2>6. QED
        BY <1>2, <2>1, <2>2, <2>3, <2>4, <2>5, NoEntryAssumption
<1>5. QED
      BY <1>1, <1>3, <1>4, AnswerIndex

\* A promise keeps the attempt and its cid and restarts the clock.
LEMMA PromiseIInv ==
    ASSUME IInv, NEW c \in Cid, NEW t \in PromiseTimeouts, RecvPromise(c, t)
    PROVE  IInv'
<1> USE DEF IInv
<1>1. \A h \in Hash :
        /\ calls'[h] \in Call
        /\ InFlight(calls'[h]) = InFlight(calls[h])
        /\ calls'[h].cid = calls[h].cid
  <2> SUFFICES ASSUME NEW h \in Hash
               PROVE  /\ calls'[h] \in Call
                      /\ InFlight(calls'[h]) = InFlight(calls[h])
                      /\ calls'[h].cid = calls[h].cid
      OBVIOUS
  <2>1. calls[h] \in Call
        BY DEF TypeOK
  <2>2. CASE h = by_cid[c]
    <3>1. calls'[h] = Promised(calls[h], t)
          BY <2>2 DEF RecvPromise, OnPromise
    <3>2. InFlight(calls[h])
          BY <2>2 DEF CidsMatchCalls
    <3>3. t \in Nat
          BY TimeAssumption
    <3>4. QED
          BY <2>1, <3>1, <3>2, <3>3 DEF Call, CallState, InFlight, Promised
  <2>3. CASE h # by_cid[c]
        BY <2>1, <2>3 DEF RecvPromise, OnPromise
  <2>4. QED
        BY <2>2, <2>3
<1>2. calls' \in [Hash -> Call]
      BY <1>1 DEF RecvPromise, OnPromise
<1>3. TypeOK'
      BY <1>2 DEF TypeOK, RecvPromise, OnPromise
<1>4. CidsMatchCalls'
      BY <1>1 DEF CidsMatchCalls, RecvPromise, OnPromise
<1>5. AskedMatchesCids' /\ RepliesAreAsked'
      BY DEF RecvPromise, OnPromise, TypeOK, AskedMatchesCids, RepliesAreAsked
<1>6. QED
      BY <1>3, <1>4, <1>5

\* Wanting a call changes it only when it is absent.
LEMMA WantIInv == ASSUME IInv, NEW h \in Hash, Want(h) PROVE IInv'
<1> USE DEF IInv
<1>1. \A g \in Hash : calls'[g] = calls[g] \/ (~Live(calls[g]) /\ calls'[g] = Fresh)
      BY DEF Want, Wanted
<1>2. /\ ~InFlight(Fresh)
      /\ \A g \in Hash : InFlight(calls[g]) => Live(calls[g])
      BY DEF InFlight, Fresh, Live
<1>3. TypeOK'
  <2>1. calls' \in [Hash -> Call]
        BY <1>1, FreshType DEF TypeOK, Want, Wanted
  <2>2. QED
        BY <2>1 DEF TypeOK, Want, link
<1>4. CidsMatchCalls'
      BY <1>1, <1>2 DEF CidsMatchCalls, Want
<1>5. QED
      BY <1>3, <1>4 DEF AskedMatchesCids, RepliesAreAsked, Want, link

\* Retiring a call takes its cid, and no other, out of the index.
LEMMA DoneIInv == ASSUME IInv, NEW h \in Hash, Done(h) PROVE IInv'
<1> USE DEF IInv
<1>1. \A g \in Hash : calls'[g] = IF g = h THEN Absent ELSE calls[g]
      BY DEF Done, Retired
<1>2. ASSUME NEW c \in Cid
      PROVE  by_cid'[c] = IF by_cid[c] = h THEN NoHash ELSE by_cid[c]
      BY DEF Done, Unbound, CidsMatchCalls
<1>3. ~InFlight(Absent)
      BY DEF InFlight, Absent
<1>4. TypeOK'
  <2>1. calls' \in [Hash -> Call]
        BY <1>1, FreshType DEF TypeOK, Done, Retired
  <2>2. by_cid' \in [Cid -> Hash \cup {NoHash}]
        BY <1>2 DEF TypeOK, Done, Unbound
  <2>3. QED
        BY <2>1, <2>2 DEF TypeOK, Done, link
<1>5. CidsMatchCalls'
      BY <1>1, <1>2, <1>3, NoEntryAssumption DEF CidsMatchCalls
<1>6. AskedMatchesCids' /\ RepliesAreAsked'
      BY <1>2 DEF AskedMatchesCids, RepliesAreAsked, Done, link
<1>7. QED
      BY <1>4, <1>5, <1>6

\* Time passing changes no state and no cid.
LEMMA TickIInv == ASSUME IInv, Tick PROVE IInv'
<1> USE DEF IInv
<1>1. \A h \in Hash :
        /\ calls'[h] \in Call
        /\ InFlight(calls'[h]) = InFlight(calls[h])
        /\ calls'[h].cid = calls[h].cid
  <2> SUFFICES ASSUME NEW h \in Hash
               PROVE  /\ calls'[h] \in Call
                      /\ InFlight(calls'[h]) = InFlight(calls[h])
                      /\ calls'[h].cid = calls[h].cid
      OBVIOUS
  <2>1. calls[h] \in Call
        BY DEF TypeOK
  <2>2. calls'[h] = Aged(calls[h])
        BY DEF Tick
  <2>3. (IF calls[h].left = 0 THEN 0 ELSE calls[h].left - 1) \in Nat
        BY <2>1 DEF Call
  <2>4. QED
        BY <2>1, <2>2, <2>3 DEF Call, InFlight, Aged
<1>2. TypeOK'
  <2>1. calls' \in [Hash -> Call]
        BY <1>1 DEF Tick
  <2>2. QED
        BY <2>1 DEF TypeOK, Tick, link
<1>3. CidsMatchCalls'
      BY <1>1 DEF CidsMatchCalls, Tick
<1>4. QED
      BY <1>2, <1>3 DEF AskedMatchesCids, RepliesAreAsked, Tick, link

\* The gate answering, and the link losing an attempt, leave the queue alone.
LEMMA LinkIInv ==
    ASSUME IInv, NEW c \in Cid, Lose(c) \/ \E kind \in Reply : GateReplies(c, kind)
    PROVE  IInv'
<1> USE DEF IInv
<1>1. CASE Lose(c)
  <2>1. TypeOK'
        BY <1>1 DEF TypeOK, Lose, Closed, outbox
  <2>2. CidsMatchCalls'
        BY <1>1 DEF CidsMatchCalls, Lose, outbox
  <2>3. AskedMatchesCids' /\ RepliesAreAsked'
        BY <1>1 DEF TypeOK, Lose, Closed, outbox, AskedMatchesCids, RepliesAreAsked
  <2>4. QED
        BY <2>1, <2>2, <2>3
<1>2. CASE \E kind \in Reply : GateReplies(c, kind)
  <2>1. PICK kind \in Reply : GateReplies(c, kind)
        BY <1>2
  <2>2. TypeOK'
        BY <2>1 DEF TypeOK, GateReplies
  <2>3. CidsMatchCalls'
        BY <2>1 DEF CidsMatchCalls, GateReplies
  <2>4. AskedMatchesCids' /\ RepliesAreAsked'
        BY <2>1 DEF TypeOK, GateReplies, AskedMatchesCids, RepliesAreAsked
  <2>5. QED
        BY <2>2, <2>3, <2>4
<1>3. QED
      BY <1>1, <1>2

\* Every step of the queue, of its clock and of the link preserves the invariant.
LEMMA StepIInv == IInv /\ [Next]_vars => IInv'
<1> SUFFICES ASSUME IInv, [Next]_vars
             PROVE  IInv'
    OBVIOUS
<1>1. ASSUME NEW h \in Hash, Want(h) PROVE IInv'
      BY <1>1, WantIInv
<1>2. ASSUME NEW h \in Hash, Done(h) PROVE IInv'
      BY <1>2, DoneIInv
<1>3. CASE Pump
      BY <1>3, PumpIInv
<1>4. CASE Tick
      BY <1>4, TickIInv
<1>5. ASSUME NEW c \in Cid, NEW kind \in Reply, GateReplies(c, kind) PROVE IInv'
      BY <1>5, LinkIInv
<1>6. ASSUME NEW c \in Cid, RecvOk(c) PROVE IInv'
      BY <1>6, OkIInv
<1>7. ASSUME NEW c \in Cid, RecvErr(c) PROVE IInv'
      BY <1>7, ErrIInv
<1>8. ASSUME NEW c \in Cid, NEW t \in PromiseTimeouts, RecvPromise(c, t) PROVE IInv'
      BY <1>8, PromiseIInv
<1>9. ASSUME NEW c \in Cid, Lose(c) PROVE IInv'
      BY <1>9, LinkIInv
<1>10. CASE UNCHANGED vars
       BY <1>10 DEF vars, IInv, TypeOK, CidsMatchCalls, AskedMatchesCids, RepliesAreAsked
<1>11. QED
       BY <1>1, <1>2, <1>3, <1>4, <1>5, <1>6, <1>7, <1>8, <1>9, <1>10 DEF Next, Step

\* The inductive invariant holds in every reachable state of the queue.
THEOREM Invariance == Spec => []IInv
BY InitIInv, StepIInv, PTL DEF Spec

\* Every variable keeps its type.
THEOREM TypeCorrect == Spec => []TypeOK
BY Invariance, PTL DEF IInv

\* The index of cids and the calls in flight are always the same relation:
\* an answer finds the one call that waits for it, or nothing.
THEOREM CidsConsistent == Spec => []CidsMatchCalls
BY Invariance, PTL DEF IInv

-----------------------------------------------------------------------------

\* Only the pump puts an attempt on the link, and only for a call that is due.
LEMMA OnlyPumpAsks ==
    ASSUME IInv, [Next]_vars, NEW h \in Hash, NEW c \in Cid,
           asked[c] = NoHash, asked'[c] = h
    PROVE  Pump /\ h \in Due
<1>1. Pump
  <2>1. asked'[c] # asked[c]
        BY NoEntryAssumption
  <2>2. \A d \in Cid : Closed(d) => asked'[c] \in {asked[c], NoHash}
        BY DEF Closed, IInv, TypeOK
  <2>3. QED
        BY <2>1, <2>2 DEF Next, Step, vars, link, Want, Done, Tick, GateReplies,
           RecvOk, RecvErr, RecvPromise, Lose
<1>2. PICK mint \in [Due -> FreeCid] :
        asked' = [d \in Cid |-> IF \E g \in Due : mint[g] = d
                               THEN CHOOSE g \in Due : mint[g] = d
                               ELSE asked[d]]
      BY <1>1 DEF Pump
<1>3. \E g \in Due : mint[g] = c
      BY <1>2, NoEntryAssumption
<1>4. QED
      BY <1>1, <1>2, <1>3

\* A call is never sent while an attempt of it is still waited for, however
\* wants, sweeps, answers and time interleave.
THEOREM AtMostOneAttempt == Spec => SentOnceWhileInFlight
<1>1. ASSUME IInv, [Next]_vars, NEW h \in Hash, NEW c \in Cid,
             asked[c] = NoHash, asked'[c] = h, NEW d \in Cid
      PROVE  by_cid[d] # h
  <2>1. h \in Due
        BY <1>1, OnlyPumpAsks
  <2>2. ~InFlight(calls[h])
        BY <1>1, <2>1, SweptType DEF IInv
  <2>3. QED
        BY <1>1, <2>2 DEF IInv, CidsMatchCalls
<1>2. IInv /\ [Next]_vars =>
        [\A h \in Hash, c \in Cid :
            (asked[c] = NoHash /\ asked'[c] = h) => \A d \in Cid : by_cid[d] # h]_vars
      BY <1>1
<1>3. QED
      BY <1>2, Invariance, PTL DEF Spec, SentOnceWhileInFlight

\* An answer retires a call only as the confirmation of its current attempt:
\* stale and foreign answers retire nothing.
THEOREM OwnAckOnly == Spec => OnlyOwnAckRetires
<1>1. ASSUME IInv, [Next]_vars, NEW h \in Hash, NEW c \in Cid,
             asked[c] # NoHash, asked'[c] = NoHash, Live(calls[h]), ~Live(calls'[h])
      PROVE  InFlight(calls[h]) /\ calls[h].cid = c /\ asked[c] = h
  <2>1. \A d \in Cid : Closed(d) => d = c
        BY <1>1 DEF Closed, IInv, TypeOK
  <2>2. ~Pump
    <3>1. SUFFICES ASSUME Pump
                   PROVE  FALSE
          OBVIOUS
    <3>2. PICK mint \in [Due -> FreeCid] :
            asked' = [d \in Cid |-> IF \E g \in Due : mint[g] = d
                                   THEN CHOOSE g \in Due : mint[g] = d
                                   ELSE asked[d]]
          BY <3>1 DEF Pump
    <3>3. \E g \in Due : mint[g] = c
          BY <1>1, <3>2
    <3>4. asked'[c] \in Due
          BY <3>2, <3>3
    <3>5. QED
          BY <1>1, <3>4, NoEntryAssumption DEF Due
  <2>3. ~Live(calls'[h]) /\ calls'[h] # calls[h]
        BY <1>1
  <2>4. ASSUME NEW d \in Cid, RecvErr(d)
        PROVE  FALSE
    <3>1. calls'[h] \in {calls[h], Requeued(calls[h])}
          BY <2>4 DEF RecvErr, OnErr
    <3>2. Live(Requeued(calls[h]))
          BY <1>1, RequeuedType DEF Live, IInv, TypeOK
    <3>3. QED
          BY <2>3, <3>1, <3>2
  <2>5. PICK d \in Cid : RecvOk(d)
        BY <1>1, <2>2, <2>3, <2>4 DEF Next, Step, vars, link, outbox, Want, Done, Tick,
           GateReplies, RecvPromise, Lose
  <2>6. d = c
        BY <2>1, <2>5 DEF RecvOk
  <2>7. by_cid[c] = h
        BY <2>3, <2>5, <2>6 DEF RecvOk, OnOk, Retired
  <2>8. QED
        BY <1>1, <2>7, NoEntryAssumption DEF IInv, CidsMatchCalls, AskedMatchesCids
<1>2. IInv /\ [Next]_vars =>
        [\A h \in Hash, c \in Cid :
            (/\ asked[c] # NoHash /\ asked'[c] = NoHash
             /\ Live(calls[h]) /\ ~Live(calls'[h]))
                => (InFlight(calls[h]) /\ calls[h].cid = c /\ asked[c] = h)]_vars
      BY <1>1
<1>3. QED
      BY <1>2, Invariance, PTL DEF Spec, OnlyOwnAckRetires

-----------------------------------------------------------------------------
(* The refinement of CallContract.                                         *)

OpenCalls == {h \in Hash : Live(calls[h])}
Attempt(call) == IF InFlight(call) THEN call.cid ELSE NoCid
CurrentAttempts == [h \in Hash |-> Attempt(calls[h])]

\* The contract's current attempts are the index read the other way round.
LEMMA HoldersOfCid ==
    ASSUME IInv, NEW c \in Cid, NEW h \in Hash
    PROVE  CurrentAttempts[h] = c <=> by_cid[c] = h
BY NoEntryAssumption DEF CurrentAttempts, Attempt, IInv, CidsMatchCalls

\* A pump that sweeps and sends is one round of the contract.
LEMMA PumpIsRound ==
    ASSUME IInv, Pump, NEW given_up, NEW started, given_up = Expired, started = Due
    PROVE  Contract!Round(given_up, started)
<1>1. PICK mint \in [Due -> FreeCid] :
        /\ \A g, h \in Due : mint[g] = mint[h] => g = h
        /\ calls' = [h \in Hash |-> IF h \in Due THEN Sent(Swept[h], mint[h]) ELSE Swept[h]]
        /\ asked' = [c \in Cid |-> IF \E h \in Due : mint[h] = c
                                   THEN CHOOSE h \in Due : mint[h] = c
                                   ELSE asked[c]]
        /\ UNCHANGED <<reply, promised>>
      BY DEF Pump
<1>2. mint \in [Due -> {c \in Cid : asked[c] = NoHash}]
      BY <1>1 DEF FreeCid
<1>3. ASSUME NEW h \in Hash
      PROVE  /\ Live(calls'[h]) <=> Live(calls[h])
             /\ Attempt(calls'[h]) = IF h \in Due THEN mint[h]
                                    ELSE IF h \in Expired THEN NoCid
                                    ELSE Attempt(calls[h])
             /\ h \in Due => Live(calls[h]) /\ Attempt(calls[h]) = NoCid
  <2>1. /\ calls[h] \in Call /\ Swept[h] \in Call
        /\ h \in Expired => InFlight(calls[h]) /\ h \notin Due
        /\ h \in Due => Swept[h].state = "queued" /\ ~InFlight(calls[h])
        BY SweptType DEF IInv, TypeOK
  <2>2. CASE h \in Due
    <3>1. mint[h] \in Cid
          BY <1>2, <2>2
    <3>2. calls'[h] = Sent(Swept[h], mint[h])
          BY <1>1, <2>2
    <3>3. InFlight(calls'[h]) /\ calls'[h].cid = mint[h]
          BY <2>1, <3>1, <3>2, SentType
    <3>4. Swept[h] = calls[h]
          BY <2>1, <2>2 DEF Swept
    <3>5. QED
          BY <2>1, <2>2, <3>3, <3>4 DEF Live, InFlight, Attempt
  <2>3. CASE h \in Expired
    <3>1. calls'[h] = Requeued(calls[h])
          BY <1>1, <2>1, <2>3 DEF Swept
    <3>2. calls'[h].state = "queued"
          BY <2>1, <3>1, RequeuedType
    <3>3. QED
          BY <2>1, <2>3, <3>2 DEF Live, InFlight, Attempt
  <2>4. CASE h \notin Due /\ h \notin Expired
        BY <1>1, <2>4 DEF Swept
  <2>5. QED
        BY <2>2, <2>3, <2>4
<1>4. OpenCalls' = OpenCalls
      BY <1>3 DEF OpenCalls
<1>5. CurrentAttempts' = [h \in Hash |-> IF h \in Due THEN mint[h]
                                        ELSE IF h \in Expired THEN NoCid
                                        ELSE CurrentAttempts[h]]
      BY <1>3 DEF CurrentAttempts
<1>6. Due \subseteq OpenCalls /\ \A h \in Due : CurrentAttempts[h] = NoCid
      BY <1>3 DEF OpenCalls, CurrentAttempts, Due
<1>7. /\ started \subseteq OpenCalls
      /\ \A h \in started : CurrentAttempts[h] = NoCid
      /\ CurrentAttempts' = [h \in Hash |-> IF h \in started THEN mint[h]
                                          ELSE IF h \in given_up THEN NoCid
                                          ELSE CurrentAttempts[h]]
      /\ mint \in [started -> {c \in Cid : asked[c] = NoHash}]
      /\ \A g, h \in started : mint[g] = mint[h] => g = h
      /\ asked' = [c \in Cid |-> IF \E h \in started : mint[h] = c
                                 THEN CHOOSE h \in started : mint[h] = c
                                 ELSE asked[c]]
      BY <1>1, <1>2, <1>5, <1>6
<1>8. QED
      BY <1>1, <1>4, <1>7 DEF Contract!Round, OpenCalls, CurrentAttempts, Attempt

\* The queue's maps refine the contract: each step is a step of it or none.
THEOREM Refinement == Spec => ImplementsContract
<1>1. Init => Contract!Init
      BY DEF Init, Contract!Init, Absent, Live, InFlight
<1>2. IInv /\ [Next]_vars => [Contract!Next]_(Contract!vars)
  <2> SUFFICES ASSUME IInv, [Next]_vars
               PROVE  [Contract!Next]_(Contract!vars)
      OBVIOUS
  <2> USE DEF OpenCalls, CurrentAttempts, Attempt
  <2>1. ASSUME NEW h \in Hash, Want(h) PROVE Contract!Declare(h)
    <3>1. \A g \in Hash :
            /\ Live(calls'[g]) <=> Live(calls[g]) \/ g = h
            /\ Attempt(calls'[g]) = Attempt(calls[g])
          BY <2>1 DEF Want, Wanted, Live, InFlight, Fresh
    <3>2. OpenCalls' = OpenCalls \cup {h} /\ CurrentAttempts' = CurrentAttempts
          BY <3>1
    <3>3. QED
          BY <2>1, <3>2 DEF Contract!Declare, Contract!link, Want, link
  <2>2. ASSUME NEW h \in Hash, Done(h) PROVE Contract!Withdraw(h)
    <3>1. \A g \in Hash :
            /\ Live(calls'[g]) <=> Live(calls[g]) /\ g # h
            /\ Attempt(calls'[g]) = IF g = h THEN NoCid ELSE Attempt(calls[g])
          BY <2>2 DEF Done, Retired, Live, InFlight, Absent
    <3>2. /\ OpenCalls' = OpenCalls \ {h}
          /\ CurrentAttempts' = [CurrentAttempts EXCEPT ![h] = NoCid]
          BY <3>1
    <3>3. QED
          BY <2>2, <3>2 DEF Contract!Withdraw, Contract!link, Done, link
  <2>3. CASE Pump
    <3>1. PICK given_up \in SUBSET Hash : given_up = Expired
          BY DEF Expired
    <3>2. PICK started \in SUBSET Hash : started = Due
          BY DEF Due
    <3> HIDE DEF OpenCalls, CurrentAttempts, Attempt
    <3>3. Contract!Round(given_up, started)
          BY <2>3, <3>1, <3>2, PumpIsRound
    <3>4. Contract!Next
          BY <3>3, Zenon DEF Contract!Next
    <3>5. QED
          BY <3>4
  <2>4. CASE Tick
    <3>1. \A g \in Hash : /\ Live(calls'[g]) <=> Live(calls[g])
                          /\ Attempt(calls'[g]) = Attempt(calls[g])
          BY <2>4 DEF Tick, Aged, Live, InFlight
    <3>2. OpenCalls' = OpenCalls /\ CurrentAttempts' = CurrentAttempts
          BY <3>1
    <3>3. QED
          BY <2>4, <3>2 DEF Contract!vars, Tick, link
  <2>5. ASSUME NEW c \in Cid, NEW kind \in Reply, GateReplies(c, kind)
        PROVE  Contract!Reply(c, kind)
        BY <2>5 DEF GateReplies, Contract!Reply
  <2>6. ASSUME NEW c \in Cid, RecvOk(c) PROVE Contract!Confirmed(c)
    <3>1. \A g \in Hash :
            /\ Live(calls'[g]) <=> Live(calls[g]) /\ CurrentAttempts[g] # c
            /\ Attempt(calls'[g]) = IF CurrentAttempts[g] = c THEN NoCid
                                   ELSE Attempt(calls[g])
          BY <2>6, HoldersOfCid DEF RecvOk, OnOk, Retired, Live, InFlight, Absent
    <3>2. /\ OpenCalls' = OpenCalls \ {g \in Hash : CurrentAttempts[g] = c}
          /\ CurrentAttempts' = [g \in Hash |-> IF CurrentAttempts[g] = c THEN NoCid
                                                ELSE CurrentAttempts[g]]
          BY <3>1
    <3>3. QED
          BY <2>6, <3>2 DEF Contract!Confirmed, Contract!Closed, Contract!Holders,
             Contract!Released, RecvOk, Closed
  <2>7. ASSUME NEW c \in Cid, RecvErr(c) PROVE Contract!Refused(c)
    <3>1. \A g \in Hash : InFlight(calls[g]) => Live(calls[g])
          BY DEF Live, InFlight
    <3>2. \A g \in Hash : g = by_cid[c] => InFlight(calls[g])
          BY <2>7 DEF IInv, CidsMatchCalls
    <3>3. \A g \in Hash : Live(Requeued(calls[g])) /\ ~InFlight(Requeued(calls[g]))
          BY RequeuedType DEF Live, InFlight, IInv, TypeOK
    <3>4. \A g \in Hash :
            /\ Live(calls'[g]) <=> Live(calls[g])
            /\ Attempt(calls'[g]) = IF CurrentAttempts[g] = c THEN NoCid
                                   ELSE Attempt(calls[g])
          BY <2>7, <3>1, <3>2, <3>3, HoldersOfCid DEF RecvErr, OnErr
    <3>5. /\ OpenCalls' = OpenCalls
          /\ CurrentAttempts' = [g \in Hash |-> IF CurrentAttempts[g] = c THEN NoCid
                                                ELSE CurrentAttempts[g]]
          BY <3>4
    <3>6. QED
          BY <2>7, <3>5 DEF Contract!Refused, Contract!Closed, Contract!Released,
             RecvErr, Closed
  <2>8. ASSUME NEW c \in Cid, NEW t \in PromiseTimeouts, RecvPromise(c, t)
        PROVE  Contract!Promised(c)
    <3>1. \A g \in Hash : g = by_cid[c] => InFlight(calls[g])
          BY <2>8 DEF IInv, CidsMatchCalls
    <3>2. \A g \in Hash : /\ Live(calls'[g]) <=> Live(calls[g])
                          /\ Attempt(calls'[g]) = Attempt(calls[g])
          BY <2>8, <3>1 DEF RecvPromise, OnPromise, Promised, Live, InFlight
    <3>3. OpenCalls' = OpenCalls /\ CurrentAttempts' = CurrentAttempts
          BY <3>2
    <3>4. QED
          BY <2>8, <3>3 DEF Contract!Promised, RecvPromise
  <2>9. ASSUME NEW c \in Cid, Lose(c) PROVE Contract!Lost(c)
        BY <2>9 DEF Lose, Closed, outbox, Contract!Lost, Contract!Closed
  <2>10. CASE UNCHANGED vars
         BY <2>10 DEF vars, Contract!vars
  <2>11. QED
         BY <2>1, <2>2, <2>3, <2>4, <2>5, <2>6, <2>7, <2>8, <2>9, <2>10
            DEF Next, Step, Contract!Next, Reply
<1>3. QED
      BY <1>1, <1>2, Invariance, PTL DEF Spec, Contract!Spec, ImplementsContract
-----------------------------------------------------------------------------
\* The pace of the retries.

\* What is left of a queued call's wait and what it has waited already make up
\* the back-off its failures, counted from the outside, call for.
Paced(h) ==
    /\ failed[h] = calls[h].retry
    /\ ~Live(calls[h]) => calls[h].retry = 0
    /\ quiet[h] \in 0..Long
    /\ calls[h].state = "queued" /\ failed[h] > 0 =>
        Backoff(failed[h]) <= quiet[h] + calls[h].left

PaceInv == \A h \in Hash : Paced(h)

\* What a step other than a tick can do to a call.
LEMMA CallSteps ==
    ASSUME IInv, Step, NEW h \in Hash
    PROVE  \/ calls'[h] = calls[h]
           \/ calls'[h] = Absent
           \/ ~Live(calls[h]) /\ calls'[h] = Fresh
           \/ InFlight(calls[h]) /\ calls'[h] = Requeued(calls[h])
           \/ InFlight(calls[h]) /\ \E t : calls'[h] = Promised(calls[h], t)
           \/ calls[h].state = "queued" /\ \E c : calls'[h] = Sent(calls[h], c)
<1>1. \A c \in Cid : h = by_cid[c] => InFlight(calls[h])
  BY DEF IInv, CidsMatchCalls
<1>2. ASSUME NEW g \in Hash, Want(g) \/ Done(g) PROVE calls'[h] \in {calls[h], Absent, Fresh} /\ (calls'[h] = Fresh => ~Live(calls[h]) \/ calls'[h] = calls[h])
  BY <1>2 DEF Want, Done, Wanted, Retired, Fresh, Absent
<1>3. CASE Pump
  <2>1. calls'[h] = Swept[h] \/ (h \in Due /\ \E c : calls'[h] = Sent(Swept[h], c))
    BY <1>3 DEF Pump
  <2>2. CASE h \in Expired
    <3>1. Swept[h] = Requeued(calls[h]) /\ InFlight(calls[h]) /\ h \notin Due
      BY <2>2, SweptType DEF Swept, IInv
    <3> QED
      BY <2>1, <3>1
  <2>3. CASE h \notin Expired
    <3>1. Swept[h] = calls[h]
      BY <2>3 DEF Swept
    <3>2. h \in Due => calls[h].state = "queued"
      BY <3>1 DEF Due
    <3> QED
      BY <2>1, <3>1, <3>2
  <2> QED
    BY <2>2, <2>3
<1>4. ASSUME NEW c \in Cid, NEW kind \in Reply, GateReplies(c, kind) PROVE calls' = calls
  BY <1>4 DEF GateReplies
<1>5. ASSUME NEW c \in Cid, RecvOk(c) PROVE calls'[h] \in {calls[h], Absent}
  BY <1>5 DEF RecvOk, OnOk, Retired
<1>6. ASSUME NEW c \in Cid, RecvErr(c)
      PROVE  calls'[h] = calls[h] \/ (InFlight(calls[h]) /\ calls'[h] = Requeued(calls[h]))
  BY <1>1, <1>6 DEF RecvErr, OnErr
<1>7. ASSUME NEW c \in Cid, NEW t \in PromiseTimeouts, RecvPromise(c, t)
      PROVE  calls'[h] = calls[h] \/ (InFlight(calls[h]) /\ calls'[h] = Promised(calls[h], t))
  BY <1>1, <1>7 DEF RecvPromise, OnPromise
<1>8. ASSUME NEW c \in Cid, Lose(c) PROVE calls' = calls
  BY <1>8 DEF Lose, outbox
<1> QED
  BY <1>2, <1>3, <1>4, <1>5, <1>6, <1>7, <1>8 DEF Step

LEMMA StepPaced ==
    ASSUME IInv, PaceInv, Step, Observe(0), NEW h \in Hash
    PROVE  Paced(h)'
<1>1. /\ failed'[h] = IF ~Live(calls'[h]) THEN 0
                      ELSE IF Fails(h) THEN Least(failed[h] + 1, MaxShift) ELSE failed[h]
      /\ quiet'[h] = IF Fails(h) THEN 0 ELSE Least(quiet[h] + 0, Long)
  BY DEF Observe
<1>2. /\ calls[h] \in Call /\ failed[h] \in 0..MaxShift /\ quiet[h] \in 0..Long
      /\ failed[h] = calls[h].retry /\ (~Live(calls[h]) => calls[h].retry = 0)
      /\ Long \in Nat /\ MaxShift \in 1..8
  BY TimeAssumption, LongAssumption DEF PaceInv, Paced, IInv, TypeOK, Call
<1>3. Least(quiet[h] + 0, Long) = quiet[h]
  BY <1>2 DEF Least
<1>4. CASE calls'[h] = calls[h]
  <2>1. ~Fails(h)
    BY <1>4 DEF Fails, InFlight
  <2> QED
    BY <1>1, <1>2, <1>3, <1>4, <2>1 DEF PaceInv, Paced
<1>5. CASE calls'[h] = Absent
  BY <1>1, <1>2, <1>3, <1>5 DEF Paced, Absent, Live, Fails
<1>6. CASE ~Live(calls[h]) /\ calls'[h] = Fresh
  <2>1. ~Fails(h)
    BY <1>6 DEF Fails, InFlight, Live
  <2> QED
    BY <1>1, <1>2, <1>3, <1>6, <2>1 DEF Paced, Fresh, Live
<1>7. CASE InFlight(calls[h]) /\ calls'[h] = Requeued(calls[h])
  <2> DEFINE retry == Least(calls[h].retry + 1, MaxShift)
  <2>1. /\ calls'[h].state = "queued" /\ calls'[h].retry = retry /\ calls'[h].left = Backoff(retry)
    BY <1>7 DEF Requeued
  <2>2. Fails(h) /\ Live(calls'[h])
    BY <1>7, <2>1 DEF Fails, Live
  <2>3. retry \in 0..MaxShift /\ failed'[h] = retry /\ quiet'[h] = 0
    BY <1>1, <1>2, <2>2 DEF Least, Call
  <2>4. Backoff(retry) \in Nat
    BY <2>3, BackoffType
  <2> HIDE DEF retry
  <2> QED
    BY <1>2, <2>1, <2>2, <2>3, <2>4 DEF Paced
<1>8. CASE InFlight(calls[h]) /\ \E t : calls'[h] = Promised(calls[h], t)
  <2>1. calls'[h].state = "awaiting" /\ calls'[h].retry = calls[h].retry
    BY <1>8 DEF Promised
  <2>2. ~Fails(h) /\ Live(calls'[h])
    BY <2>1 DEF Fails, Live
  <2> QED
    BY <1>1, <1>2, <1>3, <2>1, <2>2 DEF Paced
<1>9. CASE calls[h].state = "queued" /\ \E c : calls'[h] = Sent(calls[h], c)
  <2>1. calls'[h].state = "sent" /\ calls'[h].retry = calls[h].retry
    BY <1>9 DEF Sent
  <2>2. ~Fails(h) /\ Live(calls'[h])
    BY <2>1 DEF Fails, Live
  <2> QED
    BY <1>1, <1>2, <1>3, <2>1, <2>2 DEF Paced
<1> QED
  BY <1>4, <1>5, <1>6, <1>7, <1>8, <1>9, CallSteps

\* Time moves from what is left of the wait to what has passed of it.
LEMMA TickPaced ==
    ASSUME IInv, PaceInv, Tick, Observe(1), NEW h \in Hash
    PROVE  Paced(h)'
<1>1. /\ failed'[h] = IF ~Live(calls'[h]) THEN 0
                      ELSE IF Fails(h) THEN Least(failed[h] + 1, MaxShift) ELSE failed[h]
      /\ quiet'[h] = IF Fails(h) THEN 0 ELSE Least(quiet[h] + 1, Long)
  BY DEF Observe
<1>2. /\ calls[h] \in Call /\ failed[h] \in 0..MaxShift /\ quiet[h] \in 0..Long
      /\ failed[h] = calls[h].retry /\ (~Live(calls[h]) => calls[h].retry = 0)
      /\ Long \in Nat /\ BackoffCap \in Nat /\ BackoffCap < Long
  BY TimeAssumption, LongAssumption DEF PaceInv, Paced, IInv, TypeOK, Call
<1>3. /\ calls'[h].state = calls[h].state /\ calls'[h].retry = calls[h].retry
      /\ calls'[h].left = IF calls[h].left = 0 THEN 0 ELSE calls[h].left - 1
      /\ calls[h].left \in Nat
  BY <1>2 DEF Tick, Aged, Call
<1>4. ~Fails(h) /\ (Live(calls'[h]) <=> Live(calls[h]))
  BY <1>3 DEF Fails, InFlight, Live
<1>5. failed'[h] = failed[h] /\ quiet'[h] \in 0..Long /\ (quiet'[h] = quiet[h] + 1 \/ quiet'[h] = Long)
  BY <1>1, <1>2, <1>4 DEF Least
<1>6. Backoff(failed[h]) \in Nat /\ Backoff(failed[h]) <= BackoffCap
  <2>1. Backoff(failed[h]) \in Nat
    BY <1>2, BackoffType
  <2>2. \A a \in Nat : Least(a, BackoffCap) <= BackoffCap
    BY <1>2 DEF Least
  <2>3. BackoffBase * Pow2[Least(failed[h], MaxShift) + 1] \in Nat
    <3>1. Least(failed[h], MaxShift) + 1 \in 1..9
      BY <1>2, TimeAssumption DEF Least
    <3>2. Pow2[Least(failed[h], MaxShift) + 1] \in Nat
      BY <3>1 DEF Pow2
    <3>3. \A a, b \in Nat : a * b \in Nat
      OBVIOUS
    <3> QED
      BY <3>2, <3>3, TimeAssumption
  <2> QED
    BY <2>1, <2>2, <2>3 DEF Backoff
<1>7. ASSUME calls[h].state = "queued", failed[h] > 0
      PROVE  Backoff(failed[h]) <= quiet'[h] + calls'[h].left
  <2>1. Backoff(failed[h]) <= quiet[h] + calls[h].left
    BY <1>7 DEF PaceInv, Paced
  <2> QED
    BY <1>2, <1>3, <1>5, <1>6, <2>1
<1> QED
  BY <1>2, <1>3, <1>4, <1>5, <1>7 DEF Paced

THEOREM Pacing == PacedSpec => [](IInv /\ PaceInv)
<1>1. PacedInit => IInv /\ PaceInv
  <2> SUFFICES ASSUME PacedInit PROVE IInv /\ PaceInv
    OBVIOUS
  <2>1. IInv
    BY InitIInv DEF PacedInit
  <2>2. \A h \in Hash : calls[h] = Absent /\ failed[h] = 0 /\ quiet[h] = Long
    BY DEF PacedInit, Init
  <2> QED
    BY <2>1, <2>2, LongAssumption DEF PaceInv, Paced, Absent, Live
<1>2. IInv /\ PaceInv /\ [PacedNext]_pacedVars => (IInv /\ PaceInv)'
  <2> SUFFICES ASSUME IInv, PaceInv, [PacedNext]_pacedVars PROVE (IInv /\ PaceInv)'
    OBVIOUS
  <2>1. IInv'
    BY StepIInv DEF PacedNext, Next, pacedVars
  <2>2. CASE Step /\ Observe(0)
    BY <2>1, <2>2, StepPaced DEF PaceInv
  <2>3. CASE Tick /\ Observe(1)
    BY <2>1, <2>3, TickPaced DEF PaceInv
  <2>4. CASE UNCHANGED pacedVars
    BY <2>1, <2>4 DEF pacedVars, vars, PaceInv, Paced
  <2> QED
    BY <2>2, <2>3, <2>4 DEF PacedNext
<1> QED
  BY <1>1, <1>2, PTL DEF PacedSpec

\* backoff(), on_err() and the sweep: whatever mix of errors and timeouts a call
\* meets, it is sent again no sooner than the back-off of its failures.
THEOREM RetriesArePaced == PacedSpec => RetriesBackOff
<1>1. ASSUME IInv, PaceInv, [PacedNext]_pacedVars, NEW h \in Hash, NEW c \in Cid,
             asked[c] = NoHash, asked'[c] = h, failed[h] > 0
      PROVE  quiet[h] >= Backoff(failed[h])
  <2>1. h \in Due
    BY <1>1, OnlyPumpAsks DEF PacedNext, Next, pacedVars
  <2>2. h \notin Expired /\ calls[h] \in Call
    BY <1>1, <2>1, SweptType DEF IInv, TypeOK
  <2>3. calls[h].state = "queued" /\ calls[h].left = 0
    BY <2>1, <2>2 DEF Due, Swept
  <2>4. quiet[h] \in Nat /\ Backoff(failed[h]) \in Nat /\ Backoff(failed[h]) <= quiet[h] + calls[h].left
    <3>1. failed[h] \in 0..MaxShift
      BY <1>1, <2>2 DEF PaceInv, Paced, Call
    <3> QED
      BY <1>1, <2>3, <3>1, BackoffType, LongAssumption DEF PaceInv, Paced
  <2> QED
    BY <2>3, <2>4
<1>2. IInv /\ PaceInv /\ [PacedNext]_pacedVars =>
        [\A h \in Hash, c \in Cid :
            (asked[c] = NoHash /\ asked'[c] = h /\ failed[h] > 0)
                => quiet[h] >= Backoff(failed[h])]_pacedVars
  BY <1>1
<1> QED
  BY <1>2, Pacing, PTL DEF PacedSpec, RetriesBackOff
=============================================================================
