------------------------------ MODULE ClockSync ------------------------------
(***************************************************************************)
(* The clock discipline: ClockSync (src/core/src/clock.rs) and the three   *)
(* handlers of Client that feed it (sample_clock, note_drift, apply_inner).*)
(*                                                                         *)
(* Every time is kept relative to the client's monotonic clock perf_ms: a  *)
(* capture is server_ms - perf_ms, the estimate is server_now_ms - perf_ms *)
(* and theta is what the gate's wall clock really is, minus perf_ms.  The  *)
(* code only ever uses the two clocks through these differences.           *)
(*                                                                         *)
(* A unit of time is a small fraction of a millisecond, so that the        *)
(* halvings of note_sample are exact: MaxSamples samples halve at most     *)
(* MaxSamples times, and the constants are multiples of 2^MaxSamples.      *)
(***************************************************************************)
EXTENDS Integers, Sequences

CONSTANTS
  Window,          \* SAMPLE_WINDOW
  StaleMs,         \* STALE_SAMPLE_MS
  DelayInit,       \* RUNNING_DELAY_INIT_MS
  ClientDelayInit, ClientDelayMin, ClientDelayMax,
  Latencies,       \* how long a frame may take one way, queueing included
  Queued,          \* how late a heartbeat may be when it queued on the socket
  AheadTol, BehindTol, \* the drift the gate lets pass (external)
  LateDrift,       \* whether the gate may reject for drift a call it promised (external)
  ServerSteps,     \* by how much the gate's own clock may be stepped
  MaxSamples, MaxCalls, MaxSteps

ASSUME ClockAssumption ==
  /\ {Window, MaxSamples, MaxCalls, MaxSteps} \subseteq Nat /\ Window > 1
  /\ {StaleMs, DelayInit, ClientDelayInit, AheadTol, BehindTol} \subseteq Nat
  /\ ClientDelayMin \in Nat /\ ClientDelayMax \in Nat
  /\ ClientDelayMin <= ClientDelayInit /\ ClientDelayInit <= ClientDelayMax
  /\ Latencies \subseteq Nat /\ Queued \subseteq Nat /\ ServerSteps \subseteq Nat
  /\ LateDrift \in BOOLEAN
  /\ \A x \in {DelayInit, ClientDelayInit} \cup Latencies \cup Queued :
       x % (2 ^ MaxSamples) = 0

VARIABLES
  theta,          \* the gate's clock (external)
  captures,       \* the window, oldest first
  running_delta, running_delay, client_delay,
  calls,          \* calls on the wire, oldest first
  samples, sent, steps   \* bounds

clockVars == <<captures, running_delta, running_delay, client_delay>>
syncVars == <<theta, clockVars, calls, samples, sent, steps>>

Abs(x) == IF x < 0 THEN -x ELSE x
Clamp(x) == IF x < ClientDelayMin THEN ClientDelayMin
            ELSE IF x > ClientDelayMax THEN ClientDelayMax ELSE x

-----------------------------------------------------------------------------
(* The freshest capture of a window; Option::None is an empty window.      *)
Anchor(w) == CHOOSE c \in {w[i] : i \in DOMAIN w} :
               \A i \in DOMAIN w : w[i] <= c

(* server_now_ms: only meaningful once a sample has landed.                *)
IsSynced == captures # << >>
ServerNow == Anchor(captures) + running_delta - client_delay

Trim(w) == IF Len(w) > Window THEN SubSeq(w, Len(w) - Window + 1, Len(w)) ELSE w

(* A normal error moves the correction half its way.                       *)
Feedback(rd, delta) == rd - delta \div 2

(* note_sample on a clock whose window is w and whose correction is rd: a  *)
(* stale sample changes nothing; a spike moves the tracked jitter, any     *)
(* other error the correction; what is not stale joins the window.         *)
NoteSample(w, rd, sample) ==
  LET extrapolation == Anchor(w)
      delta == extrapolation + rd - sample
      spike == 2 * Abs(delta) > running_delay
      jitter == running_delay + (Abs(delta) - running_delay) \div 2
  IN  IF w = << >>
      THEN /\ captures' = <<sample>>
           /\ running_delta' = rd
           /\ UNCHANGED <<running_delay, client_delay>>
      ELSE IF extrapolation - sample > StaleMs
      THEN /\ captures' = w /\ running_delta' = rd
           /\ UNCHANGED <<running_delay, client_delay>>
      ELSE /\ captures' = Trim(Append(w, sample))
           /\ IF spike
              THEN /\ running_delay' = jitter
                   /\ client_delay' = Clamp(2 * jitter)
                   /\ running_delta' = rd
              ELSE /\ running_delta' = Feedback(rd, delta)
                   /\ UNCHANGED <<running_delay, client_delay>>

SampleClock(sample) == NoteSample(captures, running_delta, sample)

-----------------------------------------------------------------------------
ClockInit ==
  /\ theta = 0
  /\ captures = << >>
  /\ running_delta = 0
  /\ running_delay = DelayInit
  /\ client_delay = ClientDelayInit
  /\ calls = << >>
  /\ samples = 0 /\ sent = 0 /\ steps = 0

CanSample == samples < MaxSamples /\ samples' = samples + 1

(* A heartbeat lands, or one that queued while the client was idle.        *)
Time(late) ==
  /\ CanSample
  /\ SampleClock(theta - late)
  /\ UNCHANGED <<theta, calls, sent, steps>>

(* A call is stamped with the estimate; cid() records the stamp.           *)
Send ==
  /\ IsSynced /\ sent < MaxCalls
  /\ calls' = Append(calls, [stamp |-> ServerNow, recorded |-> TRUE])
  /\ sent' = sent + 1
  /\ UNCHANGED <<theta, clockVars, samples, steps>>

(* The gate judges a stamp on a call that took up to reach it (external).  *)
Drift(call, up) == call.stamp - (theta + up)
Rejected(call, up) == Drift(call, up) > AheadTol \/ -Drift(call, up) > BehindTol

Accepts(call, up) == ~call.recorded \/ ~Rejected(call, up)
Refuses(call, up) == Rejected(call, up) /\ (call.recorded \/ LateDrift)

(* CallOk; the reply is a sample.                                          *)
CallOk(up, down) ==
  /\ calls # << >> /\ Accepts(Head(calls), up)
  /\ CanSample
  /\ SampleClock(theta - down)
  /\ calls' = Tail(calls)
  /\ UNCHANGED <<theta, sent, steps>>

(* CallPromise: a sample too, and the stamp of the call is forgotten.      *)
CallPromise(up, down) ==
  /\ \E i \in DOMAIN calls :
       /\ calls[i].recorded /\ ~Rejected(calls[i], up)
       /\ calls' = [calls EXCEPT ![i].recorded = FALSE]
  /\ CanSample
  /\ SampleClock(theta - down)
  /\ UNCHANGED <<theta, sent, steps>>

\* Mutant: the gap is applied to the estimate of the moment the reply lands.
ReseatAtReply(call, up, down) == ServerNow - Drift(call, up)
\* Mutant: ahead and behind are mixed up.
ReseatSwapped(call, up, down) == call.stamp + Drift(call, up) - (up + down) \div 2
(* What correct_from_drift puts in the emptied window: the server time the *)
(* gate saw, at the midpoint of the round trip.  A stamp that is forgotten *)
(* is replaced by the present estimate at the present time.                *)
Reseat(call, up, down) ==
  IF call.recorded THEN call.stamp - Drift(call, up) - (up + down) \div 2
                   ELSE ServerNow - Drift(call, up)

(* CallErr with time_drift: note_drift re-seats the clock, then the reply  *)
(* itself is a sample of it.                                               *)
CallErrDrift(up, down) ==
  /\ calls # << >> /\ Refuses(Head(calls), up)
  /\ CanSample
  /\ NoteSample(<<Reseat(Head(calls), up, down)>>, 0, theta - down)
  /\ calls' = Tail(calls)
  /\ UNCHANGED <<theta, sent, steps>>

(* The gate's wall clock is stepped (external).                            *)
ServerStep(by) ==
  /\ steps < MaxSteps
  /\ theta' = theta + by
  /\ steps' = steps + 1
  /\ UNCHANGED <<clockVars, calls, samples, sent>>

ClockNext ==
  \/ \E late \in Latencies \cup Queued : Time(late)
  \/ Send
  \/ \E up, down \in Latencies :
       CallOk(up, down) \/ CallPromise(up, down) \/ CallErrDrift(up, down)
  \/ \E by \in ServerSteps : ServerStep(by) \/ ServerStep(-by)

ClockSpec == ClockInit /\ [][ClockNext]_syncVars

-----------------------------------------------------------------------------
ClockTypeOK ==
  /\ theta \in Int /\ running_delta \in Int
  /\ captures \in Seq(Int) /\ Len(captures) <= Window
  /\ running_delay \in Nat
  /\ client_delay \in ClientDelayMin .. ClientDelayMax
  /\ calls \in Seq([stamp : Int, recorded : BOOLEAN])
  /\ samples \in 0 .. MaxSamples /\ sent \in 0 .. MaxCalls
  /\ steps \in 0 .. MaxSteps

(* "the client never stamps into the future" (clock.rs:7): in whatever     *)
(* order fast, slow and queued replies fed it, the estimate is not ahead of*)
(* the gate, unless the gate's own clock was stepped.  That is so for how  *)
(* long Queued lets a heartbeat wait, not however long it waits.  (And     *)
(* every variable has its type.)                                           *)
NeverAhead == ClockTypeOK /\ (IsSynced /\ steps = 0 => ServerNow <= theta)

(* "legitimate corrections still apply" (clock.rs:30): a reply that was    *)
(* not late is never taken for a stale one, so the clock cannot go deaf to *)
(* the gate; only a step of the gate's own clock can make it so.           *)
NeverDeaf == IsSynced /\ steps = 0 =>
  \A late \in Latencies : Anchor(captures) - (theta - late) <= StaleMs

(* A drift rejection puts the clock right at once: after it the estimate   *)
(* is client_delay behind the gate, up to the trip of the reply, however   *)
(* far off the gate or the client had drifted, and however many other      *)
(* rejections came before it.                                              *)
DriftReseats == [][\A up, down \in Latencies : CallErrDrift(up, down) =>
  Abs((ServerNow + client_delay)' - theta) <= up + down]_syncVars

(* "The offset creeps toward truth" (clock.rs:22): once the window holds   *)
(* nothing but one and the same latency, one more such sample reduces what *)
(* is left of the correction.                                              *)
Steady == /\ Len(captures) = Window
          /\ \A i \in DOMAIN captures : captures[i] = captures[1]
SteadyConverges ==
  [][Steady /\ Time(theta - captures[1]) /\ running_delta # 0
       => Abs(running_delta') < Abs(running_delta)]_syncVars

(* "client_delay decays only as old spikes age out" (clock.rs:23): it does *)
(* not shrink while the window still drops nothing.                        *)
DecaysByAge ==
  [][client_delay' < client_delay => captures # << >> /\ Head(captures') # Head(captures)]_syncVars
=============================================================================
