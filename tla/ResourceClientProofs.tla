------------------------ MODULE ResourceClientProofs ------------------------
(***************************************************************************)
(* Proofs about ResourceClient, for timeouts and delays of any length and  *)
(* any number of requests, connections and frames.  Client and backend are *)
(* two objects that one call changes in turn, so the invariant is stated   *)
(* on a pair of them and carried through each step of Poll by one lemma.   *)
(***************************************************************************)
EXTENDS ResourceClient, TLAPS

Clients ==
    [state : {"idle", "queued", "phone", "wifi", "retry"},
     id : 0..MaxRequests, durable : BOOLEAN, cancelled : BOOLEAN,
     waiting : BOOLEAN, retryAt : 0..MaxRetry, deadline : 0..Timeout,
     phoneBackoff : 0..Off, wifiBackoff : 0..Off, ready : BOOLEAN]

Policies == {"automatic", "phoneOnly", "wifiOnly", "offline"}

Conds == [phone : BOOLEAN, policy : Policies, powered : BOOLEAN, credentials : BOOLEAN,
          shutdown : BOOLEAN]

\* A backend by itself: an outcome waits only after the end of a burst, and a
\* station runs only within one.
Sound(w) ==
    /\ w \in Backend
    /\ w.outcome => ~WifiBusy(w)
    /\ w.started => WifiBusy(w) \/ w.state = "stopFailed"

\* There is a burst to wait for, or what it came to.
Held(w) == WifiBusy(w) \/ w.outcome

\* The burst, if there is one, has at most its station to stop.
Ending(w) == ~WifiBusy(w) \/ w.state = "stopping"

\* The pair that the calls pass on.  A cancelled request is one whose burst is
\* ending: without this, the cancellation of a policy that has changed back would
\* be forgotten.
Paired(s) ==
    /\ s \in [c : Clients, w : Backend]
    /\ Sound(s.w)
    /\ s.c.state = "wifi" <=> Held(s.w)
    /\ s.c.cancelled => s.c.state = "wifi" /\ Ending(s.w)

-----------------------------------------------------------------------------
(* The backend.                                                            *)

\* A failure ends the burst, or begins to stop the station that it started.
LEMMA FailEnds ==
    ASSUME NEW w, Sound(w), WifiBusy(w), NEW op \in {"failed", "rejected"}
    PROVE LET v == Fail(w, op)
          IN Sound(v) /\ Held(v) /\ Ending(v) /\ v.started = w.started
<1> DEFINE failed == [w EXCEPT !.op = IF @ \in {"none", "success"} THEN op ELSE @]
<1>1. /\ failed \in Backend /\ failed.state = w.state /\ failed.started = w.started
      /\ failed.outcome = w.outcome /\ failed.age = w.age
  BY DEF Sound, Backend, Operation
<1>2. CASE w.started /\ w.state = "stopping"
  BY <1>1, <1>2 DEF Sound, Fail, BeginStopping, Held, Ending, WifiBusy
<1>3. CASE w.started /\ w.state # "stopping"
  <2>1. Fail(w, op) = [failed EXCEPT !.state = "stopping", !.deadline = 0,
                                     !.stopDeadline = StopTimeout - failed.age]
    BY <1>1, <1>3 DEF Fail, BeginStopping
  <2>2. StopTimeout - failed.age \in 0..StopTimeout /\ 0 \in 0..Timeout
    BY <1>1, BackendConstants DEF BackendConstants, Backend
  <2> QED BY <1>1, <1>3, <2>1, <2>2 DEF Sound, Held, Ending, WifiBusy, Backend
<1>4. CASE ~w.started
  <2>1. Fail(w, op) = [failed EXCEPT !.state = "stopped", !.outcome = TRUE, !.deadline = 0]
    BY <1>4 DEF Fail
  <2>2. 0 \in 0..Timeout
    BY BackendConstants DEF BackendConstants
  <2> QED BY <1>1, <1>4, <2>1, <2>2 DEF Sound, Held, Ending, WifiBusy, Backend
<1> QED BY <1>2, <1>3, <1>4

\* What one phase comes to: a burst that goes on or its outcome, and a station
\* only from the phase that starts it.
LEMMA AdvanceKeeps ==
    ASSUME NEW w, Sound(w), Held(w), NEW v \in Advance(w)
    PROVE /\ Sound(v) /\ Held(v) /\ (Ending(w) => Ending(v))
          /\ v.started => w.started \/ w.state = "starting"
<1>1. w \in Backend
  BY DEF Sound
<1>2. ASSUME WifiBusy(w), v \in Failures(w)
      PROVE Sound(v) /\ Held(v) /\ Ending(v) /\ (v.started => w.started)
  BY <1>2, FailEnds DEF Failures
<1>3. CASE w.state = "loading"
  <2>1. v = [w EXCEPT !.state = "starting"] \/ v \in Failures(w)
    BY <1>3 DEF Advance
  <2>2. CASE v = [w EXCEPT !.state = "starting"]
    BY <1>1, <1>3, <2>2 DEF Sound, Held, Ending, WifiBusy, Backend
  <2> QED BY <1>2, <1>3, <2>1, <2>2 DEF WifiBusy, Ending
<1>4. CASE w.state = "starting"
  <2>1. v = [w EXCEPT !.started = TRUE, !.state = "connecting"] \/ v \in Failures(w)
    BY <1>4 DEF Advance
  <2>2. CASE v = [w EXCEPT !.started = TRUE, !.state = "connecting"]
    BY <1>1, <1>4, <2>2 DEF Sound, Held, Ending, WifiBusy, Backend, Running
  <2> QED BY <1>2, <1>4, <2>1, <2>2 DEF WifiBusy, Ending
<1>5. CASE w.state = "connecting"
  <2>1. v = w \/ v = [w EXCEPT !.state = "transferring"] \/ v \in Failures(w)
    BY <1>5 DEF Advance
  <2>2. CASE v = [w EXCEPT !.state = "transferring"]
    BY <1>1, <1>5, <2>2 DEF Sound, Held, Ending, WifiBusy, Backend, Running
  <2> QED BY <1>2, <1>5, <2>1, <2>2 DEF WifiBusy, Ending
<1>6. CASE w.state = "transferring"
  <2>1. v = w \/ v = BeginStopping([w EXCEPT !.op = "success"]) \/ v \in Failures(w)
    BY <1>6 DEF Advance
  <2>2. CASE v = BeginStopping([w EXCEPT !.op = "success"])
    <3>1. v = [w EXCEPT !.op = "success", !.state = "stopping", !.deadline = 0,
                        !.stopDeadline = StopTimeout - w.age]
      BY <1>1, <1>6, <2>2 DEF BeginStopping, Backend
    <3>2. StopTimeout - w.age \in 0..StopTimeout /\ 0 \in 0..Timeout
      BY <1>1, BackendConstants DEF BackendConstants, Backend
    <3> QED BY <1>1, <1>6, <3>1, <3>2 DEF Sound, Held, Ending, WifiBusy, Backend, Operation
  <2> QED BY <1>2, <1>6, <2>1, <2>2 DEF WifiBusy, Ending
<1>7. CASE w.state = "stopping"
  <2>1. \/ v = [w EXCEPT !.started = FALSE, !.state = "stopped", !.outcome = TRUE,
                         !.stopDeadline = 0]
        \/ v = [w EXCEPT !.state = "stopFailed", !.outcome = TRUE]
        \/ v = w
    BY <1>7 DEF Advance, StopNow
  <2>2. 0 \in 0..StopTimeout
    BY BackendConstants DEF BackendConstants
  <2> QED BY <1>1, <1>7, <2>1, <2>2 DEF Sound, Held, Ending, WifiBusy, Backend
<1>8. CASE w.state \in {"stopped", "stopFailed"}
  BY <1>8 DEF Advance
<1> QED BY <1>1, <1>3, <1>4, <1>5, <1>6, <1>7, <1>8 DEF Backend, Running

\* A poll, which may first find the deadline passed.
LEMMA WifiPollKeeps ==
    ASSUME NEW w, Sound(w), Held(w), NEW v \in WifiPoll(w)
    PROVE /\ Sound(v) /\ Held(v) /\ (Ending(w) => Ending(v))
          /\ v.started => w.started \/ w.state = "starting"
<1> DEFINE now == [w EXCEPT !.age = 0]
<1>1. CASE ~WifiBusy(w)
  BY <1>1 DEF WifiPoll
<1>2. CASE WifiBusy(w)
  <2>1. /\ Sound(now) /\ Held(now) /\ WifiBusy(now)
        /\ now.started = w.started /\ now.state = w.state /\ (Ending(w) => Ending(now))
    BY <1>2, BackendConstants DEF BackendConstants, Sound, Held, Ending, WifiBusy, Backend
  <2>2. v \in Advance(now) \/ v \in Advance(Fail(now, "failed"))
    BY <1>2 DEF WifiPoll
  <2>3. CASE v \in Advance(now)
    BY <1>2, <2>1, <2>3, AdvanceKeeps
  <2>4. CASE v \in Advance(Fail(now, "failed"))
    <3> DEFINE failed == Fail(now, "failed")
    <3>1. Sound(failed) /\ Held(failed) /\ Ending(failed) /\ failed.started = w.started
      BY <2>1, FailEnds
    <3>2. failed.state # "starting"
      BY <3>1 DEF Ending, WifiBusy
    <3>3. /\ Sound(v) /\ Held(v) /\ Ending(v)
          /\ v.started => failed.started \/ failed.state = "starting"
      BY <2>4, <3>1, AdvanceKeeps
    <3> QED BY <3>1, <3>2, <3>3
  <2> QED BY <2>2, <2>3, <2>4
<1> QED BY <1>1, <1>2

\* A burst that is cancelled is ending.
LEMMA WifiCancelEnds ==
    ASSUME NEW w, Sound(w)
    PROVE LET v == WifiCancel(w)
          IN Sound(v) /\ (Held(v) <=> Held(w)) /\ Ending(v) /\ v.started = w.started
<1>1. CASE WifiBusy(w) /\ w.state # "stopping"
  <2>1. WifiCancel(w) = Fail(w, "failed")
    BY <1>1 DEF WifiCancel
  <2> QED BY <1>1, <2>1, FailEnds DEF Held
<1>2. CASE ~(WifiBusy(w) /\ w.state # "stopping")
  BY <1>2 DEF WifiCancel, Ending
<1> QED BY <1>1, <1>2

\* An outcome that is taken leaves nothing to wait for.
LEMMA TakeOutcomeFrees ==
    ASSUME NEW w, Sound(w), w.outcome
    PROVE Sound(TakeOutcome(w)) /\ ~Held(TakeOutcome(w)) /\ TakeOutcome(w).started = w.started
<1> DEFINE v == TakeOutcome(w)
<1>1. w \in Backend /\ 0 \in 0..StopTimeout
  BY BackendConstants DEF BackendConstants, Sound
<1>2. /\ v \in Backend /\ v.state = w.state /\ v.started = w.started /\ v.outcome = FALSE
  BY <1>1 DEF TakeOutcome, Backend, Operation
<1> HIDE DEF v
<1>3. Sound(v) /\ ~Held(v) /\ v.started = w.started
  BY <1>2 DEF Sound, Held, WifiBusy
<1> QED BY <1>3 DEF v

\* A backend that accepts a request runs no station, and holds it from then on.
LEMMA WifiBeginHolds ==
    ASSUME NEW w, Sound(w), WifiAccepts(w)
    PROVE /\ ~Held(w) /\ ~w.started
          /\ Sound(WifiBegin(w)) /\ Held(WifiBegin(w)) /\ ~WifiBegin(w).started
<1> DEFINE v == WifiBegin(w)
<1>1. 0 \in 0..StopTimeout /\ 0 \in 0..Timeout /\ Timeout \in 0..Timeout
  BY BackendConstants DEF BackendConstants
<1>2. Stopped \in Backend /\ ~Stopped.started /\ ~Stopped.outcome
  BY <1>1 DEF Stopped, Backend, Operation
<1>3. v \in Backend /\ v.state = "loading" /\ ~v.started /\ ~v.outcome
  BY <1>1, <1>2 DEF WifiBegin, Backend
<1> HIDE DEF v
<1>4. Sound(v) /\ Held(v)
  BY <1>3 DEF Sound, Held, WifiBusy
<1>5. ~Held(w) /\ ~w.started
  BY DEF WifiAccepts, Sound, Held, WifiBusy
<1> QED BY <1>3, <1>4, <1>5 DEF v

\* Time changes no more than what is left of it.
LEMMA WifiTickKeeps ==
    ASSUME NEW w, Sound(w)
    PROVE LET v == WifiTick(w)
          IN Sound(v) /\ v.state = w.state /\ v.outcome = w.outcome /\ v.started = w.started
<1> DEFINE Left(time) == IF time > 0 THEN time - 1 ELSE 0
           older == IF WifiBusy(w) /\ w.age < StopTimeout THEN w.age + 1 ELSE w.age
           v == WifiTick(w)
<1>1. w \in Backend
  BY DEF Sound
<1>2. /\ Left(w.deadline) \in 0..Timeout /\ Left(w.stopDeadline) \in 0..StopTimeout
      /\ older \in 0..StopTimeout
  BY <1>1, BackendConstants DEF BackendConstants, Backend
<1>3. v = [w EXCEPT !.deadline = Left(w.deadline), !.stopDeadline = Left(w.stopDeadline),
                    !.age = older]
  BY <1>1 DEF WifiTick, Backend
<1> HIDE DEF Left, older
<1>4. v \in Backend /\ v.state = w.state /\ v.outcome = w.outcome /\ v.started = w.started
  BY <1>1, <1>2, <1>3 DEF Backend
<1> HIDE DEF v
<1>5. Sound(v)
  BY <1>4 DEF Sound, WifiBusy
<1> QED BY <1>4, <1>5 DEF v

-----------------------------------------------------------------------------
(* The client.                                                             *)

\* Nothing left is within every bound.
LEMMA Zeros == 0 \in 0..Timeout /\ 0 \in 0..MaxRetry /\ Timeout \in 0..Timeout
BY BackendConstants, ClientConstants DEF BackendConstants, ClientConstants

\* Whatever a phone or the policy asks for, the delay is one the contract knows.
LEMMA RetryDelayBounded ==
    ASSUME NEW asked \in Nat
    PROVE RetryDelay(asked) \in 0..MaxRetry /\ RetryDelay(asked) \in 0..Off
BY ClientConstants DEF ClientConstants, RetryDelay, Off

\* The last response leaves an idle client.
LEMMA FinishEnds ==
    ASSUME NEW c \in Clients
    PROVE Finish(c) \in Clients /\ Finish(c).state = "idle" /\ ~Finish(c).cancelled
BY Zeros DEF Finish, Clients

\* The end of an attempt is a retry or, of a cancelled request always, the end.
LEMMA CompleteAttemptEnds ==
    ASSUME NEW c \in Clients, NEW transient, NEW asked \in Nat
    PROVE LET d == CompleteAttempt(c, transient, asked)
          IN /\ d \in Clients /\ d.state \in {"idle", "retry"} /\ ~d.cancelled
             /\ c.cancelled => d.state = "idle"
<1>1. CASE ~transient \/ c.cancelled
  BY <1>1, FinishEnds DEF CompleteAttempt
<1>2. CASE transient /\ ~c.cancelled
  <2>1. RetryDelay(asked) \in 0..Off
    BY RetryDelayBounded
  <2> QED BY <1>2, <2>1, Zeros DEF CompleteAttempt, Clients
<1> QED BY <1>1, <1>2

\* A request that waits for the phone goes to a retry, any other one stays.
LEMMA PhoneDisconnectedEnds ==
    ASSUME NEW c \in Clients
    PROVE LET d == PhoneDisconnected(c)
          IN /\ d \in Clients
             /\ c.state = "phone" => d.state \in {"idle", "retry"} /\ ~d.cancelled
             /\ c.state # "phone" => d = c
BY CompleteAttemptEnds DEF PhoneDisconnected

\* A path is chosen only if the conditions allow it, and a delay is a number.
LEMMA DecideAllows ==
    ASSUME NEW c \in Clients, NEW w, NEW cond \in Conds
    PROVE LET decision == Decide(c, w, cond)
          IN /\ decision.path \in {"defer", "phone", "wifi"}
             /\ decision.retry \in Nat
             /\ decision.path = "phone" => ~Forbidden(cond) /\ cond.policy # "wifiOnly"
<1>1. Remaining(c.phoneBackoff) \in Nat /\ Remaining(c.wifiBackoff) \in Nat
  BY ClientConstants DEF ClientConstants, Remaining, Clients, Off
<1>2. cond.policy \in Policies
  BY DEF Conds
<1> QED BY <1>1, <1>2 DEF Decide, Forbidden, Policies

-----------------------------------------------------------------------------
(* Poll, step by step.                                                     *)

\* A cancellation leaves no request, or one whose burst is ending.
LEMMA CancelPairs ==
    ASSUME NEW s, Paired(s)
    PROVE LET r == Cancel(s)
          IN /\ Paired(r) /\ r.w.started = s.w.started
             /\ r.c.state = "wifi" => Ending(r.w)
             /\ r.c.state = "phone" => s.c.state = "phone"
<1>1. s.c \in Clients /\ s.w \in Backend /\ Sound(s.w)
  BY DEF Paired
<1>2. CASE ~Busy(s.c)
  BY <1>2 DEF Cancel, Busy
<1>3. CASE s.c.state = "wifi"
  <2> DEFINE c == [s.c EXCEPT !.cancelled = TRUE, !.ready = FALSE]
             w == WifiCancel(s.w)
  <2>1. Cancel(s) = [c |-> c, w |-> w]
    BY <1>3 DEF Cancel, Busy
  <2>2. c \in Clients /\ c.state = "wifi"
    BY <1>1, <1>3 DEF Clients
  <2>3. Sound(w) /\ (Held(w) <=> Held(s.w)) /\ Ending(w) /\ w.started = s.w.started
    BY <1>1, WifiCancelEnds
  <2>4. Held(s.w)
    BY <1>3 DEF Paired
  <2>5. w \in Backend
    BY <2>3 DEF Sound
  <2> HIDE DEF c, w
  <2> QED BY <2>1, <2>2, <2>3, <2>4, <2>5 DEF Paired
<1>4. CASE Busy(s.c) /\ s.c.state # "wifi"
  <2> DEFINE c == [s.c EXCEPT !.cancelled = TRUE, !.ready = FALSE]
  <2>1. Cancel(s) = [s EXCEPT !.c = Finish(c)]
    BY <1>4 DEF Cancel
  <2>2. c \in Clients
    BY <1>1 DEF Clients
  <2> HIDE DEF c
  <2>3. Finish(c) \in Clients /\ Finish(c).state = "idle" /\ ~Finish(c).cancelled
    BY <2>2, FinishEnds
  <2>4. /\ Cancel(s) \in [c : Clients, w : Backend]
        /\ Cancel(s).c = Finish(c) /\ Cancel(s).w = s.w
    BY <1>1, <2>1, <2>3 DEF Paired
  <2>5. ~Held(s.w)
    BY <1>4 DEF Paired
  <2> QED BY <1>1, <2>3, <2>4, <2>5 DEF Paired
<1> QED BY <1>2, <1>3, <1>4

\* Poll under a policy or a shutdown that forbids the network: the request is
\* cancelled and its burst told to stop, the pair stays sound, nothing starts, and
\* a request that is cancelled already is left to its burst.
LEMMA PollForbiddenPairs ==
    ASSUME NEW s, Paired(s), NEW cond
    PROVE LET r == PollForbidden(s, cond)
          IN /\ Paired(r) /\ r.w.started = s.w.started
             /\ Forbidden(cond) /\ r.c.state = "wifi" => Ending(r.w)
             /\ r.c.state = "phone" => s.c.state = "phone"
             /\ s.c.cancelled => r = s
<1>1. CASE Forbidden(cond) /\ ~s.c.cancelled
  BY <1>1, CancelPairs DEF PollForbidden
<1>2. CASE ~(Forbidden(cond) /\ ~s.c.cancelled)
  BY <1>2 DEF PollForbidden, Paired
<1> QED BY <1>1, <1>2

\* A burst goes on or gives its outcome to the client.  Only a burst that is
\* allowed now and has not begun to end starts its station.
LEMMA PollWifiPairs ==
    ASSUME NEW s, Paired(s), NEW cond, NEW r \in PollWifi(s, cond)
    PROVE /\ Paired(r)
          /\ r.c.state = "phone" => s.c.state = "phone"
          /\ s.c.cancelled => r.c.state \in {"idle", "wifi"}
          /\ r.w.started /\ ~s.w.started =>
                s.c.state = "wifi" /\ ~Ending(s.w) /\ cond.powered /\ cond.policy # "phoneOnly"
<1>1. s \in [c : Clients, w : Backend] /\ Sound(s.w)
  BY DEF Paired
<1>2. CASE s.c.state # "wifi"
  BY <1>2 DEF PollWifi, Paired
<1>3. CASE s.c.state = "wifi"
  <2> DEFINE denied == ~cond.powered \/ cond.policy = "phoneOnly"
             begun == IF denied THEN WifiCancel(s.w) ELSE s.w
             Taken(w) == [c |-> CompleteAttempt(s.c, w.op = "failed", 0), w |-> TakeOutcome(w)]
  <2>1. PICK w \in WifiPoll(begun) : r = IF w.outcome THEN Taken(w) ELSE [s EXCEPT !.w = w]
    BY <1>3 DEF PollWifi
  <2>2. Held(s.w)
    BY <1>3 DEF Paired
  <2>3. /\ Sound(begun) /\ Held(begun) /\ begun.started = s.w.started
        /\ denied => Ending(begun)
        /\ Ending(s.w) => Ending(begun)
        /\ ~denied => begun = s.w
    BY <1>1, <2>2, WifiCancelEnds
  <2> HIDE DEF begun
  <2>4. /\ Sound(w) /\ Held(w) /\ (Ending(begun) => Ending(w))
        /\ w.started => begun.started \/ begun.state = "starting"
    BY <2>1, <2>3, WifiPollKeeps
  <2>5. w.started /\ ~s.w.started => ~denied /\ ~Ending(s.w)
    BY <2>3, <2>4 DEF Ending, WifiBusy
  <2>6. CASE w.outcome
    <3>1. /\ r.c = CompleteAttempt(s.c, w.op = "failed", 0) /\ r.w = TakeOutcome(w)
          /\ r = [c |-> r.c, w |-> r.w]
      BY <2>1, <2>6
    <3>2. /\ r.c \in Clients /\ r.c.state \in {"idle", "retry"} /\ ~r.c.cancelled
          /\ s.c.cancelled => r.c.state = "idle"
      BY <1>1, <3>1, CompleteAttemptEnds
    <3>3. Sound(r.w) /\ ~Held(r.w) /\ r.w.started = w.started
      BY <2>4, <2>6, <3>1, TakeOutcomeFrees
    <3>4. r \in [c : Clients, w : Backend]
      BY <3>1, <3>2, <3>3 DEF Sound
    <3> QED BY <1>3, <2>5, <3>2, <3>3, <3>4 DEF Paired
  <2>7. CASE ~w.outcome
    <3>1. r \in [c : Clients, w : Backend] /\ r.c = s.c /\ r.w = w
      BY <1>1, <2>1, <2>4, <2>7 DEF Sound
    <3>2. s.c.cancelled => Ending(w)
      BY <2>3, <2>4 DEF Paired
    <3> QED BY <1>3, <2>4, <2>5, <3>1, <3>2 DEF Paired
  <2> QED BY <2>6, <2>7
<1> QED BY <1>2, <1>3

\* Poll's step for a request sent to the phone: it is dropped, timed out or kept,
\* the pair stays sound and the backend is not touched.
LEMMA PollPhonePairs ==
    ASSUME NEW s, Paired(s), NEW cond
    PROVE LET r == PollPhone(s, cond)
          IN /\ Paired(r) /\ r.w = s.w
             /\ r.c.state = "phone" => s.c.state = "phone"
             /\ s.c.state # "phone" => r = s
<1>1. s \in [c : Clients, w : Backend]
  BY DEF Paired
<1>2. CASE s.c.state # "phone"
  BY <1>2 DEF PollPhone
<1>3. CASE s.c.state = "phone"
  <2>1. PICK d \in Clients : /\ PollPhone(s, cond) = [s EXCEPT !.c = d]
                             /\ d = s.c \/ (d.state \in {"idle", "retry"} /\ ~d.cancelled)
    <3>1. CASE ~cond.phone \/ cond.policy = "wifiOnly"
      BY <1>1, <1>3, <3>1, PhoneDisconnectedEnds DEF PollPhone
    <3>2. CASE ~(~cond.phone \/ cond.policy = "wifiOnly") /\ s.c.deadline = 0
      <4>1. PollPhone(s, cond) = [s EXCEPT !.c = CompleteAttempt(s.c, TRUE, 0)]
        BY <1>1, <1>3, <3>2 DEF PollPhone
      <4>2. /\ CompleteAttempt(s.c, TRUE, 0) \in Clients
            /\ CompleteAttempt(s.c, TRUE, 0).state \in {"idle", "retry"}
            /\ ~CompleteAttempt(s.c, TRUE, 0).cancelled
        BY <1>1, CompleteAttemptEnds
      <4> QED BY <4>1, <4>2
    <3>3. CASE ~(~cond.phone \/ cond.policy = "wifiOnly") /\ s.c.deadline # 0
      BY <1>1, <1>3, <3>3 DEF PollPhone
    <3> QED BY <3>1, <3>2, <3>3
  <2>2. /\ PollPhone(s, cond) \in [c : Clients, w : Backend]
        /\ PollPhone(s, cond).c = d /\ PollPhone(s, cond).w = s.w
    BY <1>1, <2>1
  <2> QED BY <1>3, <2>1, <2>2 DEF Paired
<1> QED BY <1>2, <1>3

\* Without a path a durable request waits, any other one ends.
LEMMA DeferredWaits ==
    ASSUME NEW c \in Clients, c.state \in {"queued", "retry"}, ~c.cancelled,
           NEW cond, NEW asked \in Nat
    PROVE LET d == Deferred(c, cond, asked)
          IN d \in Clients /\ d.state \in {"queued", "retry", "idle"} /\ ~d.cancelled
<1>1. RetryDelay(asked) \in 0..MaxRetry
  BY RetryDelayBounded
<1>2. CASE c.waiting /\ c.retryAt > 0
  BY <1>2 DEF Deferred
<1>3. CASE ~(c.waiting /\ c.retryAt > 0) /\ c.durable /\ ~Forbidden(cond) /\ ~c.cancelled
  <2>1. Deferred(c, cond, asked) = [c EXCEPT !.ready = TRUE, !.waiting = TRUE,
                                    !.retryAt = RetryDelay(asked), !.state = "queued"]
    BY <1>3 DEF Deferred
  <2> QED BY <1>1, <2>1 DEF Clients
<1>4. CASE /\ ~(c.waiting /\ c.retryAt > 0)
           /\ ~(c.durable /\ ~Forbidden(cond) /\ ~c.cancelled)
  BY <1>4, FinishEnds DEF Deferred
<1> QED BY <1>2, <1>3, <1>4

\* An attempt that is accepted holds its path; one that is not is a retry.
LEMMA AttemptPairs ==
    ASSUME NEW s, Paired(s), s.c.state \in {"queued", "retry"},
           NEW path \in {"phone", "wifi"}, NEW accepted,
           path = "wifi" => (accepted <=> WifiAccepts(s.w))
    PROVE LET r == Attempt(s, path, accepted)
          IN /\ Paired(r) /\ (r.w.started => s.w.started)
             /\ r.c.state = "phone" => path = "phone" /\ accepted
<1> DEFINE c == [s.c EXCEPT !.ready = FALSE, !.waiting = FALSE, !.retryAt = 0, !.state = path]
           r == Attempt(s, path, accepted)
<1>1. /\ s \in [c : Clients, w : Backend] /\ Sound(s.w) /\ ~Held(s.w) /\ ~s.c.cancelled
  BY DEF Paired
<1>2. c \in Clients /\ c.state = path /\ ~c.cancelled
  BY <1>1, Zeros DEF Clients
<1>3. CASE ~accepted
  <2>1. r = [s EXCEPT !.c = CompleteAttempt(c, TRUE, 0)]
    BY <1>3 DEF Attempt
  <2> HIDE DEF c
  <2>2. /\ CompleteAttempt(c, TRUE, 0) \in Clients
        /\ CompleteAttempt(c, TRUE, 0).state \in {"idle", "retry"}
        /\ ~CompleteAttempt(c, TRUE, 0).cancelled
    BY <1>2, CompleteAttemptEnds
  <2> HIDE DEF r
  <2>3. /\ r \in [c : Clients, w : Backend] /\ r.w = s.w
        /\ r.c.state \in {"idle", "retry"} /\ ~r.c.cancelled
    BY <1>1, <2>1, <2>2
  <2>4. Paired(r)
    BY <1>1, <2>3 DEF Paired
  <2> QED BY <2>3, <2>4 DEF r
<1>4. CASE accepted /\ path = "phone"
  <2>1. r = [s EXCEPT !.c = [c EXCEPT !.deadline = Timeout]]
    BY <1>4 DEF Attempt
  <2> HIDE DEF c, r
  <2>2. /\ r \in [c : Clients, w : Backend] /\ r.w = s.w
        /\ r.c.state = "phone" /\ ~r.c.cancelled
    BY <1>1, <1>2, <1>4, <2>1, Zeros DEF Clients
  <2>3. Paired(r)
    BY <1>1, <2>2 DEF Paired
  <2> QED BY <1>4, <2>2, <2>3 DEF r
<1>5. CASE accepted /\ path = "wifi"
  <2>1. r = [c |-> c, w |-> WifiBegin(s.w)]
    BY <1>5 DEF Attempt
  <2>2. Sound(WifiBegin(s.w)) /\ Held(WifiBegin(s.w)) /\ ~WifiBegin(s.w).started
    BY <1>1, <1>5, WifiBeginHolds
  <2> HIDE DEF c, r
  <2>3. /\ r \in [c : Clients, w : Backend] /\ r.w = WifiBegin(s.w)
        /\ r.c.state = "wifi" /\ ~r.c.cancelled
    BY <1>2, <1>5, <2>1, <2>2 DEF Sound
  <2>4. Paired(r)
    BY <2>2, <2>3 DEF Paired
  <2> QED BY <2>2, <2>3, <2>4 DEF r
<1> QED BY <1>3, <1>4, <1>5

\* The choice of a transport at the end of Poll: the pair stays sound, a request
\* goes to the phone only from the queue or a retry that the policy allows, and no
\* station is started by the choice itself.
LEMMA SelectPairs ==
    ASSUME NEW s, Paired(s), NEW cond \in Conds, NEW accepts
    PROVE LET r == Select(s, cond, accepts)
          IN /\ Paired(r) /\ (r.w.started => s.w.started)
             /\ r.c.state = "phone" /\ s.c.state # "phone" =>
                    /\ s.c.state \in {"queued", "retry"}
                    /\ ~Forbidden(cond) /\ cond.policy # "wifiOnly"
<1>1. s \in [c : Clients, w : Backend]
  BY DEF Paired
<1>2. CASE s.c.state \notin {"queued", "retry"}
  BY <1>2 DEF Select
<1>3. CASE s.c.state \in {"queued", "retry"}
  <2> DEFINE decision == Decide(s.c, s.w, cond)
  <2>1. /\ decision.path \in {"defer", "phone", "wifi"} /\ decision.retry \in Nat
        /\ decision.path = "phone" => ~Forbidden(cond) /\ cond.policy # "wifiOnly"
    BY <1>1, DecideAllows
  <2>2. Select(s, cond, accepts) =
            CASE decision.path = "defer" -> [s EXCEPT !.c = Deferred(s.c, cond, decision.retry)]
              [] decision.path = "phone" -> Attempt(s, "phone", accepts)
              [] decision.path = "wifi" -> Attempt(s, "wifi", WifiAccepts(s.w))
    BY <1>1, <1>3 DEF Select
  <2> HIDE DEF decision
  <2>3. CASE decision.path = "defer"
    <3> DEFINE d == Deferred(s.c, cond, decision.retry)
               r == Select(s, cond, accepts)
    <3>1. ~Held(s.w) /\ ~s.c.cancelled /\ Sound(s.w)
      BY <1>3 DEF Paired
    <3>2. d \in Clients /\ d.state \in {"queued", "retry", "idle"} /\ ~d.cancelled
      BY <1>1, <1>3, <2>1, <3>1, DeferredWaits
    <3>3. r = [s EXCEPT !.c = d]
      BY <2>2, <2>3
    <3> HIDE DEF d, r
    <3>4. r \in [c : Clients, w : Backend] /\ r.c = d /\ r.w = s.w
      BY <1>1, <3>2, <3>3
    <3>5. Paired(r)
      BY <3>1, <3>2, <3>4 DEF Paired
    <3> QED BY <3>2, <3>4, <3>5 DEF r
  <2>4. CASE decision.path = "phone"
    BY <1>3, <2>1, <2>2, <2>4, AttemptPairs
  <2>5. CASE decision.path = "wifi"
    BY <1>3, <2>2, <2>5, AttemptPairs
  <2> QED BY <2>1, <2>3, <2>4, <2>5
<1> QED BY <1>2, <1>3

\* Poll as a whole, of a client with its backend.
LEMMA PollsPair ==
    ASSUME Paired([c |-> client, w |-> wifi]), NEW cond \in Conds, NEW accepts,
           NEW r \in Polls(cond, accepts)
    PROVE /\ Paired(r)
          /\ r.w.started /\ ~wifi.started =>
                /\ ~Forbidden(cond) /\ cond.powered /\ cond.policy # "phoneOnly"
                /\ ~client.cancelled
          /\ r.c.state = "phone" /\ client.state # "phone" =>
                ~Forbidden(cond) /\ cond.policy # "wifiOnly" /\ ~client.cancelled
<1> DEFINE first == [c |-> client, w |-> wifi]
           second == PollForbidden(first, cond)
<1>1. PICK third \in PollWifi(second, cond) : r = Select(PollPhone(third, cond), cond, accepts)
  BY DEF Polls
<1> DEFINE fourth == PollPhone(third, cond)
<1>2. first.c = client /\ first.w = wifi /\ Paired(first)
  OBVIOUS
<1> HIDE DEF first
<1>3. /\ Paired(second) /\ second.w.started = first.w.started
      /\ Forbidden(cond) /\ second.c.state = "wifi" => Ending(second.w)
      /\ second.c.state = "phone" => first.c.state = "phone"
      /\ first.c.cancelled => second = first
  BY <1>2, PollForbiddenPairs
<1> HIDE DEF second
<1>4. /\ Paired(third)
      /\ third.c.state = "phone" => second.c.state = "phone"
      /\ second.c.cancelled => third.c.state \in {"idle", "wifi"}
      /\ third.w.started /\ ~second.w.started =>
            /\ second.c.state = "wifi" /\ ~Ending(second.w)
            /\ cond.powered /\ cond.policy # "phoneOnly"
  BY <1>1, <1>3, PollWifiPairs
<1>5. /\ Paired(fourth) /\ fourth.w = third.w
      /\ fourth.c.state = "phone" => third.c.state = "phone"
      /\ third.c.state # "phone" => fourth = third
  BY <1>4, PollPhonePairs
<1>6. r = Select(fourth, cond, accepts)
  BY <1>1
<1> HIDE DEF fourth
<1>7. /\ Paired(r) /\ (r.w.started => fourth.w.started)
      /\ r.c.state = "phone" /\ fourth.c.state # "phone" =>
            /\ fourth.c.state \in {"queued", "retry"}
            /\ ~Forbidden(cond) /\ cond.policy # "wifiOnly"
  BY <1>5, <1>6, SelectPairs
<1>8. client.cancelled => Ending(second.w) /\ third.c.state \in {"idle", "wifi"}
  BY <1>2, <1>3, <1>4 DEF Paired
<1> QED BY <1>2, <1>3, <1>4, <1>5, <1>7, <1>8

-----------------------------------------------------------------------------
(* The invariant and the theorems.                                         *)

Pair == [c |-> client, w |-> wifi]

IInv == TypeOK /\ Paired(Pair)

\* The rest of the state, which the calls of the client leave to the others.
Around ==
    /\ policy \in Policies
    /\ powered \in BOOLEAN /\ credentials \in BOOLEAN /\ stopping \in BOOLEAN
    /\ session \in 0..MaxSessions /\ connected \in BOOLEAN
    /\ seen \in 0..MaxSessions /\ authorized \in 0..MaxSessions
    /\ sync \in {"none", "active", "converged", "failed"}
    /\ pc \in {"top", "frames", "tail", "done"}
    /\ sent \in [session : 0..MaxSessions, sequence : 0..MaxSends]
    /\ next \in 1..MaxSends + 1
    /\ air \subseteq [session : 1..MaxSessions, sequence : 1..MaxSends, id : 0..MaxRequests]

\* TypeOK in three parts: the client, the backend and what is around them.
LEMMA TypeParts == TypeOK <=> client \in Clients /\ wifi \in Backend /\ Around
BY DEF TypeOK, Clients, Around, Policies

\* Enough to know of the next state: the pair is sound, the rest has its types.
LEMMA Inductive == Around' /\ Paired(Pair)' => IInv'
<1>1. Paired(Pair)' => client' \in Clients /\ wifi' \in Backend
  BY DEF Paired, Pair
<1> QED BY <1>1 DEF IInv, TypeOK, Clients, Around, Policies

\* A client that waits for no burst, before and after, leaves the backend alone.
LEMMA ClientMoves ==
    ASSUME Paired(Pair), client.state # "wifi", UNCHANGED wifi,
           client' \in Clients, client'.state # "wifi", ~client'.cancelled
    PROVE Paired(Pair)'
<1>1. wifi \in Backend /\ Sound(wifi) /\ ~Held(wifi)
  BY DEF Paired, Pair
<1>2. wifi' \in Backend /\ Sound(wifi') /\ ~Held(wifi')
  BY <1>1
<1> QED BY <1>2 DEF Paired, Pair

\* A step that changes neither the client nor the backend keeps the pair.
LEMMA PairStays ==
    ASSUME Paired(Pair), UNCHANGED <<client, wifi>>
    PROVE Paired(Pair)'
BY DEF Paired, Pair

\* What Poll is given.
LEMMA ConditionsTyped ==
    ASSUME Around, NEW phone \in BOOLEAN, NEW shutdown \in BOOLEAN
    PROVE LET cond == Conditions(phone, shutdown)
          IN /\ cond \in Conds /\ cond.policy = policy /\ cond.powered = powered
             /\ Forbidden(cond) <=> shutdown \/ policy = "offline"
BY DEF Around, Conditions, Conds, Forbidden

\* A request goes out with the session and a number that its answer will carry.
LEMMA SendTyped ==
    ASSUME Around, client \in Clients, CanSend, SendResource
    PROVE /\ sent' \in [session : 0..MaxSessions, sequence : 0..MaxSends]
          /\ next' \in 1..MaxSends + 1
          /\ air' \subseteq
                [session : 1..MaxSessions, sequence : 1..MaxSends, id : 0..MaxRequests]
<1>1. session \in 1..MaxSessions /\ next \in 1..MaxSends /\ client.id \in 0..MaxRequests
  BY ClientConstants DEF ClientConstants, Around, CanSend, Negotiated, Clients
<1>2. next + 1 \in 1..MaxSends + 1 /\ next \in 0..MaxSends /\ session \in 0..MaxSessions
  BY <1>1, ClientConstants DEF ClientConstants
<1> QED BY <1>1, <1>2 DEF SendResource, Around

\* At boot there is no request and no burst, so the invariant holds.
LEMMA ClientInit == Init => IInv
<1> SUFFICES ASSUME Init PROVE IInv
  OBVIOUS
<1>1. client \in Clients /\ client.state = "idle" /\ ~client.cancelled
  BY Zeros, ClientConstants DEF ClientConstants, Init, Clients, Off
<1>2. wifi \in Backend /\ wifi.state = "stopped" /\ ~wifi.started /\ ~wifi.outcome
  BY Zeros, BackendConstants
     DEF BackendConstants, Init, Stopped, Backend, Operation
<1>3. Around
  <2>1. 0 \in 0..MaxSessions /\ 0 \in 0..MaxSends /\ 1 \in 1..MaxSends + 1
    BY ClientConstants DEF ClientConstants
  <2> QED BY <2>1 DEF Init, Around, Policies
<1>4. Paired(Pair)
  BY <1>1, <1>2 DEF Paired, Pair, Sound, Held, WifiBusy
<1> QED BY <1>1, <1>2, <1>3, <1>4, TypeParts DEF IInv

\* The session task, action by action.
LEMMA TaskStep == IInv /\ Task => IInv'
<1> SUFFICES ASSUME IInv, Task PROVE IInv'
  OBVIOUS
<1>1. client \in Clients /\ wifi \in Backend /\ Around /\ Paired(Pair)
  BY TypeParts DEF IInv
<1>2. CASE SessionChanged \/ ForgetPeer
  <2>1. client' = PhoneDisconnected(client) /\ wifi' = wifi
    BY <1>2 DEF SessionChanged, ForgetPeer
  <2>2. Paired(Pair)'
    <3>1. CASE client.state = "phone"
      BY <1>1, <2>1, <3>1, PhoneDisconnectedEnds, ClientMoves
    <3>2. CASE client.state # "phone"
      BY <1>1, <2>1, <3>2, PhoneDisconnectedEnds, PairStays
    <3> QED BY <3>1, <3>2
  <2>3. Around'
    BY <1>1, <1>2, ClientConstants
       DEF ClientConstants, Around, SessionChanged, ForgetPeer, conditions, link
  <2> QED BY <2>2, <2>3, Inductive
<1>3. ASSUME NEW failed \in BOOLEAN, PollResource(failed) PROVE IInv'
  <2> DEFINE phone == Negotiated /\ ~failed /\ (sync = "converged" \/ client.state = "phone")
             cond == Conditions(phone, FALSE)
  <2>1. cond \in Conds
    BY <1>1, ConditionsTyped
  <2>2. PICK accepts \in BOOLEAN : \E s \in Polls(cond, accepts) : client' = s.c /\ wifi' = s.w
    BY <1>3 DEF PollResource
  <2>3. PICK s \in Polls(cond, accepts) : client' = s.c /\ wifi' = s.w
    BY <2>2
  <2>4. Paired(s)
    BY <1>1, <2>1, PollsPair DEF Pair
  <2>5. Paired(Pair)'
    BY <2>3, <2>4 DEF Paired, Pair
  <2>6. Around'
    <3>1. UNCHANGED <<policy, powered, credentials, stopping, session, connected, seen>>
          /\ pc' = "frames" /\ SyncFails(failed)
      BY <1>3 DEF PollResource, conditions, link
    <3>2. UNCHANGED <<sent, next, air>> \/ (CanSend /\ SendResource)
      BY <1>3 DEF PollResource
    <3>3. authorized' \in 0..MaxSessions /\ sync' \in {"none", "active", "converged", "failed"}
      BY <1>1, <3>1, ClientConstants DEF ClientConstants, SyncFails, Around
    <3> QED BY <1>1, <3>1, <3>2, <3>3, SendTyped DEF Around
  <2> QED BY <2>5, <2>6, Inductive
<1>4. CASE Negotiate \/ Converge \/ NoFrame
  <2>1. Around'
    BY <1>1, <1>4, ClientConstants
       DEF ClientConstants, Around, Negotiate, Converge, NoFrame, conditions, link
  <2>2. UNCHANGED <<client, wifi>>
    BY <1>4 DEF Negotiate, Converge, NoFrame
  <2> QED BY <1>1, <2>1, <2>2, PairStays, Inductive
<1>5. ASSUME NEW frame \in air, NEW transient \in BOOLEAN, NEW asked \in {0, MaxRetry + 1},
             ProcessResourceResponse(frame, transient, asked)
      PROVE IInv'
  <2>1. Around' /\ wifi' = wifi
    BY <1>1, <1>5 DEF Around, ProcessResourceResponse, conditions, link, owner
  <2>2. CASE client' = client
    BY <1>1, <2>1, <2>2, PairStays, Inductive
  <2>3. CASE client' # client
    <3>1. asked \in Nat
      BY ClientConstants DEF ClientConstants
    <3>2. /\ client.state = "phone"
          /\ \E t \in BOOLEAN, a \in Nat : client' = CompleteAttempt(client, t, a)
      BY <1>5, <2>3, <3>1 DEF ProcessResourceResponse, AcceptPhoneResponse
    <3>3. client' \in Clients /\ client'.state \in {"idle", "retry"} /\ ~client'.cancelled
      BY <1>1, <3>2, CompleteAttemptEnds
    <3> QED BY <1>1, <2>1, <3>2, <3>3, ClientMoves, Inductive
  <2> QED BY <2>2, <2>3
<1>6. CASE BeginTail
  <2>1. client' = Cancel(Pair).c /\ wifi' = Cancel(Pair).w
    BY <1>6 DEF BeginTail, Pair
  <2>2. Paired(Cancel(Pair))
    BY <1>1, CancelPairs
  <2>3. Paired(Pair)'
    BY <2>1, <2>2 DEF Paired, Pair
  <2>4. Around'
    BY <1>1, <1>6 DEF Around, BeginTail, conditions, link, owner
  <2> QED BY <2>3, <2>4, Inductive
<1>7. CASE PollTail
  <2>1. PICK s \in Polls(Conditions(FALSE, TRUE), FALSE) : client' = s.c /\ wifi' = s.w
    BY <1>7 DEF PollTail
  <2>2. Conditions(FALSE, TRUE) \in Conds
    BY <1>1, ConditionsTyped
  <2>3. Paired(s)
    BY <1>1, <2>2, PollsPair DEF Pair
  <2>4. Paired(Pair)'
    BY <2>1, <2>3 DEF Paired, Pair
  <2>5. Around'
    BY <1>1, <1>7 DEF Around, PollTail, conditions, link, owner
  <2> QED BY <2>4, <2>5, Inductive
<1> QED BY <1>2, <1>3, <1>4, <1>5, <1>6, <1>7 DEF Task

\* Applications, the link and time.
LEMMA EnvironmentStep == IInv /\ Environment => IInv'
<1> SUFFICES ASSUME IInv, Environment PROVE IInv'
  OBVIOUS
<1>1. client \in Clients /\ wifi \in Backend /\ Around /\ Paired(Pair)
  BY TypeParts DEF IInv
<1>2. CASE Connect \/ Disconnect \/ Publish \/ Stop
  <2>1. Around'
    <3>1. CASE Connect
      <4>1. session' \in 0..MaxSessions
        BY <1>1, <3>1, ClientConstants DEF ClientConstants, Around, Connect
      <4> QED BY <1>1, <3>1, <4>1 DEF Around, Connect, conditions, owner
    <3>2. CASE Disconnect \/ Publish \/ Stop
      BY <1>1, <3>2 DEF Around, Disconnect, Publish, Stop, conditions, link, owner
    <3> QED BY <1>2, <3>1, <3>2
  <2>2. UNCHANGED <<client, wifi>>
    BY <1>2 DEF Connect, Disconnect, Publish, Stop
  <2> QED BY <1>1, <2>1, <2>2, PairStays, Inductive
<1>3. ASSUME NEW durable \in BOOLEAN, NEW supported \in BOOLEAN,
             RequestResource(durable, supported)
      PROVE IInv'
  <2> DEFINE begun == [client EXCEPT !.id = @ + 1, !.durable = durable, !.state = "queued"]
  <2>1. client.state = "idle" /\ ~client.cancelled /\ wifi' = wifi
    BY <1>1, <1>3 DEF RequestResource, Busy, Paired, Pair
  <2>2. begun \in Clients /\ begun.state = "queued" /\ ~begun.cancelled
    <3>1. client.id + 1 \in 0..MaxRequests
      BY <1>1, <1>3, ClientConstants DEF ClientConstants, RequestResource, Clients
    <3> QED BY <1>1, <2>1, <3>1 DEF Clients
  <2>3. client' = begun \/ client' = Finish(begun)
    BY <1>3 DEF RequestResource
  <2> HIDE DEF begun
  <2>4. client' \in Clients /\ client'.state # "wifi" /\ ~client'.cancelled
    BY <2>2, <2>3, FinishEnds
  <2>5. Around'
    BY <1>1, <1>3 DEF Around, RequestResource, conditions, link, owner
  <2> QED BY <1>1, <2>1, <2>4, <2>5, ClientMoves, Inductive
<1>4. CASE TakeResourceResponse
  <2>1. /\ client' \in Clients /\ client'.state = client.state
        /\ client'.cancelled = client.cancelled /\ wifi' = wifi
    BY <1>1, <1>4 DEF TakeResourceResponse, Clients
  <2>2. Paired(Pair)'
    BY <1>1, <2>1 DEF Paired, Pair
  <2>3. Around'
    BY <1>1, <1>4 DEF Around, TakeResourceResponse, conditions, link, owner
  <2> QED BY <2>2, <2>3, Inductive
<1>5. ASSUME NEW p \in Policies, SetUserPolicy(p) PROVE IInv'
  <2>1. Around' /\ UNCHANGED <<client, wifi>>
    BY <1>1, <1>5 DEF Around, SetUserPolicy, link, owner
  <2> QED BY <1>1, <2>1, PairStays, Inductive
<1>6. ASSUME NEW b \in BOOLEAN, UpdatePower(b) \/ ConfigureWifi(b) PROVE IInv'
  <2>1. Around' /\ UNCHANGED <<client, wifi>>
    BY <1>1, <1>6 DEF Around, UpdatePower, ConfigureWifi, link, owner
  <2> QED BY <1>1, <2>1, PairStays, Inductive
<1> QED BY <1>2, <1>3, <1>4, <1>5, <1>6 DEF Environment, Policies

\* Time that passes changes deadlines and delays, never who waits for whom.
LEMMA TickStep == IInv /\ Tick => IInv'
<1> SUFFICES ASSUME IInv, Tick PROVE IInv'
  OBVIOUS
<1>1. client \in Clients /\ wifi \in Backend /\ Around /\ Paired(Pair)
  BY TypeParts DEF IInv
<1>2. /\ Earlier(client.phoneBackoff) \in 0..Off /\ Earlier(client.wifiBackoff) \in 0..Off
      /\ (IF client.retryAt > 0 THEN client.retryAt - 1 ELSE 0) \in 0..MaxRetry
      /\ (IF client.deadline > 0 THEN client.deadline - 1 ELSE 0) \in 0..Timeout
  BY <1>1, ClientConstants, BackendConstants
     DEF ClientConstants, BackendConstants, Earlier, Off, Clients
<1>3. /\ client' \in Clients /\ client'.state = client.state
      /\ client'.cancelled = client.cancelled
  BY <1>1, <1>2 DEF Tick, Clients
<1>4. /\ Sound(wifi') /\ wifi'.state = wifi.state /\ wifi'.outcome = wifi.outcome
      /\ wifi'.started = wifi.started
  BY <1>1, WifiTickKeeps DEF Tick, Paired, Pair
<1>5. Paired(Pair)'
  BY <1>1, <1>3, <1>4 DEF Paired, Pair, Sound, Held, Ending, WifiBusy
<1>6. Around'
  BY <1>1 DEF Around, Tick, conditions, link, owner
<1> QED BY <1>5, <1>6, Inductive

\* Every step of the task, of its environment and of time keeps the invariant.
LEMMA ClientStep == IInv /\ [Next]_vars => IInv'
<1> SUFFICES ASSUME IInv, [Next]_vars PROVE IInv'
  OBVIOUS
<1>1. CASE UNCHANGED vars
  <2>1. Around' /\ UNCHANGED <<client, wifi>> /\ Paired(Pair)
    BY <1>1, TypeParts DEF IInv, Around, vars, conditions, link, owner
  <2> QED BY <2>1, PairStays, Inductive
<1> QED BY <1>1, TaskStep, EnvironmentStep, TickStep DEF Next

\* The pair of client and backend is sound in every reachable state.
LEMMA ClientInvariant == Spec => []IInv
BY ClientInit, ClientStep, PTL DEF Spec

\* Type correctness (TypeOK): above all, no delay exceeds MaxRetry, whatever a
\* phone asks for, and no request is numbered past its connection's range.
THEOREM ClientTypes == Spec => []TypeOK
BY ClientInvariant, PTL DEF IInv

\* StationOwned: a burst and the client that waits for it end together, and no
\* station outlives its burst unless its stop was given up.
THEOREM ClientStationOwned == Spec => []StationOwned
<1>1. IInv => StationOwned
  BY DEF IInv, Paired, Pair, Sound, Held, StationOwned
<1> QED BY <1>1, ClientInvariant, PTL

\* ClientSound: both together.
THEOREM ClientIsSound == Spec => []ClientSound
BY ClientTypes, ClientStationOwned, PTL DEF ClientSound

-----------------------------------------------------------------------------
\* Nothing but a poll starts a station or sends a request.
LEMMA OnlyPollsStart ==
    ASSUME IInv, [Next]_vars
    PROVE /\ (~wifi.started /\ wifi'.started) \/ next' > next =>
                (\E failed \in BOOLEAN : PollResource(failed)) \/ PollTail
<1>1. /\ client \in Clients /\ wifi \in Backend /\ Paired(Pair)
      /\ next \in Nat
  BY TypeParts, ClientConstants DEF ClientConstants, IInv, Around
<1>2. CASE UNCHANGED vars
  BY <1>1, <1>2 DEF vars
<1>3. CASE SessionChanged
  BY <1>1, <1>3, TypeParts, ClientConstants
     DEF ClientConstants, SessionChanged, IInv, Around
<1>4. CASE ForgetPeer \/ Negotiate \/ Converge \/ NoFrame
  BY <1>1, <1>4 DEF ForgetPeer, Negotiate, Converge, NoFrame
<1>5. CASE \E frame \in air, transient \in BOOLEAN, asked \in {0, MaxRetry + 1} :
              ProcessResourceResponse(frame, transient, asked)
  BY <1>1, <1>5 DEF ProcessResourceResponse
<1>6. CASE BeginTail
  <2>1. wifi' = Cancel(Pair).w /\ next' = next
    BY <1>6 DEF BeginTail, Pair
  <2>2. Cancel(Pair).w.started = wifi.started
    BY <1>1, CancelPairs DEF Pair
  <2> QED BY <1>1, <2>1, <2>2
<1>7. CASE Environment
  <2>1. wifi' = wifi /\ next' = next
    BY <1>7 DEF Environment, Connect, Disconnect, RequestResource, TakeResourceResponse,
                SetUserPolicy, UpdatePower, ConfigureWifi, Publish, Stop
  <2> QED BY <1>1, <2>1
<1>8. CASE Tick
  <2>1. wifi'.started = wifi.started /\ next' = next
    BY <1>1, <1>8, WifiTickKeeps DEF Tick, Paired, Pair
  <2> QED BY <1>1, <2>1
<1> QED BY <1>2, <1>3, <1>4, <1>5, <1>6, <1>7, <1>8 DEF Next, Task

\* What a poll starts is allowed by the policy and the power it is given, which
\* are those of the moment; the tail, which shuts down, starts nothing.
LEMMA PollsAreStrict ==
    ASSUME IInv,
           (\E failed \in BOOLEAN : PollResource(failed)) \/ PollTail
    PROVE /\ ~wifi.started /\ wifi'.started =>
                /\ policy \in {"automatic", "wifiOnly"} /\ powered
                /\ pc # "tail" /\ ~client.cancelled
          /\ next' > next =>
                /\ policy \in {"automatic", "phoneOnly"}
                /\ pc # "tail" /\ ~client.cancelled
<1>1. /\ client \in Clients /\ wifi \in Backend /\ Around /\ Paired(Pair)
      /\ next \in Nat /\ policy \in Policies
  BY TypeParts, ClientConstants DEF ClientConstants, IInv, Around
<1>2. ASSUME NEW failed \in BOOLEAN, PollResource(failed)
      PROVE /\ ~wifi.started /\ wifi'.started =>
                  /\ policy \in {"automatic", "wifiOnly"} /\ powered
                  /\ pc # "tail" /\ ~client.cancelled
            /\ next' > next =>
                  /\ policy \in {"automatic", "phoneOnly"}
                  /\ pc # "tail" /\ ~client.cancelled
  <2> DEFINE phone == Negotiated /\ ~failed /\ (sync = "converged" \/ client.state = "phone")
             cond == Conditions(phone, FALSE)
  <2>1. /\ cond \in Conds /\ cond.policy = policy /\ cond.powered = powered
        /\ Forbidden(cond) <=> policy = "offline"
    BY <1>1, ConditionsTyped
  <2>2. PICK accepts \in BOOLEAN : \E s \in Polls(cond, accepts) :
            /\ client' = s.c /\ wifi' = s.w
            /\ next' = next \/ (s.c.state = "phone" /\ client.state # "phone")
    BY <1>2 DEF PollResource
  <2>3. PICK s \in Polls(cond, accepts) :
            /\ client' = s.c /\ wifi' = s.w
            /\ next' = next \/ (s.c.state = "phone" /\ client.state # "phone")
    BY <2>2
  <2> HIDE DEF cond
  <2>4. /\ s.w.started /\ ~wifi.started =>
              /\ ~Forbidden(cond) /\ cond.powered /\ cond.policy # "phoneOnly"
              /\ ~client.cancelled
        /\ s.c.state = "phone" /\ client.state # "phone" =>
              ~Forbidden(cond) /\ cond.policy # "wifiOnly" /\ ~client.cancelled
    BY <1>1, <2>1, <2>3, PollsPair DEF Pair
  <2>5. pc = "top"
    BY <1>2 DEF PollResource
  <2> QED BY <1>1, <2>1, <2>3, <2>4, <2>5 DEF Policies
<1>3. CASE PollTail
  <2>1. PICK s \in Polls(Conditions(FALSE, TRUE), FALSE) : wifi' = s.w
    BY <1>3 DEF PollTail
  <2>2. Conditions(FALSE, TRUE) \in Conds /\ Forbidden(Conditions(FALSE, TRUE))
    BY <1>1, ConditionsTyped
  <2>3. ~(s.w.started /\ ~wifi.started)
    BY <1>1, <2>1, <2>2, PollsPair DEF Pair
  <2>4. next' = next
    BY <1>3 DEF PollTail
  <2> QED BY <1>1, <2>1, <2>3, <2>4
<1> QED BY <1>2, <1>3

\* PolicyIsStrict: no station is started and no request is sent against the
\* policy and the power of that moment, nor for a cancelled request.
THEOREM ClientPolicyIsStrict == Spec => PolicyIsStrict
<1> DEFINE Strict ==
        /\ ~wifi.started /\ wifi'.started =>
              /\ policy \in {"automatic", "wifiOnly"} /\ powered
              /\ pc # "tail" /\ ~client.cancelled
        /\ next' > next =>
              /\ policy \in {"automatic", "phoneOnly"}
              /\ pc # "tail" /\ ~client.cancelled
<1>1. IInv /\ [Next]_vars => [Strict]_vars
  BY OnlyPollsStart, PollsAreStrict
<1> QED BY <1>1, ClientInvariant, PTL DEF Spec, PolicyIsStrict

-----------------------------------------------------------------------------
\* While the task is at its frames, only the answer it takes leaves the air and
\* changes the client; the steps of applications, link and time leave the air.
LEMMA OnlyAnswersTaken ==
    ASSUME [Next]_vars, pc = "frames", client' # client, NEW gone \in air \ air'
    PROVE /\ IsAnswer(gone) /\ client.state = "phone" /\ client.id = gone.id
<1>1. ASSUME NEW frame \in air, NEW transient \in BOOLEAN, NEW asked \in {0, MaxRetry + 1},
             ProcessResourceResponse(frame, transient, asked)
      PROVE IsAnswer(gone) /\ client.state = "phone" /\ client.id = gone.id
  <2>1. gone = frame
    BY <1>1 DEF ProcessResourceResponse
  <2> QED BY <1>1, <2>1 DEF ProcessResourceResponse, AcceptPhoneResponse
<1>2. CASE Environment
  <2>1. air' = air
    BY <1>2 DEF Environment, Connect, Disconnect, RequestResource, TakeResourceResponse,
                SetUserPolicy, UpdatePower, ConfigureWifi, Publish, Stop
  <2> QED BY <2>1
<1>3. CASE Tick \/ UNCHANGED vars
  BY <1>3 DEF Tick, vars
<1>4. CASE Negotiate \/ Converge \/ NoFrame
  BY <1>4 DEF Negotiate, Converge, NoFrame
<1>5. ~SessionChanged /\ ~ForgetPeer /\ ~BeginTail /\ ~PollTail
      /\ ~\E failed \in BOOLEAN : PollResource(failed)
  BY DEF SessionChanged, ForgetPeer, BeginTail, PollTail, PollResource
<1> QED BY <1>1, <1>2, <1>3, <1>4, <1>5 DEF Next, Task

\* AnsweredByPhoneAsked: only the phone that was asked answers, over the
\* connection the request went out on, which is up and authorized.
THEOREM ClientAnsweredByPhoneAsked == Spec => AnsweredByPhoneAsked
<1> DEFINE Answered ==
        \A frame \in air \ air' :
            pc = "frames" /\ client' # client =>
                /\ client.state = "phone" /\ client.id = frame.id
                /\ connected /\ frame.session = session /\ authorized = session
<1>1. [Next]_vars => [Answered]_vars
  BY OnlyAnswersTaken DEF IsAnswer
<1> QED BY <1>1, PTL DEF Spec, AnsweredByPhoneAsked

=============================================================================
