--------------------------- MODULE ResourceClient ---------------------------
(***************************************************************************)
(* A resource request of the Note4: ResourceClient chooses the phone or a  *)
(* Wi-Fi burst by ConnectivityPolicy, retries what may be retried and      *)
(* answers the application.  The session task polls it under               *)
(* resource_mutex; applications submit, read and change the conditions     *)
(* under the same mutex between any two of its steps, and the link changes *)
(* at any time: what was polled as connected may be gone when it sends.    *)
(*                                                                         *)
(* Time is what is left until an instant, as in WifiBackend.  The two      *)
(* backoffs are never cleared, so theirs goes round with the clock: Span   *)
(* units are its whole range, and an instant more than half of it ahead is *)
(* one that was reached.  Only what the service can ask is modelled: no    *)
(* request is larger than the phone may carry, and the phone is connected  *)
(* or unavailable, never merely present, so size and urgency of a request  *)
(* decide nothing.                                                         *)
(***************************************************************************)
EXTENDS WifiBackend

CONSTANTS
    MinRetry, DefaultRetry, MaxRetry,   \* RetryDelay's limits
    Span,           \* the range of the clock, 2^32 ms in the code
    ClockWraps,     \* bound: whether it runs for half of its range, 24 days
    MaxRequests,    \* bound: requests of the applications
    MaxSessions,    \* bound: connections of the phone
    MaxSends        \* bound: requests sent in one connection

ASSUME ClientConstants ==
    /\ MinRetry \in Nat \ {0} /\ DefaultRetry \in Nat /\ MaxRetry \in Nat
    /\ Span \in Nat /\ ClockWraps \in BOOLEAN
    /\ MinRetry <= DefaultRetry /\ DefaultRetry <= MaxRetry /\ 2 * MaxRetry < Span
    /\ MaxRequests \in Nat /\ MaxSessions \in Nat /\ MaxSends \in Nat

VARIABLES
    client,         \* ResourceClient
    wifi,           \* WifiBackend
    policy, powered, credentials,   \* resource_conditions, but for phone and shutdown
    stopping,       \* stop_session_task, the negation of initialized
    \* the link and its session
    session, connected,     \* BleLink: the session and whether it is kTransportReady
    authorized,     \* the session whose Hello was accepted, 0: none
    sync,           \* sync_session.Status() and Converged()
    \* the session task
    pc,
    seen,           \* protocol_session_id
    sent,           \* resource_phone_session and resource_sequence
    next,           \* next_outbound_sequence
    air             \* requests on their way to the phone, or its answers back

conditions == <<policy, powered, credentials>>
link == <<session, connected>>
owner == <<seen, authorized, sync>>
vars == <<client, wifi, conditions, stopping, link, owner, pc, sent, next, air>>

Off == Span

TypeOK ==
    /\ client \in [state : {"idle", "queued", "phone", "wifi", "retry"},
                   id : 0..MaxRequests, durable : BOOLEAN, cancelled : BOOLEAN,
                   waiting : BOOLEAN, retryAt : 0..MaxRetry, deadline : 0..Timeout,
                   phoneBackoff : 0..Off, wifiBackoff : 0..Off,
                   ready : BOOLEAN]
    /\ wifi \in Backend
    /\ policy \in {"automatic", "phoneOnly", "wifiOnly", "offline"}
    /\ powered \in BOOLEAN /\ credentials \in BOOLEAN /\ stopping \in BOOLEAN
    /\ session \in 0..MaxSessions /\ connected \in BOOLEAN
    /\ seen \in 0..MaxSessions /\ authorized \in 0..MaxSessions
    /\ sync \in {"none", "active", "converged", "failed"}
    /\ pc \in {"top", "frames", "tail", "done"}
    /\ sent \in [session : 0..MaxSessions, sequence : 0..MaxSends]
    /\ next \in 1..MaxSends + 1
    /\ air \subseteq [session : 1..MaxSessions, sequence : 1..MaxSends, id : 0..MaxRequests]

\* Initialize: the battery counts as empty until UpdatePower.
Init ==
    /\ client = [state |-> "idle", id |-> 0, durable |-> FALSE, cancelled |-> FALSE,
                 waiting |-> FALSE, retryAt |-> 0, deadline |-> 0,
                 phoneBackoff |-> Off, wifiBackoff |-> Off,
                 ready |-> FALSE]
    /\ wifi = Stopped
    /\ policy \in {"automatic", "phoneOnly", "wifiOnly", "offline"}
    /\ powered = FALSE /\ credentials \in BOOLEAN /\ stopping = FALSE
    /\ session = 0 /\ connected = FALSE
    /\ seen = 0 /\ authorized = 0 /\ sync = "none"
    /\ pc = "top"
    /\ sent = [session |-> 0, sequence |-> 0] /\ next = 1 /\ air = {}

-----------------------------------------------------------------------------
(* Seeded faults, each with the property it breaks.                        *)

\* AnsweredByPhoneAsked: the frame is not checked against the link.
IsAnswerOfRequest(f) ==
    sent = [session |-> f.session, sequence |-> f.sequence] /\ authorized = f.session

-----------------------------------------------------------------------------
(* Time and delays.                                                        *)

\* RetryDelay: the phone or the policy asks for a delay, 0 for none.
RetryDelay(asked) ==
    CASE asked = 0 -> DefaultRetry
      [] asked > MaxRetry -> MaxRetry
      [] OTHER -> IF asked < MinRetry THEN MinRetry ELSE asked

\* Remaining, of a backoff: a signed difference of two unsigned instants.
Remaining(backoff) == IF backoff = Off \/ 2 * backoff > Span THEN 0 ELSE backoff

\* A backoff one unit later; without the wrap one that was reached is over.
Earlier(backoff) ==
    IF backoff = Off \/ (~ClockWraps /\ backoff = 1) THEN Off
    ELSE IF backoff = 0 THEN Span - 1 ELSE backoff - 1

Tick ==
    /\ client' = [client EXCEPT
            !.retryAt = IF @ > 0 THEN @ - 1 ELSE 0,
            !.deadline = IF @ > 0 THEN @ - 1 ELSE 0,
            !.phoneBackoff = Earlier(@), !.wifiBackoff = Earlier(@)]
    /\ wifi' = WifiTick(wifi)
    /\ UNCHANGED <<conditions, stopping, link, owner, pc, sent, next, air>>

-----------------------------------------------------------------------------
(* ConnectivityPolicy.  "cond" is what Poll is given: the conditions, with *)
(* the phone and the shutdown that the caller adds.                        *)

Forbidden(cond) == cond.shutdown \/ cond.policy = "offline"

\* ResourceClient::Conditions: a backend that was given up has no credentials.
HasWifi(w, cond) == cond.credentials /\ w.state # "stopFailed"

\* The path, and for "defer" the delay asked for.
Decide(c, w, cond) ==
    LET phoneWait == Remaining(c.phoneBackoff)
        wifiWait == Remaining(c.wifiBackoff)
        phoneReady == cond.phone /\ phoneWait = 0
        wifiReady == HasWifi(w, cond) /\ cond.powered /\ wifiWait = 0
        Path(path) == [path |-> path, retry |-> 0]
        Defer(delay) == [path |-> "defer", retry |-> delay]
        noPath == IF phoneWait # 0 /\ wifiWait # 0
                  THEN IF phoneWait < wifiWait THEN phoneWait ELSE wifiWait
                  ELSE IF ~HasWifi(w, cond) THEN phoneWait
                  ELSE IF ~cond.powered THEN 0 ELSE wifiWait
    IN IF Forbidden(cond) THEN Defer(0)
       ELSE IF cond.policy # "wifiOnly" /\ phoneReady THEN Path("phone")
       ELSE IF cond.policy # "phoneOnly" /\ wifiReady THEN Path("wifi")
       ELSE CASE cond.policy = "phoneOnly" -> Defer(phoneWait)
              [] cond.policy = "wifiOnly" ->
                    Defer(IF HasWifi(w, cond) /\ cond.powered THEN wifiWait ELSE 0)
              [] cond.policy = "automatic" -> Defer(noPath)

-----------------------------------------------------------------------------
(* ResourceClient.                                                         *)

Busy(c) == c.state # "idle"

\* The last response: all that mattered for the request is over.
Finish(c) == [c EXCEPT !.state = "idle", !.ready = TRUE, !.deadline = 0, !.waiting = FALSE,
                       !.retryAt = 0, !.durable = FALSE, !.cancelled = FALSE]

\* An attempt ended.  IsTransientResourceStatus: unavailable, offline, timeout.
CompleteAttempt(c, transient, asked) ==
    LET retry == [c EXCEPT !.state = "retry", !.deadline = 0]
    IN IF ~transient \/ c.cancelled THEN Finish(c)
       ELSE IF c.state = "phone" THEN [retry EXCEPT !.phoneBackoff = RetryDelay(asked)]
       ELSE [retry EXCEPT !.wifiBackoff = RetryDelay(asked)]

PhoneDisconnected(c) == IF c.state = "phone" THEN CompleteAttempt(c, TRUE, 0) ELSE c

\* Cancel, of the client and the backend.
Cancel(s) ==
    LET c == [s.c EXCEPT !.cancelled = TRUE, !.ready = FALSE]
    IN CASE ~Busy(s.c) -> s
         [] s.c.state = "wifi" -> [c |-> c, w |-> WifiCancel(s.w)]
         [] OTHER -> [s EXCEPT !.c = Finish(c)]

-----------------------------------------------------------------------------
(* Poll, in the order of its code.                                         *)

\* Seeded fault of PolicyIsStrict: a burst is left to its end.
PollForbiddenButWifi(s, cond) ==
    IF Forbidden(cond) /\ s.c.state # "wifi" THEN Cancel(s) ELSE s

\* Offline and shutdown end a request at once.
PollForbidden(s, cond) == IF Forbidden(cond) /\ ~s.c.cancelled THEN Cancel(s) ELSE s

\* A policy that no longer allows Wi-Fi ends the burst, not the request.
PollWifi(s, cond) ==
    IF s.c.state # "wifi" THEN {s}
    ELSE LET denied == ~cond.powered \/ cond.policy = "phoneOnly"
             Taken(w) == [c |-> CompleteAttempt(s.c, w.op = "failed", 0), w |-> TakeOutcome(w)]
         IN {IF w.outcome THEN Taken(w) ELSE [s EXCEPT !.w = w] :
                w \in WifiPoll(IF denied THEN WifiCancel(s.w) ELSE s.w)}

PollPhone(s, cond) ==
    IF s.c.state # "phone" THEN s
    ELSE IF ~cond.phone \/ cond.policy = "wifiOnly" THEN [s EXCEPT !.c = PhoneDisconnected(@)]
    ELSE IF s.c.deadline = 0 THEN [s EXCEPT !.c = CompleteAttempt(@, TRUE, 0)]
    ELSE s

\* No path: a durable request waits and says so, any other one ends.
Deferred(c, cond, asked) ==
    IF c.waiting /\ c.retryAt > 0 THEN c
    ELSE IF c.durable /\ ~Forbidden(cond) /\ ~c.cancelled
    THEN [c EXCEPT !.ready = TRUE, !.waiting = TRUE, !.retryAt = RetryDelay(asked),
                   !.state = "queued"]
    ELSE Finish(c)

\* A path: the notice of a retry, read or not, is withdrawn.
Attempt(s, path, accepted) ==
    LET c == [s.c EXCEPT !.ready = FALSE, !.waiting = FALSE, !.retryAt = 0, !.state = path]
    IN IF ~accepted THEN [s EXCEPT !.c = CompleteAttempt(c, TRUE, 0)]
       ELSE IF path = "phone" THEN [s EXCEPT !.c = [c EXCEPT !.deadline = Timeout]]
       ELSE [c |-> c, w |-> WifiBegin(s.w)]

\* One attempt is chosen at most; an attempt under way is left alone.
Select(s, cond, phoneAccepts) ==
    LET decision == Decide(s.c, s.w, cond)
    IN IF s.c.state \notin {"queued", "retry"} THEN s
       ELSE CASE decision.path = "defer" -> [s EXCEPT !.c = Deferred(@, cond, decision.retry)]
              [] decision.path = "phone" -> Attempt(s, "phone", phoneAccepts)
              [] decision.path = "wifi" -> Attempt(s, "wifi", WifiAccepts(s.w))

\* The states Poll may leave the client and the backend in.
Polls(cond, phoneAccepts) ==
    {Select(PollPhone(s, cond), cond, phoneAccepts) :
        s \in PollWifi(PollForbidden([c |-> client, w |-> wifi], cond), cond)}

-----------------------------------------------------------------------------
(* The session task.                                                       *)

Conditions(phone, shutdown) ==
    [phone |-> phone, policy |-> policy, powered |-> powered, credentials |-> credentials,
     shutdown |-> shutdown]

\* IsSessionPeerAuthorized and protocol_negotiated_local.
Negotiated == connected /\ authorized = session /\ authorized # 0

\* SendResource looks at the link again, so it may fail where the poll saw the
\* phone; it may fail below as well.
CanSend == Negotiated /\ sync = "converged" /\ next <= MaxSends

SendResource ==
    /\ sent' = [session |-> session, sequence |-> next] /\ next' = next + 1
    /\ air' = air \cup {[session |-> session, sequence |-> next, id |-> client.id]}

\* A failed sync session loses its authorization and its connection.
SyncFails(failed) ==
    /\ failed => Negotiated
    /\ authorized' = IF failed THEN 0 ELSE authorized
    /\ sync' = IF failed THEN "failed" ELSE sync

\* PollResource of a link whose session was noticed.  What may change between
\* the look at the link and the poll, the link alone, shows in CanSend.
PollResource(failed) ==
    LET phone == Negotiated /\ ~failed /\ (sync = "converged" \/ client.state = "phone")
        cond == Conditions(phone, FALSE)
    IN /\ pc = "top" /\ ~stopping /\ session = seen
       /\ SyncFails(failed)
       /\ \/ \E s \in Polls(cond, FALSE) :
                client' = s.c /\ wifi' = s.w /\ UNCHANGED <<sent, next, air>>
          \/ \E s \in Polls(cond, TRUE) :
                /\ CanSend /\ s.c.state = "phone" /\ client.state # "phone"
                /\ client' = s.c /\ wifi' = s.w /\ SendResource
       /\ pc' = "frames"
       /\ UNCHANGED <<conditions, stopping, link, seen>>

\* ClearPeerBonds, refused while a phone is connected: the identity is gone.
ForgetPeer ==
    /\ pc = "top" /\ ~stopping /\ ~connected
    /\ client' = PhoneDisconnected(client)
    /\ authorized' = 0 /\ sync' = "failed"
    /\ UNCHANGED <<wifi, conditions, stopping, link, seen, pc, sent, next, air>>

\* ResourceSessionChanged: a new session ends what the last one had agreed on.
\* The callback that ended the last one had emptied its queue.
SessionChanged ==
    /\ pc = "top" /\ ~stopping /\ session # seen
    /\ client' = PhoneDisconnected(client)
    /\ seen' = session /\ authorized' = 0 /\ sync' = "none"
    /\ sent' = [session |-> 0, sequence |-> 0] /\ next' = 1 /\ air' = {}
    /\ UNCHANGED <<wifi, conditions, stopping, link, pc>>

\* Hello accepted (one of a session the loop top has not seen is as good as
\* none: SessionChanged ends it), or the sync session now agrees with the phone.
Negotiate ==
    /\ pc = "frames" /\ connected /\ session = seen /\ sync = "none"
    /\ authorized' = session /\ sync' = "active" /\ pc' = "top"
    /\ UNCHANGED <<client, wifi, conditions, stopping, link, seen, sent, next, air>>

Converge ==
    /\ pc = "frames" /\ Negotiated /\ sync = "active"
    /\ sync' = "converged" /\ pc' = "top"
    /\ UNCHANGED <<client, wifi, conditions, stopping, link, seen, authorized, sent, next, air>>

\* No frame; a link that is down is no longer negotiated, and the callback
\* that ended it has emptied its queue.
NoFrame ==
    /\ pc = "frames"
    /\ authorized' = IF connected THEN authorized ELSE 0
    /\ air' = IF connected THEN air ELSE {}
    /\ pc' = "top"
    /\ UNCHANGED <<client, wifi, conditions, stopping, link, seen, sync, sent, next>>

\* An answer that comes too late counts as a timeout.
AcceptPhoneResponse(c, id, transient, asked) ==
    IF c.state # "phone" \/ c.id # id \/ c.cancelled THEN c
    ELSE IF c.deadline = 0 THEN CompleteAttempt(c, TRUE, 0)
    ELSE CompleteAttempt(c, transient, asked)

\* ProcessResourceResponse: the frame is checked against the request that was
\* sent and, under the link lock, against the link.
IsAnswer(f) ==
    /\ sent = [session |-> f.session, sequence |-> f.sequence]
    /\ connected /\ session = f.session
    /\ authorized = f.session

\* The phone answers any request it got, at any time; the answer may be in the
\* task's hands when its connection ends.  A phone may ask for any delay: one
\* that is none, one that is too long.
ProcessResourceResponse(frame, transient, asked) ==
    /\ pc = "frames" /\ authorized # 0
    /\ client' = IF IsAnswer(frame) THEN AcceptPhoneResponse(client, frame.id, transient, asked)
                 ELSE client
    /\ air' = air \ {frame} /\ pc' = "top"
    /\ UNCHANGED <<wifi, conditions, stopping, link, owner, sent, next>>

\* After the stop the request is cancelled and the burst polled to its end.
BeginTail ==
    LET s == Cancel([c |-> client, w |-> wifi])
    IN /\ pc = "top" /\ stopping
       /\ client' = s.c /\ wifi' = s.w /\ pc' = "tail"
       /\ UNCHANGED <<conditions, stopping, link, owner, sent, next, air>>

PollTail ==
    /\ pc = "tail"
    /\ \E s \in Polls(Conditions(FALSE, TRUE), FALSE) :
          /\ client' = s.c /\ wifi' = s.w
          /\ pc' = IF WifiBusy(s.w) THEN "tail" ELSE "done"
    /\ UNCHANGED <<conditions, stopping, link, owner, sent, next, air>>

-----------------------------------------------------------------------------
(* The link.                                                               *)

Connect ==
    /\ ~connected /\ session < MaxSessions
    /\ session' = session + 1 /\ connected' = TRUE
    /\ UNCHANGED <<client, wifi, conditions, stopping, owner, pc, sent, next, air>>

Disconnect ==
    /\ connected
    /\ connected' = FALSE
    /\ UNCHANGED <<client, wifi, conditions, stopping, session, owner, pc, sent, next, air>>

-----------------------------------------------------------------------------
(* The applications; after Stop they are refused.                          *)

\* Begin; a capability the client does not know is refused at once.
RequestResource(durable, supported) ==
    LET begun == [client EXCEPT !.id = @ + 1, !.durable = durable, !.state = "queued"]
    IN /\ ~stopping /\ client.id < MaxRequests
       /\ ~Busy(client) /\ ~client.ready
       /\ client' = IF supported THEN begun ELSE Finish(begun)
       /\ UNCHANGED <<wifi, conditions, stopping, link, owner, pc, sent, next, air>>

TakeResourceResponse ==
    /\ client.ready
    /\ client' = [client EXCEPT !.ready = FALSE]
    /\ UNCHANGED <<wifi, conditions, stopping, link, owner, pc, sent, next, air>>

SetUserPolicy(p) ==
    /\ ~stopping
    /\ policy' = p
    /\ UNCHANGED <<client, wifi, powered, credentials, stopping, link, owner, pc,
                   sent, next, air>>

\* Called by the task that calls Stop.
UpdatePower(p) ==
    /\ ~stopping
    /\ powered' = p
    /\ UNCHANGED <<client, wifi, policy, credentials, stopping, link, owner, pc,
                   sent, next, air>>

\* ConfigureWifi and ClearWifiConfiguration, refused during a burst.
ConfigureWifi(available) ==
    /\ ~stopping /\ ~WifiBusy(wifi)
    /\ credentials' = available
    /\ UNCHANGED <<client, wifi, policy, powered, stopping, link, owner, pc,
                   sent, next, air>>

\* An application publishes an update, and the session has yet to deliver it.
Publish ==
    /\ sync = "converged" /\ sync' = "active"
    /\ UNCHANGED <<client, wifi, conditions, stopping, link, seen, authorized, pc,
                   sent, next, air>>

Stop ==
    /\ ~stopping /\ stopping' = TRUE
    /\ UNCHANGED <<client, wifi, conditions, link, owner, pc, sent, next, air>>

-----------------------------------------------------------------------------
Task ==
    \/ SessionChanged \/ ForgetPeer
    \/ \E failed \in BOOLEAN : PollResource(failed)
    \/ Negotiate \/ Converge \/ NoFrame
    \/ \E frame \in air, transient \in BOOLEAN, asked \in {0, MaxRetry + 1} :
            ProcessResourceResponse(frame, transient, asked)
    \/ BeginTail \/ PollTail

Environment ==
    \/ Connect \/ Disconnect
    \/ \E durable, supported \in BOOLEAN : RequestResource(durable, supported)
    \/ TakeResourceResponse
    \/ \E p \in {"automatic", "phoneOnly", "wifiOnly", "offline"} : SetUserPolicy(p)
    \/ \E b \in BOOLEAN : UpdatePower(b) \/ ConfigureWifi(b)
    \/ Publish \/ Stop

Next == Task \/ Environment \/ Tick

Spec == Init /\ [][Next]_vars

\* The task does not stop before it is done; time passes.
FairSpec ==
    /\ Spec
    /\ WF_vars(SessionChanged \/ (\E failed \in BOOLEAN : PollResource(failed)) \/ NoFrame \/ BeginTail \/ PollTail)
    /\ WF_vars(Tick)

-----------------------------------------------------------------------------
(* Properties.                                                             *)

\* A burst belongs to the request that waits for it: no client waits for one
\* that is over, and no station runs on, whatever failed, was cancelled or was
\* answered, unless it could not be stopped and the backend was given up.
StationOwned ==
    /\ client.state = "wifi" <=> WifiBusy(wifi) \/ wifi.outcome
    /\ wifi.started => WifiBusy(wifi) \/ wifi.state = "stopFailed"

\* The same, with delays and timers within their bounds whatever a phone asks for
\* (note4_resource_client.cc RetryDelay, note4_wifi_backend.cc).
ClientSound == TypeOK /\ StationOwned

\* The user's policy is strict (CONNECTIVITY_CONTRACT.md:28-29), also when it
\* changes after the path was chosen: no station is started and no request is
\* sent against the policy and the power of that moment, nor for a request
\* that was cancelled by a policy that has changed back.
PolicyIsStrict ==
    [][/\ ~wifi.started /\ wifi'.started =>
            /\ policy \in {"automatic", "wifiOnly"} /\ powered
            /\ pc # "tail" /\ ~client.cancelled
       /\ next' > next =>
            /\ policy \in {"automatic", "phoneOnly"}
            /\ pc # "tail" /\ ~client.cancelled]_vars

\* Only the phone that was asked answers: over the connection the request went
\* out on, which is up and whose Hello was accepted, and while it is awaited.
AnsweredByPhoneAsked ==
    [][\A frame \in air \ air' :
            pc = "frames" /\ client' # client =>
                /\ client.state = "phone" /\ client.id = frame.id
                /\ connected /\ frame.session = session /\ authorized = session]_vars

\* After Stop the task ends, with the request over and the station down, or
\* given up when it did not stop in time.
ShutdownEnds ==
    stopping ~> /\ pc = "done" /\ ~Busy(client)
                /\ wifi.started => wifi.state = "stopFailed"

\* What the contract says of the retries (CONNECTIVITY_CONTRACT.md:306-308): a
\* path is held back for five minutes at the most.
BackoffBounded ==
    Remaining(client.phoneBackoff) <= MaxRetry /\ Remaining(client.wifiBackoff) <= MaxRetry
=============================================================================
