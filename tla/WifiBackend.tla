---------------------------- MODULE WifiBackend ----------------------------
(***************************************************************************)
(* note4_wifi_backend.cc: one Wi-Fi burst from its start to the stop of    *)
(* the station, advanced by Poll.  The operators map the backend's state   *)
(* to the states one of its calls may leave it in, over what the driver    *)
(* may answer; ResourceClient makes the calls.                             *)
(*                                                                         *)
(* A deadline is the time left until it, 0 when it was reached: a burst is *)
(* polled every 20 ms, so it never misses one by half the range of the     *)
(* clock.  "connecting" stands for the four phases from association to TLS *)
(* which differ in the call they poll only.  Credentials and the body are  *)
(* left out.                                                               *)
(***************************************************************************)
EXTENDS Naturals

CONSTANTS
    Timeout,        \* timeout_ms of a request, in units of time
    StopTimeout     \* kStopTimeoutMs

ASSUME BackendConstants == Timeout \in Nat \ {0} /\ StopTimeout \in Nat

\* WifiOperationResult: "failed" are the results a client may retry, a timeout
\* and a cancellation among them; "rejected" those it may not.
Operation == {"none", "success", "failed", "rejected"}
Running == {"connecting", "transferring"}

Backend ==
    [state : {"stopped", "loading", "starting", "stopping", "stopFailed"} \cup Running,
     op : Operation,            \* outcome_.operation
     started : BOOLEAN,         \* station_started_
     outcome : BOOLEAN,         \* outcome_ready_
     deadline : 0..Timeout, stopDeadline : 0..StopTimeout,
     age : 0..StopTimeout]      \* time since current_ms_

Stopped == [state |-> "stopped", op |-> "none", started |-> FALSE, outcome |-> FALSE,
            deadline |-> 0, stopDeadline |-> 0, age |-> 0]

WifiBusy(w) == w.state \notin {"stopped", "stopFailed"}

-----------------------------------------------------------------------------
(* Seeded faults, each with the property it breaks.                        *)

\* StationOwned: a burst that fails is over, whether the station runs or not.
FailAtOnce(w, op) == [w EXCEPT !.op = op, !.state = "stopped", !.outcome = TRUE, !.deadline = 0]

\* ShutdownEnds: a station that does not stop is asked again without end.
StopNowForEver(w) ==
    {[w EXCEPT !.started = FALSE, !.state = "stopped", !.outcome = TRUE, !.stopDeadline = 0], w}

-----------------------------------------------------------------------------
\* The stop window counts from current_ms_, the last Poll.
BeginStopping(w) ==
    IF w.state = "stopping" THEN w
    ELSE [w EXCEPT !.state = "stopping", !.deadline = 0, !.stopDeadline = StopTimeout - w.age]

\* The first failure is the result; one that comes after a success replaces it.
Fail(w, op) ==
    LET failed == [w EXCEPT !.op = IF @ \in {"none", "success"} THEN op ELSE @]
    IN IF w.started THEN BeginStopping(failed)
       ELSE [failed EXCEPT !.state = "stopped", !.outcome = TRUE, !.deadline = 0]

Failures(w) == {Fail(w, op) : op \in {"failed", "rejected"}}

\* A station that does not stop is asked again until the deadline, then the
\* backend is given up.
StopNow(w) ==
    {[w EXCEPT !.started = FALSE, !.state = "stopped", !.outcome = TRUE, !.stopDeadline = 0],
     IF w.stopDeadline = 0 THEN [w EXCEPT !.state = "stopFailed", !.outcome = TRUE] ELSE w}

WifiBegin(w) == [Stopped EXCEPT !.state = "loading", !.deadline = Timeout]

WifiAccepts(w) == w.state = "stopped" /\ ~w.outcome

\* What one phase may come to.  StopStation is called by the poll after the
\* one that began to stop, or by this one when it met the deadline.
Advance(w) ==
    CASE w.state = "loading" -> {[w EXCEPT !.state = "starting"]} \cup Failures(w)
      [] w.state = "starting" ->
            {[w EXCEPT !.started = TRUE, !.state = "connecting"]} \cup Failures(w)
      [] w.state = "connecting" -> {w, [w EXCEPT !.state = "transferring"]} \cup Failures(w)
      [] w.state = "transferring" ->
            {w, BeginStopping([w EXCEPT !.op = "success"])} \cup Failures(w)
      [] w.state = "stopping" -> StopNow(w)
      [] OTHER -> {w}

WifiPoll(w) ==
    LET now == [w EXCEPT !.age = 0]
        late == w.state # "stopping" /\ w.deadline = 0
    IN IF ~WifiBusy(w) THEN {w} ELSE Advance(IF late THEN Fail(now, "failed") ELSE now)

WifiCancel(w) ==
    IF WifiBusy(w) /\ w.state # "stopping" THEN Fail(w, "failed") ELSE w

TakeOutcome(w) == [w EXCEPT !.op = "none", !.outcome = FALSE, !.age = 0]

\* One unit of time.
WifiTick(w) ==
    LET Left(time) == IF time > 0 THEN time - 1 ELSE 0
    IN [w EXCEPT !.deadline = Left(@), !.stopDeadline = Left(@),
                 !.age = IF WifiBusy(w) /\ @ < StopTimeout THEN @ + 1 ELSE @]
=============================================================================
