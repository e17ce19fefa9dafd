------------------------------ MODULE SelfTest ------------------------------
(***************************************************************************)
(* The hardware tests: DiagnosticsApplication and its controller's pages,   *)
(* Note4SelfTest, which borrows the radio, the codec, the RTC countdown,    *)
(* the LED and the memory of the NFC tag from the running device, and the   *)
(* playback task of the audio test.  The session task goes on publishing    *)
(* its enrollment record on the same tag.                                   *)
(*                                                                         *)
(* "left" is the time left of a test; a poll is a step and may be the last  *)
(* before a button, an answer or the deadline.                              *)
(***************************************************************************)
EXTENDS Naturals

CONSTANTS
    Limit,          \* kInteractiveTimeoutUs, in polls
    RtcAttempts,    \* attempts of the RTC test, and polls of one of them
    FieldPolls,     \* consecutive polls that must see the field
    Rounds,         \* kMaxRounds of the audio test
    MaxFaults       \* bound: calls of the hardware that fail

VARIABLES
    page,           \* DiagnosticsController: the page, and whether all are run
    state,          \* test_states_ of the latest test
    run,            \* the test that runs
    hw,             \* what the tests borrow
    done,           \* a shutdown was requested
    faults

vars == <<page, state, run, hw, done, faults>>

Tests == {"rf", "audio", "rtc", "charge", "led", "buttons", "nfc"}
After == [rf |-> "audio", audio |-> "rtc", rtc |-> "charge", charge |-> "led",
          led |-> "buttons", buttons |-> "nfc", nfc |-> "none"]

NoRun == [test |-> "none", step |-> "none", left |-> 0, count |-> 0, backup |-> "own"]

TypeOK ==
    /\ page \in [at : {"mode", "individual", "running", "summary"}, all : BOOLEAN]
    /\ state \in {"wait", "running", "pass", "fail"}
    /\ run.test \in Tests \cup {"none"} /\ run.left \in Nat /\ run.count \in Nat
    /\ run.step \in {"none", "start", "poll", "play", "joined", "between", "restore"}
    /\ run.backup \in {"own", "record", "url"}
    /\ hw \in [radio : {"off", "on", "stuck"}, codec : {"idle", "borrowed"},
               player : {"none", "playing", "done"}, countdown : {"off", "on", "stuck"}, led : BOOLEAN,
               tag : {"own", "record", "url"}]
    /\ done \in BOOLEAN /\ faults \in 0..MaxFaults

Init ==
    /\ page = [at |-> "mode", all |-> FALSE] /\ state = "wait"
    /\ run = NoRun /\ done = FALSE /\ faults = 0
    /\ hw = [radio |-> "off", codec |-> "idle", player |-> "none", countdown |-> "off",
             led |-> FALSE, tag |-> "own"]

-----------------------------------------------------------------------------
Failing == faults < MaxFaults /\ faults' = faults + 1
Fine == faults' = faults

-----------------------------------------------------------------------------
(* Seeded faults.                                                          *)

\* GivenBack: a test that is cancelled leaves the countdown to run out.
CancelledKeepsCountdown(h, next) == next = h /\ Fine

-----------------------------------------------------------------------------
\* ~EspWifiBackendDriver at the end of RunRf: a radio that does not stop stays claimed.
RadioDestroyed(h, next) ==
    \/ next = [h EXCEPT !.radio = "off"] /\ Fine
    \/ next = [h EXCEPT !.radio = "stuck"] /\ Failing

\* FinishRun: the summary after all of the tests, else the page they were started from.
Finished(cancelled) ==
    [page EXCEPT !.at = IF ~page.all THEN "individual"
                        ELSE IF cancelled THEN "mode" ELSE "summary"]

Begins(t) == [NoRun EXCEPT !.test = t, !.step = "start", !.left = Limit]

\* RecordResult, and what RunAll or RunSelected do with the result.
End(t, result) ==
    LET recorded == CASE result = "cancelled" -> "wait"
                      [] result = "shutdown" -> "running"
                      [] OTHER -> result
    IN /\ state' = recorded
       /\ CASE result = "shutdown" -> run' = NoRun /\ done' = TRUE /\ UNCHANGED page
            [] result = "cancelled" ->
                  run' = NoRun /\ page' = Finished(TRUE) /\ UNCHANGED done
            [] OTHER -> run' = [NoRun EXCEPT !.test = t, !.step = "between"]
                        /\ UNCHANGED <<page, done>>

Cancels(t) == \E result \in {"cancelled", "shutdown"} : End(t, result)

Stays == UNCHANGED <<page, state, done>>

NextPoll(r) == [r EXCEPT !.left = @ - 1]

In(t, step) == run.test = t /\ run.step = step

-----------------------------------------------------------------------------
(* The pages.                                                              *)

Choose ==
    /\ run = NoRun /\ ~done
    /\ \/ /\ page.at = "mode" /\ page' = [at |-> "running", all |-> TRUE]
          /\ run' = Begins("rf") /\ state' = "running"
       \/ /\ page.at = "mode" /\ page' = [page EXCEPT !.at = "individual"]
          /\ UNCHANGED <<run, state>>
       \/ /\ page.at = "individual"
          /\ \E t \in Tests : /\ run' = Begins(t) /\ state' = "running"
                              /\ page' = [at |-> "running", all |-> FALSE]
       \/ /\ page.at \in {"individual", "summary"} /\ page' = [page EXCEPT !.at = "mode"]
          /\ UNCHANGED <<run, state>>
    /\ UNCHANGED <<hw, done, faults>>

\* The wait after a result, in which a button may end the run.
Between ==
    /\ run.step = "between"
    /\ \/ /\ run' = NoRun /\ done' = TRUE /\ UNCHANGED <<page, state>>
       \/ /\ ~page.all \/ After[run.test] = "none"
          /\ run' = NoRun /\ page' = Finished(FALSE) /\ UNCHANGED <<state, done>>
       \/ /\ page.all /\ run' = NoRun /\ page' = Finished(TRUE) /\ UNCHANGED <<state, done>>
       \/ /\ page.all /\ After[run.test] # "none" /\ run' = Begins(After[run.test])
          /\ state' = "running" /\ UNCHANGED <<page, done>>
    /\ UNCHANGED <<hw, faults>>

-----------------------------------------------------------------------------
(* RF: a driver of its own; its destructor stops the radio on every exit.   *)

RfBegins ==
    /\ In("rf", "start")
    /\ \/ /\ hw.radio = "off" /\ hw' = [hw EXCEPT !.radio = "on"]
          /\ run' = [run EXCEPT !.step = "poll"] /\ Stays
       \/ End("rf", "fail") /\ UNCHANGED hw             \* busy, or still claimed
    /\ UNCHANGED faults

RfPolls ==
    /\ In("rf", "poll")
    /\ \/ /\ run.left > 0 /\ run' = NextPoll(run) /\ Stays /\ UNCHANGED <<hw, faults>>
       \/ /\ RadioDestroyed(hw, hw') /\ Cancels("rf")
       \/ /\ RadioDestroyed(hw, hw') /\ End("rf", "fail")   \* scan failed, timeout
       \/ /\ hw' = [hw EXCEPT !.radio = "off"] /\ Fine /\ End("rf", "pass")

-----------------------------------------------------------------------------
(* Audio: a round plays in a task of its own and joins it, however late.    *)

AudioBegins ==
    /\ In("audio", "start")
    /\ \/ End("audio", "fail") /\ UNCHANGED hw              \* no codec, no warm-up
       \/ /\ hw' = [hw EXCEPT !.codec = "borrowed"] /\ run' = [run EXCEPT !.step = "poll"] /\ Stays
    /\ UNCHANGED faults

\* Round over: the next one, or the end of the test.
RoundEnds(pass, h) ==
    IF pass \/ run.count + 1 = Rounds
    THEN End("audio", IF pass THEN "pass" ELSE "fail") /\ hw' = [h EXCEPT !.codec = "idle"]
    ELSE /\ run' = [run EXCEPT !.step = "poll", !.count = @ + 1] /\ Stays /\ hw' = h

RoundBegins ==
    /\ In("audio", "poll")
    /\ \/ /\ hw' = [hw EXCEPT !.player = "playing"] /\ run' = [run EXCEPT !.step = "play"] /\ Stays
       \/ RoundEnds(FALSE, hw)                              \* no capture, no task
    /\ UNCHANGED faults

PlayerEnds == /\ hw.player = "playing" /\ hw' = [hw EXCEPT !.player = "done"]
              /\ UNCHANGED <<page, state, run, done, faults>>

\* The second wait for the player has no timeout.
GoesOn == hw.player = "done"

RoundJoins ==
    /\ In("audio", "play") /\ GoesOn
    /\ \E pass \in BOOLEAN :
         RoundEnds(pass, [hw EXCEPT !.player = IF @ = "done" THEN "none" ELSE @])
    /\ UNCHANGED faults

-----------------------------------------------------------------------------
(* RTC: up to three one-second countdowns.                                  *)

\* StopRtcCountdown, whose error nobody looks at: the countdown may run on.
CountdownStopped(h, next) ==
    \/ next = [h EXCEPT !.countdown = "off"] /\ Fine
    \/ /\ next \in {[h EXCEPT !.countdown = c] : c \in {"off", "stuck"}} /\ Failing
       /\ h.countdown = "off" => next = h

\* StartRtcCountdown: what failed half-way may run as well, and is not waited for.
Attempt(h, r) ==
    \E started \in BOOLEAN :
        /\ run' = [r EXCEPT !.step = "poll", !.left = IF started THEN RtcAttempts ELSE 0]
        /\ hw' \in {[h EXCEPT !.countdown = "on"]} \cup (IF started THEN {} ELSE {h})

RtcBegins ==
    /\ In("rtc", "start")
    /\ \/ End("rtc", "fail") /\ UNCHANGED hw                \* no RTC
       \/ Attempt(hw, run) /\ Stays
    /\ UNCHANGED faults

\* An attempt ends fired, or after two seconds, or without a status, and stops the countdown.
RtcPolls ==
    /\ In("rtc", "poll")
    /\ \/ /\ run.left > 0 /\ run' = NextPoll(run) /\ Stays /\ UNCHANGED <<hw, faults>>
       \/ /\ run.left > 0 /\ (Cancels("rtc") \/ End("rtc", "pass"))
          /\ CountdownStopped(hw, hw')
       \/ /\ run.count + 1 < RtcAttempts /\ Stays
          /\ \E c \in {"off", "on", "stuck"} :
               LET h == [hw EXCEPT !.countdown = c]
               IN CountdownStopped(hw, h) /\ Attempt(h, [run EXCEPT !.count = @ + 1])
       \/ /\ run.count + 1 = RtcAttempts /\ End("rtc", "fail")
          /\ CountdownStopped(hw, hw')

-----------------------------------------------------------------------------
(* Charging, the LED and the buttons.                                       *)

ChargePolls ==
    /\ run.test = "charge" /\ run.step # "between"
    /\ \/ run.left > 0 /\ run' = NextPoll(run) /\ Stays
       \/ Cancels("charge") \/ End("charge", "pass") \/ End("charge", "fail")
    /\ UNCHANGED <<hw, faults>>

LedPolls ==
    /\ run.test = "led" /\ run.step # "between"
    /\ \/ /\ run.left > 0 /\ run' = NextPoll(run) /\ Stays
          /\ \E on \in BOOLEAN : hw' = [hw EXCEPT !.led = on]
       \/ /\ Cancels("led") \/ End("led", "pass") \/ End("led", "fail")
          /\ hw' = [hw EXCEPT !.led = FALSE]
    /\ UNCHANGED faults

\* Three clicks in order; a wrong one starts over.
ButtonsPoll ==
    /\ run.test = "buttons" /\ run.step # "between"
    /\ \/ /\ run.left > 0 /\ run.count < 3
          /\ \E count \in {0, run.count, run.count + 1} :
               run' = [NextPoll(run) EXCEPT !.count = count]
          /\ Stays
       \/ run.count < 3 /\ Cancels("buttons")
       \/ run.count = 3 /\ End("buttons", "pass")
       \/ run.left = 0 /\ run.count < 3 /\ End("buttons", "fail")
    /\ UNCHANGED <<hw, faults>>

-----------------------------------------------------------------------------
(* NFC: the tag's memory is read, overwritten with a URL and put back.      *)

NfcBegins ==
    /\ In("nfc", "start")
    /\ \/ End("nfc", "fail") /\ UNCHANGED hw                \* no chip, no backup
       \/ /\ hw' = [hw EXCEPT !.tag = "url"] /\ Stays
          /\ \E verified \in BOOLEAN :
               run' = [run EXCEPT !.backup = hw.tag,
                                  !.step = IF verified THEN "poll" ELSE "restore"]
    /\ UNCHANGED faults

\* WriteUserData of the backup, whatever is on the tag by now.
Restored(ok) ==
    IF ok THEN hw' = [hw EXCEPT !.tag = run.backup] /\ Fine
    ELSE hw' = [hw EXCEPT !.tag = "url"] /\ Failing

NfcPolls ==
    /\ In("nfc", "poll")
    /\ \/ /\ run.left > 0 /\ run.count < FieldPolls
          /\ \E count \in {0, run.count + 1} : run' = [NextPoll(run) EXCEPT !.count = count]
          /\ Stays /\ UNCHANGED <<hw, faults>>
       \/ (\E ok \in BOOLEAN : Restored(ok)) /\ Cancels("nfc")
       \/ /\ run.left = 0 \/ run.count = FieldPolls
          /\ run' = [run EXCEPT !.step = "restore"] /\ Stays /\ UNCHANGED <<hw, faults>>

NfcEnds ==
    /\ In("nfc", "restore")
    /\ \E ok \in BOOLEAN :
         Restored(ok) /\ End("nfc", IF run.count = FieldPolls /\ ok THEN "pass" ELSE "fail")

\* The session task publishes its record, when it finds no field.
Publish == /\ hw.tag # "record" /\ hw' = [hw EXCEPT !.tag = "record"]
           /\ UNCHANGED <<page, state, run, done, faults>>

-----------------------------------------------------------------------------
Step ==
    \/ Between \/ RfBegins \/ RfPolls \/ AudioBegins \/ RoundBegins \/ RoundJoins
    \/ RtcBegins \/ RtcPolls \/ ChargePolls \/ LedPolls \/ ButtonsPoll
    \/ NfcBegins \/ NfcPolls \/ NfcEnds

Next == Choose \/ Step \/ PlayerEnds \/ Publish

Spec == Init /\ [][Next]_vars

\* A test polls until it is over; the codec takes the samples it was given.
FairSpec == Spec /\ WF_vars(Step) /\ WF_vars(PlayerEnds)

-----------------------------------------------------------------------------
(* Whatever ends a test - a result, a button, the deadline, the shutdown -   *)
(* the device has back what the test borrowed: the LED is off, nobody plays, *)
(* the codec is free; and the radio and the countdown are off and the URL    *)
(* gone from the tag unless the call that should have done it failed.        *)
GivenBack ==
    run.step \in {"none", "between"} =>
        /\ ~hw.led /\ hw.codec = "idle" /\ hw.player = "none"
        /\ hw.countdown # "on"
        /\ hw.radio # "on"
        /\ faults = 0 => hw.radio = "off" /\ hw.countdown = "off" /\ hw.tag # "url"

(* A round never leaves its player behind: while one plays, its round holds  *)
(* the codec and no other round has begun.                                   *)
PlayerJoined == hw.player # "none" => In("audio", "play") /\ hw.codec = "borrowed"

(* A test run ends by itself, with nobody at the buttons.                    *)
RunEnds == run # NoRun ~> run = NoRun
=============================================================================
