---------------------------- MODULE TimeKeeping ----------------------------
(***************************************************************************)
(* The device's time of day: TimeService (note4_time_service.cc) above the *)
(* PCF8563 clock chip (rtc_pcf8563.cc) and the settings store.             *)
(*                                                                         *)
(* The chip keeps a LOCAL calendar and the settings store keeps the offset *)
(* from UTC: two places, written one after the other, that mean something  *)
(* only together.  Every chip register write and the settings write is a   *)
(* step here, may fail with or without effect, and power may go between    *)
(* any two.  The chip's STOP bit is what marks a calendar that must not be *)
(* trusted.                                                                *)
(*                                                                         *)
(* A time is its distance from the true time, so a clock that counts keeps *)
(* its value and a calendar that stands still becomes Torn.                *)
(***************************************************************************)
EXTENDS Integers, FiniteSets

CONSTANTS Times,      \* times somebody may give: their distance from the truth
          Offsets,    \* UTC offsets somebody may give
          Legacy,     \* the local time a chip set by older firmware shows
          Torn,       \* a calendar that is nobody's time
          None,       \* no time, no offset
          Step,       \* the largest correction HTTPS may make (300 s)
          Hold,       \* kTimeAuthorityHoldUs
          Life,       \* kTimeSampleLifetimeUs
          Retry,      \* kRetryIntervalUs
          FailedSaves, \* what a failed settings write may have done
          MaxFaults   \* bound on failed chip and settings operations, and crashes

VARIABLES chip,      \* [stop, low, calendar]: the clock chip, kept by its battery
          setting,   \* rtc_utc_offset in NVS
          clock,     \* the system clock
          status,    \* status_ and stored_offset_*
          sync,      \* sync_.source, and how long ago it was accepted
          local,     \* local_rtc_seconds_: a chip time shown without an offset
          retry,     \* time left until next_retry_us_
          sample,    \* a time sample on its way, with its age; or None
          pc,        \* where the foreground task is
          faults

vars == <<chip, setting, clock, status, sync, local, retry, sample, pc, faults>>

Sources == {"none", "rtc", "https", "phone", "manual"}

(* The order of enum SyncSource: authority grows. *)
Authority(s) == CASE s = "none" -> 0 [] s = "rtc" -> 1 [] s = "https" -> 2
                  [] s = "phone" -> 3 [] s = "manual" -> 4

Blank == [offset |-> 0, known |-> FALSE, persisted |-> FALSE,
          pending |-> FALSE, stored |-> None]

NoSync == [source |-> "none", age |-> 0]

Samples == [time : Times, offset : Offsets \cup {None},
            source : {"https", "phone"}, age : 0 .. Life + 1]

NoSample == [time |-> None, offset |-> None, source |-> "https", age |-> 0]

(* A device as it comes to this firmware: no offset stored, the chip blank *)
(* or counting a local time of older firmware.                             *)
Init ==
    /\ chip \in [stop : {FALSE}, low : {TRUE}, calendar : {Torn}]
                \cup [stop : {FALSE}, low : {FALSE}, calendar : {Legacy}]
    /\ setting = None
    /\ clock = None
    /\ status = Blank
    /\ sync = NoSync
    /\ local = None
    /\ retry = 0
    /\ sample = NoSample
    /\ pc = "boot"
    /\ faults = 0

MayFail == faults < MaxFaults
Fails == MayFail /\ faults' = faults + 1
Works == UNCHANGED faults

-----------------------------------------------------------------------------
(* The chip, one register transaction at a time. *)

(* The seconds register carries the low-voltage bit: writing the calendar  *)
(* clears it.                                                              *)
Set(c, value) == [c EXCEPT !.calendar = value, !.low = FALSE]

(* Seeded fault: the calendar is rewritten in place, the clock running. *)
StoppedNot(c) == c

(* A stopped calendar keeps its registers but no longer the time. *)
Stopped(c) == [c EXCEPT !.stop = TRUE, !.calendar = Torn]

(* RtcPcf8563::GetTime through TimeService::ReadRtc: refused while stopped *)
(* or after its supply failed.  Nothing in the registers says a counting   *)
(* calendar is torn, so a torn one is read as it is.                       *)
Readable(c) == ~c.stop /\ ~c.low

-----------------------------------------------------------------------------
(* TimeService::Restore, at start and again from Poll. *)
Restored(loaded, readable) ==
    LET known == loaded /\ setting # None
        state == IF known
                   THEN [status EXCEPT !.offset = setting, !.known = TRUE, !.stored = setting]
                   ELSE [status EXCEPT !.stored = None]
    IN  IF ~readable
          THEN /\ status' = state
               /\ UNCHANGED <<local, clock, sync>>
          ELSE /\ local' = chip.calendar
               /\ IF ~known
                    THEN status' = state /\ UNCHANGED <<clock, sync>>
                    ELSE /\ clock' = IF chip.calendar = Torn THEN Torn
                                       ELSE chip.calendar - setting
                         /\ status' = [state EXCEPT !.persisted = TRUE]
                         /\ sync' = [source |-> "rtc", age |-> 0]

RestoreStep ==
    \E loaded, readable \in BOOLEAN :
        /\ readable => Readable(chip)
        /\ IF loaded /\ (readable <=> Readable(chip)) THEN Works ELSE Fails
        /\ Restored(loaded, readable)

(* Platform start: the time service before connectivity. *)
Initialize ==
    /\ pc = "boot"
    /\ RestoreStep
    /\ retry' = Retry
    /\ pc' = "idle"
    /\ UNCHANGED <<chip, setting, sample>>

-----------------------------------------------------------------------------
(* Calibrate: the system clock at once, the chip and the offset after. *)
Calibrated(time, offset, known) ==
    /\ clock' = time
    /\ local' = None
    /\ status' = [status EXCEPT !.offset = offset, !.known = known,
                                !.persisted = FALSE, !.pending = known]
    /\ retry' = Retry
    /\ pc' = IF known THEN "stop" ELSE "idle"

(* SetUnixTime and SetLocalTime: the user, in the clock's editor or over   *)
(* the maintenance console.  An offset is always given with them.          *)
SetByHand ==
    /\ pc = "idle"
    /\ \E time \in Times, offset \in Offsets :
          /\ Calibrated(time, offset, TRUE)
          /\ sync' = [source |-> "manual", age |-> 0]
    /\ UNCHANGED <<chip, setting, sample, faults>>

(* A sample leaves the phone, its offset with it, or an HTTPS answer's     *)
(* Date header is parsed (ParseHttpDate, which knows no offset).           *)
Sampled ==
    /\ sample = NoSample
    /\ sample' \in {s \in Samples : s.age = 0 /\ (s.source = "https" <=> s.offset = None)}
    /\ UNCHANGED <<chip, setting, clock, status, sync, local, retry, pc, faults>>

Distance(a, b) == IF a > b THEN a - b ELSE b - a

(* A clock nobody set is not a base for a coarse server date, nor is one   *)
(* too far from it.                                                        *)
ExcessiveStep(s) ==
    s.source = "https" /\ (clock \in {None, Torn} \/ Distance(s.time, clock) > Step)

(* A stale answer (a phone's sample is dated when it is applied,           *)
(* note4_platform.cc:351), or a sample of a lesser authority while a       *)
(* greater one holds.                                                      *)
Refuses(s) ==
    \/ s.source = "https" /\ s.age > Life
    \/ Authority(s.source) < Authority(sync.source) /\ sync.age < Hold
    \/ ExcessiveStep(s)

(* TimeService::ApplySample. *)
ApplySample ==
    LET offset == IF sample.offset # None THEN sample.offset ELSE status.offset
        known == sample.offset # None \/ status.known
    IN  /\ pc = "idle"
        /\ sample # NoSample
        /\ sample' = NoSample
        /\ IF Refuses(sample)
             THEN UNCHANGED <<clock, local, status, retry, pc, sync>>
             ELSE /\ sync' = [source |-> sample.source, age |-> 0]
                  /\ IF clock = sample.time /\ offset = status.offset /\ known = status.known
                       THEN UNCHANGED <<clock, local, status, retry, pc>>
                       ELSE Calibrated(sample.time, offset, known)
        /\ UNCHANGED <<chip, setting, faults>>

(* A calibration the chip has not taken yet. *)
Unsaved == status.pending

(* TimeService::Poll, when its minute has passed. *)
Poll ==
    /\ pc = "idle"
    /\ retry = 0
    /\ retry' = Retry
    /\ IF Unsaved
         THEN /\ pc' = "stop"
              /\ UNCHANGED <<status, local, clock, sync, faults>>
         ELSE /\ pc' = "idle"
              /\ IF ~status.persisted /\ Authority(sync.source) <= Authority("rtc")
                   THEN RestoreStep
                   ELSE UNCHANGED <<status, local, clock, sync, faults>>
    /\ UNCHANGED <<chip, setting, sample>>

-----------------------------------------------------------------------------
(* Persist, step by step.  A failure returns and leaves the rest to Poll.  *)

At(here) == pc = here /\ UNCHANGED <<clock, sync, local, retry, sample>>

StopRtcClock ==
    /\ At("stop")
    /\ \/ Works /\ chip' = Stopped(chip) /\ pc' = "save"
       \/ Fails /\ chip' \in {chip, Stopped(chip)} /\ pc' = "idle"
    /\ UNCHANGED <<setting, status>>

(* The offset, only if the store does not hold it already. *)
SaveOffset ==
    /\ At("save")
    /\ IF status.stored = status.offset
         THEN pc' = "write" /\ Works /\ UNCHANGED <<setting, status>>
         ELSE \/ /\ Works
                 /\ setting' = status.offset
                 /\ status' = [status EXCEPT !.stored = status.offset]
                 /\ pc' = "write"
              \/ /\ Fails
                 /\ setting' \in {setting} \cup (IF FailedSaves = "written" THEN {status.offset} ELSE {})
                 /\ pc' = "idle"
                 /\ UNCHANGED status
    /\ UNCHANGED chip

(* RtcPcf8563::SetTime stops the clock again and writes seven registers at *)
(* once; a failed write may have written some.                             *)
WriteCalendar ==
    /\ At("write")
    /\ \/ /\ Works
          /\ chip' = Set(Stopped(chip), clock + status.offset)
          /\ pc' = "start"
       \/ /\ Fails
          /\ chip' \in {Stopped(chip), Set(Stopped(chip), Torn), chip}
          /\ pc' = "idle"
    /\ UNCHANGED <<setting, status>>

(* Clearing STOP resumes counting. *)
StartClock ==
    /\ At("start")
    /\ pc' = "idle"
    /\ \/ /\ Works
          /\ chip' = [chip EXCEPT !.stop = FALSE]
          /\ status' = [status EXCEPT !.persisted = TRUE, !.pending = FALSE]
       \/ /\ Fails
          /\ chip' \in {chip, [chip EXCEPT !.stop = FALSE]}
          /\ UNCHANGED status
    /\ UNCHANGED setting

-----------------------------------------------------------------------------
(* Time passes for everything that is measured against it. *)
Tick ==
    /\ retry > 0 \/ sync.age < Hold \/ (sample # NoSample /\ sample.age <= Life)
    /\ retry' = IF retry = 0 THEN 0 ELSE retry - 1
    /\ sync' = [sync EXCEPT !.age = IF @ < Hold THEN @ + 1 ELSE @]
    /\ sample' = IF sample # NoSample /\ sample.age <= Life
                   THEN [sample EXCEPT !.age = @ + 1] ELSE sample
    /\ UNCHANGED <<chip, setting, clock, status, local, pc, faults>>

(* A reset forgets everything in memory; when the battery goes with it the *)
(* chip raises its low-voltage bit and its calendar is anything.           *)
Reset ==
    /\ Fails
    /\ chip' \in {chip, [stop |-> FALSE, low |-> TRUE, calendar |-> Torn]}
    /\ clock' = None
    /\ status' = Blank
    /\ sync' = NoSync
    /\ local' = None
    /\ retry' = 0
    /\ sample' = NoSample
    /\ pc' = "boot"
    /\ UNCHANGED <<setting>>

Persist == StopRtcClock \/ SaveOffset \/ WriteCalendar \/ StartClock

Next == Initialize \/ SetByHand \/ Sampled \/ ApplySample \/ Poll \/ Persist
            \/ Tick \/ Reset

Spec == Init /\ [][Next]_vars

Loop == Initialize \/ Poll \/ Persist

(* The foreground loop runs and time passes. *)
FairSpec == Spec /\ WF_vars(Loop) /\ WF_vars(Tick)

-----------------------------------------------------------------------------
TypeOK ==
    /\ chip \in [stop : BOOLEAN, low : BOOLEAN, calendar : Int \cup {Torn}]
    /\ setting \in Offsets \cup {None}
    /\ clock \in Int \cup {None, Torn}
    /\ status \in [offset : Offsets \cup {0}, known : BOOLEAN, persisted : BOOLEAN,
                   pending : BOOLEAN, stored : Offsets \cup {None}]
    /\ sync \in [source : Sources, age : 0 .. Hold]
    /\ local \in Int \cup {None, Torn}
    /\ retry \in 0 .. Retry
    /\ sample \in Samples \cup {NoSample}
    /\ pc \in {"boot", "idle", "stop", "save", "write", "start"}
    /\ faults \in 0 .. MaxFaults

(* However many writes failed and resets came between the chip and the     *)
(* settings store, the system clock is a time somebody set: a calendar is  *)
(* never read with another calendar's offset (Offsets and Legacy are       *)
(* chosen so that no such sum is one of Times), and never half written.    *)
(* note4_time_service.cc:219 says so of the STOP bit.                      *)
ClockWasSet == clock \in Times \cup {None}

(* TimeService::Now: the system clock in local time, else the calendar of  *)
(* a chip whose offset nobody knows.                                       *)
Shown == IF clock \in Int THEN clock + status.offset ELSE local

(* What the status reports as saved is saved: a reset now would restore    *)
(* the very time the screen shows.  note4_time_service.h:59 asks that a    *)
(* failed save "must not be shown as durable".                             *)
SavedIsThere ==
    status.persisted =>
        Readable(chip) /\ setting = status.offset /\ chip.calendar = Shown

(* A time that could not be saved is saved in the end, or superseded by a  *)
(* reset, after which nothing is pending.                                  *)
PendingSettles == status.pending ~> ~status.pending
=============================================================================
