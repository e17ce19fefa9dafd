---------------------------- MODULE DeviceProofs ----------------------------
(***************************************************************************)
(* Proofs about the parts of the device that MCDevice runs side by side.   *)
(*                                                                         *)
(* FirmwareUpdate, for images of any number of chunks and any number of    *)
(* images lost.  The properties are inductive only together with what a    *)
(* power cut would do next: Chain says that giving up the trial never      *)
(* leads the bootloader to a half-written slot either.                     *)
(*                                                                         *)
(* SelfTest, for tests of any length and any number of failed calls.       *)
(* Borrowed says in which steps of which test each thing may be away from  *)
(* its owner, so that no end of a test is reached with something out.      *)
(*                                                                         *)
(* TimeKeeping, for any times, offsets and number of failed calls.  The    *)
(* calendar and the offset it was written for are two records; ClockInv    *)
(* says that the chip is stopped while they may differ.                    *)
(*                                                                         *)
(* Gateway, for any requests, pages and number of failures.  While the     *)
(* Note4 waits, whatever carries its sequence number is of its request;    *)
(* fetches and entries in flight are matched one to one, by id and body.   *)
(*                                                                         *)
(* AppShell, for any applications, broken ones, length of a burst of       *)
(* inputs and limit of failures.  Every call inside a turn keeps the       *)
(* foreground the owner of what is asked for (Kept); between two turns an  *)
(* error suppresses what opens by itself (ShellInv).                       *)
(***************************************************************************)
EXTENDS MCDevice, SequenceTheorems, WellFoundedInduction, TLAPS

-----------------------------------------------------------------------------
(* The firmware update and the boot confirmation.                          *)


Trials == {"new", "pending"}

\* The records once every trial has been given up.
Proven(state) == [s \in Ota |-> IF state[s] \in Trials THEN "aborted" ELSE state[s]]

Chain ==
    /\ image["factory"] = "whole"
    /\ image[running] # "partial"
    /\ image[Selected(ota, latest)] # "partial"
    /\ image[Selected(Proven(ota), latest)] # "partial"

\* A trial is always the newest record, so there is one at most.
OneTrial == \A s \in Ota : ota[s] \in Trials => latest = s

\* A writer works beside a known-good image that the next boot would choose too.
Writer ==
    /\ phase = "receiving" => target = Inactive(running)
    /\ open => phase = "receiving" /\ guard = "ready" /\ KnownGood /\ BootMatches

Protection == guard = "ready" \/ health \/ wdt \in {"health", "off"} => KnownGood

IInv == TypeOK /\ Chain /\ OneTrial /\ Writer /\ Protection

-----------------------------------------------------------------------------
\* Nothing received and nothing lost are within the bounds.
LEMMA Zeros == 0 \in 0..Chunks /\ 0 \in 0..MaxDamage
BY UpdateConstants DEF UpdateConstants

\* The other OTA slot is another one, and both leave the factory slot alone.
LEMMA OtherSlot ==
    ASSUME NEW s \in Ota
    PROVE Inactive(s) \in Ota /\ Inactive(s) # s /\ Inactive(Inactive(s)) = s
BY DEF Ota, Inactive

\* Whatever runs, the target of an update is an OTA slot and not the running one.
LEMMA TargetIsNotRunning ==
    ASSUME NEW s \in Slot
    PROVE Inactive(s) \in Ota /\ Inactive(s) # s
BY DEF Slot, Ota, Inactive

\* What a reset leaves to choose from: with one trial at most, giving it up and
\* taking the newest record that remains comes to a slot that Chain covers.
LEMMA ResetChoosesCovered ==
    ASSUME TypeOK, Chain, OneTrial
    PROVE image[Selected(GiveUp(ota), latest)] # "partial"
<1>1. latest \in Ota /\ ota \in [Ota -> {"none", "new", "pending", "valid", "aborted"}]
  BY DEF TypeOK
<1>2. CASE ota[latest] = "pending"
  BY <1>1, <1>2 DEF Chain, OneTrial, Selected, Usable, GiveUp, Proven, Trials, Ota, Inactive
<1>3. CASE ota[latest] # "pending"
  BY <1>1, <1>3 DEF Chain, OneTrial, Selected, Usable, GiveUp, Proven, Trials, Ota, Inactive
<1> QED BY <1>2, <1>3

\* The records of a fresh device hold no image, so the factory image is chosen.
LEMMA UpdateInit == Init => IInv
<1> SUFFICES ASSUME Init PROVE IInv
  OBVIOUS
<1>1. TypeOK
  BY Zeros DEF Init, TypeOK, Slot, Ota
<1>2. \A s \in Ota : ota[s] = "none" /\ Proven(ota)[s] = "none"
  BY DEF Init, Proven, Trials, Ota
<1>3. Selected(ota, latest) = "factory" /\ Selected(Proven(ota), latest) = "factory"
  BY <1>2 DEF Init, Selected, Usable, Ota, Inactive
<1>4. Chain
  BY <1>3 DEF Init, Chain, Slot
<1>5. OneTrial
  BY <1>2 DEF OneTrial, Trials
<1>6. Writer /\ Protection
  BY DEF Init, Writer, Protection, KnownGood, ImageState
<1> QED BY <1>1, <1>4, <1>5, <1>6 DEF IInv

\* A reset keeps the invariant: at most the trial moves, and a slot that runs loads.
LEMMA ResetStep == IInv /\ Bootloader => IInv'
<1> SUFFICES ASSUME IInv, Bootloader PROVE IInv'
  OBVIOUS
<1> USE DEF IInv
<1>1. latest \in Ota /\ ota \in [Ota -> {"none", "new", "pending", "valid", "aborted"}]
  BY DEF TypeOK
<1> DEFINE chosen == Selected(GiveUp(ota), latest)
<1>2. /\ chosen \in Slot
      /\ \A s \in Ota : ota'[s] = IF s = chosen /\ GiveUp(ota)[s] = "new"
                                   THEN "pending" ELSE GiveUp(ota)[s]
      /\ running' = Loaded(chosen)
  BY <1>1 DEF Bootloader, Selected, Slot, Ota, Inactive
<1>3. TypeOK'
  <2>1. ota' \in [Ota -> {"none", "new", "pending", "valid", "aborted"}]
    BY <1>1 DEF Bootloader, GiveUp
  <2>2. running' \in Slot
    BY <1>2 DEF Loaded, Slot, Ota
  <2> QED BY <2>1, <2>2, Zeros DEF TypeOK, Bootloader, Ota
<1>4. OneTrial'
  BY <1>1, <1>2 DEF OneTrial, Bootloader, GiveUp, Trials
<1>5. Chain'
  <2>1. image' = image /\ latest' = latest /\ image[running'] = "whole"
    BY <1>2 DEF Bootloader, Loaded, Chain
  <2>2. Selected(Proven(ota'), latest) = Selected(Proven(ota), latest)
    BY <1>1, <1>2 DEF Selected, Usable, Proven, GiveUp, Trials, Ota, Inactive
  <2>3. Selected(ota', latest) = chosen
    BY <1>1, <1>2 DEF Selected, Usable, GiveUp, Ota, Inactive
  <2> QED BY <2>1, <2>2, <2>3, ResetChoosesCovered DEF Chain
<1>6. Writer' /\ Protection'
  BY DEF Bootloader, Writer, Protection
<1> QED BY <1>3, <1>4, <1>5, <1>6

\* Beside a known-good image that is also chosen, nothing else is within reach of
\* the bootloader: every chain it may follow ends at the running slot.
LEMMA BesideKnownGood ==
    ASSUME TypeOK, OneTrial, KnownGood, BootMatches
    PROVE /\ Selected(Proven(ota), latest) = running
          /\ \A s \in Ota : s # running => ota[s] \notin Trials
<1>1. latest \in Ota /\ ota \in [Ota -> {"none", "new", "pending", "valid", "aborted"}]
  BY DEF TypeOK
<1> QED BY <1>1
        DEF OneTrial, KnownGood, ImageState, BootMatches, Selected, Usable, Proven, Trials,
            Ota, Inactive

\* Writing the inactive slot leaves every image within the bootloader's reach whole.
LEMMA WriteKeepsChain ==
    ASSUME TypeOK, Chain, OneTrial, KnownGood, BootMatches, target = Inactive(running),
           NEW content, image' = [image EXCEPT ![target] = content],
           UNCHANGED <<ota, latest, running>>
    PROVE Chain'
<1>1. target # running /\ target # "factory" /\ running \in Slot /\ image \in [Slot -> {"whole", "partial", "damaged"}]
  BY TargetIsNotRunning DEF TypeOK, Ota
<1>2. image'[running] = image[running] /\ image'["factory"] = image["factory"]
  BY <1>1 DEF Slot
<1>3. Selected(ota, latest) = running /\ Selected(Proven(ota), latest) = running
  BY BesideKnownGood DEF BootMatches
<1> QED BY <1>2, <1>3 DEF Chain

\* Every call, reset and loss keeps the invariant, action by action.
LEMMA UpdateStep == IInv /\ [Next]_vars => IInv'
<1> SUFFICES ASSUME IInv, [Next]_vars PROVE IInv'
  OBVIOUS
<1> USE DEF IInv, flash, boot, update
<1>1. CASE BeginBoot
  <2>1. TypeOK' /\ Chain' /\ OneTrial'
    BY <1>1 DEF BeginBoot, TypeOK, Chain, OneTrial
  <2>2. Protection'
    BY <1>1 DEF BeginBoot, Protection, KnownGood, ImageState
  <2>3. Writer'
    BY <1>1 DEF BeginBoot, Writer
  <2> QED BY <2>1, <2>2, <2>3
<1>2. ASSUME NEW p \in {"home", "other"}, ShowFrame(p) PROVE IInv'
  <2>1. CASE UNCHANGED <<ota, guard, wdt, health>>
    <3>1. TypeOK' /\ Chain' /\ OneTrial'
      BY <1>2, <2>1 DEF ShowFrame, ConfirmTrial, TypeOK, Chain, OneTrial
    <3>2. Protection' /\ Writer'
      BY <1>2, <2>1 DEF ShowFrame, Protection, Writer, KnownGood, ImageState, BootMatches
    <3> QED BY <3>1, <3>2
  <2>2. CASE guard = "pending" /\ ConfirmTrial
    <3>1. PICK written \in BOOLEAN, reported \in BOOLEAN :
            /\ reported => written
            /\ written => PendingVerify /\ BootMatches
            /\ ota' = IF written THEN [ota EXCEPT ![running] = "valid"] ELSE ota
            /\ IF reported
               THEN guard' = "ready" /\ wdt' = "health" /\ health' = TRUE
               ELSE guard' = "failed" /\ UNCHANGED <<wdt, health>>
            /\ ready' = reported /\ alive' = reported
      BY <2>2 DEF ConfirmTrial
    <3>2. UNCHANGED <<image, latest, damage, running, phase, target, received, open>> /\ page' = p
      BY <1>2 DEF ShowFrame
    <3>3. TypeOK'
      BY <1>2, <3>1, <3>2 DEF TypeOK
    <3>4. open = FALSE
      BY <2>2 DEF Writer, TypeOK
    <3>5. Writer'
      BY <3>2, <3>4 DEF Writer
    <3>6. CASE ~written
      BY <3>1, <3>2, <3>3, <3>5, <3>6 DEF Chain, OneTrial, Protection, KnownGood, ImageState
    <3>7. CASE written
      <4>1. running \in Ota /\ ota[running] = "pending" /\ Selected(ota, latest) = running
        BY <3>1, <3>7 DEF PendingVerify, ImageState, BootMatches, TypeOK, Slot
      <4>2. latest = running
        BY <4>1 DEF OneTrial, Trials
      <4>3. ota'[running] = "valid" /\ \A s \in Ota : s # running => ota'[s] = ota[s]
        BY <3>1, <3>7, <4>1 DEF TypeOK
      <4>4. OneTrial'
        BY <3>2, <4>3 DEF OneTrial, Trials
      <4>5. Selected(ota', latest) = running /\ Selected(Proven(ota'), latest) = running
        BY <4>1, <4>2, <4>3 DEF Selected, Usable, Proven, Trials
      <4>6. Chain'
        BY <3>2, <4>5 DEF Chain
      <4>7. Protection'
        BY <3>2, <4>1, <4>3 DEF Protection, KnownGood, ImageState, Ota
      <4> QED BY <3>3, <3>5, <4>4, <4>6, <4>7
    <3> QED BY <3>6, <3>7
  <2> QED BY <1>2, <2>1, <2>2 DEF ShowFrame
<1>3. CASE BeginFirmware
  <2>1. TypeOK' /\ Chain' /\ OneTrial'
    BY <1>3, TargetIsNotRunning, Zeros DEF BeginFirmware, TypeOK, Chain, OneTrial
  <2>2. Protection' /\ Writer'
    BY <1>3 DEF BeginFirmware, Protection, Writer, KnownGood, ImageState, SelectUpdateTarget
  <2> QED BY <2>1, <2>2
<1>4. CASE WriteFirmwareChunk
  <2>1. UNCHANGED <<ota, latest, damage, boot, target>> /\ phase = "receiving" /\ received < Chunks
    BY <1>4 DEF WriteFirmwareChunk
  <2>2. target = Inactive(running)
    BY <2>1 DEF Writer
  <2>3. Writable => KnownGood /\ BootMatches /\ guard = "ready"
    BY DEF Writable, Writer, SelectUpdateTarget
  <2>4. \/ image' = image
        \/ Writable /\ \E content \in {"partial", "whole"} : image' = [image EXCEPT ![target] = content]
    BY <1>4 DEF WriteFirmwareChunk
  <2>5. Chain'
    <3>1. CASE image' = image
      BY <2>1, <3>1 DEF Chain
    <3>2. CASE image' # image
      <4>1. PICK content \in {"partial", "whole"} : image' = [image EXCEPT ![target] = content]
        BY <2>4, <3>2
      <4> QED BY <2>1, <2>2, <2>3, <2>4, <3>2, <4>1, WriteKeepsChain
    <3> QED BY <3>1, <3>2
  <2>6. image' \in [Slot -> {"whole", "partial", "damaged"}]
    BY <2>4 DEF TypeOK
  <2>7. /\ phase' \in {"receiving", "failed"} /\ open' \in BOOLEAN
        /\ open' => phase' = "receiving" /\ Writable
    BY <1>4, <2>1 DEF WriteFirmwareChunk, FailFirmware, TypeOK
  <2>8. TypeOK'
    <3>1. received' = received \/ received' = received + 1
      BY <1>4 DEF WriteFirmwareChunk
    <3>2. received' \in 0..Chunks
      BY <2>1, <3>1, UpdateConstants DEF UpdateConstants, TypeOK
    <3> QED BY <2>1, <2>6, <2>7, <3>2 DEF TypeOK
  <2>9. OneTrial' /\ Protection'
    BY <2>1 DEF OneTrial, Protection, KnownGood, ImageState
  <2>10. Writer'
    BY <2>1, <2>2, <2>3, <2>7 DEF Writer, KnownGood, ImageState, BootMatches
  <2> QED BY <2>5, <2>8, <2>9, <2>10
<1>5. CASE CommitFirmware
  <2>1. UNCHANGED <<image, damage, boot, target, received>> /\ phase = "receiving"
    BY <1>5 DEF CommitFirmware
  <2>2. target = Inactive(running) /\ target \in Ota /\ target # running
    BY <2>1, TargetIsNotRunning DEF Writer, TypeOK
  <2>3. open' = FALSE /\ phase' \in {"committed", "failed"}
    BY <1>5 DEF CommitFirmware, FailFirmware
  <2>4. Writer'
    BY <2>3 DEF Writer
  <2>5. CASE UNCHANGED <<ota, latest>>
    <3>1. TypeOK' /\ Chain'
      BY <2>1, <2>3, <2>5 DEF TypeOK, Chain
    <3>2. OneTrial' /\ Protection'
      BY <2>1, <2>5 DEF OneTrial, Protection, KnownGood, ImageState
    <3> QED BY <2>4, <3>1, <3>2
  <2>6. CASE /\ SelectUpdateTarget /\ image[target] = "whole"
             /\ ota' = [ota EXCEPT ![target] = "new"] /\ latest' = target
    <3>1. KnownGood /\ BootMatches
      BY <2>6 DEF SelectUpdateTarget
    <3>2. ota'[target] = "new" /\ \A s \in Ota : s # target => ota'[s] = ota[s]
      BY <2>2, <2>6 DEF TypeOK
    <3>3. TypeOK'
      BY <2>1, <2>2, <2>3, <2>6 DEF TypeOK
    <3>4. OneTrial'
      <4> SUFFICES ASSUME NEW s \in Ota, s # target PROVE ota[s] \notin Trials
        BY <2>6, <3>2 DEF OneTrial
      <4>1. s = running \/ running = "factory"
        BY <2>2 DEF Ota, Slot, Inactive, TypeOK
      <4>2. CASE s = running
        BY <3>1, <4>2 DEF KnownGood, ImageState, Trials, Ota
      <4>3. CASE running = "factory"
        BY <3>1, <4>3, BesideKnownGood DEF Ota
      <4> QED BY <4>1, <4>2, <4>3
    <3>5. Selected(ota', target) = target
      BY <3>2 DEF Selected, Usable
    <3>6. Selected(Proven(ota'), target) = running
      BY <2>2, <3>1, <3>2, BesideKnownGood
         DEF Selected, Usable, Proven, Trials, Ota, Slot, Inactive, TypeOK, KnownGood, ImageState,
             BootMatches
    <3>7. Chain'
      BY <2>1, <2>6, <3>5, <3>6 DEF Chain
    <3>8. Protection'
      BY <2>1, <2>2, <3>1, <3>2 DEF Protection, KnownGood, ImageState, TypeOK, Slot
    <3> QED BY <2>4, <3>3, <3>4, <3>7, <3>8
  <2> QED BY <1>5, <2>5, <2>6 DEF CommitFirmware
<1>6. CASE AbortFirmware
  <2>1. TypeOK'
    BY <1>6, Zeros DEF AbortFirmware, Aborted, TypeOK, Ota
  <2>2. Chain' /\ OneTrial' /\ Protection'
    BY <1>6 DEF AbortFirmware, Chain, OneTrial, Protection, KnownGood, ImageState
  <2>3. Writer'
    BY <1>6 DEF AbortFirmware, Aborted, Writer
  <2> QED BY <2>1, <2>2, <2>3
<1>7. CASE PowerTransition
  <2>1. TypeOK' /\ Chain' /\ OneTrial'
    BY <1>7, Zeros
       DEF PowerTransition, DisarmForPowerTransition, Aborted, TypeOK, Chain, OneTrial, Ota
  <2>2. Protection'
    BY <1>7 DEF PowerTransition, DisarmForPowerTransition, Protection, KnownGood, ImageState
  <2>3. Writer'
    BY <1>7 DEF PowerTransition, Aborted, Writer
  <2> QED BY <2>1, <2>2, <2>3
<1>8. CASE Reset \/ TrialExpires
  BY <1>8, ResetStep DEF Reset, TrialExpires
<1>9. ASSUME NEW s \in Ota, Damage(s) PROVE IInv'
  <2>1. TypeOK'
    <3>1. damage' \in 0..MaxDamage
      BY <1>9, UpdateConstants DEF UpdateConstants, Damage, TypeOK
    <3>2. image' \in [Slot -> {"whole", "partial", "damaged"}]
      BY <1>9 DEF Damage, TypeOK
    <3> QED BY <1>9, <3>1, <3>2 DEF Damage, TypeOK
  <2>2. \A t \in Slot : image'[t] = "partial" => image[t] = "partial"
    BY <1>9 DEF Damage, TypeOK
  <2>3. image'["factory"] = "whole"
    BY <1>9 DEF Damage, Chain, TypeOK, Ota, Slot
  <2>4. /\ running \in Slot /\ Selected(ota, latest) \in Slot
        /\ Selected(Proven(ota), latest) \in Slot
    BY DEF TypeOK, Selected, Slot, Ota, Inactive
  <2>5. Chain'
    BY <1>9, <2>2, <2>3, <2>4 DEF Damage, Chain
  <2>6. OneTrial' /\ Writer' /\ Protection'
    BY <1>9 DEF Damage, OneTrial, Writer, Protection, KnownGood, ImageState, BootMatches
  <2> QED BY <2>1, <2>5, <2>6
<1>10. CASE UNCHANGED vars
  BY <1>10 DEF vars, TypeOK, Chain, OneTrial, Writer, Protection, KnownGood, ImageState, BootMatches
<1> QED BY <1>1, <1>2, <1>3, <1>4, <1>5, <1>6, <1>7, <1>8, <1>9, <1>10 DEF Next

\* So it holds in every reachable state.
LEMMA UpdateInvariant == Spec => []IInv
BY UpdateInit, UpdateStep, PTL DEF Spec

-----------------------------------------------------------------------------
\* No cut of the power meets a half-written image: neither the running slot nor
\* the one BootGuard's otadata selects is ever left partial by a transfer.
THEOREM UpdateSelectedNeverPartial == Spec => []SelectedNeverPartial
<1>1. IInv => SelectedNeverPartial
  BY DEF IInv, Chain, SelectedNeverPartial
<1> QED BY <1>1, UpdateInvariant, PTL

\* The trial's reset deadline outlives every failure of boot and confirmation.
THEOREM UpdateTrialProtected == Spec => []TrialProtected
<1>1. IInv => TrialProtected
  BY DEF IInv, TypeOK, Protection, TrialProtected
<1> QED BY <1>1, UpdateInvariant, PTL

\* BootGuard confirms nothing but the running trial, and only after a Home frame.
THEOREM UpdateConfirmedByItsHome == Spec => ConfirmedByItsHome
<1>1. IInv /\ [Next]_vars =>
        [\A s \in Ota : ota[s] # "valid" /\ ota'[s] = "valid" =>
            s = running /\ ota[s] = "pending" /\ page' = "home"]_vars
  <2> SUFFICES ASSUME IInv, Next, NEW s \in Ota, ota[s] # "valid", ota'[s] = "valid"
               PROVE s = running /\ ota[s] = "pending" /\ page' = "home"
    BY DEF vars
  <2>1. CASE BeginBoot \/ BeginFirmware \/ WriteFirmwareChunk \/ AbortFirmware \/ PowerTransition
    BY <2>1 DEF BeginBoot, BeginFirmware, WriteFirmwareChunk, AbortFirmware, PowerTransition, flash
  <2>2. CASE CommitFirmware
    BY <2>2 DEF CommitFirmware, IInv, TypeOK
  <2>3. CASE Bootloader
    BY <2>3 DEF Bootloader, GiveUp
  <2>4. ASSUME NEW t \in Ota, Damage(t) PROVE FALSE
    BY <2>4 DEF Damage
  <2>5. ASSUME NEW p \in {"home", "other"}, ShowFrame(p)
        PROVE s = running /\ ota[s] = "pending" /\ page' = "home"
    <3>1. ConfirmTrial /\ p = "home" /\ page' = p
      BY <2>5 DEF ShowFrame, ConfirmsBoot
    <3>2. PendingVerify /\ ota' = [ota EXCEPT ![running] = "valid"]
      BY <3>1 DEF ConfirmTrial
    <3>3. s = running
      BY <3>2 DEF IInv, TypeOK
    <3> QED BY <3>1, <3>2, <3>3 DEF PendingVerify, ImageState
  <2> QED BY <2>1, <2>2, <2>3, <2>4, <2>5 DEF Next, Reset, TrialExpires
<1> QED BY <1>1, UpdateInvariant, PTL DEF Spec, ConfirmedByItsHome

-----------------------------------------------------------------------------
(* The self test.                                                          *)

TestRuns ==
    [test : Test!Tests \cup {"none"},
     step : {"none", "start", "poll", "play", "joined", "between", "restore"},
     left : Int, count : Int, backup : {"own", "record", "url"}]
Hardware ==
    [radio : {"off", "on", "stuck"}, codec : {"idle", "borrowed"},
     player : {"none", "playing", "done"}, countdown : {"off", "on", "stuck"},
     led : BOOLEAN,
     tag : {"own", "record", "url"}]

\* GivenBack of a device in which "f" calls have failed.
Returned(h, f) ==
    /\ ~h.led /\ h.codec = "idle" /\ h.player = "none"
    /\ h.countdown # "on" /\ h.radio # "on"
    /\ f = 0 => h.radio = "off" /\ h.countdown = "off" /\ h.tag # "url"

\* Each thing is borrowed in the steps of one test only, and what the NFC test keeps
\* of the tag is what it will put back.
Borrowed(r, h, f) ==
    /\ r.test = "none" <=> r.step = "none"
    /\ h.radio = "on" => r.test = "rf" /\ r.step = "poll"
    /\ f = 0 => h.radio # "stuck"
    /\ h.codec = "borrowed" <=> r.test = "audio" /\ r.step \in {"poll", "play"}
    /\ h.player # "none" => r.test = "audio" /\ r.step = "play" /\ h.codec = "borrowed"
    /\ h.countdown = "on" => r.test = "rtc" /\ r.step = "poll"
    /\ f = 0 => h.countdown # "stuck"
    /\ h.led => r.test = "led" /\ r.step \notin {"none", "between"}
    /\ f = 0 /\ h.tag = "url" => r.test = "nfc" /\ r.step \in {"poll", "restore"}
    /\ f = 0 /\ r.test = "nfc" /\ r.step \in {"poll", "restore"} => r.backup # "url"

TestInv ==
    /\ tRun \in TestRuns /\ tHw \in Hardware /\ tFaults \in Nat
    /\ Borrowed(tRun, tHw, tFaults)

\* Where a test ends, nothing may be borrowed.
LEMMA EndKeeps ==
    ASSUME NEW t \in Test!Tests, NEW result, Test!End(t, result),
           tHw' \in Hardware, tFaults' \in Nat, Returned(tHw', tFaults')
    PROVE  TestInv'
<1>1. /\ tRun' \in TestRuns /\ tRun'.step \in {"none", "between"}
      /\ tRun'.test = "none" <=> tRun'.step = "none"
    <2>1. tRun' = Test!NoRun \/ tRun' = [Test!NoRun EXCEPT !.test = t, !.step = "between"]
        BY DEF Test!End
    <2>2. tRun' = [test |-> "none", step |-> "none", left |-> 0, count |-> 0, backup |-> "own"]
          \/ tRun' = [test |-> t, step |-> "between", left |-> 0, count |-> 0, backup |-> "own"]
        BY <2>1 DEF Test!NoRun
    <2> QED BY <2>2 DEF TestRuns, Test!Tests
<1> QED BY <1>1 DEF TestInv, Borrowed, Returned, Hardware

\* A cancelled test ends.
LEMMA CancelKeeps ==
    ASSUME NEW t \in Test!Tests, Test!Cancels(t),
           tHw' \in Hardware, tFaults' \in Nat, Returned(tHw', tFaults')
    PROVE  TestInv'
BY EndKeeps DEF Test!Cancels

\* A test is chosen on a page, or the next one begins.
LEMMA BeginsKeeps ==
    ASSUME TestInv, Test!Choose \/ Test!Between
    PROVE  TestInv'
<1>1. UNCHANGED <<tHw, tFaults>> /\ (tRun = Test!NoRun \/ tRun.step = "between")
    BY DEF Test!Choose, Test!Between
<1>2. \/ tRun' = tRun \/ tRun' = Test!NoRun
      \/ \E t \in Test!Tests : tRun' = Test!Begins(t)
    <2>1. CASE Test!Choose
        BY <2>1 DEF Test!Choose, Test!Tests
    <2>2. CASE Test!Between
        <3>1. tRun' = Test!NoRun \/ (/\ Test!After[tRun.test] # "none"
                                    /\ tRun' = Test!Begins(Test!After[tRun.test]))
            BY <2>2 DEF Test!Between
        <3>2. ASSUME NEW t \in Test!Tests \cup {"none"}, t # "none", Test!After[t] # "none"
              PROVE  Test!After[t] \in Test!Tests
            BY <3>2 DEF Test!After, Test!Tests
        <3>3. tRun.test # "none"
            BY <2>2 DEF Test!Between, TestInv, Borrowed
        <3> QED BY <3>1, <3>2, <3>3 DEF TestInv, TestRuns
    <2> QED BY <2>1, <2>2
<1>3. /\ tRun' \in TestRuns /\ (tRun' # tRun => tRun'.step \in {"none", "start"})
      /\ tRun'.test = "none" <=> tRun'.step = "none"
    <2>1. ASSUME NEW t \in Test!Tests, tRun' = Test!Begins(t)
          PROVE  tRun' \in TestRuns /\ tRun'.step = "start" /\ tRun'.test # "none"
        <3>1. tRun' = [test |-> t, step |-> "start", left |-> Limit, count |-> 0,
                       backup |-> "own"]
            BY <2>1 DEF Test!Begins, Test!NoRun
        <3> QED BY <3>1, TestConstants DEF TestRuns, Test!Tests
    <2> QED BY <1>2, <2>1 DEF TestInv, TestRuns, Borrowed, Test!NoRun
<1>4. tRun.step \in {"none", "between"}
    BY <1>1 DEF Test!NoRun
<1> QED BY <1>1, <1>3, <1>4 DEF TestInv, Borrowed, Hardware

\* The radio is claimed, and its driver's destructor stops it or fails to.
LEMMA RfKeeps ==
    ASSUME TestInv, Test!RfBegins \/ Test!RfPolls
    PROVE  TestInv'
<1>1. tRun.test = "rf" /\ tRun.step \in {"start", "poll"} /\ "rf" \in Test!Tests
    BY DEF Test!RfBegins, Test!RfPolls, Test!In, Test!Tests
<1>2. \/ /\ tHw' = [tHw EXCEPT !.radio = "on"] /\ tRun' = [tRun EXCEPT !.step = "poll"]
         /\ tFaults' = tFaults /\ tHw.radio = "off"
      \/ tHw' = tHw /\ tFaults' = tFaults /\ tRun.step = "start" /\ Test!End("rf", "fail")
      \/ tHw' = tHw /\ tFaults' = tFaults /\ tRun' = Test!NextPoll(tRun)
      \/ /\ \/ tHw' = [tHw EXCEPT !.radio = "off"] /\ tFaults' = tFaults
            \/ tHw' = [tHw EXCEPT !.radio = "stuck"] /\ tFaults' = tFaults + 1
         /\ Test!Cancels("rf") \/ Test!End("rf", "fail") \/ Test!End("rf", "pass")
    BY DEF Test!RfBegins, Test!RfPolls, Test!RadioDestroyed, Test!Fine, Test!Failing, Test!In
<1>3. CASE /\ tHw' = [tHw EXCEPT !.radio = "on"] /\ tRun' = [tRun EXCEPT !.step = "poll"]
           /\ tFaults' = tFaults /\ tHw.radio = "off"
    BY <1>1, <1>3 DEF TestInv, TestRuns, Hardware, Borrowed
<1>4. CASE tHw' = tHw /\ tFaults' = tFaults /\ tRun.step = "start" /\ Test!End("rf", "fail")
    <2>1. tHw' \in Hardware /\ tFaults' \in Nat /\ Returned(tHw', tFaults')
        BY <1>1, <1>4 DEF TestInv, Hardware, Borrowed, Returned
    <2> QED BY <1>1, <1>4, <2>1, EndKeeps
<1>5. CASE tHw' = tHw /\ tFaults' = tFaults /\ tRun' = Test!NextPoll(tRun)
    BY <1>5 DEF TestInv, TestRuns, Borrowed, Test!NextPoll
<1>6. CASE /\ \/ tHw' = [tHw EXCEPT !.radio = "off"] /\ tFaults' = tFaults
              \/ tHw' = [tHw EXCEPT !.radio = "stuck"] /\ tFaults' = tFaults + 1
           /\ Test!Cancels("rf") \/ Test!End("rf", "fail") \/ Test!End("rf", "pass")
    <2>1. tHw' \in Hardware /\ tFaults' \in Nat /\ Returned(tHw', tFaults')
        BY <1>1, <1>6 DEF TestInv, Hardware, Borrowed, Returned
    <2> QED BY <1>1, <1>6, <2>1, EndKeeps, CancelKeeps
<1> QED BY <1>2, <1>3, <1>4, <1>5, <1>6

\* A round is over: the next one, or the codec is free.
LEMMA RoundEndKeeps ==
    ASSUME TestInv, tRun.test = "audio", tRun.step \in {"poll", "play"}, UNCHANGED tFaults,
           NEW h \in Hardware, h = [tHw EXCEPT !.player = "none"],
           NEW pass \in BOOLEAN, Test!RoundEnds(pass, h)
    PROVE  TestInv'
<1>1. \/ /\ tHw' = [h EXCEPT !.codec = "idle"] /\ \E res : Test!End("audio", res)
      \/ /\ tRun' = [tRun EXCEPT !.step = "poll", !.count = @ + 1] /\ tHw' = h
    BY DEF Test!RoundEnds
<1>2. CASE tHw' = [h EXCEPT !.codec = "idle"] /\ \E res : Test!End("audio", res)
    <2>1. tHw' \in Hardware /\ tFaults' \in Nat /\ Returned(tHw', tFaults')
        BY <1>2 DEF TestInv, Hardware, Borrowed, Returned
    <2> QED BY <1>2, <2>1, EndKeeps DEF Test!Tests
<1>3. CASE tRun' = [tRun EXCEPT !.step = "poll", !.count = @ + 1] /\ tHw' = h
    <2>1. tRun' = [test |-> "audio", step |-> "poll", left |-> tRun.left,
                   count |-> tRun.count + 1, backup |-> tRun.backup]
        BY <1>3 DEF TestInv, TestRuns
    <2> QED BY <1>3, <2>1 DEF TestInv, TestRuns, Hardware, Borrowed
<1> QED BY <1>1, <1>2, <1>3

\* A round plays in a task of its own and joins it.
LEMMA AudioKeeps ==
    ASSUME TestInv, Test!AudioBegins \/ Test!RoundBegins \/ Test!RoundJoins
    PROVE  TestInv'
<1>1. tRun.test = "audio" /\ UNCHANGED tFaults /\ "audio" \in Test!Tests
    BY DEF Test!AudioBegins, Test!RoundBegins, Test!RoundJoins, Test!In, Test!Tests
<1>2. CASE Test!AudioBegins
    <2>1. CASE Test!End("audio", "fail") /\ tHw' = tHw
        <3>1. tHw' \in Hardware /\ tFaults' \in Nat /\ Returned(tHw', tFaults')
            BY <1>1, <1>2, <2>1
               DEF TestInv, Hardware, Borrowed, Returned, Test!AudioBegins, Test!In
        <3> QED BY <1>1, <2>1, <3>1, EndKeeps
    <2>2. CASE tHw' = [tHw EXCEPT !.codec = "borrowed"] /\ tRun' = [tRun EXCEPT !.step = "poll"]
        BY <1>1, <1>2, <2>2
           DEF TestInv, TestRuns, Hardware, Borrowed, Test!AudioBegins, Test!In
    <2> QED BY <1>2, <2>1, <2>2 DEF Test!AudioBegins
<1>3. CASE Test!RoundBegins
    <2>1. tRun.step = "poll"
        BY <1>3 DEF Test!RoundBegins, Test!In
    <2>2. CASE tHw' = [tHw EXCEPT !.player = "playing"] /\ tRun' = [tRun EXCEPT !.step = "play"]
        BY <1>1, <2>1, <2>2, <1>3 DEF TestInv, TestRuns, Hardware, Borrowed
    <2>3. CASE Test!RoundEnds(FALSE, tHw)
        <3>1. tHw \in Hardware /\ tHw = [tHw EXCEPT !.player = "none"]
            BY <2>1 DEF TestInv, Hardware, Borrowed
        <3>2. \E pass \in BOOLEAN : Test!RoundEnds(pass, tHw)
            BY <2>3
        <3> QED BY <1>1, <2>1, <3>1, <3>2, RoundEndKeeps
    <2> QED BY <1>3, <2>2, <2>3 DEF Test!RoundBegins
<1>4. CASE Test!RoundJoins
    <2>1. tRun.step = "play" /\ tHw.player = "done"
        BY <1>4 DEF Test!RoundJoins, Test!In, Test!GoesOn
    <2>2. PICK pass \in BOOLEAN :
            Test!RoundEnds(pass, [tHw EXCEPT !.player = IF @ = "done" THEN "none" ELSE @])
        BY <1>4 DEF Test!RoundJoins
    <2>3. PICK h \in Hardware : /\ h = [tHw EXCEPT !.player = "none"]
                                /\ Test!RoundEnds(pass, h)
        BY <2>1, <2>2 DEF TestInv, Hardware
    <2> QED BY <1>1, <2>1, <2>3, RoundEndKeeps
<1> QED BY <1>2, <1>3, <1>4

-----------------------------------------------------------------------------
\* A countdown that was stopped, or could not be, and nothing else changed.
Halted(h) ==
    /\ h \in Hardware /\ tFaults' \in Nat
    /\ h.radio = tHw.radio /\ h.codec = tHw.codec /\ h.player = tHw.player /\ h.led = tHw.led
    /\ h.tag = tHw.tag /\ h.countdown # "on"
    /\ tFaults' = 0 => tFaults = 0 /\ h.countdown = "off"

LEMMA StoppedIs ==
    ASSUME TestInv, NEW h, Test!CountdownStopped(tHw, h)
    PROVE  Halted(h)
<1>1. PICK c \in {"off", "stuck"} :
        /\ h = [tHw EXCEPT !.countdown = c]
        /\ \/ tFaults' = tFaults /\ c = "off"
           \/ tFaults' = tFaults + 1
    BY DEF Test!CountdownStopped, Test!Fine, Test!Failing
<1>2. /\ h \in Hardware /\ h.countdown = c
      /\ h.radio = tHw.radio /\ h.codec = tHw.codec /\ h.player = tHw.player /\ h.led = tHw.led
      /\ h.tag = tHw.tag
    BY <1>1 DEF TestInv, Hardware
<1>3. tFaults' \in Nat /\ (tFaults' = 0 => tFaults = 0 /\ c = "off")
    BY <1>1 DEF TestInv
<1> QED BY <1>1, <1>2, <1>3 DEF Halted

\* An attempt begins with the countdown in any state.
LEMMA AttemptKeeps ==
    ASSUME TestInv, tRun.test = "rtc", NEW h \in Hardware, NEW r \in TestRuns, r.test = "rtc",
           Test!Attempt(h, r), tFaults' \in Nat,
           h.radio = tHw.radio, h.codec = tHw.codec, h.player = tHw.player, h.led = tHw.led,
           h.tag = tHw.tag, tFaults' = 0 => tFaults = 0 /\ h.countdown # "stuck"
    PROVE  TestInv'
<1>1. PICK left \in {RtcAttempts, 0} : tRun' = [r EXCEPT !.step = "poll", !.left = left]
    BY DEF Test!Attempt
<1>2. tRun' = [test |-> "rtc", step |-> "poll", left |-> left, count |-> r.count,
               backup |-> r.backup]
    BY <1>1 DEF TestRuns
<1>3. tRun' \in TestRuns
    BY <1>2, TestConstants DEF TestRuns, Test!Tests
<1>4. tHw' = [h EXCEPT !.countdown = "on"] \/ tHw' = h
    BY DEF Test!Attempt
<1>5. /\ tHw' \in Hardware /\ tHw'.countdown \in {"on", h.countdown}
      /\ tHw'.radio = tHw.radio /\ tHw'.codec = tHw.codec /\ tHw'.player = tHw.player
      /\ tHw'.led = tHw.led /\ tHw'.tag = tHw.tag
    BY <1>4 DEF Hardware
<1> QED BY <1>2, <1>3, <1>5 DEF TestInv, Borrowed

\* The countdown of the RTC test.
LEMMA RtcKeeps ==
    ASSUME TestInv, Test!RtcBegins \/ Test!RtcPolls
    PROVE  TestInv'
<1>1. /\ tRun.test = "rtc" /\ "rtc" \in Test!Tests /\ tRun \in TestRuns /\ tHw \in Hardware
      /\ tRun.step \in {"start", "poll"}
    BY DEF Test!RtcBegins, Test!RtcPolls, Test!In, Test!Tests, TestInv
<1>2. CASE Test!RtcBegins
    <2>1. tRun.step = "start" /\ tFaults' = tFaults
        BY <1>2 DEF Test!RtcBegins, Test!In
    <2>2. CASE Test!End("rtc", "fail") /\ tHw' = tHw
        <3>1. tHw' \in Hardware /\ tFaults' \in Nat /\ Returned(tHw', tFaults')
            BY <1>1, <2>1, <2>2 DEF TestInv, Hardware, Borrowed, Returned
        <3> QED BY <1>1, <2>2, <3>1, EndKeeps
    <2>3. CASE Test!Attempt(tHw, tRun)
        <3>1. tFaults' \in Nat /\ (tFaults' = 0 => tFaults = 0 /\ tHw.countdown # "stuck")
            BY <2>1 DEF TestInv, Borrowed
        <3> QED BY <1>1, <2>3, <3>1, AttemptKeeps
    <2> QED BY <1>2, <2>2, <2>3 DEF Test!RtcBegins
<1>3. CASE Test!RtcPolls
    <2>1. tRun.step = "poll"
        BY <1>3 DEF Test!RtcPolls, Test!In
    <2>2. CASE tRun' = Test!NextPoll(tRun) /\ UNCHANGED <<tHw, tFaults>>
        <3>1. tRun' = [test |-> "rtc", step |-> "poll", left |-> tRun.left - 1,
                       count |-> tRun.count, backup |-> tRun.backup]
            BY <1>1, <2>1, <2>2 DEF Test!NextPoll, TestRuns
        <3>2. tRun' \in TestRuns
            BY <1>1, <3>1 DEF TestRuns, Test!Tests
        <3> QED BY <1>1, <2>1, <2>2, <3>1, <3>2 DEF TestInv, Borrowed
    <2>3. CASE /\ Test!CountdownStopped(tHw, tHw')
               /\ Test!Cancels("rtc") \/ Test!End("rtc", "pass") \/ Test!End("rtc", "fail")
        <3>1. Halted(tHw')
            BY <2>3, StoppedIs
        <3>2. tHw' \in Hardware /\ tFaults' \in Nat /\ Returned(tHw', tFaults')
            BY <1>1, <3>1 DEF TestInv, Hardware, Borrowed, Returned, Halted
        <3> QED BY <1>1, <2>3, <3>2, EndKeeps, CancelKeeps
    <2>4. ASSUME NEW h, Test!CountdownStopped(tHw, h),
                 Test!Attempt(h, [tRun EXCEPT !.count = tRun.count + 1])
          PROVE  TestInv'
        <3> DEFINE r == [tRun EXCEPT !.count = tRun.count + 1]
        <3>1. Halted(h)
            BY <2>4, StoppedIs
        <3>2. r = [test |-> "rtc", step |-> tRun.step, left |-> tRun.left,
                   count |-> tRun.count + 1, backup |-> tRun.backup]
            BY <1>1 DEF TestRuns
        <3>3. r \in TestRuns /\ r.test = "rtc"
            BY <1>1, <3>2 DEF TestRuns, Test!Tests
        <3>4. Test!Attempt(h, r)
            BY <2>4
        <3> HIDE DEF r
        <3> QED BY <1>1, <3>1, <3>3, <3>4, AttemptKeeps DEF Halted
    <2> QED BY <1>3, <2>2, <2>3, <2>4 DEF Test!RtcPolls
<1> QED BY <1>2, <1>3

\* Charging and the buttons borrow nothing, the LED itself.
LEMMA OthersKeep ==
    ASSUME TestInv, Test!ChargePolls \/ Test!LedPolls \/ Test!ButtonsPoll
    PROVE  TestInv'
<1>1. /\ tRun.test \in {"charge", "led", "buttons"} /\ tRun.step # "between"
      /\ UNCHANGED tFaults /\ {"charge", "led", "buttons"} \subseteq Test!Tests
    BY DEF Test!ChargePolls, Test!LedPolls, Test!ButtonsPoll, Test!In, Test!Tests
<1>2. ASSUME NEW n \in {0, tRun.count, tRun.count + 1},
             tRun' = [tRun EXCEPT !.left = @ - 1, !.count = n]
      PROVE  /\ tRun' \in TestRuns /\ tRun'.test = tRun.test /\ tRun'.step = tRun.step
             /\ tRun'.backup = tRun.backup
    <2>1. tRun' = [test |-> tRun.test, step |-> tRun.step, left |-> tRun.left - 1,
                   count |-> n, backup |-> tRun.backup]
        BY <1>2 DEF TestInv, TestRuns
    <2> QED BY <2>1 DEF TestInv, TestRuns
<1>3. ASSUME tRun' = [tRun EXCEPT !.left = @ - 1]
      PROVE  /\ tRun' \in TestRuns /\ tRun'.test = tRun.test /\ tRun'.step = tRun.step
             /\ tRun'.backup = tRun.backup
    BY <1>3 DEF TestInv, TestRuns
<1>4. ASSUME NEW t \in {"charge", "led", "buttons"}, NEW result, Test!End(t, result),
             tHw' = IF tRun.test = "led" THEN [tHw EXCEPT !.led = FALSE] ELSE tHw
      PROVE  TestInv'
    <2>1. tHw' \in Hardware /\ tFaults' \in Nat /\ Returned(tHw', tFaults')
        BY <1>1, <1>4 DEF TestInv, Hardware, Borrowed, Returned
    <2> QED BY <1>1, <1>4, <2>1, EndKeeps
<1>5. CASE Test!ChargePolls
    <2>1. CASE tRun' = [tRun EXCEPT !.left = @ - 1]
        BY <1>1, <1>3, <1>5, <2>1 DEF TestInv, Borrowed, Test!ChargePolls
    <2>2. CASE \E result : Test!End("charge", result)
        BY <1>4, <1>5, <2>2 DEF Test!ChargePolls
    <2> QED BY <1>5, <2>1, <2>2 DEF Test!ChargePolls, Test!NextPoll, Test!Cancels
<1>6. CASE Test!LedPolls
    <2>1. ASSUME NEW on \in BOOLEAN, tHw' = [tHw EXCEPT !.led = on],
                 tRun' = [tRun EXCEPT !.left = @ - 1]
          PROVE  TestInv'
        <3>1. /\ tHw' \in Hardware /\ tHw'.countdown = tHw.countdown
              /\ tHw'.radio = tHw.radio /\ tHw'.codec = tHw.codec
              /\ tHw'.player = tHw.player /\ tHw'.tag = tHw.tag
            BY <2>1 DEF TestInv, Hardware
        <3> QED BY <1>1, <1>3, <1>6, <2>1, <3>1 DEF TestInv, Borrowed, Test!LedPolls
    <2>2. CASE tHw' = [tHw EXCEPT !.led = FALSE] /\ \E result : Test!End("led", result)
        BY <1>4, <1>6, <2>2 DEF Test!LedPolls
    <2> QED BY <1>6, <2>1, <2>2 DEF Test!LedPolls, Test!NextPoll, Test!Cancels
<1>7. CASE Test!ButtonsPoll
    <2>1. ASSUME NEW n \in {0, tRun.count, tRun.count + 1},
                 tRun' = [Test!NextPoll(tRun) EXCEPT !.count = n]
          PROVE  TestInv'
        <3>1. tRun' = [tRun EXCEPT !.left = @ - 1, !.count = n]
            BY <2>1 DEF Test!NextPoll, TestInv, TestRuns
        <3> QED BY <1>1, <1>2, <1>7, <3>1 DEF TestInv, Borrowed, Test!ButtonsPoll
    <2>2. CASE \E result : Test!End("buttons", result)
        BY <1>4, <1>7, <2>2 DEF Test!ButtonsPoll
    <2> QED BY <1>7, <2>1, <2>2 DEF Test!ButtonsPoll, Test!Cancels
<1> QED BY <1>5, <1>6, <1>7

\* The tag's memory is read, overwritten and put back.
LEMMA NfcKeeps ==
    ASSUME TestInv, Test!NfcBegins \/ Test!NfcPolls \/ Test!NfcEnds
    PROVE  TestInv'
<1>1. tRun.test = "nfc" /\ tRun.step \in {"start", "poll", "restore"} /\ "nfc" \in Test!Tests
    BY DEF Test!NfcBegins, Test!NfcPolls, Test!NfcEnds, Test!In, Test!Tests
<1>2. ASSUME NEW ok \in BOOLEAN, NEW result, Test!Restored(ok), Test!End("nfc", result),
             tRun.step \in {"poll", "restore"}
      PROVE  TestInv'
    <2>1. \/ tHw' = [tHw EXCEPT !.tag = tRun.backup] /\ tFaults' = tFaults
          \/ tHw' = [tHw EXCEPT !.tag = "url"] /\ tFaults' = tFaults + 1
        BY <1>2 DEF Test!Restored, Test!Fine, Test!Failing
    <2>2. tHw' \in Hardware /\ tFaults' \in Nat /\ Returned(tHw', tFaults')
        BY <1>1, <1>2, <2>1 DEF TestInv, TestRuns, Hardware, Borrowed, Returned
    <2> QED BY <1>1, <1>2, <2>2, EndKeeps
<1>3. CASE Test!NfcBegins
    <2>1. CASE Test!End("nfc", "fail") /\ tHw' = tHw
        <3>1. tHw' \in Hardware /\ tFaults' \in Nat /\ Returned(tHw', tFaults')
            BY <1>3, <2>1 DEF TestInv, Hardware, Borrowed, Returned, Test!NfcBegins, Test!In
        <3> QED BY <1>1, <2>1, <3>1, EndKeeps
    <2>2. ASSUME NEW verified \in BOOLEAN, tHw' = [tHw EXCEPT !.tag = "url"],
                 tRun' = [tRun EXCEPT !.backup = tHw.tag,
                                      !.step = IF verified THEN "poll" ELSE "restore"]
          PROVE  TestInv'
        <3>1. PICK next \in {"poll", "restore"} : tRun' = [tRun EXCEPT !.backup = tHw.tag, !.step = next]
            BY <2>2
        <3>2. tRun' = [test |-> "nfc", step |-> next, left |-> tRun.left, count |-> tRun.count,
                       backup |-> tHw.tag]
            BY <1>1, <3>1 DEF TestInv, TestRuns
        <3>3. tRun' \in TestRuns
            BY <1>1, <3>2 DEF TestInv, TestRuns, Hardware
        <3>4. /\ tHw' \in Hardware /\ tHw'.countdown = tHw.countdown
              /\ tHw'.radio = tHw.radio /\ tHw'.codec = tHw.codec
              /\ tHw'.player = tHw.player /\ tHw'.led = tHw.led
            BY <2>2 DEF TestInv, Hardware
        <3> QED BY <1>1, <1>3, <3>2, <3>3, <3>4
                DEF TestInv, Borrowed, Test!NfcBegins, Test!In
    <2> QED BY <1>3, <2>1, <2>2 DEF Test!NfcBegins
<1>4. CASE Test!NfcPolls
    <2>1. ASSUME NEW n \in {0, tRun.count + 1}, tHw' = tHw, tFaults' = tFaults,
                 tRun' = [Test!NextPoll(tRun) EXCEPT !.count = n]
          PROVE  TestInv'
        <3>1. tRun' = [test |-> tRun.test, step |-> tRun.step, left |-> tRun.left - 1,
                       count |-> n, backup |-> tRun.backup]
            BY <2>1 DEF Test!NextPoll, TestInv, TestRuns
        <3>2. tRun' \in TestRuns /\ tRun'.test = tRun.test /\ tRun'.step = tRun.step
              /\ tRun'.backup = tRun.backup
            <4>1. n \in Int /\ tRun.left - 1 \in Int
                BY DEF TestInv, TestRuns
            <4> QED BY <3>1, <4>1 DEF TestInv, TestRuns
        <3> QED BY <2>1, <3>2 DEF TestInv, Borrowed
    <2>2. CASE (\E ok \in BOOLEAN : Test!Restored(ok)) /\ Test!Cancels("nfc")
        BY <1>2, <1>4, <2>2 DEF Test!Cancels, Test!NfcPolls, Test!In
    <2>3. CASE tRun' = [tRun EXCEPT !.step = "restore"] /\ tHw' = tHw /\ tFaults' = tFaults
        <3>1. tRun.step = "poll"
            BY <1>4 DEF Test!NfcPolls, Test!In
        <3> QED BY <1>1, <2>3, <3>1 DEF TestInv, TestRuns, Borrowed
    <2> QED BY <1>4, <2>1, <2>2, <2>3 DEF Test!NfcPolls
<1>5. CASE Test!NfcEnds
    BY <1>2, <1>5 DEF Test!NfcEnds, Test!In
<1> QED BY <1>3, <1>4, <1>5

\* Whatever the pages, the test, its player and the session task do next.
LEMMA TestStep ==
    ASSUME TestInv, Test!Next
    PROVE  TestInv'
<1>1. CASE Test!PlayerEnds
    BY <1>1 DEF Test!PlayerEnds, TestInv, TestRuns, Hardware, Borrowed
<1>2. CASE Test!Publish
    BY <1>2 DEF Test!Publish, TestInv, TestRuns, Hardware, Borrowed
<1> QED BY <1>1, <1>2, BeginsKeeps, RfKeeps, AudioKeeps, RtcKeeps, OthersKeep, NfcKeeps
        DEF Test!Next, Test!Step

\* The invariant of the self test, while it is the part that moves.
LEMMA AlwaysTest == MCSpec => [](part = "test" => TestInv)
<1>1. MCInit => (part = "test" => TestInv)
    <2> SUFFICES ASSUME MCInit, part = "test" PROVE TestInv
        OBVIOUS
    <2>1. Test!Init
        BY DEF MCInit
    <2>2. tRun \in TestRuns /\ tRun.test = "none" /\ tRun.step = "none"
        BY <2>1 DEF Test!Init, Test!NoRun, TestRuns
    <2>3. tHw \in Hardware /\ Returned(tHw, tFaults) /\ tFaults = 0
        BY <2>1 DEF Test!Init, Hardware, Returned
    <2> QED BY <2>2, <2>3 DEF TestInv, Hardware, Borrowed, Returned
<1>2. (part = "test" => TestInv) /\ [MCNext]_mcVars => (part = "test" => TestInv)'
    <2> SUFFICES ASSUME part = "test" => TestInv, [MCNext]_mcVars, part' = "test"
                 PROVE  TestInv'
        OBVIOUS
    <2>1. CASE UNCHANGED <<part, TestVars>>
        BY <2>1 DEF TestVars, TestInv
    <2>2. CASE Test!Next /\ part = "test"
        BY <2>2, TestStep
    <2> QED BY <2>1, <2>2 DEF MCNext, mcVars
<1> QED BY <1>1, <1>2, PTL DEF MCSpec

\* Whatever ends a test, the device has back what it borrowed, but for a radio, a countdown
\* or a tag whose own call failed, and no round leaves its player behind
\* (note4_self_test.cc), for any number of polls, rounds and failed calls.
THEOREM TestAlwaysGivesBack == MCSpec => []TestGivesBack
<1>1. (part = "test" => TestInv) => TestGivesBack
    BY DEF TestInv, TestRuns, Hardware, Borrowed, TestGivesBack, Test!GivenBack,
           Test!PlayerJoined, Test!In
<1> QED BY <1>1, AlwaysTest, PTL

-----------------------------------------------------------------------------
(* The clock.                                                              *)

Chips == [stop : BOOLEAN, low : BOOLEAN, calendar : Int \cup {Torn}]
Statuses == [offset : Int, known : BOOLEAN, persisted : BOOLEAN, pending : BOOLEAN,
             stored : Int \cup {NoValue}]
Given == [time : Times \cup {NoValue}, offset : Offsets \cup {NoValue},
          source : {"https", "phone"}, age : Int]

ClockTypes ==
    /\ cChip \in Chips /\ cSetting \in Int \cup {NoValue} /\ cStatus \in Statuses
    /\ cClock \in Times \cup {NoValue}
    /\ cSample \in Given /\ (cSample # Clock!NoSample => cSample.time \in Times)
    /\ cPc \in {"boot", "idle", "stop", "save", "write", "start"}

\* A calendar that may be read is the local time of a time somebody gave, by the offset
\* in the settings.
Agree(chip, setting) ==
    Clock!Readable(chip) /\ setting # NoValue =>
        chip.calendar \in Int /\ chip.calendar - setting \in Times

\* What Persist has done by the step it is at.
Persisting(pc, chip, setting, clock, st) ==
    /\ pc \in {"stop", "save", "write", "start"} => st.pending
    /\ pc \in {"save", "write", "start"} => chip.stop
    /\ pc \in {"write", "start"} => setting = st.offset
    /\ pc = "start" => ~chip.low /\ chip.calendar = clock + st.offset

\* What the status says of the settings and of the time that waits to be saved.
Told(pc, setting, clock, st) ==
    /\ st.stored # NoValue => setting = st.stored
    /\ st.pending => clock \in Times /\ ~st.persisted
    /\ pc = "boot" => ~st.pending /\ ~st.persisted

\* SavedIsThere of one state.
There(chip, setting, clock, local, st) ==
    st.persisted =>
        /\ Clock!Readable(chip) /\ setting = st.offset
        /\ chip.calendar = IF clock \in Int THEN clock + st.offset ELSE local

ClockInv ==
    /\ ClockTypes
    /\ Agree(cChip, cSetting)
    /\ Persisting(cPc, cChip, cSetting, cClock, cStatus)
    /\ Told(cPc, cSetting, cClock, cStatus)
    /\ There(cChip, cSetting, cClock, cLocal, cStatus)

-----------------------------------------------------------------------------
\* The clock and the status are read back from the chip and the settings.
LEMMA RestoreKeeps ==
    ASSUME ClockInv, ~cStatus.persisted, ~cStatus.pending, cPc \in {"boot", "idle"},
           Clock!RestoreStep, cPc' = "idle", UNCHANGED <<cChip, cSetting, cSample>>
    PROVE  ClockInv'
<1>1. PICK loaded \in BOOLEAN, readable \in BOOLEAN :
        (readable => Clock!Readable(cChip)) /\ Clock!Restored(loaded, readable)
    BY DEF Clock!RestoreStep
<1>2. cStatus \in Statuses /\ cSetting \in Int \cup {NoValue} /\ cChip \in Chips
    BY DEF ClockInv, ClockTypes
<1> DEFINE known == loaded /\ cSetting # NoValue
           read == IF known THEN [cStatus EXCEPT !.offset = cSetting, !.known = TRUE,
                                                 !.stored = cSetting]
                   ELSE [cStatus EXCEPT !.stored = NoValue]
<1>3. /\ read \in Statuses /\ ~read.persisted /\ ~read.pending
      /\ read.stored # NoValue => cSetting = read.stored
      /\ known => read.offset = cSetting
    <2>1. CASE known
        <3>1. read = [offset |-> cSetting, known |-> TRUE, persisted |-> cStatus.persisted,
                      pending |-> cStatus.pending, stored |-> cSetting]
            BY <1>2, <2>1 DEF Statuses
        <3> QED BY <1>2, <2>1, <3>1, ClockConstants DEF Statuses
    <2>2. CASE ~known
        BY <1>2, <2>2 DEF Statuses
    <2> QED BY <2>1, <2>2
<1>4. IF ~readable THEN cStatus' = read /\ UNCHANGED <<cLocal, cClock>>
      ELSE IF ~known THEN cStatus' = read /\ UNCHANGED cClock
      ELSE /\ cClock' = IF cChip.calendar = Torn THEN Torn ELSE cChip.calendar - cSetting
           /\ cStatus' = [read EXCEPT !.persisted = TRUE]
    BY <1>1 DEF Clock!Restored
<1>5. CASE cStatus' = read /\ UNCHANGED cClock
    <2> HIDE DEF read
    <2> QED BY <1>3, <1>5 DEF ClockInv, ClockTypes, Agree, Persisting, Told, There
<1>6. CASE readable /\ known
    <2>1. cChip.calendar \in Int /\ cChip.calendar - cSetting \in Times /\ cChip.calendar # Torn
        BY <1>1, <1>6, ClockConstants DEF ClockInv, Agree
    <2>2. cClock' = cChip.calendar - cSetting /\ cSetting \in Int
        BY <1>2, <1>4, <1>6, <2>1, ClockConstants
    <2> HIDE DEF read
    <2>3. /\ cStatus' \in Statuses /\ cStatus'.persisted /\ ~cStatus'.pending
          /\ cStatus'.stored = read.stored /\ cStatus'.offset = read.offset
        BY <1>3, <1>4, <1>6 DEF Statuses
    <2>4. There(cChip, cSetting, cClock', cLocal', cStatus')
        BY <1>1, <1>3, <1>6, <2>1, <2>2, <2>3 DEF There
    <2> QED BY <1>3, <2>1, <2>2, <2>3, <2>4 DEF ClockInv, ClockTypes, Agree, Persisting, Told, There
<1> QED BY <1>4, <1>5, <1>6

\* A time is accepted: it is the clock's at once, and waits to be saved if its offset is
\* known.
LEMMA CalibrateKeeps ==
    ASSUME ClockInv, cPc = "idle", NEW time \in Times, NEW offset \in Int,
           NEW known \in BOOLEAN, Clock!Calibrated(time, offset, known),
           UNCHANGED <<cChip, cSetting>>, cSample' \in {cSample, Clock!NoSample}
    PROVE  ClockInv'
<1>1. /\ cStatus' = [cStatus EXCEPT !.offset = offset, !.known = known, !.persisted = FALSE,
                                    !.pending = known]
      /\ cClock' = time /\ cPc' = IF known THEN "stop" ELSE "idle"
    BY DEF Clock!Calibrated
<1>2. cStatus' = [offset |-> offset, known |-> known, persisted |-> FALSE, pending |-> known,
                  stored |-> cStatus.stored]
    BY <1>1 DEF ClockInv, ClockTypes, Statuses
<1>3. cStatus' \in Statuses
    BY <1>2 DEF ClockInv, ClockTypes, Statuses
<1>4. cSample' \in Given /\ (cSample' # Clock!NoSample => cSample'.time \in Times)
    BY DEF ClockInv, ClockTypes, Clock!NoSample, Given
<1> QED BY <1>1, <1>2, <1>3, <1>4 DEF ClockInv, ClockTypes, Agree, Persisting, Told, There

\* The user's time, and a sample that is not refused.
LEMMA TimesKeep ==
    ASSUME ClockInv, Clock!SetByHand \/ Clock!ApplySample
    PROVE  ClockInv'
<1>1. CASE Clock!SetByHand
    <2>1. PICK time \in Times, offset \in Offsets : Clock!Calibrated(time, offset, TRUE)
        BY <1>1 DEF Clock!SetByHand
    <2>2. PICK known \in BOOLEAN : known = TRUE
        OBVIOUS
    <2>3. Clock!Calibrated(time, offset, known) /\ offset \in Int
        BY <2>1, <2>2, ClockConstants
    <2> QED BY <1>1, <2>3, CalibrateKeeps DEF Clock!SetByHand
<1>2. CASE Clock!ApplySample
    <2> DEFINE offset == IF cSample.offset # NoValue THEN cSample.offset ELSE cStatus.offset
               known == cSample.offset # NoValue \/ cStatus.known
    <2>1. /\ cPc = "idle" /\ cSample # Clock!NoSample /\ cSample' = Clock!NoSample
          /\ UNCHANGED <<cChip, cSetting>>
        BY <1>2 DEF Clock!ApplySample
    <2>2. \/ UNCHANGED <<cClock, cLocal, cStatus, cPc>>
          \/ Clock!Calibrated(cSample.time, offset, known)
        BY <1>2 DEF Clock!ApplySample
    <2>3. cSample.time \in Times /\ offset \in Int /\ known \in BOOLEAN
        BY <2>1, ClockConstants DEF ClockInv, ClockTypes, Given, Statuses
    <2>4. CASE UNCHANGED <<cClock, cLocal, cStatus, cPc>>
        <3>1. cSample' \in Given
            BY <2>1 DEF Clock!NoSample, Given
        <3> QED BY <2>1, <2>4, <3>1
                DEF ClockInv, ClockTypes, Agree, Persisting, Told, There
    <2> HIDE DEF offset, known
    <2> QED BY <2>1, <2>2, <2>3, <2>4, CalibrateKeeps
<1> QED BY <1>1, <1>2

-----------------------------------------------------------------------------
\* Persist, step by step: the calendar is stopped while the offset may be another's.
LEMMA PersistKeeps ==
    ASSUME ClockInv, Clock!Persist
    PROVE  ClockInv'
<1>1. /\ cChip \in Chips /\ cSetting \in Int \cup {NoValue} /\ cStatus \in Statuses
      /\ cPc \in {"stop", "save", "write", "start"} /\ UNCHANGED <<cClock, cLocal, cSample>>
    BY DEF ClockInv, ClockTypes, Clock!Persist, Clock!StopRtcClock, Clock!SaveOffset,
           Clock!WriteCalendar, Clock!StartClock, Clock!At
<1>2. /\ cStatus.pending /\ ~cStatus.persisted /\ cClock \in Times
      /\ cStatus.stored # NoValue => cSetting = cStatus.stored
    BY <1>1 DEF ClockInv, Persisting, Told
<1>3. Clock!Stopped(cChip) \in Chips /\ Clock!Stopped(cChip).stop
    BY <1>1 DEF Clock!Stopped, Chips
<1>4. CASE Clock!StopRtcClock
    <2>1. /\ cChip' \in Chips /\ UNCHANGED <<cSetting, cStatus>>
          /\ cChip' = cChip \/ cChip'.stop
          /\ cPc' = "idle" \/ (cPc' = "save" /\ cChip'.stop)
        BY <1>1, <1>3, <1>4 DEF Clock!StopRtcClock
    <2> QED BY <1>1, <1>2, <2>1
            DEF ClockInv, ClockTypes, Agree, Persisting, Told, There, Clock!Readable
<1>5. CASE Clock!SaveOffset
    <2>1. cPc = "save" /\ cChip' = cChip /\ cChip.stop
        BY <1>5 DEF Clock!SaveOffset, Clock!At, ClockInv, Persisting
    <2>2. CASE cStatus.stored = cStatus.offset /\ cPc' = "write" /\ UNCHANGED <<cSetting, cStatus>>
        <3>1. cStatus.offset # NoValue
            BY <1>1, ClockConstants DEF Statuses
        <3> QED BY <1>1, <1>2, <2>1, <2>2, <3>1
                DEF ClockInv, ClockTypes, Agree, Persisting, Told, There, Clock!Readable
    <2>3. CASE /\ cSetting' = cStatus.offset /\ cPc' = "write"
               /\ cStatus' = [cStatus EXCEPT !.stored = cStatus.offset]
        <3>1. cStatus' = [offset |-> cStatus.offset, known |-> cStatus.known,
                          persisted |-> cStatus.persisted, pending |-> cStatus.pending,
                          stored |-> cStatus.offset]
            BY <1>1, <2>3 DEF Statuses
        <3>2. cStatus' \in Statuses /\ cSetting' \in Int
            BY <1>1, <2>3, <3>1 DEF Statuses
        <3> QED BY <1>1, <1>2, <2>1, <2>3, <3>1, <3>2
                DEF ClockInv, ClockTypes, Agree, Persisting, Told, There, Clock!Readable
    <2>4. CASE cSetting' = cSetting /\ cPc' = "idle" /\ cStatus' = cStatus
        BY <1>1, <1>2, <2>1, <2>4
           DEF ClockInv, ClockTypes, Agree, Persisting, Told, There, Clock!Readable
    <2> QED BY <1>5, <2>2, <2>3, <2>4 DEF Clock!SaveOffset
<1>6. CASE Clock!WriteCalendar
    <2>1. cPc = "write" /\ UNCHANGED <<cSetting, cStatus>> /\ cSetting = cStatus.offset
        BY <1>6 DEF Clock!WriteCalendar, Clock!At, ClockInv, Persisting
    <2> DEFINE value == cClock + cStatus.offset
    <2>2. value \in Int
        BY <1>1, <1>2, ClockConstants DEF Statuses
    <2> HIDE DEF value
    <2>3. ASSUME NEW v \in Int \cup {Torn}
          PROVE  /\ Clock!Set(Clock!Stopped(cChip), v) \in Chips
                 /\ Clock!Set(Clock!Stopped(cChip), v).stop
                 /\ ~Clock!Set(Clock!Stopped(cChip), v).low
                 /\ Clock!Set(Clock!Stopped(cChip), v).calendar = v
        <3>1. Clock!Set(Clock!Stopped(cChip), v) = [stop |-> TRUE, low |-> FALSE, calendar |-> v]
            <4>1. ASSUME NEW c \in Chips, c.stop = TRUE,
                         NEW w, w = [c EXCEPT !.calendar = v, !.low = FALSE]
                  PROVE  w = [stop |-> TRUE, low |-> FALSE, calendar |-> v]
                <5>1. DOMAIN c = {"stop", "low", "calendar"}
                    BY DEF Chips
                <5>2. DOMAIN w = {"stop", "low", "calendar"}
                      /\ w.stop = TRUE /\ w.low = FALSE /\ w.calendar = v
                    BY <4>1, <5>1
                <5> QED BY <4>1, <5>2 DEF Chips
            <4>2. Clock!Stopped(cChip).stop = TRUE
                BY <1>1 DEF Clock!Stopped, Chips
            <4> QED BY <1>3, <4>1, <4>2 DEF Clock!Set
        <3> QED BY <3>1 DEF Chips
    <2>4. CASE cChip' = Clock!Set(Clock!Stopped(cChip), value) /\ cPc' = "start"
        BY <1>1, <1>2, <2>1, <2>2, <2>3, <2>4
           DEF ClockInv, ClockTypes, Agree, Persisting, Told, There, Clock!Readable, value
    <2>5. CASE /\ cChip' \in {Clock!Stopped(cChip), Clock!Set(Clock!Stopped(cChip), Torn), cChip}
               /\ cPc' = "idle"
        <3>1. cChip' \in Chips /\ cChip'.stop
            BY <1>1, <1>3, <1>6, <2>3, <2>5
               DEF ClockInv, Persisting, Clock!WriteCalendar, Clock!At
        <3> QED BY <1>1, <1>2, <2>1, <2>5, <3>1
                DEF ClockInv, ClockTypes, Agree, Persisting, Told, There, Clock!Readable
    <2> QED BY <1>6, <2>4, <2>5 DEF Clock!WriteCalendar, value
<1>7. CASE Clock!StartClock
    <2>1. /\ cPc = "start" /\ cSetting' = cSetting /\ cSetting = cStatus.offset /\ cPc' = "idle"
          /\ cChip.stop /\ ~cChip.low /\ cChip.calendar = cClock + cStatus.offset
        BY <1>7 DEF Clock!StartClock, Clock!At, ClockInv, Persisting
    <2>2. /\ cClock \in Int /\ cStatus.offset \in Int /\ cChip.calendar \in Int
          /\ cChip.calendar - cSetting = cClock
        BY <1>1, <1>2, <2>1, ClockConstants DEF Statuses
    <2>3. /\ cChip' \in Chips /\ cChip'.calendar = cChip.calendar
          /\ (cChip' = cChip \/ Clock!Readable(cChip'))
        BY <1>1, <1>7, <2>1 DEF Clock!StartClock, Chips, Clock!Readable
    <2>4. CASE /\ cChip' = [cChip EXCEPT !.stop = FALSE]
               /\ cStatus' = [cStatus EXCEPT !.persisted = TRUE, !.pending = FALSE]
        <3>1. cStatus' = [offset |-> cStatus.offset, known |-> cStatus.known, persisted |-> TRUE,
                          pending |-> FALSE, stored |-> cStatus.stored]
            BY <1>1, <2>4 DEF Statuses
        <3>2. cStatus' \in Statuses
            BY <1>1, <3>1 DEF Statuses
        <3>3. Clock!Readable(cChip')
            BY <1>1, <2>1, <2>4 DEF Clock!Readable, Chips
        <3> QED BY <1>1, <1>2, <2>1, <2>2, <2>3, <3>1, <3>2, <3>3
                DEF ClockInv, ClockTypes, Agree, Persisting, Told, There
    <2>5. CASE cStatus' = cStatus
        BY <1>1, <1>2, <2>1, <2>2, <2>3, <2>5
           DEF ClockInv, ClockTypes, Agree, Persisting, Told, There
    <2> QED BY <1>7, <2>4, <2>5 DEF Clock!StartClock
<1> QED BY <1>4, <1>5, <1>6, <1>7 DEF Clock!Persist

-----------------------------------------------------------------------------
\* Whatever the loop, the user, the network and the power do next.
LEMMA ClockStep ==
    ASSUME ClockInv, Clock!Next
    PROVE  ClockInv'
<1>1. CASE Clock!Initialize
    <2>1. ~cStatus.persisted /\ ~cStatus.pending
        BY <1>1 DEF Clock!Initialize, ClockInv, Told
    <2> QED BY <1>1, <2>1, RestoreKeeps DEF Clock!Initialize
<1>2. CASE Clock!Sampled
    <2>1. cSample' \in Given /\ cSample'.time \in Times
        BY <1>2 DEF Clock!Sampled, Clock!Samples, Given
    <2> QED BY <1>2, <2>1
            DEF Clock!Sampled, ClockInv, ClockTypes, Agree, Persisting, Told, There
<1>3. CASE Clock!Poll
    <2>1. cPc = "idle" /\ UNCHANGED <<cChip, cSetting, cSample>>
        BY <1>3 DEF Clock!Poll
    <2>2. CASE cStatus.pending
        BY <1>3, <2>1, <2>2
           DEF Clock!Poll, Clock!Unsaved, ClockInv, ClockTypes, Agree, Persisting, Told, There
    <2>3. CASE ~cStatus.pending /\ Clock!RestoreStep /\ ~cStatus.persisted
        BY <1>3, <2>1, <2>3, RestoreKeeps DEF Clock!Poll, Clock!Unsaved
    <2>4. CASE ~cStatus.pending /\ UNCHANGED <<cStatus, cLocal, cClock, cSync, cFaults>>
        BY <1>3, <2>1, <2>4
           DEF Clock!Poll, Clock!Unsaved, ClockInv, ClockTypes, Agree, Persisting, Told, There
    <2> QED BY <1>3, <2>2, <2>3, <2>4 DEF Clock!Poll, Clock!Unsaved
<1>4. CASE Clock!Tick
    <2>1. cSample' \in Given /\ (cSample' # Clock!NoSample => cSample'.time \in Times)
        <3>1. cSample' = cSample
              \/ (cSample # Clock!NoSample /\ cSample' = [cSample EXCEPT !.age = @ + 1])
            BY <1>4 DEF Clock!Tick
        <3> QED BY <3>1 DEF ClockInv, ClockTypes, Given
    <2> QED BY <1>4, <2>1
            DEF Clock!Tick, ClockInv, ClockTypes, Agree, Persisting, Told, There
<1>5. CASE Clock!Reset
    <2>1. /\ cStatus' = Clock!Blank /\ cPc' = "boot" /\ cClock' = NoValue
          /\ cSample' = Clock!NoSample /\ cSetting' = cSetting
          /\ cChip' \in {cChip, [stop |-> FALSE, low |-> TRUE, calendar |-> Torn]}
        BY <1>5 DEF Clock!Reset
    <2>2. cStatus' \in Statuses /\ cSample' \in Given
        BY <2>1 DEF Clock!Blank, Clock!NoSample, Statuses, Given
    <2>3. cChip' \in Chips /\ Agree(cChip', cSetting)
        <3>1. CASE cChip' = cChip
            BY <3>1 DEF ClockInv, ClockTypes
        <3>2. CASE cChip' = [stop |-> FALSE, low |-> TRUE, calendar |-> Torn]
            BY <3>2 DEF Chips, Agree, Clock!Readable
        <3> QED BY <2>1, <3>1, <3>2
    <2>4. /\ ~cStatus'.pending /\ ~cStatus'.persisted /\ cStatus'.stored = NoValue
        BY <2>1 DEF Clock!Blank
    <2> QED BY <2>1, <2>2, <2>3, <2>4 DEF ClockInv, ClockTypes, Persisting, Told, There
<1> QED BY <1>1, <1>2, <1>3, <1>4, <1>5, TimesKeep, PersistKeeps DEF Clock!Next

\* The invariant of the clock, while it is the part that moves.
LEMMA AlwaysClock == MCSpec => [](part = "clock" => ClockInv)
<1>1. MCInit => (part = "clock" => ClockInv)
    <2> SUFFICES ASSUME MCInit, part = "clock" PROVE ClockInv
        OBVIOUS
    <2>1. Clock!Init
        BY DEF MCInit
    <2>2. cStatus \in Statuses /\ cSample \in Given /\ cChip \in Chips
        <3>1. cChip \in Chips
            BY <2>1, ClockConstants DEF Clock!Init, Chips
        <3>2. cStatus \in Statuses /\ cSample \in Given
            BY <2>1 DEF Clock!Init, Clock!Blank, Clock!NoSample, Statuses, Given
        <3> QED BY <3>1, <3>2
    <2>3. ~cStatus.pending /\ ~cStatus.persisted /\ cStatus.stored = NoValue
        BY <2>1 DEF Clock!Init, Clock!Blank
    <2> QED BY <2>1, <2>2, <2>3
            DEF Clock!Init, ClockInv, ClockTypes, Agree, Persisting, Told, There
<1>2. (part = "clock" => ClockInv) /\ [MCNext]_mcVars => (part = "clock" => ClockInv)'
    <2> SUFFICES ASSUME part = "clock" => ClockInv, [MCNext]_mcVars, part' = "clock"
                 PROVE  ClockInv'
        OBVIOUS
    <2>1. CASE UNCHANGED <<part, ClockVars>>
        BY <2>1 DEF ClockVars, ClockInv, ClockTypes
    <2>2. CASE Clock!Next /\ part = "clock"
        BY <2>2, ClockStep
    <2> QED BY <2>1, <2>2 DEF MCNext, mcVars
<1> QED BY <1>1, <1>2, PTL DEF MCSpec

\* What the clock shows was somebody's time, and what is reported as saved is in the
\* chip and in the settings (note4_time_service.cc), for any times and offsets, however
\* they add up, and any number of failures and resets.
THEOREM ClockAlwaysTrue == MCSpec => []ClockIsTrue
<1>1. (part = "clock" => ClockInv) => ClockIsTrue
    BY DEF ClockInv, ClockTypes, There, ClockIsTrue, Clock!ClockWasSet, Clock!SavedIsThere,
           Clock!Shown
<1> QED BY <1>1, AlwaysClock, PTL

-----------------------------------------------------------------------------
(* The resource gateway.                                                   *)

Asks == [id : Ids, body : Bodies, waiting : BOOLEAN]
Requests == [id : Ids, body : Bodies, fresh : BOOLEAN]
Fetches == [id : Ids, body : Bodies, fresh : BOOLEAN, session : BOOLEAN]
Results == [status : Gate!Statuses, size : Nat]
Replies == [id : Ids, body : Bodies, fresh : BOOLEAN, status : Gate!Statuses, size : Nat]
Entries == [id : Ids, body : Bodies, inFlight : BOOLEAN, cached : Results \cup {NoValue}]

GateTypes ==
    /\ gAsk \in Asks \cup {NoValue}
    /\ gToPhone \in Seq(Requests) /\ gToNote \in Seq(Replies)
    /\ gTasks \in Seq(Fetches) /\ gDedupe \in Seq(Entries)

\* While the Note4 waits, what carries its sequence number is of its request.
Owns(a, ms) ==
    a # NoValue /\ a.waiting => \A i \in DOMAIN ms : ms[i].fresh => ms[i].body = a.body

Distinct(ms) == \A i, j \in DOMAIN ms : ms[i].id = ms[j].id => i = j

\* A fetch and the entry it runs for.
RunsFor(t, e) == e.inFlight /\ e.id = t.id /\ e.body = t.body

\* Every fetch has its entry, every entry in flight its fetch.
Matched(ts, dd) ==
    /\ \A i \in DOMAIN ts : \E j \in DOMAIN dd : RunsFor(ts[i], dd[j])
    /\ \A j \in DOMAIN dd : dd[j].inFlight => \E i \in DOMAIN ts : ts[i].id = dd[j].id

GateInv ==
    /\ GateTypes
    /\ Owns(gAsk, gToPhone) /\ Owns(gAsk, gTasks) /\ Owns(gAsk, gToNote)
    /\ Distinct(gTasks) /\ Distinct(gDedupe) /\ Matched(gTasks, gDedupe)
    /\ Gate!AnswerIsOwn

-----------------------------------------------------------------------------
\* Made stale, a message of a kind stays one of that kind and for the same request.
Ages(S) ==
    \A m \in S : \A w : w = [m EXCEPT !.fresh = FALSE] =>
        w \in S /\ w.fresh = FALSE /\ w.id = m.id /\ w.body = m.body

Aged(us, ms) ==
    /\ DOMAIN us = DOMAIN ms
    /\ \A i \in DOMAIN us : /\ us[i].fresh = FALSE
                            /\ us[i].id = ms[i].id /\ us[i].body = ms[i].body

\* A new sequence number leaves the messages of a kind as they are, and none fresh.
LEMMA StaleFacts ==
    ASSUME NEW S, NEW ms \in Seq(S), NEW us, us = Gate!Stale(ms), Ages(S)
    PROVE  us \in Seq(S) /\ Aged(us, ms)
<1>1. /\ Len(ms) \in Nat /\ DOMAIN ms = 1..Len(ms)
      /\ \A i \in 1..Len(ms) : ms[i] \in S
    OBVIOUS
<1>2. us = [i \in 1..Len(ms) |-> [ms[i] EXCEPT !.fresh = FALSE]]
    BY <1>1 DEF Gate!Stale
<1>3. us \in [1..Len(ms) -> S] /\ DOMAIN us = 1..Len(ms)
    BY <1>1, <1>2 DEF Ages
<1>4. us \in Seq(S)
    BY <1>1, <1>3, SeqDef
<1>5. \A i \in 1..Len(ms) : us[i] = [ms[i] EXCEPT !.fresh = FALSE]
    BY <1>2
<1>6. \A i \in 1..Len(ms) : /\ us[i].fresh = FALSE
                            /\ us[i].id = ms[i].id /\ us[i].body = ms[i].body
    BY <1>1, <1>5 DEF Ages
<1> QED BY <1>1, <1>3, <1>4, <1>6 DEF Aged

\* Without the entry at a place the others keep their order.
LEMMA RemovedFacts ==
    ASSUME NEW S, NEW s \in Seq(S), NEW k \in 1..Len(s)
    PROVE  /\ Gate!RemoveAt(s, k) \in Seq(S)
           /\ Len(Gate!RemoveAt(s, k)) = Len(s) - 1
           /\ \A i \in 1..(Len(s) - 1) :
                Gate!RemoveAt(s, k)[i] = IF i < k THEN s[i] ELSE s[i + 1]
<1> DEFINE a == SubSeq(s, 1, k - 1)
           b == SubSeq(s, k + 1, Len(s))
<1>1. k - 1 \in Int /\ k + 1 \in Int /\ Len(s) \in Nat
    OBVIOUS
<1>2. a \in Seq(S) /\ Len(a) = k - 1 /\ \A i \in 1..(k - 1) : a[i] = s[i]
    BY <1>1
<1>3. b \in Seq(S) /\ Len(b) = Len(s) - k /\ \A i \in 1..(Len(s) - k) : b[i] = s[i + k]
    BY <1>1
<1>4. Gate!RemoveAt(s, k) = a \o b
    BY DEF Gate!RemoveAt
<1> HIDE DEF a, b
<1>5. /\ a \o b \in Seq(S) /\ Len(a \o b) = Len(a) + Len(b)
      /\ \A i \in 1..(Len(a) + Len(b)) :
            (a \o b)[i] = IF i <= Len(a) THEN a[i] ELSE b[i - Len(a)]
    BY <1>2, <1>3, ConcatProperties
<1> QED BY <1>1, <1>2, <1>3, <1>4, <1>5

\* The same entries, in whatever order.
SameIn(t, dd) ==
    /\ \A i \in DOMAIN t : \E j \in DOMAIN dd : t[i] = dd[j]
    /\ \A j \in DOMAIN dd : \E i \in DOMAIN t : t[i] = dd[j]

\* get moves the entry of an id to the end and leaves the others.
LEMMA TouchedFacts ==
    ASSUME NEW id, gDedupe \in Seq(Entries), Distinct(gDedupe), Gate!Known(id) # {},
           NEW t, t = Gate!Touched(id), NEW n, n = Len(t)
    PROVE  /\ t \in Seq(Entries) /\ Distinct(t) /\ n \in 1..n
           /\ t[n] \in Entries /\ t[n].id = id
           /\ SameIn(t, gDedupe)
<1> DEFINE k == Gate!Place(id)
           r == Gate!RemoveAt(gDedupe, k)
<1>1. k \in DOMAIN gDedupe /\ gDedupe[k].id = id
    BY DEF Gate!Place, Gate!Known
<1>2. /\ Len(gDedupe) \in Nat /\ DOMAIN gDedupe = 1..Len(gDedupe)
      /\ \A i \in 1..Len(gDedupe) : gDedupe[i] \in Entries
    OBVIOUS
<1>3. /\ r \in Seq(Entries) /\ Len(r) = Len(gDedupe) - 1
      /\ \A i \in 1..(Len(gDedupe) - 1) :
            r[i] = IF i < k THEN gDedupe[i] ELSE gDedupe[i + 1]
    BY <1>1, <1>2, RemovedFacts
<1>4. t = Append(r, gDedupe[k])
    BY DEF Gate!Touched
<1> HIDE DEF k, r
<1>5. /\ t \in Seq(Entries) /\ Len(t) = Len(gDedupe) /\ DOMAIN t = 1..Len(gDedupe)
      /\ t[Len(gDedupe)] = gDedupe[k]
      /\ \A i \in 1..(Len(gDedupe) - 1) :
            t[i] = IF i < k THEN gDedupe[i] ELSE gDedupe[i + 1]
    <2>1. gDedupe[k] \in Entries
        BY <1>1, <1>2
    <2>2. /\ t \in Seq(Entries) /\ Len(t) = Len(r) + 1 /\ t[Len(r) + 1] = gDedupe[k]
          /\ \A i \in 1..Len(r) : t[i] = r[i]
        BY <1>3, <1>4, <2>1, AppendProperties
    <2>3. DOMAIN t = 1..Len(t)
        BY <2>2
    <2> QED BY <1>2, <1>3, <2>2, <2>3
<1>6. ASSUME NEW i \in DOMAIN t
      PROVE  \E j \in DOMAIN gDedupe : t[i] = gDedupe[j]
    <2>1. CASE i = Len(gDedupe)
        BY <1>1, <1>5, <2>1
    <2>2. CASE i < k
        BY <1>1, <1>2, <1>5, <2>2
    <2>3. CASE i >= k /\ i # Len(gDedupe)
        <3>1. t[i] = gDedupe[i + 1] /\ i + 1 \in 1..Len(gDedupe)
            BY <1>1, <1>2, <1>5, <2>3
        <3> QED BY <1>2, <3>1
    <2> QED BY <1>1, <1>2, <1>5, <2>1, <2>2, <2>3
<1>7. ASSUME NEW j \in DOMAIN gDedupe
      PROVE  \E i \in DOMAIN t : t[i] = gDedupe[j]
    <2>1. CASE j = k
        BY <1>1, <1>2, <1>5, <2>1
    <2>2. CASE j < k
        BY <1>1, <1>2, <1>5, <2>2
    <2>3. CASE j > k
        <3>1. j - 1 \in 1..(Len(gDedupe) - 1) /\ ~(j - 1 < k) /\ (j - 1) + 1 = j
            BY <1>1, <1>2, <2>3
        <3>2. t[j - 1] = gDedupe[j]
            BY <1>5, <3>1
        <3> QED BY <1>2, <1>5, <3>1, <3>2
    <2> QED BY <1>1, <1>2, <2>1, <2>2, <2>3
<1>8. Distinct(t)
    <2> SUFFICES ASSUME NEW i \in DOMAIN t, NEW j \in DOMAIN t, i < j, t[i].id = t[j].id
                 PROVE  FALSE
        BY <1>2, <1>5 DEF Distinct
    <2>1. i \in 1..(Len(gDedupe) - 1) /\ i < j /\ j <= Len(gDedupe)
        BY <1>2, <1>5
    <2> DEFINE x == IF i < k THEN i ELSE i + 1
               y == IF j = Len(gDedupe) THEN k ELSE IF j < k THEN j ELSE j + 1
    <2>2. x \in 1..Len(gDedupe) /\ y \in 1..Len(gDedupe) /\ x # y
        BY <1>1, <1>2, <1>5, <2>1
    <2>3. t[i] = gDedupe[x] /\ t[j] = gDedupe[y]
        BY <1>1, <1>2, <1>5, <2>1
    <2> HIDE DEF x, y
    <2> QED BY <1>2, <2>2, <2>3 DEF Distinct
<1>9. n \in 1..n /\ t[n] \in Entries /\ t[n].id = id
    BY <1>1, <1>2, <1>5
<1> QED BY <1>5, <1>6, <1>7, <1>8, <1>9 DEF SameIn

\* A message joins a queue.
LEMMA AddedOwns ==
    ASSUME NEW S, NEW ms \in Seq(S), NEW m \in S, NEW a, Owns(a, ms),
           a # NoValue /\ a.waiting /\ m.fresh => m.body = a.body
    PROVE  Append(ms, m) \in Seq(S) /\ Owns(a, Append(ms, m))
<1>1. /\ Len(ms) \in Nat /\ Append(ms, m) \in Seq(S)
      /\ DOMAIN ms = 1..Len(ms) /\ DOMAIN Append(ms, m) = 1..(Len(ms) + 1)
      /\ \A i \in 1..Len(ms) : Append(ms, m)[i] = ms[i]
      /\ Append(ms, m)[Len(ms) + 1] = m
    BY AppendProperties
<1>2. \A i \in 1..(Len(ms) + 1) : i \in 1..Len(ms) \/ i = Len(ms) + 1
    BY <1>1
<1> QED BY <1>1, <1>2 DEF Owns

\* A message is taken from a queue.
LEMMA TakenOwns ==
    ASSUME NEW S, NEW ms \in Seq(S), ms # <<>>, NEW a, Owns(a, ms)
    PROVE  /\ Head(ms) \in S /\ Tail(ms) \in Seq(S) /\ Owns(a, Tail(ms))
           /\ a # NoValue /\ a.waiting /\ Head(ms).fresh => Head(ms).body = a.body
<1>1. /\ Len(ms) \in Nat /\ Len(ms) >= 1 /\ DOMAIN ms = 1..Len(ms)
      /\ Head(ms) = ms[1] /\ ms[1] \in S
    OBVIOUS
<1>2. /\ Tail(ms) \in Seq(S) /\ DOMAIN Tail(ms) = 1..(Len(ms) - 1)
      /\ \A i \in 1..(Len(ms) - 1) : Tail(ms)[i] = ms[i + 1]
    OBVIOUS
<1>3. \A i \in 1..(Len(ms) - 1) : i + 1 \in 1..Len(ms)
    BY <1>1
<1> QED BY <1>1, <1>2, <1>3 DEF Owns

\* An answer repeats the header of its request; where the queue is full it is lost.
LEMMA AnswersOwn ==
    ASSUME gToNote \in Seq(Replies), Owns(gAsk, gToNote), NEW r \in Results,
           NEW m, m.id \in Ids, m.body \in Bodies, m.fresh \in BOOLEAN,
           gAsk # NoValue /\ gAsk.waiting /\ m.fresh => m.body = gAsk.body,
           Gate!Answers(m, r)
    PROVE  gToNote' \in Seq(Replies) /\ Owns(gAsk, gToNote')
<1> DEFINE reply == [id |-> m.id, body |-> m.body, fresh |-> m.fresh, status |-> r.status,
                     size |-> r.size]
<1>1. reply \in Replies /\ reply.fresh = m.fresh /\ reply.body = m.body
    BY DEF Replies, Results
<1>2. gToNote' = Append(gToNote, reply) \/ gToNote' = gToNote
    BY DEF Gate!Answers, Gate!Reply
<1> HIDE DEF reply
<1> QED BY <1>1, <1>2, AddedOwns

\* What the fetches are for, and not what they answer, decides whether they match.
LEMMA SameFetches ==
    ASSUME NEW ts, NEW us, NEW dd, DOMAIN us = DOMAIN ts, Distinct(ts), Matched(ts, dd),
           \A i \in DOMAIN us : us[i].id = ts[i].id /\ us[i].body = ts[i].body
    PROVE  Distinct(us) /\ Matched(us, dd)
<1>1. Distinct(us)
    BY DEF Distinct
<1>2. \A i \in DOMAIN us : \E j \in DOMAIN dd : RunsFor(us[i], dd[j])
    BY DEF Matched, RunsFor
<1>3. \A j \in DOMAIN dd : dd[j].inFlight => \E i \in DOMAIN us : us[i].id = dd[j].id
    BY DEF Matched
<1> QED BY <1>1, <1>2, <1>3 DEF Matched

\* A table of the same entries in another order matches too.
LEMMA SameEntries ==
    ASSUME NEW ts, NEW dd, NEW t, Matched(ts, dd),
           \A i \in DOMAIN t : \E j \in DOMAIN dd : t[i] = dd[j],
           \A j \in DOMAIN dd : dd[j].inFlight => \E i \in DOMAIN t : t[i] = dd[j]
    PROVE  Matched(ts, t)
<1>1. ASSUME NEW i \in DOMAIN ts PROVE \E j \in DOMAIN t : RunsFor(ts[i], t[j])
    <2>1. PICK j \in DOMAIN dd : RunsFor(ts[i], dd[j])
        BY DEF Matched
    <2>2. dd[j].inFlight
        BY <2>1 DEF RunsFor
    <2> QED BY <2>1, <2>2
<1>2. ASSUME NEW j \in DOMAIN t, t[j].inFlight PROVE \E i \in DOMAIN ts : ts[i].id = t[j].id
    <2>1. PICK k \in DOMAIN dd : t[j] = dd[k]
        OBVIOUS
    <2> QED BY <1>2, <2>1 DEF Matched
<1> QED BY <1>1, <1>2 DEF Matched

\* The last of n entries becomes another.
LastIs(u, t, n, v) ==
    /\ n \in Nat /\ DOMAIN u = 1..n /\ DOMAIN t = 1..n
    /\ u[n] = v /\ \A i \in 1..n : i # n => u[i] = t[i]

\* The last entry changes and stays that of its id.
LEMMA LastChanged ==
    ASSUME NEW t \in Seq(Entries), Distinct(t), NEW n, n = Len(t), n \in 1..n,
           NEW v \in Entries, v.id = t[n].id, NEW u, u = [t EXCEPT ![n] = v]
    PROVE  u \in Seq(Entries) /\ Distinct(u) /\ LastIs(u, t, n, v)
<1>1. n \in Nat /\ DOMAIN t = 1..n /\ \A i \in 1..n : t[i] \in Entries
    OBVIOUS
<1>2. DOMAIN u = 1..n /\ u[n] = v /\ \A i \in 1..n : i # n => u[i] = t[i]
    BY <1>1
<1>3. u \in [1..n -> Entries]
    BY <1>1, <1>2
<1>4. u \in Seq(Entries)
    BY <1>1, <1>3, SeqDef
<1>5. \A i \in 1..n : u[i].id = t[i].id
    BY <1>2
<1>6. Distinct(u)
    BY <1>1, <1>2, <1>5 DEF Distinct
<1> QED BY <1>1, <1>2, <1>4, <1>6 DEF LastIs

\* What the Note4's calls to the gateway and its sessions leave of the invariant.
LEMMA AsksKeep ==
    ASSUME GateInv,
           \/ \E id \in Ids, b \in Bodies : Gate!Begin(id, b)
           \/ Gate!Cancel \/ Gate!Deadline \/ Gate!Connected
    PROVE  GateInv'
<1> USE DEF GateInv, GateTypes
<1>1. UNCHANGED <<gToPhone, gToNote, gTasks, gDedupe>>
    BY DEF Gate!Begin, Gate!Cancel, Gate!Deadline, Gate!Connected
<1>2. CASE Gate!Connected
    <2>1. UNCHANGED <<gAsk, gAnswer>>
        BY <1>2 DEF Gate!Connected
    <2> QED BY <1>1, <2>1 DEF Owns, Distinct, Matched, RunsFor, Gate!AnswerIsOwn
<1>3. CASE ~Gate!Connected
    <2>1. gAsk' \in Asks \cup {NoValue} /\ (gAsk' # NoValue => ~gAsk'.waiting)
        <3>1. CASE \E id \in Ids, b \in Bodies : Gate!Begin(id, b)
            BY <3>1 DEF Gate!Begin, Asks
        <3>2. CASE Gate!Cancel
            BY <3>2 DEF Gate!Cancel
        <3>3. CASE Gate!Deadline
            BY <3>3 DEF Gate!Deadline, Asks
        <3> QED BY <1>3, <3>1, <3>2, <3>3
    <2>2. gAnswer' = gAnswer \/ gAnswer' = NoValue
        BY <1>3 DEF Gate!Begin, Gate!Cancel, Gate!Deadline
    <2>3. Gate!AnswerIsOwn'
        BY <2>2 DEF Gate!AnswerIsOwn
    <2>4. /\ Owns(gAsk, gToPhone)' /\ Owns(gAsk, gTasks)' /\ Owns(gAsk, gToNote)'
        BY <2>1 DEF Owns
    <2>5. Distinct(gTasks)' /\ Distinct(gDedupe)' /\ Matched(gTasks, gDedupe)'
        BY <1>1 DEF Distinct, Matched, RunsFor
    <2> QED BY <1>1, <2>1, <2>3, <2>4, <2>5
<1> QED BY <1>2, <1>3

\* A request is sent or repeated: it alone has the present sequence number.
LEMMA SendKeeps ==
    ASSUME GateInv, Gate!Send
    PROVE  GateInv'
<1> USE DEF GateInv, GateTypes
<1>1. /\ gAsk \in Asks /\ gAsk' = [gAsk EXCEPT !.waiting = TRUE]
      /\ UNCHANGED <<gAnswer, gDedupe>>
    BY DEF Gate!Send
<1>2. gAsk' \in Asks /\ gAsk'.body = gAsk.body
    BY <1>1 DEF Asks
<1> DEFINE m == [id |-> gAsk.id, body |-> gAsk.body, fresh |-> TRUE]
           old == Gate!Stale(gToPhone)
<1>3. m \in Requests /\ m.body = gAsk.body
    BY <1>1 DEF Asks, Requests
<1>4. gToPhone' = Append(old, m) /\ gToNote' = Gate!Stale(gToNote) /\ gTasks' = Gate!Stale(gTasks)
    BY DEF Gate!Send
<1>5. old \in Seq(Requests) /\ Owns(gAsk', old)
    <2>1. Ages(Requests)
        BY DEF Ages, Requests
    <2>2. old \in Seq(Requests) /\ Aged(old, gToPhone)
        BY <2>1, StaleFacts
    <2> QED BY <2>2 DEF Owns, Aged
<1>6. gToNote' \in Seq(Replies) /\ Owns(gAsk', gToNote')
    <2>1. Ages(Replies)
        BY DEF Ages, Replies
    <2>2. gToNote' \in Seq(Replies) /\ Aged(gToNote', gToNote)
        BY <1>4, <2>1, StaleFacts
    <2> QED BY <2>2 DEF Owns, Aged
<1>7. /\ gTasks' \in Seq(Fetches) /\ Owns(gAsk', gTasks')
      /\ Distinct(gTasks') /\ Matched(gTasks', gDedupe)
    <2>1. Ages(Fetches)
        BY DEF Ages, Fetches
    <2>2. gTasks' \in Seq(Fetches) /\ Aged(gTasks', gTasks)
        BY <1>4, <2>1, StaleFacts
    <2>3. Owns(gAsk', gTasks')
        BY <2>2 DEF Owns, Aged
    <2>4. Distinct(gTasks') /\ Matched(gTasks', gDedupe)
        BY <2>2, SameFetches DEF Aged
    <2> QED BY <2>2, <2>3, <2>4
<1> HIDE DEF m, old
<1>8. gToPhone' \in Seq(Requests) /\ Owns(gAsk', gToPhone')
    BY <1>2, <1>3, <1>4, <1>5, AddedOwns
<1>9. Gate!AnswerIsOwn' /\ Distinct(gDedupe')
    BY <1>1 DEF Gate!AnswerIsOwn
<1> QED BY <1>1, <1>2, <1>6, <1>7, <1>8, <1>9

\* A reply is handed over, asked for again or thrown away.
LEMMA ReceiveKeeps ==
    ASSUME GateInv, Gate!Receive
    PROVE  GateInv'
<1> USE DEF GateInv, GateTypes
<1> DEFINE r == Head(gToNote)
<1>1. gToNote # <<>> /\ gToNote' = Tail(gToNote) /\ UNCHANGED <<gToPhone, gDedupe, gTasks>>
    BY DEF Gate!Receive
<1>2. /\ r \in Replies /\ gToNote' \in Seq(Replies) /\ Owns(gAsk, gToNote')
      /\ gAsk # NoValue /\ gAsk.waiting /\ r.fresh => r.body = gAsk.body
    BY <1>1, TakenOwns
<1> DEFINE result == Gate!Accepted(r)
<1>3. \/ UNCHANGED <<gAsk, gAnswer>>
      \/ /\ gAsk # NoValue /\ gAsk' = [gAsk EXCEPT !.waiting = FALSE] /\ UNCHANGED gAnswer
      \/ /\ gAsk # NoValue /\ gAsk.waiting /\ r.fresh /\ gAsk' = NoValue
         /\ gAnswer' = [asked |-> gAsk.body, fetched |-> r.body, is |-> result]
    BY DEF Gate!Receive, Gate!Accepts
<1> HIDE DEF r
<1>4. /\ gAsk' \in Asks \cup {NoValue}
      /\ gAsk' = gAsk \/ (gAsk' # NoValue => ~gAsk'.waiting)
    BY <1>3 DEF Asks
<1>5. gToNote' \in Seq(Replies) /\ Owns(gAsk', gToNote')
    BY <1>2, <1>4 DEF Owns
<1>6. Owns(gAsk', gToPhone) /\ Owns(gAsk', gTasks)
    BY <1>4 DEF Owns
<1>7. Gate!AnswerIsOwn'
    <2>1. CASE UNCHANGED gAnswer
        BY <2>1 DEF Gate!AnswerIsOwn
    <2>2. CASE /\ gAsk # NoValue /\ gAsk.waiting /\ r.fresh
               /\ gAnswer' = [asked |-> gAsk.body, fetched |-> r.body, is |-> result]
        <3>1. gAnswer'.asked = gAsk.body /\ gAnswer'.fetched = r.body /\ gAnswer'.is = result
            BY <2>2
        <3>2. r.body = gAsk.body /\ gAsk.body \in Bodies
            BY <1>2, <2>2 DEF Asks
        <3>3. gAsk.body.max \in Nat /\ r.size \in Nat
            BY <1>2, <3>2, GateConstants DEF Replies
        <3>4. result.status = "success" => result.size \in 1..gAsk.body.max
            <4>1. CASE r.size > gAsk.body.max
                BY <4>1 DEF Gate!Accepted, Gate!Failed
            <4>2. CASE ~(r.size > gAsk.body.max) /\ r.status = "success" /\ r.size = 0
                BY <4>2 DEF Gate!Accepted, Gate!Failed
            <4>3. CASE ~(r.size > gAsk.body.max) /\ ~(r.status = "success" /\ r.size = 0)
                <5>1. result = [status |-> r.status, size |-> r.size]
                    BY <4>3 DEF Gate!Accepted
                <5>2. result.status = r.status /\ result.size = r.size
                    BY <5>1
                <5> QED BY <3>3, <4>3, <5>2
            <4> QED BY <4>1, <4>2, <4>3
        <3> HIDE DEF result
        <3> QED BY <3>1, <3>2, <3>4 DEF Gate!AnswerIsOwn
    <2> QED BY <1>3, <2>1, <2>2
<1> HIDE DEF result
<1>8. Distinct(gTasks') /\ Distinct(gDedupe') /\ Matched(gTasks', gDedupe')
    BY <1>1
<1> QED BY <1>1, <1>4, <1>5, <1>6, <1>7, <1>8

\* A lost session takes the messages with it; what it asked for is fetched all the same.
LEMMA DisconnectedKeeps ==
    ASSUME GateInv, Gate!Disconnected
    PROVE  GateInv'
<1> USE DEF GateInv, GateTypes
<1>1. /\ gToPhone' = <<>> /\ gToNote' = <<>> /\ UNCHANGED <<gAnswer, gDedupe>>
      /\ gAsk' = IF gAsk = NoValue THEN NoValue ELSE [gAsk EXCEPT !.waiting = FALSE]
      /\ gTasks' = [i \in DOMAIN gTasks |-> [gTasks[i] EXCEPT !.session = FALSE]]
    BY DEF Gate!Disconnected
<1>2. gAsk' \in Asks \cup {NoValue} /\ (gAsk' # NoValue => ~gAsk'.waiting)
    BY <1>1 DEF Asks
<1>3. /\ Len(gTasks) \in Nat /\ DOMAIN gTasks = 1..Len(gTasks)
      /\ \A i \in 1..Len(gTasks) : gTasks[i] \in Fetches
    OBVIOUS
<1>4. \A x \in Fetches : \A w : w = [x EXCEPT !.session = FALSE] =>
            w \in Fetches /\ w.id = x.id /\ w.body = x.body
    BY DEF Fetches
<1>5. DOMAIN gTasks' = 1..Len(gTasks)
      /\ \A i \in 1..Len(gTasks) : gTasks'[i] = [gTasks[i] EXCEPT !.session = FALSE]
    BY <1>1, <1>3
<1>6. \A i \in 1..Len(gTasks) : /\ gTasks'[i] \in Fetches
                                /\ gTasks'[i].id = gTasks[i].id
                                /\ gTasks'[i].body = gTasks[i].body
    BY <1>3, <1>4, <1>5
<1>7. gTasks' \in Seq(Fetches)
    <2>1. gTasks' = [i \in 1..Len(gTasks) |-> gTasks'[i]]
        BY <1>1, <1>3, <1>5
    <2>2. gTasks' \in [1..Len(gTasks) -> Fetches]
        BY <1>6, <2>1
    <2> QED BY <1>3, <2>2, SeqDef
<1>8. Distinct(gTasks') /\ Matched(gTasks', gDedupe)
    BY <1>3, <1>5, <1>6, SameFetches
<1>9. Owns(gAsk', gToPhone') /\ Owns(gAsk', gTasks') /\ Owns(gAsk', gToNote')
    BY <1>2 DEF Owns
<1>10. Gate!AnswerIsOwn' /\ Distinct(gDedupe') /\ gToPhone' \in Seq(Requests)
       /\ gToNote' \in Seq(Replies)
    BY <1>1 DEF Gate!AnswerIsOwn
<1> QED BY <1>1, <1>2, <1>7, <1>8, <1>9, <1>10

\* Of the entries that may go, the eldest does.
LEMMA Eldest ==
    ASSUME NEW T, T \subseteq Nat, T # {}
    PROVE  \E x \in T : \A y \in T : x <= y
<1> DEFINE below == OpToRel(<, Nat)
<1>1. \A x, y \in Nat : <<x, y>> \in below <=> x < y
    BY DEF OpToRel
<1>2. IsWellFoundedOn(below, Nat)
    BY NatLessThanWellFounded
<1> HIDE DEF below
<1>3. PICK x \in T : \A y \in T : ~(<<y, x>> \in below)
    BY <1>2, WFMin
<1>4. ASSUME NEW y \in T PROVE x <= y
    <2>1. x \in Nat /\ y \in Nat
        OBVIOUS
    <2>2. ~(y < x)
        BY <1>1, <1>3, <2>1
    <2> QED BY <2>1, <2>2
<1> QED BY <1>3, <1>4

\* An eviction takes an entry whose fetch is over.
LEMMA EvictedFacts ==
    ASSUME gDedupe \in Seq(Entries), Distinct(gDedupe), NEW e, e = Gate!Evicted
    PROVE  /\ e \in Seq(Entries) /\ Distinct(e)
           /\ \A i \in DOMAIN e : \E j \in DOMAIN gDedupe : e[i] = gDedupe[j]
           /\ \A j \in DOMAIN gDedupe : gDedupe[j].inFlight => \E i \in DOMAIN e : e[i] = gDedupe[j]
<1> DEFINE done == {i \in DOMAIN gDedupe : Gate!Evictable(gDedupe[i])}
           k == CHOOSE i \in done : \A j \in done : i <= j
<1>1. /\ Len(gDedupe) \in Nat /\ DOMAIN gDedupe = 1..Len(gDedupe)
      /\ \A i \in 1..Len(gDedupe) : gDedupe[i] \in Entries
    OBVIOUS
<1>2. e = gDedupe \/ (done # {} /\ e = Gate!RemoveAt(gDedupe, k))
    BY DEF Gate!Evicted
<1>3. CASE e = gDedupe
    BY <1>3
<1>4. CASE done # {} /\ e = Gate!RemoveAt(gDedupe, k)
    <2>1. \E i \in done : \A j \in done : i <= j
        <3>1. done \subseteq Nat /\ done # {}
            BY <1>1, <1>4
        <3> HIDE DEF done
        <3> QED BY <3>1, Eldest
    <2>2. k \in done
        BY <2>1
    <2>3. k \in 1..Len(gDedupe) /\ ~gDedupe[k].inFlight
        BY <1>1, <2>2 DEF Gate!Evictable
    <2> HIDE DEF k, done
    <2>4. /\ e \in Seq(Entries) /\ Len(e) = Len(gDedupe) - 1
          /\ \A i \in 1..(Len(gDedupe) - 1) :
                e[i] = IF i < k THEN gDedupe[i] ELSE gDedupe[i + 1]
        BY <1>4, <2>3, RemovedFacts
    <2>5. DOMAIN e = 1..(Len(gDedupe) - 1)
        BY <2>4
    <2>6. ASSUME NEW i \in DOMAIN e PROVE \E j \in DOMAIN gDedupe : e[i] = gDedupe[j]
        <3>1. i \in 1..Len(gDedupe) /\ i + 1 \in 1..Len(gDedupe)
            BY <1>1, <2>5
        <3> QED BY <1>1, <2>4, <2>5, <3>1
    <2>7. ASSUME NEW j \in DOMAIN gDedupe, gDedupe[j].inFlight
          PROVE  \E i \in DOMAIN e : e[i] = gDedupe[j]
        <3>1. CASE j < k
            BY <1>1, <2>3, <2>4, <2>5, <3>1
        <3>2. CASE j > k
            <4>1. j - 1 \in 1..(Len(gDedupe) - 1) /\ ~(j - 1 < k) /\ (j - 1) + 1 = j
                BY <1>1, <2>3, <3>2
            <4> QED BY <2>4, <2>5, <4>1
        <3> QED BY <1>1, <2>3, <2>7, <3>1, <3>2
    <2>8. Distinct(e)
        <3> SUFFICES ASSUME NEW i \in DOMAIN e, NEW j \in DOMAIN e, e[i].id = e[j].id
                     PROVE  i = j
            BY DEF Distinct
        <3> DEFINE x == IF i < k THEN i ELSE i + 1
                   y == IF j < k THEN j ELSE j + 1
        <3>1. x \in 1..Len(gDedupe) /\ y \in 1..Len(gDedupe) /\ (x = y => i = j)
            BY <1>1, <2>3, <2>5
        <3>2. e[i] = gDedupe[x] /\ e[j] = gDedupe[y]
            BY <2>4, <2>5
        <3> HIDE DEF x, y
        <3> QED BY <1>1, <3>1, <3>2 DEF Distinct
    <2> QED BY <2>4, <2>6, <2>7, <2>8
<1> QED BY <1>2, <1>3, <1>4

\* A fetch begins for an entry made for it.
LEMMA FetchBegins ==
    ASSUME NEW ts \in Seq(Fetches), NEW t \in Fetches, NEW e \in Seq(Entries), NEW v \in Entries,
           RunsFor(t, v), Distinct(ts), Distinct(e), Matched(ts, e),
           \A i \in DOMAIN e : e[i].id # v.id
    PROVE  /\ Append(e, v) \in Seq(Entries) /\ Distinct(Append(e, v))
           /\ Distinct(Append(ts, t)) /\ Matched(Append(ts, t), Append(e, v))
<1> DEFINE us == Append(ts, t)
           d == Append(e, v)
<1>1. /\ Len(ts) \in Nat /\ DOMAIN ts = 1..Len(ts) /\ DOMAIN us = 1..(Len(ts) + 1)
      /\ us[Len(ts) + 1] = t /\ \A i \in 1..Len(ts) : us[i] = ts[i]
    BY AppendProperties
<1>2. /\ Len(e) \in Nat /\ DOMAIN e = 1..Len(e) /\ DOMAIN d = 1..(Len(e) + 1)
      /\ d[Len(e) + 1] = v /\ \A i \in 1..Len(e) : d[i] = e[i]
      /\ d \in Seq(Entries)
    BY AppendProperties
<1> HIDE DEF us, d
<1>3. v.inFlight /\ v.id = t.id
    BY DEF RunsFor
<1>4. \A i \in DOMAIN ts : ts[i].id # t.id
    BY <1>3 DEF Matched, RunsFor
<1>5. \A i \in 1..(Len(ts) + 1) : i \in 1..Len(ts) \/ i = Len(ts) + 1
    BY <1>1
<1>6. \A i \in 1..(Len(e) + 1) : i \in 1..Len(e) \/ i = Len(e) + 1
    BY <1>2
<1>7. Distinct(us)
    BY <1>1, <1>4, <1>5 DEF Distinct
<1>8. Distinct(d)
    BY <1>2, <1>3, <1>6 DEF Distinct
<1>9. ASSUME NEW i \in DOMAIN us PROVE \E j \in DOMAIN d : RunsFor(us[i], d[j])
    <2>1. CASE i \in 1..Len(ts)
        <3>1. PICK j \in DOMAIN e : RunsFor(ts[i], e[j])
            BY <1>1, <2>1 DEF Matched
        <3>2. j \in DOMAIN d /\ d[j] = e[j] /\ us[i] = ts[i]
            BY <1>1, <1>2, <2>1
        <3> QED BY <3>1, <3>2
    <2>2. CASE i = Len(ts) + 1
        <3>1. Len(e) + 1 \in DOMAIN d
            BY <1>2
        <3> QED BY <1>1, <1>2, <2>2, <3>1
    <2> QED BY <1>1, <1>5, <2>1, <2>2
<1>10. ASSUME NEW j \in DOMAIN d, d[j].inFlight PROVE \E i \in DOMAIN us : us[i].id = d[j].id
    <2>1. CASE j \in 1..Len(e)
        <3>1. PICK i \in DOMAIN ts : ts[i].id = e[j].id
            BY <1>2, <1>10, <2>1 DEF Matched
        <3>2. i \in DOMAIN us /\ us[i] = ts[i]
            BY <1>1
        <3> QED BY <1>2, <2>1, <3>1, <3>2
    <2>2. CASE j = Len(e) + 1
        <3>1. Len(ts) + 1 \in DOMAIN us
            BY <1>1
        <3> QED BY <1>1, <1>2, <1>3, <2>2, <3>1
    <2> QED BY <1>2, <1>6, <2>1, <2>2
<1>11. Matched(us, d)
    BY <1>9, <1>10 DEF Matched
<1> QED BY <1>2, <1>7, <1>8, <1>11 DEF us, d

\* A request reaches the phone: it is answered from the table, refused, already being
\* fetched, or fetched.
LEMMA HandleKeeps ==
    ASSUME GateInv, Gate!Handle
    PROVE  GateInv'
<1> USE DEF GateInv, GateTypes
<1> DEFINE m == Head(gToPhone)
           t == Gate!Touched(m.id)
           n == Len(t)
           e == Gate!Last(t)
           fetch == [id |-> m.id, body |-> m.body, fresh |-> m.fresh, session |-> TRUE]
           entry == [id |-> m.id, body |-> m.body, inFlight |-> TRUE, cached |-> NoValue]
<1>1. /\ gToPhone # <<>> /\ gToPhone' = Tail(gToPhone) /\ UNCHANGED <<gAsk, gAnswer>>
      /\ \/ /\ Gate!Known(m.id) = {}
            /\ gDedupe' = Append(Gate!Evicted, entry) /\ Gate!Started(m)
         \/ /\ Gate!Known(m.id) # {} /\ gDedupe' = t /\ UNCHANGED gTasks
            /\ \/ UNCHANGED gToNote
               \/ Gate!Answers(m, Gate!Failed("invalid"))
               \/ e.cached # NoValue /\ Gate!Answers(m, e.cached)
         \/ /\ Gate!Known(m.id) # {} /\ e.body = m.body /\ ~e.inFlight
            /\ gDedupe' = [t EXCEPT ![n].inFlight = TRUE] /\ Gate!Started(m)
    BY DEF Gate!Handle
<1>2. /\ m \in Requests /\ gToPhone' \in Seq(Requests) /\ Owns(gAsk, gToPhone')
      /\ gAsk # NoValue /\ gAsk.waiting /\ m.fresh => m.body = gAsk.body
    BY <1>1, TakenOwns
<1>3. Gate!AnswerIsOwn' /\ gAsk' \in Asks \cup {NoValue} /\ Owns(gAsk', gToPhone')
    BY <1>1, <1>2 DEF Gate!AnswerIsOwn
<1>4. t = Gate!Touched(m.id) /\ n = Len(t)
    OBVIOUS
<1>5. e = t[n]
    BY DEF Gate!Last
<1> HIDE DEF m, t, n, e
<1>6. Gate!Known(m.id) # {} =>
        /\ t \in Seq(Entries) /\ Distinct(t) /\ n \in 1..n
        /\ t[n] \in Entries /\ t[n].id = m.id
        /\ SameIn(t, gDedupe)
    BY <1>4, TouchedFacts
<1>7. fetch \in Fetches /\ fetch.id = m.id /\ fetch.body = m.body /\ fetch.fresh = m.fresh
    BY <1>2 DEF Requests, Fetches
<1>8. entry \in Entries /\ RunsFor(fetch, entry) /\ entry.id = m.id
    BY <1>2 DEF Requests, Entries, RunsFor
<1>9. Gate!Started(m) => gTasks' = Append(gTasks, fetch) /\ UNCHANGED gToNote
    BY DEF Gate!Started
<1> HIDE DEF fetch, entry
<1>10. Gate!Started(m) => /\ gTasks' \in Seq(Fetches) /\ Owns(gAsk', gTasks')
                         /\ gToNote' \in Seq(Replies) /\ Owns(gAsk', gToNote')
    <2> SUFFICES ASSUME Gate!Started(m)
                 PROVE  /\ gTasks' \in Seq(Fetches) /\ Owns(gAsk, gTasks')
                        /\ gToNote' = gToNote
        BY <1>1
    <2>1. gAsk # NoValue /\ gAsk.waiting /\ fetch.fresh => fetch.body = gAsk.body
        BY <1>2, <1>7
    <2> QED BY <1>7, <1>9, <2>1, AddedOwns
<1>11. CASE /\ Gate!Known(m.id) = {}
            /\ gDedupe' = Append(Gate!Evicted, entry) /\ Gate!Started(m)
    <2> DEFINE kept == Gate!Evicted
    <2>1. /\ kept \in Seq(Entries) /\ Distinct(kept)
          /\ \A i \in DOMAIN kept : \E j \in DOMAIN gDedupe : kept[i] = gDedupe[j]
          /\ \A j \in DOMAIN gDedupe :
                gDedupe[j].inFlight => \E i \in DOMAIN kept : kept[i] = gDedupe[j]
        BY EvictedFacts
    <2> HIDE DEF kept
    <2>2. Matched(gTasks, kept)
        BY <2>1, SameEntries
    <2>3. \A i \in DOMAIN kept : kept[i].id # entry.id
        <3>1. \A j \in DOMAIN gDedupe : gDedupe[j].id # m.id
            BY <1>11 DEF Gate!Known
        <3> QED BY <1>8, <2>1, <3>1
    <2>4. gDedupe' = Append(kept, entry) /\ gTasks' = Append(gTasks, fetch)
        BY <1>9, <1>11 DEF kept
    <2>5. /\ gDedupe' \in Seq(Entries) /\ Distinct(gDedupe')
          /\ Distinct(gTasks') /\ Matched(gTasks', gDedupe')
        BY <1>7, <1>8, <2>1, <2>2, <2>3, <2>4, FetchBegins
    <2> QED BY <1>2, <1>3, <1>10, <1>11, <2>5
<1>12. CASE /\ Gate!Known(m.id) # {} /\ gDedupe' = t /\ UNCHANGED gTasks
            /\ \/ UNCHANGED gToNote
               \/ Gate!Answers(m, Gate!Failed("invalid"))
               \/ e.cached # NoValue /\ Gate!Answers(m, e.cached)
    <2>1. Matched(gTasks, t)
        BY <1>6, <1>12, SameEntries DEF SameIn
    <2>2. Gate!Failed("invalid") \in Results
        BY DEF Gate!Failed, Results, Gate!Statuses
    <2>3. e.cached # NoValue => e.cached \in Results
        <3>1. e \in Entries
            BY <1>6, <1>5, <1>12
        <3> QED BY <3>1 DEF Entries
    <2>4. m.id \in Ids /\ m.body \in Bodies /\ m.fresh \in BOOLEAN
        BY <1>2 DEF Requests
    <2>5. gToNote' \in Seq(Replies) /\ Owns(gAsk, gToNote')
        <3>1. CASE UNCHANGED gToNote
            BY <3>1
        <3>2. CASE Gate!Answers(m, Gate!Failed("invalid"))
            BY <1>2, <2>2, <2>4, <3>2, AnswersOwn
        <3>3. CASE e.cached # NoValue /\ Gate!Answers(m, e.cached)
            BY <1>2, <2>3, <2>4, <3>3, AnswersOwn
        <3> QED BY <1>12, <3>1, <3>2, <3>3
    <2>6. gDedupe' \in Seq(Entries) /\ Distinct(gDedupe') /\ Matched(gTasks', gDedupe')
        BY <1>6, <1>12, <2>1
    <2>7. Distinct(gTasks') /\ gTasks' \in Seq(Fetches) /\ Owns(gAsk', gTasks')
        BY <1>1, <1>12
    <2> QED BY <1>1, <1>2, <1>3, <2>5, <2>6, <2>7
<1>13. CASE /\ Gate!Known(m.id) # {} /\ e.body = m.body /\ ~e.inFlight
            /\ gDedupe' = [t EXCEPT ![n].inFlight = TRUE] /\ Gate!Started(m)
    <2>1. t \in Seq(Entries) /\ Distinct(t) /\ n \in 1..n /\ t[n] \in Entries /\ t[n].id = m.id
        BY <1>6, <1>13
    <2> DEFINE v == [t[n] EXCEPT !.inFlight = TRUE]
    <2>2. v \in Entries /\ v.id = t[n].id /\ v.body = t[n].body /\ v.inFlight = TRUE
        BY <2>1 DEF Entries
    <2>3. gDedupe' = [t EXCEPT ![n] = v]
        BY <1>13
    <2> HIDE DEF v
    <2>4. gDedupe' \in Seq(Entries) /\ Distinct(gDedupe') /\ LastIs(gDedupe', t, n, v)
        BY <1>4, <2>1, <2>2, <2>3, LastChanged
    <2>5. /\ n \in Nat /\ DOMAIN gDedupe' = 1..n /\ DOMAIN t = 1..n
          /\ gDedupe'[n] = v /\ \A i \in 1..n : i # n => gDedupe'[i] = t[i]
        BY <2>4 DEF LastIs
    <2>6. RunsFor(fetch, v)
        BY <1>5, <1>7, <1>13, <2>1, <2>2 DEF RunsFor
    <2>7. Matched(gTasks, t)
        <3>1. Gate!Known(m.id) # {}
            BY <1>13
        <3> QED BY <1>6, <3>1, SameEntries DEF SameIn
    <2>8. \A i \in DOMAIN gTasks : gTasks[i].id # m.id
        <3> SUFFICES ASSUME NEW i \in DOMAIN gTasks, gTasks[i].id = m.id PROVE FALSE
            OBVIOUS
        <3>1. PICK j \in DOMAIN t : RunsFor(gTasks[i], t[j])
            BY <2>7 DEF Matched
        <3>2. j = n
            BY <2>1, <2>5, <3>1 DEF RunsFor, Distinct
        <3> QED BY <1>5, <1>13, <3>1, <3>2 DEF RunsFor
    <2>9. /\ Len(gTasks) \in Nat /\ DOMAIN gTasks = 1..Len(gTasks)
          /\ DOMAIN gTasks' = 1..(Len(gTasks) + 1)
          /\ gTasks'[Len(gTasks) + 1] = fetch
          /\ \A i \in 1..Len(gTasks) : gTasks'[i] = gTasks[i]
        BY <1>7, <1>9, <1>13, AppendProperties
    <2>10. Distinct(gTasks')
        <3>1. \A i \in 1..(Len(gTasks) + 1) : i \in 1..Len(gTasks) \/ i = Len(gTasks) + 1
            BY <2>9
        <3> QED BY <1>7, <2>8, <2>9, <3>1 DEF Distinct
    <2>11. ASSUME NEW i \in DOMAIN gTasks'
           PROVE  \E j \in DOMAIN gDedupe' : RunsFor(gTasks'[i], gDedupe'[j])
        <3>1. CASE i \in 1..Len(gTasks)
            <4>1. PICK j \in DOMAIN t : RunsFor(gTasks[i], t[j])
                BY <2>7, <2>9, <3>1 DEF Matched
            <4>2. j # n
                BY <1>5, <1>13, <4>1 DEF RunsFor
            <4> QED BY <2>5, <2>9, <3>1, <4>1, <4>2
        <3>2. CASE i = Len(gTasks) + 1
            BY <2>1, <2>5, <2>6, <2>9, <3>2
        <3> QED BY <2>9, <3>1, <3>2
    <2>12. ASSUME NEW j \in DOMAIN gDedupe', gDedupe'[j].inFlight
           PROVE  \E i \in DOMAIN gTasks' : gTasks'[i].id = gDedupe'[j].id
        <3>1. CASE j = n
            <4>1. Len(gTasks) + 1 \in DOMAIN gTasks'
                BY <2>9
            <4> QED BY <1>7, <2>1, <2>2, <2>5, <2>9, <3>1, <4>1
        <3>2. CASE j # n
            <4>1. gDedupe'[j] = t[j] /\ j \in DOMAIN t
                BY <2>5, <3>2
            <4>2. PICK i \in DOMAIN gTasks : gTasks[i].id = t[j].id
                BY <2>7, <2>12, <4>1 DEF Matched
            <4>3. i \in DOMAIN gTasks' /\ gTasks'[i] = gTasks[i]
                BY <2>9
            <4> QED BY <4>1, <4>2, <4>3
        <3> QED BY <3>1, <3>2
    <2>13. Matched(gTasks', gDedupe')
        BY <2>11, <2>12 DEF Matched
    <2> QED BY <1>2, <1>3, <1>10, <1>13, <2>4, <2>10, <2>13
<1> QED BY <1>1, <1>11, <1>12, <1>13

\* A fetch is over: its entry is no longer in flight, its answer goes out where the
\* session still stands.
LEMMA CompleteKeeps ==
    ASSUME GateInv, NEW r \in Results, Gate!Complete(r)
    PROVE  GateInv'
<1> USE DEF GateInv, GateTypes
<1> DEFINE k == Head(gTasks)
           t == Gate!Touched(k.id)
           n == Len(t)
           e == Gate!Last(t)
           v == Gate!Finished(e, r)
<1>1. /\ gTasks # <<>> /\ gTasks' = Tail(gTasks) /\ UNCHANGED <<gAsk, gAnswer, gToPhone>>
      /\ Gate!Known(k.id) # {} /\ e.body = k.body => gDedupe' = [t EXCEPT ![n] = v]
      /\ Gate!Answers(k, r) \/ UNCHANGED gToNote
    BY DEF Gate!Complete
<1>2. /\ k \in Fetches /\ gTasks' \in Seq(Fetches) /\ Owns(gAsk, gTasks')
      /\ gAsk # NoValue /\ gAsk.waiting /\ k.fresh => k.body = gAsk.body
    BY <1>1, TakenOwns
<1>3. /\ Len(gTasks) \in Nat /\ 1 \in DOMAIN gTasks /\ DOMAIN gTasks = 1..Len(gTasks)
      /\ k = gTasks[1] /\ DOMAIN gTasks' = 1..(Len(gTasks) - 1)
      /\ \A i \in 1..(Len(gTasks) - 1) : gTasks'[i] = gTasks[i + 1]
    BY <1>1
<1>4. t = Gate!Touched(k.id) /\ n = Len(t)
    OBVIOUS
<1>5. e = t[n]
    BY DEF Gate!Last
<1>6. v = [e EXCEPT !.inFlight = FALSE,
                    !.cached = IF r.status \in Gate!Transient THEN NoValue ELSE r]
    BY DEF Gate!Finished
<1> HIDE DEF k, t, n, e, v
<1>7. PICK p \in DOMAIN gDedupe : RunsFor(k, gDedupe[p])
    BY <1>3 DEF Matched
<1>8. Gate!Known(k.id) # {}
    BY <1>7 DEF Gate!Known, RunsFor
<1>9. /\ t \in Seq(Entries) /\ Distinct(t) /\ n \in 1..n
      /\ t[n] \in Entries /\ t[n].id = k.id /\ SameIn(t, gDedupe)
    BY <1>4, <1>8, TouchedFacts
<1>10. Matched(gTasks, t)
    BY <1>9, SameEntries DEF SameIn
<1>11. e.body = k.body /\ e.inFlight
    <2>1. PICK j \in DOMAIN t : RunsFor(k, t[j])
        BY <1>3, <1>10 DEF Matched
    <2>2. n \in DOMAIN t
        BY <1>4, <1>9
    <2>3. j = n
        BY <1>9, <2>1, <2>2 DEF RunsFor, Distinct
    <2> QED BY <1>5, <2>1, <2>3 DEF RunsFor
<1>12. v \in Entries /\ v.id = t[n].id /\ v.inFlight = FALSE
    BY <1>5, <1>6, <1>9 DEF Entries
<1>13. gDedupe' = [t EXCEPT ![n] = v]
    BY <1>1, <1>8, <1>11
<1>14. gDedupe' \in Seq(Entries) /\ Distinct(gDedupe') /\ LastIs(gDedupe', t, n, v)
    BY <1>4, <1>9, <1>12, <1>13, LastChanged
<1>15. /\ n \in Nat /\ DOMAIN gDedupe' = 1..n /\ DOMAIN t = 1..n
       /\ gDedupe'[n] = v /\ \A i \in 1..n : i # n => gDedupe'[i] = t[i]
    BY <1>14 DEF LastIs
<1>16. \A i \in 1..(Len(gTasks) - 1) :
            /\ i + 1 \in DOMAIN gTasks /\ i + 1 # 1 /\ gTasks'[i] = gTasks[i + 1]
            /\ gTasks[i + 1].id # k.id
    <2> SUFFICES ASSUME NEW i \in 1..(Len(gTasks) - 1)
                 PROVE  /\ i + 1 \in DOMAIN gTasks /\ i + 1 # 1
                        /\ gTasks'[i] = gTasks[i + 1] /\ gTasks[i + 1].id # k.id
        OBVIOUS
    <2>1. i + 1 \in DOMAIN gTasks /\ i + 1 # 1
        BY <1>3
    <2> QED BY <1>3, <2>1 DEF Distinct
<1>17. Distinct(gTasks')
    <2> SUFFICES ASSUME NEW i \in DOMAIN gTasks', NEW j \in DOMAIN gTasks',
                        gTasks'[i].id = gTasks'[j].id
                 PROVE  i = j
        BY DEF Distinct
    <2>1. i + 1 = j + 1
        BY <1>3, <1>16 DEF Distinct
    <2> QED BY <1>3, <2>1
<1>18. ASSUME NEW i \in DOMAIN gTasks'
       PROVE  \E j \in DOMAIN gDedupe' : RunsFor(gTasks'[i], gDedupe'[j])
    <2>1. i + 1 \in DOMAIN gTasks /\ gTasks'[i] = gTasks[i + 1] /\ gTasks[i + 1].id # k.id
        BY <1>3, <1>16
    <2>2. PICK j \in DOMAIN t : RunsFor(gTasks[i + 1], t[j])
        BY <1>10, <2>1 DEF Matched
    <2>3. j # n
        BY <1>9, <2>1, <2>2 DEF RunsFor
    <2> QED BY <1>15, <2>1, <2>2, <2>3
<1>19. ASSUME NEW j \in DOMAIN gDedupe', gDedupe'[j].inFlight
       PROVE  \E i \in DOMAIN gTasks' : gTasks'[i].id = gDedupe'[j].id
    <2>1. j # n
        BY <1>12, <1>15, <1>19
    <2>2. gDedupe'[j] = t[j] /\ j \in DOMAIN t /\ n \in DOMAIN t
        BY <1>9, <1>15, <2>1
    <2>3. PICK i \in DOMAIN gTasks : gTasks[i].id = t[j].id
        BY <1>10, <1>19, <2>2 DEF Matched
    <2>4. i # 1
        BY <1>3, <1>9, <2>1, <2>2, <2>3 DEF Distinct
    <2>5. i - 1 \in 1..(Len(gTasks) - 1) /\ (i - 1) + 1 = i
        BY <1>3, <2>3, <2>4
    <2> QED BY <1>3, <2>2, <2>3, <2>5
<1>20. Matched(gTasks', gDedupe')
    BY <1>18, <1>19 DEF Matched
<1>21. gToNote' \in Seq(Replies) /\ Owns(gAsk, gToNote')
    <2>1. k.id \in Ids /\ k.body \in Bodies /\ k.fresh \in BOOLEAN
        BY <1>2 DEF Fetches
    <2>2. CASE Gate!Answers(k, r)
        BY <1>2, <2>1, <2>2, AnswersOwn
    <2> QED BY <1>1, <2>2
<1>22. Gate!AnswerIsOwn' /\ Owns(gAsk, gToPhone)'
    BY <1>1 DEF Gate!AnswerIsOwn
<1> QED BY <1>1, <1>2, <1>14, <1>17, <1>20, <1>21, <1>22

\* Whatever is served, what a fetch brings is an answer.
LEMMA FetchedIsResult ==
    ASSUME NEW p \in Pages, NEW max
    PROVE  Gate!Fetched(p, max) \in Results
BY GateConstants DEF Gate!Fetched, Gate!Failed, Results, Gate!Statuses

LEMMA GateStep ==
    ASSUME GateInv, Gate!Next
    PROVE  GateInv'
<1>1. ASSUME Gate!FetchEnds PROVE GateInv'
    <2>1. PICK p \in Pages : Gate!Complete(Gate!Fetched(p, Head(gTasks).body.max))
        BY <1>1 DEF Gate!FetchEnds
    <2> QED BY <2>1, FetchedIsResult, CompleteKeeps
<1>2. ASSUME Gate!FetchFails PROVE GateInv'
    <2>1. PICK s \in Gate!Transient : Gate!Complete(Gate!Failed(s))
        BY <1>2 DEF Gate!FetchFails
    <2>2. Gate!Failed(s) \in Results
        BY DEF Gate!Failed, Results, Gate!Statuses
    <2> QED BY <2>1, <2>2, CompleteKeeps
<1> QED BY <1>1, <1>2, AsksKeep, SendKeeps, ReceiveKeeps, DisconnectedKeeps, HandleKeeps
        DEF Gate!Next

\* The invariant of the gateway, while it is the part that moves.
LEMMA AlwaysGate == MCSpec => [](part = "gateway" => GateInv)
<1>1. MCInit => (part = "gateway" => GateInv)
    <2> SUFFICES ASSUME MCInit, part = "gateway" PROVE GateInv
        OBVIOUS
    <2>1. Gate!Init
        BY DEF MCInit
    <2> QED BY <2>1 DEF Gate!Init, GateInv, GateTypes, Owns, Distinct, Matched, Gate!AnswerIsOwn
<1>2. (part = "gateway" => GateInv) /\ [MCNext]_mcVars => (part = "gateway" => GateInv)'
    <2> SUFFICES ASSUME part = "gateway" => GateInv, [MCNext]_mcVars, part' = "gateway"
                 PROVE  GateInv'
        OBVIOUS
    <2>1. CASE UNCHANGED <<part, GateVars>>
        BY <2>1 DEF GateVars, GateInv, GateTypes, Owns, Distinct, Matched, RunsFor,
                    Gate!AnswerIsOwn
    <2>2. CASE Gate!Next /\ part = "gateway"
        BY <2>2, GateStep
    <2> QED BY <2>1, <2>2 DEF MCNext, mcVars
<1> QED BY <1>1, <1>2, PTL DEF MCSpec

\* A caller is handed what was fetched for the request it made, within its limit, and a
\* repeated request is fetched once (note4_connectivity_service.cc, PhoneResourceGateway.kt):
\* for any ids, requests, pages and capacity of the table, any number of failed fetches
\* and lost sessions.
THEOREM GateAnswersAreOwn == MCSpec => []AnswersAreOwn
<1>1. GateInv => Gate!OneFetch
    <2> SUFFICES ASSUME GateInv PROVE Gate!OneFetch
        OBVIOUS
    <2>1. \A i, j \in DOMAIN gTasks : i # j => gTasks[i].id # gTasks[j].id
        BY DEF GateInv, Distinct
    <2>2. {gTasks[i].id : i \in DOMAIN gTasks}
            = {gDedupe[i].id : i \in {j \in DOMAIN gDedupe : gDedupe[j].inFlight}}
        <3>1. ASSUME NEW i \in DOMAIN gTasks
              PROVE  \E j \in DOMAIN gDedupe : gDedupe[j].inFlight /\ gDedupe[j].id = gTasks[i].id
            BY DEF GateInv, Matched, RunsFor
        <3>2. ASSUME NEW j \in DOMAIN gDedupe, gDedupe[j].inFlight
              PROVE  \E i \in DOMAIN gTasks : gTasks[i].id = gDedupe[j].id
            BY <3>2 DEF GateInv, Matched
        <3> QED BY <3>1, <3>2
    <2> QED BY <2>1, <2>2 DEF Gate!OneFetch
<1>2. (part = "gateway" => GateInv) => AnswersAreOwn
    BY <1>1 DEF AnswersAreOwn, GateInv
<1> QED BY <1>2, AlwaysGate, PTL

-----------------------------------------------------------------------------
(* The application shell.                                                  *)

Anyone == Apps \cup {Launcher, NoApp}
Asked == [kind : {"none", "back", "home", "shutdown", "open"}, target : Anyone]
Runtimes ==
    [life : {"absent", "active", "failsafe", "stopped", "ended"},
     fg : Anyone, ok : BOOLEAN, error : BOOLEAN, moved : BOOLEAN,
     render : {"none", "current", "stale"}, command : Asked,
     sameGeneration : BOOLEAN, failures : Nat, suppressed : BOOLEAN,
     opening : Anyone, pending : Anyone, presented : BOOLEAN,
     openTarget : Anyone, failedTarget : Anyone, automatic : BOOLEAN, ready : BOOLEAN]

\* A runtime whose foreground owns all that is asked for, in the midst of a turn: it is
\* suppressed if it had to be when the turn began (p), and has opened nothing by itself
\* if it was not allowed to then (q).
Owned(t) ==
    /\ t.life = "active" <=> t.fg # NoApp
    /\ t.life # "active" => t.render = "none" /\ t.command = Shell!NoCommand
    /\ t.render # "stale"
    /\ t.opening # NoApp \/ t.pending # NoApp => t.fg = Launcher
    /\ t.command.kind = "open" => t.command.target # NoApp

Kept(t, p, q) ==
    /\ t \in Runtimes /\ Owned(t)
    /\ p => t.suppressed
    /\ q => ~t.automatic

Active(t, p, q) == Kept(t, p, q) /\ t.life = "active"

\* What a callback or a decision leaves of who owns what.
SameOwner(u, t) ==
    /\ u \in Runtimes
    /\ u.life = t.life /\ u.fg = t.fg /\ u.render = t.render /\ u.command = t.command
    /\ u.opening \in {t.opening, NoApp} /\ u.pending \in {t.pending, NoApp}
    /\ t.suppressed => u.suppressed
    /\ u.automatic => t.automatic

LEMMA SameOwnerKeeps ==
    ASSUME NEW t, NEW u, NEW p \in BOOLEAN, NEW q \in BOOLEAN, Kept(t, p, q), SameOwner(u, t)
    PROVE  Kept(u, p, q) /\ u.life = t.life
BY DEF Kept, Owned, SameOwner

\* What is drawn or asked by an active foreground.
LEMMA RenderKeeps ==
    ASSUME NEW t, NEW u, NEW p \in BOOLEAN, NEW q \in BOOLEAN, Active(t, p, q),
           u = Shell!RequestRender(t)
    PROVE  Active(u, p, q) /\ u.fg = t.fg
BY DEF Active, Kept, Owned, Runtimes, Shell!RequestRender

LEMMA SubmitKeeps ==
    ASSUME NEW t, NEW u, NEW p \in BOOLEAN, NEW q \in BOOLEAN, Active(t, p, q),
           NEW kind \in {"back", "home", "shutdown", "open"}, NEW aim \in Anyone,
           kind = "open" => aim # NoApp, u = Shell!Submit(t, kind, aim)
    PROVE  Active(u, p, q) /\ u.fg = t.fg
<1>1. CASE u = t
    BY <1>1
<1>2. CASE u = [t EXCEPT !.command = [kind |-> kind, target |-> aim]]
    <2> DEFINE c == [kind |-> kind, target |-> aim]
    <2>1. c \in Asked /\ c.kind = kind /\ c.target = aim
        BY DEF Asked
    <2>2. u = [t EXCEPT !.command = c]
        BY <1>2
    <2> HIDE DEF c
    <2> QED BY <2>1, <2>2 DEF Active, Kept, Owned, Runtimes
<1> QED BY <1>1, <1>2 DEF Shell!Submit

LEMMA ForegroundAsks ==
    ASSUME NEW t, NEW u, NEW p \in BOOLEAN, NEW q \in BOOLEAN, Active(t, p, q), u \in Shell!Asks(t)
    PROVE  Active(u, p, q)
<1>1. PICK draw \in BOOLEAN, v \in {t} \cup {Shell!Submit(t, k, NoApp) : k \in {"back", "home", "shutdown"}}
                                    \cup {Shell!Submit(t, "open", a) : a \in Apps \ {t.fg}} :
        u = IF draw THEN Shell!RequestRender(v) ELSE v
    BY DEF Shell!Asks
<1>2. Active(v, p, q)
    <2>1. CASE v = t
        BY <2>1
    <2>2. CASE \E k \in {"back", "home", "shutdown"} : v = Shell!Submit(t, k, NoApp)
        <3>1. PICK k \in {"back", "home", "shutdown"} : v = Shell!Submit(t, k, NoApp)
            BY <2>2
        <3>2. k # "open" /\ NoApp \in Anyone
            BY DEF Anyone
        <3> QED BY <3>1, <3>2, SubmitKeeps
    <2>3. CASE \E a \in Apps : v = Shell!Submit(t, "open", a)
        <3>1. PICK a \in Apps : v = Shell!Submit(t, "open", a)
            BY <2>3
        <3>2. a \in Anyone /\ a # NoApp
            BY ShellConstants DEF Anyone
        <3> QED BY <3>1, <3>2, SubmitKeeps
    <2>4. \/ v = t
          \/ \E k \in {"back", "home", "shutdown"} : v = Shell!Submit(t, k, NoApp)
          \/ \E a \in Apps \ {t.fg} : v = Shell!Submit(t, "open", a)
        BY <1>1, Zenon
    <2> QED BY <2>1, <2>2, <2>3, <2>4
<1>3. u = v \/ u = Shell!RequestRender(v)
    BY <1>1
<1> QED BY <1>2, <1>3, RenderKeeps

\* An application's callback.
Failing(u, ok) == [u EXCEPT !.ok = ok, !.error = @ \/ ~ok]

LEMMA CallbackFails ==
    ASSUME NEW t
    PROVE  Shell!AppCallback(t) = {Failing(u, ok) : ok \in BOOLEAN, u \in Shell!Asks(t)}
BY DEF Failing, Shell!AppCallback

LEMMA CallbackKeeps ==
    ASSUME NEW t, NEW w, NEW p \in BOOLEAN, NEW q \in BOOLEAN, Active(t, p, q),
           w \in Shell!AppCallback(t)
    PROVE  Active(w, p, q)
<1>1. PICK ok \in BOOLEAN, u \in Shell!Asks(t) : w = Failing(u, ok)
    BY CallbackFails
<1>2. Active(u, p, q)
    BY ForegroundAsks
<1>3. SameOwner(w, u)
    BY <1>1, <1>2 DEF Active, Kept, Runtimes, SameOwner, Failing
<1> QED BY <1>2, <1>3, SameOwnerKeeps DEF Active

\* The launcher marks an entry as ready or unavailable.
LEMMA EntryKeeps ==
    ASSUME NEW t, NEW u, NEW id, NEW p \in BOOLEAN, NEW q \in BOOLEAN, Kept(t, p, q),
           u = Shell!EntryDone(t, id)
    PROVE  Kept(u, p, q) /\ u.life = t.life /\ u.fg = t.fg /\ u.suppressed = t.suppressed
           /\ u.pending = t.pending
<1>1. CASE t.opening = id /\ id # NoApp
    <2> DEFINE v == [t EXCEPT !.opening = NoApp]
    <2>1. t.life = "active" /\ v \in Runtimes /\ SameOwner(v, t)
        <3>1. t.life = "active"
            BY <1>1, ShellConstants DEF Kept, Owned
        <3>2. v \in Runtimes
            BY DEF Kept, Runtimes, Anyone
        <3>3. SameOwner(v, t)
            BY <3>2 DEF Kept, Runtimes, SameOwner
        <3> QED BY <3>1, <3>2, <3>3
    <2>2. v.suppressed = t.suppressed /\ v.pending = t.pending /\ v.fg = t.fg
        BY DEF Kept, Runtimes
    <2>3. u = Shell!RequestRender(v)
        BY <1>1 DEF Shell!EntryDone
    <2> HIDE DEF v
    <2>4. Active(v, p, q)
        BY <2>1, SameOwnerKeeps DEF Active
    <2>5. Active(u, p, q) /\ u.fg = v.fg
        BY <2>3, <2>4, RenderKeeps
    <2>6. u.suppressed = v.suppressed /\ u.pending = v.pending
        BY <2>1, <2>3 DEF Runtimes, Shell!RequestRender
    <2> QED BY <2>1, <2>2, <2>5, <2>6 DEF Active
<1>2. CASE u = t
    BY <1>2
<1> QED BY <1>1, <1>2 DEF Shell!EntryDone

LEMMA ConsumeKeeps ==
    ASSUME NEW t, NEW u, NEW p \in BOOLEAN, NEW q \in BOOLEAN, Kept(t, p, q),
           u = Shell!ConsumeLaunchFailure(t)
    PROVE  Kept(u, p, q) /\ u.life = t.life /\ u.fg = t.fg /\ u.suppressed = t.suppressed
<1> DEFINE v == Shell!EntryDone(t, t.failedTarget)
<1>1. /\ Kept(v, p, q) /\ v.life = t.life /\ v.fg = t.fg /\ v.suppressed = t.suppressed
    BY EntryKeeps
<1>2. u = [v EXCEPT !.failedTarget = NoApp]
    BY DEF Shell!ConsumeLaunchFailure
<1> HIDE DEF v
<1>3. SameOwner(u, v) /\ u.suppressed = v.suppressed
    BY <1>1, <1>2 DEF Kept, Runtimes, SameOwner, Anyone
<1> QED BY <1>1, <1>3, SameOwnerKeeps DEF SameOwner

LEMMA SubmitOpenKeeps ==
    ASSUME NEW t, NEW u, NEW id \in Anyone, id # NoApp, NEW p \in BOOLEAN, NEW q \in BOOLEAN,
           Active(t, p, q), u = Shell!SubmitOpen(t, id)
    PROVE  Active(u, p, q)
<1>1. CASE u = Shell!EntryDone(t, id)
    BY <1>1, EntryKeeps DEF Active
<1>2. CASE u = [Shell!Submit(t, "open", id) EXCEPT !.openTarget = id]
    <2> DEFINE v == Shell!Submit(t, "open", id)
    <2>1. Active(v, p, q)
        BY SubmitKeeps
    <2>2. u = [v EXCEPT !.openTarget = id]
        BY <1>2
    <2> HIDE DEF v
    <2>3. SameOwner(u, v)
        BY <2>1, <2>2 DEF Active, Kept, Runtimes, SameOwner
    <2> QED BY <2>1, <2>3, SameOwnerKeeps DEF Active
<1> QED BY <1>1, <1>2 DEF Shell!SubmitOpen

LEMMA LauncherEventKeeps ==
    ASSUME NEW t, NEW u, NEW p \in BOOLEAN, NEW q \in BOOLEAN, Active(t, p, q),
           t.fg = Launcher, u \in Shell!LauncherEvent(t)
    PROVE  Active(u, p, q)
<1> DEFINE c == Shell!ConsumeLaunchFailure(t)
           stays == [c EXCEPT !.pending = NoApp]
           shut == Shell!Submit(c, "shutdown", NoApp)
           done == Shell!EntryDone(c, c.opening)
<1>1. Active(c, p, q) /\ c.fg = Launcher
    BY ConsumeKeeps DEF Active
<1>2. \/ u = [shut EXCEPT !.pending = NoApp]
      \/ u = stays \/ u = Shell!RequestRender(stays)
      \/ \E a \in Apps : u = Shell!RequestRender([c EXCEPT !.opening = a, !.pending = a,
                                                           !.presented = FALSE])
      \/ u = c
      \/ u = [done EXCEPT !.pending = NoApp]
    BY DEF Shell!LauncherEvent
<1>3. Active(shut, p, q)
    BY <1>1, SubmitKeeps DEF Anyone
<1>4. Active(done, p, q)
    BY <1>1, EntryKeeps DEF Active
<1>5. \A v, w : Active(v, p, q) /\ w = [v EXCEPT !.pending = NoApp] => Active(w, p, q)
    <2> SUFFICES ASSUME NEW v, NEW w, Active(v, p, q), w = [v EXCEPT !.pending = NoApp]
                 PROVE  Active(w, p, q)
        OBVIOUS
    <2>1. SameOwner(w, v)
        BY DEF Active, Kept, Runtimes, SameOwner, Anyone
    <2> QED BY <2>1, SameOwnerKeeps DEF Active
<1>6. Active(stays, p, q)
    BY <1>1, <1>5
<1> HIDE DEF c, stays, shut, done
<1>7. CASE \E a \in Apps : u = Shell!RequestRender([c EXCEPT !.opening = a, !.pending = a,
                                                            !.presented = FALSE])
    <2>1. PICK a \in Apps : u = Shell!RequestRender([c EXCEPT !.opening = a, !.pending = a,
                                                             !.presented = FALSE])
        BY <1>7
    <2> DEFINE v == [c EXCEPT !.opening = a, !.pending = a, !.presented = FALSE]
    <2>2. Active(v, p, q)
        <3>1. c \in Runtimes /\ a \in Anyone
            BY <1>1 DEF Active, Kept, Anyone
        <3>2. /\ v \in Runtimes /\ v.life = c.life /\ v.fg = c.fg /\ v.render = c.render
              /\ v.command = c.command /\ v.suppressed = c.suppressed
              /\ v.automatic = c.automatic
            BY <3>1 DEF Runtimes
        <3> QED BY <1>1, <3>2 DEF Active, Kept, Owned
    <2>3. u = Shell!RequestRender(v)
        BY <2>1
    <2> HIDE DEF v
    <2> QED BY <2>2, <2>3, RenderKeeps
<1>8. CASE u = [shut EXCEPT !.pending = NoApp]
    BY <1>3, <1>5, <1>8
<1>9. CASE u = [done EXCEPT !.pending = NoApp]
    BY <1>4, <1>5, <1>9
<1>10. CASE u = stays \/ u = Shell!RequestRender(stays)
    BY <1>6, <1>10, RenderKeeps
<1>11. CASE u = c
    BY <1>1, <1>11
<1> HIDE DEF Active
<1> QED BY <1>2, <1>7, <1>8, <1>9, <1>10, <1>11

LEMMA LauncherIdleKeeps ==
    ASSUME NEW t, NEW u, NEW p \in BOOLEAN, NEW q \in BOOLEAN, q => p, Active(t, p, q),
           t.fg = Launcher, u \in Shell!LauncherIdle(t)
    PROVE  Active(u, p, q)
<1> DEFINE c == Shell!ConsumeLaunchFailure(t)
           v == [c EXCEPT !.pending = NoApp]
<1>1. Active(c, p, q)
    BY ConsumeKeeps DEF Active
<1>2. \/ u = Shell!SubmitOpen(v, c.pending) /\ c.pending # NoApp
      \/ u = c \/ u = Shell!RequestRender(c)
      \/ ~c.suppressed /\ u \in {[Shell!SubmitOpen(c, a) EXCEPT !.automatic = TRUE] : a \in Apps}
    BY DEF Shell!LauncherIdle
<1> HIDE DEF c
<1>3. CASE u = Shell!SubmitOpen(v, c.pending) /\ c.pending # NoApp
    <2>1. SameOwner(v, c)
        BY <1>1 DEF Active, Kept, Runtimes, SameOwner, Anyone
    <2>2. Active(v, p, q)
        BY <1>1, <2>1, SameOwnerKeeps DEF Active
    <2>3. c.pending \in Anyone
        BY <1>1 DEF Active, Kept, Runtimes
    <2> HIDE DEF v
    <2> QED BY <1>3, <2>2, <2>3, SubmitOpenKeeps
<1>4. CASE ~c.suppressed /\ u \in {[Shell!SubmitOpen(c, a) EXCEPT !.automatic = TRUE] : a \in Apps}
    <2>1. PICK a \in Apps : u = [Shell!SubmitOpen(c, a) EXCEPT !.automatic = TRUE]
        BY <1>4
    <2> DEFINE x == Shell!SubmitOpen(c, a)
    <2>2. a \in Anyone /\ a # NoApp
        BY ShellConstants DEF Anyone
    <2>3. Active(x, p, q)
        BY <1>1, <2>2, SubmitOpenKeeps
    <2>4. u = [x EXCEPT !.automatic = TRUE]
        BY <2>1
    <2> HIDE DEF x
    <2>5. ~p /\ ~q
        BY <1>1, <1>4 DEF Active, Kept
    <2> QED BY <2>3, <2>4, <2>5 DEF Active, Kept, Owned, Runtimes
<1> QED BY <1>1, <1>2, <1>3, <1>4, RenderKeeps

\* A call that failed and changed nothing else.
LEMMA NotCreatedKeeps ==
    ASSUME NEW t, NEW u, NEW p \in BOOLEAN, NEW q \in BOOLEAN, Kept(t, p, q),
           u = Shell!NotCreated(t)
    PROVE  Kept(u, p, q) /\ u.life = t.life
<1>1. SameOwner(u, t)
    BY DEF Kept, Runtimes, SameOwner, Shell!NotCreated
<1> QED BY <1>1, SameOwnerKeeps

\* The calls of the runtime into its foreground.
LEMMA CallsKeep ==
    ASSUME NEW t, NEW u, NEW p \in BOOLEAN, NEW q \in BOOLEAN, q => p, Active(t, p, q),
           u \in Shell!Enter(t) \cup Shell!HandleEvent(t) \cup Shell!HandleIdle(t)
    PROVE  Active(u, p, q)
<1>1. CASE t.fg # Launcher
    BY <1>1, CallbackKeeps DEF Shell!Enter, Shell!HandleEvent, Shell!HandleIdle
<1>2. CASE t.fg = Launcher
    <2>1. CASE u \in Shell!LauncherEvent(t)
        BY <1>2, <2>1, LauncherEventKeeps
    <2>2. CASE u \in Shell!LauncherIdle(t)
        BY <1>2, <2>2, LauncherIdleKeeps
    <2>3. CASE u = Shell!RequestRender(Shell!ConsumeLaunchFailure(t))
        BY <2>3, ConsumeKeeps, RenderKeeps DEF Active
    <2>4. CASE u = Shell!NotCreated(t)
        BY <2>4, NotCreatedKeeps DEF Active
    <2>5. Shell!Enter(t) = {Shell!RequestRender(Shell!ConsumeLaunchFailure(t))}
                            \cup {Shell!NotCreated(t)}
        BY <1>2 DEF Shell!Enter, Shell!LauncherEnter, Shell!NotCreated
    <2>6. Shell!HandleEvent(t) = Shell!LauncherEvent(t) /\ Shell!HandleIdle(t) = Shell!LauncherIdle(t)
        BY <1>2 DEF Shell!HandleEvent, Shell!HandleIdle
    <2> QED BY <2>1, <2>2, <2>3, <2>4, <2>5, <2>6
<1> QED BY <1>1, <1>2

\* With the foreground goes all it asked for.
Gone(u, p, q) == Kept(u, p, q) /\ u.life = "absent"

LEMMA ExitedKeeps ==
    ASSUME NEW t, NEW u, NEW p \in BOOLEAN, NEW q \in BOOLEAN, Kept(t, p, q), u = Shell!Exited(t)
    PROVE  Gone(u, p, q)
<1>1. Shell!NoCommand \in Asked /\ Shell!NoCommand.kind = "none"
    BY DEF Shell!NoCommand, Asked, Anyone
<1>2. /\ u \in Runtimes /\ u.life = "absent" /\ u.fg = NoApp /\ u.render = "none"
      /\ u.command = Shell!NoCommand /\ u.opening = NoApp /\ u.pending = NoApp
      /\ u.suppressed = t.suppressed /\ u.automatic = t.automatic
    <2> HIDE DEF Shell!NoCommand
    <2> QED BY <1>1 DEF Kept, Runtimes, Anyone, Shell!Exited
<1> QED BY <1>1, <1>2 DEF Gone, Kept, Owned

LEMMA ExitsKeep ==
    ASSUME NEW t, NEW w, NEW p \in BOOLEAN, NEW q \in BOOLEAN, Kept(t, p, q), w \in Shell!Exits(t)
    PROVE  Gone(w, p, q)
<1> DEFINE u == Shell!Exited(t)
<1>1. Gone(u, p, q)
    BY ExitedKeeps
<1>2. \E failed \in BOOLEAN : w = IF t.fg = NoApp THEN u ELSE [u EXCEPT !.error = u.error \/ failed]
    BY DEF Shell!Exits
<1> HIDE DEF u
<1>3. w = u \/ SameOwner(w, u)
    BY <1>1, <1>2 DEF Gone, Kept, Runtimes, SameOwner
<1> QED BY <1>1, <1>3, SameOwnerKeeps DEF Gone

\* The runtime and the terminal give up.
Failsafe(u) == [u EXCEPT !.life = "failsafe", !.ok = FALSE, !.error = TRUE, !.suppressed = TRUE]

LEMMA FailsafeIs ==
    ASSUME NEW t
    PROVE  Shell!EnterFailsafe(t) = {Failsafe(u) : u \in Shell!Exits(t)}
BY DEF Failsafe, Shell!EnterFailsafe

LEMMA FailsafeKeeps ==
    ASSUME NEW t, NEW w, NEW p \in BOOLEAN, NEW q \in BOOLEAN, Kept(t, p, q),
           w \in Shell!EnterFailsafe(t)
    PROVE  Kept(w, p, q)
<1>1. PICK u \in Shell!Exits(t) : w = Failsafe(u)
    BY FailsafeIs
<1>2. Gone(u, p, q)
    BY ExitsKeep
<1>3. /\ w \in Runtimes /\ w.life = "failsafe" /\ w.fg = u.fg /\ w.render = u.render
      /\ w.command = u.command /\ w.opening = u.opening /\ w.pending = u.pending
      /\ w.suppressed = TRUE /\ w.automatic = u.automatic
    BY <1>1, <1>2 DEF Gone, Kept, Runtimes, Failsafe
<1> QED BY <1>2, <1>3 DEF Gone, Kept, Owned

\* A foreground is entered after the one before is gone.
Candidate(u, id) ==
    [u EXCEPT !.fg = id, !.ok = TRUE, !.sameGeneration = FALSE, !.moved = TRUE,
              !.render = IF @ = "none" THEN @ ELSE "stale", !.life = "active"]

LEMMA EnteredIs ==
    ASSUME NEW t, NEW id
    PROVE  Shell!Entered(t, id) = UNION {Shell!Enter(Candidate(u, id)) : u \in Shell!Exits(t)}
BY DEF Candidate, Shell!Entered

LEMMA EnteredKeeps ==
    ASSUME NEW t, NEW w, NEW p \in BOOLEAN, NEW q \in BOOLEAN, q => p, Kept(t, p, q),
           NEW id \in Anyone, id # NoApp, w \in Shell!Entered(t, id)
    PROVE  Active(w, p, q)
<1>1. PICK u \in Shell!Exits(t) : w \in Shell!Enter(Candidate(u, id))
    BY EnteredIs
<1>2. Gone(u, p, q)
    BY ExitsKeep
<1>3. u.render = "none" /\ u \in Runtimes
    BY <1>2 DEF Gone, Kept, Owned
<1> DEFINE v == Candidate(u, id)
<1>4. /\ v \in Runtimes /\ v.life = "active" /\ v.fg = id /\ v.render = "none"
      /\ v.command = u.command /\ v.opening = u.opening /\ v.pending = u.pending
      /\ v.suppressed = u.suppressed /\ v.automatic = u.automatic
    BY <1>3 DEF Runtimes, Candidate
<1>5. u.opening = NoApp /\ u.pending = NoApp /\ u.command = Shell!NoCommand
    BY <1>2, ShellConstants DEF Gone, Kept, Owned
<1> HIDE DEF v
<1>6. Active(v, p, q)
    BY <1>2, <1>4, <1>5 DEF Active, Gone, Kept, Owned, Shell!NoCommand
<1> QED BY <1>1, <1>6, CallsKeep DEF v

\* The runtime falls back to the launcher, or ends in failsafe.
LEMMA HomeKeeps ==
    ASSUME NEW t, NEW w, NEW p \in BOOLEAN, NEW q \in BOOLEAN, q => p, Kept(t, p, q),
           w \in Shell!SwitchHome(t)
    PROVE  Kept(w, p, q)
<1>1. \/ \E u \in Shell!Entered(t, Launcher) : w = u \/ w \in Shell!EnterFailsafe(u)
      \/ w = Shell!NotCreated(t) \/ w \in Shell!EnterFailsafe(Shell!NotCreated(t))
    BY DEF Shell!SwitchHome
<1>2. CASE \E u \in Shell!Entered(t, Launcher) : w = u \/ w \in Shell!EnterFailsafe(u)
    <2>1. PICK u \in Shell!Entered(t, Launcher) : w = u \/ w \in Shell!EnterFailsafe(u)
        BY <1>2
    <2>2. Launcher \in Anyone /\ Launcher # NoApp
        BY ShellConstants DEF Anyone
    <2>3. Kept(u, p, q)
        BY <2>1, <2>2, EnteredKeeps DEF Active
    <2> QED BY <2>1, <2>3, FailsafeKeeps
<1> QED BY <1>1, <1>2, NotCreatedKeeps, FailsafeKeeps

LEMMA OpenKeeps ==
    ASSUME NEW t, NEW w, NEW p \in BOOLEAN, NEW q \in BOOLEAN, q => p, Kept(t, p, q),
           NEW id \in Anyone, id # NoApp, w \in Shell!SwitchOpen(t, id)
    PROVE  Kept(w, p, q)
<1>1. \/ w = Shell!NotCreated(t)
      \/ \E u \in Shell!Entered(t, id) :
            w = u \/ \E v \in Shell!Exits(u) : w \in Shell!SwitchHome(v)
    BY DEF Shell!SwitchOpen
<1>2. CASE \E u \in Shell!Entered(t, id) :
            w = u \/ \E v \in Shell!Exits(u) : w \in Shell!SwitchHome(v)
    <2>1. PICK u \in Shell!Entered(t, id) :
            w = u \/ \E v \in Shell!Exits(u) : w \in Shell!SwitchHome(v)
        BY <1>2
    <2>2. Kept(u, p, q)
        BY EnteredKeeps DEF Active
    <2>3. ASSUME NEW v \in Shell!Exits(u), w \in Shell!SwitchHome(v) PROVE Kept(w, p, q)
        BY <2>2, <2>3, ExitsKeep, HomeKeeps DEF Gone
    <2> QED BY <2>1, <2>2, <2>3
<1> QED BY <1>1, <1>2, NotCreatedKeeps

LEMMA StopKeeps ==
    ASSUME NEW t, NEW w, NEW p \in BOOLEAN, NEW q \in BOOLEAN, Kept(t, p, q), w \in Shell!Stop(t)
    PROVE  Kept(w, p, q) /\ w.life = "stopped"
<1>1. PICK u \in Shell!Exits(t) : w = [u EXCEPT !.life = "stopped"]
    BY DEF Shell!Stop
<1>2. Gone(u, p, q)
    BY ExitsKeep
<1> QED BY <1>1, <1>2 DEF Gone, Kept, Owned, Runtimes

\* What was asked for is done.
LEMMA CommandKeeps ==
    ASSUME NEW t, NEW w, NEW p \in BOOLEAN, NEW q \in BOOLEAN, q => p, Kept(t, p, q),
           w \in Shell!ProcessCommand(t)
    PROVE  Kept(w, p, q)
<1> DEFINE taken == [t EXCEPT !.command = Shell!NoCommand, !.ok = TRUE]
<1>1. /\ t.command \in Asked
      /\ t.command.kind = "open" => t.command.target \in Anyone /\ t.command.target # NoApp
    BY DEF Kept, Owned, Runtimes, Asked
<1>2. Shell!NoCommand \in Asked /\ Shell!NoCommand.kind = "none"
    BY DEF Shell!NoCommand, Asked, Anyone
<1>3. \/ w = taken
      \/ t.command.kind = "open" /\ w \in Shell!SwitchOpen(taken, t.command.target)
      \/ w \in Shell!SwitchHome(taken) \/ w \in Shell!Stop(taken)
    <2>1. CASE t.command.kind = "none"
        BY <2>1 DEF Shell!ProcessCommand
    <2>2. CASE t.command.kind = "open"
        BY <2>2 DEF Shell!ProcessCommand
    <2>3. CASE t.command.kind \in {"back", "home"}
        BY <2>3 DEF Shell!ProcessCommand
    <2>4. CASE t.command.kind = "shutdown"
        BY <2>4 DEF Shell!ProcessCommand
    <2> HIDE DEF taken
    <2> QED BY <1>1, <2>1, <2>2, <2>3, <2>4 DEF Asked
<1>4. Kept(taken, p, q)
    <2>1. /\ taken \in Runtimes /\ taken.life = t.life /\ taken.fg = t.fg
          /\ taken.render = t.render /\ taken.command = Shell!NoCommand
          /\ taken.opening = t.opening /\ taken.pending = t.pending
          /\ taken.suppressed = t.suppressed /\ taken.automatic = t.automatic
        BY <1>2 DEF Kept, Runtimes
    <2> HIDE DEF taken
    <2> QED BY <1>2, <2>1 DEF Kept, Owned
<1> HIDE DEF taken
<1> QED BY <1>1, <1>3, <1>4, OpenKeeps, HomeKeeps, StopKeeps


\* A render, and what runs only in an active runtime.
LEMMA DrawKeeps ==
    ASSUME NEW t, NEW w, NEW p \in BOOLEAN, NEW q \in BOOLEAN, Active(t, p, q),
           w \in Shell!ProcessRender(t)
    PROVE  Active(w, p, q)
<1> DEFINE taken == [t EXCEPT !.render = "none", !.ok = TRUE]
           drawn == [taken EXCEPT !.presented = @ \/ (t.fg = Launcher /\ t.pending # NoApp)]
           again == Shell!RenderAgain(taken)
<1>1. w = taken \/ w = again \/ w = drawn
    BY DEF Shell!ProcessRender
<1>2. /\ taken \in Runtimes /\ taken.life = t.life /\ taken.fg = t.fg /\ taken.render = "none"
      /\ taken.command = t.command /\ taken.opening = t.opening /\ taken.pending = t.pending
      /\ taken.suppressed = t.suppressed /\ taken.automatic = t.automatic
    BY DEF Active, Kept, Runtimes
<1> HIDE DEF taken
<1>3. Active(taken, p, q)
    BY <1>2 DEF Active, Kept, Owned
<1>4. SameOwner(drawn, taken)
    BY <1>2 DEF SameOwner, Runtimes
<1>5. /\ again \in Runtimes /\ again.life = taken.life /\ again.fg = taken.fg
      /\ again.render = "current" /\ again.command = taken.command
      /\ again.opening = taken.opening /\ again.pending = taken.pending
      /\ again.suppressed = taken.suppressed /\ again.automatic = taken.automatic
    BY <1>2 DEF Runtimes, Shell!RenderAgain
<1> HIDE DEF drawn, again
<1>6. Active(again, p, q)
    BY <1>3, <1>5 DEF Active, Kept, Owned
<1>7. Active(drawn, p, q)
    BY <1>3, <1>4, SameOwnerKeeps DEF Active
<1> QED BY <1>1, <1>3, <1>6, <1>7

\* One result after another: the first that failed is kept.
Joined(u, ok) == [u EXCEPT !.ok = @ /\ ok]

LEMMA JoinedKeeps ==
    ASSUME NEW u, NEW w, NEW ok, NEW p \in BOOLEAN, NEW q \in BOOLEAN, Kept(u, p, q),
           w = Joined(u, ok)
    PROVE  Kept(w, p, q) /\ w.life = u.life
<1>1. SameOwner(w, u)
    BY DEF Kept, Runtimes, SameOwner, Joined
<1> QED BY <1>1, SameOwnerKeeps

LEMMA ThenCommandIs ==
    ASSUME NEW t
    PROVE  Shell!Then(t, Shell!ProcessCommand) = {Joined(u, t.ok) : u \in Shell!ProcessCommand(t)}
BY DEF Joined, Shell!Then

LEMMA RenderIfActiveKeeps ==
    ASSUME NEW t, NEW w, NEW p \in BOOLEAN, NEW q \in BOOLEAN, Kept(t, p, q),
           w \in Shell!RenderIfActive(t)
    PROVE  Kept(w, p, q)
<1>1. CASE t.life = "active"
    <2>1. Shell!Then(t, Shell!ProcessRender) = {Joined(u, t.ok) : u \in Shell!ProcessRender(t)}
        BY DEF Joined, Shell!Then
    <2> DEFINE ok == t.ok
    <2>2. PICK u \in Shell!ProcessRender(t) : w = Joined(u, ok)
        BY <1>1, <2>1 DEF Shell!RenderIfActive
    <2>3. Kept(u, p, q)
        BY <1>1, <2>2, DrawKeeps DEF Active
    <2> HIDE DEF ok
    <2> QED BY <2>2, <2>3, JoinedKeeps
<1>2. CASE t.life # "active"
    BY <1>2 DEF Shell!RenderIfActive
<1> QED BY <1>1, <1>2

LEMMA ThenCommandKeeps ==
    ASSUME NEW t, NEW w, NEW p \in BOOLEAN, NEW q \in BOOLEAN, q => p, Kept(t, p, q),
           w \in Shell!Then(t, Shell!ProcessCommand)
    PROVE  Kept(w, p, q)
<1> DEFINE ok == t.ok
<1>1. PICK u \in Shell!ProcessCommand(t) : w = Joined(u, ok)
    BY ThenCommandIs
<1>2. Kept(u, p, q)
    BY <1>1, CommandKeeps
<1> HIDE DEF ok
<1> QED BY <1>1, <1>2, JoinedKeeps

\* A call begins with no failure of its own.
Fresh(t) == [t EXCEPT !.ok = TRUE]

LEMMA FreshKeeps ==
    ASSUME NEW t, NEW p \in BOOLEAN, NEW q \in BOOLEAN, Active(t, p, q)
    PROVE  Active(Fresh(t), p, q)
<1>1. SameOwner(Fresh(t), t)
    BY DEF Active, Kept, Runtimes, SameOwner, Fresh
<1> QED BY <1>1, SameOwnerKeeps DEF Active

LEMMA InputKeeps ==
    ASSUME NEW t, NEW w, NEW p \in BOOLEAN, NEW q \in BOOLEAN, q => p, Active(t, p, q),
           w \in Shell!DispatchInput(t)
    PROVE  Kept(w, p, q)
<1>1. PICK u \in Shell!HandleEvent(Fresh(t)) : w \in Shell!Then(u, Shell!ProcessCommand)
    BY DEF Fresh, Shell!DispatchInput
<1>2. Active(u, p, q)
    BY FreshKeeps, CallsKeep
<1> QED BY <1>1, <1>2, ThenCommandKeeps DEF Active

LEMMA StepKeeps ==
    ASSUME NEW t, NEW w, NEW p \in BOOLEAN, NEW q \in BOOLEAN, q => p, Kept(t, p, q),
           w \in Shell!Step(t)
    PROVE  Kept(w, p, q)
<1>1. PICK u \in Shell!ProcessCommand(t) : w \in Shell!RenderIfActive(u)
    BY DEF Shell!Step
<1> QED BY <1>1, CommandKeeps, RenderIfActiveKeeps

LEMMA IdleIs ==
    ASSUME NEW t
    PROVE  Shell!Idle(t) = UNION {UNION {Shell!RenderIfActive(v) :
                                            v \in Shell!Then(u, Shell!ProcessCommand)} :
                                  u \in Shell!HandleIdle(Fresh(t))}
BY DEF Fresh, Shell!Idle

LEMMA IdleKeeps ==
    ASSUME NEW t, NEW w, NEW p \in BOOLEAN, NEW q \in BOOLEAN, q => p, Active(t, p, q),
           w \in Shell!Idle(t)
    PROVE  Kept(w, p, q)
<1>1. PICK u \in Shell!HandleIdle(Fresh(t)) :
        \E v \in Shell!Then(u, Shell!ProcessCommand) : w \in Shell!RenderIfActive(v)
    BY IdleIs
<1>2. PICK v \in Shell!Then(u, Shell!ProcessCommand) : w \in Shell!RenderIfActive(v)
    BY <1>1
<1>3. Active(u, p, q)
    BY FreshKeeps, CallsKeep
<1>4. Kept(v, p, q)
    BY <1>3, ThenCommandKeeps DEF Active
<1> QED BY <1>2, <1>4, RenderIfActiveKeeps

\* The bookkeeping between the calls: it changes no owner, and the error and the outcome only
\* as it says.
LaunchLeaves(u, t) == SameOwner(u, t) /\ u.error = t.error /\ u.suppressed = t.suppressed

LEMMA CheckedKeeps ==
    ASSUME NEW t, NEW p \in BOOLEAN, NEW q \in BOOLEAN, Kept(t, p, q)
    PROVE  LaunchLeaves(Shell!LaunchChecked(t), t)
<1> DEFINE failed == IF t.openTarget # NoApp /\ t.life = "active" /\ t.fg = Launcher
                     THEN t.openTarget ELSE t.failedTarget
<1>1. Shell!LaunchChecked(t) = [t EXCEPT !.openTarget = NoApp, !.failedTarget = failed]
    BY DEF Shell!LaunchChecked
<1>2. failed \in Anyone /\ NoApp \in Anyone
    BY DEF Kept, Runtimes, Anyone
<1> HIDE DEF failed
<1> QED BY <1>1, <1>2 DEF Kept, Runtimes, SameOwner, LaunchLeaves

\* After it, an error suppresses.
Warned(u, p, q) == Kept(u, p, q) /\ (u.error => u.suppressed)

LEMMA SuppressWarns ==
    ASSUME NEW t, NEW p \in BOOLEAN, NEW q \in BOOLEAN, Kept(t, p, q)
    PROVE  Warned(Shell!Suppress(t), p, q)
<1> DEFINE u == Shell!Suppress(t)
<1>1. SameOwner(u, t) /\ (u.error => u.suppressed)
    BY DEF Kept, Runtimes, SameOwner, Shell!Suppress
<1> HIDE DEF u
<1>2. Warned(u, p, q)
    BY <1>1, SameOwnerKeeps DEF Warned
<1> QED BY <1>2 DEF u

LEMMA RefreshedWarns ==
    ASSUME NEW t, NEW u, NEW p \in BOOLEAN, NEW q \in BOOLEAN, Warned(t, p, q),
           u \in Shell!Refreshed(t)
    PROVE  Warned(u, p, q)
<1>1. u = t \/ u = [t EXCEPT !.ok = FALSE]
    BY DEF Shell!Refreshed
<1>2. u = t \/ LaunchLeaves(u, t)
    BY <1>1 DEF Warned, Kept, Runtimes, SameOwner, LaunchLeaves
<1> QED BY <1>2, SameOwnerKeeps DEF Warned, LaunchLeaves

LEMMA CountedWarns ==
    ASSUME NEW t, NEW p \in BOOLEAN, NEW q \in BOOLEAN, Warned(t, p, q)
    PROVE  Warned(Shell!Counted(t), p, q)
<1> DEFINE before == IF t.sameGeneration /\ ~t.ok THEN t.failures ELSE 0
           n == IF t.ok THEN 0 ELSE IF before < FailureLimit THEN before + 1 ELSE before
           u == Shell!Counted(t)
<1>1. t.failures \in Nat
    BY DEF Warned, Kept, Runtimes
<1>2. before \in Nat
    BY <1>1
<1>3. n \in Nat
    <2> HIDE DEF before
    <2> QED BY <1>2
<1>4. u = [t EXCEPT !.sameGeneration = TRUE, !.failures = n]
    BY DEF Shell!Counted
<1> HIDE DEF n, u
<1>5. LaunchLeaves(u, t)
    BY <1>3, <1>4 DEF Warned, Kept, Runtimes, SameOwner, LaunchLeaves
<1>6. Warned(u, p, q)
    BY <1>5, SameOwnerKeeps DEF Warned, LaunchLeaves
<1> QED BY <1>6 DEF u

\* What a turn ends in.
Ended(u, p, q) ==
    Kept(u, p, q) /\ (u.error => u.suppressed \/ u.life \in {"stopped", "ended"})

LEMMA ConfirmedEnds ==
    ASSUME NEW t, NEW w, NEW p \in BOOLEAN, NEW q \in BOOLEAN, Warned(t, p, q),
           w \in Shell!Confirmed(t)
    PROVE  Ended(w, p, q)
<1>1. \/ w = t \/ w = [t EXCEPT !.ready = TRUE]
      \/ w \in {[u EXCEPT !.life = "ended"] : u \in Shell!Exits(t)}
    BY DEF Shell!Confirmed
<1>2. CASE w = t
    BY <1>2 DEF Warned, Ended
<1>3. CASE w = [t EXCEPT !.ready = TRUE]
    <2>1. LaunchLeaves(w, t)
        BY <1>3 DEF Warned, Kept, Runtimes, SameOwner, LaunchLeaves
    <2> QED BY <2>1, SameOwnerKeeps DEF Warned, Ended, LaunchLeaves
<1>4. CASE w \in {[u EXCEPT !.life = "ended"] : u \in Shell!Exits(t)}
    <2>1. PICK u \in Shell!Exits(t) : w = [u EXCEPT !.life = "ended"]
        BY <1>4
    <2>2. Gone(u, p, q)
        BY ExitsKeep DEF Warned
    <2>3. Kept(w, p, q) /\ w.life = "ended"
        BY <2>1, <2>2 DEF Gone, Kept, Owned, Runtimes
    <2> QED BY <2>3 DEF Ended
<1> QED BY <1>1, <1>2, <1>3, <1>4

LEMMA RecoverKeeps ==
    ASSUME NEW t, NEW w, NEW p \in BOOLEAN, NEW q \in BOOLEAN, q => p, Kept(t, p, q),
           w \in Shell!Recover(t)
    PROVE  Kept(w, p, q)
<1>1. CASE w \in Shell!EnterFailsafe(t)
    BY <1>1, FailsafeKeeps
<1>2. CASE w \in UNION {Shell!SwitchHome([u EXCEPT !.error = TRUE]) : u \in Shell!Exits(t)}
    <2>1. PICK u \in Shell!Exits(t) : w \in Shell!SwitchHome([u EXCEPT !.error = TRUE])
        BY <1>2
    <2> DEFINE v == [u EXCEPT !.error = TRUE]
    <2>2. Kept(u, p, q)
        BY ExitsKeep DEF Gone
    <2>3. SameOwner(v, u)
        BY <2>2 DEF Kept, Runtimes, SameOwner
    <2>4. w \in Shell!SwitchHome(v)
        BY <2>1
    <2> HIDE DEF v
    <2> QED BY <2>2, <2>3, <2>4, SameOwnerKeeps, HomeKeeps
<1> QED BY <1>1, <1>2 DEF Shell!Recover

\* The supervisor gives a failing foreground up; with it the automatic applications.
GivenUp(t) == [t EXCEPT !.failures = 0, !.suppressed = TRUE]

LEMMA GivenUpKeeps ==
    ASSUME NEW t, NEW p \in BOOLEAN, NEW q \in BOOLEAN, Kept(t, p, q)
    PROVE  Kept(GivenUp(t), TRUE, q) /\ GivenUp(t).life = t.life
<1> DEFINE u == GivenUp(t)
<1>1. SameOwner(u, t) /\ u.suppressed
    BY DEF Kept, Runtimes, SameOwner, GivenUp
<1> HIDE DEF u
<1>2. Kept(u, TRUE, q) /\ u.life = t.life
    BY <1>1, SameOwnerKeeps DEF Kept
<1> QED BY <1>2 DEF u

LEMMA CompleteIs ==
    ASSUME NEW t, NEW w, w \in Shell!Complete(t)
    PROVE  \E u \in Shell!Refreshed(Shell!Suppress(Shell!LaunchChecked(t))) :
                \/ w \in Shell!Recover(GivenUp(Shell!Counted(u)))
                \/ w \in Shell!Confirmed(Shell!Counted(u))
<1>1. PICK u \in Shell!Refreshed(Shell!Suppress(Shell!LaunchChecked(t))) :
        w \in LET c == Shell!Counted(u)
              IN IF ~c.ok /\ c.failures = FailureLimit /\ c.life = "active"
                 THEN Shell!Recover([c EXCEPT !.failures = 0, !.suppressed = TRUE])
                 ELSE Shell!Confirmed(c)
    BY DEF Shell!Complete
<1> QED BY <1>1 DEF GivenUp

LEMMA CompleteEnds ==
    ASSUME NEW t, NEW w, NEW p \in BOOLEAN, NEW q \in BOOLEAN, q => p, Kept(t, p, q),
           w \in Shell!Complete(t)
    PROVE  Ended(w, p, q)
<1>1. PICK u \in Shell!Refreshed(Shell!Suppress(Shell!LaunchChecked(t))) :
                \/ w \in Shell!Recover(GivenUp(Shell!Counted(u)))
                \/ w \in Shell!Confirmed(Shell!Counted(u))
    BY CompleteIs
<1> DEFINE a == Shell!LaunchChecked(t)
           b == Shell!Suppress(a)
           c == Shell!Counted(u)
           g == GivenUp(c)
<1>2. Kept(a, p, q)
    BY CheckedKeeps, SameOwnerKeeps DEF LaunchLeaves
<1> HIDE DEF a
<1>3. Warned(b, p, q)
    BY <1>2, SuppressWarns
<1> HIDE DEF b
<1>4. Warned(u, p, q)
    BY <1>1, <1>3, RefreshedWarns DEF a, b
<1>5. Warned(c, p, q)
    BY <1>4, CountedWarns
<1> HIDE DEF c
<1>6. CASE w \in Shell!Confirmed(c)
    BY <1>5, <1>6, ConfirmedEnds
<1>7. CASE w \in Shell!Recover(g)
    <2>1. Kept(g, TRUE, q)
        BY <1>5, GivenUpKeeps DEF Warned
    <2> HIDE DEF g
    <2>2. Kept(w, TRUE, q)
        BY <1>7, <2>1, RecoverKeeps
    <2> QED BY <2>2 DEF Kept, Ended
<1> QED BY <1>1, <1>6, <1>7 DEF c, g

\* A burst of inputs: each set of outcomes holds the one before it.
First(t) == Shell!DispatchInput([t EXCEPT !.moved = FALSE])
Further(X) == X \cup UNION {Shell!DispatchInput(u) :
                            u \in {v \in X : v.life = "active" /\ v.ok /\ ~v.moved}}
Bursts(t, m, f) == f = [n \in 1..m |-> IF n = 1 THEN First(t) ELSE Further(f[n - 1])]
Inputs(t) == CHOOSE f : Bursts(t, MaxBurst, f)

LEMMA BurstIs ==
    ASSUME NEW t
    PROVE  Shell!Burst(t) = UNION {IF u.life # "active" THEN {u}
                                   ELSE Shell!Then(u, Shell!Step)
                                        \cup IF u.ok /\ ~u.moved THEN Shell!Idle(u) ELSE {} :
                                   u \in Inputs(t)[MaxBurst]}
BY DEF First, Further, Bursts, Inputs, Shell!Burst

LEMMA BurstsExist ==
    ASSUME NEW t, NEW m \in Nat
    PROVE  \E f : Bursts(t, m, f)
<1> DEFINE bad == {n \in Nat : \A f : ~Bursts(t, n, f)}
<1>1. CASE bad = {}
    BY <1>1
<1>2. CASE bad # {}
    <2>1. PICK n \in bad : \A k \in bad : n <= k
        BY <1>2, Eldest
    <2>2. CASE n = 0
        <3>1. Bursts(t, 0, [i \in 1..0 |-> First(t)])
            BY DEF Bursts
        <3> QED BY <2>1, <2>2, <3>1
    <2>3. CASE n # 0
        <3>1. n - 1 \in Nat /\ n - 1 \notin bad
            BY <2>1, <2>3
        <3>2. PICK f : Bursts(t, n - 1, f)
            BY <3>1
        <3> DEFINE g == [i \in 1..n |-> IF i = 1 THEN First(t)
                                        ELSE IF i = n THEN Further(f[n - 1]) ELSE f[i]]
                   h == [i \in 1..n |-> IF i = 1 THEN First(t) ELSE Further(g[i - 1])]
        <3>3. ASSUME NEW i \in 1..n PROVE g[i] = h[i]
            <4>1. CASE i = 1
                BY <4>1
            <4>2. CASE i # 1
                <5>1. i - 1 \in 1..n /\ i - 1 # n /\ i - 1 \in 1..(n - 1) /\ n \in Nat
                    BY <2>1, <4>2
                <5>2. g[i - 1] = f[i - 1]
                    <6>1. CASE i - 1 = 1
                        BY <3>2, <5>1, <6>1 DEF Bursts
                    <6>2. CASE i - 1 # 1
                        BY <5>1, <6>2
                    <6> QED BY <6>1, <6>2
                <5>3. h[i] = Further(f[i - 1])
                    BY <4>2, <5>2
                <5>4. CASE i = n
                    BY <4>2, <5>3, <5>4
                <5>5. CASE i # n
                    <6>1. i \in 1..(n - 1)
                        BY <5>1, <5>5
                    <6>2. f[i] = Further(f[i - 1])
                        BY <3>2, <4>2, <6>1 DEF Bursts
                    <6> QED BY <4>2, <5>3, <5>5, <6>2
                <5> QED BY <5>4, <5>5
            <4> QED BY <4>1, <4>2
        <3>4. g = h
            <4>1. g = [i \in 1..n |-> g[i]] /\ h = [i \in 1..n |-> h[i]]
                OBVIOUS
            <4> HIDE DEF g, h
            <4> QED BY <3>3, <4>1
        <3>5. Bursts(t, n, g)
            BY <3>4 DEF Bursts
        <3> QED BY <2>1, <3>5
    <2> QED BY <2>2, <2>3
<1> QED BY <1>1, <1>2

AllKept(X, p, q) == \A u \in X : Kept(u, p, q)

LEMMA FurtherKeeps ==
    ASSUME NEW X, NEW p \in BOOLEAN, NEW q \in BOOLEAN, q => p, AllKept(X, p, q)
    PROVE  AllKept(Further(X), p, q)
<1> SUFFICES ASSUME NEW w \in Further(X) PROVE Kept(w, p, q)
    BY DEF AllKept
<1>1. w \in X \/ \E u \in X : u.life = "active" /\ w \in Shell!DispatchInput(u)
    BY DEF Further
<1>2. CASE \E u \in X : u.life = "active" /\ w \in Shell!DispatchInput(u)
    <2>1. PICK u \in X : u.life = "active" /\ w \in Shell!DispatchInput(u)
        BY <1>2
    <2>2. Active(u, p, q)
        BY <2>1 DEF AllKept, Active
    <2> QED BY <2>1, <2>2, InputKeeps
<1> QED BY <1>1, <1>2 DEF AllKept

LEMMA InputsKeep ==
    ASSUME NEW t, NEW p \in BOOLEAN, NEW q \in BOOLEAN, q => p, Active(t, p, q)
    PROVE  AllKept(Inputs(t)[MaxBurst], p, q)
<1> DEFINE f == Inputs(t)
           bad == {n \in 1..MaxBurst : ~AllKept(f[n], p, q)}
<1>1. MaxBurst \in Nat \ {0}
    BY ShellConstants
<1>2. Bursts(t, MaxBurst, f)
    BY <1>1, BurstsExist DEF Inputs
<1> HIDE DEF f
<1>3. f = [n \in 1..MaxBurst |-> IF n = 1 THEN First(t) ELSE Further(f[n - 1])]
    BY <1>2 DEF Bursts
<1>4. \A n \in 1..MaxBurst : f[n] = IF n = 1 THEN First(t) ELSE Further(f[n - 1])
    <2> DEFINE body(n) == IF n = 1 THEN First(t) ELSE Further(f[n - 1])
    <2>1. f = [n \in 1..MaxBurst |-> body(n)]
        BY <1>3
    <2> HIDE DEF body
    <2>2. \A n \in 1..MaxBurst : f[n] = body(n)
        BY <2>1
    <2> QED BY <2>2 DEF body
<1>5. AllKept(First(t), p, q)
    <2> DEFINE v == [t EXCEPT !.moved = FALSE]
    <2>1. SameOwner(v, t)
        BY DEF Active, Kept, Runtimes, SameOwner
    <2>2. First(t) = Shell!DispatchInput(v)
        BY DEF First
    <2> HIDE DEF v
    <2>3. Active(v, p, q)
        BY <2>1, SameOwnerKeeps DEF Active
    <2> QED BY <2>2, <2>3, InputKeeps DEF AllKept
<1>6. bad = {}
    <2> SUFFICES ASSUME bad # {} PROVE FALSE
        OBVIOUS
    <2>7. bad \subseteq Nat
        BY <1>1
    <2> HIDE DEF bad
    <2>1. PICK n \in bad : \A k \in bad : n <= k
        BY <2>7, Eldest
    <2>2. n \in 1..MaxBurst /\ ~AllKept(f[n], p, q)
        BY <2>1 DEF bad
    <2>3. n # 1
        BY <1>4, <1>5, <2>2
    <2>4. n - 1 \in 1..MaxBurst /\ ~(n <= n - 1)
        BY <1>1, <2>2, <2>3
    <2>5. AllKept(f[n - 1], p, q)
        BY <2>1, <2>4 DEF bad
    <2>6. f[n] = Further(f[n - 1])
        BY <1>4, <2>2, <2>3
    <2> QED BY <2>2, <2>5, <2>6, FurtherKeeps
<1> QED BY <1>1, <1>6 DEF f

LEMMA BurstKeeps ==
    ASSUME NEW t, NEW w, NEW p \in BOOLEAN, NEW q \in BOOLEAN, q => p, Active(t, p, q),
           w \in Shell!Burst(t)
    PROVE  Kept(w, p, q)
<1>1. PICK u \in Inputs(t)[MaxBurst] :
        w \in IF u.life # "active" THEN {u}
              ELSE Shell!Then(u, Shell!Step)
                   \cup IF u.ok /\ ~u.moved THEN Shell!Idle(u) ELSE {}
    BY BurstIs
<1>2. Kept(u, p, q)
    BY InputsKeep DEF AllKept
<1>3. \/ w = u
      \/ u.life = "active" /\ w \in Shell!Then(u, Shell!Step)
      \/ u.life = "active" /\ w \in Shell!Idle(u)
    BY <1>1
<1>4. CASE u.life = "active" /\ w \in Shell!Then(u, Shell!Step)
    <2> DEFINE ok == u.ok
    <2>1. Shell!Then(u, Shell!Step) = {Joined(v, ok) : v \in Shell!Step(u)}
        BY DEF Joined, Shell!Then
    <2>2. PICK v \in Shell!Step(u) : w = Joined(v, ok)
        BY <1>4, <2>1
    <2>3. Kept(v, p, q)
        BY <1>2, <2>2, StepKeeps
    <2> HIDE DEF ok
    <2> QED BY <2>2, <2>3, JoinedKeeps
<1>5. CASE u.life = "active" /\ w \in Shell!Idle(u)
    BY <1>2, <1>5, IdleKeeps DEF Active
<1> QED BY <1>2, <1>3, <1>4, <1>5

\* The invariant of the shell between two turns: an error suppresses, unless the loop is over.
ShellInv ==
    /\ Kept(aS, FALSE, FALSE)
    /\ aS.error => aS.suppressed \/ aS.life \in {"stopped", "ended"}

\* A turn: what may be opened by itself is only opened where nothing failed.
LEMMA TurnKeeps ==
    ASSUME ShellInv
    PROVE  /\ Kept(Shell!Turn, aS.suppressed, aS.suppressed)
           /\ Shell!Turn.life = aS.life /\ aS.suppressed \in BOOLEAN
<1> DEFINE u == Shell!Turn
<1>1. SameOwner(u, aS) /\ ~u.automatic /\ (aS.suppressed => u.suppressed)
    BY DEF ShellInv, Kept, Runtimes, SameOwner, Shell!Turn
<1>2. aS.suppressed \in BOOLEAN
    BY DEF ShellInv, Kept, Runtimes
<1> HIDE DEF u
<1>3. Kept(u, aS.suppressed, aS.suppressed) /\ u.life = aS.life
    BY <1>1, SameOwnerKeeps DEF ShellInv, Kept
<1> QED BY <1>2, <1>3 DEF u

StepOrFailed(t) == IF t.ok THEN Shell!Step(t) ELSE {t}

LEMMA StepOrFailedKeeps ==
    ASSUME NEW t, NEW w, NEW p \in BOOLEAN, NEW q \in BOOLEAN, q => p, Kept(t, p, q),
           w \in StepOrFailed(t)
    PROVE  Kept(w, p, q)
BY StepKeeps DEF StepOrFailed

\* A turn of the loop, from a runtime that was p and q when it began.
TurnEnds == Ended(aS', aS.suppressed, aS.suppressed)

LEMMA LoopEnds ==
    ASSUME NEW X, Shell!Loop(X), aS.suppressed \in BOOLEAN,
           AllKept(X, aS.suppressed, aS.suppressed)
    PROVE  TurnEnds
<1>1. PICK t \in X : aS' \in Shell!Complete(t)
    BY DEF Shell!Loop
<1> DEFINE p == aS.suppressed
<1>2. Kept(t, p, p) /\ p \in BOOLEAN
    BY DEF AllKept
<1> HIDE DEF p
<1>3. Ended(aS', p, p)
    BY <1>1, <1>2, CompleteEnds
<1> QED BY <1>3 DEF TurnEnds, p

LEMMA ShellTurns ==
    ASSUME ShellInv, Shell!Next
    PROVE  aS' = aS \/ TurnEnds
<1> DEFINE p == aS.suppressed
           b == Shell!Turn
<1>1. Kept(b, p, p) /\ b.life = aS.life /\ p \in BOOLEAN
    BY TurnKeeps
<1> HIDE DEF p, b
<1>2. CASE Shell!Start
    <2> DEFINE X == UNION {StepOrFailed(t) : t \in Shell!SwitchHome(b)}
    <2>1. Shell!Loop(X)
        BY <1>2 DEF Shell!Start, StepOrFailed, b
    <2>2. AllKept(X, p, p)
        <3> SUFFICES ASSUME NEW w \in X PROVE Kept(w, p, p)
            BY DEF AllKept
        <3>1. PICK t \in Shell!SwitchHome(b) : w \in StepOrFailed(t)
            OBVIOUS
        <3>2. Kept(t, p, p)
            BY <1>1, <3>1, HomeKeeps
        <3> QED BY <1>1, <3>1, <3>2, StepOrFailedKeeps
    <2> HIDE DEF X
    <2> QED BY <1>1, <2>1, <2>2, LoopEnds DEF p
<1>3. CASE Shell!LoopInput
    <2> DEFINE X == Shell!Burst(b)
    <2>1. Shell!Loop(X) /\ Active(b, p, p)
        BY <1>1, <1>3 DEF Shell!LoopInput, Active, b
    <2>2. AllKept(X, p, p)
        BY <1>1, <2>1, BurstKeeps DEF AllKept
    <2> HIDE DEF X
    <2> QED BY <1>1, <2>1, <2>2, LoopEnds DEF p
<1>4. CASE Shell!LoopIdle
    <2> DEFINE X == Shell!Idle(b)
    <2>1. Shell!Loop(X) /\ Active(b, p, p)
        BY <1>1, <1>4 DEF Shell!LoopIdle, Active, b
    <2>2. AllKept(X, p, p)
        BY <1>1, <2>1, IdleKeeps DEF AllKept
    <2> HIDE DEF X
    <2> QED BY <1>1, <2>1, <2>2, LoopEnds DEF p
<1>5. CASE Shell!LoopStop
    <2>1. aS' \in Shell!Stop(b)
        BY <1>5 DEF Shell!LoopStop, b
    <2>2. Ended(aS', p, p)
        BY <1>1, <2>1, StopKeeps DEF Ended
    <2> QED BY <2>2 DEF TurnEnds, p
<1>6. CASE Shell!FailsafeInput
    <2> DEFINE X == UNION {StepOrFailed(t) : t \in Shell!Recover(GivenUp(b))}
    <2>1. Shell!Loop(X)
        BY <1>6 DEF Shell!FailsafeInput, StepOrFailed, GivenUp, b
    <2>2. AllKept(X, p, p)
        <3> SUFFICES ASSUME NEW w \in X PROVE Kept(w, p, p)
            BY DEF AllKept
        <3>1. PICK t \in Shell!Recover(GivenUp(b)) : w \in StepOrFailed(t)
            OBVIOUS
        <3>2. Kept(GivenUp(b), TRUE, p)
            BY <1>1, GivenUpKeeps
        <3>3. Kept(GivenUp(b), p, p)
            BY <3>2 DEF Kept
        <3>4. Kept(t, p, p)
            BY <1>1, <3>1, <3>3, RecoverKeeps
        <3> QED BY <1>1, <3>1, <3>4, StepOrFailedKeeps
    <2> HIDE DEF X
    <2> QED BY <1>1, <2>1, <2>2, LoopEnds DEF p
<1>7. CASE Shell!FallQuiet
    BY <1>7 DEF Shell!FallQuiet
<1> QED BY <1>2, <1>3, <1>4, <1>5, <1>6, <1>7 DEF Shell!Next

\* The invariant of the shell, while it is the part that moves.
LEMMA AlwaysShell == MCSpec => [](part = "shell" => ShellInv)
<1>1. MCInit => (part = "shell" => ShellInv)
    <2> SUFFICES ASSUME MCInit, part = "shell" PROVE ShellInv
        OBVIOUS
    <2>1. PICK recoveryBoot \in BOOLEAN :
            aS = [life |-> "absent", fg |-> NoApp, ok |-> TRUE, error |-> FALSE, moved |-> FALSE,
                  render |-> "none", command |-> Shell!NoCommand,
                  sameGeneration |-> TRUE, failures |-> 0, suppressed |-> recoveryBoot,
                  opening |-> NoApp, pending |-> NoApp, presented |-> FALSE,
                  openTarget |-> NoApp, failedTarget |-> NoApp,
                  automatic |-> FALSE, ready |-> FALSE]
        BY DEF MCInit, Shell!Init
    <2>2. Shell!NoCommand \in Asked /\ Shell!NoCommand.kind = "none" /\ NoApp \in Anyone
        BY DEF Shell!NoCommand, Asked, Anyone
    <2> HIDE DEF Shell!NoCommand, Anyone
    <2>3. aS \in Runtimes
        BY <2>1, <2>2 DEF Runtimes
    <2> QED BY <2>1, <2>2, <2>3 DEF ShellInv, Kept, Owned
<1>2. (part = "shell" => ShellInv) /\ [MCNext]_mcVars => (part = "shell" => ShellInv)'
    <2> SUFFICES ASSUME part = "shell" => ShellInv, [MCNext]_mcVars, part' = "shell"
                 PROVE  ShellInv'
        OBVIOUS
    <2>1. CASE UNCHANGED <<part, ShellVars>>
        BY <2>1 DEF ShellVars, ShellInv, Kept, Owned
    <2>2. CASE Shell!Next /\ part = "shell"
        <3>1. CASE aS' = aS
            BY <2>2, <3>1 DEF ShellInv, Kept, Owned
        <3>2. CASE TurnEnds
            BY <3>2 DEF TurnEnds, Ended, ShellInv, Kept
        <3> QED BY <2>2, <3>1, <3>2, ShellTurns
    <2> QED BY <2>1, <2>2 DEF MCNext, mcVars
<1> QED BY <1>1, <1>2, PTL DEF MCSpec

\* A foreground exists exactly while the runtime is active, and a render, a command or a
\* launch is asked by it: nothing of an application survives its exit, its fallback or
\* failsafe (note4_application_runtime.cc): for any applications, any length of a burst
\* of inputs and any limit of failures.
THEOREM ShellHasOneOwner == MCSpec => []OneOwner
<1>1. (part = "shell" => ShellInv) => OneOwner
    BY DEF ShellInv, Kept, Owned, Shell!OneOwner, OneOwner
<1> QED BY <1>1, AlwaysShell, PTL

\* No application is opened by itself in a turn that began after anything had failed or
\* after a boot that followed a crash (note4_application_runtime.cc, note4_launcher.cc).
THEOREM ShellStaysManualAfterError == MCSpec => NoAutomaticAfterError
<1>1. /\ part = "shell" => ShellInv
      /\ [MCNext]_mcVars
      => [part = "shell" => (aS'.automatic => ~aS.error /\ ~aS.suppressed)]_aS
    <2> SUFFICES ASSUME part = "shell" => ShellInv, [MCNext]_mcVars, aS' # aS, part = "shell",
                        aS'.automatic
                 PROVE  ~aS.error /\ ~aS.suppressed
        OBVIOUS
    <2>1. Shell!Next
        BY DEF MCNext, mcVars, ShellVars
    <2>2. TurnEnds /\ ShellInv
        BY <2>1, ShellTurns
    <2>3. ~aS.suppressed
        BY <2>2 DEF TurnEnds, Ended, Kept
    <2>4. aS.life \notin {"stopped", "ended"}
        BY <2>1 DEF Shell!Next, Shell!Start, Shell!LoopInput, Shell!LoopIdle, Shell!LoopStop,
                    Shell!FailsafeInput, Shell!FallQuiet
    <2> QED BY <2>2, <2>3, <2>4 DEF ShellInv
<1> QED BY <1>1, AlwaysShell, PTL DEF MCSpec, NoAutomaticAfterError
=============================================================================
