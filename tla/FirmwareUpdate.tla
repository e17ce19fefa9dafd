--------------------------- MODULE FirmwareUpdate ---------------------------
(***************************************************************************)
(* A/B firmware update and boot confirmation: BootGuard and UpdateService  *)
(* with their ESP-IDF backends, the RTC watchdog they hand to the          *)
(* HealthSupervisor, and the terminal's rule that a completed Home frame   *)
(* confirms a trial.  Flash survives a reset; everything the services hold *)
(* in RAM does not.  The bootloader and the otadata records are ESP-IDF's. *)
(* All calls come from the application task and are synchronous, so each   *)
(* is one action; a reset may fall before and after every one of them.     *)
(***************************************************************************)
EXTENDS Naturals

CONSTANTS
    Chunks,     \* WriteFirmwareChunk calls an image takes; the first holds the header
    MaxDamage   \* images that flash may lose later on, bounded

ASSUME UpdateConstants == Chunks \in Nat \ {0} /\ MaxDamage \in Nat

Ota == {"A", "B"}
Slot == Ota \cup {"factory"}
Inactive(s) == IF s = "A" THEN "B" ELSE "A"

VARIABLES
    image,     \* [Slot -> what the slot holds]: whole, partial or damaged
    ota,       \* [Ota -> the image state in its otadata record], "none": no record
    latest,    \* the slot of the record with the higher sequence number
    damage,    \* images lost so far
    running,   \* the slot this boot runs from
    wdt,       \* who armed the one RTC watchdog: bootloader, trial, health, or off
    guard,     \* BootGuard::phase_
    health,    \* HealthSupervisor: its watchdog_armed
    page,      \* the page of the last completed frame
    ready,     \* the terminal's boot_ready
    alive,     \* the shell runs: a failed confirmation or a power transition ends it
    phase,     \* UpdateService::firmware_.phase
    target,    \* firmware_.target
    received,  \* firmware_.received_bytes, in chunks
    open       \* image_open_, and the backend's ota_open_

flash == <<image, ota, latest, damage>>
boot == <<running, wdt, guard, health, page, ready, alive>>
update == <<phase, target, received, open>>
vars == <<image, ota, latest, damage, running, wdt, guard, health, page, ready,
          alive, phase, target, received, open>>

TypeOK ==
    /\ image \in [Slot -> {"whole", "partial", "damaged"}]
    /\ ota \in [Ota -> {"none", "new", "pending", "valid", "aborted"}]
    /\ latest \in Ota
    /\ damage \in 0..MaxDamage
    /\ running \in Slot
    /\ wdt \in {"bootloader", "trial", "health", "off"}
    /\ guard \in {"initial", "pending", "ready", "failed"}
    /\ health \in BOOLEAN
    /\ page \in {"none", "home", "other"}
    /\ ready \in BOOLEAN
    /\ alive \in BOOLEAN
    /\ phase \in {"idle", "receiving", "committed", "failed"}
    /\ target \in Ota
    /\ received \in 0..Chunks
    /\ open \in BOOLEAN

-----------------------------------------------------------------------------
(* What ESP-IDF makes of the otadata records.                              *)

Usable(state, s) == state[s] \in {"new", "pending", "valid"}

\* The newest record whose image was not given up; the factory image without one.
Selected(state, newest) ==
    IF Usable(state, newest) THEN newest
    ELSE IF Usable(state, Inactive(newest)) THEN Inactive(newest) ELSE "factory"

\* A trial that was reset before it was confirmed is given up.
GiveUp(state) == [s \in Ota |-> IF state[s] = "pending" THEN "aborted" ELSE state[s]]

\* A selected slot that does not load falls back to the slots below it.
Loaded(s) == CASE image[s] = "whole" -> s
               [] s = "B" /\ image["A"] = "whole" -> "A"
               [] OTHER -> "factory"

\* Any reset - power cut, panic, watchdog, restart, wake - through the bootloader.
Bootloader ==
    LET given == GiveUp(ota)
        chosen == Selected(given, latest) IN
    /\ ota' = [s \in Ota |-> IF s = chosen /\ given[s] = "new" THEN "pending" ELSE given[s]]
    /\ running' = Loaded(chosen)
    /\ wdt' = "bootloader" /\ guard' = "initial" /\ health' = FALSE
    /\ page' = "none" /\ ready' = FALSE /\ alive' = FALSE
    /\ phase' = "idle" /\ target' = "A" /\ received' = 0 /\ open' = FALSE
    /\ UNCHANGED <<image, latest, damage>>

-----------------------------------------------------------------------------
(* Partitions, from the running slot's point of view.                      *)

ImageState == IF running = "factory" THEN "factory" ELSE ota[running]

KnownGood == ImageState \in {"factory", "valid"}

PendingVerify == ImageState = "pending"

\* VerifyPartitions: an image chosen for the next boot is nobody's to overwrite.
BootMatches == Selected(ota, latest) = running

-----------------------------------------------------------------------------
(* Seeded faults, each with the property it breaks.                        *)

\* SelectedNeverPartial: the selection is not read again.
SelectWithoutRecheck == guard = "ready" /\ KnownGood

\* TrialProtected, TrialEnds: the trial's watchdog is released before the write.
ConfirmDisarmsFirst ==
    \E written, reported \in BOOLEAN :
        /\ reported => written
        /\ written => PendingVerify /\ BootMatches
        /\ ota' = IF written THEN [ota EXCEPT ![running] = "valid"] ELSE ota
        /\ IF reported
           THEN guard' = "ready" /\ wdt' = "health" /\ health' = TRUE
           ELSE guard' = "failed" /\ wdt' = "off" /\ UNCHANGED health
        /\ ready' = reported /\ alive' = reported

\* ConfirmedByItsHome: any frame will do, the recovery page's too.
ConfirmsAnyFrame(p) == ~ready

-----------------------------------------------------------------------------
Init ==
    /\ image = [s \in Slot |-> IF s = "factory" THEN "whole" ELSE "partial"]
    /\ ota = [s \in Ota |-> "none"]
    /\ latest = "A" /\ damage = 0
    /\ running = "factory" /\ wdt = "bootloader" /\ guard = "initial"
    /\ health = FALSE /\ page = "none" /\ ready = FALSE /\ alive = FALSE
    /\ phase = "idle" /\ target = "A" /\ received = 0 /\ open = FALSE

\* Platform's boot binding; \E covers a failed partition read.  A known-good image
\* hands the watchdog to the HealthSupervisor; a failure ends the program there.
BeginBoot ==
    /\ guard = "initial"
    /\ \E readable \in BOOLEAN :
        IF readable /\ KnownGood
        THEN guard' = "ready" /\ wdt' = "health" /\ health' = TRUE /\ alive' = TRUE
        ELSE LET trial == readable /\ PendingVerify /\ BootMatches IN
             /\ guard' = IF trial THEN "pending" ELSE "failed"
             /\ alive' = trial
             /\ wdt' = "trial" /\ UNCHANGED health
    /\ UNCHANGED <<flash, running, page, ready, update>>

\* BootGuard::ConfirmBoot on a trial.  The deadline may have passed, the read or
\* the write of the record may fail, and a failed write may still have landed;
\* only a reported success releases the watchdog.
ConfirmTrial ==
    \E written, reported \in BOOLEAN :
        /\ reported => written
        /\ written => PendingVerify /\ BootMatches
        /\ ota' = IF written THEN [ota EXCEPT ![running] = "valid"] ELSE ota
        /\ IF reported
           THEN guard' = "ready" /\ wdt' = "health" /\ health' = TRUE
           ELSE guard' = "failed" /\ UNCHANGED <<wdt, health>>
        /\ ready' = reported /\ alive' = reported

ConfirmsBoot(p) == p = "home" /\ ~ready

\* The shell completes a frame.  A failed confirmation ends the shell, and a
\* known-good boot has nothing left to confirm.
ShowFrame(p) ==
    /\ alive /\ page' = p
    /\ IF ~ConfirmsBoot(p) THEN UNCHANGED <<ota, guard, wdt, health, ready, alive>>
       ELSE IF guard = "pending" THEN ConfirmTrial
       ELSE ready' = TRUE /\ UNCHANGED <<ota, guard, wdt, health, alive>>
    /\ UNCHANGED <<image, latest, damage, running, update>>

-----------------------------------------------------------------------------
(* One transfer at a time; every failure restarts it from offset zero.     *)

SelectUpdateTarget == guard = "ready" /\ KnownGood /\ BootMatches

FailFirmware == phase' = "failed" /\ open' = FALSE

BeginFirmware ==
    /\ alive /\ phase \in {"idle", "failed"}
    /\ SelectUpdateTarget
    /\ phase' = "receiving" /\ target' = Inactive(running) /\ received' = 0
    /\ UNCHANGED <<flash, boot, open>>

\* The first chunk selects the target again and opens the image.
Writable == open \/ (SelectUpdateTarget /\ target = Inactive(running))

\* The slot is partial until its last chunk leaves the image intact in flash; a
\* failure may come before the first erase.
WriteFirmwareChunk ==
    /\ alive /\ phase = "receiving" /\ received < Chunks
    /\ \/ /\ Writable
          /\ \E content \in {"partial", "whole"} :
                /\ content = "whole" => received + 1 = Chunks
                /\ image' = [image EXCEPT ![target] = content]
          /\ received' = received + 1 /\ open' = TRUE
          /\ UNCHANGED phase
       \/ /\ \E touched \in BOOLEAN :
                /\ touched => Writable
                /\ image' = IF touched THEN [image EXCEPT ![target] = "partial"] ELSE image
          /\ FailFirmware
          /\ UNCHANGED received
    /\ UNCHANGED <<ota, latest, damage, boot, target>>

\* CommitImage's read-back accepts whole images only, and its last call may
\* report an error after the selection has been recorded.
CommitFirmware ==
    /\ alive /\ phase = "receiving" /\ received = Chunks
    /\ \E recorded, reported \in BOOLEAN :
        /\ reported => recorded
        /\ recorded => SelectUpdateTarget /\ image[target] = "whole"
        /\ IF recorded
           THEN ota' = [ota EXCEPT ![target] = "new"] /\ latest' = target
           ELSE UNCHANGED <<ota, latest>>
        /\ IF reported THEN phase' = "committed" /\ open' = FALSE ELSE FailFirmware
    /\ UNCHANGED <<image, damage, boot, target, received>>

\* A committed selection stands; anything else is dropped.
Aborted ==
    /\ open' = FALSE
    /\ IF phase = "committed" THEN UNCHANGED <<phase, target, received>>
       ELSE phase' = "idle" /\ target' = "A" /\ received' = 0

AbortFirmware ==
    /\ alive /\ phase \in {"receiving", "failed"}
    /\ Aborted
    /\ UNCHANGED <<flash, boot>>

\* Reboot and Shutdown stop the services, then release the runtime watchdog only.
DisarmForPowerTransition ==
    /\ health' = FALSE
    /\ wdt' = IF health THEN "off" ELSE wdt

PowerTransition ==
    /\ alive /\ alive' = FALSE
    /\ Aborted
    /\ DisarmForPowerTransition
    /\ UNCHANGED <<flash, running, guard, page, ready>>

-----------------------------------------------------------------------------
Reset == Bootloader

\* The watchdog of an unconfirmed boot is never fed, so it does fire.
TrialExpires == wdt \in {"bootloader", "trial"} /\ Bootloader

\* Flash loses a whole image that is not the one in use.
Damage(s) ==
    /\ damage < MaxDamage /\ s # running /\ image[s] = "whole"
    /\ damage' = damage + 1 /\ image' = [image EXCEPT ![s] = "damaged"]
    /\ UNCHANGED <<ota, latest, boot, update>>

Next ==
    \/ BeginBoot
    \/ \E p \in {"home", "other"} : ShowFrame(p)
    \/ BeginFirmware \/ WriteFirmwareChunk \/ CommitFirmware \/ AbortFirmware
    \/ PowerTransition \/ Reset \/ TrialExpires
    \/ \E s \in Ota : Damage(s)

Spec == Init /\ [][Next]_vars

\* Time passes: a deadline that nobody extends is met.
FairSpec == Spec /\ WF_vars(TrialExpires)

-----------------------------------------------------------------------------
(* Properties                                                              *)

\* Power may be cut at any point of a transfer: neither the image in use nor the
\* one the next boot will choose is ever half-written.  A commit that fails after
\* its selection was recorded must not let the retry erase the scheduled image.
SelectedNeverPartial ==
    /\ image[running] # "partial"
    /\ image[Selected(ota, latest)] # "partial"

\* From reset until the running image is known good its reset deadline stays
\* armed and is not traded for a watchdog that frames can feed: a failed read,
\* a failed confirmation, a stopped service or a power transition keep it.
TrialProtected == ~KnownGood => wdt \in {"bootloader", "trial"} /\ ~health

\* Only the image in use becomes valid, out of its own trial, by a Home frame of
\* that boot; a recovery page or a fallback to another slot never confirms one.
ConfirmedByItsHome ==
    [][\A s \in Ota : ota[s] # "valid" /\ ota'[s] = "valid" =>
            s = running /\ ota[s] = "pending" /\ page' = "home"]_vars

\* Whatever hangs or fails, an unproven image does not stay: it is confirmed or
\* the device comes back on one that is known good.  A lost image voids this: the
\* bootloader may then load a slot that was given up, again and again.
TrialEnds == ~KnownGood ~> KnownGood \/ \E s \in Ota : image[s] = "damaged"
=============================================================================
