------------------------------- MODULE MCDevice -------------------------------
(* What the device begins by itself it ends, and what it borrows it gives  *)
(* back: every component on its own.                                       *)
EXTENDS FirmwareUpdate, Integers, TLC

CONSTANTS
    NoValue, Torn, Resting,
    Limit, RtcAttempts, FieldPolls, Rounds,             \* of the self test
    Times, Offsets, Legacy, Passes, Hold, Life, Retry,  \* of the clock
    MaxFaults,                                          \* of either, and of pairing
    Ids, Bodies, Pages, Capacity, MaxSize, MaxAir,      \* of the gateway
    MaxTransient, MaxDown,
    Apps, Launcher, NoApp, FailureLimit, MaxBurst,      \* of the shell
    Keys, Values, MaxRevision, MaxLosses                \* of the two peers

VARIABLE part   \* the component that moves
VARIABLES aS, aBroken, aQuiet
VARIABLES tPage, tState, tRun, tHw, tDone, tFaults
VARIABLES cChip, cSetting, cClock, cStatus, cSync, cLocal, cRetry, cSample, cPc, cFaults
VARIABLES gUp, gAsk, gAnswer, gToPhone, gToNote, gDedupe, gTasks, gTransient, gDown
VARIABLES pNfc, pTag, pBoot, pPub, pTask, pLink, pBonds, pFlash, pOwner, pAuthd, pHello,
          pAck, pPhone, pEnrolled, pDrawn, pUses, pFaults, pForgets, pTaps
VARIABLES eMem, eDisk, eOwner, eSess, eLink, eAir, eFaults, eForgot

ShellVars == <<aS, aBroken, aQuiet>>
TestVars == <<tPage, tState, tRun, tHw, tDone, tFaults>>
ClockVars == <<cChip, cSetting, cClock, cStatus, cSync, cLocal, cRetry, cSample, cPc,
               cFaults>>
GateVars == <<gUp, gAsk, gAnswer, gToPhone, gToNote, gDedupe, gTasks, gTransient, gDown>>
PairVars == <<pNfc, pTag, pBoot, pPub, pTask, pLink, pBonds, pFlash, pOwner, pAuthd,
              pHello, pAck, pPhone, pEnrolled, pDrawn, pUses, pFaults, pForgets, pTaps>>
PeerVars == <<eMem, eDisk, eOwner, eSess, eLink, eAir, eFaults, eForgot>>

\* The application shell.
Shell == INSTANCE AppShell WITH s <- aS, broken <- aBroken, quiet <- aQuiet

ASSUME ShellConstants == NoApp \notin Apps \cup {Launcher} /\ MaxBurst \in Nat \ {0}

\* The self test.
Test == INSTANCE SelfTest WITH
    page <- tPage, state <- tState, run <- tRun, hw <- tHw, done <- tDone,
    faults <- tFaults

\* The clock, with a settings store whose failed write has written nothing.
Clock == INSTANCE TimeKeeping WITH
    None <- NoValue, FailedSaves <- "nothing", Step <- Passes,
    chip <- cChip, setting <- cSetting, clock <- cClock, status <- cStatus, sync <- cSync,
    local <- cLocal, retry <- cRetry, sample <- cSample, pc <- cPc, faults <- cFaults

ASSUME ClockConstants ==
    Times \subseteq Int /\ Offsets \subseteq Int /\ Legacy \in Int /\ {NoValue, Torn} \cap Int = {}

ASSUME TestConstants == Limit \in Nat /\ RtcAttempts \in Nat

\* Two requests, one of which has no room for the page.
SomeBodies == {[max |-> 1], [max |-> 2]}
SomePages == {[ok |-> TRUE, text |-> TRUE, size |-> 2, utf8 |-> TRUE]}

\* The gateway.
Gate == INSTANCE Gateway WITH
    None <- NoValue,
    up <- gUp, ask <- gAsk, answer <- gAnswer, toPhone <- gToPhone, toNote <- gToNote,
    dedupe <- gDedupe, tasks <- gTasks, transient <- gTransient, down <- gDown

ASSUME GateConstants ==
    (\A b \in Bodies : b.max \in Nat) /\ (\A p \in Pages : p.size \in Nat)

\* One phone in front of the tag; the one trusted before may be forgotten.
Pair == INSTANCE Pairing WITH
    Phones <- {"phone"}, None <- NoValue, MaxTokens <- 2, MaxForgets <- 1, MaxTaps <- 1, nfc <- pNfc, tag <- pTag, boot <- pBoot, pub <- pPub,
    task <- pTask, link <- pLink, bonds <- pBonds, flash <- pFlash, owner <- pOwner,
    authd <- pAuthd, hello <- pHello, ack <- pAck, phone <- pPhone, enrolled <- pEnrolled,
    drawn <- pDrawn, uses <- pUses, faults <- pFaults, forgets <- pForgets, taps <- pTaps

\* A Note4 and its phone; each side publishes once.
Peers == INSTANCE CompanionSync WITH
    Capacity <- 1, MaxAttempts <- 3, MaxPut <- [s \in {"note4", "phone"} |-> 1],
    MaxFaults <- MaxLosses, MaxInFlight <- 2, Prompt <- TRUE, mem <- eMem, disk <- eDisk,
    owner <- eOwner, sess <- eSess, link <- eLink, air <- eAir, faults <- eFaults,
    forgot <- eForgot

Parts == {"firmware", "shell", "test", "clock", "gateway", "pairing", "peers"}

ShellOff == aS = Resting /\ aBroken = Resting /\ aQuiet = Resting

TestOff == tPage = Resting /\ tState = Resting /\ tRun = Resting /\ tHw = Resting /\ tDone = Resting /\
           tFaults = Resting

ClockOff == cChip = Resting /\ cSetting = Resting /\ cClock = Resting /\ cStatus = Resting /\ cSync = Resting
            /\ cLocal = Resting /\ cRetry = Resting /\ cSample = Resting /\ cPc = Resting /\ cFaults = Resting

GateOff == gUp = Resting /\ gAsk = Resting /\ gAnswer = Resting /\ gToPhone = Resting /\ gToNote = Resting /\
           gDedupe = Resting /\ gTasks = Resting /\ gTransient = Resting /\ gDown = Resting

PairOff == pNfc = Resting /\ pTag = Resting /\ pBoot = Resting /\ pPub = Resting /\ pTask = Resting /\
           pLink = Resting /\ pBonds = Resting /\ pFlash = Resting /\ pOwner = Resting /\ pAuthd = Resting /\
           pHello = Resting /\ pAck = Resting /\ pPhone = Resting /\ pEnrolled = Resting /\ pDrawn = Resting
           /\ pUses = Resting /\ pFaults = Resting /\ pForgets = Resting /\ pTaps = Resting

PeersOff == eMem = Resting /\ eDisk = Resting /\ eOwner = Resting /\ eSess = Resting /\
            eLink = Resting /\ eAir = Resting /\ eFaults = Resting /\ eForgot = Resting

\* Progress is promised while the Note4 keeps its phone (CompanionSync FairSpec).
Paired == Peers!Paired /\ UNCHANGED eForgot

\* Every component starts as it does; one of them then moves.
MCInit ==
    /\ part \in Parts
    /\ Init
    /\ IF part = "shell" THEN Shell!Init ELSE ShellOff
    /\ IF part = "test" THEN Test!Init ELSE TestOff
    /\ IF part = "clock" THEN Clock!Init ELSE ClockOff
    /\ IF part = "gateway" THEN Gate!Init ELSE GateOff
    /\ IF part = "pairing" THEN Pair!PairingInit ELSE PairOff
    /\ IF part = "peers" THEN Peers!Init ELSE PeersOff

MCNext ==
    /\ UNCHANGED part
    /\ IF part = "firmware" THEN Next ELSE UNCHANGED vars
    /\ IF part = "shell" THEN Shell!Next ELSE UNCHANGED ShellVars
    /\ IF part = "test" THEN Test!Next ELSE UNCHANGED TestVars
    /\ IF part = "clock" THEN Clock!Next ELSE UNCHANGED ClockVars
    /\ IF part = "gateway" THEN Gate!Next ELSE UNCHANGED GateVars
    /\ IF part = "pairing" THEN Pair!PairingNext ELSE UNCHANGED PairVars
    /\ IF part = "peers" THEN Paired ELSE UNCHANGED PeerVars

mcVars == <<part, vars, ShellVars, TestVars, ClockVars, GateVars, PairVars, PeerVars>>

Fair1 ==
    /\ \/ part = "firmware" /\ TrialExpires
       \/ part = "shell" /\ Shell!Start
       \/ part = "test" /\ Test!Step
       \/ part = "clock" /\ Clock!Loop
       \/ part = "gateway" /\ Gate!Note4
       \/ part = "pairing" /\ Pair!TaskGoesOn
    /\ UNCHANGED part

Fair2 ==
    /\ \/ part = "shell" /\ Shell!LoopIdle
       \/ part = "test" /\ Test!PlayerEnds
       \/ part = "clock" /\ Clock!Tick
       \/ part = "gateway" /\ Gate!Connected
       \/ part = "pairing" /\ Pair!FieldTask
    /\ UNCHANGED part

Fair3 ==
    /\ \/ part = "gateway" /\ Gate!Handle
       \/ part = "pairing" /\ Pair!RetryComes
    /\ UNCHANGED part

Fair4 ==
    /\ part = "gateway" /\ Gate!FetchEnds
    /\ UNCHANGED part

\* What the moving component consists of.
moving ==
    CASE part = "firmware" -> vars
      [] part = "shell" -> ShellVars
      [] part = "test" -> TestVars
      [] part = "clock" -> ClockVars
      [] part = "gateway" -> GateVars
      [] part = "pairing" -> PairVars
      [] part = "peers" -> PeerVars

\* A step of the two peers.
Together(action) == part = "peers" /\ action /\ UNCHANGED <<part, eForgot>>

\* CompanionSync Fairness.
PeersGoOn ==
    /\ \A s \in Peers!Sides :
        /\ WF_moving(Together(Peers!PollReply(s))) /\ WF_moving(Together(Peers!PollAdmit(s)))
        /\ WF_moving(Together(Peers!PollRetry(s))) /\ WF_moving(Together(Peers!ReceiveReply(s)))
        /\ WF_moving(Together(Peers!ReceiveState(s))) /\ WF_moving(Together(Peers!Ignore(s)))
        /\ WF_moving(Together(Peers!HangUp(s)))
        /\ WF_moving(Together(Peers!NoticeDisconnect(s)))
    /\ WF_moving(Together(Peers!Connect)) /\ WF_moving(Together(Peers!ReceiveHello))
    /\ WF_moving(Together(Peers!ReceiveHelloAck))
    /\ \A k \in Keys : WF_moving(Together(Peers!ReaderPublishes(k)))

MCSpec ==
    /\ MCInit /\ [][MCNext]_mcVars
    /\ WF_moving(Fair1)
    /\ WF_moving(Fair2)
    /\ WF_moving(Fair3)
    /\ WF_moving(Fair4)
    /\ PeersGoOn

-----------------------------------------------------------------------------
(* Whatever a launch does to the scene stack, the supervisor and the       *)
(* input, there is one owner of the screen (note4_application_runtime.cc,  *)
(* note4_launcher.cc).                                                     *)
OneOwner == part = "shell" => Shell!OneOwner

(* No application opens by itself while the user is told of an error or    *)
(* after a crash (note4_application_runtime.cc).                           *)
NoAutomaticAfterError ==
    [][part = "shell" => (aS'.automatic => ~aS.error /\ ~aS.suppressed)]_aS

(* A test that ends gives back what it borrowed, and no round leaves its   *)
(* player behind (note4_self_test.cc).                                     *)
TestGivesBack == part = "test" => Test!GivenBack /\ Test!PlayerJoined

(* What the clock shows was somebody's time, and what is reported as saved *)
(* is in the chip and in the settings (note4_time_service.cc).             *)
ClockIsTrue == part = "clock" => Clock!ClockWasSet /\ Clock!SavedIsThere

(* The Note4 takes only the answer of the request it asks, and the gateway *)
(* fetches a repeated request once (note4_connectivity_service.cc,         *)
(* PhoneResourceGateway.kt).                                               *)
AnswersAreOwn == part = "gateway" => Gate!AnswerIsOwn /\ Gate!OneFetch

(* What each component has begun ends without anybody's help: a trial      *)
(* boot, a launch, a test run, a time that waits to be saved, a request to *)
(* the phone; and a tag out of the field comes to hold a live token.       *)
NothingHangs ==
    \/ part = "firmware" /\ ~KnownGood
    \/ part = "shell" /\ aQuiet /\ aS.opening # NoApp
    \/ part = "test" /\ tRun # Test!NoRun
    \/ part = "clock" /\ cStatus.pending
    \/ part = "gateway" /\ gAsk # NoValue
    \/ part = "pairing"
  ~>
    \/ part = "firmware" /\ (KnownGood \/ \E s \in Ota : image[s] = "damaged")
    \/ part = "shell" /\ aS.opening = NoApp
    \/ part = "test" /\ tRun = Test!NoRun
    \/ part = "clock" /\ ~cStatus.pending
    \/ part = "gateway" /\ gAsk = NoValue
    \/ part = "pairing" /\ Pair!TagIsReady

(* An application that cannot draw does not keep the screen, whatever keys *)
(* are pressed (note4_application_runtime.cc, the supervisor).             *)
BrokenLeaves ==
    part = "shell" /\ aS.fg \in aBroken /\ aS.render = "current"
        ~> part = "shell" /\ (aS.fg \notin aBroken \/ aS.render = "none")

(* Every pending update is eventually applied at the other side, in this   *)
(* or a newer revision (note4_sync_session.cc, CompanionSyncSession.kt).   *)
Delivered ==
    \A s \in Peers!Sides, k \in Keys, r \in Peers!Revisions \ {0} :
        part = "peers" /\ eMem[s][k].pend = r
            ~> part = "peers" /\ eDisk[Peers!Peer(s)][k].app >= r

(* After the last publication and the last fault both sides converge for   *)
(* good, so the phone shows READY and resource requests are admitted.      *)
EventuallyConverged ==
    <>[](part = "peers" => \A s \in Peers!Sides : Peers!Converged(s))

=============================================================================
