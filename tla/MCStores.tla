------------------------------- MODULE MCStores -------------------------------
(* What the Note4 keeps and what carries it: the durable store, whose      *)
(* slots run out with one key, a remote page over days of sleep, frames in *)
(* packets, the bytes of a payload, and the Wi-Fi radio; each on its own.  *)
EXTENDS SyncEngine, Integers, TLC

CONSTANTS
    Resting,
    Sources, Switches, Intervals, Day, QuietStart, QuietEnd, Life, Styles,  \* of the page
    MaxPages, MaxGeneration, MaxPageFaults,
    Drivers, Queries, Netifs, MaxSessions, MaxEvents    \* of the Wi-Fi driver

VARIABLE part   \* the component that moves
VARIABLES ePhase, eConf, eDue, eCache, eRam, eSync, eRadio, eEnv, eScreen, eSeen, eFaults
VARIABLES fSession, fNote, fHand, fReply, fPhone, fAir, fLog, fFaults
VARIABLES cKind, cValue, cFields, cCut, cEdits
VARIABLES wDriver, wClaim, wRadio, wEvents, wQuery, wSessions, wLeased, wShared

PageVars == <<ePhase, eConf, eDue, eCache, eRam, eSync, eRadio, eEnv, eScreen, eSeen, eFaults>>
FrameVars == <<fSession, fNote, fHand, fReply, fPhone, fAir, fLog, fFaults>>
CodecsVars == <<cKind, cValue, cFields, cCut, cEdits>>
WifiVars == <<wDriver, wClaim, wRadio, wEvents, wQuery, wSessions, wLeased, wShared>>

Symmetric == Permutations(Keys) \cup Permutations(Values)

Switchings == {[enabled |-> b, show |-> TRUE] : b \in BOOLEAN}

\* The remote page.
Page == INSTANCE EdgePage WITH
    MaxRevision <- MaxPages, MaxFaults <- MaxPageFaults, None <- NoValue,
    phase <- ePhase, conf <- eConf, due <- eDue, cache <- eCache, ram <- eRam, sync <- eSync,
    radio <- eRadio, env <- eEnv, screen <- eScreen, seen <- eSeen, faults <- eFaults

\* Frames of three packets, two once the MTU is agreed, ids that wrap after two, a queue of one.
Frame == INSTANCE Frames WITH
    Sizes <- {1}, Header <- 2, Small <- 1, Large <- 2, MaxId <- 2, Queue <- 1,
    MaxQueued <- 3, MtuFails <- FALSE, MaxSessions <- 2, MaxSends <- 3, MaxFaults <- 2,
    None <- NoValue, session <- fSession, note <- fNote, hand <- fHand, reply <- fReply,
    phone <- fPhone, air <- fAir, log <- fLog, faults <- fFaults

SomeRequests == [capability : {7}, maximum : {3}, timeout : {1, 9}, cache : {200}, durable : {TRUE}]
SomeResponses ==
    [status : {0}, content : {1}, body : {<<2>>, <<1, 0, 3>>}, retry : {0}]
      \cup [status : {1, 2}, content : {0}, body : {<< >>}, retry : {0, 130}]
SomeClocks == [unix : {0, 5, 127}, offset : {-14, -1, 0, 14}]
\* Bytes of four values, so that a word ends at 15 and a long at 255.
Codecs == INSTANCE Codec WITH
    Base <- 4, MaxBytes <- 8, MaxFields <- 6, MinTimeout <- 1, MaxTimeout <- 9,
    Requests <- SomeRequests, Responses <- SomeResponses, MaxOffset <- 14,
    Clocks <- SomeClocks, LastStatus <- 2, IdBytes <- 2, Malformed <- Resting, MaxEdits <- 2,
    kind <- cKind, value <- cValue, fields <- cFields, cut <- cCut, edits <- cEdits

\* Drivers that take the radio in turn.
Wifi == INSTANCE WifiDriver WITH
    None <- NoValue, driver <- wDriver, claim <- wClaim, radio <- wRadio,
    events <- wEvents, query <- wQuery, sessions <- wSessions, leased <- wLeased, shared <- wShared

ASSUME EngineConstants == StoreConstants
ASSUME PageConstants ==
    /\ Page!EdgeConstants
    /\ NoValue \notin Nat /\ NoValue \notin Page!Pages
    /\ MaxPages \in Nat /\ MaxGeneration \in Nat \ {0} /\ MaxPageFaults \in Nat
ASSUME WifiConstants == NoValue \notin Queries \cup Netifs /\ MaxSessions \in Nat

Parts == {"engine", "page", "frames", "codec", "wifi"}

PageOff == ePhase = Resting /\ eConf = Resting /\ eDue = Resting /\ eCache = Resting /\ eRam = Resting
           /\ eSync = Resting /\ eRadio = Resting /\ eEnv = Resting /\ eScreen = Resting
           /\ eSeen = Resting /\ eFaults = Resting

FrameOff == fSession = Resting /\ fNote = Resting /\ fHand = Resting /\ fReply = Resting /\ fPhone = Resting
            /\ fAir = Resting /\ fLog = Resting /\ fFaults = Resting

CodecsOff == cKind = Resting /\ cValue = Resting /\ cFields = Resting /\ cCut = Resting /\ cEdits = Resting

WifiOff == wDriver = Resting /\ wClaim = Resting /\ wRadio = Resting /\ wEvents = Resting /\ wQuery = Resting
           /\ wSessions = Resting /\ wLeased = Resting /\ wShared = Resting

\* Every component starts as it does; one of them then moves.
MCInit ==
    /\ part \in Parts
    /\ Init
    /\ part # "engine" => disk = NoRecord
    /\ IF part = "page" THEN Page!Init ELSE PageOff
    /\ IF part = "frames" THEN Frame!Init ELSE FrameOff
    /\ IF part = "codec" THEN Codecs!Init ELSE CodecsOff
    /\ IF part = "wifi" THEN Wifi!Init ELSE WifiOff

MCNext ==
    /\ UNCHANGED part
    /\ IF part = "engine" THEN Next ELSE UNCHANGED vars
    /\ IF part = "page" THEN Page!Next ELSE UNCHANGED PageVars
    /\ IF part = "frames" THEN Frame!Next ELSE UNCHANGED FrameVars
    /\ IF part = "codec" THEN Codecs!Next ELSE UNCHANGED CodecsVars
    /\ IF part = "wifi" THEN Wifi!Next ELSE UNCHANGED WifiVars

mcVars == <<part, vars, PageVars, FrameVars, CodecsVars, WifiVars>>

MCSpec ==
    /\ MCInit /\ [][MCNext]_mcVars

-----------------------------------------------------------------------------
(* What a sleeping device shows is true, and it wakes neither in a loop    *)
(* nor too late nor with two radios on (edge_display.cc,                   *)
(* note4_edge_settings.cc).                                                *)
PageSound == part = "page" => Page!PageSound

(* Once the cached page has expired the local lock screen takes its place  *)
(* (docs/CONNECTIVITY_CONFIGURATION.md:57); see EdgePage.                  *)
ExpiredPageLeaves == part = "page" => Page!ExpiredPageLeaves

(* A cached page makes room for a later one of its source only, or when it *)
(* cannot be read (edge_display.cc).                                       *)
PageForward == [][part = "page" => Page!GoesForward]_PageVars

(* Either end acts on whole frames of this session, in order and once, and *)
(* every frame whose last packet went out arrives (note4_ble_link.cc,      *)
(* BleGattClient.kt).                                                      *)
FramesArrive == part = "frames" => Frame!AcceptedIsOwn /\ Frame!WholeFramesArrive

(* The firmware and the phone read the same from the same bytes, whatever  *)
(* was edited on the way (note4_companion_protocol.cc,                     *)
(* CompanionProtocol.kt and the resource gateway's codecs).                *)
SameMeaning == part = "codec" => Codecs!SameMeaning

(* The radio has one owner, a query's memory outlives its callback, and an *)
(* address is of the session that asked, or of a left-over event that      *)
(* names the place where its interface is (note4_wifi_esp_driver.cc).      *)
RadioSound == part = "wifi" => Wifi!RadioOwned /\ Wifi!QueryHeld /\ Wifi!AddressIsReal

=============================================================================
