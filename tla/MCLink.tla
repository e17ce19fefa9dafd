-------------------------------- MODULE MCLink --------------------------------
(* Who may talk to the Note4, and what is kept of what it is told: a phone *)
(* that enrolls, a person at the cable, an update in the phone's queue, a  *)
(* reply in its buffer, an image on the panel; each on its own.            *)
EXTENDS Pairing, DurableQueue, TLC

CONSTANTS
    Images, Resting,
    Reads, Writes, Patience, Deadline,      \* of the console
    MaxTickets, MaxPrompts, MaxTyped

VARIABLE part   \* the component that moves
VARIABLES mUsb, mRx, mPc, mCli, mExec, mSlot, mOwner, mStop, mFresh, mEffects, mTold
VARIABLES hReply, hTaken, hHttp, hParser
VARIABLES dPanel, dDisplay, dUi, dStep

ConsoleVars == <<mUsb, mRx, mPc, mCli, mExec, mSlot, mOwner, mStop, mFresh, mEffects,
                 mTold>>
HttpVars == <<hReply, hTaken, hHttp, hParser>>
PanelVars == <<dPanel, dDisplay, dUi, dStep>>

\* One part moves, so that phones, values and images may be the same two.
Alike == Permutations(Phones \cup Values \cup Images)

ASSUME QueueConstants == StoreConstants

\* The console at the cable.
Console == INSTANCE Maintenance WITH
    MaxTokens <- MaxPrompts, usb <- mUsb, rx <- mRx, pc <- mPc, cli <- mCli, exec <- mExec,
    slot <- mSlot, owner <- mOwner, stop <- mStop, fresh <- mFresh, effects <- mEffects,
    told <- mTold

\* Bodies around the capacity and a header budget of three lines.
Http == INSTANCE WifiHttp WITH
    Capacity <- 2, Budget <- 3, MaxBody <- 3, reply <- hReply, taken <- hTaken,
    http <- hHttp, parser <- hParser

\* A panel that shows two images, gray, or something torn.
Panel == INSTANCE Display WITH
    Images <- Images, Gray <- "gray", Torn <- "torn", None <- NoValue, panel <- dPanel,
    display <- dDisplay, ui <- dUi, step <- dStep

\* A command looks or changes something, and its name is none of the other words.
ASSUME ConsoleConstants ==
    /\ Reads \cap Writes = {}
    /\ (Reads \cup Writes) \cap {"follow", "host", "enter", "break", "confirm", "frame"} = {}
    /\ None \notin [op : Reads \cup Writes \cup {None}, ticket : 0 .. MaxTickets]
    /\ {Patience, Deadline, MaxTickets, MaxPrompts} \subseteq Nat

Parts == {"pairing", "console", "queue", "http", "panel"}

ConsoleOff == mUsb = Resting /\ mRx = Resting /\ mPc = Resting /\ mCli = Resting /\ mExec = Resting /\
              mSlot = Resting /\ mOwner = Resting /\ mStop = Resting /\ mFresh = Resting /\ mEffects = Resting
              /\ mTold = Resting

HttpOff == hReply = Resting /\ hTaken = Resting /\ hHttp = Resting /\ hParser = Resting

PanelOff == dPanel = Resting /\ dDisplay = Resting /\ dUi = Resting /\ dStep = Resting

\* Every component starts as it does; one of them then moves.
MCInit ==
    /\ part \in Parts
    /\ PairingInit
    /\ Init
    /\ part # "queue" => file = NoFile
    /\ IF part = "console" THEN Console!Init ELSE ConsoleOff
    /\ IF part = "http" THEN Http!Init ELSE HttpOff
    /\ IF part = "panel" THEN Panel!Init ELSE PanelOff

MCNext ==
    /\ UNCHANGED part
    /\ IF part = "pairing" THEN PairingNext ELSE UNCHANGED pairingVars
    /\ IF part = "console" THEN Console!Next ELSE UNCHANGED ConsoleVars
    /\ IF part = "queue" THEN Next ELSE UNCHANGED vars
    /\ IF part = "http" THEN Http!Next ELSE UNCHANGED HttpVars
    /\ IF part = "panel" THEN Panel!Next ELSE UNCHANGED PanelVars

mcVars == <<part, pairingVars, ConsoleVars, vars, HttpVars, PanelVars>>

MCSpec ==
    /\ MCInit /\ [][MCNext]_mcVars

-----------------------------------------------------------------------------
(* The console says of a command what became of it, and what is typed is   *)
(* its own line (note4_cli_control.cc, terminal.cc).                       *)
ConsoleSound == part = "console" => Console!ToldTruly /\ Console!LineIsOwn

(* An interrupt is never said to have come before a change that was made   *)
(* and reported (docs/MAINTENANCE_CLI_CONTRACT.md:396); see CancelIsCertain.*)
CancelCertain == part = "console" => Console!CancelIsCertain

(* Nothing is changed that was not confirmed by its own token              *)
(* (note4_cli_control.cc).                                                 *)
ConfirmedOnly == [][part = "console" => Console!ConfirmedStep]_ConsoleVars

(* A reply that counts as ready is whole and a plain 200, and a clock      *)
(* sample comes from its own Date (note4_wifi_http.cc).                    *)
ReplyIsWhole == part = "http" => Http!ReadyIsWhole /\ Http!ClockIsOwn

(* After a failed or partial refresh no image is taken for what the panel  *)
(* holds, and nothing stale is left behind (note4_display_service.cc).     *)
PanelSound == part = "panel" => Panel!PanelKnown /\ Panel!NothingStale

(* A frame that is reported as presented is on the glass, and a partial    *)
(* refresh keeps the layout its baseline was made for                      *)
(* (note4_display_service.cc).                                             *)
PresentedIsShown ==
    [][part = "panel" => Panel!ShowsPresented /\ Panel!KeepsLayout]_PanelVars

=============================================================================
