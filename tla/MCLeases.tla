------------------------------- MODULE MCLeases -------------------------------
(* What is lent and given back: the books, to the computer's cable or to   *)
(* the browser, and a received frame, to the session task; each on its     *)
(* own.                                                                    *)
EXTENDS SessionOwner, TLC

CONSTANTS
    NoValue, Resting,
    Books, Attempts, Chunks, Wrap, StartupFor, IdleFor, AfterUploadFor, SessionFor, FinishFor,
    MaxLag, StartsAt, MaxStops, \* of the transfer over Wi-Fi
    CableChunks, CableSessions, MaxLine     \* of the computer's book manager

VARIABLE part   \* the component that moves
VARIABLES hClient, hToDevice, hToHost, hProto, hChan, hSess, hStore, hOther, hRemoval
VARIABLES wNow, wXfer, wPoll, wRadio, wApi, wReq, wStore, wPhone, wKept, wFaults

HostVars == <<hClient, hToDevice, hToHost, hProto, hChan, hSess, hStore, hOther, hRemoval>>
WebVars == <<wNow, wXfer, wPoll, wRadio, wApi, wReq, wStore, wPhone, wKept, wFaults>>

\* The book manager of the computer.
Cable == INSTANCE HostBooks WITH
    Chunks <- CableChunks, MaxSessions <- CableSessions, None <- NoValue,
    client <- hClient, toDevice <- hToDevice, toHost <- hToHost, proto <- hProto,
    chan <- hChan, sess <- hSess, store <- hStore, other <- hOther,
    removal <- hRemoval

\* The transfer over Wi-Fi.
Web == INSTANCE BookTransfer WITH
    MaxFaults <- MaxStops, None <- NoValue, now <- wNow, xfer <- wXfer, poll <- wPoll,
    radio <- wRadio, api <- wApi, req <- wReq, store <- wStore, phone <- wPhone,
    kept <- wKept, faults <- wFaults

ASSUME OwnerBounds == OwnerConstants

\* A session is shorter than the clock, with the time its polls may be late.
ASSUME WebConstants ==
    /\ NoValue \notin Attempts \cup Books /\ Chunks \in Nat \ {0} /\ MaxStops \in Nat
    /\ Wrap \in Nat \ {0} /\ StartsAt \in 0..(Wrap - 1) /\ MaxLag \in Nat
    /\ SessionFor \in Nat \ {0} /\ SessionFor + 2 * MaxLag <= Wrap
    /\ AfterUploadFor \in Nat \ {0} /\ IdleFor \in Nat /\ AfterUploadFor <= IdleFor
    /\ {StartupFor, FinishFor} \subseteq Nat

\* No value is not a content of a file.
ASSUME CableConstants ==
    /\ Books # {} /\ NoValue \notin Seq(Attempts)
    /\ CableChunks \in Nat \ {0} /\ CableSessions \in Nat /\ MaxLine \in Nat

Parts == {"owner", "host", "transfer"}

HostOff == hClient = Resting /\ hToDevice = Resting /\ hToHost = Resting /\ hProto = Resting /\
           hChan = Resting /\ hSess = Resting /\ hStore = Resting /\ hOther = Resting /\
           hRemoval = Resting

WebOff == wNow = Resting /\ wXfer = Resting /\ wPoll = Resting /\ wRadio = Resting /\ wApi = Resting /\
          wReq = Resting /\ wStore = Resting /\ wPhone = Resting /\ wKept = Resting /\ wFaults = Resting

\* Every component starts as it does; one of them then moves.
MCInit ==
    /\ part \in Parts
    /\ Init
    /\ IF part = "host" THEN Cable!Init ELSE HostOff
    /\ IF part = "transfer" THEN Web!Init ELSE WebOff

MCNext ==
    /\ UNCHANGED part
    /\ IF part = "owner" THEN Next ELSE UNCHANGED vars
    /\ IF part = "host" THEN Cable!Next ELSE UNCHANGED HostVars
    /\ IF part = "transfer" THEN Web!Next ELSE UNCHANGED WebVars

mcVars == <<part, vars, HostVars, WebVars>>

Fair1 ==
    /\ \/ part = "owner" /\ Task
       \/ part = "host" /\ Cable!TakeReply
       \/ part = "transfer" /\ Web!PollsOn
    /\ UNCHANGED part

Fair2 ==
    /\ \/ part = "owner" /\ GiveEvent
       \/ part = "host" /\ Cable!PollSession
       \/ part = "transfer" /\ Web!Handler
    /\ UNCHANGED part

Fair3 ==
    /\ \/ part = "owner" /\ Transmitted
       \/ part = "host" /\ Cable!Foreground
       \/ part = "transfer" /\ Web!Tick
    /\ UNCHANGED part

\* What the moving component consists of.
moving ==
    CASE part = "owner" -> vars
      [] part = "host" -> HostVars
      [] part = "transfer" -> WebVars

MCSpec ==
    /\ MCInit /\ [][MCNext]_mcVars
    /\ WF_moving(Fair1)
    /\ WF_moving(Fair2)
    /\ WF_moving(Fair3)

-----------------------------------------------------------------------------
(* A book in the library is whole and the one a request named, an outcome  *)
(* says what happened, and the store is given back (note4_book_service.cc, *)
(* the host's client and BookSession).                                     *)
BooksSound ==
    part = "host" => Cable!WholeBooks /\ Cable!OutcomeHonest /\ Cable!LeaseReturned

(* A handler works on the store under the transfer's lease only and what   *)
(* the browser is told is true (book_transfer.cc, BookWebApi).             *)
TransferSound == part = "transfer" => Web!HandlerHasLease /\ Web!OutcomeIsTrue

(* A transfer is stopped as idle only after the browser was quiet for its  *)
(* time, also when the clock wraps (BookTransfer.Poll).                    *)
IdleIsReal == [][part = "transfer" => Web!StopsWhenIdle]_WebVars

(* A request of the computer is answered or cancelled, a transfer ends     *)
(* with the radio off and the books given back, and a Hello is taken.      *)
RequestsEnd ==
    \/ part = "owner" /\ phone = "hello" /\ received # << >>
    \/ part = "host" /\ hProto.pending
    \/ part = "transfer" /\ Web!Busy
  ~>
    \/ part = "owner" /\ (phone # "hello" \/ received = << >>)
    \/ part = "host" /\ ~hProto.pending
    \/ part = "transfer" /\ ~Web!Busy /\ wRadio = "off" /\ ~wStore.managing

=============================================================================
