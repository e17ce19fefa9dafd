---------------------------- MODULE SessionOwner ----------------------------
(***************************************************************************)
(* ConnectivityService's session task against its BleLink.  The NimBLE     *)
(* host callbacks change the link and queue frames under the link lock and *)
(* then give session_event; the task reads snapshots of the link, so a     *)
(* disconnect and a new connection may fall between any two of its steps.  *)
(* Frames are what the task tells apart: a Hello or durable traffic of the *)
(* phone, and a HelloAck or durable traffic of the Note4.                  *)
(***************************************************************************)
EXTENDS Naturals, Sequences

CONSTANTS
    QueueCapacity,  \* kReceivedQueueCapacity, 2 in the code
    MaxSessions,    \* bound: connections
    MaxTraffic      \* bound: durable frames the phone writes

\* What is asked of the constants; the instance assumes it.
OwnerConstants == QueueCapacity \in Nat \ {0} /\ MaxSessions \in Nat /\ MaxTraffic \in Nat

VARIABLES
    \* BleLink, under its lock
    session,        \* session_id
    state,          \* kIdle .. kAdvertising, kConnected.., kTransportReady
    received,       \* the received frames, oldest first
    borrowed,       \* received_borrowed
    discard,        \* discard_received_after_release
    tx,             \* the frame being transmitted
    event,          \* session_event
    owing,          \* a callback released the lock and has yet to give the event
    \* the session task
    pc, snap, frame,
    protocolSession, negotiated,    \* protocol_session_id, protocol_negotiated_local
    authorized, authSession,        \* peer_authorized, peer_authorized_session_id
    sync,           \* the session whose Hello started sync_session, 0 when it is not active
    \* the phone
    phone, traffic

link == <<session, state, received, borrowed, discard, tx>>
task == <<pc, snap, frame, protocolSession, negotiated, authorized, authSession, sync>>
vars == <<link, event, owing, task, phone, traffic>>

NoFrame == [session |-> 0, kind |-> "none"]
Frame == [session : 1..MaxSessions, kind : {"hello", "traffic"}]
Sent == [session : 1..MaxSessions, kind : {"accepted", "rejected", "traffic"}]
Inactive == 0

-----------------------------------------------------------------------------
(* Seeded faults, each with the property it breaks.                        *)

\* BorrowedFrameStays: a disconnect empties the queue under the task.
ClearReceivedQueueBorrowed == discard' = FALSE /\ received' = <<>>

-----------------------------------------------------------------------------
(* Link callbacks.                                                         *)

Connected ==
    /\ ~owing /\ state = "idle" /\ session < MaxSessions
    /\ session' = session + 1
    /\ state' = "connected" /\ phone' = "silent" /\ owing' = TRUE
    /\ UNCHANGED <<received, borrowed, discard, tx, event, task, traffic>>

\* Encryption and subscription are complete.
TransportReady ==
    /\ ~owing /\ state = "connected"
    /\ state' = "ready" /\ owing' = TRUE
    /\ UNCHANGED <<session, received, borrowed, discard, tx, event, task, phone, traffic>>

\* A borrowed frame keeps the queue until it is released.
ClearReceivedQueue ==
    IF borrowed THEN discard' = TRUE /\ UNCHANGED received
                ELSE discard' = FALSE /\ received' = <<>>

Disconnect ==
    /\ ~owing /\ state # "idle"
    /\ state' = "idle" /\ tx' = NoFrame /\ phone' = "gone"
    /\ ClearReceivedQueue
    /\ owing' = TRUE
    /\ UNCHANGED <<session, borrowed, event, task, traffic>>

\* Access: the phone's next complete frame; a write to a full queue fails.
Access(kind) ==
    /\ ~owing /\ state = "ready"
    /\ Len(received) < QueueCapacity
    /\ IF kind = "hello" THEN /\ phone = "silent" /\ phone' = "hello"
                              /\ UNCHANGED traffic
                         ELSE /\ phone = "synchronizing" /\ traffic < MaxTraffic
                              /\ traffic' = traffic + 1 /\ UNCHANGED phone
    /\ received' = Append(received, [session |-> session, kind |-> kind])
    /\ owing' = TRUE
    /\ UNCHANGED <<session, state, borrowed, discard, tx, event, task>>

GiveEvent ==
    /\ owing
    /\ owing' = FALSE /\ event' = TRUE
    /\ UNCHANGED <<link, task, phone, traffic>>

\* The transmission completes; a refused phone hangs up by itself.
Transmitted ==
    /\ ~owing /\ state = "ready" /\ tx # NoFrame
    /\ phone' = IF phone = "hello" /\ tx.kind = "accepted" THEN "synchronizing" ELSE phone
    /\ tx' = NoFrame
    /\ UNCHANGED <<session, state, received, borrowed, discard, event, owing, task, traffic>>

-----------------------------------------------------------------------------
(* SessionTask.                                                            *)

Current == [session |-> session, state |-> state]
IsCurrent(s) == state = "ready" /\ session = s    \* WithCurrentTransportSession

\* IsSessionPeerAuthorized of a snapshot.
PeerAuthorized == snap.state = "ready" /\ authorized /\ authSession = snap.session

\* The loop's first snapshot; a new session resets what the old one left.
LoopTop ==
    /\ pc = "top"
    /\ snap' = Current
    /\ IF session # protocolSession
       THEN protocolSession' = session /\ negotiated' = FALSE /\ sync' = Inactive
       ELSE UNCHANGED <<protocolSession, negotiated, sync>>
    /\ authorized' = (authorized /\ authSession = session)
    /\ pc' = "poll"
    /\ UNCHANGED <<link, event, owing, frame, authSession, phone, traffic>>

AfterPoll ==
    /\ negotiated' = (negotiated /\ snap.state = "ready")
    /\ pc' = IF snap.state = "ready" THEN "take" ELSE "wait"

Idle == UNCHANGED <<tx, authorized, sync>>

\* Durable traffic goes out unless the link changed or is still transmitting.
Transmit ==
    /\ IsCurrent(protocolSession) /\ tx = NoFrame
    /\ tx' = [session |-> session, kind |-> "traffic"]
    /\ UNCHANGED <<authorized, sync>>

\* A failed sync session loses its authorization and its connection.
SyncFailed ==
    /\ authorized' = FALSE /\ sync' = Inactive
    /\ UNCHANGED tx

PollResource ==
    /\ pc = "poll"
    /\ \/ Idle
       \/ PeerAuthorized /\ negotiated /\ sync # Inactive /\ (Transmit \/ SyncFailed)
    /\ AfterPoll
    /\ UNCHANGED <<session, state, received, borrowed, discard, event, owing, snap, frame,
                   protocolSession, authSession, phone, traffic>>

TakeReceivedFrame ==
    /\ pc = "take"
    /\ IF received = <<>>
       THEN pc' = "wait" /\ UNCHANGED <<borrowed, frame>>
       ELSE borrowed' = TRUE /\ frame' = Head(received) /\ pc' = "check"
    /\ UNCHANGED <<session, state, received, discard, tx, event, owing, snap, protocolSession,
                   negotiated, authorized, authSession, sync, phone, traffic>>

\* The second snapshot: a stale frame is released without being looked at.
CheckFrame ==
    /\ pc = "check"
    /\ snap' = Current
    /\ pc' = IF ~IsCurrent(frame.session) THEN "release"
             ELSE IF negotiated THEN "traffic"
             ELSE IF frame.kind = "hello" THEN "hello" ELSE "release"
    /\ UNCHANGED <<link, event, owing, frame, protocolSession, negotiated, authorized,
                   authSession, sync, phone, traffic>>

\* What SyncSession::Receive does with the frame is CompanionSync's; an error
\* there is the SyncFailed of a later poll.
ProcessSyncFrame ==
    /\ pc = "traffic"
    /\ pc' = "release"
    /\ UNCHANGED <<link, event, owing, snap, frame, protocolSession, negotiated, authorized,
                   authSession, sync, phone, traffic>>

\* ProcessHelloPayload: authorization under the link lock, or a refusal ...
AuthorizeHello ==
    /\ pc = "hello"
    /\ \/ /\ IsCurrent(frame.session)
          /\ authorized' = TRUE /\ authSession' = frame.session /\ pc' = "start"
       \/ authorized' = FALSE /\ UNCHANGED authSession /\ pc' = "reject"
    /\ UNCHANGED <<link, event, owing, snap, frame, protocolSession, negotiated, sync,
                   phone, traffic>>

\* ... then SyncSession::Start on the cursors of the Hello.
StartSync ==
    /\ pc = "start"
    /\ \/ sync' = frame.session /\ pc' = "accept" /\ UNCHANGED authorized
       \/ sync' = Inactive /\ authorized' = FALSE /\ pc' = "reject"
    /\ UNCHANGED <<link, event, owing, snap, frame, protocolSession, negotiated, authSession,
                   phone, traffic>>

ReleasedQueue ==
    /\ received' = IF discard THEN <<>> ELSE Tail(received)
    /\ borrowed' = FALSE /\ discard' = FALSE

\* ReleaseReceivedFrame, and for a Hello the answer after it.
ReleaseReceivedFrame ==
    /\ pc \in {"release", "accept", "reject"}
    /\ ReleasedQueue
    /\ pc' = CASE pc = "release" -> "top" [] pc = "accept" -> "ack" [] pc = "reject" -> "nack"
    /\ frame' = IF pc = "release" THEN NoFrame ELSE frame
    /\ UNCHANGED <<session, state, tx, event, owing, snap, protocolSession, negotiated,
                   authorized, authSession, sync, phone, traffic>>

\* The HelloAck is sent only into the session of its Hello.
SendHelloAck ==
    /\ pc \in {"ack", "nack"}
    /\ IF IsCurrent(frame.session) /\ tx = NoFrame
       THEN /\ tx' = [session |-> frame.session,
                      kind |-> IF pc = "ack" THEN "accepted" ELSE "rejected"]
            /\ negotiated' = (pc = "ack")
       ELSE UNCHANGED <<tx, negotiated>>
    /\ pc' = "top" /\ frame' = NoFrame
    /\ UNCHANGED <<session, state, received, borrowed, discard, event, owing, snap,
                   protocolSession, authorized, authSession, sync, phone, traffic>>

WaitForSessionEvent ==
    /\ pc = "wait" /\ event
    /\ event' = FALSE /\ pc' = "top"
    /\ UNCHANGED <<link, owing, snap, frame, protocolSession, negotiated, authorized,
                   authSession, sync, phone, traffic>>

-----------------------------------------------------------------------------
Init ==
    /\ session = 0 /\ state = "idle" /\ received = <<>> /\ borrowed = FALSE /\ discard = FALSE
    /\ tx = NoFrame /\ event = FALSE /\ owing = FALSE
    /\ pc = "top" /\ snap = Current /\ frame = NoFrame
    /\ protocolSession = 0 /\ negotiated = FALSE
    /\ authorized = FALSE /\ authSession = 0 /\ sync = Inactive
    /\ phone = "gone" /\ traffic = 0

Host ==
    \/ Connected \/ TransportReady \/ Disconnect \/ Transmitted
    \/ Access("hello") \/ Access("traffic")

Task ==
    \/ LoopTop \/ PollResource \/ TakeReceivedFrame \/ CheckFrame
    \/ ProcessSyncFrame \/ AuthorizeHello \/ StartSync
    \/ ReleaseReceivedFrame \/ SendHelloAck \/ WaitForSessionEvent

Next == Host \/ GiveEvent \/ Task

Spec == Init /\ [][Next]_vars

\* The session task and the host task are scheduled; a callback that queued
\* its change also gives the event.
FairSpec == Spec /\ WF_vars(Task) /\ WF_vars(GiveEvent) /\ WF_vars(Transmitted)

-----------------------------------------------------------------------------
(* What must hold.                                                         *)

TypeOK ==
    /\ session \in 0..MaxSessions /\ state \in {"idle", "connected", "ready"}
    /\ received \in Seq(Frame) /\ Len(received) <= QueueCapacity
    /\ borrowed \in BOOLEAN /\ discard \in BOOLEAN /\ event \in BOOLEAN /\ owing \in BOOLEAN
    /\ tx \in Sent \cup {NoFrame} /\ frame \in Frame \cup {NoFrame}
    /\ snap \in [session : 0..MaxSessions, state : {"idle", "connected", "ready"}]
    /\ protocolSession \in 0..MaxSessions /\ authSession \in 0..MaxSessions
    /\ negotiated \in BOOLEAN /\ authorized \in BOOLEAN
    /\ sync \in 0..MaxSessions
    /\ phone \in {"gone", "silent", "hello", "synchronizing"}
    /\ traffic \in 0..MaxTraffic

\* The borrowed frame stays in the queue, under the task's pointer, until it is
\* released: no callback reuses its slot, through any disconnect.
BorrowedFrameStays == frame # NoFrame /\ borrowed => received # <<>> /\ Head(received) = frame

\* The peer is authorized for the live session only if the phone proved its
\* identity by a Hello in that very connection, never by a frame left over.
AuthorizedByOwnHello ==
    authorized /\ IsCurrent(authSession) => phone \in {"hello", "synchronizing"}

\* Durable traffic reaches the phone only after it received the HelloAck of
\* this connection, whatever was negotiated in an earlier one.
TrafficAfterHelloAck ==
    tx.kind = "traffic" => tx.session = session /\ phone = "synchronizing"

\* The task never sleeps on work: with no event given or owed, the queue of a
\* ready link is empty and the last snapshot shows the link as it is.
NoLostWakeup ==
    pc = "wait" /\ ~event /\ ~owing => /\ state = "ready" => received = <<>>
                                       /\ snap = Current

\* The task and the link's callbacks keep apart: a borrowed frame stays, a Hello
\* authorizes its own session, traffic follows its HelloAck and no wakeup is lost
\* (note4_connectivity_service.cc SessionTask, note4_ble_link.cc).
OwnerSound ==
    BorrowedFrameStays /\ AuthorizedByOwnHello /\ TrafficAfterHelloAck /\ NoLostWakeup

\* What the contract says of ProtocolNegotiatedLocal
\* (CONNECTIVITY_CONTRACT.md:506): it holds for the session whose Hello was
\* accepted, so a phone that has the HelloAck is not turned away again while
\* its connection lasts.
StaysNegotiated ==
    [][negotiated /\ phone = "synchronizing" /\ phone' = "synchronizing" /\ session' = session
        => negotiated']_vars

\* A Hello is answered, or its connection ends, or it was dropped behind a
\* frame the task had borrowed when an earlier connection ended.
HelloTaken == phone = "hello" /\ received # <<>> ~> received = <<>> \/ phone # "hello"
=============================================================================
