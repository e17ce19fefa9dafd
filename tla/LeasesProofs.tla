---------------------------- MODULE LeasesProofs ----------------------------
(***************************************************************************)
(* What is lent and given back.                                            *)
(*                                                                         *)
(* The session task against its link, for a received queue of any length   *)
(* and any number of connections and frames.  None of the four properties  *)
(* is inductive: each follows from what the task is in the middle of       *)
(* (PhaseInv), from where a session number may still be found (BornInv),   *)
(* and from what the task last saw (SeenInv).                              *)
(*                                                                         *)
(* Books over Wi-Fi, for any uploads and any clock longer than a session:  *)
(* who holds the store (Lent), what the phone was told against where its   *)
(* request is (Honest), and how far apart clock, poll and activity are     *)
(* (InTime).                                                               *)
(*                                                                         *)
(* The computer's book manager, for any books, uploads, chunks and         *)
(* sessions and a line of any length: at most one request lives between    *)
(* the script of the client and the store (LineInv, SlotInv, LiveInv), the *)
(* session is the client's own while it waits, and an answer to it means   *)
(* that nothing lives (WaitInv); from that follows what is saved and what  *)
(* is said of it (SaveInv), and whose the handles are (HandleInv).         *)
(***************************************************************************)
EXTENDS MCLeases, SequenceTheorems, TLAPS

Holding == {"check", "traffic", "hello", "start", "release", "accept", "reject"}
Answering == {"ack", "nack"}

\* A frame is held exactly while the queue lends it, or its Hello is answered.
PhaseInv ==
    /\ pc \in {"top", "poll", "take", "wait"} \cup Holding \cup Answering
    /\ pc \in Holding => borrowed /\ frame # NoFrame
    /\ pc \in Answering => ~borrowed /\ frame # NoFrame
    /\ pc \notin Holding \cup Answering => ~borrowed /\ frame = NoFrame

\* No number of a later session is anywhere, and what carries the number of the
\* live one came from a phone that spoke in it.
Spoke == phone \in {"hello", "synchronizing"}
Own(s) == state # "idle" /\ s = session
BornInv ==
    /\ state = "idle" <=> phone = "gone"
    /\ state # "idle" => session # 0
    /\ \A i \in 1..Len(received) : /\ received[i].session <= session
                                   /\ Own(received[i].session) => Spoke
    /\ frame # NoFrame => frame.session <= session /\ (Own(frame.session) => Spoke)
    /\ authSession <= session /\ (authorized /\ Own(authSession) => Spoke)
    /\ protocolSession <= session
    /\ tx # NoFrame => state = "ready" /\ tx.session = session
    /\ tx.kind = "traffic" => phone = "synchronizing"
    /\ tx.kind = "accepted" => Spoke

\* A negotiated session has its HelloAck, or has it on the way.
NegotiatedInv ==
    negotiated /\ Own(protocolSession) =>
        phone = "synchronizing" \/ (phone = "hello" /\ tx.kind = "accepted")

\* With no event given or owed the last look at the link still tells the truth.
SeenInv ==
    ~event /\ ~owing =>
        /\ pc \in {"poll", "take", "wait"} => snap = Current
        /\ pc = "take" => snap.state = "ready"
        /\ pc = "wait" /\ state = "ready" => received = <<>>

IInv == TypeOK /\ PhaseInv /\ BorrowedFrameStays /\ BornInv /\ NegotiatedInv /\ SeenInv

-----------------------------------------------------------------------------
\* The numbers of the two sides.
LEMMA NumberFacts ==
    ASSUME OwnerConstants, TypeOK
    PROVE  /\ session \in Nat /\ protocolSession \in Nat /\ authSession \in Nat
           /\ traffic \in Nat /\ MaxSessions \in Nat /\ MaxTraffic \in Nat
           /\ QueueCapacity \in Nat
BY DEF OwnerConstants, TypeOK

\* What a frame carries.
LEMMA FrameFacts ==
    ASSUME OwnerConstants, NEW f \in Frame
    PROVE  /\ f.session \in 1..MaxSessions /\ f.session \in Nat
           /\ f.kind \in {"hello", "traffic"} /\ f # NoFrame
BY DEF Frame, NoFrame, OwnerConstants

\* An answer to a frame can be sent.
LEMMA AnswerFacts ==
    ASSUME OwnerConstants, NEW f \in Frame
    PROVE  \A kind \in {"accepted", "rejected", "traffic"} :
                [session |-> f.session, kind |-> kind] \in Sent
BY DEF Frame, Sent, OwnerConstants

\* The frames of the live session have their types.
LEMMA LiveFacts ==
    ASSUME OwnerConstants, TypeOK, session # 0
    PROVE  /\ \A kind \in {"hello", "traffic"} : [session |-> session, kind |-> kind] \in Frame
           /\ [session |-> session, kind |-> "traffic"] \in Sent
BY DEF OwnerConstants, TypeOK, Frame, Sent

\* The queue holds frames, and keeps its order at both ends.
LEMMA QueueFacts ==
    ASSUME OwnerConstants, TypeOK
    PROVE  /\ <<>> \in Seq(Frame) /\ Len(<<>>) <= QueueCapacity
           /\ \A i \in 1..Len(received) : received[i] \in Frame /\ received[i].session \in Nat
           /\ received # <<>> => Head(received) \in Frame /\ Head(received) = received[1]
                                 /\ 1 \in 1..Len(received)
<1>1. received \in Seq(Frame) /\ QueueCapacity \in Nat
    BY DEF TypeOK, OwnerConstants
<1>2. /\ <<>> \in Seq(Frame) /\ Len(<<>>) <= QueueCapacity
      /\ \A i \in 1..Len(received) : received[i] \in Frame
      /\ received # <<>> => Head(received) \in Frame /\ Head(received) = received[1]
                                 /\ 1 \in 1..Len(received)
    BY <1>1
<1> QED
    BY <1>2, FrameFacts

\* What is behind the head of the queue.
LEMMA TailFacts ==
    ASSUME OwnerConstants, TypeOK, received # <<>>
    PROVE  /\ Tail(received) \in Seq(Frame) /\ Len(Tail(received)) <= QueueCapacity
           /\ \A i \in 1..Len(Tail(received)) : i + 1 \in 1..Len(received)
                                             /\ Tail(received)[i] = received[i + 1]
<1>1. received \in Seq(Frame) /\ QueueCapacity \in Nat /\ Len(received) <= QueueCapacity
    BY DEF TypeOK, OwnerConstants
<1> QED
    BY <1>1

\* A frame written goes behind all others.
LEMMA AppendFacts ==
    ASSUME OwnerConstants, TypeOK, NEW f \in Frame
    PROVE  /\ Append(received, f) \in Seq(Frame) /\ Append(received, f) # <<>>
           /\ Len(received) < QueueCapacity => Len(Append(received, f)) <= QueueCapacity
           /\ received # <<>> => Head(Append(received, f)) = Head(received)
           /\ \A i \in 1..Len(Append(received, f)) :
                \/ i \in 1..Len(received) /\ Append(received, f)[i] = received[i]
                \/ Append(received, f)[i] = f
<1>1. /\ received \in Seq(Frame) /\ QueueCapacity \in Nat /\ Len(received) <= QueueCapacity
      /\ Len(received) \in Nat
    BY DEF TypeOK, OwnerConstants
<1>2. /\ Append(received, f) \in Seq(Frame) /\ Append(received, f) # <<>>
      /\ Len(Append(received, f)) = Len(received) + 1
      /\ Append(received, f)[Len(received) + 1] = f
      /\ received # <<>> => Head(Append(received, f)) = Head(received)
      /\ \A i \in 1..Len(received) : Append(received, f)[i] = received[i]
    BY <1>1, AppendProperties
<1>3. \A i \in 1..Len(received) + 1 : i \in 1..Len(received) \/ i = Len(received) + 1
    BY <1>1
<1> QED
    BY <1>1, <1>2, <1>3

\* Every step keeps the types.
LEMMA TypeOKStays ==
    ASSUME OwnerConstants, IInv, [Next]_vars
    PROVE  TypeOK'
<1>1. CASE Connected
    BY <1>1, NumberFacts DEF IInv, TypeOK, Connected, link, task
<1>2. CASE TransportReady
    BY <1>2 DEF IInv, TypeOK, TransportReady, link, task
<1>3. CASE Disconnect
    BY <1>3, QueueFacts DEF IInv, TypeOK, Disconnect, ClearReceivedQueue, link, task
<1>4. CASE Transmitted
    BY <1>4 DEF IInv, TypeOK, Transmitted, link, task
<1>5. CASE Access("hello")
    BY <1>5, NumberFacts, LiveFacts, AppendFacts DEF IInv, TypeOK, BornInv, Access, link, task
<1>6. CASE Access("traffic")
    BY <1>6, NumberFacts, LiveFacts, AppendFacts DEF IInv, TypeOK, BornInv, Access, link, task
<1>7. CASE GiveEvent
    BY <1>7, ZenonT(60) DEF IInv, TypeOK, GiveEvent, link, task
<1>8. CASE LoopTop
    <2>1. snap' \in [session : 0..MaxSessions, state : {"idle", "connected", "ready"}]
        BY <1>8 DEF IInv, TypeOK, LoopTop, Current
    <2>2. protocolSession' \in 0..MaxSessions /\ sync' \in 0..MaxSessions
        BY <1>8, NumberFacts DEF IInv, TypeOK, LoopTop, Inactive
    <2>3. negotiated' \in BOOLEAN /\ authorized' \in BOOLEAN
        BY <1>8 DEF IInv, TypeOK, LoopTop
    <2>4. UNCHANGED <<link, event, owing, frame, authSession, phone, traffic>>
        BY <1>8 DEF LoopTop
    <2> QED
        BY <2>1, <2>2, <2>3, <2>4 DEF IInv, TypeOK, link
<1>9. CASE PollResource
    <2>1. tx' \in Sent \cup {NoFrame}
        BY <1>9, LiveFacts DEF IInv, TypeOK, BornInv, PollResource, Idle, Transmit,
           SyncFailed, IsCurrent
    <2>2. sync' \in 0..MaxSessions
        BY <1>9, NumberFacts DEF IInv, TypeOK, PollResource, Idle, Transmit, SyncFailed,
           Inactive
    <2>3. negotiated' \in BOOLEAN
        BY <1>9 DEF IInv, TypeOK, PollResource, AfterPoll
    <2>4. authorized' \in BOOLEAN
        BY <1>9 DEF IInv, TypeOK, PollResource, Idle, Transmit, SyncFailed
    <2>5. UNCHANGED <<session, state, received, borrowed, discard, event, owing, snap, frame,
                      protocolSession, authSession, phone, traffic>>
        BY <1>9 DEF PollResource
    <2> QED
        BY <2>1, <2>2, <2>3, <2>4, <2>5 DEF IInv, TypeOK, link
<1>10. CASE TakeReceivedFrame
    <2>1. frame' \in Frame \cup {NoFrame}
        BY <1>10, QueueFacts DEF IInv, TypeOK, TakeReceivedFrame
    <2>2. borrowed' \in BOOLEAN
        BY <1>10 DEF IInv, TypeOK, TakeReceivedFrame
    <2>3. UNCHANGED <<session, state, received, discard, tx, event, owing, snap, protocolSession,
                      negotiated, authorized, authSession, sync, phone, traffic>>
        BY <1>10 DEF TakeReceivedFrame
    <2> QED
        BY <2>1, <2>2, <2>3 DEF IInv, TypeOK, link
<1>11. CASE CheckFrame
    BY <1>11 DEF IInv, TypeOK, CheckFrame, Current, IsCurrent, link, task
<1>12. CASE ProcessSyncFrame
    BY <1>12 DEF IInv, TypeOK, ProcessSyncFrame, link, task
<1>13. CASE AuthorizeHello
    BY <1>13, NumberFacts, ZenonT(60) DEF IInv, TypeOK, PhaseInv, Holding, Answering, BornInv,
       AuthorizeHello, IsCurrent, link, task
<1>14. CASE StartSync
    <2>1. frame \in Frame
        BY <1>14 DEF IInv, TypeOK, PhaseInv, Holding, StartSync
    <2>2. sync' = 0 \/ sync' = frame.session
        BY <1>14 DEF Inactive, StartSync
    <2>3. sync' \in 0..MaxSessions
        BY <1>14, <2>1, <2>2, FrameFacts, NumberFacts DEF IInv
    <2>4. authorized' \in BOOLEAN
        BY <1>14 DEF IInv, TypeOK, StartSync
    <2>5. UNCHANGED <<link, event, owing, snap, frame, protocolSession, negotiated, authSession,
                      phone, traffic>>
        BY <1>14 DEF StartSync
    <2> QED
        BY <2>1, <2>2, <2>3, <2>4, <2>5 DEF IInv, TypeOK, link
<1>15. CASE ReleaseReceivedFrame
    <2>1. received # <<>>
        BY <1>15 DEF IInv, PhaseInv, Holding, BorrowedFrameStays, ReleaseReceivedFrame
    <2>2. received' \in Seq(Frame) /\ Len(received') <= QueueCapacity
        BY <1>15, <2>1, TailFacts, QueueFacts DEF IInv, ReleaseReceivedFrame, ReleasedQueue
    <2>3. borrowed' \in BOOLEAN /\ discard' \in BOOLEAN
        BY <1>15 DEF ReleaseReceivedFrame, ReleasedQueue
    <2>4. frame' \in Frame \cup {NoFrame}
        BY <1>15 DEF IInv, TypeOK, ReleaseReceivedFrame
    <2>5. UNCHANGED <<session, state, tx, event, owing, snap, protocolSession, negotiated,
                      authorized, authSession, sync, phone, traffic>>
        BY <1>15 DEF ReleaseReceivedFrame
    <2> QED
        BY <2>1, <2>2, <2>3, <2>4, <2>5 DEF IInv, TypeOK, link
<1>16. CASE SendHelloAck
    <2>1. frame \in Frame
        BY <1>16 DEF IInv, TypeOK, PhaseInv, Holding, Answering, SendHelloAck
    <2>2. tx' \in Sent \cup {NoFrame}
        BY <1>16, <2>1, AnswerFacts DEF IInv, TypeOK, SendHelloAck
    <2>3. negotiated' \in BOOLEAN /\ frame' = NoFrame
        BY <1>16 DEF IInv, TypeOK, SendHelloAck
    <2>4. UNCHANGED <<session, state, received, borrowed, discard, event, owing, snap,
                      protocolSession, authorized, authSession, sync, phone, traffic>>
        BY <1>16 DEF SendHelloAck
    <2> QED
        BY <2>1, <2>2, <2>3, <2>4 DEF IInv, TypeOK, link
<1>17. CASE WaitForSessionEvent
    <2>1. event' \in BOOLEAN
        BY <1>17 DEF WaitForSessionEvent
    <2>2. UNCHANGED <<link, owing, snap, frame, protocolSession, negotiated, authorized,
                      authSession, sync, phone, traffic>>
        BY <1>17 DEF WaitForSessionEvent
    <2> QED
        BY <2>1, <2>2 DEF IInv, TypeOK, link
<1>18. CASE UNCHANGED vars
    BY <1>18 DEF IInv, TypeOK, vars, link, task
<1> QED
    BY <1>1, <1>2, <1>3, <1>4, <1>5, <1>6, <1>7, <1>8, <1>9, <1>10, <1>11, <1>12, <1>13,
       <1>14, <1>15, <1>16, <1>17, <1>18 DEF Next, Host, Task

\* A frame is taken and given up by the task only, one at a time.
LEMMA PhaseInvStays ==
    ASSUME OwnerConstants, IInv, [Next]_vars
    PROVE  PhaseInv'
<1>1. CASE Connected
    BY <1>1 DEF IInv, PhaseInv, TypeOK, Holding, Answering, NoFrame, Frame, Connected, link,
       task
<1>2. CASE TransportReady
    BY <1>2 DEF IInv, PhaseInv, TypeOK, Holding, Answering, NoFrame, Frame, TransportReady,
       link, task
<1>3. CASE Disconnect
    BY <1>3 DEF IInv, PhaseInv, TypeOK, Holding, Answering, NoFrame, Frame, Disconnect,
       ClearReceivedQueue, link, task
<1>4. CASE Transmitted
    BY <1>4 DEF IInv, PhaseInv, TypeOK, Holding, Answering, NoFrame, Frame, Transmitted, link,
       task
<1>5. CASE Access("hello")
    BY <1>5 DEF IInv, PhaseInv, TypeOK, Holding, Answering, NoFrame, Frame, Access, link, task
<1>6. CASE Access("traffic")
    BY <1>6 DEF IInv, PhaseInv, TypeOK, Holding, Answering, NoFrame, Frame, Access, link, task
<1>7. CASE GiveEvent
    BY <1>7 DEF IInv, PhaseInv, TypeOK, Holding, Answering, NoFrame, Frame, GiveEvent, link,
       task
<1>8. CASE LoopTop
    BY <1>8 DEF IInv, PhaseInv, TypeOK, Holding, Answering, NoFrame, Frame, LoopTop, Current,
       link, task
<1>9. CASE PollResource
    BY <1>9 DEF IInv, PhaseInv, TypeOK, Holding, Answering, NoFrame, Frame, PollResource,
       Idle, Transmit, SyncFailed, AfterPoll, PeerAuthorized, IsCurrent, Current, link, task
<1>10. CASE TakeReceivedFrame
    BY <1>10 DEF IInv, PhaseInv, TypeOK, Holding, Answering, NoFrame, Frame,
       TakeReceivedFrame, link, task
<1>11. CASE CheckFrame
    BY <1>11 DEF IInv, PhaseInv, TypeOK, Holding, Answering, NoFrame, Frame, CheckFrame,
       Current, IsCurrent, link, task
<1>12. CASE ProcessSyncFrame
    BY <1>12 DEF IInv, PhaseInv, TypeOK, Holding, Answering, NoFrame, Frame, ProcessSyncFrame,
       link, task
<1>13. CASE AuthorizeHello
    BY <1>13 DEF IInv, PhaseInv, TypeOK, Holding, Answering, NoFrame, Frame, AuthorizeHello,
       IsCurrent, link, task
<1>14. CASE StartSync
    BY <1>14 DEF IInv, PhaseInv, TypeOK, Holding, Answering, NoFrame, Frame, StartSync, link,
       task
<1>15. CASE ReleaseReceivedFrame
    BY <1>15 DEF IInv, PhaseInv, TypeOK, Holding, Answering, NoFrame, Frame,
       ReleaseReceivedFrame, ReleasedQueue, link, task
<1>16. CASE SendHelloAck
    BY <1>16 DEF IInv, PhaseInv, TypeOK, Holding, Answering, NoFrame, Frame, SendHelloAck,
       IsCurrent, link, task
<1>17. CASE WaitForSessionEvent
    BY <1>17 DEF IInv, PhaseInv, TypeOK, Holding, Answering, NoFrame, Frame,
       WaitForSessionEvent, link, task
<1>18. CASE UNCHANGED vars
    BY <1>18 DEF IInv, PhaseInv, TypeOK, Holding, Answering, NoFrame, Frame, vars, link, task
<1> QED
    BY <1>1, <1>2, <1>3, <1>4, <1>5, <1>6, <1>7, <1>8, <1>9, <1>10, <1>11, <1>12, <1>13,
       <1>14, <1>15, <1>16, <1>17, <1>18 DEF Next, Host, Task

\* No callback reuses the slot of a borrowed frame.
LEMMA BorrowedStays ==
    ASSUME OwnerConstants, IInv, [Next]_vars
    PROVE  BorrowedFrameStays'
<1>1. CASE Connected
    BY <1>1 DEF IInv, BorrowedFrameStays, TypeOK, PhaseInv, Holding, Answering, NoFrame,
       Connected, link, task
<1>2. CASE TransportReady
    BY <1>2 DEF IInv, BorrowedFrameStays, TypeOK, PhaseInv, Holding, Answering, NoFrame,
       TransportReady, link, task
<1>3. CASE Disconnect
    BY <1>3 DEF IInv, BorrowedFrameStays, TypeOK, PhaseInv, Holding, Answering, NoFrame,
       Disconnect, ClearReceivedQueue, link, task
<1>4. CASE Transmitted
    BY <1>4 DEF IInv, BorrowedFrameStays, TypeOK, PhaseInv, Holding, Answering, NoFrame,
       Transmitted, link, task
<1>5. CASE Access("hello")
    BY <1>5 DEF IInv, BorrowedFrameStays, TypeOK, PhaseInv, Holding, Answering, NoFrame,
       Access, link, task
<1>6. CASE Access("traffic")
    BY <1>6 DEF IInv, BorrowedFrameStays, TypeOK, PhaseInv, Holding, Answering, NoFrame,
       Access, link, task
<1>7. CASE GiveEvent
    BY <1>7 DEF IInv, BorrowedFrameStays, TypeOK, PhaseInv, Holding, Answering, NoFrame,
       GiveEvent, link, task
<1>8. CASE LoopTop
    BY <1>8 DEF IInv, BorrowedFrameStays, TypeOK, PhaseInv, Holding, Answering, NoFrame,
       LoopTop, Current, link, task
<1>9. CASE PollResource
    BY <1>9 DEF IInv, BorrowedFrameStays, TypeOK, PhaseInv, Holding, Answering, NoFrame,
       PollResource, Idle, Transmit, SyncFailed, AfterPoll, PeerAuthorized, IsCurrent,
       Current, link, task
<1>10. CASE TakeReceivedFrame
    BY <1>10 DEF IInv, BorrowedFrameStays, TypeOK, PhaseInv, Holding, Answering, NoFrame,
       TakeReceivedFrame, link, task
<1>11. CASE CheckFrame
    BY <1>11 DEF IInv, BorrowedFrameStays, TypeOK, PhaseInv, Holding, Answering, NoFrame,
       CheckFrame, Current, IsCurrent, link, task
<1>12. CASE ProcessSyncFrame
    BY <1>12 DEF IInv, BorrowedFrameStays, TypeOK, PhaseInv, Holding, Answering, NoFrame,
       ProcessSyncFrame, link, task
<1>13. CASE AuthorizeHello
    BY <1>13 DEF IInv, BorrowedFrameStays, TypeOK, PhaseInv, Holding, Answering, NoFrame,
       AuthorizeHello, IsCurrent, link, task
<1>14. CASE StartSync
    BY <1>14 DEF IInv, BorrowedFrameStays, TypeOK, PhaseInv, Holding, Answering, NoFrame,
       StartSync, link, task
<1>15. CASE ReleaseReceivedFrame
    BY <1>15 DEF IInv, BorrowedFrameStays, TypeOK, PhaseInv, Holding, Answering, NoFrame,
       ReleaseReceivedFrame, ReleasedQueue, link, task
<1>16. CASE SendHelloAck
    BY <1>16 DEF IInv, BorrowedFrameStays, TypeOK, PhaseInv, Holding, Answering, NoFrame,
       SendHelloAck, IsCurrent, link, task
<1>17. CASE WaitForSessionEvent
    BY <1>17 DEF IInv, BorrowedFrameStays, TypeOK, PhaseInv, Holding, Answering, NoFrame,
       WaitForSessionEvent, link, task
<1>18. CASE UNCHANGED vars
    BY <1>18 DEF IInv, BorrowedFrameStays, TypeOK, PhaseInv, Holding, Answering, NoFrame,
       vars, link, task
<1> QED
    BY <1>1, <1>2, <1>3, <1>4, <1>5, <1>6, <1>7, <1>8, <1>9, <1>10, <1>11, <1>12, <1>13,
       <1>14, <1>15, <1>16, <1>17, <1>18 DEF Next, Host, Task

\* A new connection has a number nothing carries yet; only a phone that spoke in it
\* gets a frame, an authorization or an answer into it.
LEMMA BornInvStays ==
    ASSUME OwnerConstants, IInv, [Next]_vars
    PROVE  BornInv'
<1>1. CASE Connected
    <2>1. session \in Nat /\ session' = session + 1 /\ state = "idle"
        BY <1>1, NumberFacts DEF IInv, Connected
    <2>2. \A n \in Nat : n <= session => n <= session' /\ n # session'
        BY <1>1, <2>1
    <2>3. \A i \in 1..Len(received) : received[i].session <= session
        BY <1>1 DEF IInv, BornInv, Own, Spoke
    <2>4. \A i \in 1..Len(received) : received[i].session \in Nat
        BY <1>1, QueueFacts DEF IInv
    <2>5. frame # NoFrame => frame.session \in Nat /\ frame.session <= session
        BY <1>1, FrameFacts DEF IInv, TypeOK, BornInv
    <2>6. authSession \in Nat /\ authSession <= session /\ protocolSession \in Nat /\ protocolSession <= session
        BY <1>1, NumberFacts DEF IInv, BornInv
    <2>7. tx = NoFrame /\ NoFrame.kind = "none"
        BY <1>1, <2>1 DEF IInv, BornInv, NoFrame
    <2>8. UNCHANGED <<received, frame, authSession, protocolSession, tx>> /\ state' = "connected" /\ phone' = "silent"
        BY <1>1 DEF Connected, task
    <2> QED
        BY <2>1, <2>2, <2>3, <2>4, <2>5, <2>6, <2>7, <2>8 DEF IInv, BornInv, Own, Spoke
<1>2. CASE TransportReady
    BY <1>2 DEF IInv, BornInv, Own, Spoke, TransportReady, link, task
<1>3. CASE Disconnect
    BY <1>3 DEF IInv, BornInv, Own, Spoke, NoFrame, Disconnect, ClearReceivedQueue, link, task
<1>4. CASE Transmitted
    BY <1>4 DEF IInv, BornInv, Own, Spoke, NoFrame, Transmitted, link, task
<1>5. CASE Access("hello")
    BY <1>5, NumberFacts, LiveFacts, AppendFacts DEF IInv, BornInv, Own, Spoke, TypeOK,
       Access, link, task
<1>6. CASE Access("traffic")
    BY <1>6, NumberFacts, LiveFacts, AppendFacts DEF IInv, BornInv, Own, Spoke, TypeOK,
       Access, link, task
<1>7. CASE GiveEvent
    BY <1>7 DEF IInv, BornInv, Own, Spoke, GiveEvent, link, task
<1>8. CASE LoopTop
    BY <1>8, NumberFacts DEF IInv, BornInv, Own, Spoke, TypeOK, LoopTop, Current, link, task
<1>9. CASE PollResource
    BY <1>9, NumberFacts DEF IInv, BornInv, Own, Spoke, NegotiatedInv, NoFrame, TypeOK,
       PollResource, Idle, Transmit, SyncFailed, AfterPoll, PeerAuthorized, IsCurrent,
       Current, link, task
<1>10. CASE TakeReceivedFrame
    <2>1. frame = NoFrame
        BY <1>10 DEF IInv, PhaseInv, Holding, Answering, TakeReceivedFrame
    <2>2. frame' = frame \/ (received # <<>> /\ frame' = Head(received))
        BY <1>10 DEF TakeReceivedFrame
    <2>3. received # <<>> => 1 \in 1..Len(received) /\ Head(received) = received[1]
        BY <1>10, QueueFacts DEF IInv
    <2>4. frame' # NoFrame => frame'.session <= session /\ (Own(frame'.session) => Spoke)
        BY <1>10, <2>1, <2>2, <2>3 DEF IInv, BornInv, Own, Spoke
    <2>5. UNCHANGED <<session, state, received, tx, protocolSession, authorized, authSession, phone>>
        BY <1>10 DEF TakeReceivedFrame
    <2> QED
        BY <2>1, <2>2, <2>3, <2>4, <2>5 DEF IInv, BornInv, Own, Spoke
<1>11. CASE CheckFrame
    BY <1>11 DEF IInv, BornInv, Own, Spoke, CheckFrame, Current, IsCurrent, link, task
<1>12. CASE ProcessSyncFrame
    BY <1>12 DEF IInv, BornInv, Own, Spoke, ProcessSyncFrame, link, task
<1>13. CASE AuthorizeHello
    BY <1>13, NumberFacts DEF IInv, BornInv, Own, Spoke, PhaseInv, Holding, Answering, TypeOK,
       AuthorizeHello, IsCurrent, link, task
<1>14. CASE StartSync
    BY <1>14 DEF IInv, BornInv, Own, Spoke, StartSync, link, task
<1>15. CASE ReleaseReceivedFrame
    BY <1>15, TailFacts DEF IInv, BornInv, Own, Spoke, PhaseInv, Holding, Answering,
       BorrowedFrameStays, TypeOK, ReleaseReceivedFrame, ReleasedQueue, link, task
<1>16. CASE SendHelloAck
    BY <1>16 DEF IInv, BornInv, Own, Spoke, PhaseInv, Holding, Answering, NoFrame,
       SendHelloAck, IsCurrent, link, task
<1>17. CASE WaitForSessionEvent
    BY <1>17 DEF IInv, BornInv, Own, Spoke, WaitForSessionEvent, link, task
<1>18. CASE UNCHANGED vars
    BY <1>18 DEF IInv, BornInv, Own, Spoke, vars, link, task
<1> QED
    BY <1>1, <1>2, <1>3, <1>4, <1>5, <1>6, <1>7, <1>8, <1>9, <1>10, <1>11, <1>12, <1>13,
       <1>14, <1>15, <1>16, <1>17, <1>18 DEF Next, Host, Task

\* A session becomes negotiated with its HelloAck, and a new one is reset at the
\* top of the loop before anything else is sent.
LEMMA NegotiatedInvStays ==
    ASSUME OwnerConstants, IInv, [Next]_vars
    PROVE  NegotiatedInv'
<1>1. CASE Connected
    BY <1>1, NumberFacts DEF IInv, NegotiatedInv, Own, BornInv, TypeOK, Connected, link, task
<1>2. CASE TransportReady
    BY <1>2 DEF IInv, NegotiatedInv, Own, TransportReady, link, task
<1>3. CASE Disconnect
    BY <1>3 DEF IInv, NegotiatedInv, Own, Disconnect, ClearReceivedQueue, link, task
<1>4. CASE Transmitted
    BY <1>4 DEF IInv, NegotiatedInv, Own, NoFrame, BornInv, TypeOK, Transmitted, link, task
<1>5. CASE Access("hello")
    BY <1>5 DEF IInv, NegotiatedInv, Own, BornInv, Access, link, task
<1>6. CASE Access("traffic")
    BY <1>6 DEF IInv, NegotiatedInv, Own, Access, link, task
<1>7. CASE GiveEvent
    BY <1>7 DEF IInv, NegotiatedInv, Own, GiveEvent, link, task
<1>8. CASE LoopTop
    BY <1>8 DEF IInv, NegotiatedInv, Own, LoopTop, Current, link, task
<1>9. CASE PollResource
    BY <1>9 DEF IInv, NegotiatedInv, Own, NoFrame, TypeOK, PollResource, Idle, Transmit,
       SyncFailed, AfterPoll, PeerAuthorized, IsCurrent, Current, link, task
<1>10. CASE TakeReceivedFrame
    BY <1>10 DEF IInv, NegotiatedInv, Own, TakeReceivedFrame, link, task
<1>11. CASE CheckFrame
    BY <1>11 DEF IInv, NegotiatedInv, Own, CheckFrame, Current, IsCurrent, link, task
<1>12. CASE ProcessSyncFrame
    BY <1>12 DEF IInv, NegotiatedInv, Own, ProcessSyncFrame, link, task
<1>13. CASE AuthorizeHello
    BY <1>13 DEF IInv, NegotiatedInv, Own, AuthorizeHello, IsCurrent, link, task
<1>14. CASE StartSync
    BY <1>14 DEF IInv, NegotiatedInv, Own, StartSync, link, task
<1>15. CASE ReleaseReceivedFrame
    BY <1>15 DEF IInv, NegotiatedInv, Own, ReleaseReceivedFrame, ReleasedQueue, link, task
<1>16. CASE SendHelloAck
    <2>1. frame # NoFrame
        BY <1>16 DEF IInv, PhaseInv, Holding, Answering, SendHelloAck
    <2>2. UNCHANGED <<session, state, protocolSession, phone>>
        BY <1>16 DEF SendHelloAck
    <2>3. CASE IsCurrent(frame.session) /\ tx = NoFrame /\ pc = "ack"
        BY <1>16, <2>3, <2>1, <2>2 DEF IInv, BornInv, Spoke, Own, IsCurrent, NegotiatedInv,
           SendHelloAck
    <2>4. CASE ~(IsCurrent(frame.session) /\ tx = NoFrame /\ pc = "ack")
        BY <1>16, <2>4, <2>1, <2>2 DEF IInv, Own, IsCurrent, NegotiatedInv, NoFrame,
           SendHelloAck
    <2> QED
        BY <2>1, <2>2, <2>3, <2>4
<1>17. CASE WaitForSessionEvent
    BY <1>17 DEF IInv, NegotiatedInv, Own, WaitForSessionEvent, link, task
<1>18. CASE UNCHANGED vars
    BY <1>18 DEF IInv, NegotiatedInv, Own, vars, link, task
<1> QED
    BY <1>1, <1>2, <1>3, <1>4, <1>5, <1>6, <1>7, <1>8, <1>9, <1>10, <1>11, <1>12, <1>13,
       <1>14, <1>15, <1>16, <1>17, <1>18 DEF Next, Host, Task

\* What a callback changes it owes an event for, and the task takes an event only
\* before it looks again.
LEMMA SeenInvStays ==
    ASSUME OwnerConstants, IInv, [Next]_vars
    PROVE  SeenInv'
<1>1. CASE Connected
    BY <1>1 DEF IInv, SeenInv, TypeOK, PhaseInv, Holding, Answering, Current, Connected, link,
       task
<1>2. CASE TransportReady
    BY <1>2 DEF IInv, SeenInv, TypeOK, PhaseInv, Holding, Answering, Current, TransportReady,
       link, task
<1>3. CASE Disconnect
    BY <1>3 DEF IInv, SeenInv, TypeOK, PhaseInv, Holding, Answering, Current, Disconnect,
       ClearReceivedQueue, link, task
<1>4. CASE Transmitted
    BY <1>4 DEF IInv, SeenInv, TypeOK, PhaseInv, Holding, Answering, Current, Transmitted,
       link, task
<1>5. CASE Access("hello")
    BY <1>5 DEF IInv, SeenInv, TypeOK, PhaseInv, Holding, Answering, Current, Access, link,
       task
<1>6. CASE Access("traffic")
    BY <1>6 DEF IInv, SeenInv, TypeOK, PhaseInv, Holding, Answering, Current, Access, link,
       task
<1>7. CASE GiveEvent
    BY <1>7 DEF IInv, SeenInv, TypeOK, PhaseInv, Holding, Answering, Current, GiveEvent, link,
       task
<1>8. CASE LoopTop
    BY <1>8 DEF IInv, SeenInv, TypeOK, PhaseInv, Holding, Answering, Current, LoopTop, link,
       task
<1>9. CASE PollResource
    BY <1>9 DEF IInv, SeenInv, TypeOK, PhaseInv, Holding, Answering, Current, PollResource,
       Idle, Transmit, SyncFailed, AfterPoll, PeerAuthorized, IsCurrent, link, task
<1>10. CASE TakeReceivedFrame
    BY <1>10 DEF IInv, SeenInv, TypeOK, PhaseInv, Holding, Answering, Current,
       TakeReceivedFrame, link, task
<1>11. CASE CheckFrame
    BY <1>11 DEF IInv, SeenInv, TypeOK, PhaseInv, Holding, Answering, Current, CheckFrame,
       IsCurrent, link, task
<1>12. CASE ProcessSyncFrame
    BY <1>12 DEF IInv, SeenInv, TypeOK, PhaseInv, Holding, Answering, Current,
       ProcessSyncFrame, link, task
<1>13. CASE AuthorizeHello
    BY <1>13 DEF IInv, SeenInv, TypeOK, PhaseInv, Holding, Answering, Current, AuthorizeHello,
       IsCurrent, link, task
<1>14. CASE StartSync
    BY <1>14 DEF IInv, SeenInv, TypeOK, PhaseInv, Holding, Answering, Current, StartSync,
       link, task
<1>15. CASE ReleaseReceivedFrame
    BY <1>15 DEF IInv, SeenInv, TypeOK, PhaseInv, Holding, Answering, Current,
       ReleaseReceivedFrame, ReleasedQueue, link, task
<1>16. CASE SendHelloAck
    BY <1>16 DEF IInv, SeenInv, TypeOK, PhaseInv, Holding, Answering, Current, SendHelloAck,
       IsCurrent, link, task
<1>17. CASE WaitForSessionEvent
    BY <1>17 DEF IInv, SeenInv, TypeOK, PhaseInv, Holding, Answering, Current,
       WaitForSessionEvent, link, task
<1>18. CASE UNCHANGED vars
    BY <1>18 DEF IInv, SeenInv, TypeOK, PhaseInv, Holding, Answering, Current, vars, link,
       task
<1> QED
    BY <1>1, <1>2, <1>3, <1>4, <1>5, <1>6, <1>7, <1>8, <1>9, <1>10, <1>11, <1>12, <1>13,
       <1>14, <1>15, <1>16, <1>17, <1>18 DEF Next, Host, Task

-----------------------------------------------------------------------------
(* The invariant holds, and with it the properties.                        *)

\* With no link and an idle task nothing is held, born or seen.
LEMMA InitHolds == OwnerConstants /\ Init => IInv
<1> SUFFICES ASSUME OwnerConstants, Init PROVE IInv
    OBVIOUS
<1>1. TypeOK
    <2>1. received \in Seq(Frame) /\ Len(received) <= QueueCapacity
        BY DEF OwnerConstants, Init
    <2>2. snap \in [session : 0..MaxSessions, state : {"idle", "connected", "ready"}]
        BY DEF OwnerConstants, Init, Current
    <2>3. /\ session \in 0..MaxSessions /\ protocolSession \in 0..MaxSessions
          /\ authSession \in 0..MaxSessions /\ sync \in 0..MaxSessions
          /\ traffic \in 0..MaxTraffic
        BY DEF OwnerConstants, Init, Inactive
    <2>4. /\ borrowed \in BOOLEAN /\ discard \in BOOLEAN /\ event \in BOOLEAN
          /\ owing \in BOOLEAN /\ negotiated \in BOOLEAN /\ authorized \in BOOLEAN
        BY DEF Init
    <2> QED
        BY <2>1, <2>2, <2>3, <2>4 DEF Init, TypeOK
<1>2. PhaseInv /\ BorrowedFrameStays /\ NegotiatedInv /\ SeenInv
    BY DEF Init, PhaseInv, Holding, Answering, BorrowedFrameStays, NegotiatedInv, SeenInv
<1>3. BornInv
    BY DEF Init, BornInv, Own, Spoke, NoFrame
<1> QED
    BY <1>1, <1>2, <1>3 DEF IInv

\* The inductive invariant, for a received queue of any length and any number
\* of connections and frames: what the task holds, which connection each number
\* came from, and what the task saw last (note4_connectivity_service.cc
\* SessionTask, note4_ble_link.cc).
THEOREM OwnerInvariant ==
    ASSUME OwnerConstants
    PROVE  Spec => []IInv
<1>1. IInv /\ [Next]_vars => IInv'
    BY TypeOKStays, PhaseInvStays, BorrowedStays, BornInvStays, NegotiatedInvStays,
       SeenInvStays DEF IInv
<1>2. Init => IInv
    BY InitHolds
<1> QED
    BY <1>1, <1>2, PTL DEF Spec

\* A borrowed frame stays in its slot through any disconnect, the live session
\* is authorized only by a Hello of its own phone, durable traffic reaches a
\* phone only after its HelloAck, and the task never sleeps on work.
THEOREM OwnerAlwaysSound ==
    ASSUME OwnerConstants
    PROVE  Spec => []OwnerSound
<1>1. IInv => AuthorizedByOwnHello
    BY DEF IInv, BornInv, Own, Spoke, AuthorizedByOwnHello, IsCurrent
<1>2. IInv => TrafficAfterHelloAck
    <2>1. tx.kind = "traffic" => tx # NoFrame
        BY DEF NoFrame
    <2> QED
        BY <2>1 DEF IInv, BornInv, TrafficAfterHelloAck
<1>3. IInv => NoLostWakeup
    BY Zenon DEF IInv, SeenInv, NoLostWakeup
<1>4. IInv => OwnerSound
    BY <1>1, <1>2, <1>3 DEF IInv, OwnerSound
<1> QED
    BY <1>4, OwnerInvariant, PTL

-----------------------------------------------------------------------------
(* Books over Wi-Fi.  What a handler holds of the store (Lent), what the    *)
(* phone was told of an upload and where its request is (Honest), and how   *)
(* far apart the clock, the poll and the last activity are (InTime).        *)

Working == {"body", "commit", "answer"}
Handles == [owner : BOOLEAN, open : BOOLEAN, name : Books \cup {NoValue}, received : Nat,
            error : BOOLEAN]
Transfers == [st : {"off", "starting", "sharing", "stopping", "complete", "failed"},
              err : BOOLEAN, started : Web!Clock, finishing : BOOLEAN, finishAt : Web!Clock,
              starting : BOOLEAN]
Polls == [at : Web!Clock, step : {"none", "poll", "join"}, allowed : BOOLEAN]
Apis == [up : BOOLEAN, cancelled : BOOLEAN, finish : BOOLEAN, active : BOOLEAN,
         activity : Web!Clock, uploaded : BOOLEAN]
Requests == [kind : Web!Kinds \cup {"none"}, step : {"none", "sent"} \cup Working,
             tag : Attempts \cup {NoValue}, name : Books \cup {NoValue}, up : Handles,
             result : Web!Results \cup {"ended", "timeout"}, cut : BOOLEAN]
Words == {"none", "saved", "refused", "unsure", "landed"}
Phones == [thread : {"free", "waits"}, live : BOOLEAN, tag : Attempts \cup {NoValue},
           left : SUBSET Attempts,
           outcome : [Attempts -> Words]]

\* A store, whatever its files hold.
IsStore(b) ==
    /\ DOMAIN b = {"managing", "uploading", "readers", "files", "part"}
    /\ b.managing \in BOOLEAN /\ b.uploading \in BOOLEAN /\ b.readers \in Nat

WebTypes ==
    /\ wNow \in Web!Clock /\ wXfer \in Transfers /\ wPoll \in Polls /\ wApi \in Apis
    /\ wReq \in Requests /\ IsStore(wStore) /\ wPhone \in Phones

Reading(r) == IF r.kind = "get" /\ r.step = "body" THEN 1 ELSE 0

Lent ==
    /\ wPoll.step # "none" => Web!Busy
    /\ Web!Busy => wStore.managing
    /\ wApi.up => Web!Busy
    /\ wReq.step \in Working => wApi.up
    /\ wReq.kind = "none" <=> wReq.step = "none"
    /\ wStore.uploading = wReq.up.owner
    /\ wReq.up.owner => wReq.step \in Working
    /\ wStore.readers = Reading(wReq)

\* An upload the phone has not begun is nowhere; one it was told about is told
\* truly and no longer in the handler; and the handler's result says whether
\* the book was kept.
Untouched(t) == /\ wPhone.outcome[t] = "none" /\ t \notin wKept
                /\ wReq.tag # t /\ wPhone.tag # t
Honest ==
    /\ \A t \in Attempts :
          /\ t \in wPhone.left => Untouched(t)
          /\ wPhone.outcome[t] = "saved" => t \in wKept
          /\ wPhone.outcome[t] = "refused" => t \notin wKept
          /\ wPhone.outcome[t] \in {"saved", "refused"} => wReq.tag # t \/ wReq.step = "none"
    /\ wReq.kind = "put" <=> wReq.tag # NoValue
    /\ wReq.kind # "none" /\ ~wReq.cut => wPhone.tag = wReq.tag
    /\ wReq.kind = "put" =>
          IF wReq.step = "answer" THEN (wReq.result \in {"ok", "late"}) = (wReq.tag \in wKept)
          ELSE wReq.tag \notin wKept

\* Ages are counted from the start of the session, which ends before they wrap.
Elapsed(t) == Web!Since(t, wXfer.started)
InTime ==
    /\ wXfer.st \in {"starting", "sharing"} =>
          /\ Elapsed(wPoll.at) <= Elapsed(wNow) /\ Elapsed(wNow) <= Elapsed(wPoll.at) + MaxLag
          /\ wPoll.step = "none" => Elapsed(wPoll.at) < SessionFor
          /\ wPoll.step = "poll" => Elapsed(wPoll.at) < SessionFor + MaxLag
    /\ wXfer.st = "sharing" => Elapsed(wApi.activity) <= Elapsed(wNow)
    /\ wPoll.step = "join" => wXfer.st = "stopping"
    /\ wXfer.st = "stopping" /\ wPoll.step # "join" => wXfer.err

WebInv == WebTypes /\ Lent /\ Honest /\ InTime

-----------------------------------------------------------------------------
(* The clock.                                                              *)

LEMMA WebConstantsAre ==
    /\ NoValue \notin Attempts /\ NoValue \notin Books
    /\ Wrap \in Nat /\ Wrap > 0 /\ StartsAt \in 0..(Wrap - 1) /\ MaxLag \in Nat
    /\ SessionFor \in Nat /\ SessionFor > 0 /\ SessionFor + 2 * MaxLag <= Wrap
    /\ AfterUploadFor \in Nat /\ AfterUploadFor > 0 /\ IdleFor \in Nat
    /\ AfterUploadFor <= IdleFor
BY WebConstants

\* What the modulus does to a sum of two samples.
Turned(x) == IF x < Wrap THEN x ELSE x - Wrap
LEMMA ModIs ==
    ASSUME NEW x \in 0..(2 * Wrap - 1)
    PROVE  x % Wrap = Turned(x)
BY WebConstantsAre DEF Turned

\* The age of a sample is what lies between, around the wrap if need be.
LEMMA AgeIs ==
    ASSUME NEW t \in Web!Clock, NEW from \in Web!Clock
    PROVE  Web!Since(t, from) = IF from <= t THEN t - from ELSE t - from + Wrap
<1>1. t - from + Wrap \in 0..(2 * Wrap - 1)
    BY WebConstantsAre DEF Web!Clock
<1>2. (t - from + Wrap) % Wrap = Turned(t - from + Wrap)
    BY <1>1, ModIs
<1> QED
    BY <1>2, WebConstantsAre DEF Web!Clock, Web!Since, Turned

\* The clock's tick is one more, or zero.
LEMMA NextTick ==
    ASSUME NEW t \in Web!Clock
    PROVE  (t + 1) % Wrap = IF t + 1 < Wrap THEN t + 1 ELSE 0
<1>1. t + 1 \in 0..(2 * Wrap - 1)
    BY WebConstantsAre DEF Web!Clock
<1>2. (t + 1) % Wrap = Turned(t + 1)
    BY <1>1, ModIs
<1> QED
    BY <1>2, WebConstantsAre DEF Web!Clock, Turned

\* Of two samples of one session the later age is the difference of the two.
LEMMA Between ==
    ASSUME NEW t \in Web!Clock, NEW from \in Web!Clock, NEW s \in Web!Clock
    PROVE  Web!Since(t, from) =
              IF Web!Since(from, s) <= Web!Since(t, s)
              THEN Web!Since(t, s) - Web!Since(from, s)
              ELSE Web!Since(t, s) - Web!Since(from, s) + Wrap
<1>1. /\ Web!Since(t, from) = IF from <= t THEN t - from ELSE t - from + Wrap
      /\ Web!Since(t, s) = IF s <= t THEN t - s ELSE t - s + Wrap
      /\ Web!Since(from, s) = IF s <= from THEN from - s ELSE from - s + Wrap
    BY AgeIs
<1> QED
    BY <1>1, WebConstantsAre DEF Web!Clock

LEMMA AgeType ==
    ASSUME NEW t \in Web!Clock, NEW from \in Web!Clock
    PROVE  Web!Since(t, from) \in 0..(Wrap - 1)
BY AgeIs, WebConstantsAre DEF Web!Clock

-----------------------------------------------------------------------------
(* The store's operations.                                                 *)

LEMMA Lends ==
    ASSUME NEW b, IsStore(b), NEW p
    PROVE  LET lent == [b EXCEPT !.part = p, !.uploading = TRUE]
           IN IsStore(lent) /\ lent.uploading /\ lent.managing = b.managing
              /\ lent.readers = b.readers
BY DEF IsStore

LEMMA Writes ==
    ASSUME NEW b, IsStore(b), NEW t
    PROVE  LET written == [b EXCEPT !.part = Append(@, t)]
           IN IsStore(written) /\ written.managing = b.managing
              /\ written.uploading = b.uploading /\ written.readers = b.readers
BY DEF IsStore

LEMMA Keeps ==
    ASSUME NEW b, IsStore(b), NEW n
    PROVE  LET whole == [b EXCEPT !.files[n] = b.part, !.part = NoValue, !.uploading = FALSE]
           IN IsStore(whole) /\ ~whole.uploading /\ whole.managing = b.managing
              /\ whole.readers = b.readers
BY DEF IsStore

LEMMA Manages ==
    ASSUME NEW b, IsStore(b)
    PROVE  LET managed == [b EXCEPT !.managing = TRUE, !.part = NoValue]
           IN IsStore(managed) /\ managed.managing /\ managed.uploading = b.uploading
              /\ managed.readers = b.readers
BY DEF IsStore

LEMMA Reads ==
    ASSUME NEW b, IsStore(b)
    PROVE  LET read == [b EXCEPT !.readers = @ + 1]
           IN IsStore(read) /\ read.readers = b.readers + 1 /\ read.managing = b.managing
              /\ read.uploading = b.uploading
BY DEF IsStore

LEMMA BeginLends ==
    ASSUME NEW b, IsStore(b), NEW u \in Handles, NEW n \in Books \cup {NoValue},
           NEW r \in Web!BeginUpload(b, u, n)
    PROVE  /\ IsStore(r[2]) /\ r[3] \in Handles /\ r[1] \in Web!Results \ {"late"}
           /\ r[2].managing = b.managing /\ r[2].readers = b.readers
           /\ r[1] = "ok" => ~b.uploading /\ r[2].uploading /\ r[3].owner
           /\ r[1] # "ok" => r[2] = b /\ r[3] = u
<1> DEFINE lent == [b EXCEPT !.part = <<>>, !.uploading = TRUE]
           new == [owner |-> TRUE, open |-> TRUE, name |-> n, received |-> 0, error |-> FALSE]
<1>1. IsStore(lent) /\ lent.uploading /\ lent.managing = b.managing /\ lent.readers = b.readers
    BY Lends
<1>2. new \in Handles /\ new.owner
    BY DEF Handles
<1>3. \/ /\ \E w \in {"busy", "exists", "noSpace", "ioError"} : r = <<w, b, u>>
      \/ /\ ~b.uploading /\ r = <<"ok", lent, new>>
    BY DEF Web!BeginUpload, IsStore, Handles
<1> HIDE DEF lent, new
<1>4. CASE ~b.uploading /\ r = <<"ok", lent, new>>
    BY <1>1, <1>2, <1>4 DEF Web!Results
<1>5. CASE \E w \in {"busy", "exists", "noSpace", "ioError"} : r = <<w, b, u>>
    BY <1>5 DEF Web!Results
<1> QED
    BY <1>3, <1>4, <1>5

LEMMA WriteKeeps ==
    ASSUME NEW b, IsStore(b), NEW u \in Handles, NEW t, NEW r \in Web!WriteUpload(b, u, t)
    PROVE  /\ IsStore(r[2]) /\ r[3] \in Handles /\ r[1] \in Web!Results \ {"late"}
           /\ r[2].managing = b.managing /\ r[2].readers = b.readers
           /\ r[2].uploading = b.uploading /\ r[3].owner = u.owner
<1> DEFINE written == [b EXCEPT !.part = Append(@, t)]
           more == [u EXCEPT !.received = @ + 1]
           bad == [u EXCEPT !.error = TRUE]
<1>1. /\ IsStore(written) /\ written.managing = b.managing
      /\ written.uploading = b.uploading /\ written.readers = b.readers
    BY Writes
<1>2. more \in Handles /\ more.owner = u.owner
    BY DEF Handles
<1>4. bad \in Handles /\ bad.owner = u.owner
    BY DEF Handles
<1>3. \E w \in {"ok", "invalid", "noSpace", "ioError"}, c \in {b, written}, v \in {u, more, bad} :
         r = <<w, c, v>>
    BY DEF Web!WriteUpload
<1> HIDE DEF written, more, bad
<1> QED
    BY <1>1, <1>2, <1>3, <1>4 DEF Web!Results

LEMMA CommitReturns ==
    ASSUME NEW b, IsStore(b), NEW u \in Handles, NEW r \in Web!CommitUpload(b, u)
    PROVE  /\ IsStore(r[2]) /\ r[3] \in Handles /\ r[1] \in Web!Results
           /\ r[2].managing = b.managing /\ r[2].readers = b.readers
           /\ r[1] = "ok" => ~r[2].uploading /\ ~r[3].owner
           /\ r[1] # "ok" => r[2].uploading = b.uploading /\ r[3].owner = u.owner
<1> DEFINE whole == [b EXCEPT !.files[u.name] = b.part, !.part = NoValue, !.uploading = FALSE]
           given == [u EXCEPT !.open = FALSE, !.owner = FALSE]
           failed == [u EXCEPT !.error = TRUE]
           closed == [failed EXCEPT !.open = FALSE]
           landed == [b EXCEPT !.files[u.name] = b.part, !.part = NoValue]
<1>1. /\ IsStore(whole) /\ ~whole.uploading /\ whole.managing = b.managing
      /\ whole.readers = b.readers
    BY Keeps
<1>6. /\ IsStore(landed) /\ landed.uploading = b.uploading /\ landed.managing = b.managing
      /\ landed.readers = b.readers
    BY DEF IsStore
<1>2. /\ given \in Handles /\ failed \in Handles /\ closed \in Handles
      /\ ~given.owner /\ failed.owner = u.owner /\ closed.owner = u.owner
    BY DEF Handles
<1>3. \/ r = <<"ok", whole, given>>
      \/ r = <<"late", landed, closed>>
      \/ \E w \in {"ioError", "noSpace", "invalid", "exists"}, v \in {u, failed, closed} :
            r = <<w, b, v>>
    BY DEF Web!CommitUpload
<1> HIDE DEF whole, given, failed, closed, landed
<1>7. CASE r = <<"late", landed, closed>>
    BY <1>2, <1>6, <1>7 DEF Web!Results
<1>4. CASE r = <<"ok", whole, given>>
    BY <1>1, <1>2, <1>4 DEF Web!Results
<1>5. CASE \E w \in {"ioError", "noSpace", "invalid", "exists"}, v \in {u, failed, closed} :
            r = <<w, b, v>>
    BY <1>2, <1>5 DEF Web!Results
<1> QED
    BY <1>3, <1>4, <1>5, <1>7

LEMMA AbortReturns ==
    ASSUME NEW b, IsStore(b), NEW u \in Handles
    PROVE  /\ IsStore(Web!AbortUpload(b, u)[1])
           /\ Web!AbortUpload(b, u)[1].managing = b.managing
           /\ Web!AbortUpload(b, u)[1].readers = b.readers
           /\ Web!AbortUpload(b, u)[1].uploading = (b.uploading /\ ~u.owner)
BY DEF IsStore, Handles, Web!AbortUpload

LEMMA OpenReads ==
    ASSUME NEW b, IsStore(b), NEW n, NEW r \in Web!OpenFile(b, n, TRUE)
    PROVE  /\ IsStore(r[2]) /\ r[1] \in Web!Results
           /\ r[2].managing = b.managing /\ r[2].uploading = b.uploading
           /\ r[2].readers = IF r[1] = "ok" THEN b.readers + 1 ELSE b.readers
<1> DEFINE read == [b EXCEPT !.readers = @ + 1]
<1>1. /\ IsStore(read) /\ read.readers = b.readers + 1 /\ read.managing = b.managing
      /\ read.uploading = b.uploading
    BY Reads
<1>2. r = <<"ok", read>> \/ \E w \in {"busy", "notFound", "ioError"} : r = <<w, b>>
    BY DEF Web!OpenFile
<1> HIDE DEF read
<1> QED
    BY <1>1, <1>2 DEF Web!Results

LEMMA CloseReturns ==
    ASSUME NEW b, IsStore(b)
    PROVE  /\ IsStore(Web!CloseFile(b))
           /\ Web!CloseFile(b).managing = b.managing
           /\ Web!CloseFile(b).uploading = b.uploading
           /\ Web!CloseFile(b).readers = IF b.readers > 0 THEN b.readers - 1 ELSE b.readers
BY DEF IsStore, Web!CloseFile

LEMMA RemoveKeeps ==
    ASSUME NEW b, IsStore(b), NEW n, NEW r \in Web!RemoveBook(b, n)
    PROVE  /\ IsStore(r[2]) /\ r[1] \in Web!Results
           /\ r[2].managing = b.managing /\ r[2].uploading = b.uploading
           /\ r[2].readers = b.readers
BY DEF IsStore, Web!RemoveBook, Web!Results

LEMMA LeaseBegins ==
    ASSUME NEW b, IsStore(b), NEW r \in Web!BeginManagement(b), r[1] = "ok"
    PROVE  /\ IsStore(r[2]) /\ r[2].managing
           /\ r[2].uploading = b.uploading /\ r[2].readers = b.readers
<1> DEFINE managed == [b EXCEPT !.managing = TRUE, !.part = NoValue]
<1>1. r = <<"ok", managed>> \/ \E w \in {"busy", "ioError"} : r = <<w, b>>
    BY DEF Web!BeginManagement
<1>2. /\ IsStore(managed) /\ managed.managing /\ managed.uploading = b.uploading
      /\ managed.readers = b.readers
    BY Manages
<1> HIDE DEF managed
<1> QED
    BY <1>1, <1>2

LEMMA LeaseReturns ==
    ASSUME NEW b, IsStore(b), Web!EndManagement(b)[1] = "ok"
    PROVE  /\ IsStore(Web!EndManagement(b)[2])
           /\ Web!EndManagement(b)[2].uploading = b.uploading
           /\ Web!EndManagement(b)[2].readers = b.readers
BY DEF IsStore, Web!EndManagement

-----------------------------------------------------------------------------
(* What the steps change.                                                  *)

\* A request whose connection was shut down, or not, is otherwise the same.
SameRequest ==
    /\ wReq' \in Requests
    /\ wReq'.kind = wReq.kind /\ wReq'.step = wReq.step /\ wReq'.tag = wReq.tag
    /\ wReq'.up = wReq.up /\ wReq'.result = wReq.result
    /\ wReq.kind # "none" /\ ~wReq'.cut => ~wReq.cut

LEMMA CutsKeep ==
    ASSUME wReq \in Requests
    PROVE  wReq' = [wReq EXCEPT !.cut = TRUE] => SameRequest
BY DEF Requests, SameRequest

\* Stop's first half: the session is cancelled and a running request cut.
Cancelled(err) ==
    /\ wXfer' \in Transfers /\ wXfer'.st = "stopping" /\ wXfer'.err = (wXfer.err \/ err)
    /\ wApi' \in Apis /\ wApi'.up = wApi.up
    /\ wPoll' \in Polls /\ wPoll'.step = "join"
    /\ SameRequest

LEMMA StopCancels ==
    ASSUME WebTypes, NEW err \in BOOLEAN, Web!StopFirst(err)
    PROVE  Cancelled(err)
<1>1. wXfer' \in Transfers /\ wXfer'.st = "stopping" /\ wXfer'.err = (wXfer.err \/ err)
    BY DEF WebTypes, Transfers, Web!StopFirst
<1>2. wApi' \in Apis /\ wApi'.up = wApi.up
    BY DEF WebTypes, Apis, Web!StopFirst
<1>3. wPoll' \in Polls /\ wPoll'.step = "join"
    BY DEF WebTypes, Polls, Web!StopFirst
<1>4. SameRequest
    <2>1. CASE wReq.kind # "none"
        BY <2>1, CutsKeep DEF WebTypes, Web!StopFirst
    <2>2. CASE wReq.kind = "none"
        BY <2>2 DEF WebTypes, Web!StopFirst, SameRequest
    <2> QED BY <2>1, <2>2
<1> QED
    BY <1>1, <1>2, <1>3, <1>4 DEF Cancelled

\* A handler's step before its answer: it works under a server that is up, is
\* the same request, and keeps the lease; only a commit that succeeds adds to
\* what was kept.
Kept(t) ==
    wReq'.kind = "put" /\ wReq'.step = "answer" /\ wReq'.result \in {"ok", "late"} /\ t = wReq'.tag
Works ==
    /\ wReq.step \in {"sent", "body", "commit"} /\ wApi.up
    /\ wReq' \in Requests /\ wReq'.step \in Working
    /\ wReq'.kind = wReq.kind /\ wReq'.tag = wReq.tag /\ wReq'.cut = wReq.cut
    /\ IsStore(wStore') /\ wStore'.managing = wStore.managing
    /\ wStore'.uploading = wReq'.up.owner /\ wStore'.readers = Reading(wReq')
    /\ wApi' \in Apis /\ wApi'.up /\ wApi'.activity \in {wApi.activity, wNow}
    /\ \A t : t \in wKept' <=> t \in wKept \/ Kept(t)
    /\ UNCHANGED <<wNow, wXfer, wPoll, wPhone>>

\* The three ways the server's own record changes.
LEMMA ApiStamps ==
    ASSUME wApi \in Apis, wNow \in Web!Clock, wApi.up,
           \/ wApi' = wApi
           \/ wApi' = [wApi EXCEPT !.active = TRUE, !.activity = wNow]
           \/ wApi' = [wApi EXCEPT !.activity = wNow]
           \/ wApi' = [wApi EXCEPT !.activity = wNow, !.uploaded = TRUE]
    PROVE  wApi' \in Apis /\ wApi'.up /\ wApi'.activity \in {wApi.activity, wNow}
BY DEF Apis

\* A request that goes on or is answered.
GoesOn(w) == IF w = "ok" THEN "body" ELSE "answer"
LEMMA RequestGoes ==
    ASSUME wReq \in Requests, NEW u \in Handles, NEW w \in Web!Results,
           wReq' = [wReq EXCEPT !.up = u, !.result = w,
                                !.step = IF w = "ok" THEN "body" ELSE "answer"]
    PROVE  /\ wReq' \in Requests /\ wReq'.step = GoesOn(w) /\ wReq'.up = u /\ wReq'.result = w
           /\ wReq'.kind = wReq.kind /\ wReq'.tag = wReq.tag /\ wReq'.cut = wReq.cut
<1>1. \A next \in Working :
         LET r == [wReq EXCEPT !.up = u, !.result = w, !.step = next]
         IN /\ r \in Requests /\ r.step = next /\ r.up = u /\ r.result = w
            /\ r.kind = wReq.kind /\ r.tag = wReq.tag /\ r.cut = wReq.cut
    BY DEF Requests, Working
<1>2. CASE w = "ok"
    <2>1. wReq' = [wReq EXCEPT !.up = u, !.result = w, !.step = "body"]
        BY <1>2
    <2> QED BY <1>1, <1>2, <2>1 DEF Working, GoesOn
<1>3. CASE w # "ok"
    <2>1. wReq' = [wReq EXCEPT !.up = u, !.result = w, !.step = "answer"]
        BY <1>3
    <2> QED BY <1>1, <1>3, <2>1 DEF Working, GoesOn
<1> QED BY <1>2, <1>3
LEMMA RequestEnds ==
    ASSUME wReq \in Requests, NEW u \in Handles, NEW w \in Web!Results,
           wReq' = [wReq EXCEPT !.up = u, !.result = w, !.step = "answer"]
    PROVE  /\ wReq' \in Requests /\ wReq'.step = "answer" /\ wReq'.up = u /\ wReq'.result = w
           /\ wReq'.kind = wReq.kind /\ wReq'.tag = wReq.tag /\ wReq'.cut = wReq.cut
BY DEF Requests, Working
LEMMA RequestAnswers ==
    ASSUME wReq \in Requests, NEW w \in Web!Results \cup {"ended", "timeout"},
           wReq' = [wReq EXCEPT !.step = "answer", !.result = w]
    PROVE  /\ wReq' \in Requests /\ wReq'.step = "answer" /\ wReq'.up = wReq.up /\ wReq'.result = w
           /\ wReq'.kind = wReq.kind /\ wReq'.tag = wReq.tag /\ wReq'.cut = wReq.cut
BY DEF Requests, Working
LEMMA RequestMoves ==
    ASSUME wReq \in Requests, NEW next \in Working, wReq' = [wReq EXCEPT !.step = next]
    PROVE  /\ wReq' \in Requests /\ wReq'.step = next /\ wReq'.up = wReq.up
           /\ wReq'.result = wReq.result
           /\ wReq'.kind = wReq.kind /\ wReq'.tag = wReq.tag /\ wReq'.cut = wReq.cut
BY DEF Requests, Working

LEMMA NoHandle == Web!NoUpload \in Handles /\ ~Web!NoUpload.owner
BY DEF Handles, Web!NoUpload

\* The first line of Handle and what the operation begins with.
LEMMA ArriveWorks ==
    ASSUME WebInv, Web!Arrive
    PROVE  Works
<1> DEFINE begun(w, u) == [wReq EXCEPT !.up = u, !.result = w,
                                       !.step = IF w = "ok" THEN "body" ELSE "answer"]
<1>1. /\ wReq.step = "sent" /\ wApi.up /\ wReq \in Requests /\ IsStore(wStore)
      /\ ~wReq.up.owner /\ ~wStore.uploading /\ wStore.readers = 0
      /\ wReq.up \in Handles /\ wReq.name \in Books \cup {NoValue}
      /\ wReq.kind \in {"put", "get", "remove", "finish"}
      /\ wKept' = wKept /\ UNCHANGED <<wNow, wXfer, wPoll, wPhone>>
    BY DEF WebInv, WebTypes, Lent, Working, Reading, Requests, Web!Arrive, Web!Kinds
<1>2. wApi' \in Apis /\ wApi'.up /\ wApi'.activity \in {wApi.activity, wNow}
    <2>1. wApi' = wApi \/ wApi' = [wApi EXCEPT !.active = TRUE, !.activity = wNow]
        BY DEF Web!Arrive
    <2> QED BY <1>1, <2>1, ApiStamps DEF WebInv, WebTypes
<1>3. CASE wApi.cancelled \/ wApi.finish
    <2>1. wReq' = [wReq EXCEPT !.step = "answer", !.result = "ended"] /\ wStore' = wStore
        BY <1>3 DEF Web!Arrive
    <2>2. /\ wReq' \in Requests /\ wReq'.step = "answer" /\ wReq'.up = wReq.up
          /\ wReq'.result = "ended"
          /\ wReq'.kind = wReq.kind /\ wReq'.tag = wReq.tag /\ wReq'.cut = wReq.cut
        BY <1>1, <2>1, RequestAnswers
    <2>3. wStore'.uploading = wReq'.up.owner
        BY <1>1, <2>1, <2>2 DEF IsStore, Handles
    <2> QED
        BY <1>1, <1>2, <2>1, <2>2, <2>3 DEF Works, Working, Kept, Reading
<1>4. CASE ~(wApi.cancelled \/ wApi.finish)
    <2>1. CASE wReq.kind = "put"
        <3>1. PICK r \in Web!BeginUpload(wStore, wReq.up, wReq.name) :
                 wStore' = r[2] /\ wReq' = begun(r[1], r[3])
            BY <1>4, <2>1 DEF Web!Arrive
        <3>2. /\ IsStore(r[2]) /\ r[3] \in Handles /\ r[1] \in Web!Results \ {"late"}
              /\ r[2].managing = wStore.managing /\ r[2].readers = wStore.readers
              /\ r[1] = "ok" => r[2].uploading /\ r[3].owner
              /\ r[1] # "ok" => r[2] = wStore /\ r[3] = wReq.up
            BY <1>1, BeginLends
        <3>3. /\ wReq \in Requests /\ r[3] \in Handles /\ r[1] \in Web!Results
              /\ wReq' = [wReq EXCEPT !.up = r[3], !.result = r[1],
                                      !.step = IF r[1] = "ok" THEN "body" ELSE "answer"]
            BY <1>1, <3>1, <3>2
        <3>4. /\ wReq' \in Requests /\ wReq'.step = GoesOn(r[1]) /\ wReq'.up = r[3]
              /\ wReq'.result = r[1]
              /\ wReq'.kind = wReq.kind /\ wReq'.tag = wReq.tag /\ wReq'.cut = wReq.cut
            BY <3>3, RequestGoes
        <3>5. wStore'.uploading = wReq'.up.owner
            BY <1>1, <3>1, <3>2, <3>4 DEF IsStore, Handles
        <3> QED
            BY <1>1, <1>2, <2>1, <3>1, <3>2, <3>4, <3>5 DEF Works, Working, Kept, Reading, GoesOn
    <2>2. CASE wReq.kind = "get"
        <3>1. PICK r \in Web!OpenFile(wStore, wReq.name, TRUE) :
                 wStore' = r[2] /\ wReq' = begun(r[1], Web!NoUpload)
            BY <1>4, <2>2 DEF Web!Arrive
        <3>2. /\ IsStore(r[2]) /\ r[1] \in Web!Results
              /\ r[2].managing = wStore.managing /\ r[2].uploading = wStore.uploading
              /\ r[2].readers = IF r[1] = "ok" THEN wStore.readers + 1 ELSE wStore.readers
            BY <1>1, OpenReads, ZenonT(60)
        <3>3. /\ wReq \in Requests /\ Web!NoUpload \in Handles /\ r[1] \in Web!Results
              /\ wReq' = [wReq EXCEPT !.up = Web!NoUpload, !.result = r[1],
                                      !.step = IF r[1] = "ok" THEN "body" ELSE "answer"]
            BY <1>1, <3>1, <3>2, NoHandle
        <3>4. /\ wReq' \in Requests /\ wReq'.step = GoesOn(r[1]) /\ wReq'.up = Web!NoUpload
              /\ wReq'.kind = wReq.kind /\ wReq'.tag = wReq.tag /\ wReq'.cut = wReq.cut
            BY <3>3, RequestGoes
        <3>5. wStore'.uploading = wReq'.up.owner
            BY <1>1, <3>1, <3>2, <3>4, NoHandle DEF IsStore, Handles
        <3>6. wStore'.readers = Reading(wReq')
            BY <1>1, <2>2, <3>1, <3>2, <3>4 DEF Reading, GoesOn
        <3> QED
            BY <1>1, <1>2, <2>2, <3>1, <3>2, <3>4, <3>5, <3>6 DEF Works, Working, Kept, GoesOn
    <2>3. CASE wReq.kind = "remove"
        <3>1. PICK r \in Web!RemoveBook(wStore, wReq.name) :
                 wStore' = r[2] /\ wReq' = [begun(r[1], Web!NoUpload) EXCEPT !.step = "answer"]
            BY <1>4, <2>3 DEF Web!Arrive
        <3>2. /\ IsStore(r[2]) /\ r[1] \in Web!Results
              /\ r[2].managing = wStore.managing /\ r[2].uploading = wStore.uploading
              /\ r[2].readers = wStore.readers
            BY <1>1, RemoveKeeps
        <3>4. /\ wReq' \in Requests /\ wReq'.step = "answer" /\ wReq'.up = Web!NoUpload
              /\ wReq'.kind = wReq.kind /\ wReq'.tag = wReq.tag /\ wReq'.cut = wReq.cut
            BY <1>1, <3>1, <3>2, NoHandle DEF Requests, Working
        <3>5. wStore'.uploading = wReq'.up.owner
            BY <1>1, <3>1, <3>2, <3>4, NoHandle DEF IsStore, Handles
        <3> QED
            BY <1>1, <1>2, <2>3, <3>1, <3>2, <3>4, <3>5 DEF Works, Working, Kept, Reading
    <2>4. CASE wReq.kind = "finish"
        <3>1. wStore' = wStore /\ wReq' = [begun("ok", Web!NoUpload) EXCEPT !.step = "answer"]
            BY <1>4, <2>4 DEF Web!Arrive
        <3>4. /\ wReq' \in Requests /\ wReq'.step = "answer" /\ wReq'.up = Web!NoUpload
              /\ wReq'.kind = wReq.kind /\ wReq'.tag = wReq.tag /\ wReq'.cut = wReq.cut
            BY <1>1, <3>1, NoHandle DEF Requests, Working, Web!Results
        <3>5. wStore'.uploading = wReq'.up.owner
            BY <1>1, <3>1, <3>4, NoHandle DEF IsStore, Handles
        <3> QED
            BY <1>1, <1>2, <2>4, <3>1, <3>4, <3>5 DEF Works, Working, Kept, Reading
    <2> QED BY <1>1, <2>1, <2>2, <2>3, <2>4
<1> QED BY <1>3, <1>4

\* A chunk is read and written, or the request is over.
LEMMA ChunkWorks ==
    ASSUME WebInv, Web!Chunk
    PROVE  Works
<1>1. /\ wReq.kind = "put" /\ wReq.step = "body" /\ wApi.up /\ wReq \in Requests
      /\ IsStore(wStore) /\ wStore.uploading = wReq.up.owner /\ wStore.readers = 0
      /\ wReq.up \in Handles /\ wReq.result \in Web!Results \cup {"ended", "timeout"}
      /\ wKept' = wKept /\ UNCHANGED <<wNow, wXfer, wPoll, wPhone>>
    BY DEF WebInv, WebTypes, Lent, Working, Reading, Requests, Web!Chunk
<1>2. CASE wReq' = [wReq EXCEPT !.step = "answer", !.result = "timeout"] /\ UNCHANGED <<wApi, wStore>>
    <2>1. /\ wReq' \in Requests /\ wReq'.step = "answer" /\ wReq'.up = wReq.up
          /\ wReq'.result = "timeout"
          /\ wReq'.kind = wReq.kind /\ wReq'.tag = wReq.tag /\ wReq'.cut = wReq.cut
        BY <1>1, <1>2, RequestAnswers
    <2> QED
        BY <1>1, <1>2, <2>1 DEF Works, Working, Kept, Reading, WebInv, WebTypes
<1>3. CASE wReq' = [wReq EXCEPT !.step = "commit"] /\ UNCHANGED <<wApi, wStore>>
    <2>1. /\ wReq' \in Requests /\ wReq'.step = "commit" /\ wReq'.up = wReq.up
          /\ wReq'.kind = wReq.kind /\ wReq'.tag = wReq.tag /\ wReq'.cut = wReq.cut
        BY <1>1, <1>3, RequestMoves DEF Working
    <2> QED
        BY <1>1, <1>3, <2>1 DEF Works, Working, Kept, Reading, WebInv, WebTypes
<1>4. CASE \E r \in Web!WriteUpload(wStore, wReq.up, wReq.tag) :
               /\ wStore' = r[2]
               /\ wReq' = [wReq EXCEPT !.up = r[3], !.result = r[1],
                                       !.step = IF r[1] = "ok" THEN "body" ELSE "answer"]
               /\ wApi' = IF r[1] = "ok" THEN [wApi EXCEPT !.activity = wNow] ELSE wApi
    <2>1. PICK r \in Web!WriteUpload(wStore, wReq.up, wReq.tag) :
               /\ wStore' = r[2]
               /\ wReq' = [wReq EXCEPT !.up = r[3], !.result = r[1],
                                       !.step = IF r[1] = "ok" THEN "body" ELSE "answer"]
               /\ wApi' = IF r[1] = "ok" THEN [wApi EXCEPT !.activity = wNow] ELSE wApi
        BY <1>4
    <2>2. /\ IsStore(r[2]) /\ r[3] \in Handles /\ r[1] \in Web!Results \ {"late"}
          /\ r[2].managing = wStore.managing /\ r[2].readers = wStore.readers
          /\ r[2].uploading = wStore.uploading /\ r[3].owner = wReq.up.owner
        BY <1>1, WriteKeeps
    <2>3. /\ wReq \in Requests /\ r[3] \in Handles /\ r[1] \in Web!Results
          /\ wReq' = [wReq EXCEPT !.up = r[3], !.result = r[1],
                                  !.step = IF r[1] = "ok" THEN "body" ELSE "answer"]
        BY <1>1, <2>1, <2>2
    <2>4. /\ wReq' \in Requests /\ wReq'.step = GoesOn(r[1]) /\ wReq'.up = r[3]
          /\ wReq'.result = r[1]
          /\ wReq'.kind = wReq.kind /\ wReq'.tag = wReq.tag /\ wReq'.cut = wReq.cut
        BY <2>3, RequestGoes
    <2>5. wApi' \in Apis /\ wApi'.up /\ wApi'.activity \in {wApi.activity, wNow}
        BY <1>1, <2>1, ApiStamps DEF WebInv, WebTypes
    <2> QED
        BY <1>1, <2>1, <2>2, <2>4, <2>5 DEF Works, Working, Kept, Reading, GoesOn
<1> QED
    BY <1>2, <1>3, <1>4 DEF Web!Chunk

\* The staging file is renamed, or the error is answered.
LEMMA CommitWorks ==
    ASSUME WebInv, Web!Commit
    PROVE  Works
<1>1. /\ wReq.kind = "put" /\ wReq.step = "commit" /\ wApi.up /\ wReq \in Requests
      /\ IsStore(wStore) /\ wStore.uploading = wReq.up.owner /\ wStore.readers = 0
      /\ wReq.up \in Handles
      /\ UNCHANGED <<wNow, wXfer, wPoll, wPhone>>
    BY DEF WebInv, WebTypes, Lent, Working, Reading, Requests, Web!Commit
<1>2. PICK r \in Web!CommitUpload(wStore, wReq.up) :
         /\ wStore' = r[2]
         /\ wReq' = [wReq EXCEPT !.up = r[3], !.result = r[1], !.step = "answer"]
         /\ wApi' = IF r[1] = "ok" THEN [wApi EXCEPT !.activity = wNow, !.uploaded = TRUE] ELSE wApi
         /\ wKept' = IF r[1] \in {"ok", "late"} THEN wKept \cup {wReq.tag} ELSE wKept
    BY DEF Web!Commit
<1>3. /\ IsStore(r[2]) /\ r[3] \in Handles /\ r[1] \in Web!Results
      /\ r[2].managing = wStore.managing /\ r[2].readers = wStore.readers
      /\ r[1] = "ok" => ~r[2].uploading /\ ~r[3].owner
      /\ r[1] # "ok" => r[2].uploading = wStore.uploading /\ r[3].owner = wReq.up.owner
    BY <1>1, CommitReturns
<1>4. /\ wReq' \in Requests /\ wReq'.step = "answer" /\ wReq'.up = r[3]
      /\ wReq'.result = r[1]
      /\ wReq'.kind = wReq.kind /\ wReq'.tag = wReq.tag /\ wReq'.cut = wReq.cut
    BY <1>1, <1>2, <1>3, RequestEnds
<1>5. wApi' \in Apis /\ wApi'.up /\ wApi'.activity \in {wApi.activity, wNow}
    BY <1>1, <1>2, ApiStamps DEF WebInv, WebTypes
<1>6. wStore'.uploading = wReq'.up.owner
    BY <1>1, <1>2, <1>3, <1>4 DEF IsStore, Handles
<1>7. \A t : t \in wKept' <=> t \in wKept \/ Kept(t)
    BY <1>1, <1>2, <1>4 DEF Kept
<1> QED
    BY <1>1, <1>2, <1>3, <1>4, <1>5, <1>6, <1>7 DEF Works, Working, Reading

\* The rest of the book is sent and the file closed.
LEMMA DownloadedWorks ==
    ASSUME WebInv, Web!Downloaded
    PROVE  Works
<1>1. /\ wReq.kind = "get" /\ wReq.step = "body" /\ wApi.up /\ wReq \in Requests
      /\ IsStore(wStore) /\ wStore.uploading = wReq.up.owner /\ wStore.readers = 1
      /\ wKept' = wKept /\ UNCHANGED <<wNow, wXfer, wPoll, wPhone>>
    BY DEF WebInv, WebTypes, Lent, Working, Reading, Requests, Web!Downloaded
<1>2. /\ wReq' = [wReq EXCEPT !.step = "answer"] /\ wStore' = Web!CloseFile(wStore)
      /\ wApi' = [wApi EXCEPT !.activity = wNow]
    BY DEF Web!Downloaded
<1>3. /\ wReq' \in Requests /\ wReq'.step = "answer" /\ wReq'.up = wReq.up
      /\ wReq'.kind = wReq.kind /\ wReq'.tag = wReq.tag /\ wReq'.cut = wReq.cut
    BY <1>1, <1>2, RequestMoves DEF Working
<1>4. /\ IsStore(wStore') /\ wStore'.managing = wStore.managing
      /\ wStore'.uploading = wStore.uploading /\ wStore'.readers = 0
    BY <1>1, <1>2, CloseReturns
<1>5. wApi' \in Apis /\ wApi'.up /\ wApi'.activity \in {wApi.activity, wNow}
    BY <1>1, <1>2, ApiStamps DEF WebInv, WebTypes
<1> QED
    BY <1>1, <1>3, <1>4, <1>5 DEF Works, Working, Kept, Reading

-----------------------------------------------------------------------------
(* Each step preserves the invariant.                                      *)

\* While the phone and the kept uploads stay, a request that is the same keeps
\* what is said of them.
LEMMA HonestStays ==
    ASSUME Honest, SameRequest, UNCHANGED <<wPhone, wKept>>
    PROVE  Honest'
BY DEF Honest, Untouched, SameRequest

\* A request that did not change is the same.
LEMMA RequestStays ==
    ASSUME wReq \in Requests, wReq' = wReq
    PROVE  SameRequest
BY DEF SameRequest

\* A step that leaves the server, the request, the store and the phone alone
\* keeps what they say of each other, if a running session runs on.
Aside == UNCHANGED <<wApi, wReq, wStore, wPhone, wKept>>
LEMMA AsideStays ==
    ASSUME WebInv, Aside, wPoll'.step # "none" => Web!Busy', Web!Busy' <=> Web!Busy
    PROVE  Lent' /\ Honest'
<1>1. Honest'
    BY HonestStays, RequestStays DEF WebInv, WebTypes, Aside
<1>2. Lent'
    BY DEF WebInv, Lent, Aside, Reading
<1> QED BY <1>1, <1>2

LEMMA TickStays ==
    ASSUME WebInv, Web!Tick
    PROVE  WebInv'
<1>1. /\ Web!Busy /\ Web!Since(wNow, wPoll.at) < MaxLag /\ wNow' = (wNow + 1) % Wrap
      /\ wXfer' = wXfer /\ wPoll' = wPoll /\ Aside
    BY DEF Web!Tick, Web!device, Aside
<1>2. /\ wNow \in Web!Clock /\ wPoll.at \in Web!Clock /\ wXfer.started \in Web!Clock
      /\ wApi.activity \in Web!Clock
    BY DEF WebInv, WebTypes, Polls, Transfers, Apis
<1>3. wNow' = IF wNow + 1 < Wrap THEN wNow + 1 ELSE 0
    BY <1>1, <1>2, NextTick
<1>4. wNow' \in Web!Clock
    BY <1>2, <1>3, WebConstantsAre DEF Web!Clock
<1>5. WebTypes'
    BY <1>1, <1>4 DEF WebInv, WebTypes, Aside, IsStore
<1>6. Lent' /\ Honest'
    <2>1. Web!Busy' <=> Web!Busy
        BY <1>1 DEF Web!Busy
    <2> QED BY <1>1, <2>1, AsideStays DEF WebInv, Lent
<1>7. InTime'
    <2>1. CASE wXfer.st \in {"starting", "sharing"}
        <3> DEFINE e == Web!Since(wNow, wXfer.started)
                   a == Web!Since(wPoll.at, wXfer.started)
                   c == Web!Since(wApi.activity, wXfer.started)
        <3>1. e \in 0..(Wrap - 1) /\ a \in 0..(Wrap - 1) /\ c \in 0..(Wrap - 1)
            BY <1>2, AgeType
        <3>2. /\ a <= e /\ e <= a + MaxLag
              /\ wPoll.step = "none" => a < SessionFor
              /\ wPoll.step = "poll" => a < SessionFor + MaxLag
              /\ wXfer.st = "sharing" => c <= e
              /\ wPoll.step \in {"none", "poll"}
            BY <2>1 DEF WebInv, WebTypes, Polls, InTime, Elapsed
        <3>3. Web!Since(wNow, wPoll.at) = IF a <= e THEN e - a ELSE e - a + Wrap
            BY <1>2, Between
        <3>4. e - a < MaxLag
            BY <1>1, <3>2, <3>3
        <3>5. e + 1 < Wrap
            BY <3>1, <3>2, <3>4, WebConstantsAre
        <3>6. Web!Since(wNow', wXfer.started) = e + 1
            <4>1. /\ e = IF wXfer.started <= wNow THEN wNow - wXfer.started
                         ELSE wNow - wXfer.started + Wrap
                  /\ Web!Since(wNow', wXfer.started)
                       = IF wXfer.started <= wNow' THEN wNow' - wXfer.started
                         ELSE wNow' - wXfer.started + Wrap
                BY <1>2, <1>4, AgeIs
            <4> HIDE DEF e
            <4> QED BY <1>2, <1>3, <3>1, <3>5, <4>1, WebConstantsAre DEF Web!Clock
        <3>7. Elapsed(wNow)' = e + 1 /\ Elapsed(wPoll.at)' = a /\ Elapsed(wApi.activity)' = c
            BY <1>1, <3>6 DEF Elapsed, Aside
        <3> HIDE DEF e, a, c
        <3> QED BY <1>1, <2>1, <3>1, <3>2, <3>4, <3>7, WebConstantsAre DEF InTime
    <2>2. CASE wXfer.st \notin {"starting", "sharing"}
        BY <1>1, <2>2 DEF WebInv, InTime
    <2> QED BY <2>1, <2>2
<1> QED BY <1>5, <1>6, <1>7 DEF WebInv

LEMMA StartStays ==
    ASSUME WebInv, Web!Start
    PROVE  WebInv'
<1>1. PICK r \in Web!BeginManagement(wStore) : r[1] = "ok" /\ wStore' = r[2]
    BY DEF Web!Start
<1>2. /\ ~Web!Busy /\ wPoll.step = "none" /\ wNow' = StartsAt
      /\ wXfer' = [Web!Off EXCEPT !.st = "starting", !.started = StartsAt, !.starting = TRUE]
      /\ wPoll' = [wPoll EXCEPT !.at = StartsAt]
      /\ UNCHANGED <<wApi, wReq, wPhone, wKept>>
    BY DEF Web!Start
<1>3. /\ IsStore(wStore') /\ wStore'.managing
      /\ wStore'.uploading = wStore.uploading /\ wStore'.readers = wStore.readers
    BY <1>1, LeaseBegins DEF WebInv, WebTypes
<1>4. StartsAt \in Web!Clock /\ 0 \in Web!Clock
    BY WebConstantsAre DEF Web!Clock
<1>5. wXfer' \in Transfers /\ wXfer'.st = "starting" /\ wXfer'.started = StartsAt
    BY <1>2, <1>4 DEF Transfers, Web!Off
<1>6. wPoll' \in Polls /\ wPoll'.step = "none" /\ wPoll'.at = StartsAt
    BY <1>2, <1>4 DEF WebInv, WebTypes, Polls
<1>7. WebTypes'
    BY <1>2, <1>3, <1>4, <1>5, <1>6 DEF WebInv, WebTypes
<1>8. Honest'
    BY <1>2, HonestStays, RequestStays DEF WebInv, WebTypes
<1>9. Lent'
    BY <1>2, <1>3, <1>5, <1>6 DEF WebInv, Lent, Web!Busy, Reading
<1>10. InTime'
    <2>1. Web!Since(StartsAt, StartsAt) = 0
        BY <1>4, AgeIs, WebConstantsAre DEF Web!Clock
    <2> QED BY <1>2, <1>5, <1>6, <2>1, WebConstantsAre DEF InTime, Elapsed
<1> QED BY <1>7, <1>8, <1>9, <1>10 DEF WebInv

\* The radio is none of the invariant's business; the clocks stay.
LEMMA RadioStays ==
    ASSUME WebInv, Web!RadioChanges
    PROVE  WebInv'
<1>1. UNCHANGED <<wNow, wXfer, wPoll>> /\ Aside
    BY DEF Web!RadioChanges, Aside
<1>2. Lent' /\ Honest'
    BY <1>1, AsideStays DEF WebInv, Lent, Web!Busy
<1> QED
    BY <1>1, <1>2 DEF WebInv, WebTypes, IsStore, InTime, Elapsed, Aside

LEMMA StopFailsStays ==
    ASSUME WebInv, Web!StopFails
    PROVE  WebInv'
<1>1. /\ wPoll.step = "join" /\ wXfer' = [wXfer EXCEPT !.err = TRUE]
      /\ wPoll' = [wPoll EXCEPT !.step = "none", !.allowed = TRUE] /\ wNow' = wNow /\ Aside
    BY DEF Web!StopFails, Aside
<1>2. wXfer' \in Transfers /\ wXfer'.st = wXfer.st /\ wXfer'.err
    BY <1>1 DEF WebInv, WebTypes, Transfers
<1>3. wPoll' \in Polls /\ wPoll'.step = "none"
    BY <1>1 DEF WebInv, WebTypes, Polls
<1>4. Lent' /\ Honest'
    <2>1. Web!Busy' <=> Web!Busy
        BY <1>2 DEF Web!Busy
    <2> QED BY <1>1, <1>3, <2>1, AsideStays
<1>5. WebTypes'
    BY <1>1, <1>2, <1>3 DEF WebInv, WebTypes, Aside
<1>6. wXfer.st = "stopping"
    BY <1>1 DEF WebInv, InTime
<1>7. InTime'
    BY <1>2, <1>3, <1>6 DEF InTime
<1> QED BY <1>4, <1>5, <1>7 DEF WebInv

\* Stop's first half, whoever runs it.
LEMMA CancelledStays ==
    ASSUME WebInv, Web!Busy, Cancelled(TRUE) \/ Cancelled(FALSE),
           UNCHANGED <<wNow, wStore, wPhone, wKept>>
    PROVE  WebInv'
<1>1. /\ wXfer' \in Transfers /\ wXfer'.st = "stopping"
      /\ wApi' \in Apis /\ wApi'.up = wApi.up
      /\ wPoll' \in Polls /\ wPoll'.step = "join" /\ SameRequest
    BY DEF Cancelled
<1>2. WebTypes'
    BY <1>1 DEF WebInv, WebTypes, SameRequest
<1>3. Lent'
    BY <1>1 DEF WebInv, Lent, SameRequest, Web!Busy, Reading
<1>4. Honest'
    BY <1>1, HonestStays DEF WebInv
<1>5. InTime'
    BY <1>1 DEF InTime
<1> QED BY <1>2, <1>3, <1>4, <1>5 DEF WebInv

LEMMA OwnerStopsStays ==
    ASSUME WebInv, Web!OwnerStops
    PROVE  WebInv'
<1>1. Web!Busy /\ Web!StopFirst(FALSE) /\ UNCHANGED <<wNow, wStore, wPhone, wKept>>
    BY DEF Web!OwnerStops
<1>2. Cancelled(FALSE)
    BY <1>1, StopCancels DEF WebInv
<1> QED BY <1>1, <1>2, CancelledStays

LEMMA PollBeginsStays ==
    ASSUME WebInv, Web!PollBegins
    PROVE  WebInv'
<1>1. /\ Web!Busy /\ wPoll.step = "none" /\ wPoll'.at = wNow /\ wPoll'.step = "poll"
      /\ UNCHANGED <<wNow, wXfer>> /\ Aside
    BY DEF Web!PollBegins, Aside
<1>2. wPoll' \in Polls
    BY DEF WebInv, WebTypes, Web!PollBegins, Polls
<1>3. Lent' /\ Honest'
    <2>1. Web!Busy' <=> Web!Busy
        BY <1>1 DEF Web!Busy
    <2> QED BY <1>1, <2>1, AsideStays
<1>4. WebTypes'
    BY <1>1, <1>2 DEF WebInv, WebTypes, Aside
<1>5. InTime'
    <2>1. /\ wNow \in Web!Clock /\ wPoll.at \in Web!Clock /\ wXfer.started \in Web!Clock
        BY DEF WebInv, WebTypes, Polls, Transfers
    <2>2. /\ Web!Since(wNow, wXfer.started) \in 0..(Wrap - 1)
          /\ Web!Since(wPoll.at, wXfer.started) \in 0..(Wrap - 1)
        BY <2>1, AgeType
    <2> QED BY <1>1, <2>2, WebConstantsAre DEF WebInv, InTime, Elapsed, Aside
<1> QED BY <1>3, <1>4, <1>5 DEF WebInv

\* A poll that went through its checks is within the session.
LEMMA PolledInTime ==
    ASSUME WebInv, wPoll.step = "poll", ~Web!MustStop(wXfer, wPoll.at)
    PROVE  wXfer.st # "stopping" /\ Elapsed(wPoll.at) < SessionFor
<1>1. Web!Since(wPoll.at, wXfer.started) \in 0..(Wrap - 1)
    BY AgeType DEF WebInv, WebTypes, Polls, Transfers
<1> QED BY <1>1, WebConstantsAre DEF Web!MustStop, Elapsed

LEMMA PollStartsStays ==
    ASSUME WebInv, Web!PollStartsRadio
    PROVE  WebInv'
<1>1. /\ wXfer' = [wXfer EXCEPT !.starting = FALSE] /\ UNCHANGED <<wNow, wPoll>> /\ Aside
    BY DEF Web!PollStartsRadio, Aside
<1>2. /\ wXfer' \in Transfers /\ wXfer'.st = wXfer.st /\ wXfer'.err = wXfer.err
      /\ wXfer'.started = wXfer.started
    BY <1>1 DEF WebInv, WebTypes, Transfers
<1>3. Lent' /\ Honest'
    <2>1. Web!Busy' <=> Web!Busy
        BY <1>2 DEF Web!Busy
    <2> QED BY <1>1, <2>1, AsideStays DEF WebInv, Lent
<1>4. WebTypes'
    BY <1>1, <1>2 DEF WebInv, WebTypes, Aside
<1>5. InTime'
    BY <1>1, <1>2 DEF WebInv, InTime, Elapsed, Aside
<1> QED BY <1>3, <1>4, <1>5 DEF WebInv

LEMMA PollOpensStays ==
    ASSUME WebInv, Web!PollOpensServer
    PROVE  WebInv'
<1>1. /\ wPoll.step = "poll" /\ ~Web!MustStop(wXfer, wPoll.at) /\ wXfer.st = "starting"
      /\ UNCHANGED <<wNow, wStore, wPhone, wKept>>
    BY DEF Web!PollOpensServer
<1>2. CASE Web!StopFirst(TRUE)
    <2>1. Cancelled(TRUE) /\ Web!Busy
        BY <1>1, <1>2, StopCancels DEF WebInv, Web!Busy
    <2> QED BY <1>1, <2>1, CancelledStays
<1>3. CASE /\ wApi' = [Web!Closed EXCEPT !.up = TRUE, !.cancelled = FALSE, !.activity = wPoll.at]
           /\ wXfer' = [wXfer EXCEPT !.st = "sharing"]
           /\ UNCHANGED <<wPoll, wReq>>
    <2>1. wPoll.at \in Web!Clock /\ wNow \in Web!Clock /\ wXfer.started \in Web!Clock
        BY DEF WebInv, WebTypes, Polls, Transfers
    <2>2. wApi' \in Apis /\ wApi'.up /\ wApi'.activity = wPoll.at
        BY <1>3, <2>1 DEF Apis, Web!Closed
    <2>3. /\ wXfer' \in Transfers /\ wXfer'.st = "sharing" /\ wXfer'.err = wXfer.err
          /\ wXfer'.started = wXfer.started
        BY <1>3 DEF WebInv, WebTypes, Transfers
    <2>4. WebTypes'
        BY <1>1, <1>3, <2>2, <2>3 DEF WebInv, WebTypes
    <2>5. Honest'
        BY <1>1, <1>3, HonestStays, RequestStays DEF WebInv, WebTypes
    <2>6. Lent'
        BY <1>1, <1>3, <2>2, <2>3 DEF WebInv, Lent, Web!Busy, Reading
    <2>7. InTime'
        BY <1>1, <1>3, <2>2, <2>3 DEF WebInv, InTime, Elapsed
    <2> QED BY <2>4, <2>5, <2>6, <2>7 DEF WebInv
<1> QED BY <1>2, <1>3 DEF Web!PollOpensServer

\* A poll that ends and leaves the session running.
LEMMA PolledStays ==
    ASSUME WebInv, wPoll.step = "poll", ~Web!MustStop(wXfer, wPoll.at),
           wPoll' = [wPoll EXCEPT !.step = "none", !.allowed = TRUE],
           \/ wXfer' = wXfer
           \/ wXfer' = [wXfer EXCEPT !.finishing = TRUE, !.finishAt = wPoll.at],
           wNow' = wNow, Aside
    PROVE  WebInv'
<1>1. wPoll' \in Polls /\ wPoll'.step = "none" /\ wPoll'.at = wPoll.at
    BY DEF WebInv, WebTypes, Polls
<1>2. /\ wXfer' \in Transfers /\ wXfer'.st = wXfer.st /\ wXfer'.err = wXfer.err
      /\ wXfer'.started = wXfer.started
    BY DEF WebInv, WebTypes, Transfers, Polls
<1>3. Lent' /\ Honest'
    <2>1. Web!Busy' <=> Web!Busy
        BY <1>2 DEF Web!Busy
    <2> QED BY <1>1, <2>1, AsideStays
<1>4. WebTypes'
    BY <1>1, <1>2 DEF WebInv, WebTypes, Aside
<1>5. InTime'
    BY <1>1, <1>2, PolledInTime DEF WebInv, InTime, Elapsed, Aside
<1> QED BY <1>3, <1>4, <1>5 DEF WebInv

LEMMA PollProgressStays ==
    ASSUME WebInv, Web!PollProgress
    PROVE  WebInv'
<1>1. /\ wPoll.step = "poll" /\ ~Web!MustStop(wXfer, wPoll.at) /\ wXfer.st = "sharing"
      /\ UNCHANGED <<wNow, wStore, wPhone, wKept>>
    BY DEF Web!PollProgress
<1>2. CASE Web!StopFirst(FALSE)
    <2>1. Cancelled(FALSE) /\ Web!Busy
        BY <1>1, <1>2, StopCancels DEF WebInv, Web!Busy
    <2> QED BY <1>1, <2>1, CancelledStays
<1>3. CASE /\ wPoll' = [wPoll EXCEPT !.step = "none", !.allowed = TRUE] /\ UNCHANGED <<wApi, wReq>>
           /\ \/ wXfer' = wXfer
              \/ wXfer' = [wXfer EXCEPT !.finishing = TRUE, !.finishAt = wPoll.at]
    BY <1>1, <1>3, PolledStays DEF Aside
<1> QED BY <1>2, <1>3 DEF Web!PollProgress

LEMMA PollWaitsStays ==
    ASSUME WebInv, Web!PollWaits
    PROVE  WebInv'
BY PolledStays DEF Web!PollWaits, Aside

LEMMA PollStopsStays ==
    ASSUME WebInv, Web!PollStops
    PROVE  WebInv'
<1> DEFINE wrong == ~wPoll.allowed \/ wXfer.st # "stopping"
<1>1. wPoll.step = "poll" /\ Web!StopFirst(wrong) /\ UNCHANGED <<wNow, wStore, wPhone, wKept>>
    BY DEF Web!PollStops
<1>2. wrong = TRUE \/ wrong = FALSE
    BY DEF WebInv, WebTypes, Polls
<1> HIDE DEF wrong
<1>3. Cancelled(TRUE) \/ Cancelled(FALSE)
    BY <1>1, <1>2, StopCancels DEF WebInv
<1>4. Web!Busy
    BY <1>1 DEF WebInv, Lent
<1> QED BY <1>1, <1>3, <1>4, CancelledStays

LEMMA WorksStays ==
    ASSUME WebInv, Works
    PROVE  WebInv'
<1>1. WebTypes'
    BY DEF Works, WebInv, WebTypes
<1>2. Lent'
    <2>1. wReq.step # "none" /\ wReq.kind # "none" /\ wApi.up /\ Web!Busy /\ wStore.managing
        BY DEF Works, WebInv, Lent
    <2> QED BY <2>1 DEF Works, WebInv, Lent, Web!Busy, Working
<1>3. Honest'
    <2>1. /\ wPhone' = wPhone /\ wReq'.kind = wReq.kind /\ wReq'.tag = wReq.tag
          /\ wReq'.cut = wReq.cut /\ wReq.kind # "none"
          /\ wReq.step \in {"sent", "body", "commit"} /\ wReq'.step \in Working
          /\ wReq'.step # "none"
          /\ \A t : t \in wKept' <=> t \in wKept \/ Kept(t)
        BY DEF Works, WebInv, Lent, Working
    <2>2. \A t \in Attempts :
             /\ t \in wPhone.left => Untouched(t)
             /\ wPhone.outcome[t] = "saved" => t \in wKept
             /\ wPhone.outcome[t] = "refused" => t \notin wKept /\ wReq.tag # t
        BY <2>1 DEF WebInv, Honest
    <2>3. \A t \in Attempts :
             /\ t \in wPhone'.left => Untouched(t)'
             /\ wPhone'.outcome[t] = "saved" => t \in wKept'
             /\ wPhone'.outcome[t] = "refused" => t \notin wKept'
             /\ wPhone'.outcome[t] \in {"saved", "refused"} => wReq'.tag # t \/ wReq'.step = "none"
        BY <2>1, <2>2 DEF Untouched, Kept, WebInv, Honest
    <2>4. wReq'.kind = "put" =>
            IF wReq'.step = "answer" THEN (wReq'.result \in {"ok", "late"}) = (wReq'.tag \in wKept')
            ELSE wReq'.tag \notin wKept'
        BY <2>1 DEF Kept, WebInv, Honest
    <2> QED BY <2>1, <2>3, <2>4 DEF WebInv, Honest
<1>4. InTime'
    <2>1. wNow \in Web!Clock /\ wPoll.at \in Web!Clock /\ wXfer.started \in Web!Clock
        BY DEF WebInv, WebTypes, Polls, Transfers
    <2>2. Elapsed(wNow) \in 0..(Wrap - 1)
        BY <2>1, AgeType DEF Elapsed
    <2>3. Elapsed(wApi.activity)' \in {Elapsed(wApi.activity), Elapsed(wNow)}
        BY DEF Works, Elapsed
    <2>4. /\ wXfer' = wXfer /\ wPoll' = wPoll /\ Elapsed(wNow)' = Elapsed(wNow)
          /\ Elapsed(wPoll.at)' = Elapsed(wPoll.at)
        BY DEF Works, Elapsed
    <2>5. Elapsed(wNow) <= Elapsed(wNow)
        BY <2>2
    <2> QED BY <2>3, <2>4, <2>5 DEF WebInv, InTime
<1> QED BY <1>1, <1>2, <1>3, <1>4 DEF WebInv

\* What the phone's thread is told when it is free again.
LEMMA FreedIs ==
    ASSUME wPhone \in Phones, NEW word \in Words,
           wPhone' = Web!Freed(word)
    PROVE  /\ wPhone' \in Phones /\ wPhone'.tag = NoValue /\ wPhone'.left = wPhone.left
           /\ \A t \in Attempts :
                 wPhone'.outcome[t] = IF wPhone.live /\ wPhone.tag = t THEN word
                                      ELSE wPhone.outcome[t]
<1> DEFINE told == Web!Told(wPhone, word)
<1>1. /\ told \in [Attempts -> Words]
      /\ \A t \in Attempts : told[t] = IF wPhone.live /\ wPhone.tag = t THEN word
                                       ELSE wPhone.outcome[t]
    <2>1. CASE wPhone.live /\ wPhone.tag # NoValue
        <3>1. told = [wPhone.outcome EXCEPT ![wPhone.tag] = word]
            BY <2>1 DEF Web!Told
        <3> HIDE DEF told
        <3>2. wPhone.outcome \in [Attempts -> Words]
            BY DEF Phones
        <3> QED BY <2>1, <3>1, <3>2
    <2>2. CASE ~(wPhone.live /\ wPhone.tag # NoValue)
        <3>1. told = wPhone.outcome
            BY <2>2 DEF Web!Told
        <3> HIDE DEF told
        <3>2. \A t \in Attempts : t # NoValue
            BY WebConstantsAre
        <3> QED BY <2>2, <3>1, <3>2 DEF Phones
    <2> QED BY <2>1, <2>2
<1>2. wPhone' = [wPhone EXCEPT !.thread = "free", !.live = FALSE, !.tag = NoValue, !.outcome = told]
    BY DEF Web!Freed
<1> HIDE DEF told
<1>3. /\ wPhone' \in Phones /\ wPhone'.tag = NoValue /\ wPhone'.left = wPhone.left
      /\ wPhone'.outcome = told
    BY <1>1, <1>2 DEF Phones
<1> QED BY <1>1, <1>3

\* The handler is done: nothing is in it.
Finished ==
    /\ wReq' \in Requests /\ wReq'.kind = "none" /\ wReq'.step = "none" /\ wReq'.tag = NoValue
    /\ wReq'.up = Web!NoUpload
LEMMA NothingRequested ==
    ASSUME wReq' = Web!NoRequest
    PROVE  Finished
BY NoHandle DEF Finished, Requests, Web!NoRequest, Web!Results

\* The phone's thread hears a word of the upload it waits for, or nothing.
Hears(word) ==
    /\ wPhone' \in Phones /\ wPhone'.left = wPhone.left /\ wPhone'.tag \in {wPhone.tag, NoValue}
    /\ \A t \in Attempts : \/ wPhone'.outcome[t] = wPhone.outcome[t]
                           \/ wPhone.tag = t /\ wPhone'.outcome[t] = word

\* When the request is finished or its connection cut, and the phone hears a
\* true word or that it cannot know, all is well.
LEMMA HonestEnds ==
    ASSUME WebInv, wKept' = wKept, NEW word, Hears(word),
           Finished \/ (SameRequest /\ wReq'.cut),
           \/ word \in {"unsure", "landed"}
           \/ /\ Finished /\ wPhone.tag = wReq.tag
              /\ wReq.kind = "put" => word = IF wReq.tag \in wKept THEN "saved" ELSE "refused"
    PROVE  Honest'
<1>0. \A t \in Attempts : t # NoValue
    BY WebConstantsAre
<1>1. wReq'.tag \in {wReq.tag, NoValue}
    BY DEF Finished, SameRequest
<1>2. \A t \in Attempts :
         /\ t \in wPhone'.left => Untouched(t)'
         /\ wPhone'.outcome[t] = "saved" => t \in wKept'
         /\ wPhone'.outcome[t] = "refused" => t \notin wKept'
         /\ wPhone'.outcome[t] \in {"saved", "refused"} => wReq'.tag # t \/ wReq'.step = "none"
    <2> TAKE t \in Attempts
    <2>1. t \in wPhone'.left => Untouched(t)'
        BY <1>0, <1>1 DEF WebInv, Honest, Untouched, Hears
    <2>2. CASE wPhone'.outcome[t] = wPhone.outcome[t]
        BY <1>0, <2>1, <2>2 DEF WebInv, Honest, Finished, SameRequest
    <2>3. CASE wPhone.tag = t /\ wPhone'.outcome[t] = word /\ word \in {"unsure", "landed"}
        BY <2>1, <2>3
    <2>4. CASE wPhone.tag = t /\ wPhone'.outcome[t] = word /\ word \notin {"unsure", "landed"}
        <3>1. wReq.tag = t /\ wReq.kind = "put" /\ Finished
            BY <1>0, <2>4 DEF WebInv, Honest
        <3> QED BY <2>1, <2>4, <3>1 DEF Finished
    <2> QED BY <2>2, <2>3, <2>4 DEF Hears
<1>3. /\ wReq'.kind = "put" <=> wReq'.tag # NoValue
      /\ wReq'.kind # "none" /\ ~wReq'.cut => wPhone'.tag = wReq'.tag
      /\ wReq'.kind = "put" =>
            IF wReq'.step = "answer" THEN (wReq'.result \in {"ok", "late"}) = (wReq'.tag \in wKept')
            ELSE wReq'.tag \notin wKept'
    <2>1. CASE Finished
        BY <2>1 DEF Finished
    <2>2. CASE SameRequest /\ wReq'.cut
        BY <2>2 DEF WebInv, Honest, SameRequest
    <2> QED BY <2>1, <2>2
<1> QED BY <1>2, <1>3 DEF Honest

LEMMA AnswerStays ==
    ASSUME WebInv, Web!Answer
    PROVE  WebInv'
<1>1. /\ wReq.step = "answer" /\ wReq' = Web!NoRequest /\ wStore' = Web!AbortUpload(wStore, wReq.up)[1]
      /\ wPhone' = IF wReq.cut THEN wPhone ELSE Web!Freed(Web!AnswerOf(wReq.result))
      /\ wApi' = IF wReq.result = "ended" THEN wApi
                 ELSE [wApi EXCEPT !.active = FALSE, !.finish = @ \/ wReq.kind = "finish"]
      /\ UNCHANGED <<wNow, wXfer, wPoll, wKept>>
    BY DEF Web!Answer
<1>2. Finished
    BY <1>1, NothingRequested
<1>3. wReq \in Requests /\ wReq.up \in Handles /\ IsStore(wStore) /\ wPhone \in Phones /\ wApi \in Apis
    BY DEF WebInv, WebTypes, Requests
<1>4. /\ IsStore(wStore') /\ wStore'.managing = wStore.managing /\ wStore'.readers = wStore.readers
      /\ wStore'.uploading = (wStore.uploading /\ ~wReq.up.owner)
    BY <1>1, <1>3, AbortReturns
<1>5. wApi' \in Apis /\ wApi'.up = wApi.up /\ wApi'.activity = wApi.activity
    BY <1>1, <1>3 DEF Apis
<1>6. wPhone' \in Phones /\ Honest'
    <2>1. CASE wReq.cut
        <3>1. Hears("unsure")
            BY <1>1, <1>3, <2>1 DEF Hears
        <3> QED BY <1>1, <1>2, <1>3, <2>1, <3>1, HonestEnds
    <2>2. CASE ~wReq.cut
        <3> DEFINE word == Web!AnswerOf(wReq.result)
        <3>1. word \in Words
            BY DEF Web!AnswerOf, Words
        <3>2. /\ wPhone' \in Phones /\ wPhone'.tag = NoValue /\ wPhone'.left = wPhone.left
              /\ \A t \in Attempts :
                    wPhone'.outcome[t] = IF wPhone.live /\ wPhone.tag = t THEN word
                                         ELSE wPhone.outcome[t]
            BY <1>1, <1>3, <2>2, <3>1, FreedIs
        <3>3. wPhone.tag = wReq.tag
            BY <1>1, <2>2 DEF WebInv, Honest, Lent
        <3>4. word \in {"unsure", "landed"} \/
              (wReq.kind = "put" => word = IF wReq.tag \in wKept THEN "saved" ELSE "refused")
            BY <1>1 DEF WebInv, Honest, Web!AnswerOf
        <3> HIDE DEF word
        <3>5. Hears(word)
            BY <3>2 DEF Hears
        <3> QED BY <1>1, <1>2, <3>1, <3>2, <3>3, <3>4, <3>5, HonestEnds
    <2> QED BY <2>1, <2>2
<1>7. WebTypes'
    BY <1>1, <1>2, <1>4, <1>5, <1>6 DEF WebInv, WebTypes, Finished
<1>8. Lent'
    <2>1. ~wReq'.up.owner /\ wReq'.up.owner = FALSE
        BY <1>2, NoHandle DEF Finished, Handles
    <2>2. wStore'.uploading = FALSE
        BY <1>4 DEF WebInv, Lent, IsStore
    <2>3. wStore'.readers = 0
        BY <1>1, <1>4 DEF WebInv, Lent, Reading
    <2> QED BY <1>1, <1>2, <1>4, <1>5, <2>1, <2>2, <2>3
            DEF WebInv, Lent, Finished, Reading, Working, Web!Busy
<1>9. InTime'
    BY <1>1, <1>5 DEF WebInv, InTime, Elapsed
<1> QED BY <1>6, <1>7, <1>8, <1>9 DEF WebInv

LEMMA ServerStopsStays ==
    ASSUME WebInv, Web!ServerStops
    PROVE  WebInv'
<1>1. /\ wPoll.step = "join" /\ wReq.step \in {"none", "sent"} /\ wApi' = Web!Closed
      /\ UNCHANGED <<wNow, wXfer, wPoll, wReq, wStore, wPhone, wKept>>
    BY DEF Web!ServerStops, Web!Joined
<1>2. 0 \in Web!Clock
    BY WebConstantsAre DEF Web!Clock
<1>3. wApi' \in Apis /\ ~wApi'.up
    BY <1>1, <1>2 DEF Apis, Web!Closed
<1>4. WebTypes'
    BY <1>1, <1>3 DEF WebInv, WebTypes
<1>5. Honest'
    BY <1>1, HonestStays, RequestStays DEF WebInv, WebTypes
<1>6. Lent'
    BY <1>1, <1>3 DEF WebInv, Lent, Web!Busy, Reading, Working
<1>7. InTime'
    BY <1>1 DEF WebInv, InTime
<1> QED BY <1>4, <1>5, <1>6, <1>7 DEF WebInv

LEMMA LeaseEndsStays ==
    ASSUME WebInv, Web!LeaseEnds
    PROVE  WebInv'
<1>1. /\ wPoll.step = "join" /\ wReq.step \in {"none", "sent"} /\ ~wApi.up
      /\ Web!EndManagement(wStore)[1] = "ok" /\ wStore' = Web!EndManagement(wStore)[2]
      /\ wXfer' = [Web!Off EXCEPT !.st = IF wXfer.err THEN "failed" ELSE "complete"]
      /\ wPoll' = Web!NoPoll /\ wNow' = 0 /\ UNCHANGED <<wApi, wReq, wPhone, wKept>>
    BY DEF Web!LeaseEnds, Web!Joined
<1>2. 0 \in Web!Clock
    BY WebConstantsAre DEF Web!Clock
<1>3. wXfer' \in Transfers /\ wXfer'.st \in {"failed", "complete"}
    BY <1>1, <1>2 DEF Transfers, Web!Off
<1>4. wPoll' \in Polls /\ wPoll'.step = "none"
    BY <1>1, <1>2 DEF Polls, Web!NoPoll
<1>5. /\ IsStore(wStore') /\ wStore'.uploading = wStore.uploading
      /\ wStore'.readers = wStore.readers
    BY <1>1, LeaseReturns DEF WebInv, WebTypes
<1>6. WebTypes'
    BY <1>1, <1>2, <1>3, <1>4, <1>5 DEF WebInv, WebTypes
<1>7. Honest'
    BY <1>1, HonestStays, RequestStays DEF WebInv, WebTypes
<1>8. Lent'
    BY <1>1, <1>3, <1>4, <1>5 DEF WebInv, Lent, Web!Busy, Reading, Working
<1>9. InTime'
    BY <1>3, <1>4 DEF InTime
<1> QED BY <1>6, <1>7, <1>8, <1>9 DEF WebInv

LEMMA CancelStays ==
    ASSUME WebInv, Web!Cancel
    PROVE  WebInv'
<1>1. /\ wPhone' = [wPhone EXCEPT !.live = FALSE, !.outcome = Web!Told(wPhone, "unsure")]
      /\ wReq' = [wReq EXCEPT !.cut = TRUE] /\ wKept' = wKept
      /\ UNCHANGED <<wNow, wXfer, wPoll, wApi, wStore>>
    BY DEF Web!Cancel, Web!device
<1>2. SameRequest /\ wReq'.cut
    BY <1>1, CutsKeep DEF WebInv, WebTypes, Requests
<1> DEFINE told == Web!Told(wPhone, "unsure")
<1>3. /\ told \in [Attempts -> Words]
      /\ \A t \in Attempts : \/ told[t] = wPhone.outcome[t]
                             \/ wPhone.tag = t /\ told[t] = "unsure"
    <2>1. CASE wPhone.live /\ wPhone.tag # NoValue
        <3>1. told = [wPhone.outcome EXCEPT ![wPhone.tag] = "unsure"]
            BY <2>1 DEF Web!Told
        <3> HIDE DEF told
        <3>2. wPhone.outcome \in [Attempts -> Words]
            BY DEF WebInv, WebTypes, Phones
        <3>3. "unsure" \in Words
            BY DEF Words
        <3> QED BY <3>1, <3>2, <3>3
    <2>2. CASE ~(wPhone.live /\ wPhone.tag # NoValue)
        BY <2>2 DEF Web!Told, WebInv, WebTypes, Phones
    <2> QED BY <2>1, <2>2
<1> HIDE DEF told
<1>4. /\ wPhone' \in Phones /\ wPhone'.tag = wPhone.tag /\ wPhone'.left = wPhone.left
      /\ wPhone'.outcome = told
    BY <1>1, <1>3 DEF WebInv, WebTypes, Phones, told
<1>5. Honest'
    <2>1. Hears("unsure")
        BY <1>3, <1>4 DEF Hears
    <2> QED BY <1>1, <1>2, <2>1, HonestEnds
<1>6. WebTypes'
    BY <1>1, <1>2, <1>4 DEF WebInv, WebTypes, SameRequest
<1>7. Lent'
    BY <1>1, <1>2 DEF WebInv, Lent, SameRequest, Web!Busy, Reading
<1>8. InTime'
    BY <1>1 DEF WebInv, InTime, Elapsed
<1> QED BY <1>5, <1>6, <1>7, <1>8 DEF WebInv

LEMMA BreaksStays ==
    ASSUME WebInv, Web!Breaks
    PROVE  WebInv'
<1>1. /\ wPhone' = Web!Freed("unsure") /\ wKept' = wKept
      /\ wReq' = IF wReq.step = "sent" THEN Web!NoRequest ELSE [wReq EXCEPT !.cut = TRUE]
      /\ UNCHANGED <<wNow, wXfer, wPoll, wApi, wStore>>
    BY DEF Web!Breaks, Web!device
<1>2. /\ wPhone' \in Phones /\ wPhone'.tag = NoValue /\ wPhone'.left = wPhone.left
      /\ \A t \in Attempts :
            wPhone'.outcome[t] = IF wPhone.live /\ wPhone.tag = t THEN "unsure"
                                 ELSE wPhone.outcome[t]
  <2>1. "unsure" \in Words
      BY DEF Words
  <2> QED
      BY <1>1, <2>1, FreedIs DEF WebInv, WebTypes
<1>5. Hears("unsure")
    BY <1>2 DEF Hears
<1>3. CASE wReq.step = "sent"
    <2>1. Finished
        BY <1>1, <1>3, NothingRequested
    <2>2. Honest'
        BY <1>1, <1>5, <2>1, HonestEnds
    <2>3. WebTypes'
        BY <1>1, <1>2, <2>1 DEF WebInv, WebTypes, Finished
    <2>4. Lent'
        <3>1. wReq'.up.owner = FALSE
            BY <2>1, NoHandle DEF Finished, Handles
        <3>2. wStore.uploading = FALSE /\ wStore.readers = 0
            BY <1>3 DEF WebInv, WebTypes, Lent, IsStore, Working, Reading
        <3> QED BY <1>1, <1>3, <2>1, <3>1, <3>2
                DEF WebInv, Lent, Finished, Reading, Working, Web!Busy
    <2>5. InTime'
        BY <1>1 DEF WebInv, InTime, Elapsed
    <2> QED BY <2>2, <2>3, <2>4, <2>5 DEF WebInv
<1>4. CASE wReq.step # "sent"
    <2>1. SameRequest /\ wReq'.cut
        BY <1>1, <1>4, CutsKeep DEF WebInv, WebTypes, Requests
    <2>2. Honest'
        BY <1>1, <1>5, <2>1, HonestEnds
    <2>3. WebTypes'
        BY <1>1, <1>2, <2>1 DEF WebInv, WebTypes, SameRequest
    <2>4. Lent'
        BY <1>1, <2>1 DEF WebInv, Lent, SameRequest, Web!Busy, Reading
    <2>5. InTime'
        BY <1>1 DEF WebInv, InTime, Elapsed
    <2> QED BY <2>2, <2>3, <2>4, <2>5 DEF WebInv
<1> QED BY <1>3, <1>4

LEMMA SendStays ==
    ASSUME WebInv, NEW kind \in Web!Kinds, NEW tag \in Attempts \cup {NoValue}, NEW n \in Books,
           Web!Send(kind, tag, n)
    PROVE  WebInv'
<1>1. /\ wReq.kind = "none" /\ wApi.up /\ (kind = "put") = (tag # NoValue)
      /\ tag \in wPhone.left \cup {NoValue}
      /\ wPhone' = [wPhone EXCEPT !.thread = "waits", !.live = TRUE, !.tag = tag, !.left = @ \ {tag}]
      /\ wReq' = [Web!NoRequest EXCEPT !.kind = kind, !.step = "sent", !.tag = tag, !.name = n]
      /\ UNCHANGED <<wNow, wXfer, wPoll, wApi, wStore, wKept>>
    BY DEF Web!Send, Web!device
<1>2. /\ wPhone' \in Phones /\ wPhone'.tag = tag /\ wPhone'.left = wPhone.left \ {tag}
      /\ wPhone'.outcome = wPhone.outcome
    BY <1>1 DEF WebInv, WebTypes, Phones
<1>3. /\ wReq' \in Requests /\ wReq'.kind = kind /\ wReq'.step = "sent" /\ wReq'.tag = tag
      /\ wReq'.up = Web!NoUpload
    BY <1>1, NoHandle DEF Requests, Web!NoRequest, Web!Results
<1>4. kind # "none"
    BY DEF Web!Kinds
<1>5. WebTypes'
    BY <1>1, <1>2, <1>3 DEF WebInv, WebTypes
<1>6. Lent'
    <2>1. wReq'.up.owner = FALSE
        BY <1>3, NoHandle DEF Handles
    <2>2. wStore.uploading = FALSE /\ wStore.readers = 0
        BY <1>1 DEF WebInv, WebTypes, Lent, IsStore, Working, Reading
    <2> QED BY <1>1, <1>3, <1>4, <2>1, <2>2 DEF WebInv, Lent, Web!Busy, Reading, Working
<1>7. Honest'
    <2>1. tag # NoValue => tag \in Attempts /\ wPhone.outcome[tag] = "none" /\ tag \notin wKept
        BY <1>1 DEF WebInv, Honest, Untouched
    <2>2. \A t \in Attempts :
             /\ t \in wPhone'.left => Untouched(t)'
             /\ wPhone'.outcome[t] \in {"saved", "refused"} => wReq'.tag # t
        BY <1>1, <1>2, <1>3, <2>1, WebConstantsAre DEF WebInv, Honest, Untouched
    <2> QED BY <1>1, <1>2, <1>3, <2>1, <2>2 DEF WebInv, Honest
<1>8. InTime'
    BY <1>1 DEF WebInv, InTime, Elapsed
<1> QED BY <1>5, <1>6, <1>7, <1>8 DEF WebInv

LEMMA WebStays ==
    ASSUME WebInv, [Web!Next]_WebVars
    PROVE  WebInv'
<1>1. CASE Web!Next
    <2>1. CASE Web!Poll
        BY <2>1, PollBeginsStays, PollStartsStays, PollOpensStays, PollProgressStays,
           PollWaitsStays, PollStopsStays DEF Web!Poll
    <2>2. CASE Web!Handler
        BY <2>2, ArriveWorks, ChunkWorks, CommitWorks, DownloadedWorks, WorksStays, AnswerStays
           DEF Web!Handler
    <2>3. CASE \E kind \in Web!Kinds, t \in Attempts \cup {NoValue}, n \in Books :
                  Web!Send(kind, t, n)
        BY <2>3, SendStays
    <2> QED
        BY <1>1, <2>1, <2>2, <2>3, TickStays, StartStays, RadioStays, OwnerStopsStays,
           StopFailsStays, ServerStopsStays, LeaseEndsStays, CancelStays, BreaksStays
           DEF Web!Next, Web!Stopping
<1>2. CASE UNCHANGED WebVars
    BY <1>2 DEF WebVars, WebInv, WebTypes, IsStore, Lent, Reading, Web!Busy, Honest, Untouched,
                InTime, Elapsed
<1> QED BY <1>1, <1>2

LEMMA WebStarts ==
    ASSUME Web!Init
    PROVE  WebInv
<1>1. 0 \in Web!Clock
    BY WebConstantsAre DEF Web!Clock
<1>2. /\ wNow \in Web!Clock /\ wXfer \in Transfers /\ wPoll \in Polls /\ wApi \in Apis
    BY <1>1 DEF Web!Init, Transfers, Polls, Apis, Web!Off, Web!NoPoll, Web!Closed
<1>3. wReq \in Requests
    BY NoHandle DEF Web!Init, Requests, Web!NoRequest, Web!Results
<1>4. IsStore(wStore)
    BY DEF Web!Init, IsStore, Web!EmptyStore
<1>5. wPhone \in Phones
    BY DEF Web!Init, Phones, Words
<1>6. Lent
    BY DEF Web!Init, Lent, Reading, Working, Web!Busy, Web!Off, Web!NoPoll, Web!Closed,
           Web!NoRequest, Web!NoUpload, Web!EmptyStore
<1>7. Honest
    BY WebConstantsAre DEF Web!Init, Honest, Untouched, Web!NoRequest
<1>8. InTime
    BY DEF Web!Init, InTime, Web!Off, Web!NoPoll
<1> QED BY <1>2, <1>3, <1>4, <1>5, <1>6, <1>7, <1>8 DEF WebInv, WebTypes

-----------------------------------------------------------------------------
(* The properties.                                                         *)

\* The inductive invariant of the transfer over Wi-Fi, for any books, uploads,
\* chunks and faults, and for any clock that is longer than a session: who
\* holds the store, what the phone knows, and how far apart the clocks are
\* (book_transfer.cc, book_web_api.cc).
THEOREM WebInvariant ==
    MCSpec => [](part = "transfer" => WebInv)
<1> DEFINE Inv == part = "transfer" => WebInv
<1>1. MCInit => Inv
    BY WebStarts DEF MCInit
<1>2. Inv /\ [MCNext]_mcVars => Inv'
    <2> SUFFICES ASSUME Inv, [MCNext]_mcVars, part' = "transfer" PROVE WebInv'
        OBVIOUS
    <2>1. part = "transfer" /\ [Web!Next]_WebVars
        BY DEF MCNext, mcVars
    <2> QED BY <2>1, WebStays
<1> QED BY <1>1, <1>2, PTL DEF MCSpec

\* A handler works on the store only under the transfer's lease and while the
\* server is up, nothing it opened is open when the server is down, and what
\* the phone shows as saved, or as refused, is so.
THEOREM TransferAlwaysSound ==
    MCSpec => []TransferSound
<1>1. WebInv => Web!HandlerHasLease
    BY DEF WebInv, WebTypes, IsStore, Lent, Working, Reading, Web!HandlerHasLease
<1>2. WebInv => Web!OutcomeIsTrue
    BY DEF WebInv, Honest, Web!OutcomeIsTrue
<1>3. (part = "transfer" => WebInv) => TransferSound
    BY <1>1, <1>2 DEF TransferSound
<1> QED BY <1>3, WebInvariant, PTL

\* The poll that stops a session as idle saw its last activity at least as
\* long ago as the wait after an upload, by the clock of the moment: the
\* half-range clause of Poll takes an activity the poll's own clock has not
\* reached as young, and no clock that is longer than a session is fooled.
LEMMA IdleStops ==
    ASSUME WebInv, Web!Next
    PROVE  Web!StopsWhenIdle
<1> SUFFICES ASSUME wPoll.step = "poll", wPoll'.step = "join", ~wXfer'.err, ~wXfer.finishing
             PROVE  Web!Since(wNow, wApi.activity) >= AfterUploadFor
    BY DEF Web!StopsWhenIdle
<1>1. wXfer.st = "stopping" => wXfer.err
    BY DEF WebInv, InTime
<1>2. ~Web!PollStops
    <2> SUFFICES ASSUME Web!PollStops PROVE FALSE
        OBVIOUS
    <2> DEFINE wrong == ~wPoll.allowed \/ wXfer.st # "stopping"
    <2>1. Web!StopFirst(wrong)
        BY DEF Web!PollStops
    <2>2. wrong \in BOOLEAN
        BY DEF WebInv, WebTypes, Polls
    <2>3. wXfer'.err = (wXfer.err \/ wrong)
        BY <2>1, <2>2, StopCancels DEF WebInv, Cancelled
    <2> QED BY <1>1, <2>3
<1>3. ~Web!PollOpensServer
    <2> SUFFICES ASSUME Web!PollOpensServer PROVE FALSE
        OBVIOUS
    <2>1. Web!StopFirst(TRUE)
        BY DEF Web!PollOpensServer
    <2>2. Cancelled(TRUE)
        BY <2>1, StopCancels DEF WebInv
    <2> QED BY <2>2 DEF Cancelled
<1>4. wPoll'.step # wPoll.step
    OBVIOUS
<1>5. Web!PollProgress
    <2>1. ~Web!Handler
        BY <1>4, ArriveWorks, ChunkWorks, CommitWorks, DownloadedWorks
           DEF Web!Handler, Works, Web!Answer
    <2>2. ~Web!PollBegins /\ ~Web!PollStartsRadio
        BY <1>4 DEF Web!PollBegins, Web!PollStartsRadio
    <2>3. ~Web!PollWaits
        BY DEF Web!PollWaits, WebInv, WebTypes, Polls
    <2>4. ~Web!Tick /\ ~Web!RadioChanges /\ ~Web!Cancel /\ ~Web!Breaks
        BY <1>4 DEF Web!Tick, Web!RadioChanges, Web!Cancel, Web!Breaks, Web!device
    <2>5. ~Web!Start /\ ~Web!OwnerStops /\ ~Web!StopFails /\ ~Web!Stopping
        BY DEF Web!Start, Web!OwnerStops, Web!StopFails, Web!Stopping, Web!ServerStops,
               Web!LeaseEnds
    <2>6. ~\E kind \in Web!Kinds, t \in Attempts \cup {NoValue}, n \in Books : Web!Send(kind, t, n)
        BY <1>4 DEF Web!Send, Web!device
    <2> QED
        BY <1>2, <1>3, <2>1, <2>2, <2>3, <2>4, <2>5, <2>6 DEF Web!Next, Web!Poll
<1>6. wXfer.st = "sharing" /\ Web!Ends(FALSE)
    BY <1>5 DEF Web!PollProgress, WebInv, WebTypes, Polls, Transfers
<1> DEFINE age == Web!Since(wPoll.at, wApi.activity)
           e == Web!Since(wNow, wXfer.started)
           a == Web!Since(wPoll.at, wXfer.started)
           c == Web!Since(wApi.activity, wXfer.started)
<1>7. Web!Idle(wPoll.at) >= AfterUploadFor
    <2>1. Web!Idle(wPoll.at) >= Web!IdleLimit
        BY <1>6 DEF Web!Ends
    <2>2. Web!IdleLimit \in Nat /\ Web!IdleLimit >= AfterUploadFor
        BY WebConstantsAre DEF Web!IdleLimit
    <2>3. Web!Idle(wPoll.at) \in Nat
        BY AgeType, WebConstantsAre DEF Web!Idle, WebInv, WebTypes, Polls, Apis
    <2> QED BY <2>1, <2>2, <2>3, WebConstantsAre
<1>8. wNow \in Web!Clock /\ wPoll.at \in Web!Clock /\ wApi.activity \in Web!Clock
      /\ wXfer.started \in Web!Clock
    BY DEF WebInv, WebTypes, Polls, Apis, Transfers
<1>9. age \in Nat /\ age >= AfterUploadFor /\ age < Wrap \div 2
    <2>1. age \in 0..(Wrap - 1)
        BY <1>8, AgeType
    <2>2. Web!Idle(wPoll.at) = IF age >= Wrap \div 2 THEN 0 ELSE age
        BY DEF Web!Idle
    <2> HIDE DEF age
    <2> QED BY <1>7, <2>1, <2>2, WebConstantsAre
<1>10. /\ a <= e /\ e <= a + MaxLag /\ c <= e
    BY <1>6 DEF WebInv, InTime, Elapsed
<1>11. e \in 0..(Wrap - 1) /\ a \in 0..(Wrap - 1) /\ c \in 0..(Wrap - 1)
    BY <1>8, AgeType
<1>12. /\ age = IF c <= a THEN a - c ELSE a - c + Wrap
       /\ Web!Since(wNow, wApi.activity) = IF c <= e THEN e - c ELSE e - c + Wrap
    BY <1>8, Between
<1> HIDE DEF age, e, a, c
<1>13. 2 * (Wrap \div 2) <= Wrap /\ Wrap \div 2 \in Nat
    BY WebConstantsAre
<1> QED
    BY <1>9, <1>10, <1>11, <1>12, <1>13, WebConstantsAre

\* The wait is real for every step of the transfer.
THEOREM IdleIsAlwaysReal ==
    MCSpec => IdleIsReal
<1>1. (part = "transfer" => WebInv) /\ [MCNext]_mcVars
        => [part = "transfer" => Web!StopsWhenIdle]_WebVars
    <2> SUFFICES ASSUME part = "transfer", WebInv, [MCNext]_mcVars, WebVars' # WebVars
                 PROVE  Web!StopsWhenIdle
        OBVIOUS
    <2>1. Web!Next
        BY DEF MCNext, mcVars
    <2> QED BY <2>1, IdleStops
<1> QED BY <1>1, WebInvariant, PTL DEF MCSpec, IdleIsReal

-----------------------------------------------------------------------------
(* The computer's book manager.  At most one request lives between the      *)
(* client's script and the store, and while the client waits for it, it is  *)
(* the only thing that can change a book.                                   *)

Orders == {"begin", "chunk", "commit", "open", "read", "remove"}
Letters == [op : Orders \cup {"start", "cut", "close", "greeting", "refused", "fail"},
            id : Nat, session : Nat, tag : Attempts \cup {NoValue}, name : Books \cup {NoValue},
            off : Int, status : Cable!Statuses]
Clients == [phase : {"off", "connecting", "waiting", "closing"}, kind : {"put", "get", "remove"},
            name : Books, tag : Attempts \cup {NoValue}, step : Nat, session : Nat, id : Nat,
            got : Seq(Attempts),
            outcome : {"none", "ok", "refused", "unknown", "failed", "landed"},
            left : SUBSET Attempts]
Protocols == [binary : BOOLEAN, session : Nat, lastId : Nat, pending : BOOLEAN,
              failed : BOOLEAN, mute : BOOLEAN]
Channels == [enabled : BOOLEAN, session : Nat, next : Nat,
             state : {"idle", "queued", "executing", "replied"}, slot : Letters]
Sittings == [on : BOOLEAN, at : {"idle", "synced", "executing", "reply"}, seen : Nat,
             request : Letters, reply : Letters,
             state : {"waiting", "ready", "uploading", "downloading", "complete",
                      "cancelled", "failed", "removed"},
             up : Handles, file : Books \cup {NoValue}, transferred : Nat]

\* A store with its books.
IsShelf(b) == IsStore(b) /\ DOMAIN b.files = Books

Removals == [session : Nat, done : BOOLEAN]

HostTypes ==
    /\ hClient \in Clients /\ hToDevice \in Seq(Letters) /\ hToHost \in Seq(Letters)
    /\ hProto \in Protocols /\ hChan \in Channels /\ hSess \in Sittings
    /\ IsShelf(hStore) /\ hOther \in {"none", "manages", "reads"}

Copies(t, n) == [i \in 1..n |-> t]
Bound(t) == Copies(t, CableChunks)
Waiting == hClient.phase = "waiting"

\* The request lives: on its way, in the slot, or taken by the session.
Lives(f) ==
    \/ \E i \in 1..Len(hToDevice) : hToDevice[i] = f /\ f.op \in Orders
    \/ hChan.state = "queued" /\ f = hChan.slot
    \/ hSess.at = "executing" /\ f = hSess.request

\* Its answer: given by the session, in the slot, or on its way back.
Replies(f) ==
    \/ hSess.at = "reply" /\ f = hSess.reply
    \/ hChan.state = "replied" /\ f = hChan.slot
    \/ \E i \in 1..Len(hToHost) : hToHost[i] = f /\ f.op \in Orders

\* The script of a command, and the step of it that the client is in.
Steps(kind) == IF kind = "put" THEN CableChunks + 2
               ELSE IF kind = "get" THEN CableChunks + 1 ELSE 1
Place(kind, k) ==
    IF kind = "put" THEN IF k = 1 THEN "begin" ELSE IF k = CableChunks + 2 THEN "commit" ELSE "chunk"
    ELSE IF kind = "get" THEN IF k = 1 THEN "open" ELSE "read"
    ELSE "remove"
Order == Place(hClient.kind, hClient.step)
Asked(f) == f.session = hClient.session /\ f.id = hClient.id
IsAsked(f) == Asked(f) /\ f.op = Order /\ f.tag = hClient.tag /\ f.name = hClient.name

Saved == hClient.tag \in Attempts /\ \E n \in Books : hStore.files[n] = Bound(hClient.tag)
Harmless(f) == f.op = "fail" /\ f.status \in {"timeout", "cancelled"}

\* What the session has open is of that tag and that book.
Holds(t, n) ==
    /\ hSess.up.owner => hStore.part = Copies(t, hSess.transferred) /\ hSess.up.name = n
    /\ hSess.file # NoValue => hSess.file = n

\* The worker, the slot and the session hold one request between them, of one session.
SlotInv ==
    /\ hProto.session <= hChan.next /\ hSess.seen <= hChan.next
    /\ hProto.binary <=> hProto.session # 0
    /\ hChan.session # 0 => hChan.session = hProto.session
    /\ hChan.state = "queued" => hChan.slot.op \in Orders /\ hChan.slot.session = hChan.session
    /\ hChan.state = "executing" <=> hSess.at \in {"executing", "reply"}
    /\ hSess.at = "executing" => hSess.request = hChan.slot /\ hSess.request.op \in Orders
                                 /\ hSess.request.session = hSess.seen
    /\ hSess.at = "reply" => /\ hSess.reply.id = hChan.slot.id
                             /\ hSess.reply.session = hChan.slot.session
                             /\ hSess.reply.op \in Orders
    /\ hChan.state = "replied" => hChan.slot.op \in Orders
    /\ hProto.binary /\ hProto.lastId = 0 =>
          /\ ~hProto.pending /\ hChan.state = "idle"
          /\ hSess.seen = hProto.session => ~hSess.up.owner /\ hSess.file = NoValue

\* The line to the device: one request, of the session it is sent in, and
\* nothing of it elsewhere; a greeting is the first of its session.
LineInv ==
    /\ \A i, j \in 1..Len(hToDevice) :
          hToDevice[i].op \in Orders /\ hToDevice[j].op \in Orders => i = j
    /\ \A i \in 1..Len(hToDevice) :
          /\ hToDevice[i].op \in Orders \cup {"start", "cut", "close"}
          /\ hToDevice[i].op \in Orders => hProto.binary /\ hChan.state = "idle"
          /\ hToDevice[i].op = "start" => hClient.phase \in {"off", "connecting"}
                                          /\ hToDevice[i].session = 0
    /\ \A i \in 1..Len(hToHost) :
          hToHost[i].op = "greeting" =>
             /\ hProto.binary /\ hProto.lastId = 0 /\ hToHost[i].session = hProto.session
             /\ hToDevice = << >> /\ hClient.phase \in {"off", "connecting"}
             /\ \A j \in 1..Len(hToHost) : j > i => Harmless(hToHost[j])

\* The request on which the outcome of the command hangs.
Decides(f) ==
    \/ f.op = "commit" /\ f.tag = hClient.tag
    \/ f.op = "remove" /\ f.session = hRemoval.session

\* What the command has done, whether or not the client knows it.
Done == \/ hClient.kind = "put" /\ Saved
        \/ hClient.kind = "remove" /\ hRemoval.done

\* What an outcome "ok" says of the store.
Delivered ==
    /\ hClient.kind = "put" => hStore.files[hClient.name] = Bound(hClient.tag)
    /\ hClient.kind = "remove" => hStore.files[hClient.name] = NoValue

\* What lives of a request: no upload that was not begun, and the book that the
\* session works on.
LiveInv ==
    \A f : Lives(f) =>
       /\ f.tag \notin hClient.left /\ (f.op \in {"begin", "chunk", "commit"} => f.tag \in Attempts)
       /\ f.name \in Books /\ f.session # 0
       /\ Waiting => IsAsked(f)
       /\ hClient.outcome # "ok"
       /\ Decides(f) => Waiting \/ hClient.outcome = "unknown"
       /\ hSess.seen = f.session => Holds(f.tag, f.name)

\* While the client waits, the session is its own.
Calm ==
    /\ hProto.binary /\ hClient.session = hProto.session
    /\ hProto.lastId <= hClient.id /\ (hToDevice # << >> => hProto.lastId < hClient.id)
    /\ hClient.step \in 1..Steps(hClient.kind)
    /\ \A i \in 1..Len(hToDevice) : hToDevice[i].op \in Orders
    /\ \A i \in 1..Len(hToHost) :
          /\ hToHost[i].op \in Orders \/ Harmless(hToHost[i])
          /\ hToHost[i].op \in Orders /\ Asked(hToHost[i]) => hChan.state = "idle"
    /\ hSess.seen = hClient.session => Holds(hClient.tag, hClient.name)

\* An answer is of the past, or it is the one to the request of this step,
\* which then lives no more.
Answer(f) ==
    /\ f.op = Order
    /\ f.op \in {"commit", "remove"} /\ f.status = "ok" => Delivered
    /\ f.op \in {"commit", "remove"} /\ f.status \notin {"ok", "late"} => ~Done
    /\ f.op = "read" /\ f.status = "ok" =>
          f.tag \in Attempts /\ hStore.files[hClient.name] = Bound(f.tag)
Past(f) == f.session = hClient.session => f.id <= hClient.id
Answers == \A f : Replies(f) => Past(f) /\ (Asked(f) => (\A g : ~Lives(g)) /\ Answer(f))

\* What was read so far is of the book that is there.
GotInv ==
    hClient.kind = "get" =>
       /\ Len(hClient.got) = IF hClient.step = 1 THEN 0 ELSE hClient.step - 2
       /\ \A i \in 1..Len(hClient.got) : hStore.files[hClient.name] = Bound(hClient.got[i])

WaitInv == Waiting => Calm /\ Answers /\ GotInv

\* What is saved of the client's own upload, and what it says of it.
SaveInv ==
    /\ \A t \in hClient.left : t # hClient.tag /\ \A n \in Books : hStore.files[n] # Bound(t)
    /\ hClient.phase \in {"connecting", "waiting"}
          <=> hClient.outcome = "none" /\ hClient.phase # "off"
    /\ hClient.phase = "connecting" => hClient.step = 0 /\ hClient.id = 0 /\ hClient.got = << >>
    /\ hClient.kind = "put" /\ (hClient.phase # "off" \/ hClient.outcome # "none")
          => hClient.tag \in Attempts
    /\ hRemoval \in Removals /\ (Waiting => hRemoval.session = hClient.session)
    /\ Done =>
          \/ hClient.outcome \in {"ok", "unknown", "landed"}
          \/ Waiting /\ hClient.step = Steps(hClient.kind) /\ \A f : ~Lives(f)
    /\ hClient.outcome = "ok" => Delivered
    /\ hClient.kind = "get" /\ hClient.outcome = "ok" =>
          \E t \in Attempts : hClient.got = Bound(t)

\* The session's handles on the store.
HandleInv ==
    /\ \A n \in Books : hStore.files[n] = NoValue \/ \E t \in Attempts : hStore.files[n] = Bound(t)
    /\ hStore.managing <=> hSess.on \/ hOther = "manages"
    /\ ~(hSess.on /\ hOther # "none")
    /\ hStore.readers = (IF hOther = "reads" THEN 1 ELSE 0)
                        + (IF hSess.file # NoValue THEN 1 ELSE 0)
    /\ hStore.uploading <=> hSess.up.owner
    /\ hSess.at # "idle" => hSess.on
    /\ hSess.on => (hSess.state = "uploading" <=> hSess.up.owner)
    /\ hSess.on => (hSess.state = "downloading" <=> hSess.file # NoValue)
    /\ ~hSess.on => ~hSess.up.owner /\ hSess.file = NoValue
    /\ hSess.up.owner => /\ hSess.up.open /\ ~hSess.up.error
                         /\ hSess.up.received = hSess.transferred /\ hSess.up.name \in Books
    /\ hSess.file # NoValue => /\ hSess.transferred < CableChunks /\ hSess.file \in Books
                               /\ hStore.files[hSess.file] # NoValue

HostInv == HostTypes /\ SlotInv /\ LineInv /\ LiveInv /\ WaitInv /\ SaveInv /\ HandleInv

-----------------------------------------------------------------------------
(* Contents and scripts.                                                   *)

LEMMA CableConstantsAre ==
    /\ CableChunks \in Nat /\ CableChunks > 0 /\ NoValue \notin Seq(Attempts)
    /\ NoValue \notin Books /\ NoValue \notin Attempts /\ Books # {}
BY CableConstants, WebConstants

LEMMA CopiesAre ==
    ASSUME NEW S, NEW t \in S, NEW n \in Nat
    PROVE  /\ Copies(t, n) \in Seq(S) /\ Len(Copies(t, n)) = n
           /\ \A i \in 1..n : Copies(t, n)[i] = t
           /\ Append(Copies(t, n), t) = Copies(t, n + 1)
<1>1. Copies(t, n) \in Seq(S) /\ Len(Copies(t, n)) = n
    BY DEF Copies
<1>2. \A i \in 1..n : Copies(t, n)[i] = t
    BY DEF Copies
<1> DEFINE more == Append(Copies(t, n), t)
<1>3. more \in Seq(S) /\ Len(more) = n + 1
    BY <1>1, AppendProperties
<1>4. \A i \in 1..(n + 1) : more[i] = t
    BY <1>1, <1>2, AppendProperties
<1>5. Copies(t, n + 1) \in Seq(S) /\ Len(Copies(t, n + 1)) = n + 1
    BY DEF Copies
<1>6. \A i \in 1..(n + 1) : Copies(t, n + 1)[i] = t
    BY DEF Copies
<1> HIDE DEF more
<1>7. more = Copies(t, n + 1)
    BY <1>3, <1>4, <1>5, <1>6, SeqEqual
<1> QED
    BY <1>1, <1>2, <1>7 DEF more

\* A bound book is of one upload, and it is there.
LEMMA BoundIsOne ==
    ASSUME NEW t \in Attempts
    PROVE  /\ Bound(t) # NoValue /\ Bound(t) \in Seq(Attempts) /\ Len(Bound(t)) = CableChunks
           /\ \A s \in Attempts : Bound(s) = Bound(t) => s = t
           /\ \A i \in 1..CableChunks : Bound(t)[i] = t
           /\ Bound(t) = Cable!Whole(t)
<1>1. /\ Bound(t) \in Seq(Attempts) /\ Len(Bound(t)) = CableChunks
      /\ \A i \in 1..CableChunks : Bound(t)[i] = t
    BY CopiesAre, CableConstantsAre DEF Bound
<1>2. \A s \in Attempts : Bound(s)[1] = s
    BY CopiesAre, CableConstantsAre DEF Bound
<1>3. Bound(t) = Cable!Whole(t)
    BY DEF Bound, Copies, Cable!Whole
<1> QED
    BY <1>1, <1>2, <1>3, CableConstantsAre

LEMMA ScriptIs ==
    ASSUME NEW kind \in {"put", "get", "remove"}
    PROVE  /\ Len(Cable!Script(kind)) = Steps(kind) /\ Steps(kind) \in Nat \ {0}
           /\ \A k \in 1..Steps(kind) : Cable!Script(kind)[k] = Place(kind, k)
<1> DEFINE chunks == Copies("chunk", CableChunks)
           reads == Copies("read", CableChunks)
<1>1. "chunk" \in Orders /\ "read" \in Orders /\ "begin" \in Orders /\ "commit" \in Orders
    BY DEF Orders
<1>5. /\ chunks \in Seq(Orders) /\ Len(chunks) = CableChunks
      /\ reads \in Seq(Orders) /\ Len(reads) = CableChunks
      /\ \A i \in 1..CableChunks : chunks[i] = "chunk" /\ reads[i] = "read"
    BY <1>1, CopiesAre, CableConstantsAre
<1> HIDE DEF chunks, reads
<1>2. CASE kind = "put"
  <2> DEFINE early == <<"begin">> \o chunks
  <2>4. <<"begin">> \in Seq(Orders) /\ Len(<<"begin">>) = 1 /\ <<"begin">>[1] = "begin"
      BY <1>1
  <2>5. /\ early \in Seq(Orders) /\ Len(early) = CableChunks + 1
        /\ \A i \in 1..Len(early) : early[i] = IF i <= 1 THEN <<"begin">>[i] ELSE chunks[i - 1]
      BY <1>5, <2>4, ConcatProperties
  <2>1. early[1] = "begin" /\ \A i \in 2..(CableChunks + 1) : early[i] = "chunk"
      BY <1>5, <2>4, <2>5, CableConstantsAre
  <2> HIDE DEF early
  <2>2. /\ Len(early \o <<"commit">>) = CableChunks + 2
        /\ \A i \in 1..(CableChunks + 1) : (early \o <<"commit">>)[i] = early[i]
        /\ (early \o <<"commit">>)[CableChunks + 2] = "commit"
      BY <1>1, <2>1, <2>5, CableConstantsAre, ConcatProperties
  <2>3. Cable!Script(kind) = early \o <<"commit">>
      BY <1>2 DEF Cable!Script, early, chunks, Copies
  <2> QED
      BY <1>2, <2>1, <2>2, <2>3, CableConstantsAre DEF Steps, Place
<1>3. CASE kind = "get"
  <2>1. /\ Len(<<"open">> \o reads) = CableChunks + 1
        /\ (<<"open">> \o reads)[1] = "open"
        /\ \A i \in 2..(CableChunks + 1) : (<<"open">> \o reads)[i] = "read"
      BY <1>5, CableConstantsAre
  <2>2. Cable!Script(kind) = <<"open">> \o reads
      BY <1>3 DEF Cable!Script, reads, Copies
  <2> QED
      BY <1>3, <2>1, <2>2, CableConstantsAre DEF Steps, Place
<1>4. CASE kind = "remove"
    BY <1>4 DEF Cable!Script, Steps, Place
<1> QED
    BY <1>2, <1>3, <1>4

LEMMA PlaceIs ==
    ASSUME NEW kind \in {"put", "get", "remove"}, NEW k \in 1..Steps(kind)
    PROVE  /\ Place(kind, k) \in Orders
           /\ Place(kind, k) \in {"begin", "chunk", "commit"} => kind = "put"
           /\ Place(kind, k) \in {"open", "read"} => kind = "get"
           /\ Place(kind, k) = "remove" => kind = "remove"
           /\ Place(kind, k) = "commit" <=> kind = "put" /\ k = Steps(kind)
           /\ Place(kind, k) = "read" <=> kind = "get" /\ k # 1
           /\ Place(kind, k) \in {"chunk", "read"} => k # 1
BY CableConstantsAre DEF Place, Steps, Orders

-----------------------------------------------------------------------------
(* The store's operations, as the book manager uses them.                  *)

\* What an operation leaves of the store that it does not work on.
SameBooks(b, c) == IsShelf(c) /\ c.files = b.files
SameLease(b, c) == c.managing = b.managing /\ c.readers = b.readers

LEMMA UploadBegins ==
    ASSUME NEW b, IsShelf(b), NEW u \in Handles, NEW n \in Books \cup {NoValue},
           NEW r \in Cable!BeginUpload(b, u, n)
    PROVE  /\ SameBooks(b, r[2]) /\ SameLease(b, r[2]) /\ r[3] \in Handles
           /\ r[1] \in Cable!Statuses
           /\ r[1] = "ok" => /\ r[2].uploading /\ r[2].part = << >>
                             /\ r[3].owner /\ r[3].open /\ ~r[3].error /\ r[3].received = 0
                             /\ r[3].name = n
           /\ r[1] # "ok" => r[2] = b /\ r[3] = u
<1> DEFINE lent == [b EXCEPT !.part = <<>>, !.uploading = TRUE]
           new == [owner |-> TRUE, open |-> TRUE, name |-> n, received |-> 0, error |-> FALSE]
<1>1. SameBooks(b, lent) /\ SameLease(b, lent) /\ lent.uploading /\ lent.part = << >>
    BY DEF IsStore, IsShelf, SameBooks, SameLease
<1>2. new \in Handles /\ new.owner /\ new.open /\ ~new.error /\ new.received = 0 /\ new.name = n
    BY DEF Handles
<1>3. \/ \E w \in {"busy", "exists", "noSpace", "ioError"} : r = <<w, b, u>>
      \/ r = <<"ok", lent, new>>
    BY DEF Cable!BeginUpload, IsStore, IsShelf, Handles
<1> HIDE DEF lent, new
<1>4. CASE r = <<"ok", lent, new>>
    BY <1>1, <1>2, <1>4 DEF Cable!Statuses, Cable!Results
<1>5. CASE \E w \in {"busy", "exists", "noSpace", "ioError"} : r = <<w, b, u>>
    BY <1>5 DEF Cable!Statuses, Cable!Results, SameBooks, SameLease
<1> QED
    BY <1>3, <1>4, <1>5

LEMMA UploadWrites ==
    ASSUME NEW b, IsShelf(b), NEW u \in Handles, NEW t, NEW r \in Cable!WriteUpload(b, u, t)
    PROVE  /\ SameBooks(b, r[2]) /\ SameLease(b, r[2]) /\ r[3] \in Handles
           /\ r[1] \in Cable!Statuses
           /\ r[2].uploading = b.uploading /\ r[3].owner = u.owner
           /\ r[1] = "ok" => /\ r[2].part = Append(b.part, t) /\ r[3].received = u.received + 1
                             /\ r[3].open /\ ~r[3].error /\ r[3].name = u.name
<1> DEFINE written == [b EXCEPT !.part = Append(@, t)]
           more == [u EXCEPT !.received = @ + 1]
           bad == [u EXCEPT !.error = TRUE]
<1>1. /\ SameBooks(b, written) /\ SameLease(b, written) /\ written.uploading = b.uploading
      /\ written.part = Append(b.part, t)
    BY DEF IsStore, IsShelf, SameBooks, SameLease
<1>6. SameBooks(b, b) /\ SameLease(b, b)
    BY DEF SameBooks, SameLease
<1>2. /\ more \in Handles /\ more.owner = u.owner /\ more.received = u.received + 1
      /\ more.open = u.open /\ more.error = u.error /\ more.name = u.name
    BY DEF Handles
<1>4. bad \in Handles /\ bad.owner = u.owner
    BY DEF Handles
<1>3. \/ r = <<"ok", written, more>> /\ ~u.error /\ u.open
      \/ \E w \in {"invalid", "noSpace", "ioError"}, c \in {b, written}, v \in {u, bad} :
            r = <<w, c, v>>
    BY DEF Cable!WriteUpload
<1> HIDE DEF written, more, bad
<1>5. CASE r = <<"ok", written, more>> /\ ~u.error /\ u.open
    BY <1>1, <1>2, <1>5 DEF Cable!Statuses, Cable!Results, Handles
<1>7. CASE \E w \in {"invalid", "noSpace", "ioError"}, c \in {b, written}, v \in {u, bad} :
            r = <<w, c, v>>
    BY <1>1, <1>6, <1>4, <1>7 DEF Cable!Statuses, Cable!Results
<1> QED
    BY <1>3, <1>5, <1>7

LEMMA BookKept ==
    ASSUME NEW b, IsShelf(b), NEW n \in Books
    PROVE  LET kept == [b EXCEPT !.files[n] = b.part, !.part = NoValue, !.uploading = FALSE]
           IN /\ IsShelf(kept) /\ SameLease(b, kept) /\ ~kept.uploading
              /\ kept.files[n] = b.part /\ \A m \in Books \ {n} : kept.files[m] = b.files[m]
BY DEF IsStore, IsShelf, SameLease

LEMMA BookLands ==
    ASSUME NEW b, IsShelf(b), NEW n \in Books
    PROVE  LET landed == [b EXCEPT !.files[n] = b.part, !.part = NoValue]
           IN /\ IsShelf(landed) /\ SameLease(b, landed) /\ landed.uploading = b.uploading
              /\ landed.files[n] = b.part /\ \A m \in Books \ {n} : landed.files[m] = b.files[m]
BY DEF IsStore, IsShelf, SameLease

LEMMA UploadCommits ==
    ASSUME NEW b, IsShelf(b), NEW u \in Handles, u.name \in Books,
           NEW r \in Cable!CommitUpload(b, u)
    PROVE  /\ IsShelf(r[2]) /\ SameLease(b, r[2]) /\ r[3] \in Handles /\ r[1] \in Cable!Statuses
           /\ r[1] = "ok" => ~r[2].uploading /\ ~r[3].owner
           /\ r[1] # "ok" => r[2].uploading = b.uploading /\ r[3].owner = u.owner
           /\ r[1] \in {"ok", "late"} => /\ u.received = CableChunks
                                       /\ r[2].files[u.name] = b.part
                                       /\ \A m \in Books \ {u.name} : r[2].files[m] = b.files[m]
           /\ r[1] \notin {"ok", "late"} => r[2].files = b.files
<1> DEFINE kept == [b EXCEPT !.files[u.name] = b.part, !.part = NoValue, !.uploading = FALSE]
           landed == [b EXCEPT !.files[u.name] = b.part, !.part = NoValue]
           given == [u EXCEPT !.open = FALSE, !.owner = FALSE]
           failed == [u EXCEPT !.error = TRUE]
           closed == [failed EXCEPT !.open = FALSE]
<1>1. /\ IsShelf(kept) /\ SameLease(b, kept) /\ ~kept.uploading
      /\ kept.files[u.name] = b.part
      /\ \A m \in Books \ {u.name} : kept.files[m] = b.files[m]
    BY BookKept
<1>7. /\ IsShelf(landed) /\ SameLease(b, landed) /\ landed.uploading = b.uploading
      /\ landed.files[u.name] = b.part
      /\ \A m \in Books \ {u.name} : landed.files[m] = b.files[m]
    BY BookLands
<1>2. /\ given \in Handles /\ failed \in Handles /\ closed \in Handles
      /\ ~given.owner /\ failed.owner = u.owner /\ closed.owner = u.owner
    BY DEF Handles
<1>3. \/ r = <<"ok", kept, given>> /\ u.received = CableChunks
      \/ r = <<"late", landed, closed>> /\ u.received = CableChunks
      \/ \E w \in {"ioError", "noSpace", "invalid", "exists"}, v \in {u, failed, closed} :
            r = <<w, b, v>>
    BY DEF Cable!CommitUpload
<1> HIDE DEF kept, landed, given, failed, closed
<1>8. CASE r = <<"late", landed, closed>> /\ u.received = CableChunks
    BY <1>2, <1>7, <1>8 DEF Cable!Statuses, Cable!Results
<1>4. CASE r = <<"ok", kept, given>> /\ u.received = CableChunks
    BY <1>1, <1>2, <1>4 DEF Cable!Statuses, Cable!Results
<1>6. SameLease(b, b)
    BY DEF SameLease
<1>5. CASE \E w \in {"ioError", "noSpace", "invalid", "exists"}, v \in {u, failed, closed} :
            r = <<w, b, v>>
    BY <1>2, <1>5, <1>6 DEF Cable!Statuses, Cable!Results
<1> QED
    BY <1>3, <1>4, <1>5, <1>8

LEMMA FileOpens ==
    ASSUME NEW b, IsShelf(b), NEW n, NEW r \in Cable!OpenFile(b, n, TRUE)
    PROVE  /\ SameBooks(b, r[2]) /\ r[1] \in Cable!Statuses /\ r[2].part = b.part
           /\ r[1] # "ok" => r[2] = b
           /\ r[1] = "ok" => /\ r[2].readers = b.readers + 1 /\ b.files[n] # NoValue
                             /\ ~r[2].uploading /\ r[2].managing
<1> DEFINE read == [b EXCEPT !.readers = @ + 1]
<1>1. /\ SameBooks(b, read) /\ read.readers = b.readers + 1 /\ read.managing = b.managing
      /\ read.uploading = b.uploading /\ read.part = b.part
    BY DEF IsStore, IsShelf, SameBooks
<1>2. \/ r = <<"ok", read>> /\ b.files[n] # NoValue /\ ~b.uploading /\ b.managing
      \/ \E w \in {"busy", "notFound", "ioError"} : r = <<w, b>>
    BY DEF Cable!OpenFile, IsShelf, IsStore
<1>3. SameBooks(b, b)
    BY DEF SameBooks
<1> HIDE DEF read
<1> QED
    BY <1>1, <1>2, <1>3 DEF Cable!Statuses, Cable!Results

LEMMA ReaderOpens ==
    ASSUME NEW b, IsShelf(b), NEW n, NEW r \in Cable!OpenFile(b, n, FALSE)
    PROVE  /\ SameBooks(b, r[2]) /\ r[1] \in Cable!Statuses /\ r[2].part = b.part
           /\ r[2].uploading = b.uploading
           /\ r[1] # "ok" => r[2] = b
           /\ r[1] = "ok" => /\ r[2].readers = b.readers + 1 /\ b.files[n] # NoValue
                             /\ ~b.uploading /\ ~r[2].managing
<1> DEFINE read == [b EXCEPT !.readers = @ + 1]
<1>1. /\ SameBooks(b, read) /\ read.readers = b.readers + 1 /\ read.managing = b.managing
      /\ read.uploading = b.uploading /\ read.part = b.part
    BY DEF IsStore, IsShelf, SameBooks
<1>2. \/ r = <<"ok", read>> /\ b.files[n] # NoValue /\ ~b.uploading /\ ~b.managing
      \/ \E w \in {"busy", "notFound", "ioError"} : r = <<w, b>>
    BY DEF Cable!OpenFile, IsShelf, IsStore
<1>3. SameBooks(b, b)
    BY DEF SameBooks
<1> HIDE DEF read
<1> QED
    BY <1>1, <1>2, <1>3 DEF Cable!Statuses, Cable!Results

LEMMA FileCloses ==
    ASSUME NEW b, IsShelf(b)
    PROVE  /\ SameBooks(b, Cable!CloseFile(b)) /\ Cable!CloseFile(b).part = b.part
           /\ Cable!CloseFile(b).managing = b.managing
           /\ Cable!CloseFile(b).uploading = b.uploading
           /\ Cable!CloseFile(b).readers = IF b.readers > 0 THEN b.readers - 1 ELSE b.readers
BY DEF IsStore, IsShelf, SameBooks, Cable!CloseFile

LEMMA BookGoes ==
    ASSUME NEW b, IsShelf(b), NEW n \in Books
    PROVE  LET gone == [b EXCEPT !.files[n] = NoValue]
           IN /\ IsShelf(gone) /\ SameLease(b, gone) /\ gone.uploading = b.uploading
              /\ gone.part = b.part /\ gone.files[n] = NoValue
              /\ \A m \in Books \ {n} : gone.files[m] = b.files[m]
BY DEF IsStore, IsShelf, SameLease

LEMMA BookRemoves ==
    ASSUME NEW b, IsShelf(b), NEW n \in Books, NEW r \in Cable!RemoveBook(b, n)
    PROVE  /\ IsShelf(r[2]) /\ SameLease(b, r[2]) /\ r[1] \in Cable!Statuses
           /\ r[2].uploading = b.uploading /\ r[2].part = b.part
           /\ r[1] \notin {"ok", "late"} => r[2] = b
           /\ r[1] \in {"ok", "late"} => /\ b.readers = 0
                                       /\ r[2].files[n] = NoValue
                                       /\ \A m \in Books \ {n} : r[2].files[m] = b.files[m]
<1> DEFINE gone == [b EXCEPT !.files[n] = NoValue]
<1>1. /\ IsShelf(gone) /\ SameLease(b, gone) /\ gone.uploading = b.uploading
      /\ gone.part = b.part /\ gone.files[n] = NoValue
      /\ \A m \in Books \ {n} : gone.files[m] = b.files[m]
    BY BookGoes
<1>2. \/ (r = <<"ok", gone>> \/ r = <<"late", gone>>) /\ ~(b.readers > 0)
      \/ \E w \in {"busy", "notFound", "ioError"} : r = <<w, b>>
    BY DEF Cable!RemoveBook
<1>3. SameLease(b, b)
    BY DEF SameLease
<1> HIDE DEF gone
<1> QED
    BY <1>1, <1>2, <1>3 DEF Cable!Statuses, Cable!Results, IsShelf, IsStore

LEMMA LeaseIsTaken ==
    ASSUME NEW b, IsShelf(b), NEW r \in Cable!BeginManagement(b)
    PROVE  /\ SameBooks(b, r[2])
           /\ r[1] # "ok" => r[2] = b
           /\ r[1] = "ok" => /\ r[2].managing /\ ~b.managing /\ b.readers = 0
                             /\ r[2].uploading = b.uploading /\ r[2].readers = b.readers
<1> DEFINE managed == [b EXCEPT !.managing = TRUE, !.part = NoValue]
<1>1. \/ r = <<"ok", managed>> /\ ~b.managing /\ ~(b.readers > 0)
      \/ \E w \in {"busy", "ioError"} : r = <<w, b>>
    BY DEF Cable!BeginManagement
<1>2. /\ SameBooks(b, managed) /\ managed.managing /\ managed.uploading = b.uploading
      /\ managed.readers = b.readers
    BY DEF IsStore, IsShelf, SameBooks
<1>3. SameBooks(b, b) /\ b.readers \in Nat
    BY DEF SameBooks, IsShelf, IsStore
<1> HIDE DEF managed
<1> QED
    BY <1>1, <1>2, <1>3

LEMMA LeaseIsGiven ==
    ASSUME NEW b, IsShelf(b)
    PROVE  /\ SameBooks(b, Cable!EndManagement(b)[2])
           /\ Cable!EndManagement(b)[2].uploading = b.uploading
           /\ Cable!EndManagement(b)[2].readers = b.readers
           /\ Cable!EndManagement(b)[2].part = b.part
           /\ b.readers = 0 /\ ~b.uploading => ~Cable!EndManagement(b)[2].managing
<1> DEFINE ended == [b EXCEPT !.managing = FALSE]
<1>1. /\ SameBooks(b, ended) /\ ~ended.managing /\ ended.uploading = b.uploading
      /\ ended.readers = b.readers /\ ended.part = b.part
    BY DEF IsStore, IsShelf, SameBooks
<1>2. \/ Cable!EndManagement(b) = <<"ok", ended>>
      \/ Cable!EndManagement(b) = <<"busy", b>> /\ (b.readers > 0 \/ b.uploading)
    BY DEF Cable!EndManagement
<1>3. SameBooks(b, b) /\ b.readers \in Nat
    BY DEF SameBooks, IsShelf, IsStore
<1> HIDE DEF ended
<1>4. CASE Cable!EndManagement(b) = <<"ok", ended>>
    BY <1>1, <1>4
<1>5. CASE Cable!EndManagement(b) = <<"busy", b>> /\ (b.readers > 0 \/ b.uploading)
    BY <1>3, <1>5
<1> QED
    BY <1>2, <1>4, <1>5

LEMMA PowerIsCut ==
    ASSUME NEW b, IsShelf(b)
    PROVE  /\ SameBooks(b, Cable!PowerCut(b))
           /\ ~Cable!PowerCut(b).managing /\ ~Cable!PowerCut(b).uploading
           /\ Cable!PowerCut(b).readers = 0
BY DEF IsStore, IsShelf, SameBooks, Cable!PowerCut

\* ResetTransfer gives both handles back.
LEMMA TransferResets ==
    ASSUME NEW b, IsShelf(b), NEW q \in Sittings
    PROVE  LET r == Cable!ResetTransfer(b, q) IN
           /\ SameBooks(b, r[1]) /\ r[1].managing = b.managing
           /\ r[1].uploading = (b.uploading /\ ~q.up.owner)
           /\ r[1].readers = IF q.file # NoValue /\ b.readers > 0 THEN b.readers - 1 ELSE b.readers
           /\ r[2] \in Sittings /\ ~r[2].up.owner /\ r[2].file = NoValue
           /\ q.on => r[2].on
           /\ b.managing => r[1].managing
           /\ q.up.owner \/ ~b.uploading => ~r[1].uploading
           /\ r[2].on = q.on /\ r[2].at = q.at /\ r[2].seen = q.seen /\ r[2].request = q.request
           /\ r[2].reply = q.reply /\ r[2].state = q.state /\ r[2].transferred = q.transferred
<1> DEFINE a == Cable!AbortUpload(b, q.up)[1]
           c == IF q.file # NoValue THEN Cable!CloseFile(a) ELSE a
           p == [q EXCEPT !.up = Cable!NoUpload, !.file = NoValue]
<1>1. /\ SameBooks(b, a) /\ SameLease(b, a) /\ a.uploading = (b.uploading /\ ~q.up.owner)
    BY DEF IsStore, IsShelf, SameBooks, SameLease, Cable!AbortUpload, Sittings, Handles
<1>2. Cable!ResetTransfer(b, q) = <<c, p>>
    BY DEF Cable!ResetTransfer
<1>3. /\ p \in Sittings /\ ~p.up.owner /\ p.file = NoValue
      /\ p.on = q.on /\ p.at = q.at /\ p.seen = q.seen /\ p.request = q.request
      /\ p.reply = q.reply /\ p.state = q.state /\ p.transferred = q.transferred
    BY DEF Sittings, Handles, Cable!NoUpload
<1> HIDE DEF a, p
<1>4. IsShelf(a)
    BY <1>1 DEF SameBooks
<1>5. /\ SameBooks(a, Cable!CloseFile(a)) /\ Cable!CloseFile(a).managing = a.managing
      /\ Cable!CloseFile(a).uploading = a.uploading
      /\ Cable!CloseFile(a).readers = IF a.readers > 0 THEN a.readers - 1 ELSE a.readers
    BY <1>4, FileCloses
<1>6. /\ SameBooks(b, c) /\ c.managing = b.managing
      /\ c.uploading = (b.uploading /\ ~q.up.owner)
      /\ c.readers = IF q.file # NoValue /\ b.readers > 0 THEN b.readers - 1 ELSE b.readers
    BY <1>1, <1>5 DEF SameBooks, SameLease
<1> HIDE DEF c
<1>7. q.on => p.on
    BY <1>3
<1>8. b.managing => c.managing
    BY <1>6
<1>9. q.up.owner \/ ~b.uploading => ~c.uploading
    BY <1>6
<1> QED
    BY <1>2, <1>3, <1>6, <1>7, <1>8, <1>9

-----------------------------------------------------------------------------
(* Lines, and steps that leave the request to others.                      *)

LEMMA Added ==
    ASSUME NEW s \in Seq(Letters), NEW f \in Letters
    PROVE  /\ Append(s, f) \in Seq(Letters) /\ Len(Append(s, f)) = Len(s) + 1 /\ Len(s) \in Nat
           /\ Append(s, f) # << >>
           /\ Append(s, f)[Len(s) + 1] = f /\ \A i \in 1..Len(s) : Append(s, f)[i] = s[i]
<1>1. /\ Append(s, f) \in Seq(Letters) /\ Len(Append(s, f)) = Len(s) + 1 /\ Len(s) \in Nat
    BY AppendProperties
<1>2. Append(s, f)[Len(s) + 1] = f /\ \A i \in 1..Len(s) : Append(s, f)[i] = s[i]
    BY AppendProperties
<1> QED
    BY <1>1, <1>2

LEMMA Taken ==
    ASSUME NEW s \in Seq(Letters), s # << >>
    PROVE  /\ Tail(s) \in Seq(Letters) /\ Len(s) \in Nat \ {0} /\ Len(Tail(s)) = Len(s) - 1
           /\ Head(s) = s[1] /\ s[1] \in Letters
           /\ \A i \in 1..Len(Tail(s)) : Tail(s)[i] = s[i + 1] /\ i + 1 \in 1..Len(s)
<1>1. Tail(s) \in Seq(Letters) /\ Len(s) \in Nat \ {0} /\ Len(Tail(s)) = Len(s) - 1
    BY EmptySeq, LenProperties, HeadTailProperties
<1> QED
    BY <1>1

LEMMA LetterIs ==
    ASSUME NEW op \in Orders \cup {"start", "cut", "close", "greeting", "refused", "fail"},
           NEW id \in Nat, NEW number \in Nat
    PROVE  LET f == Cable!Frame(op, id, number) IN
           f \in Letters /\ f.op = op /\ f.id = id /\ f.session = number
BY DEF Letters, Cable!Frame, Cable!Statuses, Cable!Results

\* The session keeps what it has open, or has nothing open.
Eased ==
    \/ /\ hSess'.up = hSess.up /\ hSess'.file = hSess.file /\ hSess'.seen = hSess.seen
       /\ hSess'.transferred = hSess.transferred /\ hStore'.part = hStore.part
    \/ ~hSess'.up.owner /\ hSess'.file = NoValue

LEMMA HoldsStays ==
    ASSUME Eased, NEW t, NEW n, NEW s, hSess.seen = s => Holds(t, n)
    PROVE  hSess'.seen = s => Holds(t, n)'
BY DEF Eased, Holds

NoneBorn == \A f : Lives(f)' => Lives(f)

LEMMA LiveStays ==
    ASSUME LiveInv, hClient' = hClient, hRemoval' = hRemoval, Eased, NoneBorn
    PROVE  LiveInv'
<1> SUFFICES ASSUME NEW f, Lives(f)'
             PROVE  /\ f.tag \notin hClient'.left
                    /\ f.op \in {"begin", "chunk", "commit"} => f.tag \in Attempts
                    /\ f.name \in Books /\ f.session # 0
                    /\ Waiting' => IsAsked(f)'
                    /\ hClient'.outcome # "ok"
                    /\ Decides(f)' => Waiting' \/ hClient'.outcome = "unknown"
                    /\ hSess'.seen = f.session => Holds(f.tag, f.name)'
    BY DEF LiveInv
<1>1. Lives(f)
    BY DEF NoneBorn
<1>2. Waiting' = Waiting /\ IsAsked(f)' = IsAsked(f) /\ Decides(f)' = Decides(f)
    BY DEF Waiting, IsAsked, Asked, Order, Decides
<1>3. hSess.seen = f.session => Holds(f.tag, f.name)
    BY <1>1 DEF LiveInv
<1>4. hSess'.seen = f.session => Holds(f.tag, f.name)'
    BY <1>3, HoldsStays
<1> QED
    BY <1>1, <1>2, <1>4 DEF LiveInv

LEMMA SaveStays ==
    ASSUME SaveInv, hClient' = hClient, hRemoval' = hRemoval, hStore'.files = hStore.files, NoneBorn
    PROVE  SaveInv'
<1>1. Done' = Done /\ Delivered' = Delivered /\ Waiting' = Waiting
    BY DEF Done, Delivered, Saved, Waiting
<1>2. (\A f : ~Lives(f)) => (\A f : ~Lives(f)')
    BY DEF NoneBorn
<1> QED
    BY <1>1, <1>2 DEF SaveInv

\* A step of the session or of another owner: client, worker and lines rest.
ClientRests ==
    /\ UNCHANGED <<hClient, hProto, hToDevice, hToHost, hRemoval>>
    /\ hStore'.files = hStore.files /\ Eased /\ NoneBorn
    /\ \A f : Replies(f)' => Replies(f)
    /\ hChan.state = "idle" => hChan'.state = "idle"

LEMMA AnswersStay ==
    ASSUME Answers, NoneBorn, hClient' = hClient, hRemoval' = hRemoval,
           hStore'.files = hStore.files,
           \A f : Replies(f)' => Replies(f)
    PROVE  Answers'
<1> SUFFICES ASSUME NEW f, Replies(f)'
             PROVE  Past(f)' /\ (Asked(f)' => (\A g : ~Lives(g)') /\ Answer(f)')
    BY DEF Answers
<1>1. Replies(f)
    OBVIOUS
<1>2. Past(f)' = Past(f) /\ Asked(f)' = Asked(f) /\ Answer(f)' = Answer(f)
    BY DEF Past, Asked, Answer, Order, Done, Delivered, Saved
<1>3. (\A g : ~Lives(g)) => (\A g : ~Lives(g)')
    BY DEF NoneBorn
<1> QED
    BY <1>1, <1>2, <1>3 DEF Answers

LEMMA ClientRestsKeeps ==
    ASSUME ClientRests, LineInv, LiveInv, WaitInv, SaveInv
    PROVE  LineInv' /\ LiveInv' /\ WaitInv' /\ SaveInv'
<1>1. LiveInv' /\ SaveInv'
    BY LiveStays, SaveStays DEF ClientRests
<1>2. LineInv'
    BY DEF ClientRests, LineInv
<1>3. ASSUME Waiting'
      PROVE  Calm' /\ Answers' /\ GotInv'
  <2>1. Calm /\ Answers /\ GotInv
      BY <1>3 DEF WaitInv, Waiting, ClientRests
  <2>2. Answers'
      BY <2>1, AnswersStay DEF ClientRests
  <2>3. GotInv'
      BY <2>1 DEF GotInv, ClientRests
  <2>4. (hSess.seen = hClient.session => Holds(hClient.tag, hClient.name))'
    <3>1. hSess.seen = hClient.session => Holds(hClient.tag, hClient.name)
        BY <2>1 DEF Calm
    <3> QED
        BY <3>1 DEF ClientRests, Holds, Eased
  <2>5. Calm'
      BY <2>1, <2>4 DEF Calm, ClientRests, Asked, Harmless, Order
  <2> QED
      BY <2>2, <2>3, <2>5
<1> QED
    BY <1>1, <1>2, <1>3 DEF WaitInv

-----------------------------------------------------------------------------
(* The session's steps but the execution, and the other owners.            *)

LEMMA Retires ==
    ASSUME NEW c \in Channels
    PROVE  /\ Cable!Retire(c) \in Channels /\ Cable!Retire(c).session = 0
           /\ Cable!Retire(c).state = IF c.state = "executing" THEN "executing" ELSE "idle"
           /\ Cable!Retire(c).slot = c.slot /\ Cable!Retire(c).next = c.next
           /\ Cable!Retire(c).enabled = c.enabled
BY DEF Channels, Cable!Retire

LEMMA Disconnects ==
    ASSUME NEW c \in Channels, NEW s
    PROVE  LET d == Cable!Disconnect(c, s) IN
           /\ d \in Channels /\ d.slot = c.slot /\ d.next = c.next /\ d.enabled = c.enabled
           /\ d.state = c.state \/ (d.state = "idle" /\ c.state # "executing")
           /\ d.session = IF s # 0 /\ s = c.session THEN 0 ELSE c.session
           /\ d = c \/ (d.session = 0 /\ d.state \in {"idle", "executing"})
<1> DEFINE d == Cable!Disconnect(c, s)
<1>1. CASE s # 0 /\ s = c.session
  <2>1. d = Cable!Retire(c)
      BY <1>1 DEF Cable!Disconnect
  <2> QED
      BY <1>1, <2>1, Retires
<1>2. CASE ~(s # 0 /\ s = c.session)
  <2>1. d = c
      BY <1>2 DEF Cable!Disconnect
  <2> QED
      BY <1>2, <2>1
<1> QED
    BY <1>1, <1>2

LEMMA StartSits ==
    ASSUME HostInv, Cable!StartSession
    PROVE  HostInv'
<1> USE DEF HostInv
<1>1. PICK r \in Cable!BeginManagement(hStore) :
          /\ hStore' = r[2]
          /\ IF r[1] = "ok"
             THEN /\ hSess' = [hSess EXCEPT !.on = TRUE, !.seen = 0, !.state = "waiting"]
                  /\ hChan' = [hChan EXCEPT !.enabled = TRUE]
             ELSE UNCHANGED <<hSess, hChan>>
    BY DEF Cable!StartSession
<1>2. /\ ~hSess.on /\ UNCHANGED <<hRemoval, hClient, hToDevice, hToHost, hProto, hOther>>
    BY DEF Cable!StartSession
<1>3. IsShelf(hStore) /\ hSess \in Sittings /\ hChan \in Channels
    BY DEF HostTypes
<1>4. CASE r[1] # "ok"
  <2>1. hStore' = hStore
      BY <1>1, <1>3, <1>4, LeaseIsTaken
  <2>2. UNCHANGED <<hRemoval, hClient, hToDevice, hToHost, hProto, hOther, hStore, hSess, hChan>>
      BY <1>1, <1>2, <1>4, <2>1
  <2> QED
      BY <2>2 DEF HostTypes, SlotInv, LineInv, LiveInv, WaitInv, SaveInv, HandleInv, Lives, Replies,
           Waiting, Saved, Holds, Calm, Answers, GotInv, Answer, Past, Asked, IsAsked, Order, Harmless,
           Decides, Done, Delivered
<1>5. CASE r[1] = "ok"
  <2>1. /\ SameBooks(hStore, hStore') /\ hStore'.managing /\ ~hStore.managing
        /\ hStore.readers = 0 /\ hStore'.uploading = hStore.uploading
        /\ hStore'.readers = hStore.readers
      BY <1>1, <1>3, <1>5, LeaseIsTaken
  <2>2. hSess' = [hSess EXCEPT !.on = TRUE, !.seen = 0, !.state = "waiting"]
      BY <1>1, <1>5
  <2>3. /\ hSess' \in Sittings /\ hSess'.on /\ hSess'.seen = 0 /\ hSess'.state = "waiting"
        /\ hSess'.up = hSess.up /\ hSess'.file = hSess.file /\ hSess'.at = hSess.at
        /\ hSess'.request = hSess.request /\ hSess'.reply = hSess.reply
      BY <1>3, <2>2 DEF Sittings
  <2>4. hChan' = [hChan EXCEPT !.enabled = TRUE]
      BY <1>1, <1>5
  <2>5. /\ hChan' \in Channels /\ hChan'.state = hChan.state /\ hChan'.slot = hChan.slot
        /\ hChan'.session = hChan.session /\ hChan'.next = hChan.next
      BY <1>3, <2>4 DEF Channels
  <2>6. ~hSess.up.owner /\ hSess.file = NoValue /\ hSess.at = "idle"
      BY <1>2, <1>3 DEF HandleInv, Sittings
  <2>7. ClientRests
      BY <1>2, <2>1, <2>3, <2>5, <2>6 DEF ClientRests, Eased, NoneBorn, Lives, Replies, SameBooks
  <2>8. HostTypes'
      BY <1>2, <2>1, <2>3, <2>5 DEF HostTypes, SameBooks
  <2>9. SlotInv'
      BY <1>2, <1>3, <2>3, <2>5, <2>6 DEF SlotInv, Channels
  <2>10. HandleInv'
      BY <1>2, <2>1, <2>3, <2>6 DEF HandleInv, SameBooks, HostTypes
  <2> QED
      BY <2>7, <2>8, <2>9, <2>10, ClientRestsKeeps
<1> QED
    BY <1>4, <1>5

LEMMA StopSits ==
    ASSUME HostInv, Cable!StopSession
    PROVE  HostInv'
<1> USE DEF HostInv
<1> DEFINE r == Cable!ResetTransfer(hStore, hSess)
           c == Cable!Retire(hChan)
           e == Cable!EndManagement(r[1])[2]
<1>1. /\ hSess.on /\ hSess.at = "idle"
      /\ hChan' = [c EXCEPT !.enabled = FALSE]
      /\ hStore' = e /\ hSess' = [r[2] EXCEPT !.on = FALSE, !.seen = 0]
      /\ UNCHANGED <<hRemoval, hClient, hToDevice, hToHost, hProto, hOther>>
    BY DEF Cable!StopSession
<1>2. IsShelf(hStore) /\ hSess \in Sittings /\ hChan \in Channels
    BY DEF HostTypes
<1>3. /\ SameBooks(hStore, r[1]) /\ r[1].uploading = (hStore.uploading /\ ~hSess.up.owner)
      /\ r[1].readers = IF hSess.file # NoValue /\ hStore.readers > 0 THEN hStore.readers - 1
                        ELSE hStore.readers
      /\ r[2] \in Sittings /\ ~r[2].up.owner /\ r[2].file = NoValue /\ r[2].at = hSess.at
    BY <1>2, TransferResets
<1>4. /\ c \in Channels /\ c.session = 0 /\ c.slot = hChan.slot /\ c.next = hChan.next
      /\ c.state = IF hChan.state = "executing" THEN "executing" ELSE "idle"
    BY <1>2, Retires
<1> HIDE DEF c, r
<1>5. /\ hChan' \in Channels /\ hChan'.session = 0 /\ hChan'.next = hChan.next
      /\ hChan'.slot = hChan.slot
      /\ hChan'.state = IF hChan.state = "executing" THEN "executing" ELSE "idle"
    BY <1>1, <1>4 DEF Channels
<1>6. /\ hSess' \in Sittings /\ ~hSess'.on /\ hSess'.seen = 0 /\ ~hSess'.up.owner
      /\ hSess'.file = NoValue /\ hSess'.at = "idle"
    BY <1>1, <1>3 DEF Sittings
<1>7. r[1].readers = 0 /\ ~r[1].uploading /\ hOther = "none"
    BY <1>1, <1>2, <1>3 DEF HandleInv, IsShelf, IsStore, Sittings, Handles, HostTypes
<1>8. IsShelf(r[1])
    BY <1>3 DEF SameBooks
<1>9. /\ SameBooks(r[1], e) /\ ~e.managing /\ ~e.uploading /\ e.readers = 0
    BY <1>7, <1>8, LeaseIsGiven
<1> HIDE DEF e
<1>10. ClientRests
    BY <1>1, <1>3, <1>5, <1>6, <1>9 DEF ClientRests, Eased, NoneBorn, Lives, Replies, SameBooks
<1>11. HostTypes'
    BY <1>1, <1>5, <1>6, <1>9 DEF HostTypes, SameBooks
<1>12. SlotInv'
    BY <1>1, <1>2, <1>5, <1>6 DEF SlotInv, Channels
<1>13. HandleInv'
    BY <1>1, <1>3, <1>6, <1>7, <1>9 DEF HandleInv, SameBooks, HostTypes
<1> QED
    BY <1>10, <1>11, <1>12, <1>13, ClientRestsKeeps

LEMMA CancelSits ==
    ASSUME HostInv, Cable!CancelSession
    PROVE  HostInv'
<1> USE DEF HostInv
<1> DEFINE r == Cable!ResetTransfer(hStore, hSess)
           c == Cable!Disconnect(hChan, hChan.session)
<1>1. /\ hSess.on /\ hSess.at = "idle" /\ hChan' = c
      /\ hStore' = r[1] /\ hSess' = [r[2] EXCEPT !.seen = 0, !.state = "cancelled"]
      /\ UNCHANGED <<hRemoval, hClient, hToDevice, hToHost, hProto, hOther>>
    BY DEF Cable!CancelSession
<1>2. IsShelf(hStore) /\ hSess \in Sittings /\ hChan \in Channels
    BY DEF HostTypes
<1>3. /\ SameBooks(hStore, r[1]) /\ r[1].uploading = (hStore.uploading /\ ~hSess.up.owner)
      /\ r[1].managing = hStore.managing
      /\ r[1].readers = IF hSess.file # NoValue /\ hStore.readers > 0 THEN hStore.readers - 1
                        ELSE hStore.readers
      /\ r[2] \in Sittings /\ ~r[2].up.owner /\ r[2].file = NoValue /\ r[2].at = hSess.at
      /\ r[2].on = hSess.on
    BY <1>2, TransferResets
<1>4. /\ c \in Channels /\ c.slot = hChan.slot /\ c.next = hChan.next
      /\ c.session = IF hChan.session # 0 /\ hChan.session = hChan.session THEN 0 ELSE hChan.session
      /\ c.state = hChan.state \/ (c.state = "idle" /\ hChan.state # "executing")
      /\ c = hChan \/ (c.session = 0 /\ c.state \in {"idle", "executing"})
    BY <1>2, Disconnects
<1> HIDE DEF c, r
<1>6. /\ hSess' \in Sittings /\ hSess'.on /\ hSess'.seen = 0 /\ ~hSess'.up.owner
      /\ hSess'.file = NoValue /\ hSess'.at = "idle" /\ hSess'.state = "cancelled"
    BY <1>1, <1>3 DEF Sittings
<1>7. r[1].readers = 0 /\ ~r[1].uploading /\ hOther = "none"
    BY <1>1, <1>2, <1>3 DEF HandleInv, IsShelf, IsStore, Sittings, Handles, HostTypes
<1>10. ClientRests
    BY <1>1, <1>3, <1>4, <1>6 DEF ClientRests, Eased, NoneBorn, Lives, Replies, SameBooks
<1>11. HostTypes'
    BY <1>1, <1>3, <1>4, <1>6 DEF HostTypes, SameBooks
<1>12. SlotInv'
    BY <1>1, <1>2, <1>4, <1>6 DEF SlotInv, Channels
<1>13. HandleInv'
    BY <1>1, <1>3, <1>6, <1>7 DEF HandleInv, SameBooks, HostTypes
<1> QED
    BY <1>10, <1>11, <1>12, <1>13, ClientRestsKeeps

LEMMA PollSits ==
    ASSUME HostInv, Cable!PollSession
    PROVE  HostInv'
<1> USE DEF HostInv
<1>1. /\ hSess.on /\ hSess.at = "idle"
      /\ UNCHANGED <<hRemoval, hClient, hToDevice, hToHost, hProto, hChan, hOther>>
    BY DEF Cable!PollSession
<1>2. IsShelf(hStore) /\ hSess \in Sittings /\ hChan \in Channels
    BY DEF HostTypes
<1>3. CASE hSess.seen = hChan.session
  <2>1. hSess' = [hSess EXCEPT !.at = "synced"] /\ UNCHANGED hStore
      BY <1>3 DEF Cable!PollSession
  <2>2. /\ hSess' \in Sittings /\ hSess'.at = "synced" /\ hSess'.on = hSess.on
        /\ hSess'.seen = hSess.seen /\ hSess'.state = hSess.state /\ hSess'.up = hSess.up
        /\ hSess'.file = hSess.file /\ hSess'.transferred = hSess.transferred
      BY <1>2, <2>1 DEF Sittings
  <2>3. ClientRests
      BY <1>1, <2>1, <2>2 DEF ClientRests, Eased, NoneBorn, Lives, Replies
  <2>4. HostTypes' /\ SlotInv'
      BY <1>1, <2>1, <2>2 DEF HostTypes, SlotInv
  <2>5. HandleInv'
      BY <1>1, <2>1, <2>2 DEF HandleInv
  <2> QED
      BY <2>3, <2>4, <2>5, ClientRestsKeeps
<1>4. CASE hSess.seen # hChan.session
  <2> DEFINE r == Cable!ResetTransfer(hStore, hSess)
             to == IF hChan.session # 0 THEN "ready" ELSE "waiting"
  <2>1. /\ hStore' = r[1]
        /\ hSess' = [r[2] EXCEPT !.at = "synced", !.seen = hChan.session, !.state = to]
      BY <1>4 DEF Cable!PollSession
  <2>2. /\ SameBooks(hStore, r[1]) /\ r[1].uploading = (hStore.uploading /\ ~hSess.up.owner)
        /\ r[1].managing = hStore.managing
        /\ r[1].readers = IF hSess.file # NoValue /\ hStore.readers > 0 THEN hStore.readers - 1
                          ELSE hStore.readers
        /\ r[2] \in Sittings /\ ~r[2].up.owner /\ r[2].file = NoValue /\ r[2].on = hSess.on
      BY <1>2, TransferResets
  <2>3. to \in {"ready", "waiting"}
      OBVIOUS
  <2> HIDE DEF r, to
  <2>4. /\ hSess' \in Sittings /\ hSess'.on /\ hSess'.seen = hChan.session /\ ~hSess'.up.owner
        /\ hSess'.file = NoValue /\ hSess'.at = "synced" /\ hSess'.state \in {"ready", "waiting"}
      BY <1>1, <1>2, <2>1, <2>2, <2>3 DEF Sittings, Channels
  <2>5. r[1].readers = 0 /\ ~r[1].uploading /\ hOther = "none"
      BY <1>1, <1>2, <2>2 DEF HandleInv, IsShelf, IsStore, Sittings, Handles, HostTypes
  <2>6. ClientRests
      BY <1>1, <2>1, <2>2, <2>4 DEF ClientRests, Eased, NoneBorn, Lives, Replies, SameBooks
  <2>7. HostTypes'
      BY <1>1, <2>1, <2>2, <2>4 DEF HostTypes, SameBooks
  <2>8. SlotInv'
      BY <1>1, <1>2, <2>4 DEF SlotInv, Channels, Protocols, HostTypes
  <2>9. HandleInv'
      BY <1>1, <2>1, <2>2, <2>4, <2>5 DEF HandleInv, SameBooks, HostTypes
  <2> QED
      BY <2>6, <2>7, <2>8, <2>9, ClientRestsKeeps
<1> QED
    BY <1>3, <1>4

LEMMA TakeSits ==
    ASSUME HostInv, Cable!TakeRequest
    PROVE  HostInv'
<1> USE DEF HostInv
<1>1. /\ hSess.at = "synced" /\ UNCHANGED <<hRemoval, hClient, hToDevice, hToHost, hProto, hOther>>
    BY DEF Cable!TakeRequest
<1>2. /\ IsShelf(hStore) /\ hSess \in Sittings /\ hChan \in Channels
    BY DEF HostTypes
<1>5. hSess.on
    BY <1>1 DEF HandleInv
<1>3. CASE hChan.state # "queued"
  <2>1. hSess' = [hSess EXCEPT !.at = "idle"] /\ UNCHANGED <<hStore, hChan>>
      BY <1>3 DEF Cable!TakeRequest
  <2>2. /\ hSess' \in Sittings /\ hSess'.at = "idle" /\ hSess'.on = hSess.on
        /\ hSess'.seen = hSess.seen /\ hSess'.state = hSess.state /\ hSess'.up = hSess.up
        /\ hSess'.file = hSess.file /\ hSess'.transferred = hSess.transferred
      BY <1>2, <2>1 DEF Sittings
  <2>3. ClientRests
      BY <1>1, <2>1, <2>2 DEF ClientRests, Eased, NoneBorn, Lives, Replies
  <2>4. HostTypes' /\ SlotInv'
      BY <1>1, <2>1, <2>2 DEF HostTypes, SlotInv
  <2>5. HandleInv'
      BY <1>1, <2>1, <2>2 DEF HandleInv
  <2> QED
      BY <2>3, <2>4, <2>5, ClientRestsKeeps
<1>4. CASE hChan.state = "queued"
  <2> DEFINE f == hChan.slot
             given == IF hSess.seen = f.session THEN <<hStore, hSess>>
                      ELSE Cable!ResetTransfer(hStore, hSess)
  <2>1. /\ hChan' = [hChan EXCEPT !.state = "executing"]
        /\ hStore' = given[1]
        /\ hSess' = [given[2] EXCEPT !.at = "executing", !.request = f, !.seen = f.session,
                                 !.state = IF hSess.seen = f.session THEN @ ELSE "ready"]
      BY <1>4 DEF Cable!TakeRequest
  <2>2. /\ f \in Letters /\ f.op \in Orders /\ f.session = hChan.session
      BY <1>2, <1>4 DEF SlotInv, Channels
  <2>3. /\ hChan' \in Channels /\ hChan'.state = "executing" /\ hChan'.slot = f
        /\ hChan'.next = hChan.next /\ hChan'.session = hChan.session
      BY <1>2, <2>1 DEF Channels
  <2>4. f.session \in Nat
      BY <2>2 DEF Letters
  <2>5. CASE hSess.seen = f.session
    <3>1. /\ hStore' = hStore
          /\ hSess' = [hSess EXCEPT !.at = "executing", !.request = f, !.seen = f.session,
                                    !.state = @]
        BY <2>1, <2>5
    <3> HIDE DEF given, f
    <3>2. /\ hSess' \in Sittings /\ hSess'.at = "executing" /\ hSess'.request = f
          /\ hSess'.on = hSess.on /\ hSess'.seen = hSess.seen /\ hSess'.state = hSess.state
          /\ hSess'.up = hSess.up /\ hSess'.file = hSess.file
          /\ hSess'.transferred = hSess.transferred
        BY <1>2, <2>2, <2>4, <2>5, <3>1 DEF Sittings
    <3>3. ClientRests
        BY <1>1, <1>4, <2>3, <3>1, <3>2 DEF ClientRests, Eased, NoneBorn, Lives, Replies, f
    <3>4. HostTypes'
        BY <1>1, <2>3, <3>1, <3>2 DEF HostTypes
    <3>5. SlotInv'
        BY <1>1, <1>4, <2>2, <2>3, <2>5, <3>2 DEF SlotInv
    <3>6. HandleInv'
        BY <1>1, <1>5, <3>1, <3>2 DEF HandleInv
    <3> QED
        BY <3>3, <3>4, <3>5, <3>6, ClientRestsKeeps
  <2>6. CASE hSess.seen # f.session
    <3> DEFINE s == Cable!ResetTransfer(hStore, hSess)
    <3>1. /\ hStore' = s[1]
          /\ hSess' = [s[2] EXCEPT !.at = "executing", !.request = f, !.seen = f.session,
                                   !.state = "ready"]
        BY <2>1, <2>6
    <3> HIDE DEF given, f
    <3>2. /\ SameBooks(hStore, s[1]) /\ s[1].uploading = (hStore.uploading /\ ~hSess.up.owner)
          /\ s[1].managing = hStore.managing
          /\ s[1].readers = IF hSess.file # NoValue /\ hStore.readers > 0 THEN hStore.readers - 1
                            ELSE hStore.readers
          /\ s[2] \in Sittings /\ ~s[2].up.owner /\ s[2].file = NoValue /\ s[2].on = hSess.on
        BY <1>2, TransferResets
    <3> HIDE DEF s
    <3>3. /\ hSess' \in Sittings /\ hSess'.at = "executing" /\ hSess'.request = f /\ hSess'.on
          /\ hSess'.seen = f.session /\ hSess'.state = "ready"
          /\ ~hSess'.up.owner /\ hSess'.file = NoValue
        BY <1>5, <2>2, <2>4, <3>1, <3>2 DEF Sittings
    <3>4. s[1].readers = 0 /\ ~s[1].uploading /\ hOther = "none"
        BY <1>1, <1>2, <1>5, <3>2 DEF HandleInv, IsShelf, IsStore, Sittings, Handles, HostTypes
    <3>5. ClientRests
        BY <1>1, <1>4, <2>3, <3>1, <3>2, <3>3 
            DEF ClientRests, Eased, NoneBorn, Lives, Replies, SameBooks, f
    <3>6. HostTypes'
        BY <1>1, <2>3, <3>1, <3>2, <3>3 DEF HostTypes, SameBooks
    <3>7. SlotInv'
        BY <1>1, <1>2, <1>4, <2>2, <2>3, <2>4, <3>3 DEF SlotInv, Channels, Protocols, HostTypes
    <3>8. HandleInv'
        BY <1>1, <1>5, <3>1, <3>2, <3>3, <3>4 DEF HandleInv, SameBooks, HostTypes
    <3> QED
        BY <3>5, <3>6, <3>7, <3>8, ClientRestsKeeps
  <2> QED
      BY <2>5, <2>6
<1> QED
    BY <1>3, <1>4

LEMMA CompleteSits ==
    ASSUME HostInv, Cable!Complete
    PROVE  HostInv'
<1> USE DEF HostInv
<1>1. /\ hSess.at = "reply" /\ UNCHANGED <<hRemoval, hClient, hToDevice, hToHost, hProto, hStore, hOther>>
      /\ hChan' = Cable!CompleteSlot(hChan, hSess.reply)
      /\ hSess' = [hSess EXCEPT !.at = "idle", !.request = Cable!NoFrame, !.reply = Cable!NoFrame]
    BY DEF Cable!Complete
<1>2. IsShelf(hStore) /\ hSess \in Sittings /\ hChan \in Channels
    BY DEF HostTypes
<1>3. /\ hChan.state = "executing" /\ hSess.reply.op \in Orders /\ hSess.reply \in Letters
      /\ hChan.slot.id = hSess.reply.id /\ hChan.slot.session = hSess.reply.session
    BY <1>1, <1>2 DEF SlotInv, Sittings
<1>4. Cable!NoFrame \in Letters
    BY LetterIs DEF Cable!NoFrame
<1>5. /\ hSess' \in Sittings /\ hSess'.at = "idle" /\ hSess'.on = hSess.on
      /\ hSess'.seen = hSess.seen /\ hSess'.state = hSess.state /\ hSess'.up = hSess.up
      /\ hSess'.file = hSess.file /\ hSess'.transferred = hSess.transferred
    BY <1>1, <1>2, <1>4 DEF Sittings
<1>6. \/ hChan' = [hChan EXCEPT !.state = "idle"]
      \/ hChan' = [hChan EXCEPT !.slot = hSess.reply, !.state = "replied"]
    BY <1>1, <1>3 DEF Cable!CompleteSlot
<1>7. /\ hChan' \in Channels /\ hChan'.session = hChan.session /\ hChan'.next = hChan.next
      /\ hChan'.state = "idle" \/ (hChan'.state = "replied" /\ hChan'.slot = hSess.reply)
    BY <1>2, <1>3, <1>6 DEF Channels
<1>8. ClientRests
    BY <1>1, <1>3, <1>5, <1>7 DEF ClientRests, Eased, NoneBorn, Lives, Replies
<1>9. HostTypes'
    BY <1>1, <1>5, <1>7 DEF HostTypes
<1>10. SlotInv'
    BY <1>1, <1>3, <1>5, <1>7 DEF SlotInv
<1>11. HandleInv'
    BY <1>1, <1>2, <1>5 DEF HandleInv
<1> QED
    BY <1>8, <1>9, <1>10, <1>11, ClientRestsKeeps

LEMMA OthersBegin ==
    ASSUME HostInv, Cable!OtherBegins
    PROVE  HostInv'
<1> USE DEF HostInv
<1>1. hOther = "none" /\ UNCHANGED <<hRemoval, hClient, hToDevice, hToHost, hProto, hChan, hSess>>
    BY DEF Cable!OtherBegins
<1>2. IsShelf(hStore) /\ hSess \in Sittings /\ hStore.readers \in Nat
    BY DEF HostTypes, IsShelf, IsStore
<1>3. /\ ~hSess.on /\ SameBooks(hStore, hStore') /\ hStore'.uploading = hStore.uploading
      /\ \/ hStore'.managing /\ hStore'.readers = hStore.readers /\ hOther' = "manages"
         \/ /\ ~hStore'.managing /\ hStore'.readers = hStore.readers + 1
            /\ hOther' = "reads"
  <2>1. CASE \E r \in Cable!BeginManagement(hStore) :
                r[1] = "ok" /\ hStore' = r[2] /\ hOther' = "manages"
      BY <1>2, <2>1, LeaseIsTaken DEF HandleInv
  <2>2. CASE \E n \in Books : \E r \in Cable!OpenFile(hStore, n, FALSE) :
                ~hSess.on /\ r[1] = "ok" /\ hStore' = r[2] /\ hOther' = "reads"
    <3>1. PICK n \in Books : \E r \in Cable!OpenFile(hStore, n, FALSE) :
             ~hSess.on /\ r[1] = "ok" /\ hStore' = r[2] /\ hOther' = "reads"
        BY <2>2
    <3>2. PICK r \in Cable!OpenFile(hStore, n, FALSE) :
             ~hSess.on /\ r[1] = "ok" /\ hStore' = r[2] /\ hOther' = "reads"
        BY <3>1
    <3> HIDE DEF HostInv
    <3>3. IsShelf(hStore)
        BY <1>2
    <3> DEFINE read == [hStore EXCEPT !.readers = @ + 1]
    <3>4. \/ r = <<"ok", read>> /\ ~hStore.managing
          \/ \E w \in {"busy", "notFound", "ioError"} : r = <<w, hStore>>
        BY <3>3 DEF Cable!OpenFile, IsShelf, IsStore
    <3>5. /\ SameBooks(hStore, read) /\ read.uploading = hStore.uploading
          /\ read.readers = hStore.readers + 1 /\ read.managing = hStore.managing
        BY <3>3 DEF SameBooks, IsShelf, IsStore
    <3> HIDE DEF read
    <3>6. r[2] = read /\ ~hStore.managing
        BY <3>2, <3>4
    <3> QED
        BY <1>2, <3>2, <3>5, <3>6
  <2> QED
      BY <2>1, <2>2 DEF Cable!OtherBegins
<1>4. ~hSess.up.owner /\ hSess.file = NoValue
    BY <1>3 DEF HandleInv
<1>5. ClientRests
    BY <1>1, <1>3, <1>4 DEF ClientRests, Eased, NoneBorn, Lives, Replies, SameBooks
<1>6. HostTypes' /\ SlotInv'
    BY <1>1, <1>3 DEF HostTypes, SlotInv, SameBooks
<1>7. HandleInv'
    BY <1>1, <1>2, <1>3, <1>4 DEF HandleInv, SameBooks
<1> QED
    BY <1>5, <1>6, <1>7, ClientRestsKeeps

LEMMA OthersEnd ==
    ASSUME HostInv, Cable!OtherEnds
    PROVE  HostInv'
<1> USE DEF HostInv
<1>1. /\ hOther # "none" /\ hOther' = "none"
      /\ UNCHANGED <<hRemoval, hClient, hToDevice, hToHost, hProto, hChan, hSess>>
      /\ hStore' = IF hOther = "reads" THEN Cable!CloseFile(hStore)
                   ELSE Cable!EndManagement(hStore)[2]
    BY DEF Cable!OtherEnds
<1>2. IsShelf(hStore) /\ hSess \in Sittings /\ hOther \in {"manages", "reads"}
    BY <1>1 DEF HostTypes
<1>3. ~hSess.on /\ ~hSess.up.owner /\ hSess.file = NoValue /\ ~hStore.uploading
    BY <1>1 DEF HandleInv
<1>4. /\ SameBooks(hStore, hStore') /\ hStore'.uploading = hStore.uploading
      /\ hStore'.readers = 0 /\ ~hStore'.managing
  <2>1. CASE hOther = "reads"
    <3>1. hStore' = Cable!CloseFile(hStore) /\ hStore.readers = 1 /\ ~hStore.managing
        BY <1>1, <1>3, <2>1 DEF HandleInv
    <3> QED
        BY <1>2, <3>1, FileCloses
  <2>2. CASE hOther = "manages"
    <3>1. hStore' = Cable!EndManagement(hStore)[2] /\ hStore.readers = 0
        BY <1>1, <1>3, <2>2 DEF HandleInv
    <3> QED
        BY <1>2, <1>3, <3>1, LeaseIsGiven
  <2> QED
      BY <1>2, <2>1, <2>2
<1>5. ClientRests
    BY <1>1, <1>3, <1>4 DEF ClientRests, Eased, NoneBorn, Lives, Replies, SameBooks
<1>6. HostTypes' /\ SlotInv'
    BY <1>1, <1>4 DEF HostTypes, SlotInv, SameBooks
<1>7. HandleInv'
    BY <1>1, <1>2, <1>3, <1>4 DEF HandleInv, SameBooks
<1> QED
    BY <1>5, <1>6, <1>7, ClientRestsKeeps

-----------------------------------------------------------------------------
(* Execution of a request.                                                 *)

Shelved(b) ==
    \A n \in Books : b.files[n] = NoValue \/ \E t \in Attempts : b.files[n] = Bound(t)

\* The session and its handles on the store fit together.
InStep(b, q) ==
    /\ q.on /\ b.managing /\ Shelved(b)
    /\ b.readers = IF q.file # NoValue THEN 1 ELSE 0
    /\ b.uploading <=> q.up.owner
    /\ q.state = "uploading" <=> q.up.owner
    /\ q.state = "downloading" <=> q.file # NoValue
    /\ q.up.owner => /\ q.up.open /\ ~q.up.error
                     /\ q.up.received = q.transferred /\ q.up.name \in Books
    /\ q.file # NoValue => /\ q.transferred < CableChunks /\ q.file \in Books
                           /\ b.files[q.file] # NoValue

HoldsIn(b, q, t, n) ==
    /\ q.up.owner => b.part = Copies(t, q.transferred) /\ q.up.name = n
    /\ q.file # NoValue => q.file = n

\* What the execution of f makes of store and session, and its answer.
Changes(b, f, w, c) ==
    /\ \A n \in Books :
          \/ c.files[n] = b.files[n]
          \/ /\ n = f.name /\ w \in {"ok", "late"}
             /\ \/ f.op = "commit" /\ c.files[n] = Bound(f.tag)
                \/ f.op = "remove" /\ c.files[n] = NoValue
    /\ f.op = "commit" /\ w = "ok" => c.files[f.name] = Bound(f.tag)
    /\ f.op = "remove" /\ w = "ok" => c.files[f.name] = NoValue
Reader(f, w, c, t) ==
    f.op = "read" /\ w = "ok" => t \in Attempts /\ c.files[f.name] = Bound(t)
Executes(b, q, f, r) ==
    /\ r[1] \in Cable!Statuses /\ IsShelf(r[2]) /\ r[3] \in Sittings
    /\ r[4] \in Attempts \cup {NoValue} /\ r[3].seen = q.seen
    /\ InStep(r[2], r[3]) /\ HoldsIn(r[2], r[3], f.tag, f.name)
    /\ Changes(b, f, r[1], r[2]) /\ Reader(f, r[1], r[2], r[4])

LEMMA Rejects ==
    ASSUME NEW b, IsShelf(b), NEW q \in Sittings, NEW f \in Letters,
           InStep(b, q), HoldsIn(b, q, f.tag, f.name), NEW w \in Cable!Statuses, w # "ok"
    PROVE  Executes(b, q, f, Cable!Rejected(w, b, q))
BY DEF Executes, Changes, Reader, Cable!Rejected

LEMMA ResetInStep ==
    ASSUME NEW c, IsShelf(c), Shelved(c), NEW p \in Sittings, p.on, c.managing,
           c.readers = IF p.file # NoValue THEN 1 ELSE 0, c.uploading <=> p.up.owner,
           NEW st \in {"complete", "failed"}, NEW t, NEW n
    PROVE  LET e == Cable!ResetTransfer(c, p)
               s == [e[2] EXCEPT !.state = st]
           IN /\ IsShelf(e[1]) /\ e[1].files = c.files /\ s \in Sittings /\ s.seen = p.seen
              /\ InStep(e[1], s) /\ HoldsIn(e[1], s, t, n)
<1> DEFINE e == Cable!ResetTransfer(c, p)
           s == [e[2] EXCEPT !.state = st]
<1>1. /\ SameBooks(c, e[1]) /\ e[1].managing /\ ~e[1].uploading
      /\ e[1].readers = IF p.file # NoValue /\ c.readers > 0 THEN c.readers - 1 ELSE c.readers
      /\ e[2] \in Sittings /\ ~e[2].up.owner /\ e[2].file = NoValue
      /\ e[2].on /\ e[2].seen = p.seen
    BY TransferResets
<1> HIDE DEF e
<1>2. /\ s \in Sittings /\ s.seen = p.seen /\ s.on /\ ~s.up.owner /\ s.file = NoValue
      /\ s.state = st
    BY <1>1 DEF Sittings
<1> HIDE DEF s
<1>3. e[1].readers = 0 /\ ~e[1].uploading /\ e[1].managing
    BY <1>1
<1>4. Shelved(e[1])
    BY <1>1 DEF Shelved, SameBooks
<1>5. InStep(e[1], s) /\ HoldsIn(e[1], s, t, n)
    BY <1>2, <1>3, <1>4 DEF InStep, HoldsIn
<1> QED
    BY <1>1, <1>2, <1>5 DEF e, s, SameBooks

\* A transfer that fails has given its handles back.
LEMMA FailsInStep ==
    ASSUME NEW b, Shelved(b), NEW q \in Sittings, NEW f \in Letters,
           NEW c, SameBooks(b, c), NEW p \in Sittings, p.on, c.managing, p.seen = q.seen,
           c.readers = IF p.file # NoValue THEN 1 ELSE 0, c.uploading <=> p.up.owner,
           NEW w \in Cable!Statuses, w # "ok"
    PROVE  Executes(b, q, f, Cable!TransferFailed(w, c, p))
<1> DEFINE e == Cable!ResetTransfer(c, p)
           s == [e[2] EXCEPT !.state = "failed"]
<1>1. IsShelf(c) /\ Shelved(c) /\ c.files = b.files
    BY DEF SameBooks, Shelved
<1>2. /\ IsShelf(e[1]) /\ e[1].files = c.files /\ s \in Sittings /\ s.seen = p.seen
      /\ InStep(e[1], s) /\ HoldsIn(e[1], s, f.tag, f.name)
    BY <1>1, ResetInStep
<1>3. Cable!TransferFailed(w, c, p) = <<w, e[1], s, NoValue>>
    BY DEF Cable!TransferFailed, Cable!Rejected
<1> HIDE DEF e, s
<1> QED
    BY <1>1, <1>2, <1>3 DEF Executes, Changes, Reader

LEMMA BeginExecutes ==
    ASSUME NEW b, IsShelf(b), NEW q \in Sittings, NEW f \in Letters, f.op = "begin",
           InStep(b, q), HoldsIn(b, q, f.tag, f.name), f.name \in Books,
           NEW r \in Cable!ExecuteBegin(b, q, f)
    PROVE  Executes(b, q, f, r)
<1>1. CASE Cable!Transferring(q)
  <2>1. r = Cable!Rejected("busy", b, q)
      BY <1>1 DEF Cable!ExecuteBegin
  <2> QED
      BY <2>1, Rejects DEF Cable!Statuses, Cable!Results
<1>2. CASE ~Cable!Transferring(q)
  <2>1. ~q.up.owner /\ q.file = NoValue
      BY <1>2 DEF InStep, Cable!Transferring
  <2>2. q.up \in Handles /\ f.name \in Books \cup {NoValue}
      BY DEF Sittings
  <2> DEFINE begun(u) == [q EXCEPT !.up = u, !.transferred = 0, !.state = "uploading"]
             same(u) == [q EXCEPT !.up = u]
  <2>3. PICK x \in Cable!BeginUpload(b, q.up, f.name) :
           r = <<x[1], x[2], IF x[1] = "ok" THEN begun(x[3]) ELSE same(x[3]), NoValue>>
      BY <1>2 DEF Cable!ExecuteBegin
  <2>4. /\ SameBooks(b, x[2]) /\ SameLease(b, x[2]) /\ x[3] \in Handles
        /\ x[1] \in Cable!Statuses
        /\ x[1] = "ok" => /\ x[2].uploading /\ x[2].part = << >>
                          /\ x[3].owner /\ x[3].open /\ ~x[3].error /\ x[3].received = 0
                          /\ x[3].name = f.name
        /\ x[1] # "ok" => x[2] = b /\ x[3] = q.up
      BY <2>2, UploadBegins
  <2>5. CASE x[1] # "ok"
    <3>1. same(q.up) = q
        BY <2>2 DEF Sittings
    <3>2. r = Cable!Rejected(x[1], b, q)
        BY <2>3, <2>4, <2>5, <3>1 DEF Cable!Rejected
    <3> QED
        BY <2>4, <2>5, <3>2, Rejects
  <2>6. CASE x[1] = "ok"
    <3> DEFINE p == begun(x[3])
    <3>1. /\ p \in Sittings /\ p.up = x[3] /\ p.transferred = 0 /\ p.state = "uploading"
          /\ p.file = NoValue /\ p.seen = q.seen /\ (q.on => p.on)
        BY <2>1, <2>4 DEF Sittings
    <3>2. r[1] = "ok" /\ r[2] = x[2] /\ r[3] = p /\ r[4] = NoValue
        BY <2>3, <2>6
    <3> HIDE DEF p
    <3>3. /\ IsShelf(x[2]) /\ x[2].files = b.files /\ Shelved(x[2])
        BY <2>4 DEF SameBooks, Shelved, InStep
    <3>4. x[2].managing /\ x[2].readers = 0
        BY <2>1, <2>4 DEF SameLease, InStep
    <3>5. Copies(f.tag, 0) = << >>
        BY DEF Copies
    <3>6. InStep(x[2], p)
        BY <2>4, <2>6, <3>1, <3>3, <3>4 DEF InStep
    <3>7. HoldsIn(x[2], p, f.tag, f.name)
        BY <2>4, <2>6, <3>1, <3>5 DEF HoldsIn
    <3> QED
        BY <2>4, <2>6, <3>1, <3>2, <3>3, <3>6, <3>7 DEF Executes, Changes, Reader
  <2> QED
      BY <2>5, <2>6
<1> QED
    BY <1>1, <1>2

LEMMA SittingMoves ==
    ASSUME NEW q \in Sittings, NEW u \in Handles
    PROVE  LET p == [q EXCEPT !.up = u, !.transferred = @ + 1] IN
           /\ p \in Sittings /\ p.up = u /\ p.transferred = q.transferred + 1
           /\ p.state = q.state /\ p.file = q.file /\ p.seen = q.seen /\ (q.on => p.on)
<1> DEFINE n == q.transferred + 1
           p == [q EXCEPT !.up = u, !.transferred = n]
<1>1. n \in Nat
    BY DEF Sittings
<1> HIDE DEF n
<1>2. /\ p \in Sittings /\ p.up = u /\ p.transferred = n
      /\ p.state = q.state /\ p.file = q.file /\ p.seen = q.seen /\ (q.on => p.on)
    BY <1>1 DEF Sittings
<1> QED
    BY <1>2 DEF n

LEMMA ChunkExecutes ==
    ASSUME NEW b, IsShelf(b), NEW q \in Sittings, NEW f \in Letters, f.op = "chunk",
           InStep(b, q), HoldsIn(b, q, f.tag, f.name), f.tag \in Attempts,
           NEW r \in Cable!ExecuteChunk(b, q, f)
    PROVE  Executes(b, q, f, r)
<1>1. CASE q.state # "uploading"
  <2>1. r = Cable!Rejected("busy", b, q)
      BY <1>1 DEF Cable!ExecuteChunk
  <2> QED
      BY <2>1, Rejects DEF Cable!Statuses, Cable!Results
<1>2. CASE q.state = "uploading" /\ f.off # q.transferred
  <2>1. r = Cable!TransferFailed("invalid", b, q)
      BY <1>2 DEF Cable!ExecuteChunk
  <2>2. SameBooks(b, b) /\ Shelved(b) /\ q.on /\ b.managing
      BY DEF SameBooks, InStep
  <2>3. (b.readers = IF q.file # NoValue THEN 1 ELSE 0) /\ (b.uploading <=> q.up.owner)
      BY DEF InStep
  <2>4. "invalid" \in Cable!Statuses /\ "invalid" # "ok"
      BY DEF Cable!Statuses, Cable!Results
  <2> QED
      BY <2>1, <2>2, <2>3, <2>4, FailsInStep
<1>3. CASE q.state = "uploading" /\ f.off = q.transferred
  <2>1. q.up.owner /\ q.file = NoValue /\ q.up.open /\ ~q.up.error /\ q.up.name \in Books
      BY <1>3 DEF InStep
  <2>2. q.up \in Handles
      BY DEF Sittings
  <2> DEFINE moved(u) == [q EXCEPT !.up = u, !.transferred = @ + 1]
             bad(u) == [q EXCEPT !.up = u]
  <2>3. PICK x \in Cable!WriteUpload(b, q.up, f.tag) :
           r = IF x[1] = "ok" THEN <<"ok", x[2], moved(x[3]), NoValue>>
               ELSE Cable!TransferFailed(x[1], x[2], bad(x[3]))
      BY <1>3 DEF Cable!ExecuteChunk
  <2>4. /\ SameBooks(b, x[2]) /\ SameLease(b, x[2]) /\ x[3] \in Handles
        /\ x[1] \in Cable!Statuses
        /\ x[2].uploading = b.uploading /\ x[3].owner = q.up.owner
        /\ x[1] = "ok" => /\ x[2].part = Append(b.part, f.tag) /\ x[3].received = q.up.received + 1
                          /\ x[3].open /\ ~x[3].error /\ x[3].name = q.up.name
      BY <2>2, UploadWrites
  <2>5. x[2].managing /\ x[2].readers = 0 /\ x[2].uploading /\ x[3].owner
      BY <2>1, <2>4 DEF SameLease, InStep
  <2>6. IsShelf(x[2]) /\ x[2].files = b.files /\ Shelved(b) /\ Shelved(x[2])
      BY <2>4 DEF SameBooks, Shelved, InStep
  <2>7. CASE x[1] # "ok"
    <3> DEFINE p == bad(x[3])
    <3>1. p \in Sittings /\ p.up = x[3] /\ p.file = NoValue /\ p.seen = q.seen /\ (q.on => p.on)
        BY <2>1, <2>4 DEF Sittings
    <3>2. r = Cable!TransferFailed(x[1], x[2], p)
        BY <2>3, <2>7
    <3> HIDE DEF p
    <3>3. p.on /\ (x[2].uploading <=> p.up.owner)
        BY <2>5, <3>1 DEF InStep
    <3>4. x[2].readers = IF p.file # NoValue THEN 1 ELSE 0
        BY <2>5, <3>1
    <3> QED
        BY <2>4, <2>5, <2>6, <2>7, <3>1, <3>2, <3>3, <3>4, FailsInStep
  <2>8. CASE x[1] = "ok"
    <3> DEFINE p == moved(x[3])
    <3>7. x[3] \in Handles
        BY <2>4
    <3>8. q.file = NoValue
        BY <2>1
    <3>1. /\ p \in Sittings /\ p.up = x[3] /\ p.transferred = q.transferred + 1
          /\ p.state = q.state /\ p.file = NoValue /\ p.seen = q.seen /\ (q.on => p.on)
        BY <3>7, <3>8, SittingMoves
    <3>2. r[1] = "ok" /\ r[2] = x[2] /\ r[3] = p /\ r[4] = NoValue
        BY <2>3, <2>8
    <3> HIDE DEF p
    <3>3. b.part = Copies(f.tag, q.transferred) /\ q.up.name = f.name /\ q.transferred \in Nat
        BY <2>1 DEF HoldsIn, Sittings
    <3>4. Append(b.part, f.tag) = Copies(f.tag, q.transferred + 1)
        BY <3>3, CopiesAre, ZenonT(60)
    <3>5. InStep(x[2], p)
        BY <1>3, <2>1, <2>4, <2>5, <2>6, <2>8, <3>1 DEF InStep
    <3>6. HoldsIn(x[2], p, f.tag, f.name)
        BY <2>4, <2>8, <3>1, <3>3, <3>4 DEF HoldsIn
    <3> QED
        BY <2>4, <2>6, <2>8, <3>1, <3>2, <3>5, <3>6 DEF Executes, Changes, Reader
  <2> QED
      BY <2>7, <2>8
<1> QED
    BY <1>1, <1>2, <1>3

LEMMA CommitExecutes ==
    ASSUME NEW b, IsShelf(b), NEW q \in Sittings, NEW f \in Letters, f.op = "commit",
           InStep(b, q), HoldsIn(b, q, f.tag, f.name), f.tag \in Attempts, f.name \in Books,
           NEW r \in Cable!ExecuteCommit(b, q)
    PROVE  Executes(b, q, f, r)
<1>1. CASE q.state # "uploading"
  <2>1. r = Cable!Rejected("busy", b, q)
      BY <1>1 DEF Cable!ExecuteCommit
  <2> QED
      BY <2>1, Rejects DEF Cable!Statuses, Cable!Results
<1>2. CASE q.state = "uploading"
  <2>1. q.up.owner /\ q.file = NoValue /\ q.up.open /\ ~q.up.error /\ q.up.name \in Books
      BY <1>2 DEF InStep
  <2>2. q.up \in Handles
      BY DEF Sittings
  <2> DEFINE with(u) == [q EXCEPT !.up = u]
             to(w) == IF w = "ok" THEN "complete" ELSE "failed"
  <2>3. PICK x \in Cable!CommitUpload(b, q.up) :
           r = <<x[1], Cable!ResetTransfer(x[2], with(x[3]))[1],
                 [Cable!ResetTransfer(x[2], with(x[3]))[2] EXCEPT !.state = to(x[1])], NoValue>>
      BY <1>2 DEF Cable!ExecuteCommit
  <2>4. /\ IsShelf(x[2]) /\ SameLease(b, x[2]) /\ x[3] \in Handles /\ x[1] \in Cable!Statuses
        /\ x[1] = "ok" => ~x[2].uploading /\ ~x[3].owner
        /\ x[1] # "ok" => x[2].uploading = b.uploading /\ x[3].owner = q.up.owner
        /\ x[1] \in {"ok", "late"} => /\ q.up.received = CableChunks
                                    /\ x[2].files[q.up.name] = b.part
                                    /\ \A m \in Books \ {q.up.name} : x[2].files[m] = b.files[m]
        /\ x[1] \notin {"ok", "late"} => x[2].files = b.files
    <3>1. q.up.name \in Books
        BY <2>1
    <3> QED
        BY <2>2, <3>1, UploadCommits
  <2> DEFINE p == with(x[3])
  <2>5. p \in Sittings /\ p.up = x[3] /\ p.file = NoValue /\ p.seen = q.seen /\ (q.on => p.on)
      BY <2>1, <2>4 DEF Sittings
  <2>6. p.on /\ x[2].managing /\ x[2].readers = 0
      BY <2>1, <2>4, <2>5 DEF SameLease, InStep
  <2>7. to(x[1]) \in {"complete", "failed"} /\ q.up.name = f.name
        /\ b.part = Copies(f.tag, q.transferred) /\ q.up.received = q.transferred
      BY <2>1 DEF HoldsIn, InStep
  <2>8. x[2].uploading <=> p.up.owner
    <3>1. CASE x[1] = "ok"
        BY <2>4, <2>5, <3>1
    <3>2. CASE x[1] # "ok"
        BY <2>1, <2>4, <2>5, <3>2 DEF InStep
    <3> QED
        BY <3>1, <3>2
  <2>9. Changes(b, f, x[1], x[2]) /\ Shelved(x[2])
    <3>1. CASE x[1] \in {"ok", "late"}
      <4>1. x[2].files[f.name] = Bound(f.tag)
          BY <2>4, <2>7, <3>1 DEF Bound
      <4> QED
          BY <2>4, <2>7, <3>1, <4>1 DEF Changes, Shelved, InStep
    <3>2. CASE x[1] \notin {"ok", "late"}
        BY <2>4, <3>2 DEF Changes, Shelved, InStep
    <3> QED
        BY <3>1, <3>2
  <2> HIDE DEF p
  <2> DEFINE e == Cable!ResetTransfer(x[2], p)
             s == [e[2] EXCEPT !.state = to(x[1])]
  <2>10. /\ IsShelf(e[1]) /\ e[1].files = x[2].files /\ s \in Sittings /\ s.seen = p.seen
         /\ InStep(e[1], s) /\ HoldsIn(e[1], s, f.tag, f.name)
    <3> DEFINE c == x[2]
               st == to(x[1])
    <3>1. IsShelf(c) /\ Shelved(c) /\ p \in Sittings
        BY <2>4, <2>5, <2>9
    <3>2. p.on /\ c.managing
        BY <2>6
    <3>3. c.uploading <=> p.up.owner
        BY <2>8
    <3>4. c.readers = IF p.file # NoValue THEN 1 ELSE 0
        BY <2>5, <2>6
    <3>5. st \in {"complete", "failed"}
        BY <2>7
    <3> HIDE DEF c, st, to
    <3> DEFINE d == Cable!ResetTransfer(c, p)
               g == [d[2] EXCEPT !.state = st]
    <3>6. /\ IsShelf(d[1]) /\ d[1].files = c.files /\ g \in Sittings
          /\ InStep(d[1], g) /\ HoldsIn(d[1], g, f.tag, f.name)
        BY <3>1, <3>2, <3>3, <3>4, <3>5, ResetInStep
    <3>7. d[2] \in Sittings /\ d[2].seen = p.seen
        BY <3>1, TransferResets
    <3>8. g.seen = p.seen
        BY <3>7 DEF Sittings
    <3> QED
        BY <3>6, <3>8 DEF c, st
  <2>11. r = <<x[1], e[1], s, NoValue>>
      BY <2>3 DEF p
  <2> HIDE DEF e, s
  <2> QED
      BY <2>4, <2>5, <2>9, <2>10, <2>11 DEF Executes, Changes, Reader
<1> QED
    BY <1>1, <1>2

LEMMA OpenExecutes ==
    ASSUME NEW b, IsShelf(b), NEW q \in Sittings, NEW f \in Letters, f.op = "open",
           InStep(b, q), HoldsIn(b, q, f.tag, f.name), f.name \in Books,
           NEW r \in Cable!ExecuteOpen(b, q, f)
    PROVE  Executes(b, q, f, r)
<1>1. CASE Cable!Transferring(q)
  <2>1. r = Cable!Rejected("busy", b, q)
      BY <1>1 DEF Cable!ExecuteOpen
  <2> QED
      BY <2>1, Rejects DEF Cable!Statuses, Cable!Results
<1>2. CASE ~Cable!Transferring(q)
  <2>1. ~q.up.owner /\ q.file = NoValue
      BY <1>2 DEF InStep, Cable!Transferring
  <2> DEFINE p == [q EXCEPT !.file = f.name, !.transferred = 0, !.state = "downloading"]
  <2>2. PICK x \in Cable!OpenFile(b, f.name, TRUE) :
           r = <<x[1], x[2], IF x[1] = "ok" THEN p ELSE q, NoValue>>
      BY <1>2 DEF Cable!ExecuteOpen
  <2>3. /\ SameBooks(b, x[2]) /\ x[1] \in Cable!Statuses /\ x[2].part = b.part
        /\ x[1] # "ok" => x[2] = b
        /\ x[1] = "ok" => /\ x[2].readers = b.readers + 1 /\ b.files[f.name] # NoValue
                          /\ ~x[2].uploading /\ x[2].managing
      BY FileOpens
  <2>4. /\ p \in Sittings /\ p.file = f.name /\ p.transferred = 0 /\ p.state = "downloading"
        /\ p.up = q.up /\ p.seen = q.seen /\ (q.on => p.on)
      BY DEF Sittings
  <2>5. f.name # NoValue
      BY CableConstantsAre
  <2> HIDE DEF p
  <2>6. CASE x[1] # "ok"
    <3>1. r = Cable!Rejected(x[1], b, q)
        BY <2>2, <2>3, <2>6 DEF Cable!Rejected
    <3> QED
        BY <2>3, <2>6, <3>1, Rejects
  <2>7. CASE x[1] = "ok"
    <3>1. r[1] = "ok" /\ r[2] = x[2] /\ r[3] = p /\ r[4] = NoValue
        BY <2>2, <2>7
    <3>2. IsShelf(x[2]) /\ x[2].files = b.files /\ Shelved(x[2])
        BY <2>3 DEF SameBooks, Shelved, InStep
    <3>3. x[2].managing /\ ~x[2].uploading /\ x[2].readers = 1 /\ b.files[f.name] # NoValue
        BY <2>1, <2>3, <2>7 DEF InStep
    <3>4. InStep(x[2], p)
        BY <2>1, <2>4, <2>5, <3>2, <3>3, CableConstantsAre DEF InStep
    <3>5. HoldsIn(x[2], p, f.tag, f.name)
        BY <2>1, <2>4 DEF HoldsIn
    <3>6. Changes(b, f, r[1], r[2]) /\ Reader(f, r[1], r[2], r[4])
        BY <3>1, <3>2 DEF Changes, Reader
    <3>7. r[1] \in Cable!Statuses
        BY <3>1 DEF Cable!Statuses, Cable!Results
    <3>8. r[3] \in Sittings /\ r[3].seen = q.seen
        BY <2>4, <3>1
    <3>9. IsShelf(r[2]) /\ InStep(r[2], r[3]) /\ HoldsIn(r[2], r[3], f.tag, f.name)
        BY <3>1, <3>2, <3>4, <3>5
    <3> QED
        BY <3>1, <3>6, <3>7, <3>8, <3>9 DEF Executes
  <2> QED
      BY <2>6, <2>7
<1> QED
    BY <1>1, <1>2

LEMMA ReadExecutes ==
    ASSUME NEW b, IsShelf(b), NEW q \in Sittings, NEW f \in Letters, f.op = "read",
           InStep(b, q), HoldsIn(b, q, f.tag, f.name),
           NEW r \in Cable!ExecuteRead(b, q, f)
    PROVE  Executes(b, q, f, r)
<1>1. CASE q.state # "downloading"
  <2>1. r = Cable!Rejected("busy", b, q)
      BY <1>1 DEF Cable!ExecuteRead
  <2> QED
      BY <2>1, Rejects DEF Cable!Statuses, Cable!Results
<1>2. CASE q.state = "downloading" /\ f.off # q.transferred
  <2>1. r = Cable!Rejected("invalid", b, q)
      BY <1>2 DEF Cable!ExecuteRead
  <2> QED
      BY <2>1, Rejects DEF Cable!Statuses, Cable!Results
<1>3. CASE q.state = "downloading" /\ f.off = q.transferred
  <2>1. /\ q.file # NoValue /\ q.transferred < CableChunks /\ q.file = f.name
        /\ q.file \in Books /\ b.files[q.file] # NoValue /\ q.transferred \in Nat
      BY <1>3 DEF InStep, HoldsIn, Sittings
  <2>2. ~q.up.owner /\ ~b.uploading /\ b.managing /\ b.readers = 1
      BY <1>3, <2>1 DEF InStep
  <2>3. PICK t \in Attempts : b.files[q.file] = Bound(t)
      BY <2>1 DEF InStep, Shelved
  <2>4. b.files[q.file][q.transferred + 1] = t
      BY <2>1, <2>3, BoundIsOne, CableConstantsAre
  <2> DEFINE n == q.transferred + 1
             last == [q EXCEPT !.file = NoValue, !.transferred = n, !.state = "complete"]
             more == [q EXCEPT !.transferred = n]
  <2>5. \/ r = Cable!TransferFailed("ioError", b, q)
        \/ n = CableChunks /\ r = <<"ok", Cable!CloseFile(b), last, t>>
        \/ n # CableChunks /\ r = <<"ok", b, more, t>>
      BY <1>3, <2>4 DEF Cable!ExecuteRead
  <2>6. n \in Nat /\ n <= CableChunks /\ CableChunks \in Nat
      BY <2>1, CableConstantsAre
  <2> HIDE DEF n
  <2>7. CASE r = Cable!TransferFailed("ioError", b, q)
    <3>1. SameBooks(b, b) /\ Shelved(b) /\ q.on /\ b.managing
        BY DEF SameBooks, InStep
    <3>2. (b.readers = IF q.file # NoValue THEN 1 ELSE 0) /\ (b.uploading <=> q.up.owner)
        BY DEF InStep
    <3>3. "ioError" \in Cable!Statuses /\ "ioError" # "ok"
        BY DEF Cable!Statuses, Cable!Results
    <3> QED
        BY <2>7, <3>1, <3>2, <3>3, FailsInStep
  <2>8. CASE n = CableChunks /\ r = <<"ok", Cable!CloseFile(b), last, t>>
    <3> DEFINE c == Cable!CloseFile(b)
    <3>1. /\ SameBooks(b, c) /\ c.managing = b.managing /\ c.uploading = b.uploading
          /\ c.readers = IF b.readers > 0 THEN b.readers - 1 ELSE b.readers
        BY FileCloses
    <3> HIDE DEF c
    <3>2. c.managing /\ ~c.uploading /\ c.readers = 0
        BY <2>2, <3>1
    <3>3. /\ last \in Sittings /\ last.file = NoValue /\ last.state = "complete"
          /\ last.up = q.up /\ last.seen = q.seen /\ (q.on => last.on)
        BY <2>6 DEF Sittings
    <3>4. r[1] = "ok" /\ r[2] = c /\ r[3] = last /\ r[4] = t
        BY <2>8 DEF c
    <3> HIDE DEF last
    <3>5. IsShelf(c) /\ c.files = b.files /\ Shelved(c)
        BY <3>1 DEF SameBooks, Shelved, InStep
    <3>6. InStep(c, last)
        BY <2>2, <3>2, <3>3, <3>5 DEF InStep
    <3>7. HoldsIn(c, last, f.tag, f.name)
        BY <2>2, <3>3 DEF HoldsIn
    <3>8. "ok" \in Cable!Statuses
        BY DEF Cable!Statuses, Cable!Results
    <3> QED
        BY <2>1, <2>3, <3>3, <3>4, <3>5, <3>6, <3>7, <3>8 DEF Executes, Changes, Reader
  <2>9. CASE n # CableChunks /\ r = <<"ok", b, more, t>>
    <3>1. /\ more \in Sittings /\ more.file = q.file /\ more.state = q.state
          /\ more.transferred = n /\ more.up = q.up /\ more.seen = q.seen /\ (q.on => more.on)
        BY <2>6 DEF Sittings
    <3>2. r[1] = "ok" /\ r[2] = b /\ r[3] = more /\ r[4] = t
        BY <2>9
    <3> HIDE DEF more
    <3>3. n < CableChunks
        BY <2>6, <2>9
    <3>4. InStep(b, more)
        BY <1>3, <2>1, <2>2, <3>1, <3>3 DEF InStep
    <3>5. HoldsIn(b, more, f.tag, f.name)
        BY <2>1, <2>2, <3>1 DEF HoldsIn
    <3>6. "ok" \in Cable!Statuses
        BY DEF Cable!Statuses, Cable!Results
    <3> QED
        BY <2>1, <2>3, <3>1, <3>2, <3>4, <3>5, <3>6 DEF Executes, Changes, Reader
  <2> QED
      BY <2>5, <2>7, <2>8, <2>9
<1> QED
    BY <1>1, <1>2, <1>3

LEMMA RemoveExecutes ==
    ASSUME NEW b, IsShelf(b), NEW q \in Sittings, NEW f \in Letters, f.op = "remove",
           InStep(b, q), HoldsIn(b, q, f.tag, f.name), f.name \in Books,
           NEW r \in Cable!ExecuteRemove(b, q, f)
    PROVE  Executes(b, q, f, r)
<1>1. CASE Cable!Transferring(q)
  <2>1. r = Cable!Rejected("busy", b, q)
      BY <1>1 DEF Cable!ExecuteRemove
  <2> QED
      BY <2>1, Rejects DEF Cable!Statuses, Cable!Results
<1>2. CASE ~Cable!Transferring(q)
  <2>1. ~q.up.owner /\ q.file = NoValue
      BY <1>2 DEF InStep, Cable!Transferring
  <2> DEFINE p == [q EXCEPT !.state = "removed"]
  <2>2. PICK x \in Cable!RemoveBook(b, f.name) :
           r = <<x[1], x[2], IF x[1] = "ok" THEN p ELSE q, NoValue>>
      BY <1>2 DEF Cable!ExecuteRemove
  <2>3. /\ IsShelf(x[2]) /\ SameLease(b, x[2]) /\ x[1] \in Cable!Statuses
        /\ x[2].uploading = b.uploading /\ x[2].part = b.part
        /\ x[1] \notin {"ok", "late"} => x[2] = b
        /\ x[1] \in {"ok", "late"} => /\ x[2].files[f.name] = NoValue
                                    /\ \A m \in Books \ {f.name} : x[2].files[m] = b.files[m]
      BY BookRemoves
  <2>4. /\ p \in Sittings /\ p.file = q.file /\ p.state = "removed"
        /\ p.up = q.up /\ p.seen = q.seen /\ (q.on => p.on)
      BY DEF Sittings
  <2> HIDE DEF p
  <2>7. r[1] = x[1] /\ r[2] = x[2] /\ r[4] = NoValue
        /\ r[3] = IF x[1] = "ok" THEN p ELSE q
      BY <2>2
  <2>5. CASE x[1] \notin {"ok", "late"}
    <3>1. r = Cable!Rejected(x[1], b, q)
        BY <2>2, <2>3, <2>5 DEF Cable!Rejected
    <3> QED
        BY <2>3, <2>5, <3>1, Rejects
  <2>6. CASE x[1] \in {"ok", "late"}
    <3>2. Shelved(x[2])
        BY <2>3, <2>6 DEF Shelved, InStep
    <3>3. x[2].managing /\ ~x[2].uploading /\ x[2].readers = 0
        BY <2>1, <2>3 DEF InStep, SameLease
    <3>4. InStep(x[2], p) /\ InStep(x[2], q)
        BY <2>1, <2>4, <3>2, <3>3 DEF InStep
    <3>5. HoldsIn(x[2], p, f.tag, f.name) /\ HoldsIn(x[2], q, f.tag, f.name)
        BY <2>1, <2>4 DEF HoldsIn
    <3>6. Changes(b, f, x[1], x[2])
        BY <2>3, <2>6 DEF Changes
    <3> QED
        BY <2>3, <2>4, <2>7, <3>4, <3>5, <3>6 DEF Executes, Reader
  <2> QED
      BY <2>5, <2>6
<1> QED
    BY <1>1, <1>2

\* Of at most one request is there anything to execute.
LEMMA OneLives ==
    ASSUME HostInv, NEW f, NEW g, Lives(f), Lives(g)
    PROVE  f = g
<1>1. \/ \E i \in 1..Len(hToDevice) : hToDevice[i] = f /\ f.op \in Orders
      \/ hChan.state = "queued" /\ f = hChan.slot
      \/ hSess.at = "executing" /\ f = hSess.request
    BY DEF Lives
<1>2. \/ \E i \in 1..Len(hToDevice) : hToDevice[i] = g /\ g.op \in Orders
      \/ hChan.state = "queued" /\ g = hChan.slot
      \/ hSess.at = "executing" /\ g = hSess.request
    BY DEF Lives
<1>3. hSess.at = "executing" => hChan.state = "executing"
    BY DEF HostInv, SlotInv
<1>4. /\ \A i, j \in 1..Len(hToDevice) :
            hToDevice[i].op \in Orders /\ hToDevice[j].op \in Orders => i = j
      /\ \A i \in 1..Len(hToDevice) : hToDevice[i].op \in Orders => hChan.state = "idle"
    BY DEF HostInv, LineInv
<1> QED
    BY <1>1, <1>2, <1>3, <1>4

LEMMA ExecuteSits ==
    ASSUME HostInv, Cable!Execute
    PROVE  HostInv'
<1> DEFINE f == hSess.request
<1>1. PICK r \in Cable!Executed(hStore, hSess, f) :
         /\ hStore' = r[2]
         /\ hSess' = [r[3] EXCEPT !.at = "reply", !.reply = [f EXCEPT !.status = r[1], !.tag = r[4]]]
         /\ hRemoval' = IF f.op = "remove" /\ r[1] \in {"ok", "late"} /\ f.session = hRemoval.session
                        THEN [hRemoval EXCEPT !.done = TRUE] ELSE hRemoval
    BY DEF Cable!Execute
<1>2. hSess.at = "executing" /\ UNCHANGED <<hClient, hToDevice, hToHost, hProto, hChan, hOther>>
    BY DEF Cable!Execute
<1>3. /\ IsShelf(hStore) /\ hSess \in Sittings /\ f \in Letters
      /\ hSess.transferred \in Nat
    BY DEF HostInv, HostTypes, Sittings
<1>4. f.op \in Orders /\ f = hChan.slot /\ f.session = hSess.seen /\ hChan.state = "executing"
    BY <1>2 DEF HostInv, SlotInv
<1>5. Lives(f)
    BY <1>2 DEF Lives
<1>6. /\ f.tag \notin hClient.left /\ (f.op \in {"begin", "chunk", "commit"} => f.tag \in Attempts)
      /\ f.name \in Books /\ (Waiting => IsAsked(f)) /\ hClient.outcome # "ok"
      /\ Decides(f) => Waiting \/ hClient.outcome = "unknown"
      /\ Holds(f.tag, f.name)
    BY <1>4, <1>5 DEF HostInv, LiveInv
<1>7. hSess.on /\ hOther = "none"
    BY <1>2 DEF HostInv, HandleInv
<1>8. InStep(hStore, hSess) /\ HoldsIn(hStore, hSess, f.tag, f.name)
    BY <1>6, <1>7 DEF HostInv, HandleInv, InStep, HoldsIn, Holds, Shelved
<1>9. Executes(hStore, hSess, f, r)
  <2> HIDE DEF f
  <2>1. CASE f.op = "begin"
    <3>1. r \in Cable!ExecuteBegin(hStore, hSess, f)
        BY <2>1 DEF Cable!Executed
    <3> QED
        BY <1>3, <1>6, <1>8, <2>1, <3>1, BeginExecutes
  <2>2. CASE f.op = "chunk"
    <3>1. r \in Cable!ExecuteChunk(hStore, hSess, f)
        BY <2>2 DEF Cable!Executed
    <3> QED
        BY <1>3, <1>6, <1>8, <2>2, <3>1, ChunkExecutes
  <2>3. CASE f.op = "commit"
    <3>1. r \in Cable!ExecuteCommit(hStore, hSess)
        BY <2>3 DEF Cable!Executed
    <3> QED
        BY <1>3, <1>6, <1>8, <2>3, <3>1, CommitExecutes
  <2>4. CASE f.op = "open"
    <3>1. r \in Cable!ExecuteOpen(hStore, hSess, f)
        BY <2>4 DEF Cable!Executed
    <3> QED
        BY <1>3, <1>6, <1>8, <2>4, <3>1, OpenExecutes
  <2>5. CASE f.op = "read"
    <3>1. r \in Cable!ExecuteRead(hStore, hSess, f)
        BY <2>5 DEF Cable!Executed
    <3> QED
        BY <1>3, <1>8, <2>5, <3>1, ReadExecutes
  <2>6. CASE f.op = "remove"
    <3>1. r \in Cable!ExecuteRemove(hStore, hSess, f)
        BY <2>6 DEF Cable!Executed
    <3> QED
        BY <1>3, <1>6, <1>8, <2>6, <3>1, RemoveExecutes
  <2> QED
      BY <1>4, <2>1, <2>2, <2>3, <2>4, <2>5, <2>6 DEF Orders
<1> DEFINE reply == [f EXCEPT !.status = r[1], !.tag = r[4]]
<1>10. /\ reply \in Letters /\ reply.op = f.op /\ reply.id = f.id /\ reply.session = f.session
       /\ reply.status = r[1] /\ reply.tag = r[4]
  <2>1. r[1] \in Cable!Statuses /\ r[4] \in Attempts \cup {NoValue}
      BY <1>9 DEF Executes
  <2> HIDE DEF f
  <2> QED
      BY <1>3, <2>1 DEF Letters
<1>11. r[3] \in Sittings /\ r[3].seen = hSess.seen /\ IsShelf(r[2])
    BY <1>9 DEF Executes
<1>12. InStep(r[2], r[3]) /\ HoldsIn(r[2], r[3], f.tag, f.name)
    BY <1>9 DEF Executes
<1>13. Changes(hStore, f, r[1], r[2]) /\ Reader(f, r[1], r[2], r[4])
    BY <1>9 DEF Executes
<1>14. hSess' = [r[3] EXCEPT !.at = "reply", !.reply = reply]
    BY <1>1
<1> HIDE DEF f, reply
<1>15. /\ hSess' \in Sittings /\ hSess'.at = "reply" /\ hSess'.reply = reply
       /\ hSess'.seen = hSess.seen /\ hSess'.state = r[3].state /\ hSess'.up = r[3].up
       /\ hSess'.file = r[3].file /\ hSess'.transferred = r[3].transferred
       /\ (r[3].on => hSess'.on)
    BY <1>10, <1>11, <1>14 DEF Sittings
<1>16. \A g : ~Lives(g)'
    BY <1>2, <1>4, <1>15 DEF Lives, HostInv, LineInv
<1>17. \A g : Replies(g)' => g = reply \/ Replies(g)
    BY <1>2, <1>4, <1>15 DEF Replies
<1>18. HostTypes'
    BY <1>1, <1>2, <1>11, <1>15 DEF HostInv, HostTypes
<1>19. SlotInv'
    BY <1>2, <1>4, <1>10, <1>15 DEF HostInv, SlotInv
<1>20. LineInv' /\ LiveInv'
    BY <1>2, <1>16 DEF HostInv, LineInv, LiveInv
<1>21. HandleInv'
  <2>1. InStep(hStore', hSess')
      BY <1>1, <1>12, <1>15 DEF InStep
  <2> QED
      BY <1>2, <1>7, <2>1 DEF InStep, HandleInv, Shelved
<1>26. /\ hRemoval' \in Removals /\ hRemoval'.session = hRemoval.session
       /\ hRemoval'.done => \/ hRemoval.done
                            \/ /\ f.op = "remove" /\ r[1] \in {"ok", "late"}
                               /\ f.session = hRemoval.session
  <2>1. hRemoval \in Removals
      BY DEF HostInv, SaveInv
  <2> QED
      BY <1>1, <2>1 DEF Removals, f
<1>22. /\ Done' => Done \/ Decides(f)
       /\ Done' /\ r[1] \notin {"ok", "late"} => Done
  <2>1. \A s, t \in Attempts : Bound(s) = Bound(t) => s = t
      BY BoundIsOne
  <2>2. \A t \in Attempts : Bound(t) # NoValue
      BY BoundIsOne
  <2>3. /\ Saved' => Saved \/ (f.op = "commit" /\ f.tag = hClient.tag)
        /\ Saved' /\ r[1] \notin {"ok", "late"} => Saved
      BY <1>1, <1>2, <1>6, <1>13, <2>1, <2>2 DEF Saved, Changes
  <2> QED
      BY <1>2, <1>26, <2>3 DEF Done, Decides
<1>23. Waiting => /\ f.session = hClient.session /\ f.id = hClient.id /\ f.op = Order
                  /\ f.tag = hClient.tag /\ f.name = hClient.name
                  /\ hClient.kind \in {"put", "get", "remove"}
                  /\ hClient.step \in 1..Steps(hClient.kind) /\ hClient.name \in Books
    BY <1>6 DEF IsAsked, Asked, HostInv, WaitInv, Calm, HostTypes, Clients
<1>24. SaveInv'
  <2>1. \A t \in hClient.left : \A n \in Books : hStore'.files[n] # Bound(t)
    <3> SUFFICES ASSUME NEW t \in hClient.left, NEW n \in Books, hStore'.files[n] = Bound(t)
                 PROVE  FALSE
        OBVIOUS
    <3>1. t \in Attempts
        BY DEF HostInv, HostTypes, Clients
    <3>2. Bound(t) # NoValue /\ \A s \in Attempts : Bound(s) = Bound(t) => s = t
        BY <3>1, BoundIsOne
    <3>3. hStore.files[n] # Bound(t)
        BY DEF HostInv, SaveInv
    <3> QED
        BY <1>1, <1>6, <1>13, <3>2, <3>3 DEF Changes
  <2>2. Done' => \/ hClient.outcome \in {"ok", "unknown", "landed"}
                 \/ Waiting /\ hClient.step = Steps(hClient.kind)
    <3>1. Waiting /\ f.op \in {"commit", "remove"} => hClient.step = Steps(hClient.kind)
        BY <1>23, PlaceIs DEF Order, Steps
    <3>2. Decides(f) => f.op \in {"commit", "remove"}
        BY DEF Decides
    <3> QED
        BY <1>6, <1>22, <3>1, <3>2 DEF HostInv, SaveInv
  <2>3. Waiting' = Waiting
      BY <1>2 DEF Waiting
  <2> QED
      BY <1>2, <1>6, <1>16, <1>26, <2>1, <2>2, <2>3 DEF HostInv, SaveInv
<1>25. ASSUME Waiting'
       PROVE  Calm' /\ Answers' /\ GotInv'
  <2>1. Waiting /\ Calm /\ Answers /\ GotInv
      BY <1>2, <1>25 DEF HostInv, WaitInv, Waiting
  <2>2. Holds(hClient.tag, hClient.name)'
      BY <1>1, <1>2, <1>12, <1>15, <1>23, <2>1 DEF Holds, HoldsIn
  <2>3. Calm'
      BY <1>2, <2>1, <2>2 DEF Calm, Asked, Harmless
  <2>4. f.op \in {"open", "read"} => hStore'.files[hClient.name] = hStore.files[hClient.name]
      BY <1>1, <1>13, <1>23, <2>1 DEF Changes
  <2>5. GotInv'
    <3>1. hClient.kind = "get" => f.op \in {"open", "read"}
        BY <1>23, <2>1 DEF Order, Place
    <3> QED
        BY <1>2, <2>1, <2>4, <3>1 DEF GotInv
  <2>6. ASSUME NEW g, Replies(g)'
        PROVE  Past(g)' /\ (Asked(g)' => Answer(g)')
    <3>1. CASE g = reply
      <4>1. Past(g)'
          BY <1>2, <1>10, <1>23, <2>1, <3>1 DEF Past, HostInv, HostTypes, Clients
      <4>2. g.op = Order /\ Order' = Order
          BY <1>2, <1>10, <1>23, <2>1, <3>1 DEF Order
      <4>6. /\ Order = "commit" => hClient.kind = "put"
            /\ Order = "remove" => hClient.kind = "remove"
          BY <1>23, <2>1, PlaceIs DEF Order
      <4>3. g.op \in {"commit", "remove"} /\ g.status = "ok" => Delivered'
          BY <1>1, <1>2, <1>10, <1>13, <1>23, <2>1, <3>1, <4>6 DEF Changes, Delivered
      <4>4. g.op \in {"commit", "remove"} /\ g.status \notin {"ok", "late"} => ~Done'
        <5>2. hClient.outcome = "none"
            BY <2>1 DEF HostInv, SaveInv, Waiting
        <5> QED
            BY <1>5, <1>10, <1>22, <2>1, <3>1, <4>2, <5>2 DEF HostInv, SaveInv
      <4>5. g.op = "read" /\ g.status = "ok" =>
               g.tag \in Attempts /\ hStore'.files[hClient.name] = Bound(g.tag)
          BY <1>1, <1>10, <1>13, <1>23, <2>1, <3>1 DEF Reader
      <4> QED
          BY <1>2, <4>1, <4>2, <4>3, <4>4, <4>5 DEF Answer
    <3>2. CASE g # reply
      <4>1. Past(g) /\ ~Asked(g)
          BY <1>5, <1>17, <2>1, <2>6, <3>2 DEF Answers
      <4> QED
          BY <1>2, <4>1 DEF Past, Asked
    <3> QED
        BY <3>1, <3>2
  <2> QED
      BY <1>16, <2>3, <2>5, <2>6 DEF Answers
<1> QED
    BY <1>18, <1>19, <1>20, <1>21, <1>24, <1>25 DEF HostInv, WaitInv

-----------------------------------------------------------------------------
(* The client's steps: the device rests.                                   *)

DeviceRests == UNCHANGED <<hProto, hChan, hSess, hStore, hOther>>

LEMMA ClientTouches ==
    ASSUME HostInv, DeviceRests, hClient' \in Clients,
           hToDevice' \in Seq(Letters), hToHost' \in Seq(Letters)
    PROVE  HostTypes' /\ SlotInv' /\ HandleInv'
<1>1. HostTypes'
    BY DEF HostInv, HostTypes, DeviceRests
<1>2. SlotInv'
    BY DEF HostInv, SlotInv, DeviceRests
<1>3. HandleInv'
    BY DEF HostInv, HandleInv, DeviceRests
<1> QED
    BY <1>1, <1>2, <1>3

\* What is on the line to the device stays there, behind it comes what is not a request.
Sealed ==
    \A i \in 1..Len(hToDevice') :
       \/ i \in 1..Len(hToDevice) /\ hToDevice'[i] = hToDevice[i]
       \/ hToDevice'[i].op \in {"cut", "close"}
Taking == hToHost' = hToHost \/ (hToHost # << >> /\ hToHost' = Tail(hToHost))
SameCommand ==
    /\ hClient'.kind = hClient.kind /\ hClient'.tag = hClient.tag
    /\ hClient'.name = hClient.name /\ hClient'.left = hClient.left

\* The command may get its session here, where nothing lives of another.
Marks ==
    /\ hRemoval' \in Removals /\ hRemoval'.done = hRemoval.done
    /\ hRemoval' = hRemoval \/ \A f : ~Lives(f)

\* The client leaves off with that outcome.
Leaves(outcome) ==
    /\ DeviceRests /\ SameCommand /\ Sealed /\ Taking
    /\ hClient.phase # "off" /\ hClient' \in Clients
    /\ hToDevice' \in Seq(Letters) /\ hClient'.outcome = outcome /\ outcome # "none"
    /\ \/ hClient'.phase = "off" /\ hToDevice' = hToDevice
       \/ /\ hClient'.phase = "closing"
          /\ \A i \in 1..Len(hToDevice) : hToDevice[i].op # "start"
          /\ \A i \in 1..Len(hToHost') : hToHost'[i].op # "greeting"
    /\ Marks
    /\ Done => outcome \in {"ok", "unknown", "landed"}
    /\ (\E f : Lives(f) /\ Decides(f)) => outcome = "unknown"
    /\ outcome = "ok" =>
          /\ \A f : ~Lives(f)
          /\ Delivered
          /\ hClient.kind = "get" => \E t \in Attempts : hClient'.got = Bound(t)

LEMMA LeavesKeeps ==
    ASSUME HostInv, NEW outcome, Leaves(outcome)
    PROVE  HostInv'
<1> USE DEF HostInv
<1>1. /\ hToDevice \in Seq(Letters) /\ hToHost \in Seq(Letters) /\ hClient \in Clients
      /\ hToHost' \in Seq(Letters)
  <2>1. hToDevice \in Seq(Letters) /\ hToHost \in Seq(Letters) /\ hClient \in Clients
      BY DEF HostTypes
  <2> QED
      BY <2>1, Taken DEF Leaves, Taking
<1>2. HostTypes' /\ SlotInv' /\ HandleInv'
    BY <1>1, ClientTouches DEF Leaves
<1>3. \A f : Lives(f)' => Lives(f)
    BY DEF Leaves, DeviceRests, Sealed, Lives, Orders
<1>4. ~Waiting' /\ hClient'.phase \in {"off", "closing"}
    BY DEF Leaves, Waiting
<1>5. LineInv'
  <2>1. (\A i, j \in 1..Len(hToDevice) :
            hToDevice[i].op \in Orders /\ hToDevice[j].op \in Orders => i = j)'
      BY DEF LineInv, Leaves, Sealed, Orders
  <2>2. ASSUME NEW i \in 1..Len(hToDevice')
        PROVE  /\ hToDevice'[i].op \in Orders \cup {"start", "cut", "close"}
               /\ hToDevice'[i].op \in Orders => hProto'.binary /\ hChan'.state = "idle"
               /\ hToDevice'[i].op = "start" => hClient'.phase \in {"off", "connecting"}
                                                /\ hToDevice'[i].session = 0
    <3>1. CASE i \in 1..Len(hToDevice) /\ hToDevice'[i] = hToDevice[i]
        BY <3>1 DEF LineInv, Leaves, DeviceRests
    <3>2. CASE hToDevice'[i].op \in {"cut", "close"}
        BY <3>2 DEF Orders
    <3> QED
        BY <3>1, <3>2 DEF Leaves, Sealed
  <2>3. ASSUME NEW i \in 1..Len(hToHost'), hToHost'[i].op = "greeting"
        PROVE  /\ hProto'.binary /\ hProto'.lastId = 0 /\ hToHost'[i].session = hProto'.session
               /\ hToDevice' = << >> /\ hClient'.phase \in {"off", "connecting"}
               /\ \A j \in 1..Len(hToHost') : j > i => Harmless(hToHost'[j])
    <3>1. hClient'.phase = "off" /\ hToDevice' = hToDevice
        BY <2>3 DEF Leaves
    <3>2. CASE hToHost' = hToHost
        BY <2>3, <3>1, <3>2 DEF LineInv, Leaves, DeviceRests
    <3>3. CASE hToHost # << >> /\ hToHost' = Tail(hToHost)
      <4>1. hToHost'[i] = hToHost[i + 1] /\ i + 1 \in 1..Len(hToHost)
          BY <1>1, <3>3, Taken
      <4>2. /\ hProto.binary /\ hProto.lastId = 0 /\ hToHost[i + 1].session = hProto.session
            /\ hToDevice = << >>
            /\ \A j \in 1..Len(hToHost) : j > i + 1 => Harmless(hToHost[j])
          BY <2>3, <4>1 DEF LineInv
      <4>3. ASSUME NEW j \in 1..Len(hToHost'), j > i
            PROVE  Harmless(hToHost'[j])
        <5>1. hToHost'[j] = hToHost[j + 1] /\ j + 1 \in 1..Len(hToHost) /\ j + 1 > i + 1
            BY <1>1, <3>3, <4>3, Taken
        <5> QED
            BY <4>2, <5>1
      <4> QED
          BY <3>1, <4>1, <4>2, <4>3 DEF Leaves, DeviceRests
    <3> QED
        BY <3>2, <3>3 DEF Leaves, Taking
  <2> QED
      BY <2>1, <2>2, <2>3 DEF LineInv, Harmless
<1>6. LiveInv'
  <2> SUFFICES ASSUME NEW f, Lives(f)'
               PROVE  /\ f.tag \notin hClient'.left
                      /\ f.op \in {"begin", "chunk", "commit"} => f.tag \in Attempts
                      /\ f.name \in Books /\ f.session # 0 /\ hClient'.outcome # "ok"
                      /\ Decides(f)' => hClient'.outcome = "unknown"
                      /\ hSess'.seen = f.session => Holds(f.tag, f.name)'
      BY <1>4 DEF LiveInv
  <2>1. Lives(f)
      BY <1>3
  <2>2. hSess'.seen = f.session => Holds(f.tag, f.name)'
      BY <2>1 DEF LiveInv, Leaves, DeviceRests, Holds
  <2>3. Decides(f)' = Decides(f)
      BY <2>1 DEF Leaves, SameCommand, Marks, Decides
  <2> QED
      BY <2>1, <2>2, <2>3 DEF LiveInv, Leaves, SameCommand
<1>7. SaveInv'
  <2>1. Done' = Done /\ Delivered' = Delivered
      BY DEF Done, Delivered, Saved, Leaves, Marks, DeviceRests, SameCommand
  <2> QED
      BY <1>1, <1>4, <2>1 DEF SaveInv, Leaves, Marks, SameCommand, DeviceRests
<1>8. WaitInv'
    BY <1>4 DEF WaitInv
<1> QED
    BY <1>2, <1>5, <1>6, <1>7, <1>8

\* The client asks for the next step of its command, and nothing else lives.
Asks(request) ==
    /\ DeviceRests /\ SameCommand
    /\ hClient.outcome = "none" /\ hClient.phase # "off"
    /\ hClient' \in Clients /\ hClient'.phase = "waiting" /\ hClient'.outcome = "none"
    /\ hClient'.session = hProto.session /\ hClient'.id = hClient.id + 1
    /\ hClient'.step = hClient.step + 1 /\ hClient'.step \in 1..Steps(hClient.kind)
    /\ request \in Letters /\ IsAsked(request)' /\ hToDevice' = <<request>>
    /\ \A f : ~Lives(f)
    /\ hProto.binary /\ hChan.state = "idle" /\ hProto.lastId <= hClient.id
    /\ hSess.seen = hProto.session => Holds(hClient.tag, hClient.name)
    /\ hToHost' \in Seq(Letters)
    /\ \A i \in 1..Len(hToHost') :
          \/ Harmless(hToHost'[i])
          \/ /\ hToHost'[i].op \in Orders
             /\ hToHost'[i].session = hProto.session => hToHost'[i].id <= hClient.id
    /\ ~Done /\ hRemoval' \in Removals /\ hRemoval'.done = hRemoval.done
    /\ hRemoval'.session = hProto.session
    /\ GotInv'

LEMMA AsksKeeps ==
    ASSUME HostInv, NEW request, Asks(request)
    PROVE  HostInv'
<1> USE DEF HostInv
<1>1. hClient \in Clients /\ hToDevice' \in Seq(Letters) /\ hClient.kind \in {"put", "get", "remove"}
    BY DEF Asks, HostTypes, Clients
<1>2. HostTypes' /\ SlotInv' /\ HandleInv'
    BY <1>1, ClientTouches DEF Asks
<1>3. Len(hToDevice') = 1 /\ hToDevice'[1] = request /\ hToDevice' # << >>
    BY DEF Asks
<1>4. Waiting' /\ hClient.id \in Nat /\ hProto.lastId \in Nat
    BY <1>1 DEF Asks, Waiting, Clients, HostTypes, Protocols
<1>5. request.op \in Orders /\ (request.op \in {"begin", "chunk", "commit"} => hClient.kind = "put")
    BY <1>1, PlaceIs DEF Asks, IsAsked, Order, SameCommand
<1>6. \A f : Lives(f)' => f = request
    BY <1>3 DEF Asks, Lives, DeviceRests
<1>7. LineInv'
  <2>1. \A i \in 1..Len(hToDevice') : i = 1
      BY <1>3
  <2>2. \A i \in 1..Len(hToHost') : hToHost'[i].op # "greeting"
      BY DEF Asks, Harmless, Orders
  <2> QED
      BY <1>3, <1>5, <2>1, <2>2 DEF LineInv, Asks, DeviceRests, Orders
<1>8. LiveInv'
  <2> SUFFICES ASSUME NEW f, Lives(f)'
               PROVE  /\ f.tag \notin hClient'.left
                      /\ f.op \in {"begin", "chunk", "commit"} => f.tag \in Attempts
                      /\ f.name \in Books /\ f.session # 0
                      /\ Waiting' => IsAsked(f)'
                      /\ hClient'.outcome # "ok"
                      /\ Decides(f)' => Waiting' \/ hClient'.outcome = "unknown"
                      /\ hSess'.seen = f.session => Holds(f.tag, f.name)'
      BY DEF LiveInv
  <2>1. f = request
      BY <1>6
  <2>2. f.tag = hClient.tag /\ f.name = hClient.name /\ f.session = hProto.session /\ IsAsked(f)'
      BY <2>1 DEF Asks, IsAsked, Asked, SameCommand
  <2>3. hClient.tag \notin hClient.left
      BY DEF SaveInv
  <2>4. hClient.kind = "put" => hClient.tag \in Attempts
      BY DEF SaveInv, Asks
  <2>5. hSess'.seen = f.session => Holds(f.tag, f.name)'
      BY <2>2 DEF Asks, DeviceRests, Holds
  <2>6. hClient.name \in Books
      BY <1>1 DEF Clients
  <2>7. hProto.session # 0
      BY DEF Asks, SlotInv
  <2> QED
      BY <1>4, <1>5, <2>1, <2>2, <2>3, <2>4, <2>5, <2>6, <2>7 DEF Asks, SameCommand
<1>9. WaitInv'
  <2>1. Calm'
    <3>1. (hSess.seen = hClient.session => Holds(hClient.tag, hClient.name))'
        BY DEF Asks, DeviceRests, Holds, SameCommand
    <3>2. hProto'.lastId <= hClient'.id /\ hProto'.lastId < hClient'.id
        BY <1>4 DEF Asks, DeviceRests
    <3>3. \A i \in 1..Len(hToDevice') : hToDevice'[i].op \in Orders
        BY <1>3, <1>5
    <3>4. hClient'.step \in 1..Steps(hClient'.kind)
        BY DEF Asks, SameCommand
    <3>5. \A i \in 1..Len(hToHost') :
              /\ hToHost'[i].op \in Orders \/ Harmless(hToHost'[i])
              /\ hChan'.state = "idle"
        BY DEF Asks, DeviceRests
    <3>6. hProto'.binary /\ hClient'.session = hProto'.session
        BY DEF Asks, DeviceRests
    <3> QED
        BY <3>1, <3>2, <3>3, <3>4, <3>5, <3>6 DEF Calm, Harmless
  <2>2. Answers'
    <3> SUFFICES ASSUME NEW f, Replies(f)'
                 PROVE  Past(f)' /\ ~Asked(f)'
        BY DEF Answers
    <3>1. hSess.at # "reply" /\ hChan.state # "replied"
        BY DEF Asks, SlotInv
    <3>2. PICK i \in 1..Len(hToHost') : hToHost'[i] = f /\ f.op \in Orders
        BY <3>1 DEF Replies, Asks, DeviceRests
    <3>3. f \in Letters
        BY <3>2, ElementOfSeq DEF Asks
    <3>5. Harmless(hToHost'[i]) \/ (f.session = hProto.session => f.id <= hClient.id)
        BY <3>2 DEF Asks
    <3>4. f.session = hProto.session => f.id <= hClient.id
        BY <3>2, <3>5 DEF Harmless, Orders
    <3>6. hClient'.session = hProto.session /\ hClient'.id = hClient.id + 1 /\ f.id \in Nat
        BY <3>3 DEF Asks, Letters
    <3> QED
        BY <1>4, <3>4, <3>6 DEF Past, Asked
  <2> QED
      BY <2>1, <2>2 DEF WaitInv, Asks
<1>10. SaveInv'
  <2>1. Done' = Done
      BY DEF Done, Saved, Asks, DeviceRests, SameCommand
  <2>2. /\ \A t \in hClient.left : t # hClient.tag /\ \A n \in Books : hStore.files[n] # Bound(t)
        /\ hClient.kind = "put" => hClient.tag \in Attempts
      BY DEF SaveInv, Asks
  <2> QED
      BY <1>4, <2>1, <2>2 DEF SaveInv, Asks, SameCommand, DeviceRests
<1> QED
    BY <1>2, <1>7, <1>8, <1>9, <1>10

LEMMA EndsIs ==
    ASSUME NEW c \in Clients, NEW o \in {"ok", "refused", "unknown", "failed", "landed"}
    PROVE  LET e == Cable!Ends(c, o) IN
           /\ e \in Clients /\ e.phase = "closing" /\ e.outcome = o
           /\ e.kind = c.kind /\ e.tag = c.tag /\ e.name = c.name /\ e.left = c.left /\ e.got = c.got
<1> DEFINE n == c.id + 1
<1>1. n \in Nat
    BY DEF Clients
<1>2. Cable!Ends(c, o) = [c EXCEPT !.phase = "closing", !.id = n, !.outcome = o]
    BY DEF Cable!Ends
<1> HIDE DEF n
<1> QED
    BY <1>1, <1>2 DEF Clients

LEMMA OffIs ==
    ASSUME NEW c \in Clients, NEW o \in {"none", "ok", "refused", "unknown", "failed", "landed"}
    PROVE  LET e == Cable!Off(c, o) IN
           /\ e \in Clients /\ e.phase = "off" /\ e.outcome = o
           /\ e.kind = c.kind /\ e.tag = c.tag /\ e.name = c.name /\ e.left = c.left /\ e.got = c.got
BY DEF Clients, Cable!Off

LEMMA ClosesIs ==
    ASSUME NEW c \in Clients
    PROVE  Cable!CloseFrame(c) \in Letters /\ Cable!CloseFrame(c).op = "close"
<1> DEFINE n == c.id + 1
<1>1. n \in Nat /\ c.session \in Nat
    BY DEF Clients
<1>2. Cable!CloseFrame(c) = Cable!Frame("close", n, c.session)
    BY DEF Cable!CloseFrame
<1> HIDE DEF n
<1> DEFINE f == Cable!Frame("close", n, c.session)
<1>3. f \in Letters /\ f.op = "close"
    BY <1>1, LetterIs, SMTT(30)
<1> QED
    BY <1>2, <1>3

LEMMA SealsOne ==
    ASSUME hToDevice \in Seq(Letters), NEW f \in Letters, f.op \in {"cut", "close"},
           hToDevice' = Append(hToDevice, f)
    PROVE  Sealed /\ hToDevice' \in Seq(Letters)
BY Added DEF Sealed

\* A command goes on after an answer: c is the client that took it.
Goes(c) ==
    /\ DeviceRests /\ c \in Clients
    /\ c.kind = hClient.kind /\ c.tag = hClient.tag /\ c.name = hClient.name
    /\ c.left = hClient.left /\ c.step = hClient.step /\ c.id = hClient.id
    /\ c.outcome = "none" /\ hClient.outcome = "none" /\ hClient.phase # "off"
    /\ c.session = hProto.session /\ c.step \in 0..Steps(c.kind)
    /\ hToDevice = << >> /\ hToHost # << >> /\ hToHost' = Tail(hToHost)
    /\ \A f : ~Lives(f)
    /\ hProto.binary /\ hChan.state = "idle" /\ hProto.lastId <= hClient.id
    /\ hSess.seen = hProto.session => Holds(hClient.tag, hClient.name)
    /\ \A i \in 1..Len(hToHost') :
          \/ Harmless(hToHost'[i])
          \/ /\ hToHost'[i].op \in Orders
             /\ hToHost'[i].session = hProto.session => hToHost'[i].id <= hClient.id
    /\ hRemoval' \in Removals /\ hRemoval'.done = hRemoval.done
    /\ hRemoval'.session = hProto.session
    /\ c.step # Steps(c.kind) => ~Done
    /\ c.kind = "get" =>
          /\ Len(c.got) = IF c.step = 0 THEN 0 ELSE c.step - 1
          /\ \A i \in 1..Len(c.got) : hStore.files[hClient.name] = Bound(c.got[i])
    /\ c.step = Steps(c.kind) =>
          /\ Delivered
          /\ c.kind = "get" => \E t \in Attempts : c.got = Bound(t)

LEMMA GoesKeeps ==
    ASSUME HostInv, NEW c, Goes(c), Cable!Proceed(c)
    PROVE  HostInv'
<1> DEFINE script == Cable!Script(c.kind)
           asked == [c EXCEPT !.phase = "waiting", !.step = @ + 1, !.id = @ + 1]
           op == script[c.step + 1]
           off == IF op \in {"chunk", "read"} THEN c.step - 1 ELSE 0
           blank == Cable!Frame(op, c.id + 1, c.session)
           request == [blank EXCEPT !.tag = c.tag, !.name = c.name, !.off = off]
           unsure == IF op \in {"commit", "remove"} THEN "unknown" ELSE "failed"
<1>1. /\ c \in Clients /\ c.kind \in {"put", "get", "remove"} /\ c.step \in Nat /\ c.id \in Nat
      /\ c.session \in Nat /\ c.tag \in Attempts \cup {NoValue} /\ c.name \in Books
    BY DEF Goes, Clients
<1>2. /\ Len(script) = Steps(c.kind) /\ Steps(c.kind) \in Nat \ {0}
      /\ \A k \in 1..Steps(c.kind) : script[k] = Place(c.kind, k)
    BY <1>1, ScriptIs
<1>3. IF c.step = Len(script)
      THEN hClient' = Cable!Ends(c, "ok") /\ hToDevice' = Append(hToDevice, Cable!CloseFrame(c))
      ELSE \/ hClient' = asked /\ hToDevice' = Append(hToDevice, request)
           \/ /\ hClient' = Cable!Ends(asked, unsure)
              /\ hToDevice' = hToDevice \o <<Cable!NoFrame, Cable!CloseFrame(asked)>>
    BY DEF Cable!Proceed
<1>4. /\ hToHost \in Seq(Letters) /\ hToDevice \in Seq(Letters) /\ hToHost' \in Seq(Letters)
      /\ hToDevice = << >> /\ Len(hToDevice) = 0
  <2>1. hToHost \in Seq(Letters) /\ hToDevice \in Seq(Letters) /\ hToDevice = << >>
      BY DEF HostInv, HostTypes, Goes
  <2> QED
      BY <2>1, Taken DEF Goes
<1>5. \A i \in 1..Len(hToHost') : hToHost'[i].op # "greeting"
    BY DEF Goes, Harmless, Orders
<1>6. CASE c.step = Len(script)
  <2>1. hClient' = Cable!Ends(c, "ok") /\ hToDevice' = Append(hToDevice, Cable!CloseFrame(c))
      BY <1>3, <1>6
  <2>2. /\ hClient' \in Clients /\ hClient'.phase = "closing" /\ hClient'.outcome = "ok"
        /\ hClient'.kind = c.kind /\ hClient'.tag = c.tag /\ hClient'.name = c.name
        /\ hClient'.left = c.left /\ hClient'.got = c.got
      BY <1>1, <2>1, EndsIs
  <2>3. Sealed /\ hToDevice' \in Seq(Letters)
      BY <1>1, <1>4, <2>1, ClosesIs, SealsOne
  <2>4. c.step = Steps(c.kind)
      BY <1>2, <1>6
  <2> HIDE DEF script, asked, op, request, unsure
  <2>5. SameCommand /\ Taking
      BY <2>2 DEF Goes, SameCommand, Taking
  <2>6. Leaves("ok")
      BY <1>4, <1>5, <2>2, <2>3, <2>4, <2>5 DEF Goes, Leaves, Marks
  <2> QED
      BY <2>6, LeavesKeeps
<1>7. CASE c.step # Len(script)
  <2>1. c.step + 1 \in 1..Steps(c.kind) /\ c.step # Steps(c.kind)
      BY <1>1, <1>2, <1>7 DEF Goes
  <2>2. op = Place(c.kind, c.step + 1)
      BY <1>2, <2>1
  <2>3. op \in Orders
      BY <1>1, <2>1, <2>2, PlaceIs
  <2>4. c.step + 1 \in Nat /\ c.id + 1 \in Nat
      BY <1>1
  <2>5. /\ asked \in Clients /\ asked.phase = "waiting" /\ asked.step = c.step + 1
        /\ asked.id = c.id + 1 /\ asked.session = c.session /\ asked.outcome = c.outcome
        /\ asked.kind = c.kind /\ asked.tag = c.tag /\ asked.name = c.name
        /\ asked.left = c.left /\ asked.got = c.got
      BY <1>1, <2>4 DEF Clients
  <2>6. blank \in Letters /\ blank.op = op /\ blank.id = c.id + 1 /\ blank.session = c.session
      BY <1>1, <2>3, <2>4, LetterIs
  <2>7. off \in Int
      BY <1>1
  <2> HIDE DEF script, asked, op, blank, off
  <2>8. /\ request \in Letters /\ request.op = op /\ request.id = c.id + 1
        /\ request.session = c.session /\ request.tag = c.tag /\ request.name = c.name
      BY <1>1, <2>6, <2>7 DEF Letters
  <2> HIDE DEF request
  <2>9. CASE hClient' = asked /\ hToDevice' = Append(hToDevice, request)
    <3>1. hToDevice' = <<request>>
        BY <1>4, <2>9
    <3>2. Order' = op
        BY <2>2, <2>5, <2>9 DEF Order
    <3>3. IsAsked(request)'
        BY <2>5, <2>8, <2>9, <3>2 DEF IsAsked, Asked
    <3>4. SameCommand
        BY <2>5, <2>9 DEF Goes, SameCommand
    <3>5. GotInv'
        BY <1>1, <2>5, <2>9, SMTT(30) DEF Goes, GotInv, DeviceRests
    <3>6. /\ hClient' \in Clients /\ hClient'.phase = "waiting" /\ hClient'.outcome = "none"
          /\ hClient'.session = hProto.session /\ hClient'.id = hClient.id + 1
          /\ hClient'.step = hClient.step + 1 /\ hClient'.step \in 1..Steps(hClient.kind)
        BY <2>1, <2>5, <2>9 DEF Goes
    <3>7. ~Done
        BY <2>1 DEF Goes
    <3>8. Asks(request)
        BY <1>4, <2>8, <3>1, <3>3, <3>4, <3>5, <3>6, <3>7 DEF Goes, Asks
    <3> QED
        BY <3>8, AsksKeeps
  <2>10. CASE /\ hClient' = Cable!Ends(asked, unsure)
              /\ hToDevice' = hToDevice \o <<Cable!NoFrame, Cable!CloseFrame(asked)>>
    <3>1. unsure \in {"unknown", "failed"}
        OBVIOUS
    <3> HIDE DEF unsure
    <3>2. /\ hClient' \in Clients /\ hClient'.phase = "closing" /\ hClient'.outcome = unsure
          /\ hClient'.kind = c.kind /\ hClient'.tag = c.tag /\ hClient'.name = c.name
          /\ hClient'.left = c.left
        BY <2>5, <2>10, <3>1, EndsIs
    <3>3. Cable!NoFrame \in Letters /\ Cable!NoFrame.op = "cut"
        BY LetterIs DEF Cable!NoFrame
    <3>4. Cable!CloseFrame(asked) \in Letters /\ Cable!CloseFrame(asked).op = "close"
        BY <2>5, ClosesIs
    <3>5. hToDevice' = <<Cable!NoFrame, Cable!CloseFrame(asked)>>
        BY <1>4, <2>10, <3>3, <3>4
    <3>6. Sealed /\ hToDevice' \in Seq(Letters)
        BY <3>3, <3>4, <3>5 DEF Sealed
    <3>7. SameCommand /\ Taking
        BY <3>2 DEF Goes, SameCommand, Taking
    <3>8. ~Done
        BY <2>1 DEF Goes
    <3>9. Leaves(unsure)
        BY <1>4, <1>5, <3>1, <3>2, <3>6, <3>7, <3>8 DEF Goes, Leaves, Marks
    <3> QED
        BY <3>9, LeavesKeeps
  <2> QED
      BY <1>3, <1>7, <2>9, <2>10
<1> QED
    BY <1>6, <1>7

LEMMA StartIs ==
    LET f == Cable!Frame("start", 0, 0) IN f \in Letters /\ f.op = "start" /\ f.session = 0
<1> DEFINE f == Cable!Frame("start", 0, 0)
<1>1. f \in Letters /\ f.op = "start" /\ f.session = 0
    BY LetterIs
<1> QED
    BY <1>1

LEMMA RunSits ==
    ASSUME HostInv, NEW kind \in {"put", "get", "remove"}, NEW n \in Books,
           NEW t \in Attempts \cup {NoValue}, kind # "put" => t = NoValue, Cable!Run(kind, n, t)
    PROVE  HostInv'
<1> USE DEF HostInv
<1> DEFINE rest == IF kind = "put" THEN hClient.left \ {t} ELSE hClient.left
           start == Cable!Frame("start", 0, 0)
<1>1. /\ hClient.phase = "off" /\ (kind = "put" => t \in hClient.left)
      /\ hToHost' = << >> /\ hToDevice' = Append(hToDevice, start) /\ DeviceRests
      /\ hRemoval' = Cable!NoRemoval
      /\ hClient' = [hClient EXCEPT !.phase = "connecting", !.kind = kind, !.name = n, !.tag = t,
                                    !.step = 0, !.session = 0, !.id = 0, !.got = <<>>,
                                    !.outcome = "none", !.left = IF kind = "put" THEN @ \ {t} ELSE @]
    BY DEF Cable!Run, DeviceRests
<1>2. hClient \in Clients /\ hToDevice \in Seq(Letters)
    BY DEF HostTypes
<1>3. hClient.left \subseteq Attempts /\ rest \subseteq hClient.left
    BY <1>2 DEF Clients
<1>4. << >> \in Seq(Attempts)
    OBVIOUS
<1>5. /\ hClient' \in Clients /\ hClient'.phase = "connecting" /\ hClient'.kind = kind
      /\ hClient'.name = n /\ hClient'.tag = t /\ hClient'.step = 0 /\ hClient'.id = 0
      /\ hClient'.got = << >> /\ hClient'.outcome = "none" /\ hClient'.left = rest
  <2>1. hClient' = [hClient EXCEPT !.phase = "connecting", !.kind = kind, !.name = n, !.tag = t,
                                   !.step = 0, !.session = 0, !.id = 0, !.got = <<>>,
                                   !.outcome = "none", !.left = rest]
      BY <1>1
  <2> HIDE DEF rest
  <2> QED
      BY <1>2, <1>3, <1>4, <2>1 DEF Clients
<1>6. /\ start \in Letters /\ start.op = "start" /\ start.session = 0
    BY StartIs
<1> HIDE DEF start
<1>7. /\ hToDevice' \in Seq(Letters) /\ Len(hToDevice') = Len(hToDevice) + 1
      /\ Len(hToDevice) \in Nat /\ hToDevice'[Len(hToDevice) + 1] = start
      /\ \A i \in 1..Len(hToDevice) : hToDevice'[i] = hToDevice[i]
    BY <1>1, <1>2, <1>6, Added
<1>8. \A i \in 1..Len(hToDevice') :
         (i \in 1..Len(hToDevice) /\ hToDevice'[i] = hToDevice[i]) \/ hToDevice'[i] = start
    BY <1>7
<1>9. HostTypes' /\ SlotInv' /\ HandleInv'
  <2>1. hToHost' \in Seq(Letters)
      BY <1>1
  <2> QED
      BY <1>1, <1>5, <1>7, <2>1, ClientTouches
<1>10. LineInv'
  <2>1. hToHost' = << >> /\ Len(hToHost') = 0
      BY <1>1
  <2>2. (\A i, j \in 1..Len(hToDevice) :
            hToDevice[i].op \in Orders /\ hToDevice[j].op \in Orders => i = j)'
      BY <1>6, <1>8 DEF LineInv, Orders
  <2>3. ASSUME NEW i \in 1..Len(hToDevice')
        PROVE  /\ hToDevice'[i].op \in Orders \cup {"start", "cut", "close"}
               /\ hToDevice'[i].op \in Orders => hProto'.binary /\ hChan'.state = "idle"
               /\ hToDevice'[i].op = "start" => hClient'.phase \in {"off", "connecting"}
                                                /\ hToDevice'[i].session = 0
      BY <1>1, <1>5, <1>6, <1>8 DEF LineInv, Orders, DeviceRests
  <2> QED
      BY <2>1, <2>2, <2>3 DEF LineInv
<1>11. \A f : Lives(f)' => Lives(f)
  <2> SUFFICES ASSUME NEW f, Lives(f)'
               PROVE  Lives(f)
      OBVIOUS
  <2>1. CASE \E i \in 1..Len(hToDevice') : hToDevice'[i] = f /\ f.op \in Orders
      BY <1>6, <1>8, <2>1 DEF Lives, Orders
  <2>2. CASE ~\E i \in 1..Len(hToDevice') : hToDevice'[i] = f /\ f.op \in Orders
      BY <1>1, <2>2 DEF Lives, DeviceRests
  <2> QED
      BY <2>1, <2>2
<1>12. ~Waiting' /\ WaitInv'
    BY <1>5 DEF WaitInv, Waiting
<1>13. LiveInv'
  <2> SUFFICES ASSUME NEW f, Lives(f)'
               PROVE  /\ f.tag \notin hClient'.left
                      /\ f.op \in {"begin", "chunk", "commit"} => f.tag \in Attempts
                      /\ f.name \in Books /\ f.session # 0 /\ hClient'.outcome # "ok"
                      /\ ~Decides(f)'
                      /\ hSess'.seen = f.session => Holds(f.tag, f.name)'
      BY <1>12 DEF LiveInv
  <2>1. Lives(f)
      BY <1>11
  <2>2. /\ f.tag \notin hClient.left /\ (f.op \in {"begin", "chunk", "commit"} => f.tag \in Attempts)
        /\ f.name \in Books /\ f.session # 0
      BY <2>1 DEF LiveInv
  <2>3. hSess'.seen = f.session => Holds(f.tag, f.name)'
      BY <1>1, <2>1 DEF LiveInv, DeviceRests, Holds
  <2>6. f.op # "commit" \/ f.tag # t
      BY <1>1, <2>2, CableConstantsAre
  <2>4. ~Decides(f)'
      BY <1>1, <1>5, <2>2, <2>6 DEF Decides, Cable!NoRemoval
  <2> QED
      BY <1>3, <1>5, <2>2, <2>3, <2>4
<1>14. SaveInv'
  <2>1. ASSUME NEW s \in hClient'.left
        PROVE  s # hClient'.tag /\ \A m \in Books : hStore'.files[m] # Bound(s)
    <3>1. s \in hClient.left /\ s \in Attempts /\ s # t
        BY <1>3, <1>5, <2>1, CableConstantsAre
    <3> QED
        BY <1>1, <1>5, <3>1 DEF SaveInv, DeviceRests
  <2>2. kind = "put" => t \in Attempts /\ \A m \in Books : hStore.files[m] # Bound(t)
      BY <1>1, <1>3 DEF SaveInv
  <2>3. kind = "put" => ~Saved'
      BY <1>1, <1>5, <2>2 DEF Saved, DeviceRests
  <2>4. hRemoval' \in Removals /\ ~hRemoval'.done
      BY <1>1 DEF Removals, Cable!NoRemoval
  <2>5. ~Done'
      BY <1>5, <2>3, <2>4 DEF Done
  <2> QED
      BY <1>5, <1>12, <2>1, <2>2, <2>4, <2>5 DEF SaveInv
<1> QED
    BY <1>9, <1>10, <1>12, <1>13, <1>14

\* Before the greeting nothing was done of the command, nor lives.
LEMMA Connecting ==
    ASSUME HostInv, hClient.phase = "connecting"
    PROVE  ~Done /\ (\A f : Lives(f) => ~Decides(f)) /\ hClient.outcome = "none"
           /\ hRemoval \in Removals
<1>1. hClient.outcome = "none" /\ ~Waiting
    BY DEF HostInv, SaveInv, Waiting
<1>2. ~Done /\ hRemoval \in Removals
    BY <1>1 DEF HostInv, SaveInv
<1>3. \A f : Lives(f) => ~Decides(f)
    BY <1>1 DEF HostInv, LiveInv
<1> QED
    BY <1>1, <1>2, <1>3

LEMMA ClosedSits ==
    ASSUME HostInv, Cable!Closed
    PROVE  HostInv'
<1>1. /\ hClient.phase = "closing" /\ DeviceRests /\ hToDevice' = hToDevice
      /\ hRemoval' = hRemoval
    BY DEF Cable!Closed, DeviceRests
<1>2. /\ hClient \in Clients /\ hToDevice \in Seq(Letters)
    BY DEF HostInv, HostTypes
<1>3. hClient' \in {hClient, Cable!Off(hClient, hClient.outcome)} /\ Taking
    BY DEF Cable!Closed, Taking
<1>4. hClient.outcome \in {"none", "ok", "refused", "unknown", "failed", "landed"}
    BY <1>2 DEF Clients
<1>5. /\ hClient' \in Clients /\ hClient'.phase \in {"off", "closing"}
      /\ hClient'.outcome = hClient.outcome /\ SameCommand /\ hClient'.got = hClient.got
    BY <1>1, <1>2, <1>3, <1>4, OffIs DEF SameCommand
<1>6. hClient.outcome # "none" /\ ~Waiting
    BY <1>1 DEF HostInv, SaveInv, Waiting
<1>7. Sealed
    BY <1>1 DEF Sealed
<1>8. /\ \A i \in 1..Len(hToDevice) : hToDevice[i].op # "start"
      /\ \A i \in 1..Len(hToHost) : hToHost[i].op # "greeting"
    BY <1>1 DEF HostInv, LineInv
<1>9. \A i \in 1..Len(hToHost') : hToHost'[i].op # "greeting"
  <2>1. hToHost \in Seq(Letters)
      BY DEF HostInv, HostTypes
  <2>2. CASE hToHost' = hToHost
      BY <1>8, <2>2
  <2>3. CASE hToHost # << >> /\ hToHost' = Tail(hToHost)
    <3>1. \A i \in 1..Len(hToHost') : hToHost'[i] = hToHost[i + 1] /\ i + 1 \in 1..Len(hToHost)
        BY <2>1, <2>3, Taken
    <3> QED
        BY <1>8, <3>1
  <2> QED
      BY <1>3, <2>2, <2>3 DEF Taking
<1>10. /\ Done => hClient.outcome \in {"ok", "unknown", "landed"}
       /\ hClient.outcome = "ok" => Delivered
       /\ hClient.kind = "get" /\ hClient.outcome = "ok" => \E t \in Attempts : hClient.got = Bound(t)
       /\ Marks
    BY <1>1, <1>6 DEF HostInv, SaveInv, Marks
<1>11. /\ (\E f : Lives(f) /\ Decides(f)) => hClient.outcome = "unknown"
       /\ hClient.outcome = "ok" => \A f : ~Lives(f)
    BY <1>6 DEF HostInv, LiveInv
<1>12. Leaves(hClient.outcome)
    BY <1>1, <1>2, <1>3, <1>5, <1>6, <1>7, <1>8, <1>9, <1>10, <1>11 DEF Leaves
<1> QED
    BY <1>12, LeavesKeeps

LEMMA WaitingIs ==
    ASSUME HostInv, Waiting
    PROVE  /\ Calm /\ Answers /\ GotInv
           /\ hClient.kind \in {"put", "get", "remove"} /\ hClient.outcome = "none"
           /\ Cable!Script(hClient.kind)[hClient.step] = Order /\ Order \in Orders
           /\ Order \notin {"commit", "remove"} => ~Done /\ \A f : Lives(f) => ~Decides(f)
           /\ Order = "commit" => hClient.kind = "put"
           /\ Order = "remove" => hClient.kind = "remove"
           /\ hRemoval \in Removals /\ hRemoval.session = hClient.session
<1>1. Calm /\ Answers /\ GotInv
    BY DEF HostInv, WaitInv
<1>2. hClient \in Clients /\ hClient.kind \in {"put", "get", "remove"}
    BY DEF HostInv, HostTypes, Clients
<1>3. hClient.step \in 1..Steps(hClient.kind)
    BY <1>1 DEF Calm
<1>4. hClient.outcome = "none"
    BY DEF HostInv, SaveInv, Waiting
<1>5. Cable!Script(hClient.kind)[hClient.step] = Order /\ Order \in Orders
    BY <1>2, <1>3, ScriptIs, PlaceIs DEF Order
<1>6. /\ Order = "commit" <=> hClient.kind = "put" /\ hClient.step = Steps(hClient.kind)
      /\ Order = "remove" <=> hClient.kind = "remove"
    BY <1>2, <1>3, PlaceIs DEF Order, Place
<1>7. Done => hClient.step = Steps(hClient.kind)
    BY <1>4 DEF HostInv, SaveInv
<1>8. \A f : Lives(f) => f.op = Order
    BY DEF HostInv, LiveInv, IsAsked
<1>9. Order \notin {"commit", "remove"} => ~Done /\ \A f : Lives(f) => ~Decides(f)
    BY <1>6, <1>7, <1>8 DEF Done, Decides
<1>10. hRemoval \in Removals /\ hRemoval.session = hClient.session
    BY DEF HostInv, SaveInv
<1> QED
    BY <1>1, <1>2, <1>4, <1>5, <1>6, <1>9, <1>10

LEMMA GivesUp ==
    ASSUME HostInv, Waiting, NEW outcome \in {"refused", "unknown", "failed", "landed"},
           Cable!GiveUp(outcome), DeviceRests, Taking, hRemoval' = hRemoval,
           Order \in {"commit", "remove"} /\ outcome # "unknown" =>
              (\A f : ~Lives(f)) /\ (outcome # "landed" => ~Done)
    PROVE  HostInv'
<1>1. /\ Calm /\ hClient.outcome = "none"
      /\ Order \notin {"commit", "remove"} => ~Done /\ \A f : Lives(f) => ~Decides(f)
      /\ hRemoval \in Removals
    BY WaitingIs
<1>2. hClient \in Clients /\ hToDevice \in Seq(Letters) /\ hToHost \in Seq(Letters)
    BY DEF HostInv, HostTypes
<1>3. /\ hClient' = Cable!Ends(hClient, outcome)
      /\ hToDevice' = Append(hToDevice, Cable!CloseFrame(hClient))
    BY DEF Cable!GiveUp
<1>4. /\ hClient' \in Clients /\ hClient'.phase = "closing" /\ hClient'.outcome = outcome
      /\ SameCommand
    BY <1>2, <1>3, EndsIs DEF SameCommand
<1>5. Sealed /\ hToDevice' \in Seq(Letters)
    BY <1>2, <1>3, ClosesIs, SealsOne
<1>6. /\ \A i \in 1..Len(hToDevice) : hToDevice[i].op # "start"
      /\ \A i \in 1..Len(hToHost) : hToHost[i].op # "greeting"
    BY <1>1 DEF Calm, Orders, Harmless
<1>7. \A i \in 1..Len(hToHost') : hToHost'[i].op # "greeting"
  <2>1. CASE hToHost' = hToHost
      BY <1>6, <2>1
  <2>2. CASE hToHost # << >> /\ hToHost' = Tail(hToHost)
    <3>1. \A i \in 1..Len(hToHost') : hToHost'[i] = hToHost[i + 1] /\ i + 1 \in 1..Len(hToHost)
        BY <1>2, <2>2, Taken
    <3> QED
        BY <1>6, <3>1
  <2> QED
      BY <2>1, <2>2 DEF Taking
<1>8. Done => outcome \in {"ok", "unknown", "landed"}
    BY <1>1
<1>9. (\E f : Lives(f) /\ Decides(f)) => outcome = "unknown"
    BY <1>1
<1>12. Marks
    BY <1>1 DEF Marks
<1>10. hClient.phase # "off" /\ outcome # "none" /\ outcome # "ok"
    BY DEF Waiting
<1>11. Leaves(outcome)
    BY <1>4, <1>5, <1>6, <1>7, <1>8, <1>9, <1>10, <1>12 DEF Leaves
<1> QED
    BY <1>11, LeavesKeeps

LEMMA TimeoutSits ==
    ASSUME HostInv, Cable!Timeout
    PROVE  HostInv'
<1>1. /\ hClient.phase \in {"connecting", "waiting"} /\ DeviceRests /\ Taking /\ hRemoval' = hRemoval
    BY DEF Cable!Timeout, DeviceRests, Taking
<1>2. CASE hClient.phase = "waiting"
  <2> DEFINE unsure == IF Order \in {"commit", "remove"} THEN "unknown" ELSE "failed"
  <2>1. Waiting
      BY <1>2 DEF Waiting
  <2>2. Cable!GiveUp(unsure)
      BY <1>2, <2>1, WaitingIs DEF Cable!Timeout
  <2>3. unsure \in {"unknown", "failed"} /\ (Order \in {"commit", "remove"} => unsure = "unknown")
      OBVIOUS
  <2> HIDE DEF unsure
  <2> QED
      BY <1>1, <2>1, <2>2, <2>3, GivesUp
<1>3. CASE hClient.phase = "connecting"
  <2>1. hClient' = Cable!Off(hClient, "failed") /\ hToDevice' = hToDevice
      BY <1>3 DEF Cable!Timeout
  <2>2. hClient \in Clients /\ hToDevice \in Seq(Letters)
      BY DEF HostInv, HostTypes
  <2>3. /\ hClient' \in Clients /\ hClient'.phase = "off" /\ hClient'.outcome = "failed"
        /\ SameCommand
      BY <2>1, <2>2, OffIs DEF SameCommand
  <2>4. ~Done /\ (\A f : Lives(f) => ~Decides(f)) /\ Marks
      BY <1>1, <1>3, Connecting DEF Marks
  <2>5. Sealed
      BY <2>1 DEF Sealed
  <2>6. Leaves("failed")
      BY <1>1, <1>3, <2>1, <2>2, <2>3, <2>4, <2>5 DEF Leaves
  <2> QED
      BY <2>6, LeavesKeeps
<1> QED
    BY <1>1, <1>2, <1>3

LEMMA GreetedSits ==
    ASSUME HostInv, Cable!Greeted
    PROVE  HostInv'
<1> DEFINE f == Head(hToHost)
           c == [hClient EXCEPT !.session = f.session]
<1>1. /\ hClient.phase = "connecting" /\ DeviceRests
      /\ hToHost # << >> /\ hToHost' = Tail(hToHost)
      /\ IF f.op = "greeting"
         THEN Cable!Proceed(c) /\ hRemoval' = [hRemoval EXCEPT !.session = f.session]
         ELSE /\ hClient' = Cable!Off(hClient, "failed") /\ hToDevice' = hToDevice
              /\ hRemoval' = hRemoval
    BY DEF Cable!Greeted, DeviceRests
<1>2. hClient \in Clients /\ hToDevice \in Seq(Letters) /\ hToHost \in Seq(Letters)
      /\ hProto \in Protocols
    BY DEF HostInv, HostTypes
<1>3. /\ f = hToHost[1] /\ f \in Letters /\ Len(hToHost) \in Nat \ {0}
      /\ \A i \in 1..Len(hToHost') : hToHost'[i] = hToHost[i + 1] /\ i + 1 \in 1..Len(hToHost)
    BY <1>1, <1>2, Taken
<1>4. /\ ~Done /\ (\A g : Lives(g) => ~Decides(g)) /\ hClient.outcome = "none"
      /\ hRemoval \in Removals
    BY <1>1, Connecting
<1> HIDE DEF f
<1>5. CASE f.op # "greeting"
  <2>1. hClient' = Cable!Off(hClient, "failed") /\ hToDevice' = hToDevice /\ Marks
      BY <1>1, <1>4, <1>5 DEF Marks
  <2>3. /\ hClient' \in Clients /\ hClient'.phase = "off" /\ hClient'.outcome = "failed"
        /\ SameCommand
      BY <1>2, <2>1, OffIs DEF SameCommand
  <2>5. Sealed /\ Taking
      BY <1>1, <2>1 DEF Sealed, Taking
  <2>6. Leaves("failed")
      BY <1>1, <1>2, <1>4, <2>1, <2>3, <2>5 DEF Leaves
  <2> QED
      BY <2>6, LeavesKeeps
<1>6. CASE f.op = "greeting"
  <2>1. Cable!Proceed(c)
      BY <1>1, <1>6
  <2>2. /\ hProto.binary /\ hProto.lastId = 0 /\ f.session = hProto.session /\ hToDevice = << >>
        /\ \A j \in 1..Len(hToHost) : j > 1 => Harmless(hToHost[j])
      BY <1>3, <1>6 DEF HostInv, LineInv
  <2>3. hProto.session \in Nat
      BY <1>2 DEF Protocols
  <2>4. /\ c \in Clients /\ c.session = hProto.session
        /\ c.kind = hClient.kind /\ c.tag = hClient.tag /\ c.name = hClient.name
        /\ c.left = hClient.left /\ c.step = hClient.step /\ c.id = hClient.id
        /\ c.outcome = hClient.outcome /\ c.got = hClient.got
      BY <1>2, <2>2, <2>3 DEF Clients
  <2> HIDE DEF c
  <2>5. hClient.step = 0 /\ hClient.id = 0 /\ hClient.got = << >>
      BY <1>1 DEF HostInv, SaveInv
  <2>6. /\ hChan.state = "idle"
        /\ hSess.seen = hProto.session => ~hSess.up.owner /\ hSess.file = NoValue
        /\ hSess.at # "executing"
      BY <2>2 DEF HostInv, SlotInv
  <2>7. \A g : ~Lives(g)
    <3>1. Len(hToDevice) = 0
        BY <2>2
    <3> QED
        BY <2>6, <3>1 DEF Lives
  <2>8. \A i \in 1..Len(hToHost') : Harmless(hToHost'[i])
    <3> SUFFICES ASSUME NEW i \in 1..Len(hToHost') PROVE Harmless(hToHost'[i])
        OBVIOUS
    <3>1. hToHost'[i] = hToHost[i + 1] /\ i + 1 \in 1..Len(hToHost) /\ i + 1 > 1
        BY <1>3
    <3> QED
        BY <2>2, <3>1
  <2>9. hSess.seen = hProto.session => Holds(hClient.tag, hClient.name)
      BY <2>6 DEF Holds
  <2>10. c.step \in 0..Steps(c.kind) /\ c.step # Steps(c.kind)
      BY <1>2, <2>4, <2>5, ScriptIs DEF Clients
  <2>11. Len(c.got) = 0
      BY <2>4, <2>5
  <2>12. hProto.lastId <= hClient.id /\ hClient.phase # "off"
      BY <1>1, <2>2, <2>5
  <2>14. /\ hRemoval' \in Removals /\ hRemoval'.done = hRemoval.done
         /\ hRemoval'.session = hProto.session
      BY <1>1, <1>4, <1>6, <2>2, <2>3 DEF Removals
  <2>13. Goes(c)
      BY <1>1, <1>4, <2>2, <2>4, <2>5, <2>6, <2>7, <2>8, <2>9, <2>10, <2>11, <2>12, <2>14 DEF Goes
  <2> QED
      BY <2>1, <2>13, GoesKeeps
<1> QED
    BY <1>5, <1>6

LEMMA AnsweredSits ==
    ASSUME HostInv, Cable!Answered
    PROVE  HostInv'
<1> DEFINE f == Head(hToHost)
           op == Cable!Script(hClient.kind)[hClient.step]
           unsure == IF op \in {"commit", "remove"} THEN "unknown" ELSE "failed"
           got == IF op = "read" THEN Append(hClient.got, f.tag) ELSE hClient.got
           c == [hClient EXCEPT !.got = got]
<1>1. /\ Waiting /\ DeviceRests /\ hToHost # << >> /\ hToHost' = Tail(hToHost)
      /\ IF f.op = "fail" THEN Cable!GiveUp(Cable!Failure(f.status))
         ELSE IF ~Cable!Answers(f) THEN Cable!GiveUp(unsure)
         ELSE IF f.status # "ok" THEN Cable!GiveUp(Cable!Failure(f.status))
         ELSE Cable!Proceed(c)
      /\ hRemoval' = hRemoval
    BY DEF Cable!Answered, DeviceRests, Waiting
<1>2. hClient \in Clients /\ hToDevice \in Seq(Letters) /\ hToHost \in Seq(Letters)
      /\ hProto \in Protocols
    BY DEF HostInv, HostTypes
<1>3. /\ f = hToHost[1] /\ f \in Letters /\ Len(hToHost) \in Nat \ {0}
      /\ \A i \in 1..Len(hToHost') : hToHost'[i] = hToHost[i + 1] /\ i + 1 \in 1..Len(hToHost)
    BY <1>1, <1>2, Taken
<1>4. /\ Calm /\ Answers /\ GotInv /\ hClient.kind \in {"put", "get", "remove"}
      /\ hClient.outcome = "none" /\ op = Order /\ Order \in Orders
      /\ Order \notin {"commit", "remove"} => ~Done
      /\ Order = "commit" => hClient.kind = "put"
      /\ Order = "remove" => hClient.kind = "remove"
      /\ hRemoval \in Removals /\ hRemoval.session = hClient.session
    BY <1>1, WaitingIs
<1>5. Taking
    BY <1>1 DEF Taking
<1>6. f.op \in Orders \/ Harmless(f)
    BY <1>3, <1>4 DEF Calm
<1>7. Cable!Failure(f.status) =
         IF op \notin {"commit", "remove"} THEN "failed"
         ELSE IF f.status \in {"cancelled", "timeout"} THEN "unknown"
         ELSE IF f.status = "late" THEN "landed" ELSE "refused"
    BY DEF Cable!Failure
<1>8. Cable!Failure(f.status) \in {"refused", "unknown", "failed", "landed"}
    BY <1>7
<1> HIDE DEF f, op
<1>9. CASE f.op = "fail"
  <2>1. Cable!GiveUp(Cable!Failure(f.status))
      BY <1>1, <1>9
  <2>2. f.status \in {"cancelled", "timeout"}
      BY <1>6, <1>9 DEF Orders, Harmless
  <2>3. Order \in {"commit", "remove"} => Cable!Failure(f.status) = "unknown"
      BY <1>4, <1>7, <2>2
  <2> QED
      BY <1>1, <1>5, <1>8, <2>1, <2>3, GivesUp
<1>10. CASE f.op # "fail" /\ ~Cable!Answers(f)
  <2>1. Cable!GiveUp(unsure)
      BY <1>1, <1>10
  <2>2. unsure \in {"unknown", "failed"} /\ (Order \in {"commit", "remove"} => unsure = "unknown")
      BY <1>4
  <2> HIDE DEF unsure
  <2> QED
      BY <1>1, <1>5, <2>1, <2>2, GivesUp
<1>11. CASE f.op # "fail" /\ Cable!Answers(f)
  <2>1. f.op \in Orders
      BY <1>6, <1>11 DEF Harmless
  <2>2. Replies(f) /\ Asked(f)
      BY <1>3, <1>11, <2>1 DEF Replies, Asked, Cable!Answers
  <2>3. (\A g : ~Lives(g)) /\ Answer(f)
      BY <1>4, <2>2 DEF Answers
  <2>4. hChan.state = "idle"
      BY <1>3, <1>4, <2>1, <2>2 DEF Calm
  <2>5. CASE f.status # "ok"
    <3>1. Cable!GiveUp(Cable!Failure(f.status))
        BY <1>1, <1>11, <2>5
    <3>2. Order \in {"commit", "remove"} /\ f.status # "late" =>
             ~Done \/ Cable!Failure(f.status) = "unknown"
        BY <2>3, <2>5 DEF Answer
    <3>3. Order \in {"commit", "remove"} /\ f.status = "late" => Cable!Failure(f.status) = "landed"
        BY <1>4, <1>7
    <3> QED
        BY <1>1, <1>5, <1>8, <2>3, <3>1, <3>2, <3>3, GivesUp
  <2>6. CASE f.status = "ok"
    <3>1. Cable!Proceed(c)
        BY <1>1, <1>11, <2>6
    <3>2. /\ f.op = Order
          /\ Order \in {"commit", "remove"} => Delivered
          /\ Order = "read" => f.tag \in Attempts /\ hStore.files[hClient.name] = Bound(f.tag)
        BY <2>3, <2>6 DEF Answer
    <3>3. /\ hClient.got \in Seq(Attempts) /\ hClient.step \in Nat /\ hClient.id \in Nat
          /\ hProto.lastId \in Nat
        BY <1>2 DEF Clients, Protocols
    <3>4. /\ Order = "read" => /\ got \in Seq(Attempts) /\ Len(got) = Len(hClient.got) + 1
                               /\ Len(hClient.got) \in Nat
                               /\ got[Len(hClient.got) + 1] = f.tag
                               /\ \A i \in 1..Len(hClient.got) : got[i] = hClient.got[i]
          /\ Order # "read" => got = hClient.got
        BY <1>4, <3>2, <3>3, AppendProperties
    <3>5. got \in Seq(Attempts)
        BY <3>3, <3>4
    <3> HIDE DEF got
    <3>6. /\ c \in Clients /\ c.got = got /\ c.session = hClient.session
          /\ c.kind = hClient.kind /\ c.tag = hClient.tag /\ c.name = hClient.name
          /\ c.left = hClient.left /\ c.step = hClient.step /\ c.id = hClient.id
          /\ c.outcome = hClient.outcome
        BY <1>2, <3>5 DEF Clients
    <3> HIDE DEF c
    <3>7. /\ hProto.binary /\ hClient.session = hProto.session /\ hProto.lastId <= hClient.id
          /\ hClient.step \in 1..Steps(hClient.kind)
          /\ \A i \in 1..Len(hToDevice) : hToDevice[i].op \in Orders
          /\ \A i \in 1..Len(hToHost) : hToHost[i].op \in Orders \/ Harmless(hToHost[i])
          /\ hSess.seen = hClient.session => Holds(hClient.tag, hClient.name)
        BY <1>4 DEF Calm
    <3>8. hToDevice = << >>
      <4>1. \A i \in 1..Len(hToDevice) : FALSE
          BY <2>3, <3>7 DEF Lives
      <4> QED
          BY <1>2, <4>1, Taken
    <3>9. \A i \in 1..Len(hToHost') :
             \/ Harmless(hToHost'[i])
             \/ /\ hToHost'[i].op \in Orders
                /\ hToHost'[i].session = hProto.session => hToHost'[i].id <= hClient.id
      <4> SUFFICES ASSUME NEW i \in 1..Len(hToHost')
                   PROVE  \/ Harmless(hToHost'[i])
                          \/ /\ hToHost'[i].op \in Orders
                             /\ hToHost'[i].session = hProto.session => hToHost'[i].id <= hClient.id
          OBVIOUS
      <4>1. hToHost'[i] = hToHost[i + 1] /\ i + 1 \in 1..Len(hToHost)
          BY <1>3
      <4>2. CASE Harmless(hToHost[i + 1])
          BY <4>1, <4>2
      <4>3. CASE hToHost[i + 1].op \in Orders
        <5>1. Replies(hToHost[i + 1])
            BY <4>1, <4>3 DEF Replies
        <5>2. Past(hToHost[i + 1])
            BY <1>4, <5>1 DEF Answers
        <5> QED
            BY <3>7, <4>1, <4>3, <5>2 DEF Past
      <4> QED
          BY <3>7, <4>1, <4>2, <4>3
    <3>10. c.step # Steps(c.kind) => ~Done
        BY <1>4, <3>6, <3>7, PlaceIs DEF Order, Steps
    <3>11. ASSUME c.kind = "get"
           PROVE  /\ Len(c.got) = c.step - 1
                  /\ \A i \in 1..Len(c.got) : hStore.files[hClient.name] = Bound(c.got[i])
      <4>1. /\ Len(hClient.got) = IF hClient.step = 1 THEN 0 ELSE hClient.step - 2
            /\ \A i \in 1..Len(hClient.got) : hStore.files[hClient.name] = Bound(hClient.got[i])
          BY <1>4, <3>6, <3>11 DEF GotInv
      <4>2. CASE hClient.step = 1
        <5>1. Order # "read"
            BY <3>6, <3>7, <3>11, <4>2, PlaceIs DEF Order
        <5> QED
            BY <3>4, <3>6, <4>1, <4>2, <5>1
      <4>3. CASE hClient.step # 1
        <5>1. Order = "read"
            BY <3>6, <3>7, <3>11, <4>3, PlaceIs DEF Order
        <5>2. Len(got) = hClient.step - 1 /\ Len(hClient.got) = hClient.step - 2
            BY <3>3, <3>4, <4>1, <4>3, <5>1
        <5>3. ASSUME NEW i \in 1..Len(got)
              PROVE  hStore.files[hClient.name] = Bound(got[i])
          <6>1. i \in 1..Len(hClient.got) \/ i = Len(hClient.got) + 1
              BY <3>4, <5>1
          <6> QED
              BY <3>2, <3>4, <4>1, <5>1, <6>1
        <5> QED
            BY <3>6, <5>2, <5>3
      <4> QED
          BY <4>2, <4>3
    <3>12. c.step \in 0..Steps(c.kind) /\ c.step # 0
        BY <3>3, <3>6, <3>7, <1>4, ScriptIs
    <3>13. ASSUME c.step = Steps(c.kind)
           PROVE  Delivered
      <4>1. CASE c.kind = "get"
          BY <3>6, <4>1 DEF Delivered
      <4>2. CASE c.kind # "get"
        <5>1. Order \in {"commit", "remove"}
            BY <1>4, <3>6, <3>7, <3>13, <4>2, PlaceIs DEF Order, Place
        <5> QED
            BY <3>2, <5>1
      <4> QED
          BY <4>1, <4>2
    <3>14. ASSUME c.step = Steps(c.kind), c.kind = "get"
           PROVE  \E t \in Attempts : c.got = Bound(t)
      <4>1. hClient.step = CableChunks + 1 /\ hClient.step # 1
          BY <3>6, <3>14, CableConstantsAre DEF Steps
      <4>2. Order = "read"
          BY <3>6, <3>7, <3>14, <4>1, PlaceIs DEF Order
      <4>3. f.tag \in Attempts /\ hStore.files[hClient.name] = Bound(f.tag)
          BY <3>2, <4>2
      <4>9. /\ Len(c.got) = c.step - 1
            /\ \A i \in 1..Len(c.got) : hStore.files[hClient.name] = Bound(c.got[i])
          BY <3>11, <3>14
      <4>10. Len(c.got) = CableChunks
          BY <3>6, <4>1, <4>9, CableConstantsAre
      <4>4. /\ Len(c.got) = CableChunks
            /\ \A i \in 1..Len(c.got) : Bound(f.tag) = Bound(c.got[i])
          BY <4>3, <4>9, <4>10
      <4>5. c.got \in Seq(Attempts)
          BY <3>5, <3>6
      <4>6. \A i \in 1..Len(c.got) : c.got[i] = f.tag
        <5> SUFFICES ASSUME NEW i \in 1..Len(c.got) PROVE c.got[i] = f.tag
            OBVIOUS
        <5>1. c.got[i] \in Attempts
            BY <4>5, ElementOfSeq
        <5>2. Bound(c.got[i]) = Bound(f.tag)
            BY <4>4
        <5> QED
            BY <4>3, <5>1, <5>2, BoundIsOne
      <4>7. /\ Bound(f.tag) \in Seq(Attempts) /\ Len(Bound(f.tag)) = CableChunks
            /\ \A i \in 1..CableChunks : Bound(f.tag)[i] = f.tag
          BY <4>3, BoundIsOne
      <4>8. c.got = Bound(f.tag)
          BY <4>4, <4>5, <4>6, <4>7, SeqEqual
      <4> QED
          BY <4>3, <4>8
    <3>15. hSess.seen = hProto.session => Holds(hClient.tag, hClient.name)
        BY <3>7
    <3>16. hClient.phase # "off"
        BY <1>1 DEF Waiting
    <3>18. /\ hRemoval' \in Removals /\ hRemoval'.done = hRemoval.done
           /\ hRemoval'.session = hProto.session
        BY <1>1, <1>4, <3>7
    <3>17. Goes(c)
        BY <1>1, <1>4, <2>3, <2>4, <3>6, <3>7, <3>8, <3>9, <3>10, <3>11, <3>12, <3>13, <3>14,
           <3>15, <3>16, <3>18 DEF Goes
    <3> QED
        BY <3>1, <3>17, GoesKeeps
  <2> QED
      BY <2>5, <2>6
<1> QED
    BY <1>9, <1>10, <1>11

-----------------------------------------------------------------------------
(* The worker's steps: the client and the session rest.                    *)

SessionRests == UNCHANGED <<hClient, hSess, hStore, hOther, hRemoval>>
NoGreeting == \A i \in 1..Len(hToHost) : hToHost[i].op # "greeting"

\* The worker goes on in its session, or ends it.
WorksOn ==
    /\ hProto'.binary = hProto.binary /\ hProto'.session = hProto.session
    /\ hProto'.lastId = hProto.lastId \/ (NoGreeting /\ hProto'.lastId > hProto.lastId)
    /\ hProto'.lastId = hProto.lastId => (hProto'.pending => hProto.pending)
Quits ==
    /\ ~hProto'.binary /\ hProto'.session = 0 /\ hChan'.session = 0
    /\ ~Waiting /\ NoGreeting /\ hToDevice' = << >>

\* What it sends may be of the past, and is no greeting.
MaySay(g) ==
    /\ g \in Letters /\ g.op # "greeting" /\ (Harmless(g) \/ NoGreeting)
    /\ Waiting => \/ Harmless(g)
                  \/ /\ g.op \in Orders /\ Past(g)
                     /\ Asked(g) => /\ hChan'.state = "idle"
                                    /\ (\A f : ~Lives(f)') /\ Answer(g)

SlotKept ==
    /\ hChan' \in Channels /\ hChan'.next = hChan.next /\ hChan'.slot = hChan.slot
    /\ hChan'.session \in {0, hChan.session}
    /\ hChan'.state = hChan.state \/ (hChan'.state = "idle" /\ hChan.state # "executing")
    /\ hChan'.state = "queued" => hChan'.session = hChan.session

LEMMA WorkerRests ==
    ASSUME HostInv, SessionRests, hProto' \in Protocols, WorksOn \/ Quits, SlotKept,
           \/ hToDevice' = hToDevice
           \/ hToDevice # << >> /\ hToDevice' = Tail(hToDevice)
           \/ hToDevice' = << >>,
           Waiting => /\ hProto'.lastId <= hClient.id
                      /\ (hToDevice' # << >> => hProto'.lastId < hClient.id),
           \/ hToHost' = hToHost
           \/ \E g : MaySay(g) /\ hToHost' = Append(hToHost, g)
    PROVE  HostInv'
<1> USE DEF HostInv
<1>1. /\ hToDevice \in Seq(Letters) /\ hToHost \in Seq(Letters) /\ hClient \in Clients
      /\ hProto \in Protocols /\ hChan \in Channels
    BY DEF HostTypes
<1>2. /\ hToDevice' \in Seq(Letters)
      /\ \A i \in 1..Len(hToDevice') : \E j \in 1..Len(hToDevice) :
            /\ hToDevice'[i] = hToDevice[j]
            /\ j = i \/ (j = i + 1 /\ hToDevice' = Tail(hToDevice) /\ hToDevice # << >>)
  <2>1. CASE hToDevice' = hToDevice
      BY <1>1, <2>1
  <2>2. CASE hToDevice # << >> /\ hToDevice' = Tail(hToDevice)
      BY <1>1, <2>2, Taken
  <2>3. CASE hToDevice' = << >>
    <3>1. Len(hToDevice') = 0 /\ hToDevice' \in Seq(Letters)
        BY <2>3
    <3> QED
        BY <3>1
  <2> QED
      BY <2>1, <2>2, <2>3
<1>3. \A f : Lives(f)' => Lives(f)
  <2> SUFFICES ASSUME NEW f, Lives(f)'
               PROVE  Lives(f)
      OBVIOUS
  <2>1. \/ \E i \in 1..Len(hToDevice') : hToDevice'[i] = f /\ f.op \in Orders
        \/ hChan'.state = "queued" /\ f = hChan'.slot
        \/ hSess.at = "executing" /\ f = hSess.request
      BY DEF Lives, SessionRests
  <2>2. hChan'.state = "queued" => hChan.state = "queued" /\ hChan'.slot = hChan.slot
      BY DEF SlotKept
  <2> QED
      BY <1>2, <2>1, <2>2 DEF Lives
<1>4. \A f : Replies(f)' =>
         Replies(f) \/ (f.op \in Orders /\ MaySay(f) /\ hToHost' = Append(hToHost, f))
  <2> SUFFICES ASSUME NEW f, Replies(f)'
               PROVE  Replies(f) \/ (f.op \in Orders /\ MaySay(f) /\ hToHost' = Append(hToHost, f))
      OBVIOUS
  <2>1. \/ hSess.at = "reply" /\ f = hSess.reply
        \/ hChan'.state = "replied" /\ f = hChan'.slot
        \/ \E i \in 1..Len(hToHost') : hToHost'[i] = f /\ f.op \in Orders
      BY DEF Replies, SessionRests
  <2>2. hChan'.state = "replied" => hChan.state = "replied" /\ hChan'.slot = hChan.slot
      BY DEF SlotKept
  <2>3. CASE \E i \in 1..Len(hToHost') : hToHost'[i] = f /\ f.op \in Orders
    <3>1. PICK i \in 1..Len(hToHost') : hToHost'[i] = f /\ f.op \in Orders
        BY <2>3
    <3>2. CASE hToHost' = hToHost
        BY <3>1, <3>2 DEF Replies
    <3>3. CASE \E g : MaySay(g) /\ hToHost' = Append(hToHost, g)
      <4>1. PICK g : MaySay(g) /\ hToHost' = Append(hToHost, g)
          BY <3>3
      <4>2. g \in Letters
          BY <4>1 DEF MaySay
      <4>3. /\ Len(hToHost') = Len(hToHost) + 1 /\ Len(hToHost) \in Nat
            /\ hToHost'[Len(hToHost) + 1] = g
            /\ \A k \in 1..Len(hToHost) : hToHost'[k] = hToHost[k]
          BY <1>1, <4>1, <4>2, Added
      <4>4. i \in 1..Len(hToHost) \/ i = Len(hToHost) + 1
          BY <4>3
      <4>5. CASE i \in 1..Len(hToHost)
          BY <3>1, <4>3, <4>5 DEF Replies
      <4>6. CASE i = Len(hToHost) + 1
          BY <3>1, <4>1, <4>3, <4>6
      <4> QED
          BY <4>4, <4>5, <4>6
    <3> QED
        BY <3>2, <3>3
  <2> QED
      BY <2>1, <2>2, <2>3 DEF Replies
<1>5. /\ hToHost' \in Seq(Letters)
      /\ \A i \in 1..Len(hToHost') :
            \/ i \in 1..Len(hToHost) /\ hToHost'[i] = hToHost[i]
            \/ i = Len(hToHost) + 1 /\ MaySay(hToHost'[i])
               /\ hToHost' = Append(hToHost, hToHost'[i])
  <2>1. CASE hToHost' = hToHost
      BY <1>1, <2>1
  <2>2. CASE \E g : MaySay(g) /\ hToHost' = Append(hToHost, g)
    <3>1. PICK g : MaySay(g) /\ hToHost' = Append(hToHost, g)
        BY <2>2
    <3>2. g \in Letters
        BY <3>1 DEF MaySay
    <3>3. /\ Len(hToHost') = Len(hToHost) + 1 /\ Len(hToHost) \in Nat
          /\ hToHost' \in Seq(Letters) /\ hToHost'[Len(hToHost) + 1] = g
          /\ \A k \in 1..Len(hToHost) : hToHost'[k] = hToHost[k]
        BY <1>1, <3>1, <3>2, Added
    <3>4. \A i \in 1..Len(hToHost') : i \in 1..Len(hToHost) \/ i = Len(hToHost) + 1
        BY <3>3
    <3> QED
        BY <3>1, <3>3, <3>4
  <2> QED
      BY <2>1, <2>2
<1>6. HostTypes'
    BY <1>2, <1>5 DEF HostTypes, SessionRests, SlotKept
<1>7. HandleInv'
    BY DEF HandleInv, SessionRests
<1>8. NoneBorn /\ Eased
    BY <1>3 DEF NoneBorn, Eased, SessionRests
<1>9. LiveInv' /\ SaveInv'
    BY <1>8, LiveStays, SaveStays DEF SessionRests
<1>10. hProto'.binary => hProto.binary /\ hProto'.session = hProto.session
    BY DEF WorksOn, Quits
<1>11. SlotInv'
  <2>1. hProto'.session <= hChan'.next /\ hSess'.seen <= hChan'.next
    <3>1. hProto.session <= hChan.next /\ hSess.seen <= hChan.next /\ 0 <= hChan.next
        BY <1>1 DEF SlotInv, Channels
    <3> QED
        BY <3>1 DEF SlotKept, SessionRests, WorksOn, Quits
  <2>2. hProto'.binary <=> hProto'.session # 0
      BY DEF SlotInv, WorksOn, Quits
  <2>3. hChan'.session # 0 => hChan'.session = hProto'.session
      BY DEF SlotInv, SlotKept, WorksOn, Quits
  <2>4. hChan'.state = "queued" => hChan'.slot.op \in Orders /\ hChan'.slot.session = hChan'.session
      BY DEF SlotInv, SlotKept
  <2>5. /\ hChan'.state = "executing" <=> hSess'.at \in {"executing", "reply"}
        /\ hChan'.state = "replied" => hChan'.slot.op \in Orders
      BY DEF SlotInv, SlotKept, SessionRests
  <2>6. /\ hSess'.at = "executing" => hSess'.request = hChan'.slot /\ hSess'.request.op \in Orders
                                      /\ hSess'.request.session = hSess'.seen
        /\ hSess'.at = "reply" => /\ hSess'.reply.id = hChan'.slot.id
                                  /\ hSess'.reply.session = hChan'.slot.session
                                  /\ hSess'.reply.op \in Orders
      BY DEF SlotInv, SlotKept, SessionRests
  <2>7. ASSUME hProto'.binary, hProto'.lastId = 0
        PROVE  /\ ~hProto'.pending /\ hChan'.state = "idle"
               /\ hSess'.seen = hProto'.session => ~hSess'.up.owner /\ hSess'.file = NoValue
    <3>1. WorksOn
        BY <2>7 DEF Quits
    <3>2. hProto.lastId \in Nat /\ hProto.binary /\ hProto'.session = hProto.session
        BY <1>1, <1>10, <2>7 DEF Protocols
    <3>3. hProto'.lastId = hProto.lastId \/ hProto'.lastId > hProto.lastId
        BY <3>1 DEF WorksOn
    <3>4. hProto.lastId = 0 /\ hProto'.lastId = hProto.lastId
        BY <2>7, <3>2, <3>3
    <3>5. /\ ~hProto.pending /\ hChan.state = "idle"
          /\ hSess.seen = hProto.session => ~hSess.up.owner /\ hSess.file = NoValue
        BY <3>2, <3>4 DEF SlotInv
    <3>6. hProto'.pending => hProto.pending
        BY <3>1, <3>4 DEF WorksOn
    <3>7. hChan'.state = "idle"
        BY <3>5 DEF SlotKept
    <3> QED
        BY <3>2, <3>5, <3>6, <3>7 DEF SessionRests
  <2> QED
      BY <2>1, <2>2, <2>3, <2>4, <2>5, <2>6, <2>7 DEF SlotInv
<1>12. LineInv'
  <2>1. (\A i, j \in 1..Len(hToDevice) :
            hToDevice[i].op \in Orders /\ hToDevice[j].op \in Orders => i = j)'
    <3> SUFFICES ASSUME NEW i \in 1..Len(hToDevice'), NEW j \in 1..Len(hToDevice'),
                        hToDevice'[i].op \in Orders, hToDevice'[j].op \in Orders
                 PROVE  i = j
        OBVIOUS
    <3>1. PICK k \in 1..Len(hToDevice) :
             /\ hToDevice'[i] = hToDevice[k]
             /\ k = i \/ (k = i + 1 /\ hToDevice' = Tail(hToDevice) /\ hToDevice # << >>)
        BY <1>2
    <3>2. PICK l \in 1..Len(hToDevice) :
             /\ hToDevice'[j] = hToDevice[l]
             /\ l = j \/ (l = j + 1 /\ hToDevice' = Tail(hToDevice) /\ hToDevice # << >>)
        BY <1>2
    <3>3. k = l
        BY <3>1, <3>2 DEF LineInv
    <3>4. CASE hToDevice' = Tail(hToDevice) /\ hToDevice # << >>
      <4>1. hToDevice'[i] = hToDevice[i + 1] /\ hToDevice'[j] = hToDevice[j + 1]
            /\ i + 1 \in 1..Len(hToDevice) /\ j + 1 \in 1..Len(hToDevice)
          BY <1>1, <3>4, Taken
      <4>2. i + 1 = j + 1
          BY <4>1 DEF LineInv
      <4> QED
          BY <4>2
    <3>5. CASE ~(hToDevice' = Tail(hToDevice) /\ hToDevice # << >>)
        BY <3>1, <3>2, <3>3, <3>5
    <3> QED
        BY <3>4, <3>5
  <2>2. ASSUME NEW i \in 1..Len(hToDevice')
        PROVE  /\ hToDevice'[i].op \in Orders \cup {"start", "cut", "close"}
               /\ hToDevice'[i].op \in Orders => hProto'.binary /\ hChan'.state = "idle"
               /\ hToDevice'[i].op = "start" => hClient'.phase \in {"off", "connecting"}
                                                /\ hToDevice'[i].session = 0
    <3>1. PICK k \in 1..Len(hToDevice) : hToDevice'[i] = hToDevice[k]
        BY <1>2
    <3>2. hToDevice' # << >>
        BY <1>2
    <3>3. WorksOn
        BY <3>2 DEF Quits
    <3> QED
        BY <3>1, <3>3 DEF LineInv, WorksOn, SlotKept, SessionRests
  <2>3. ASSUME NEW i \in 1..Len(hToHost'), hToHost'[i].op = "greeting"
        PROVE  /\ hProto'.binary /\ hProto'.lastId = 0 /\ hToHost'[i].session = hProto'.session
               /\ hToDevice' = << >> /\ hClient'.phase \in {"off", "connecting"}
               /\ \A j \in 1..Len(hToHost') : j > i => Harmless(hToHost'[j])
    <3>1. i \in 1..Len(hToHost) /\ hToHost'[i] = hToHost[i]
        BY <1>5, <2>3 DEF MaySay
    <3>2. ~NoGreeting
        BY <2>3, <3>1 DEF NoGreeting
    <3>3. /\ hProto.binary /\ hProto.lastId = 0 /\ hToHost[i].session = hProto.session
          /\ hToDevice = << >> /\ hClient.phase \in {"off", "connecting"}
          /\ \A j \in 1..Len(hToHost) : j > i => Harmless(hToHost[j])
        BY <2>3, <3>1 DEF LineInv
    <3>4. /\ hProto'.binary = hProto.binary /\ hProto'.lastId = hProto.lastId
          /\ hProto'.session = hProto.session
        BY <3>2 DEF WorksOn, Quits
    <3>5. hToDevice' = << >>
        BY <3>3
    <3>6. \A j \in 1..Len(hToHost') : j > i => Harmless(hToHost'[j])
        BY <1>5, <3>2, <3>3 DEF MaySay
    <3> QED
        BY <3>1, <3>3, <3>4, <3>5, <3>6 DEF SessionRests
  <2> QED
      BY <2>1, <2>2, <2>3 DEF LineInv, Harmless
<1>13. ASSUME Waiting'
       PROVE  Calm' /\ Answers' /\ GotInv'
  <2>1. Waiting /\ Calm /\ Answers /\ GotInv
      BY <1>13 DEF Waiting, SessionRests, WaitInv
  <2>2. GotInv'
      BY <2>1 DEF GotInv, SessionRests
  <2>3. WorksOn
      BY <2>1 DEF Quits
  <2>4. Calm'
    <3>1. /\ hProto'.binary /\ hClient'.session = hProto'.session
          /\ hClient'.step \in 1..Steps(hClient'.kind)
        BY <2>1, <2>3 DEF Calm, WorksOn, SessionRests
    <3>2. /\ hProto'.lastId <= hClient'.id
          /\ hToDevice' # << >> => hProto'.lastId < hClient'.id
        BY <2>1 DEF SessionRests
    <3>3. \A i \in 1..Len(hToDevice') : hToDevice'[i].op \in Orders
        BY <1>2, <2>1 DEF Calm
    <3>4. (hSess.seen = hClient.session => Holds(hClient.tag, hClient.name))'
        BY <2>1 DEF Calm, SessionRests, Holds
    <3>5. ASSUME NEW i \in 1..Len(hToHost')
          PROVE  /\ hToHost'[i].op \in Orders \/ Harmless(hToHost'[i])
                 /\ hToHost'[i].op \in Orders /\ Asked(hToHost[i])' => hChan'.state = "idle"
      <4>1. Asked(hToHost[i])' <=> Asked(hToHost'[i])
          BY DEF Asked, SessionRests
      <4>2. CASE i \in 1..Len(hToHost) /\ hToHost'[i] = hToHost[i]
        <5>1. /\ hToHost'[i].op \in Orders \/ Harmless(hToHost'[i])
              /\ hToHost'[i].op \in Orders /\ Asked(hToHost'[i]) => hChan.state = "idle"
            BY <2>1, <4>2 DEF Calm
        <5> QED
            BY <4>1, <5>1 DEF SlotKept
      <4>3. CASE MaySay(hToHost'[i])
        <5>1. /\ hToHost'[i].op \in Orders \/ Harmless(hToHost'[i])
              /\ hToHost'[i].op \in Orders /\ Asked(hToHost'[i]) => hChan'.state = "idle"
            BY <2>1, <4>3 DEF MaySay, Harmless, Orders
        <5> QED
            BY <4>1, <5>1
      <4> QED
          BY <1>5, <4>2, <4>3
    <3> QED
        BY <3>1, <3>2, <3>3, <3>4, <3>5 DEF Calm, Harmless
  <2>5. Answers'
    <3> SUFFICES ASSUME NEW f, Replies(f)'
                 PROVE  Past(f)' /\ (Asked(f)' => (\A g : ~Lives(g)') /\ Answer(f)')
        BY DEF Answers
    <3>1. Past(f)' = Past(f) /\ Asked(f)' = Asked(f) /\ Answer(f)' = Answer(f)
        BY DEF Past, Asked, Answer, Order, Done, Delivered, Saved, SessionRests
    <3>2. CASE Replies(f)
      <4>1. Past(f) /\ (Asked(f) => (\A g : ~Lives(g)) /\ Answer(f))
          BY <2>1, <3>2 DEF Answers
      <4> QED
          BY <1>3, <3>1, <4>1
    <3>3. CASE f.op \in Orders /\ MaySay(f)
      <4>1. Past(f) /\ (Asked(f) => (\A g : ~Lives(g)') /\ Answer(f))
          BY <2>1, <3>3 DEF MaySay, Harmless, Orders
      <4> QED
          BY <3>1, <4>1
    <3> QED
        BY <1>4, <3>2, <3>3
  <2> QED
      BY <2>2, <2>4, <2>5
<1>14. WaitInv'
    BY <1>13 DEF WaitInv
<1> QED
    BY <1>6, <1>7, <1>9, <1>11, <1>12, <1>14

\* What a worker's outcome is: the session is the same, a request is no more
\* pending than it was, and it said f or nothing.
Outcome(o, p, c, f) ==
    /\ o[1] \in Protocols /\ o[1].binary = p.binary /\ o[1].session = p.session
    /\ o[1].lastId = p.lastId /\ (o[1].pending => p.pending)
    /\ o[2] \in Channels /\ o[2].slot = c.slot /\ o[2].next = c.next
    /\ o[2].state = c.state \/ (o[2].state = "idle" /\ c.state # "executing")
    /\ o[2].session \in {0, c.session}
    /\ o[2].state = "queued" => o[2].session = c.session
    /\ o[2].session # 0 => c.session # 0
    /\ o[3] = hToHost \/ o[3] = Append(hToHost, f)

LEMMA SendsSay ==
    ASSUME NEW p \in Protocols, NEW c \in Channels, NEW f, NEW o \in Cable!Sends(p, c, f)
    PROVE  Outcome(o, p, c, f)
<1> DEFINE d == Cable!Disconnect(c, p.session)
           q == [p EXCEPT !.pending = FALSE]
           r == [p EXCEPT !.failed = TRUE, !.mute = TRUE, !.pending = FALSE]
           s == Append(hToHost, f)
<1>1. /\ d \in Channels /\ d.slot = c.slot /\ d.next = c.next
      /\ d.state = c.state \/ (d.state = "idle" /\ c.state # "executing")
      /\ d.session = IF p.session # 0 /\ p.session = c.session THEN 0 ELSE c.session
      /\ d = c \/ (d.session = 0 /\ d.state \in {"idle", "executing"})
    BY Disconnects
<1>2. o = <<q, d, hToHost>> \/ o = <<p, c, s>> \/ o = <<r, d, hToHost>>
    BY DEF Cable!Sends, Cable!Send
<1>3. /\ q \in Protocols /\ q.binary = p.binary /\ q.session = p.session
      /\ q.lastId = p.lastId /\ ~q.pending
    BY DEF Protocols
<1>4. /\ r \in Protocols /\ r.binary = p.binary /\ r.session = p.session
      /\ r.lastId = p.lastId /\ ~r.pending
    BY DEF Protocols
<1> HIDE DEF d, q, r, s
<1>5. \/ o[1] = q /\ o[2] = d /\ o[3] = hToHost
      \/ o[1] = p /\ o[2] = c /\ o[3] = s
      \/ o[1] = r /\ o[2] = d /\ o[3] = hToHost
    BY <1>2
<1>6. CASE o[1] = p /\ o[2] = c /\ o[3] = s
    BY <1>6 DEF Outcome, s
<1>7. CASE o[1] = q /\ o[2] = d /\ o[3] = hToHost
    BY <1>1, <1>3, <1>7 DEF Outcome
<1>8. CASE o[1] = r /\ o[2] = d /\ o[3] = hToHost
    BY <1>1, <1>4, <1>8 DEF Outcome
<1> QED
    BY <1>5, <1>6, <1>7, <1>8

LEMMA FailIs ==
    ASSUME NEW number \in Nat, NEW status \in Cable!Statuses
    PROVE  LET f == [Cable!Frame("fail", 0, number) EXCEPT !.status = status] IN
           f \in Letters /\ f.op = "fail" /\ f.status = status
<1> DEFINE blank == Cable!Frame("fail", 0, number)
           f == [blank EXCEPT !.status = status]
<1>1. blank \in Letters /\ blank.op = "fail"
    BY LetterIs, SMTT(30)
<1> HIDE DEF blank
<1>2. f \in Letters /\ f.op = "fail" /\ f.status = status
    BY <1>1 DEF Letters
<1> QED
    BY <1>2 DEF blank

LEMMA FailsSay ==
    ASSUME NEW p \in Protocols, NEW c \in Channels, NEW status \in Cable!Statuses,
           NEW o \in Cable!Fail(p, c, status)
    PROVE  \E f \in Letters : f.op = "fail" /\ f.status = status /\ Outcome(o, p, c, f)
<1> DEFINE d == Cable!Disconnect(c, p.session)
           q == [p EXCEPT !.pending = FALSE]
           r == [q EXCEPT !.failed = TRUE]
           f == [Cable!Frame("fail", 0, p.session) EXCEPT !.status = status]
<1>1. /\ d \in Channels /\ d.slot = c.slot /\ d.next = c.next
      /\ d.state = c.state \/ (d.state = "idle" /\ c.state # "executing")
      /\ d.session = IF p.session # 0 /\ p.session = c.session THEN 0 ELSE c.session
      /\ d = c \/ (d.session = 0 /\ d.state \in {"idle", "executing"})
    BY Disconnects
<1>2. o = <<q, d, hToHost>> \/ o \in Cable!Sends(r, d, f)
    BY DEF Cable!Fail
<1>3. q \in Protocols /\ q.binary = p.binary /\ q.session = p.session
      /\ q.lastId = p.lastId /\ ~q.pending
    BY DEF Protocols
<1>4. r \in Protocols /\ r.binary = q.binary /\ r.session = q.session /\ r.lastId = q.lastId
      /\ r.pending = q.pending
    BY <1>3 DEF Protocols
<1>5. f \in Letters /\ f.op = "fail" /\ f.status = status
  <2>1. p.session \in Nat
      BY DEF Protocols
  <2> QED
      BY <2>1, FailIs
<1> HIDE DEF d, q, r, f
<1>6. CASE o = <<q, d, hToHost>>
    BY <1>1, <1>3, <1>5, <1>6 DEF Outcome
<1>7. CASE o \in Cable!Sends(r, d, f)
  <2>1. Outcome(o, r, d, f)
      BY <1>1, <1>4, <1>7, SendsSay
  <2>2. /\ o[1] \in Protocols /\ o[1].binary = p.binary /\ o[1].session = p.session
        /\ o[1].lastId = p.lastId /\ (o[1].pending => p.pending)
      BY <1>3, <1>4, <2>1 DEF Outcome
  <2>3. /\ o[2] \in Channels /\ o[2].slot = c.slot /\ o[2].next = c.next
        /\ o[2].state = c.state \/ (o[2].state = "idle" /\ c.state # "executing")
        /\ o[2].session \in {0, c.session}
      BY <1>1, <2>1 DEF Outcome
  <2>4. /\ o[2].state = "queued" => o[2].session = c.session
        /\ o[2].session # 0 => c.session # 0
      BY <1>1, <2>1 DEF Outcome
  <2>5. o[3] = hToHost \/ o[3] = Append(hToHost, f)
      BY <2>1 DEF Outcome
  <2> QED
      BY <1>5, <2>2, <2>3, <2>4, <2>5 DEF Outcome
<1> QED
    BY <1>2, <1>6, <1>7

\* An outcome of the state as it is.
LEMMA Worked ==
    ASSUME HostInv, NEW o, NEW f, NEW p, NEW c, Outcome(o, p, c, f), Cable!Worker({o}),
           p.binary = hProto.binary, p.session = hProto.session, p.lastId = hProto.lastId,
           p.pending => hProto.pending,
           c.slot = hChan.slot, c.next = hChan.next, c.session = hChan.session,
           c.state = hChan.state \/ (c.state = "idle" /\ hChan.state # "executing")
    PROVE  /\ SessionRests /\ hProto' \in Protocols /\ WorksOn /\ SlotKept
           /\ hToHost' = hToHost \/ hToHost' = Append(hToHost, f)
<1>1. /\ hProto' = o[1] /\ hChan' = o[2] /\ hToHost' = o[3] /\ SessionRests
    BY DEF Cable!Worker, SessionRests
<1>2. hProto' \in Protocols /\ WorksOn
    BY <1>1 DEF Outcome, WorksOn
<1>3. SlotKept
    BY <1>1 DEF Outcome, SlotKept
<1> QED
    BY <1>1, <1>2, <1>3 DEF Outcome

LEMMA ProtocolTimeoutSits ==
    ASSUME HostInv, Cable!ProtocolTimeout
    PROVE  HostInv'
<1>1. hProto \in Protocols /\ hChan \in Channels
    BY DEF HostInv, HostTypes
<1>2. PICK o \in Cable!Fail(hProto, hChan, "timeout") : Cable!Worker({o})
    BY DEF Cable!ProtocolTimeout, Cable!Worker
<1>3. hToDevice' = hToDevice
    BY DEF Cable!ProtocolTimeout
<1>4. PICK f \in Letters : f.op = "fail" /\ f.status = "timeout" /\ Outcome(o, hProto, hChan, f)
    BY <1>1, FailsSay DEF Cable!Statuses
<1>5. /\ SessionRests /\ hProto' \in Protocols /\ WorksOn /\ SlotKept
      /\ hToHost' = hToHost \/ hToHost' = Append(hToHost, f)
      /\ hProto'.lastId = hProto.lastId
  <2>1. hProto'.lastId = hProto.lastId
      BY <1>2, <1>4 DEF Outcome, Cable!Worker
  <2> QED
      BY <1>2, <1>4, <2>1, Worked
<1>6. MaySay(f)
    BY <1>4 DEF MaySay, Harmless
<1>7. Waiting => hProto'.lastId <= hClient.id /\ (hToDevice' # << >> => hProto'.lastId < hClient.id)
    BY <1>3, <1>5 DEF HostInv, WaitInv, Calm
<1> QED
    BY <1>3, <1>5, <1>6, <1>7, WorkerRests

LEMMA TakeReplySits ==
    ASSUME HostInv, Cable!TakeReply
    PROVE  HostInv'
<1>1. hProto \in Protocols /\ hChan \in Channels
    BY DEF HostInv, HostTypes
<1>2. hToDevice' = hToDevice /\ hProto.pending /\ hProto.binary
    BY DEF Cable!TakeReply
<1>3. CASE hChan.state = "replied" /\ hChan.session = hProto.session
  <2> DEFINE p == [hProto EXCEPT !.pending = FALSE]
             c == [hChan EXCEPT !.state = "idle"]
  <2>1. PICK o \in Cable!Sends(p, c, hChan.slot) : Cable!Worker({o})
      BY <1>3 DEF Cable!TakeReply, Cable!Worker
  <2>2. /\ p \in Protocols /\ p.binary = hProto.binary /\ p.session = hProto.session
        /\ p.lastId = hProto.lastId /\ ~p.pending
      BY <1>1 DEF Protocols
  <2>3. /\ c \in Channels /\ c.slot = hChan.slot /\ c.next = hChan.next
        /\ c.session = hChan.session /\ c.state = "idle"
      BY <1>1 DEF Channels
  <2> HIDE DEF p, c
  <2>4. Outcome(o, p, c, hChan.slot)
      BY <2>2, <2>3, SendsSay
  <2>5. /\ SessionRests /\ hProto' \in Protocols /\ WorksOn /\ SlotKept
        /\ hToHost' = hToHost \/ hToHost' = Append(hToHost, hChan.slot)
    <3>1. /\ p.pending => hProto.pending
          /\ c.state = hChan.state \/ (c.state = "idle" /\ hChan.state # "executing")
        BY <1>3, <2>2, <2>3
    <3> QED
        BY <2>1, <2>2, <2>3, <2>4, <3>1, Worked
  <2>6. hProto'.lastId = hProto.lastId /\ hChan'.state = "idle"
      BY <2>1, <2>2, <2>3, <2>4 DEF Outcome, Cable!Worker
  <2>7. hChan.slot.op \in Orders /\ hChan.slot \in Letters /\ Replies(hChan.slot)
      BY <1>1, <1>3 DEF HostInv, SlotInv, Channels, Replies
  <2>8. NoGreeting
      BY <1>2 DEF HostInv, LineInv, SlotInv, NoGreeting
  <2>9. hSess.at # "executing"
      BY <1>3 DEF HostInv, SlotInv
  <2>10. \A f : Lives(f)' => Lives(f)
      BY <1>2, <2>5, <2>6 DEF Lives, SessionRests
  <2>11. Waiting => /\ Past(hChan.slot)
                    /\ Asked(hChan.slot) => (\A f : ~Lives(f)) /\ Answer(hChan.slot)
      BY <2>7 DEF HostInv, WaitInv, Answers
  <2>12. MaySay(hChan.slot)
      BY <2>6, <2>7, <2>8, <2>10, <2>11 DEF MaySay, Orders
  <2>13. Waiting => hProto'.lastId <= hClient.id /\ (hToDevice' # << >> => hProto'.lastId < hClient.id)
      BY <1>2, <2>6 DEF HostInv, WaitInv, Calm
  <2> QED
      BY <1>2, <2>5, <2>12, <2>13, WorkerRests
<1>4. CASE ~(hChan.state = "replied" /\ hChan.session = hProto.session)
  <2>1. PICK o \in Cable!Fail(hProto, hChan, "cancelled") : Cable!Worker({o})
      BY <1>4 DEF Cable!TakeReply, Cable!Worker
  <2>2. PICK f \in Letters : f.op = "fail" /\ f.status = "cancelled" /\ Outcome(o, hProto, hChan, f)
      BY <1>1, FailsSay DEF Cable!Statuses
  <2>3. /\ SessionRests /\ hProto' \in Protocols /\ WorksOn /\ SlotKept
        /\ hToHost' = hToHost \/ hToHost' = Append(hToHost, f)
      BY <2>1, <2>2, Worked
  <2>4. hProto'.lastId = hProto.lastId
      BY <2>1, <2>2 DEF Outcome, Cable!Worker
  <2>5. MaySay(f)
      BY <2>2 DEF MaySay, Harmless
  <2>6. Waiting => hProto'.lastId <= hClient.id /\ (hToDevice' # << >> => hProto'.lastId < hClient.id)
      BY <1>2, <2>4 DEF HostInv, WaitInv, Calm
  <2> QED
      BY <1>2, <2>3, <2>5, <2>6, WorkerRests
<1> QED
    BY <1>3, <1>4

LEMMA NothingGreets ==
    ASSUME HostInv, hToDevice # << >> \/ ~hProto.binary
    PROVE  NoGreeting
BY DEF HostInv, LineInv, NoGreeting

LEMMA GreetingIs ==
    ASSUME NEW n \in Nat
    PROVE  LET g == Cable!Frame("greeting", 0, n) IN
           g \in Letters /\ g.op = "greeting" /\ g.session = n
<1> DEFINE g == Cable!Frame("greeting", 0, n)
<1>1. g \in Letters /\ g.op = "greeting" /\ g.session = n
    BY LetterIs
<1> QED
    BY <1>1

\* The host command opens a session that nothing was seen of before.
LEMMA Connects ==
    ASSUME HostInv, SessionRests, ~hProto.binary, hChan.session = 0, hChan.state = "idle",
           \E i \in 1..Len(hToDevice) : hToDevice[i].op = "start",
           NEW n, n = hChan.next + 1,
           hChan' = [hChan EXCEPT !.next = n, !.session = n],
           hProto' = [hProto EXCEPT !.binary = TRUE, !.session = n, !.lastId = 0,
                                    !.pending = FALSE, !.failed = FALSE, !.mute = FALSE],
           NEW g, g = Cable!Frame("greeting", 0, n),
           hToHost' = Append(hToHost, g), hToDevice' = << >>
    PROVE  HostInv'
<1> USE DEF HostInv
<1>1. /\ hToHost \in Seq(Letters) /\ hProto \in Protocols /\ hChan \in Channels
      /\ hSess \in Sittings
    BY DEF HostTypes
<1>2. n \in Nat /\ hChan.next \in Nat /\ n > hChan.next /\ n # 0
    BY <1>1 DEF Channels
<1>3. /\ hChan' \in Channels /\ hChan'.session = n /\ hChan'.next = n /\ hChan'.state = "idle"
      /\ hChan'.slot = hChan.slot
    BY <1>1, <1>2 DEF Channels
<1>4. /\ hProto' \in Protocols /\ hProto'.binary /\ hProto'.session = n /\ hProto'.lastId = 0
      /\ ~hProto'.pending
    BY <1>1, <1>2 DEF Protocols
<1>5. g \in Letters /\ g.op = "greeting" /\ g.session = n
    BY <1>2, GreetingIs
<1>6. /\ hToHost' \in Seq(Letters) /\ Len(hToHost') = Len(hToHost) + 1 /\ Len(hToHost) \in Nat
      /\ hToHost'[Len(hToHost) + 1] = g
      /\ \A k \in 1..Len(hToHost) : hToHost'[k] = hToHost[k]
    BY <1>1, <1>5, Added
<1>7. hToDevice' \in Seq(Letters) /\ Len(hToDevice') = 0
    OBVIOUS
<1>8. HostTypes'
    BY <1>3, <1>4, <1>6, <1>7 DEF HostTypes, SessionRests
<1>9. HandleInv'
    BY DEF HandleInv, SessionRests
<1>10. hSess.at \notin {"executing", "reply"} /\ hSess.seen <= hChan.next
    BY DEF SlotInv
<1>11. SlotInv'
  <2>1. hSess.seen < n /\ hSess.seen \in Nat
      BY <1>1, <1>2, <1>10 DEF Sittings
  <2> QED
      BY <1>2, <1>3, <1>4, <1>10, <2>1 DEF SlotInv, SessionRests
<1>12. hClient.phase \in {"off", "connecting"} /\ ~Waiting
    BY DEF LineInv, Waiting
<1>13. LineInv'
  <2>1. ASSUME NEW i \in 1..Len(hToHost'), hToHost'[i].op = "greeting"
        PROVE  i = Len(hToHost) + 1
    <3>1. NoGreeting
        BY NothingGreets
    <3> QED
        BY <1>6, <2>1, <3>1 DEF NoGreeting
  <2>2. ASSUME NEW i \in 1..Len(hToHost'), hToHost'[i].op = "greeting"
        PROVE  /\ hProto'.binary /\ hProto'.lastId = 0 /\ hToHost'[i].session = hProto'.session
               /\ hToDevice' = << >> /\ hClient'.phase \in {"off", "connecting"}
               /\ \A j \in 1..Len(hToHost') : j > i => FALSE
      BY <1>4, <1>5, <1>6, <1>12, <2>1, <2>2 DEF SessionRests
  <2> QED
      BY <1>7, <2>2 DEF LineInv
<1>14. NoneBorn /\ Eased
    BY <1>3, <1>7, <1>10 DEF NoneBorn, Eased, SessionRests, Lives
<1>15. LiveInv' /\ SaveInv'
    BY <1>14, LiveStays, SaveStays DEF SessionRests
<1>16. WaitInv'
    BY <1>12 DEF WaitInv, Waiting, SessionRests
<1> QED
    BY <1>8, <1>9, <1>11, <1>13, <1>15, <1>16

LEMMA ReadTextSits ==
    ASSUME HostInv, Cable!ReadText
    PROVE  HostInv'
<1> DEFINE f == Head(hToDevice)
           refused == Cable!Frame("refused", 0, 0)
<1>1. ~hProto.binary /\ hToDevice # << >> /\ SessionRests
    BY DEF Cable!ReadText, SessionRests
<1>2. /\ hToDevice \in Seq(Letters) /\ hProto \in Protocols /\ hChan \in Channels
    BY DEF HostInv, HostTypes
<1>3. ~Waiting
    BY <1>1 DEF HostInv, WaitInv, Calm
<1>4. NoGreeting
    BY <1>1, NothingGreets
<1>5. CASE f.op # "start" \/ ~Cable!CanConnect(hChan)
  <2>1. /\ UNCHANGED <<hProto, hChan>> /\ hToDevice' = Tail(hToDevice)
        /\ hToHost' = hToHost \/ hToHost' = Append(hToHost, refused)
      BY <1>5 DEF Cable!ReadText
  <2>2. refused \in Letters /\ refused.op = "refused"
      BY LetterIs, SMTT(30)
  <2> HIDE DEF refused
  <2>3. MaySay(refused)
      BY <1>3, <1>4, <2>2 DEF MaySay
  <2>4. WorksOn /\ SlotKept
      BY <1>2, <2>1 DEF WorksOn, SlotKept
  <2>5. hProto' \in Protocols
      BY <1>2, <2>1
  <2> QED
      BY <1>1, <1>3, <2>1, <2>3, <2>4, <2>5, WorkerRests
<1>6. CASE f.op = "start" /\ Cable!CanConnect(hChan)
  <2> DEFINE n == hChan.next + 1
             g == Cable!Frame("greeting", 0, n)
  <2>1. /\ hChan' = [hChan EXCEPT !.next = @ + 1, !.session = n]
        /\ hProto' = [hProto EXCEPT !.binary = TRUE, !.session = n, !.lastId = 0,
                                    !.pending = FALSE, !.failed = FALSE, !.mute = FALSE]
        /\ hToHost' = Append(hToHost, g) /\ hToDevice' = << >>
      BY <1>6 DEF Cable!ReadText
  <2>2. hChan' = [hChan EXCEPT !.next = n, !.session = n]
      BY <1>2, <2>1
  <2>3. hChan.session = 0 /\ hChan.state = "idle"
      BY <1>6 DEF Cable!CanConnect
  <2>4. \E i \in 1..Len(hToDevice) : hToDevice[i].op = "start"
      BY <1>1, <1>2, <1>6, Taken
  <2>5. n = hChan.next + 1 /\ g = Cable!Frame("greeting", 0, n)
      OBVIOUS
  <2> HIDE DEF f, n, g
  <2> QED
      BY <1>1, <2>1, <2>2, <2>3, <2>4, <2>5, Connects
<1> QED
    BY <1>5, <1>6

\* A request of the session is put into the slot.
LEMMA Submits ==
    ASSUME HostInv, SessionRests, hProto.binary, hToDevice # << >>,
           NEW f, f = Head(hToDevice), f.op \in Orders, f.id > hProto.lastId,
           f.session = hProto.session,
           f.session = hChan.session, hChan.state = "idle",
           hProto' = [hProto EXCEPT !.lastId = f.id, !.pending = TRUE],
           hChan' = [hChan EXCEPT !.slot = f, !.state = "queued"],
           hToHost' = hToHost, hToDevice' = Tail(hToDevice)
    PROVE  HostInv'
<1> USE DEF HostInv
<1>1. /\ hToDevice \in Seq(Letters) /\ hToHost \in Seq(Letters) /\ hProto \in Protocols
      /\ hChan \in Channels /\ hProto.lastId \in Nat /\ hClient \in Clients
    BY DEF HostTypes, Protocols
<1>2. /\ f \in Letters /\ f = hToDevice[1] /\ hToDevice' \in Seq(Letters)
      /\ Len(hToDevice) \in Nat \ {0} /\ Len(hToDevice') = Len(hToDevice) - 1
      /\ \A i \in 1..Len(hToDevice') : hToDevice'[i] = hToDevice[i + 1] /\ i + 1 \in 1..Len(hToDevice)
    BY <1>1, Taken
<1>3. f.id \in Nat /\ f.id # 0
    BY <1>1, <1>2 DEF Letters
<1>4. /\ hProto' \in Protocols /\ hProto'.binary /\ hProto'.session = hProto.session
      /\ hProto'.lastId = f.id
    BY <1>1, <1>3 DEF Protocols
<1>5. /\ hChan' \in Channels /\ hChan'.slot = f /\ hChan'.state = "queued"
      /\ hChan'.session = hChan.session /\ hChan'.next = hChan.next
    BY <1>1, <1>2 DEF Channels
<1>6. \A i \in 1..Len(hToDevice') : hToDevice'[i].op \notin Orders
  <2> SUFFICES ASSUME NEW i \in 1..Len(hToDevice'), hToDevice'[i].op \in Orders
               PROVE  FALSE
      OBVIOUS
  <2>1. hToDevice'[i] = hToDevice[i + 1] /\ i + 1 \in 1..Len(hToDevice) /\ 1 \in 1..Len(hToDevice)
      BY <1>2
  <2>2. i + 1 = 1
      BY <1>2, <2>1 DEF LineInv
  <2> QED
      BY <2>2
<1>7. hSess.at \notin {"executing", "reply"}
    BY DEF SlotInv
<1>8. Lives(f) /\ \A g : Lives(g)' => g = f
  <2>1. Lives(f)
      BY <1>2 DEF Lives
  <2>2. \A g : Lives(g)' => g = f
      BY <1>5, <1>6, <1>7 DEF Lives, SessionRests
  <2> QED
      BY <2>1, <2>2
<1>9. \A g : Replies(g)' => Replies(g)
    BY <1>5, <1>7 DEF Replies, SessionRests
<1>10. NoneBorn /\ Eased
    BY <1>8 DEF NoneBorn, Eased, SessionRests
<1>11. LiveInv' /\ SaveInv'
    BY <1>10, LiveStays, SaveStays DEF SessionRests
<1>12. HostTypes' /\ HandleInv'
    BY <1>1, <1>2, <1>4, <1>5 DEF HostTypes, HandleInv, SessionRests
<1>13. SlotInv'
    BY <1>3, <1>4, <1>5, <1>7 DEF SlotInv, SessionRests
<1>14. NoGreeting
    BY NothingGreets
<1>15. LineInv'
  <2>1. \A i \in 1..Len(hToDevice') :
            /\ hToDevice'[i].op \in {"start", "cut", "close"}
            /\ hToDevice'[i].op = "start" => hClient'.phase \in {"off", "connecting"}
                                             /\ hToDevice'[i].session = 0
      BY <1>2, <1>6 DEF LineInv, SessionRests
  <2> QED
      BY <1>6, <1>14, <2>1 DEF LineInv, NoGreeting
<1>16. ASSUME Waiting'
       PROVE  Calm' /\ Answers' /\ GotInv'
  <2>1. Waiting /\ Calm /\ Answers /\ GotInv
      BY <1>16 DEF Waiting, SessionRests, WaitInv
  <2>2. Answers' /\ GotInv'
      BY <1>9, <1>10, <2>1, AnswersStay DEF GotInv, SessionRests
  <2>3. Asked(f)
      BY <1>8, <2>1 DEF LiveInv, IsAsked
  <2>9. \A i \in 1..Len(hToDevice') : FALSE
      BY <1>2, <1>6, <2>1 DEF Calm
  <2>4. hToDevice' = << >>
      BY <1>2, <2>9, Taken
  <2>5. hProto'.lastId = hClient'.id /\ hClient'.id \in Nat
      BY <1>1, <1>4, <2>3 DEF Asked, SessionRests, Clients
  <2>6. ASSUME NEW i \in 1..Len(hToHost)
        PROVE  ~(hToHost[i].op \in Orders /\ Asked(hToHost[i]))
    <3>1. SUFFICES ASSUME hToHost[i].op \in Orders, Asked(hToHost[i])
                   PROVE  FALSE
        OBVIOUS
    <3>2. Replies(hToHost[i])
        BY <3>1 DEF Replies
    <3>3. \A g : ~Lives(g)
        BY <2>1, <3>1, <3>2 DEF Answers
    <3> QED
        BY <1>8, <3>3
  <2>7. ASSUME NEW i \in 1..Len(hToHost')
        PROVE  /\ hToHost'[i].op \in Orders \/ Harmless(hToHost'[i])
               /\ ~(hToHost'[i].op \in Orders /\ Asked(hToHost[i])')
      BY <2>1, <2>6 DEF Calm, Asked, SessionRests
  <2>8. (hSess.seen = hClient.session => Holds(hClient.tag, hClient.name))'
    <3>1. hSess.seen = hClient.session => Holds(hClient.tag, hClient.name)
        BY <2>1 DEF Calm
    <3> QED
        BY <3>1 DEF SessionRests, Holds
  <2>10. /\ hProto'.binary /\ hClient'.session = hProto'.session
         /\ hClient'.step \in 1..Steps(hClient'.kind)
      BY <1>4, <2>1 DEF Calm, SessionRests
  <2>11. Calm'
      BY <2>4, <2>5, <2>7, <2>8, <2>9, <2>10 DEF Calm, Harmless
  <2> QED
      BY <2>2, <2>11
<1>17. WaitInv'
    BY <1>16 DEF WaitInv
<1> QED
    BY <1>11, <1>12, <1>13, <1>15, <1>17

\* A request that is not put there is answered at once.
LEMMA Refuses ==
    ASSUME HostInv, hProto.binary, ~hProto.pending, hToDevice # << >>,
           NEW f, f = Head(hToDevice), f.op \in Orders, f.id > hProto.lastId,
           f.session = hProto.session, NEW status \in {"cancelled", "busy"},
           NEW q, q = [hProto EXCEPT !.lastId = f.id], NEW o,
           Outcome(o, q, hChan, [f EXCEPT !.status = status]), Cable!Worker({o}),
           hToDevice' = Tail(hToDevice)
    PROVE  HostInv'
<1> DEFINE g == [f EXCEPT !.status = status]
<1>1. /\ hToDevice \in Seq(Letters) /\ hToHost \in Seq(Letters) /\ hProto \in Protocols
      /\ hChan \in Channels /\ hProto.lastId \in Nat /\ hClient \in Clients
    BY DEF HostInv, HostTypes, Protocols
<1>2. /\ f \in Letters /\ f = hToDevice[1] /\ hToDevice' \in Seq(Letters)
      /\ Len(hToDevice) \in Nat \ {0} /\ Len(hToDevice') = Len(hToDevice) - 1
      /\ \A i \in 1..Len(hToDevice') : hToDevice'[i] = hToDevice[i + 1] /\ i + 1 \in 1..Len(hToDevice)
    BY <1>1, Taken
<1>3. f.id \in Nat
    BY <1>2 DEF Letters
<1>4. /\ g \in Letters /\ g.op = f.op /\ g.id = f.id /\ g.session = f.session /\ g.status = status
    BY <1>2 DEF Letters, Cable!Statuses, Cable!Results
<1> HIDE DEF g
<1>5. /\ q \in Protocols /\ q.binary = hProto.binary /\ q.session = hProto.session
      /\ q.lastId = f.id
    BY <1>1, <1>3 DEF Protocols
<1>6. /\ hProto' = o[1] /\ hChan' = o[2] /\ hToHost' = o[3] /\ SessionRests
    BY DEF Cable!Worker, SessionRests
<1>7. Outcome(o, q, hChan, g)
    BY DEF g
<1>8. /\ hProto' \in Protocols /\ hProto'.binary = hProto.binary
      /\ hProto'.session = hProto.session /\ hProto'.lastId = f.id
    BY <1>5, <1>6, <1>7 DEF Outcome
<1>9. SlotKept
    BY <1>6, <1>7 DEF Outcome, SlotKept
<1>10. hToHost' = hToHost \/ hToHost' = Append(hToHost, g)
    BY <1>6, <1>7 DEF Outcome
<1>11. NoGreeting
    BY NothingGreets
<1>12. hChan.state = "idle" /\ hSess.at \notin {"executing", "reply"}
    BY <1>2 DEF HostInv, LineInv, SlotInv
<1>13. hChan'.state = "idle"
    BY <1>9, <1>12 DEF SlotKept
<1>14. \A i \in 1..Len(hToDevice') : hToDevice'[i].op \notin Orders
  <2> SUFFICES ASSUME NEW i \in 1..Len(hToDevice'), hToDevice'[i].op \in Orders
               PROVE  FALSE
      OBVIOUS
  <2>1. hToDevice'[i] = hToDevice[i + 1] /\ i + 1 \in 1..Len(hToDevice) /\ 1 \in 1..Len(hToDevice)
      BY <1>2
  <2>2. i + 1 = 1
      BY <1>2, <2>1 DEF HostInv, LineInv
  <2> QED
      BY <2>2
<1>15. Lives(f) /\ \A h : ~Lives(h)'
  <2>1. Lives(f)
      BY <1>2 DEF Lives
  <2>2. \A h : ~Lives(h)'
      BY <1>6, <1>12, <1>13, <1>14 DEF Lives, SessionRests
  <2> QED
      BY <2>1, <2>2
<1>16. WorksOn
    BY <1>1, <1>3, <1>8, <1>11 DEF WorksOn
<1>17. ASSUME Waiting
       PROVE  /\ IsAsked(f) /\ hToDevice' = << >> /\ hProto'.lastId <= hClient.id
              /\ ~Done
  <2>1. IsAsked(f)
      BY <1>15, <1>17 DEF HostInv, LiveInv
  <2>2. Calm
      BY <1>17 DEF HostInv, WaitInv
  <2>3. hToDevice' = << >>
    <3>1. \A i \in 1..Len(hToDevice') : FALSE
        BY <1>2, <1>14, <2>2 DEF Calm
    <3> QED
        BY <1>2, <3>1, Taken
  <2>4. hProto'.lastId <= hClient.id
      BY <1>1, <1>8, <2>1 DEF IsAsked, Asked, Clients
  <2>5. ~Done
    <3>1. hClient.outcome = "none"
        BY <1>17, WaitingIs
    <3> QED
        BY <1>15, <3>1 DEF HostInv, SaveInv
  <2> QED
      BY <2>1, <2>3, <2>4, <2>5
<1>18. Waiting => Past(g) /\ Answer(g)
    BY <1>1, <1>4, <1>17 DEF Past, Answer, IsAsked, Asked, Clients
<1>19. MaySay(g)
    BY <1>4, <1>11, <1>13, <1>15, <1>18 DEF MaySay, Orders
<1> QED
    BY <1>6, <1>8, <1>9, <1>10, <1>16, <1>17, <1>19, WorkerRests

\* The worker reads a frame: it was cut, it closes the session, or it is a request.
LEMMA ReadBinarySits ==
    ASSUME HostInv, Cable!ReadBinary
    PROVE  HostInv'
<1> DEFINE f == Head(hToDevice)
           p == hProto
           c == hChan
           q == [p EXCEPT !.lastId = f.id]
           d == Cable!Disconnect(c, q.session)
           r == IF q.failed THEN <<"cancelled", c>> ELSE Cable!Submit(c, f)
<1>1. hProto.binary /\ ~hProto.pending /\ hToDevice # << >>
    BY DEF Cable!ReadBinary
<1>2. PICK o \in Cable!Receive(p, c, f) : Cable!Worker({o})
    BY DEF Cable!ReadBinary, Cable!Worker
<1>3. /\ hToDevice' = IF hProto'.binary THEN Tail(hToDevice) ELSE << >>
      /\ hProto' = o[1] /\ hChan' = o[2] /\ hToHost' = o[3] /\ SessionRests
    BY <1>2 DEF Cable!ReadBinary, Cable!Worker, SessionRests
<1>4. /\ p \in Protocols /\ c \in Channels /\ hToDevice \in Seq(Letters)
      /\ p.lastId \in Nat /\ p.session \in Nat
    BY DEF HostInv, HostTypes, Protocols
<1>5. f = hToDevice[1] /\ f \in Letters /\ 1 \in 1..Len(hToDevice)
    BY <1>1, <1>4, Taken
<1>6. NoGreeting
    BY <1>1, NothingGreets
<1>7. f.op \in Orders \cup {"start", "cut", "close"} /\ (f.op = "start" => f.session = 0)
    BY <1>5 DEF HostInv, LineInv
<1>8. f.id \in Nat /\ f.op \in Orders => Lives(f)
    BY <1>5 DEF Lives, Letters
<1>9. Waiting => f.op \in Orders /\ f.session = hProto.session /\ f.id > hProto.lastId
  <2> SUFFICES ASSUME Waiting
               PROVE  f.op \in Orders /\ f.session = hProto.session /\ f.id > hProto.lastId
      OBVIOUS
  <2>1. Calm
      BY DEF HostInv, WaitInv
  <2>2. /\ f.op \in Orders /\ hProto.lastId < hClient.id
        /\ hClient.session = hProto.session
      BY <1>1, <1>5, <2>1 DEF Calm
  <2>3. IsAsked(f)
      BY <1>5, <2>2 DEF HostInv, LiveInv, Lives
  <2> QED
      BY <2>2, <2>3 DEF IsAsked, Asked
<1>10. f.id \in Nat
    BY <1>5 DEF Letters
<1>11. /\ q \in Protocols /\ q.binary = p.binary /\ q.session = p.session /\ q.lastId = f.id
       /\ q.failed = p.failed /\ q.pending = p.pending
    BY <1>4, <1>10 DEF Protocols
<1> HIDE DEF f
<1>12. CASE f.op = "cut" \/ f.session # p.session \/ f.id <= p.lastId
  <2>1. ~Waiting
      BY <1>4, <1>9, <1>10, <1>12 DEF Orders
  <2>2. o \in Cable!Fail(p, c, "invalid")
      BY <1>2, <1>12 DEF Cable!Receive
  <2>3. PICK g \in Letters : g.op = "fail" /\ g.status = "invalid" /\ Outcome(o, p, c, g)
      BY <1>4, <2>2, FailsSay DEF Cable!Statuses, Cable!Results
  <2>4. /\ SessionRests /\ hProto' \in Protocols /\ WorksOn /\ SlotKept
        /\ hToHost' = hToHost \/ hToHost' = Append(hToHost, g)
      BY <1>2, <2>3, Worked
  <2>5. MaySay(g)
      BY <1>6, <2>1, <2>3 DEF MaySay
  <2> QED
      BY <1>1, <1>3, <2>1, <2>4, <2>5, WorkerRests
<1>13. CASE ~(f.op = "cut" \/ f.session # p.session \/ f.id <= p.lastId) /\ f.op = "close"
  <2>1. ~Waiting
      BY <1>9, <1>13 DEF Orders
  <2>2. o \in {<<IF s[1].mute THEN s[1] ELSE Cable!EndsBinary(s[1]), s[2], s[3]>> :
                 s \in Cable!Sends(q, d, f)}
      BY <1>2, <1>13 DEF Cable!Receive
  <2>3. /\ d \in Channels /\ d.slot = c.slot /\ d.next = c.next
        /\ d.state = c.state \/ (d.state = "idle" /\ c.state # "executing")
        /\ d.session = IF q.session # 0 /\ q.session = c.session THEN 0 ELSE c.session
        /\ d = c \/ (d.session = 0 /\ d.state \in {"idle", "executing"})
      BY <1>4, Disconnects
  <2> HIDE DEF p, c, q, d, r
  <2>4. PICK s \in Cable!Sends(q, d, f) :
           o = <<IF s[1].mute THEN s[1] ELSE Cable!EndsBinary(s[1]), s[2], s[3]>>
      BY <2>2
  <2>5. Outcome(s, q, d, f)
      BY <1>11, <2>3, SendsSay
  <2>6. /\ hProto' = IF s[1].mute THEN s[1] ELSE Cable!EndsBinary(s[1])
        /\ hChan' = s[2] /\ hToHost' = s[3]
      BY <1>3, <2>4
  <2>7. hToHost' = hToHost \/ hToHost' = Append(hToHost, f)
      BY <2>5, <2>6 DEF Outcome
  <2>8. MaySay(f)
      BY <1>5, <1>6, <1>13, <2>1 DEF MaySay
  <2>9. hProto.session # 0 /\ (hChan.session # 0 => hChan.session = hProto.session)
      BY <1>1 DEF HostInv, SlotInv
  <2>10. hChan'.session = 0
      BY <1>11, <2>3, <2>5, <2>6, <2>9 DEF Outcome, p, c
  <2>11. SlotKept
    <3>1. /\ s[2] \in Channels /\ s[2].slot = d.slot /\ s[2].next = d.next
          /\ s[2].state = d.state \/ (s[2].state = "idle" /\ d.state # "executing")
          /\ s[2].state = "queued" => s[2].session = d.session
        BY <2>5 DEF Outcome
    <3>2. /\ hChan' \in Channels /\ hChan'.next = hChan.next /\ hChan'.slot = hChan.slot
          /\ hChan'.session \in {0, hChan.session}
          /\ hChan'.state = hChan.state \/ (hChan'.state = "idle" /\ hChan.state # "executing")
        BY <2>3, <2>6, <2>10, <3>1 DEF c
    <3>3. hChan'.state = "queued" => hChan'.session = hChan.session
        BY <2>3, <2>6, <3>1 DEF c
    <3> QED
        BY <3>2, <3>3 DEF SlotKept
  <2>12. CASE s[1].mute
    <3>1. hProto' = s[1]
        BY <2>6, <2>12
    <3>2. /\ hProto' \in Protocols /\ hProto'.binary = q.binary /\ hProto'.session = q.session
          /\ hProto'.lastId = q.lastId /\ (hProto'.pending => q.pending)
        BY <2>5, <3>1 DEF Outcome
    <3>3. f.id > hProto.lastId
        BY <1>4, <1>10, <1>13 DEF p
    <3>4. WorksOn
        BY <1>6, <1>11, <3>2, <3>3 DEF WorksOn, p
    <3> QED
        BY <1>1, <1>3, <2>1, <2>7, <2>8, <2>11, <3>2, <3>4, WorkerRests
  <2>13. CASE ~s[1].mute
    <3>1. hProto' = Cable!EndsBinary(s[1])
        BY <2>6, <2>13
    <3>2. hProto' \in Protocols /\ ~hProto'.binary /\ hProto'.session = 0
        BY <3>1 DEF Cable!EndsBinary, Protocols
    <3>3. hToDevice' = << >>
        BY <1>3, <3>2
    <3>4. Quits
        BY <1>6, <2>1, <2>10, <3>2, <3>3 DEF Quits
    <3> QED
        BY <1>3, <2>1, <2>7, <2>8, <2>11, <3>2, <3>3, <3>4, WorkerRests
  <2> QED
      BY <2>12, <2>13
<1>14. CASE ~(f.op = "cut" \/ f.session # p.session \/ f.id <= p.lastId) /\ f.op # "close"
  <2>1. f.op \in Orders /\ f.session = hProto.session /\ f.id > hProto.lastId
    <3>1. f.session = hProto.session /\ f.id > hProto.lastId /\ f.op \notin {"cut", "close"}
        BY <1>4, <1>10, <1>14
    <3>2. hProto.session # 0
        BY <1>1 DEF HostInv, SlotInv
    <3> QED
        BY <1>7, <3>1, <3>2
  <2>2. o \in IF r[1] = "ok" THEN {<<[q EXCEPT !.pending = TRUE], r[2], hToHost>>}
              ELSE Cable!Sends(q, r[2], [f EXCEPT !.status = r[1]])
      BY <1>2, <1>14 DEF Cable!Receive
  <2>3. \/ /\ r[1] = "ok" /\ f.session = c.session /\ c.state = "idle"
           /\ r[2] = [c EXCEPT !.slot = f, !.state = "queued"]
        \/ r[1] \in {"cancelled", "busy"} /\ r[2] = c
      BY DEF Cable!Submit
  <2> HIDE DEF p, c, q, d, r
  <2>4. CASE r[1] = "ok"
    <3>1. o = <<[q EXCEPT !.pending = TRUE], r[2], hToHost>>
        BY <2>2, <2>4
    <3>2. hProto' = [q EXCEPT !.pending = TRUE] /\ hChan' = r[2] /\ hToHost' = hToHost
        BY <1>3, <3>1
    <3>3. /\ f.session = hChan.session /\ hChan.state = "idle"
          /\ hChan' = [hChan EXCEPT !.slot = f, !.state = "queued"]
        BY <2>3, <2>4, <3>2 DEF c
    <3>4. hProto' = [hProto EXCEPT !.lastId = f.id, !.pending = TRUE]
        BY <1>4, <3>2 DEF q, p, Protocols
    <3>5. hProto'.binary
        BY <1>1, <1>4, <3>4 DEF p, Protocols
    <3>6. hToDevice' = Tail(hToDevice)
        BY <1>3, <3>5
    <3>7. f = Head(hToDevice)
        BY DEF f
    <3> QED
        BY <1>1, <1>3, <2>1, <3>2, <3>3, <3>4, <3>6, <3>7, Submits
  <2>5. CASE r[1] # "ok"
    <3> DEFINE status == r[1]
               g == [f EXCEPT !.status = status]
    <3>1. status \in {"cancelled", "busy"} /\ r[2] = c
        BY <2>3, <2>5
    <3>2. o \in Cable!Sends(q, c, g)
        BY <2>2, <2>5, <3>1
    <3>3. Outcome(o, q, c, g)
        BY <1>4, <1>11, <3>2, SendsSay
    <3>4. hProto'.binary
        BY <1>1, <1>3, <1>11, <3>3 DEF Outcome, p
    <3>5. hToDevice' = Tail(hToDevice)
        BY <1>3, <3>4
    <3>6. f = Head(hToDevice) /\ q = [hProto EXCEPT !.lastId = f.id]
        BY DEF f, q, p
    <3> HIDE DEF status
    <3>7. Outcome(o, q, hChan, [f EXCEPT !.status = status])
        BY <3>3 DEF c
    <3> QED
        BY <1>1, <1>2, <2>1, <3>1, <3>5, <3>6, <3>7, Refuses
  <2> QED
      BY <2>4, <2>5
<1> QED
    BY <1>12, <1>13, <1>14

-----------------------------------------------------------------------------
(* The cable is pulled, and the device starts again.                       *)

CutOff == Cable!CutOff

\* What is left of a command that was cut off.
LEMMA CutsOff ==
    ASSUME HostInv, hClient' = Cable!Off(hClient, CutOff),
           hStore'.files = hStore.files, hRemoval' = hRemoval, NoneBorn, Eased
    PROVE  hClient' \in Clients /\ hClient'.phase = "off" /\ LiveInv' /\ WaitInv' /\ SaveInv'
<1> USE DEF HostInv
<1>1. hClient \in Clients
    BY DEF HostTypes
<1>2. /\ CutOff = IF hClient.outcome = "none" /\ hClient.phase # "off" THEN "unknown"
                  ELSE hClient.outcome
      /\ CutOff \in {"none", "ok", "refused", "unknown", "failed", "landed"}
    BY <1>1 DEF CutOff, Cable!CutOff, Clients
<1>3. /\ hClient' \in Clients /\ hClient'.phase = "off" /\ hClient'.outcome = CutOff
      /\ hClient'.kind = hClient.kind /\ hClient'.tag = hClient.tag
      /\ hClient'.name = hClient.name /\ hClient'.left = hClient.left
      /\ hClient'.got = hClient.got
    BY <1>1, <1>2, OffIs
<1>4. ~Waiting' /\ WaitInv'
    BY <1>3 DEF Waiting, WaitInv
<1>5. LiveInv'
  <2> SUFFICES ASSUME NEW f, Lives(f)'
               PROVE  /\ f.tag \notin hClient'.left
                      /\ f.op \in {"begin", "chunk", "commit"} => f.tag \in Attempts
                      /\ f.name \in Books /\ f.session # 0 /\ hClient'.outcome # "ok"
                      /\ Decides(f)' => hClient'.outcome = "unknown"
                      /\ hSess'.seen = f.session => Holds(f.tag, f.name)'
      BY <1>4 DEF LiveInv
  <2>1. Lives(f)
      BY DEF NoneBorn
  <2>2. /\ f.tag \notin hClient.left /\ (f.op \in {"begin", "chunk", "commit"} => f.tag \in Attempts)
        /\ f.name \in Books /\ f.session # 0 /\ hClient.outcome # "ok"
        /\ Decides(f) => Waiting \/ hClient.outcome = "unknown"
      BY <2>1 DEF LiveInv
  <2>3. Waiting => hClient.outcome = "none" /\ hClient.phase # "off"
      BY DEF SaveInv, Waiting
  <2>4. hSess.seen = f.session => Holds(f.tag, f.name)
      BY <2>1 DEF LiveInv
  <2>5. hSess'.seen = f.session => Holds(f.tag, f.name)'
      BY <2>4, HoldsStays
  <2>6. Decides(f)' = Decides(f)
      BY <1>3 DEF Decides
  <2> QED
      BY <1>2, <1>3, <2>2, <2>3, <2>5, <2>6
<1>6. SaveInv'
  <2>1. Done' = Done /\ Delivered' = Delivered
      BY <1>3 DEF Done, Delivered, Saved
  <2>2. Done => CutOff \in {"ok", "unknown", "landed"}
      BY <1>2 DEF SaveInv, Waiting
  <2>3. hClient.kind = "put" /\ CutOff # "none" => hClient.tag \in Attempts
      BY <1>2 DEF SaveInv
  <2>4. CutOff = "ok" => hClient.outcome = "ok"
      BY <1>2
  <2> QED
      BY <1>3, <1>4, <2>1, <2>2, <2>3, <2>4 DEF SaveInv
<1> QED
    BY <1>3, <1>4, <1>5, <1>6

LEMMA ReplugSits ==
    ASSUME HostInv, Cable!Replug
    PROVE  HostInv'
<1> DEFINE d == Cable!Disconnect(hChan, hProto.session)
<1>1. /\ hProto' = Cable!EndsBinary(hProto) /\ hChan' = d
      /\ hToDevice' = << >> /\ hToHost' = << >>
      /\ hClient' = Cable!Off(hClient, CutOff) /\ UNCHANGED <<hSess, hStore, hOther, hRemoval>>
    BY DEF Cable!Replug, CutOff
<1>2. hChan \in Channels /\ hProto \in Protocols
    BY DEF HostInv, HostTypes
<1>3. /\ d \in Channels /\ d.slot = hChan.slot /\ d.next = hChan.next
      /\ d.state = hChan.state \/ (d.state = "idle" /\ hChan.state # "executing")
      /\ d.session = IF hProto.session # 0 /\ hProto.session = hChan.session THEN 0 ELSE hChan.session
      /\ d = hChan \/ (d.session = 0 /\ d.state \in {"idle", "executing"})
    BY <1>2, Disconnects
<1> HIDE DEF d
<1>4. hProto' \in Protocols /\ ~hProto'.binary /\ hProto'.session = 0
    BY <1>1 DEF Cable!EndsBinary, Protocols
<1>5. Len(hToDevice') = 0 /\ hToDevice' \in Seq(Letters) /\ hToHost' \in Seq(Letters)
      /\ Len(hToHost') = 0
    BY <1>1
<1>6. NoneBorn /\ Eased
    BY <1>1, <1>3, <1>5 DEF NoneBorn, Eased, Lives
<1>7. hClient' \in Clients /\ LiveInv' /\ WaitInv' /\ SaveInv'
    BY <1>1, <1>6, CutsOff
<1>8. HostTypes'
    BY <1>1, <1>3, <1>4, <1>5, <1>7 DEF HostInv, HostTypes
<1>9. LineInv'
    BY <1>5 DEF LineInv
<1>10. HandleInv'
    BY <1>1 DEF HostInv, HandleInv
<1>11. SlotInv'
  <2>1. hChan'.session = 0
    <3>1. hChan.session # 0 => hChan.session = hProto.session
        BY DEF HostInv, SlotInv
    <3> QED
        BY <1>1, <1>3, <3>1
  <2>2. hChan'.state = "queued" => hChan'.slot.op \in Orders /\ hChan'.slot.session = hChan'.session
      BY <1>1, <1>3 DEF HostInv, SlotInv
  <2>3. hProto'.session <= hChan'.next /\ hSess'.seen <= hChan'.next
      BY <1>1, <1>2, <1>3, <1>4 DEF HostInv, SlotInv, Channels
  <2> QED
      BY <1>1, <1>3, <1>4, <2>1, <2>2, <2>3 DEF HostInv, SlotInv
<1> QED
    BY <1>7, <1>8, <1>9, <1>10, <1>11 DEF HostInv

\* A session that has not begun.
LEMMA SessionOff ==
    ASSUME NEW s, s = [on |-> FALSE, at |-> "idle", seen |-> 0, request |-> Cable!NoFrame,
                       reply |-> Cable!NoFrame, state |-> "waiting", up |-> Cable!NoUpload,
                       file |-> NoValue, transferred |-> 0]
    PROVE  /\ s \in Sittings /\ ~s.on /\ s.at = "idle" /\ s.seen = 0 /\ ~s.up.owner
           /\ s.file = NoValue
<1>1. Cable!NoUpload \in Handles /\ ~Cable!NoUpload.owner
    BY DEF Handles, Cable!NoUpload
<1>2. Cable!NoFrame \in Letters
    BY LetterIs DEF Cable!NoFrame
<1> QED
    BY <1>1, <1>2 DEF Sittings

LEMMA WorkerOff ==
    ASSUME NEW p, p = [binary |-> FALSE, session |-> 0, lastId |-> 0, pending |-> FALSE,
                       failed |-> FALSE, mute |-> FALSE],
           NEW c, c = [enabled |-> FALSE, session |-> 0, next |-> 0, state |-> "idle",
                       slot |-> Cable!NoFrame]
    PROVE  /\ p \in Protocols /\ ~p.binary /\ p.session = 0
           /\ c \in Channels /\ c.session = 0 /\ c.next = 0 /\ c.state = "idle"
<1>1. Cable!NoFrame \in Letters
    BY LetterIs DEF Cable!NoFrame
<1> QED
    BY <1>1 DEF Protocols, Channels

\* The worker, the slot and the session have nothing.
DeviceOff ==
    /\ hProto \in Protocols /\ ~hProto.binary /\ hProto.session = 0
    /\ hChan \in Channels /\ hChan.session = 0 /\ hChan.next = 0 /\ hChan.state = "idle"
    /\ hSess \in Sittings /\ ~hSess.on /\ hSess.at = "idle" /\ hSess.seen = 0 /\ ~hSess.up.owner
    /\ hSess.file = NoValue
    /\ hToDevice = << >> /\ hToHost = << >>
    /\ hOther = "none" /\ IsShelf(hStore)
    /\ ~hStore.managing /\ ~hStore.uploading /\ hStore.readers = 0
    /\ \A n \in Books : hStore.files[n] = NoValue \/ \E t \in Attempts : hStore.files[n] = Bound(t)

OffSound ==
    /\ SlotInv /\ LineInv /\ HandleInv /\ (\A f : ~Lives(f))
    /\ hClient \in Clients => HostTypes

LEMMA OffIsSound == DeviceOff => OffSound
<1> SUFFICES ASSUME DeviceOff PROVE OffSound
    OBVIOUS
<1>1. /\ Len(hToDevice) = 0 /\ Len(hToHost) = 0
      /\ hToDevice \in Seq(Letters) /\ hToHost \in Seq(Letters)
    BY DEF DeviceOff
<1>2. SlotInv
    BY DEF DeviceOff, SlotInv
<1>3. LineInv
    BY <1>1 DEF LineInv
<1>4. HandleInv
    BY DEF DeviceOff, HandleInv
<1>5. \A f : ~Lives(f)
    BY <1>1 DEF DeviceOff, Lives
<1>6. hClient \in Clients => HostTypes
    BY <1>1 DEF DeviceOff, HostTypes
<1> QED
    BY <1>2, <1>3, <1>4, <1>5, <1>6 DEF OffSound

LEMMA RebootSits ==
    ASSUME HostInv, Cable!Reboot
    PROVE  HostInv'
<1>1. /\ hToDevice' = << >> /\ hToHost' = << >> /\ hOther' = "none"
      /\ hClient' = Cable!Off(hClient, CutOff) /\ hStore' = Cable!PowerCut(hStore)
      /\ hRemoval' = hRemoval
    BY DEF Cable!Reboot, CutOff
<1>2. /\ hProto' = [binary |-> FALSE, session |-> 0, lastId |-> 0, pending |-> FALSE,
                    failed |-> FALSE, mute |-> FALSE]
      /\ hChan' = [enabled |-> FALSE, session |-> 0, next |-> 0, state |-> "idle",
                   slot |-> Cable!NoFrame]
      /\ hSess' = [on |-> FALSE, at |-> "idle", seen |-> 0, request |-> Cable!NoFrame,
                   reply |-> Cable!NoFrame, state |-> "waiting", up |-> Cable!NoUpload,
                   file |-> NoValue, transferred |-> 0]
    BY DEF Cable!Reboot, Cable!EndsBinary
<1>3. IsShelf(hStore)
    BY DEF HostInv, HostTypes
<1>4. /\ SameBooks(hStore, hStore') /\ ~hStore'.managing /\ ~hStore'.uploading
      /\ hStore'.readers = 0
    BY <1>1, <1>3, PowerIsCut
<1>5. IsShelf(hStore') /\ hStore'.files = hStore.files
    BY <1>4 DEF SameBooks
<1>6. \A n \in Books : hStore'.files[n] = NoValue \/ \E t \in Attempts : hStore'.files[n] = Bound(t)
    BY <1>5 DEF HostInv, HandleInv
<1>7. /\ hProto' \in Protocols /\ ~hProto'.binary /\ hProto'.session = 0
      /\ hChan' \in Channels /\ hChan'.session = 0 /\ hChan'.next = 0 /\ hChan'.state = "idle"
    BY <1>2, WorkerOff
<1>8. /\ hSess' \in Sittings /\ ~hSess'.on /\ hSess'.at = "idle" /\ hSess'.seen = 0
      /\ ~hSess'.up.owner /\ hSess'.file = NoValue
    BY <1>2, SessionOff
<1>9. DeviceOff'
    BY <1>1, <1>4, <1>5, <1>6, <1>7, <1>8 DEF DeviceOff
<1>13. OffSound'
    BY <1>9, OffIsSound, PTL
<1>10. /\ SlotInv' /\ LineInv' /\ HandleInv' /\ (\A f : ~Lives(f)')
       /\ hClient' \in Clients => HostTypes'
    BY <1>13 DEF OffSound
<1>11. NoneBorn /\ Eased
    BY <1>8, <1>10 DEF NoneBorn, Eased
<1>12. hClient' \in Clients /\ LiveInv' /\ WaitInv' /\ SaveInv'
    BY <1>1, <1>5, <1>11, CutsOff
<1> QED
    BY <1>10, <1>12 DEF HostInv

LEMMA HostStarts ==
    ASSUME Cable!Init
    PROVE  HostInv
<1> DEFINE first == CHOOSE n \in Books : TRUE
<1>1. first \in Books
    BY CableConstantsAre
<1> HIDE DEF first
<1>2. hClient = [phase |-> "off", kind |-> "put", name |-> first, tag |-> NoValue,
                 step |-> 0, session |-> 0, id |-> 0, got |-> <<>>, outcome |-> "none",
                 left |-> Attempts]
    BY DEF Cable!Init, first
<1>3. /\ hClient \in Clients /\ hClient.phase = "off" /\ hClient.outcome = "none"
      /\ hClient.tag = NoValue /\ hClient.kind = "put"
  <2>1. << >> \in Seq(Attempts)
      OBVIOUS
  <2> QED
      BY <1>1, <1>2, <2>1 DEF Clients
<1>4. /\ hProto \in Protocols /\ ~hProto.binary /\ hProto.session = 0
      /\ hChan \in Channels /\ hChan.session = 0 /\ hChan.next = 0 /\ hChan.state = "idle"
    BY WorkerOff DEF Cable!Init
<1>5. /\ hSess \in Sittings /\ ~hSess.on /\ hSess.at = "idle" /\ hSess.seen = 0
      /\ ~hSess.up.owner /\ hSess.file = NoValue
    BY SessionOff DEF Cable!Init
<1>6. /\ IsShelf(hStore) /\ ~hStore.managing /\ ~hStore.uploading /\ hStore.readers = 0
      /\ \A n \in Books : hStore.files[n] = NoValue
    BY DEF Cable!Init, Cable!EmptyStore, IsShelf, IsStore
<1>7. hToDevice = << >> /\ hToHost = << >> /\ hOther = "none"
    BY DEF Cable!Init
<1>8. DeviceOff
    BY <1>4, <1>5, <1>6, <1>7 DEF DeviceOff
<1>9. HostTypes /\ SlotInv /\ LineInv /\ HandleInv /\ (\A f : ~Lives(f))
    BY <1>3, <1>8, OffIsSound DEF OffSound
<1>10. LiveInv
    BY <1>9 DEF LiveInv
<1>11. ~Waiting /\ WaitInv
    BY <1>3 DEF Waiting, WaitInv
<1>12. SaveInv
  <2>1. ~Saved
      BY <1>3, CableConstantsAre DEF Saved
  <2>2. \A t \in Attempts : \A n \in Books : hStore.files[n] # Bound(t)
      BY <1>6, BoundIsOne
  <2>3. hClient.left \subseteq Attempts /\ \A t \in Attempts : t # NoValue
      BY <1>3, CableConstantsAre DEF Clients
  <2>4. \A t \in hClient.left : t # hClient.tag /\ \A n \in Books : hStore.files[n] # Bound(t)
      BY <1>3, <2>2, <2>3
  <2>5. hRemoval \in Removals /\ ~hRemoval.done
      BY DEF Cable!Init, Cable!NoRemoval, Removals
  <2>6. ~Done
      BY <2>1, <2>5 DEF Done
  <2> QED
      BY <1>3, <1>11, <2>4, <2>5, <2>6 DEF SaveInv
<1> QED
    BY <1>9, <1>10, <1>11, <1>12 DEF HostInv

LEMMA HostStays ==
    ASSUME HostInv, [Cable!Next]_HostVars
    PROVE  HostInv'
<1>1. CASE Cable!Next
  <2>1. CASE Cable!ClientSteps
    <3>1. CASE \E n \in Books, t \in Attempts : Cable!Run("put", n, t)
        BY <3>1, RunSits
    <3>2. CASE \E n \in Books, kind \in {"get", "remove"} : Cable!Run(kind, n, NoValue)
        BY <3>2, RunSits
    <3> QED
        BY <2>1, <3>1, <3>2, GreetedSits, AnsweredSits, TimeoutSits, ClosedSits
           DEF Cable!ClientSteps
  <2>2. CASE Cable!DeviceSteps
      BY <2>2, TakeReplySits, PollSits, ReadTextSits, ReadBinarySits, TakeSits, ExecuteSits,
         CompleteSits DEF Cable!DeviceSteps, Cable!Foreground
  <2> QED
      BY <1>1, <2>1, <2>2, ProtocolTimeoutSits, ReplugSits, RebootSits, StartSits, StopSits,
         CancelSits, OthersBegin, OthersEnd DEF Cable!Next
<1>2. CASE UNCHANGED HostVars
  <2>1. UNCHANGED <<hClient, hToDevice, hToHost, hProto, hChan, hSess, hStore, hOther, hRemoval>>
      BY <1>2 DEF HostVars
  <2>2. HostTypes' /\ SlotInv' /\ HandleInv'
      BY <2>1 DEF HostInv, HostTypes, SlotInv, HandleInv
  <2>3. ClientRests
      BY <2>1 DEF ClientRests, Eased, NoneBorn, Lives, Replies
  <2> QED
      BY <2>2, <2>3, ClientRestsKeeps DEF HostInv
<1> QED
    BY <1>1, <1>2

\* The inductive invariant of the computer's book manager, for any books,
\* uploads, chunks, sessions and length of the line: at most one request lives,
\* and while the client waits it is the client's own (usb-manager.py, Channel,
\* Protocol, BookSession).
THEOREM HostInvariant ==
    MCSpec => [](part = "host" => HostInv)
<1> DEFINE Inv == part = "host" => HostInv
<1>1. MCInit => Inv
    BY HostStarts DEF MCInit
<1>2. Inv /\ [MCNext]_mcVars => Inv'
  <2> SUFFICES ASSUME Inv, [MCNext]_mcVars, part' = "host" PROVE HostInv'
      OBVIOUS
  <2>1. part = "host" /\ [Cable!Next]_HostVars
      BY DEF MCNext, mcVars
  <2> QED
      BY <2>1, HostStays
<1> QED
    BY <1>1, <1>2, PTL DEF MCSpec

\* A book in the library is the whole of one upload, what the client says of
\* its command is true, with whatever session, cancellation, retry or restart
\* came between (but for an error of the store's own for a change that landed),
\* and who has left the page has given the store back.
THEOREM BooksAlwaysSound ==
    MCSpec => []BooksSound
<1>1. ASSUME HostInv
      PROVE  Cable!WholeBooks
  <2> SUFFICES ASSUME NEW n \in Books, hStore.files[n] # NoValue
               PROVE  \E t \in Attempts : hStore.files[n] = Cable!Whole(t)
      BY DEF Cable!WholeBooks
  <2>1. PICK t \in Attempts : hStore.files[n] = Bound(t)
      BY <1>1 DEF HostInv, HandleInv
  <2> QED
      BY <2>1, BoundIsOne
<1>2. ASSUME HostInv
      PROVE  Cable!OutcomeHonest
  <2>1. hClient \in Clients /\ SaveInv
      BY <1>2 DEF HostInv, HostTypes
  <2>2. ASSUME hClient.kind = "put", hClient.outcome \in {"ok", "refused", "failed"}
        PROVE  /\ hClient.outcome = "ok" => hStore.files[hClient.name] = Cable!Whole(hClient.tag)
               /\ hClient.outcome # "ok" => hStore.files[hClient.name] # Cable!Whole(hClient.tag)
    <3>1. hClient.tag \in Attempts /\ hClient.name \in Books
        BY <2>1, <2>2 DEF SaveInv, Clients
    <3>2. Bound(hClient.tag) = Cable!Whole(hClient.tag)
        BY <3>1, BoundIsOne
    <3>3. hClient.outcome = "ok" => hStore.files[hClient.name] = Bound(hClient.tag)
        BY <2>1, <2>2 DEF SaveInv, Delivered
    <3>4. hClient.outcome # "ok" => ~Saved
        BY <2>1, <2>2 DEF SaveInv, Waiting, Done
    <3>5. ~Saved => hStore.files[hClient.name] # Bound(hClient.tag)
        BY <3>1 DEF Saved
    <3> QED
        BY <3>2, <3>3, <3>4, <3>5
  <2>3. hClient.kind = "get" /\ hClient.outcome = "ok" =>
           \E t \in Attempts : hClient.got = Cable!Whole(t)
    <3>1. hClient.kind = "get" /\ hClient.outcome = "ok" => \E t \in Attempts : hClient.got = Bound(t)
        BY <2>1 DEF SaveInv
    <3> QED
        BY <3>1, BoundIsOne
  <2>4. hClient.kind = "remove" =>
           /\ hClient.outcome = "ok" => hStore.files[hClient.name] = NoValue
           /\ hClient.outcome \in {"refused", "failed"} => ~hRemoval.done
      BY <2>1 DEF SaveInv, Delivered, Done, Waiting
  <2> QED
      BY <2>2, <2>3, <2>4 DEF Cable!OutcomeHonest
<1>3. HostInv => Cable!LeaseReturned
    BY DEF HostInv, HandleInv, Cable!LeaseReturned
<1>4. (part = "host" => HostInv) => BooksSound
    BY <1>1, <1>2, <1>3 DEF BooksSound
<1> QED
    BY <1>4, HostInvariant, PTL

=============================================================================
