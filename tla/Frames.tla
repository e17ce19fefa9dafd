------------------------------- MODULE Frames -------------------------------
(***************************************************************************)
(* Frames over GATT: BleLink's transmitter and reassembler on the Note4,    *)
(* BleGattClient's write queue and reassembler on the phone, and the        *)
(* fragments between them.                                                  *)
(*                                                                         *)
(* A frame is a record; its bytes are pairs of the frame and a position.    *)
(* The stack carries notifications in order and may lose none while the     *)
(* link stays up; one that is longer than the link's MTU allows is cut.     *)
(* What the session task does with a frame is module SessionOwner.          *)
(***************************************************************************)
EXTENDS Naturals, Sequences, SequencesExt

CONSTANTS
    Sizes,          \* payload sizes of the frames
    Header,         \* bytes of a frame's header
    Small, Large,   \* data bytes of a packet before and after the MTU exchange
    MaxId,          \* frame ids are 1..MaxId, then 1 again
    Queue,          \* kReceivedQueueCapacity
    MaxQueued,      \* MAX_QUEUED_PACKETS
    MtuFails,       \* whether the phone's MTU exchange may fail
    MaxSessions, MaxSends, MaxFaults,   \* bounds
    None

VARIABLES
    session,        \* connections so far; the phone's Hello carries it
    note,           \* BleLink::Impl
    hand,           \* the packet PumpTransmit holds after it gave the lock back
    reply,          \* the Hello the session task still has to answer
    phone,          \* BleGattClient
    air,            \* link MTU, notifications under way, the write under way
    log,            \* what this session's frames were, at either end
    faults

vars == <<session, note, hand, reply, phone, air, log, faults>>

Frame == [from : {"note", "phone"}, kind : {"hello", "ack", "sync"}, session : 1..MaxSessions,
          n : 1..MaxSends, size : {Header + p : p \in Sizes}]
Bytes(f) == [i \in 1..f.size |-> <<f, i>>]
IsByte(b) == b[1] \in Frame /\ b[2] \in 1..b[1].size

IdleTx == [active |-> FALSE, frame |-> None, next |-> 0]
Empty == [id |-> 0, bytes |-> <<>>]
FreshPhone == [up |-> FALSE, mtu |-> Small, nextId |-> 1, pending |-> <<>>, hello |-> FALSE,
               joining |-> FALSE, authorized |-> FALSE, rx |-> Empty]
Silent == [mtu |-> Small, down |-> <<>>, write |-> None, answer |-> None]
NothingYet == [sentN |-> <<>>, wholeN |-> <<>>, gotP |-> <<>>, acceptedP |-> <<>>,
               sentP |-> <<>>, wholeP |-> <<>>, gotN |-> <<>>]

Init ==
    /\ session = 0
    /\ note = [up |-> FALSE, capacity |-> Small, id |-> 1, tx |-> IdleTx, told |-> FALSE,
               rx |-> Empty, queue |-> <<>>, talk |-> FALSE]
    /\ hand = None /\ reply = None
    /\ phone = FreshPhone
    /\ air = Silent /\ log = NothingYet
    /\ faults = 0

-----------------------------------------------------------------------------
(* Seeded faults.                                                          *)

\* WholeFramesArrive: a write that found the queue full is acknowledged.
FullAnswersOk(full) == TRUE

-----------------------------------------------------------------------------
(* Fragments.                                                              *)

Count(size, capacity) == (size + capacity - 1) \div capacity

Fragment(f, id, i, capacity) ==
    LET first == (i - 1) * capacity
    IN  [id |-> id, offset |-> first, start |-> i = 1, end |-> i = Count(f.size, capacity),
         data |-> SubSeq(Bytes(f), first + 1,
                         IF first + capacity < f.size THEN first + capacity ELSE f.size)]

Fragments(f, id, capacity) ==
    [i \in 1..Count(f.size, capacity) |-> Fragment(f, id, i, capacity)]

NextId(id) == IF id = MaxId THEN 1 ELSE id + 1

\* DecodeFrame: the magic, the size and the checksum hold only of a frame's own bytes.
Decodes(bytes) == bytes # <<>> /\ bytes = Bytes(bytes[1][1])

\* FragmentReassembler::Accept. "bad" is every status Access resets for.
NoteAccept(r, p) ==
    LET active == IF p.start THEN p.offset = 0 ELSE r.id # 0 /\ p.id = r.id
        before == IF p.start THEN <<>> ELSE r.bytes
        bytes == before \o p.data
        known == Len(bytes) >= Header
        wanted == bytes[1][1].size
    IN  IF ~active \/ p.offset # Len(before) THEN "bad"
        ELSE IF known /\ (bytes[1][2] # 1 \/ Len(bytes) > wanted) THEN "bad"
        ELSE IF p.end THEN IF known /\ Len(bytes) = wanted THEN "complete" ELSE "bad"
        ELSE IF known /\ Len(bytes) = wanted THEN "bad" ELSE "accepted"

NoteBytes(r, p) == (IF p.start THEN <<>> ELSE r.bytes) \o p.data

\* CompanionFragments.Reassembler.accept
PhoneRestart(p) == [id |-> p.id, bytes |-> <<>>]
PhoneFits(p) ==
    IF p.start THEN p.offset = 0
    ELSE phone.rx.id # 0 /\ p.id = phone.rx.id /\ p.offset = Len(phone.rx.bytes)
PhoneRx(p) ==
    LET base == IF p.start THEN PhoneRestart(p) ELSE phone.rx
    IN  [base EXCEPT !.bytes = @ \o p.data]

-----------------------------------------------------------------------------
(* The connection. Either end sees it go first; a new one begins when both  *)
(* have.                                                                    *)

Connect ==
    /\ session < MaxSessions /\ ~phone.up /\ ~note.up
    /\ session' = session + 1
    /\ note' = [note EXCEPT !.up = TRUE]
    /\ phone' = [FreshPhone EXCEPT !.up = TRUE]
    /\ air' = Silent /\ log' = NothingYet
    /\ UNCHANGED <<hand, reply, faults>>

Closed == FreshPhone

PhoneCloses ==
    /\ phone.up
    /\ phone' = Closed
    /\ UNCHANGED <<session, note, hand, reply, air, log, faults>>

\* BLE_GAP_EVENT_DISCONNECT
NoteDisconnects ==
    /\ note.up
    /\ note' = [note EXCEPT !.up = FALSE, !.tx = IdleTx, !.rx = Empty, !.queue = <<>>,
                            !.talk = FALSE]
    /\ air' = [air EXCEPT !.down = <<>>, !.write = None, !.answer = None]
    /\ UNCHANGED <<session, hand, reply, phone, log, faults>>

\* requestMtu, BLE_GAP_EVENT_MTU and onMtuChanged, or their failure; then sendHello.
Verify(exchanged) ==
    LET capacity == IF exchanged THEN Large ELSE Small
        hello == [from |-> "phone", kind |-> "hello", session |-> session, n |-> 1,
                  size |-> Header + CHOOSE s \in Sizes : \A t \in Sizes : t <= s]
    IN  /\ phone.up /\ note.up /\ ~phone.hello
        /\ exchanged \/ MtuFails
        /\ note' = [note EXCEPT !.capacity = IF exchanged THEN Large ELSE @]
        /\ air' = [air EXCEPT !.mtu = capacity]
        /\ phone' = [phone EXCEPT !.mtu = capacity, !.hello = TRUE, !.joining = TRUE,
                                  !.nextId = @ + 1,
                                  !.pending = Fragments(hello, phone.nextId, capacity)]
        /\ log' = [log EXCEPT !.sentP = <<hello>>]
        /\ UNCHANGED <<session, hand, reply, faults>>

-----------------------------------------------------------------------------
(* From the phone: queueFrame and pumpWrite, Access, onCharacteristicWrite. *)

PhoneSends(size) ==
    LET f == [from |-> "phone", kind |-> "sync", session |-> session,
              n |-> Len(log.sentP) + 1, size |-> Header + size]
        packets == Fragments(f, phone.nextId, phone.mtu)
    IN  /\ phone.up /\ phone.authorized /\ Len(log.sentP) < MaxSends
        /\ Len(phone.pending) + Len(packets) + (IF air.write = None THEN 0 ELSE 1) <= MaxQueued
        /\ phone' = [phone EXCEPT !.nextId = NextId(@), !.pending = @ \o packets]
        /\ log' = [log EXCEPT !.sentP = Append(@, f)]
        /\ UNCHANGED <<session, note, hand, reply, air, faults>>

PumpWrite ==
    /\ phone.up /\ note.up /\ phone.pending # <<>> /\ air.write = None
    /\ phone' = [phone EXCEPT !.pending = Tail(@)]
    /\ air' = [air EXCEPT !.write = Head(phone.pending), !.answer = None]
    /\ UNCHANGED <<session, note, hand, reply, log, faults>>

FullAnswers(full) == ~full

\* The link's lock is taken, so Access gives up at once.
AccessBusy ==
    /\ note.up /\ air.write # None /\ air.answer = None /\ faults < MaxFaults
    /\ air' = [air EXCEPT !.answer = FALSE]
    /\ faults' = faults + 1
    /\ UNCHANGED <<session, note, hand, reply, phone, log>>

Access ==
    LET p == air.write
        status == NoteAccept(note.rx, p)
        full == Len(note.queue) = Queue
    IN  /\ note.up /\ p # None /\ air.answer = None
        /\ note' = [note EXCEPT
                !.rx = IF status = "accepted" THEN [id |-> p.id, bytes |-> NoteBytes(@, p)]
                                              ELSE Empty,
                !.queue = IF status = "complete" /\ ~full
                          THEN Append(@, [session |-> session, bytes |-> NoteBytes(note.rx, p)])
                          ELSE @]
        /\ air' = [air EXCEPT !.answer = CASE status = "accepted" -> TRUE
                                           [] status = "complete" -> FullAnswers(full)
                                           [] OTHER -> FALSE]
        /\ UNCHANGED <<session, hand, reply, phone, log, faults>>

\* onCharacteristicWrite; a bad status ends the session.
Written ==
    LET p == air.write
    IN  /\ phone.up /\ p # None /\ air.answer # None
        /\ air' = [air EXCEPT !.write = None, !.answer = None]
        /\ phone' = IF air.answer THEN phone ELSE Closed
        /\ log' = IF air.answer /\ p.end THEN [log EXCEPT !.wholeP = Append(@, p.data[1][1])]
                                         ELSE log
        /\ UNCHANGED <<session, note, hand, reply, faults>>

-----------------------------------------------------------------------------
(* From the Note4: the session task takes frames and sends them; the rest   *)
(* of a frame follows the stack's NOTIFY_TX events.                         *)

\* The session task is not inside SendForSession.
Free == hand = None /\ ~note.told

Take ==
    LET q == Head(note.queue)
        f == q.bytes[1][1]
    IN  /\ Free /\ reply = None /\ note.up /\ note.queue # <<>>
        /\ note' = [note EXCEPT !.queue = Tail(@)]
        /\ log' = [log EXCEPT !.gotN = IF Decodes(q.bytes) THEN Append(@, f) ELSE @]
        /\ reply' = IF Decodes(q.bytes) /\ f.kind = "hello"
                    THEN [session |-> q.session, request |-> f.session] ELSE None
        /\ UNCHANGED <<session, hand, phone, air, faults>>

\* PumpTransmit up to the unlock, on the transmitter's state t.
Taken(t, id, capacity) ==
    IF ~t.active THEN [tx |-> t, hand |-> None]
    ELSE IF t.next > Count(t.frame.size, capacity) THEN [tx |-> IdleTx, hand |-> None]
    ELSE [tx |-> [t EXCEPT !.next = @ + 1], hand |-> Fragment(t.frame, id, t.next, capacity)]

\* SendForSession, into the pump.
Transmit(f) ==
    LET id == NextId(note.id)
        pumped == Taken([active |-> TRUE, frame |-> f, next |-> 1], id, note.capacity)
    IN  /\ note' = [note EXCEPT !.id = id, !.tx = pumped.tx,
                                !.talk = IF f.kind = "ack" THEN TRUE ELSE @]
        /\ hand' = pumped.hand
        /\ log' = [log EXCEPT !.sentN = Append(@, f)]

NextN == Len(log.sentN) + 1

Answer ==
    /\ Free /\ reply # None
    /\ reply' = None
    /\ IF note.up /\ reply.session = session /\ ~note.tx.active /\ NextN <= MaxSends
       THEN \E size \in Sizes :
              Transmit([from |-> "note", kind |-> "ack", session |-> reply.request, n |-> NextN,
                        size |-> Header + size])
       ELSE UNCHANGED <<note, hand, log>>
    /\ UNCHANGED <<session, phone, air, faults>>

NoteSends(size) ==
    /\ Free /\ reply = None /\ note.up /\ note.talk /\ ~note.tx.active /\ NextN <= MaxSends
    /\ Transmit([from |-> "note", kind |-> "sync", session |-> session, n |-> NextN,
                 size |-> Header + size])
    /\ UNCHANGED <<session, reply, phone, air, faults>>

Cut(p) == [p EXCEPT !.data = SubSeq(@, 1, IF Len(@) < air.mtu THEN Len(@) ELSE air.mtu)]

\* ble_gatts_notify_custom takes the packet for the handle it was given, which a new
\* connection may have again.
Notify ==
    /\ hand # None /\ note.up
    /\ hand' = None
    /\ note' = [note EXCEPT !.told = TRUE]
    /\ air' = [air EXCEPT !.down = Append(@, Cut(hand))]
    /\ log' = LET f == hand.data[1][1]
              IN  IF hand.end /\ f \in Range(log.sentN)
                  THEN [log EXCEPT !.wholeN = Append(@, f)] ELSE log
    /\ UNCHANGED <<session, reply, phone, faults>>

NotifyFails ==
    /\ hand # None
    /\ hand' = None
    /\ note' = [note EXCEPT !.tx = IdleTx]
    /\ \/ ~note.up /\ UNCHANGED faults
       \/ note.up /\ faults < MaxFaults /\ faults' = faults + 1
    /\ UNCHANGED <<session, reply, phone, air, log>>

\* BLE_GAP_EVENT_NOTIFY_TX
NotifyTx ==
    LET pumped == Taken(note.tx, note.id, note.capacity)
    IN  /\ note.told
        /\ note' = [note EXCEPT !.told = FALSE, !.tx = pumped.tx]
        /\ hand' = pumped.hand
        /\ UNCHANGED <<session, reply, phone, air, log, faults>>

MatchesHelloAck(f) == phone.joining /\ f.kind = "ack" /\ f.session = session

\* receive
Receive ==
    LET p == Head(air.down)
        bytes == PhoneRx(p).bytes
        f == bytes[1][1]
        whole == PhoneFits(p) /\ p.end
        decoded == whole /\ Decodes(bytes)
        ack == decoded /\ MatchesHelloAck(f)
        taken == ack \/ (decoded /\ phone.authorized)
    IN  /\ phone.up /\ air.down # <<>>
        /\ air' = [air EXCEPT !.down = Tail(@)]
        /\ phone' = [phone EXCEPT !.rx = IF PhoneFits(p) /\ ~p.end THEN PhoneRx(p) ELSE Empty,
                                  !.joining = @ /\ ~ack, !.authorized = @ \/ ack]
        /\ log' = [log EXCEPT !.gotP = IF decoded THEN Append(@, f) ELSE @,
                              !.acceptedP = IF taken THEN Append(@, f) ELSE @]
        /\ UNCHANGED <<session, note, hand, reply, faults>>

Next ==
    \/ Connect \/ PhoneCloses \/ NoteDisconnects
    \/ \E exchanged \in BOOLEAN : Verify(exchanged)
    \/ \E size \in Sizes : PhoneSends(size) \/ NoteSends(size)
    \/ PumpWrite \/ AccessBusy \/ Access \/ Written
    \/ Take \/ Answer \/ Notify \/ NotifyFails \/ NotifyTx \/ Receive

Spec == Init /\ [][Next]_vars

-----------------------------------------------------------------------------
(* Properties.                                                             *)

TypeOK ==
    /\ session \in 0..MaxSessions /\ faults \in 0..MaxFaults
    /\ note.capacity \in {Small, Large} /\ note.id \in 1..MaxId
    /\ Len(note.queue) <= Queue /\ Len(phone.pending) <= MaxQueued
    /\ \A i \in DOMAIN note.rx.bytes : IsByte(note.rx.bytes[i])
    /\ \A i \in DOMAIN phone.rx.bytes : IsByte(phone.rx.bytes[i])

\* got is a selection of sent, in its order and without repeats.
Selects(got, sent) ==
    /\ Range(got) \subseteq Range(sent)
    /\ \A i, j \in DOMAIN got : i < j => got[i].n < got[j].n

\* What either end acts on was sent by the other in this very session, in the order it was
\* sent and once: not a frame that PumpTransmit still held when the last session ended
\* (note4_ble_link.cc:597-603), not the halves of two frames, not a reply to an old Hello.
AcceptedIsOwn ==
    /\ phone.up => Selects(log.acceptedP, log.sentN)
    /\ note.up => Selects(log.gotN, log.sentP)

\* Every frame whose last packet went out is put together at the other end: the phone's
\* frames whose writes were all acknowledged are in the Note4's queue or were taken from
\* it, and the Note4's frames arrive when the air is clear.
WholeFramesArrive ==
    /\ note.up => Range(log.wholeP) \subseteq
                      Range(log.gotN) \cup {q.bytes[1][1] : q \in Range(note.queue)}
    /\ phone.up /\ note.up /\ air.down = <<>> => Range(log.wholeN) \subseteq Range(log.gotP)

=============================================================================
