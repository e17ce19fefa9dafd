----------------------------- MODULE HostBooks -----------------------------
(***************************************************************************)
(* The USB book manager: the Client of tools/usb-manager.py, the serial    *)
(* line, the USB worker of the device (CliSession with the binary Protocol *)
(* of a host session), the one-slot Channel between the worker and the     *)
(* foreground, and the BookSession that executes requests on BookStorage.  *)
(*                                                                         *)
(* The client stops and waits, so the two directions of the line are short *)
(* sequences of frames.  A frame cut off by a failed write is "cut".       *)
(***************************************************************************)
EXTENDS BookStore

CONSTANTS
    MaxSessions,    \* bound: sessions the channel hands out, 32 bits in the code
    MaxLine         \* bound: commands are started while fewer frames are on their way

VARIABLES
    client,         \* the Client and the command it runs
    toDevice, toHost,
    proto,          \* Protocol and the mode of CliSession
    chan,           \* Channel
    sess,           \* BookSession
    store,          \* BookStorage
    other,          \* another owner of the store: the reader, or Wi-Fi transfer
    removal         \* history: the session of the command, and whether it removed a book

vars == <<client, toDevice, toHost, proto, chan, sess, store, other, removal>>

Script(kind) ==
    CASE kind = "put" -> <<"begin">> \o [i \in 1..Chunks |-> "chunk"] \o <<"commit">>
      [] kind = "get" -> <<"open">> \o [i \in 1..Chunks |-> "read"]
      [] kind = "remove" -> <<"remove">>

Statuses == Results \cup {"cancelled", "timeout"}
Frames == [op : {"start", "cut", "begin", "chunk", "commit", "open", "read", "remove", "close",
                 "greeting", "refused", "fail"},
           id : 0..(Chunks + 3), session : 0..MaxSessions,
           tag : Attempts \cup {None}, name : Books \cup {None}, off : 0..Chunks, status : Statuses]
Frame(op, id, session) == [op |-> op, id |-> id, session |-> session, tag |-> None,
                           name |-> None, off |-> 0, status |-> "ok"]
NoFrame == Frame("cut", 0, 0)
NoRemoval == [session |-> 0, done |-> FALSE]

TypeOK ==
    /\ client \in [phase : {"off", "connecting", "waiting", "closing"},
                   kind : {"put", "get", "remove"}, name : Books, tag : Attempts \cup {None},
                   step : 0..(Chunks + 3), session : 0..MaxSessions, id : 0..(Chunks + 3),
                   got : Seq(Attempts),
                   outcome : {"none", "ok", "refused", "unknown", "failed", "landed"},
                   left : SUBSET Attempts]
    /\ toDevice \in Seq(Frames) /\ toHost \in Seq(Frames)
    /\ proto \in [binary : BOOLEAN, session : 0..MaxSessions, lastId : 0..(Chunks + 3),
                  pending : BOOLEAN, failed : BOOLEAN, mute : BOOLEAN]
    /\ chan \in [enabled : BOOLEAN, session : 0..MaxSessions, next : 0..MaxSessions,
                 state : {"idle", "queued", "executing", "replied"}, slot : Frames]
    /\ sess \in [on : BOOLEAN, at : {"idle", "synced", "executing", "reply"},
                 seen : 0..MaxSessions, request : Frames, reply : Frames,
                 state : {"waiting", "ready", "uploading", "downloading", "complete",
                          "cancelled", "failed", "removed"},
                 up : Uploads, file : Books \cup {None}, transferred : 0..Chunks]
    /\ store \in Stores
    /\ other \in {"none", "manages", "reads"}
    /\ removal \in [session : 0..MaxSessions, done : BOOLEAN]

Init ==
    /\ client = [phase |-> "off", kind |-> "put", name |-> CHOOSE n \in Books : TRUE, tag |-> None,
                 step |-> 0, session |-> 0, id |-> 0, got |-> <<>>, outcome |-> "none",
                 left |-> Attempts]
    /\ toDevice = <<>> /\ toHost = <<>>
    /\ proto = [binary |-> FALSE, session |-> 0, lastId |-> 0, pending |-> FALSE,
                failed |-> FALSE, mute |-> FALSE]
    /\ chan = [enabled |-> FALSE, session |-> 0, next |-> 0, state |-> "idle", slot |-> NoFrame]
    /\ sess = [on |-> FALSE, at |-> "idle", seen |-> 0, request |-> NoFrame, reply |-> NoFrame,
               state |-> "waiting", up |-> NoUpload, file |-> None, transferred |-> 0]
    /\ store = EmptyStore
    /\ other = "none"
    /\ removal = NoRemoval

-----------------------------------------------------------------------------
(* Seeded faults.                                                          *)

\* PendingEnds: a session that is retired leaves its request in the slot and
\* keeps the session.
RetireLater(c) == c

-----------------------------------------------------------------------------
(* Channel.                                                                *)

Retire(c) == [c EXCEPT !.session = 0, !.state = IF @ = "executing" THEN @ ELSE "idle"]
Disconnect(c, session) == IF session # 0 /\ session = c.session THEN Retire(c) ELSE c
CanConnect(c) == c.enabled /\ c.session = 0 /\ c.state = "idle"
Submit(c, f) ==
    IF ~c.enabled \/ f.session # c.session THEN <<"cancelled", c>>
    ELSE IF c.state # "idle" THEN <<"busy", c>>
    ELSE <<"ok", [c EXCEPT !.slot = f, !.state = "queued"]>>
CompleteSlot(c, f) ==
    IF c.state # "executing" \/ c.slot.id # f.id \/ c.slot.session # f.session THEN c
    ELSE IF f.session # c.session THEN [c EXCEPT !.state = "idle"]
    ELSE [c EXCEPT !.slot = f, !.state = "replied"]

-----------------------------------------------------------------------------
(* The client on the computer.                                             *)

Off(c, outcome) == [c EXCEPT !.phase = "off", !.step = 0, !.session = 0, !.id = 0,
                             !.outcome = outcome]

\* A new command; reset_input_buffer drops what the line still holds.
Run(kind, n, t) ==
    /\ client.phase = "off"
    /\ kind = "put" => t \in client.left
    /\ Len(toDevice) < MaxLine
    /\ client' = [client EXCEPT !.phase = "connecting", !.kind = kind, !.name = n, !.tag = t,
                                !.step = 0, !.session = 0, !.id = 0, !.got = <<>>,
                                !.outcome = "none", !.left = IF kind = "put" THEN @ \ {t} ELSE @]
    /\ toHost' = <<>>
    /\ toDevice' = Append(toDevice, Frame("start", 0, 0))
    /\ removal' = NoRemoval
    /\ UNCHANGED <<proto, chan, sess, store, other>>

\* The next request of the script, or the end of it, after cc was answered;
\* a write may fail half way.
Ends(c, outcome) ==
    [c EXCEPT !.phase = "closing", !.id = @ + 1, !.outcome = outcome]
CloseFrame(c) == Frame("close", c.id + 1, c.session)
Proceed(c) ==
    LET script == Script(c.kind)
        next == [c EXCEPT !.phase = "waiting", !.step = @ + 1, !.id = @ + 1]
        op == script[c.step + 1]
        request == [Frame(op, c.id + 1, c.session) EXCEPT
                        !.tag = c.tag, !.name = c.name,
                        !.off = IF op \in {"chunk", "read"} THEN c.step - 1 ELSE 0]
        unsure == IF op \in {"commit", "remove"} THEN "unknown" ELSE "failed"
    IN IF c.step = Len(script)
       THEN client' = Ends(c, "ok") /\ toDevice' = Append(toDevice, CloseFrame(c))
       ELSE \/ client' = next /\ toDevice' = Append(toDevice, request)
            \/ /\ client' = Ends(next, unsure)
               /\ toDevice' = toDevice \o <<NoFrame, CloseFrame(next)>>

\* The command ends with an error, and the session is closed.
GiveUp(outcome) ==
    /\ client' = Ends(client, outcome)
    /\ toDevice' = Append(toDevice, CloseFrame(client))

Failure(status) ==
    LET op == Script(client.kind)[client.step]
    IN IF op \notin {"commit", "remove"} THEN "failed"
       ELSE IF status \in {"cancelled", "timeout"} THEN "unknown"
       ELSE IF status = "late" THEN "landed" ELSE "refused"

Greeted ==
    /\ client.phase = "connecting" /\ toHost # <<>>
    /\ LET f == Head(toHost)
       IN IF f.op = "greeting"
          THEN /\ Proceed([client EXCEPT !.session = f.session])
               /\ removal' = [removal EXCEPT !.session = f.session]
          ELSE client' = Off(client, "failed") /\ UNCHANGED <<toDevice, removal>>
    /\ toHost' = Tail(toHost)
    /\ UNCHANGED <<proto, chan, sess, store, other>>

\* The reply that request() accepts.
Answers(f) == f.session = client.session /\ f.id = client.id /\ f.op # "fail"

Answered ==
    /\ client.phase = "waiting" /\ toHost # <<>>
    /\ toHost' = Tail(toHost)
    /\ LET f == Head(toHost)
           op == Script(client.kind)[client.step]
       IN IF f.op = "fail" THEN GiveUp(Failure(f.status))
          ELSE IF ~Answers(f) THEN GiveUp(IF op \in {"commit", "remove"} THEN "unknown" ELSE "failed")
          ELSE IF f.status # "ok" THEN GiveUp(Failure(f.status))
          ELSE Proceed([client EXCEPT !.got = IF op = "read" THEN Append(@, f.tag) ELSE @])
    /\ UNCHANGED <<proto, chan, sess, store, other, removal>>

\* 35 s without an answer, or the user interrupts.
Timeout ==
    /\ client.phase \in {"connecting", "waiting"}
    /\ IF client.phase = "waiting"
       THEN GiveUp(IF Script(client.kind)[client.step] \in {"commit", "remove"}
                   THEN "unknown" ELSE "failed")
       ELSE client' = Off(client, "failed") /\ UNCHANGED toDevice
    /\ UNCHANGED <<toHost, proto, chan, sess, store, other, removal>>

\* close() reads on past what was abandoned, for two seconds at most.
Closed ==
    /\ client.phase = "closing"
    /\ \/ /\ toHost # <<>>
          /\ toHost' = Tail(toHost)
          /\ client' = IF Head(toHost).op # "fail" /\ Head(toHost).id < client.id THEN client
                       ELSE Off(client, client.outcome)
       \/ /\ client' = Off(client, client.outcome)
          /\ UNCHANGED toHost
    /\ UNCHANGED <<toDevice, proto, chan, sess, store, other, removal>>

-----------------------------------------------------------------------------
(* The USB worker: CliSession and Protocol.                                *)

\* Protocol::Send, whose write may fail when the line is gone or full.
Send(p, c, f) ==
    {<<p, c, Append(toHost, f)>>} \cup
    {<<[p EXCEPT !.failed = TRUE, !.mute = TRUE, !.pending = FALSE], Disconnect(c, p.session), toHost>>}
Sends(p, c, f) ==
    IF p.mute THEN {<<[p EXCEPT !.pending = FALSE], Disconnect(c, p.session), toHost>>}
    ELSE Send(p, c, f)

Fail(p, c, status) ==
    LET gone == Disconnect(c, p.session)
        q == [p EXCEPT !.pending = FALSE]
    IN IF p.failed THEN {<<q, gone, toHost>>}
       ELSE Sends([q EXCEPT !.failed = TRUE], gone,
                  [Frame("fail", 0, p.session) EXCEPT !.status = status])

Worker(outcomes) ==
    /\ \E o \in outcomes : proto' = o[1] /\ chan' = o[2] /\ toHost' = o[3]
    /\ UNCHANGED <<client, sess, store, other, removal>>

\* 30 s without a frame.
ProtocolTimeout ==
    /\ proto.binary /\ ~proto.failed
    /\ Worker(Fail(proto, chan, "timeout"))
    /\ UNCHANGED toDevice

TakeReply ==
    /\ proto.binary /\ proto.pending
    /\ IF chan.state = "replied" /\ chan.session = proto.session
       THEN Worker(Sends([proto EXCEPT !.pending = FALSE], [chan EXCEPT !.state = "idle"], chan.slot))
       ELSE chan.session # proto.session /\ Worker(Fail(proto, chan, "cancelled"))
    /\ UNCHANGED toDevice

\* CliSession::Poll in text mode: the host command, or noise.
ReadText ==
    /\ ~proto.binary /\ toDevice # <<>>
    /\ LET f == Head(toDevice)
       IN IF f.op # "start" THEN UNCHANGED <<proto, chan, toHost>> /\ toDevice' = Tail(toDevice)
          ELSE IF ~CanConnect(chan)
          THEN /\ toHost' = Append(toHost, Frame("refused", 0, 0))
               /\ toDevice' = Tail(toDevice)
               /\ UNCHANGED <<proto, chan>>
          ELSE /\ chan.next < MaxSessions
               /\ chan' = [chan EXCEPT !.next = @ + 1, !.session = chan.next + 1]
               /\ proto' = [proto EXCEPT !.binary = TRUE, !.session = chan.next + 1, !.lastId = 0,
                                         !.pending = FALSE, !.failed = FALSE, !.mute = FALSE]
               /\ toHost' = Append(toHost, Frame("greeting", 0, chan.next + 1))
               /\ toDevice' = <<>>
    /\ UNCHANGED <<client, sess, store, other, removal>>

\* The binary session ends: CliSession cancels it and drops the input.
EndsBinary(p) == [binary |-> FALSE, session |-> 0, lastId |-> 0, pending |-> FALSE,
                  failed |-> FALSE, mute |-> FALSE]

Receive(p, c, f) ==
    IF f.op = "cut" \/ f.session # p.session \/ f.id <= p.lastId THEN Fail(p, c, "invalid")
    ELSE LET q == [p EXCEPT !.lastId = f.id]
         IN IF f.op = "close"
            THEN {<<IF o[1].mute THEN o[1] ELSE EndsBinary(o[1]), o[2], o[3]>> :
                    o \in Sends(q, Disconnect(c, q.session), f)}
            ELSE LET r == IF q.failed THEN <<"cancelled", c>> ELSE Submit(c, f)
                 IN IF r[1] = "ok" THEN {<<[q EXCEPT !.pending = TRUE], r[2], toHost>>}
                    ELSE Sends(q, r[2], [f EXCEPT !.status = r[1]])

ReadBinary ==
    /\ proto.binary /\ ~proto.pending /\ toDevice # <<>>
    /\ Worker(Receive(proto, chan, Head(toDevice)))
    /\ toDevice' = IF proto'.binary THEN Tail(toDevice) ELSE <<>>

CutOff == IF client.outcome = "none" /\ client.phase # "off" THEN "unknown" ELSE client.outcome

\* The cable is pulled and put back, or the client dies.
Replug ==
    /\ proto' = EndsBinary(proto)
    /\ chan' = Disconnect(chan, proto.session)
    /\ toDevice' = <<>> /\ toHost' = <<>>
    /\ client' = Off(client, CutOff)
    /\ UNCHANGED <<sess, store, other, removal>>

\* The device restarts; the channel counts its sessions from zero again.
Reboot ==
    /\ proto' = EndsBinary(proto)
    /\ chan' = [enabled |-> FALSE, session |-> 0, next |-> 0, state |-> "idle", slot |-> NoFrame]
    /\ toDevice' = <<>> /\ toHost' = <<>>
    /\ client' = Off(client, CutOff)
    /\ sess' = [on |-> FALSE, at |-> "idle", seen |-> 0, request |-> NoFrame, reply |-> NoFrame,
                state |-> "waiting", up |-> NoUpload, file |-> None, transferred |-> 0]
    /\ store' = PowerCut(store)
    /\ other' = "none"
    /\ UNCHANGED removal

-----------------------------------------------------------------------------
(* BookSession, on the foreground task.                                    *)

\* ResetTransfer: the upload is aborted and the file closed.
ResetTransfer(b, q) ==
    LET a == AbortUpload(b, q.up)
    IN <<IF q.file # None THEN CloseFile(a[1]) ELSE a[1], [q EXCEPT !.up = NoUpload, !.file = None]>>

Transferring(q) == q.state \in {"uploading", "downloading"}

\* The page is opened, or tried again.
StartSession ==
    /\ ~sess.on
    /\ \E r \in BeginManagement(store) :
        /\ store' = r[2]
        /\ IF r[1] = "ok"
           THEN /\ sess' = [sess EXCEPT !.on = TRUE, !.seen = 0, !.state = "waiting"]
                /\ chan' = [chan EXCEPT !.enabled = TRUE]
           ELSE UNCHANGED <<sess, chan>>
    /\ UNCHANGED <<client, toDevice, toHost, proto, other, removal>>

\* Exit of the page.
StopSession ==
    /\ sess.on /\ sess.at = "idle"
    /\ chan' = [Retire(chan) EXCEPT !.enabled = FALSE]
    /\ LET r == ResetTransfer(store, sess)
       IN /\ store' = EndManagement(r[1])[2]
          /\ sess' = [r[2] EXCEPT !.on = FALSE, !.seen = 0]
    /\ UNCHANGED <<client, toDevice, toHost, proto, other, removal>>

\* OK on the page, whatever the session is at.
CancelSession ==
    /\ sess.on /\ sess.at = "idle"
    /\ chan' = Disconnect(chan, chan.session)
    /\ LET r == ResetTransfer(store, sess)
       IN store' = r[1] /\ sess' = [r[2] EXCEPT !.seen = 0, !.state = "cancelled"]
    /\ UNCHANGED <<client, toDevice, toHost, proto, other, removal>>

\* Poll: the session of the channel is compared with the one last seen ...
PollSession ==
    /\ sess.on /\ sess.at = "idle"
    /\ IF sess.seen = chan.session THEN sess' = [sess EXCEPT !.at = "synced"] /\ UNCHANGED store
       ELSE LET r == ResetTransfer(store, sess)
            IN /\ store' = r[1]
               /\ sess' = [r[2] EXCEPT !.at = "synced", !.seen = chan.session,
                                       !.state = IF chan.session # 0 THEN "ready" ELSE "waiting"]
    /\ UNCHANGED <<client, toDevice, toHost, proto, chan, other, removal>>

\* ... then a request is taken, which may be of a session that came since.
TakeRequest ==
    /\ sess.at = "synced"
    /\ IF chan.state # "queued" THEN sess' = [sess EXCEPT !.at = "idle"] /\ UNCHANGED <<store, chan>>
       ELSE LET f == chan.slot
                r == IF sess.seen = f.session THEN <<store, sess>> ELSE ResetTransfer(store, sess)
            IN /\ chan' = [chan EXCEPT !.state = "executing"]
               /\ store' = r[1]
               /\ sess' = [r[2] EXCEPT !.at = "executing", !.request = f, !.seen = f.session,
                                       !.state = IF sess.seen = f.session THEN @ ELSE "ready"]
    /\ UNCHANGED <<client, toDevice, toHost, proto, other, removal>>

\* Execute: <<status, store, session, tag of the reply>>.
Rejected(status, b, q) == <<status, b, q, None>>

ExecuteBegin(b, q, f) ==
    IF Transferring(q) THEN {Rejected("busy", b, q)}
    ELSE {<<r[1], r[2], IF r[1] = "ok"
                        THEN [q EXCEPT !.up = r[3], !.transferred = 0, !.state = "uploading"]
                        ELSE [q EXCEPT !.up = r[3]], None>> : r \in BeginUpload(b, q.up, f.name)}

TransferFailed(status, b, q) ==
    LET r == ResetTransfer(b, q) IN Rejected(status, r[1], [r[2] EXCEPT !.state = "failed"])

ExecuteChunk(b, q, f) ==
    IF q.state # "uploading" THEN {Rejected("busy", b, q)}
    ELSE IF f.off # q.transferred THEN {TransferFailed("invalid", b, q)}
    ELSE {IF r[1] = "ok" THEN <<"ok", r[2], [q EXCEPT !.up = r[3], !.transferred = @ + 1], None>>
          ELSE TransferFailed(r[1], r[2], [q EXCEPT !.up = r[3]]) : r \in WriteUpload(b, q.up, f.tag)}

ExecuteCommit(b, q) ==
    IF q.state # "uploading" THEN {Rejected("busy", b, q)}
    ELSE {LET e == ResetTransfer(r[2], [q EXCEPT !.up = r[3]])
          IN <<r[1], e[1], [e[2] EXCEPT !.state = IF r[1] = "ok" THEN "complete" ELSE "failed"], None>> :
            r \in CommitUpload(b, q.up)}

ExecuteOpen(b, q, f) ==
    IF Transferring(q) THEN {Rejected("busy", b, q)}
    ELSE {<<r[1], r[2], IF r[1] = "ok"
                        THEN [q EXCEPT !.file = f.name, !.transferred = 0, !.state = "downloading"]
                        ELSE q, None>> : r \in OpenFile(b, f.name, TRUE)}

ExecuteRead(b, q, f) ==
    IF q.state # "downloading" THEN {Rejected("busy", b, q)}
    ELSE IF f.off # q.transferred THEN {Rejected("invalid", b, q)}
    ELSE {TransferFailed("ioError", b, q),
          LET part == b.files[q.file][q.transferred + 1]
          IN IF q.transferred + 1 = Chunks
             THEN <<"ok", CloseFile(b), [q EXCEPT !.file = None, !.transferred = @ + 1,
                                                  !.state = "complete"], part>>
             ELSE <<"ok", b, [q EXCEPT !.transferred = @ + 1], part>>}

ExecuteRemove(b, q, f) ==
    IF Transferring(q) THEN {Rejected("busy", b, q)}
    ELSE {<<r[1], r[2], IF r[1] = "ok" THEN [q EXCEPT !.state = "removed"] ELSE q, None>> :
            r \in RemoveBook(b, f.name)}

Executed(b, q, f) ==
    CASE f.op = "begin" -> ExecuteBegin(b, q, f)
      [] f.op = "chunk" -> ExecuteChunk(b, q, f)
      [] f.op = "commit" -> ExecuteCommit(b, q)
      [] f.op = "open" -> ExecuteOpen(b, q, f)
      [] f.op = "read" -> ExecuteRead(b, q, f)
      [] f.op = "remove" -> ExecuteRemove(b, q, f)

Execute ==
    /\ sess.at = "executing"
    /\ \E r \in Executed(store, sess, sess.request) :
        /\ store' = r[2]
        /\ sess' = [r[3] EXCEPT !.at = "reply",
                                !.reply = [sess.request EXCEPT !.status = r[1], !.tag = r[4]]]
        /\ removal' = IF /\ sess.request.op = "remove" /\ r[1] \in {"ok", "late"}
                         /\ sess.request.session = removal.session
                      THEN [removal EXCEPT !.done = TRUE] ELSE removal
    /\ UNCHANGED <<client, toDevice, toHost, proto, chan, other>>

Complete ==
    /\ sess.at = "reply"
    /\ chan' = CompleteSlot(chan, sess.reply)
    /\ sess' = [sess EXCEPT !.at = "idle", !.request = NoFrame, !.reply = NoFrame]
    /\ UNCHANGED <<client, toDevice, toHost, proto, store, other, removal>>

-----------------------------------------------------------------------------
(* The other owners of the store.                                          *)

OtherBegins ==
    /\ other = "none"
    /\ \/ \E r \in BeginManagement(store) :
            r[1] = "ok" /\ store' = r[2] /\ other' = "manages"
       \/ \E n \in Books : \E r \in OpenFile(store, n, FALSE) :
            ~sess.on /\ r[1] = "ok" /\ store' = r[2] /\ other' = "reads"
    /\ UNCHANGED <<client, toDevice, toHost, proto, chan, sess, removal>>

OtherEnds ==
    /\ other # "none"
    /\ store' = IF other = "reads" THEN CloseFile(store) ELSE EndManagement(store)[2]
    /\ other' = "none"
    /\ UNCHANGED <<client, toDevice, toHost, proto, chan, sess, removal>>

ClientSteps ==
    \/ \E n \in Books, t \in Attempts : Run("put", n, t)
    \/ \E n \in Books, kind \in {"get", "remove"} : Run(kind, n, None)
    \/ Greeted \/ Answered \/ Timeout \/ Closed
Foreground == TakeRequest \/ Execute \/ Complete
DeviceSteps == TakeReply \/ PollSession \/ ReadText \/ ReadBinary \/ Foreground

Next ==
    \/ ClientSteps \/ DeviceSteps
    \/ ProtocolTimeout \/ Replug \/ Reboot \/ StartSession \/ StopSession \/ CancelSession
    \/ OtherBegins \/ OtherEnds

Spec == Init /\ [][Next]_vars

\* The worker polls every tick, and the foreground while it idles.
FairSpec ==
    Spec /\ WF_vars(TakeReply) /\ WF_vars(PollSession) /\ WF_vars(Foreground)

-----------------------------------------------------------------------------
(* Properties.                                                             *)

\* A book that has a name is the whole of one upload, whatever session,
\* cancellation or failure cut the others off.
WholeBooks == \A n \in Books : store.files[n] # None => \E t \in Attempts : store.files[n] = Whole(t)

\* What the client says of a command is true: "ok" means it happened, and an
\* error that does not say "outcome unknown" means it did not, but for the one
\* that the store itself gave for a change that landed.
OutcomeHonest ==
    /\ client.kind = "put" /\ client.outcome = "ok" => store.files[client.name] = Whole(client.tag)
    /\ client.kind = "put" /\ client.outcome \in {"refused", "failed"}
        => store.files[client.name] # Whole(client.tag)
    /\ client.kind = "remove" /\ client.outcome = "ok" => store.files[client.name] = None
    /\ client.kind = "remove" /\ client.outcome \in {"refused", "failed"} => ~removal.done
    /\ client.kind = "get" /\ client.outcome = "ok" =>
        \E t \in Attempts : client.got = Whole(t)

\* The lease and the handles are the ones of the page that is open, or of the
\* other owner: leaving the page always gives everything back.
LeaseReturned ==
    /\ store.managing <=> sess.on \/ other = "manages"
    /\ ~(sess.on /\ other # "none")
    /\ store.readers = (IF other = "reads" THEN 1 ELSE 0) + (IF sess.file # None THEN 1 ELSE 0)
    /\ store.uploading <=> sess.up.owner

\* A request that was handed to the foreground is answered or cancelled.
PendingEnds == proto.pending ~> ~proto.pending
=============================================================================
