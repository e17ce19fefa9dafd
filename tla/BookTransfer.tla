---------------------------- MODULE BookTransfer ----------------------------
(***************************************************************************)
(* Books over Wi-Fi: the owner's BookTransfer, polled by the session task   *)
(* under the resource mutex and stopped by anybody who holds it; the HTTP   *)
(* server with its one handler task, and BookWebApi, which the handler runs *)
(* on the store that the transfer has leased; and the phone, whose client   *)
(* sends one request at a time and never repeats a mutation.                *)
(*                                                                         *)
(* Time is the 32-bit millisecond clock, a small modulus and a few ticks.   *)
(***************************************************************************)
EXTENDS BookStore

CONSTANTS
    Wrap,           \* modulus of the clock, 2^32 in the code
    StartupFor, IdleFor, AfterUploadFor, SessionFor, FinishFor,
    StartsAt,       \* bound: the clock when a transfer starts, so that it wraps during it
    MaxLag,         \* bound: ticks between two polls of a running transfer
    MaxFaults       \* bound: failing stops of the server, the radio or the store

VARIABLES
    now,
    xfer,           \* BookTransfer
    poll,           \* the poll or stop that holds the resource mutex
    radio,          \* the Wi-Fi driver: off, coming, up, failed
    api,            \* BookWebApi and the server's listening socket
    req,            \* the request in the handler task
    store,
    phone,
    kept,           \* history: uploads that are books
    faults

vars == <<now, xfer, poll, radio, api, req, store, phone, kept, faults>>

Clock == 0..(Wrap - 1)
Since(t, from) == (t - from + Wrap) % Wrap
Kinds == {"put", "get", "remove", "finish"}

Off == [st |-> "off", err |-> FALSE, started |-> 0, finishing |-> FALSE,
        finishAt |-> 0, starting |-> FALSE]
NoPoll == [at |-> 0, step |-> "none", allowed |-> TRUE]
NoRequest == [kind |-> "none", step |-> "none", tag |-> None, name |-> None,
              up |-> NoUpload, result |-> "ok", cut |-> FALSE]
Closed == [up |-> FALSE, cancelled |-> TRUE, finish |-> FALSE, active |-> FALSE,
           activity |-> 0, uploaded |-> FALSE]

TypeOK ==
    /\ now \in Clock
    /\ xfer \in [st : {"off", "starting", "sharing", "stopping", "complete", "failed"},
                 err : BOOLEAN, started : Clock, finishing : BOOLEAN, finishAt : Clock,
                 starting : BOOLEAN]
    /\ poll \in [at : Clock, step : {"none", "poll", "join"}, allowed : BOOLEAN]
    /\ radio \in {"off", "coming", "up", "failed"}
    /\ api \in [up : BOOLEAN, cancelled : BOOLEAN, finish : BOOLEAN, active : BOOLEAN,
                activity : Clock, uploaded : BOOLEAN]
    /\ req \in [kind : Kinds \cup {"none"},
                step : {"none", "sent", "body", "commit", "answer"},
                tag : Attempts \cup {None}, name : Books \cup {None}, up : Uploads,
                result : Results \cup {"ended", "timeout"}, cut : BOOLEAN]
    /\ store \in Stores
    /\ kept \subseteq Attempts /\ faults \in 0..MaxFaults
    /\ phone \in [thread : {"free", "waits"}, live : BOOLEAN, tag : Attempts \cup {None},
                  left : SUBSET Attempts,
                  outcome : [Attempts -> {"none", "saved", "refused", "unsure", "landed"}]]

Init ==
    /\ now = 0 /\ xfer = Off /\ poll = NoPoll /\ radio = "off" /\ api = Closed
    /\ req = NoRequest /\ store = EmptyStore /\ kept = {} /\ faults = 0
    /\ phone = [thread |-> "free", live |-> FALSE, tag |-> None, left |-> Attempts,
                outcome |-> [t \in Attempts |-> "none"]]

Busy == xfer.st \in {"starting", "sharing", "stopping"}
device == <<xfer, poll, radio, api, store>>

-----------------------------------------------------------------------------
(* Seeded faults.                                                          *)

\* HandlerHasLease: the server only closes its socket and lets a running
\* request end by itself.
JoinedAnyway == TRUE

\* IdleIsReal: the age of the last activity without the clause for samples
\* younger than the poll's clock.
IdleUnsigned(at) == Since(at, api.activity)

-----------------------------------------------------------------------------
(* The owner, the clock and the surroundings.                              *)

\* Time matters while a transfer runs; the session task polls a running transfer every 100 ms.
Tick == /\ Busy /\ Since(now, poll.at) < MaxLag
        /\ now' = (now + 1) % Wrap
        /\ UNCHANGED <<device, req, phone, kept, faults>>

\* StartBookTransfer: the lease first, then Begin; the radio starts at the poll.
Start == /\ ~Busy /\ poll.step = "none"
         /\ \E r \in BeginManagement(store) :
              /\ r[1] = "ok" /\ store' = r[2]
         /\ now' = StartsAt
         /\ xfer' = [Off EXCEPT !.st = "starting", !.started = StartsAt, !.starting = TRUE]
         /\ poll' = [poll EXCEPT !.at = StartsAt]
         /\ UNCHANGED <<radio, api, req, phone, kept, faults>>

RadioChanges == /\ \/ radio = "coming" /\ radio' \in {"up", "failed"}
                   \/ radio = "up" /\ radio' = "failed"
                /\ UNCHANGED <<now, xfer, poll, api, req, store, phone, kept, faults>>

-----------------------------------------------------------------------------
(* BookTransfer.Stop: the server, then the radio, then the lease.           *)

\* Cancel and the shutdown of the sockets come before the wait for the handler.
StopFirst(err) ==
    /\ xfer' = [xfer EXCEPT !.st = "stopping", !.err = @ \/ err, !.starting = FALSE]
    /\ api' = [api EXCEPT !.cancelled = TRUE]
    /\ req' = IF req.kind # "none" THEN [req EXCEPT !.cut = TRUE] ELSE req
    /\ poll' = [poll EXCEPT !.step = "join", !.allowed = TRUE]

\* httpd_stop returns when no handler runs.
Joined == req.step \in {"none", "sent"}

ServerStops == /\ poll.step = "join" /\ Joined /\ (api.up \/ radio # "off")
               /\ api' = Closed
               /\ radio' = "off"
               /\ UNCHANGED <<now, xfer, poll, req, store, phone, kept, faults>>

LeaseEnds == /\ poll.step = "join" /\ Joined /\ ~api.up /\ radio = "off"
             /\ EndManagement(store)[1] = "ok"
             /\ store' = EndManagement(store)[2]
             /\ xfer' = [Off EXCEPT !.st = IF xfer.err THEN "failed" ELSE "complete"]
             /\ poll' = NoPoll /\ now' = 0
             /\ UNCHANGED <<radio, api, req, phone, kept, faults>>

\* One of the three fails: the transfer stays in Stopping with an error.
StopFails == /\ poll.step = "join" /\ faults < MaxFaults
             /\ faults' = faults + 1
             /\ xfer' = [xfer EXCEPT !.err = TRUE]
             /\ poll' = [poll EXCEPT !.step = "none", !.allowed = TRUE]
             /\ UNCHANGED <<now, radio, api, req, store, phone, kept>>

\* StopBookTransfer: the application leaves, or the owner says stop.
OwnerStops == /\ Busy /\ poll.step = "none"
              /\ StopFirst(FALSE)
              /\ UNCHANGED <<now, radio, store, phone, kept, faults>>

-----------------------------------------------------------------------------
(* BookTransfer.Poll: the clock is read first, the progress last.  Battery   *)
(* and connectivity policy are what they are when it begins.                *)

PollBegins == /\ Busy /\ poll.step = "none"
              /\ poll' \in [at : {now}, step : {"poll"}, allowed : BOOLEAN]
              /\ UNCHANGED <<now, xfer, radio, api, req, store, phone, kept, faults>>

MustStop(x, at) == \/ ~poll.allowed \/ x.st = "stopping"
                   \/ Since(at, x.started) >= SessionFor
                   \/ x.st = "starting" /\ Since(at, x.started) >= StartupFor

\* Activity published after the poll read its clock is idle for no time.
Idle(at) == LET age == Since(at, api.activity)
            IN IF age >= Wrap \div 2 THEN 0 ELSE age
IdleLimit == IF api.uploaded /\ ~api.active THEN AfterUploadFor ELSE IdleFor

\* Begin's credentials go to the driver once; another owner may hold the radio.
PollStartsRadio ==
    /\ poll.step = "poll" /\ ~MustStop(xfer, poll.at) /\ xfer.starting
    /\ xfer' = [xfer EXCEPT !.starting = FALSE]
    /\ radio' \in {"coming", "failed"}
    /\ UNCHANGED <<now, poll, api, req, store, phone, kept, faults>>

\* The link is up: the server starts, with a clean BookWebApi, or cannot.
PollOpensServer ==
    /\ poll.step = "poll" /\ ~MustStop(xfer, poll.at) /\ ~xfer.starting
    /\ xfer.st = "starting" /\ radio = "up"
    /\ \/ /\ api' = [Closed EXCEPT !.up = TRUE, !.cancelled = FALSE, !.activity = poll.at]
          /\ xfer' = [xfer EXCEPT !.st = "sharing"]
          /\ UNCHANGED <<poll, req>>
       \/ StopFirst(TRUE)
    /\ UNCHANGED <<now, radio, store, phone, kept, faults>>

Ends(finishing) ==
    IF finishing THEN Since(poll.at, xfer.finishAt) >= FinishFor
    ELSE Idle(poll.at) >= IdleLimit /\ ~api.active

PollProgress ==
    /\ poll.step = "poll" /\ ~MustStop(xfer, poll.at)
    /\ xfer.st = "sharing" /\ radio = "up"
    /\ IF api.finish /\ ~xfer.finishing
       THEN /\ xfer' = [xfer EXCEPT !.finishing = TRUE, !.finishAt = poll.at]
            /\ poll' = [poll EXCEPT !.step = "none", !.allowed = TRUE] /\ UNCHANGED <<api, req>>
       ELSE IF Ends(xfer.finishing) THEN StopFirst(FALSE)
       ELSE poll' = [poll EXCEPT !.step = "none", !.allowed = TRUE] /\ UNCHANGED <<xfer, api, req>>
    /\ UNCHANGED <<now, radio, store, phone, kept, faults>>

PollWaits ==
    /\ poll.step = "poll" /\ ~MustStop(xfer, poll.at) /\ ~xfer.starting
    /\ xfer.st = "starting" /\ radio = "coming"
    /\ poll' = [poll EXCEPT !.step = "none", !.allowed = TRUE]
    /\ UNCHANGED <<now, xfer, radio, api, req, store, phone, kept, faults>>

\* Power, policy, a timeout, a lost link, or an earlier stop that failed.
PollStops ==
    /\ poll.step = "poll"
    /\ MustStop(xfer, poll.at) \/ (radio = "failed" /\ ~xfer.starting)
    /\ StopFirst(~poll.allowed \/ xfer.st # "stopping")
    /\ UNCHANGED <<now, radio, store, phone, kept, faults>>

-----------------------------------------------------------------------------
(* The phone: a new operation runs when the single thread is free, and is   *)
(* read when the server's one task is; cancel only makes what the old one   *)
(* still does irrelevant.                                                   *)

\* Open refuses a connection once the session is cancelled.
Send(kind, t, n) ==
    /\ phone.thread = "free" /\ api.up /\ ~api.cancelled /\ req.kind = "none"
    /\ (kind = "put") = (t # None) /\ t \in phone.left \cup {None}
    /\ phone' = [phone EXCEPT !.thread = "waits", !.live = TRUE, !.tag = t, !.left = @ \ {t}]
    /\ req' = [NoRequest EXCEPT !.kind = kind, !.step = "sent", !.tag = t, !.name = n]
    /\ UNCHANGED <<now, device, kept, faults>>

Told(p, word) == IF p.live /\ p.tag # None THEN [p.outcome EXCEPT ![p.tag] = word] ELSE p.outcome
Freed(word) == [phone EXCEPT !.thread = "free", !.live = FALSE, !.tag = None,
                             !.outcome = Told(phone, word)]

Cancel ==
    /\ phone.thread = "waits" /\ phone.live
    /\ phone' = [phone EXCEPT !.live = FALSE, !.outcome = Told(phone, "unsure")]
    /\ req' = [req EXCEPT !.cut = TRUE]
    /\ UNCHANGED <<now, device, kept, faults>>

\* The connection breaks, or the client's two minutes are over; a request that
\* never reached the handler is gone.
Breaks ==
    /\ phone.thread = "waits"
    /\ phone' = Freed("unsure")
    /\ req' = IF req.step = "sent" THEN NoRequest ELSE [req EXCEPT !.cut = TRUE]
    /\ UNCHANGED <<now, device, kept, faults>>

-----------------------------------------------------------------------------
(* BookWebApi.Handle in the server's task.                                 *)

\* The first line of Handle, active_, and what the operation begins with.
Arrive ==
    /\ req.step = "sent" /\ api.up /\ ~req.cut
    /\ IF api.cancelled \/ api.finish
       THEN req' = [req EXCEPT !.step = "answer", !.result = "ended"] /\ UNCHANGED <<api, store>>
       ELSE /\ api' = [api EXCEPT !.active = TRUE, !.activity = now]
            /\ LET begun(r, u) == [req EXCEPT !.up = u, !.result = r,
                                              !.step = IF r = "ok" THEN "body" ELSE "answer"]
               IN CASE req.kind = "put" ->
                         \E r \in BeginUpload(store, req.up, req.name) :
                            store' = r[2] /\ req' = begun(r[1], r[3])
                    [] req.kind = "get" ->
                         \E r \in OpenFile(store, req.name, TRUE) :
                            store' = r[2] /\ req' = begun(r[1], NoUpload)
                    [] req.kind = "remove" ->
                         \E r \in RemoveBook(store, req.name) :
                            store' = r[2] /\ req' = [begun(r[1], NoUpload) EXCEPT !.step = "answer"]
                    [] req.kind = "finish" ->
                         UNCHANGED store /\ req' = [begun("ok", NoUpload) EXCEPT !.step = "answer"]
    /\ UNCHANGED <<now, xfer, poll, radio, phone, kept, faults>>

\* Upload: a chunk is read and written, or the session's cancellation, two
\* minutes or a silent client end the request with 408.
Chunk ==
    /\ req.kind = "put" /\ req.step = "body"
    /\ \/ /\ req' = [req EXCEPT !.step = "answer", !.result = "timeout"]
          /\ UNCHANGED <<api, store>>
       \/ /\ ~api.cancelled /\ req.up.received = Chunks
          /\ req' = [req EXCEPT !.step = "commit"]
          /\ UNCHANGED <<api, store>>
       \/ /\ ~api.cancelled /\ ~req.cut /\ req.up.received < Chunks
          /\ \E r \in WriteUpload(store, req.up, req.tag) :
               /\ store' = r[2]
               /\ req' = [req EXCEPT !.up = r[3], !.result = r[1],
                                     !.step = IF r[1] = "ok" THEN "body" ELSE "answer"]
               /\ api' = IF r[1] = "ok" THEN [api EXCEPT !.activity = now] ELSE api
    /\ UNCHANGED <<now, xfer, poll, radio, phone, kept, faults>>

Commit ==
    /\ req.kind = "put" /\ req.step = "commit"
    /\ \E r \in CommitUpload(store, req.up) :
         /\ store' = r[2]
         /\ req' = [req EXCEPT !.up = r[3], !.result = r[1], !.step = "answer"]
         /\ api' = IF r[1] = "ok" THEN [api EXCEPT !.activity = now, !.uploaded = TRUE] ELSE api
         /\ kept' = IF r[1] \in {"ok", "late"} THEN kept \cup {req.tag} ELSE kept
    /\ UNCHANGED <<now, xfer, poll, radio, phone, faults>>

\* Download: the rest of the book is sent while the file is open.
Downloaded ==
    /\ req.kind = "get" /\ req.step = "body"
    /\ req' = [req EXCEPT !.step = "answer"]
    /\ store' = CloseFile(store)
    /\ api' = [api EXCEPT !.activity = now]
    /\ UNCHANGED <<now, xfer, poll, radio, phone, kept, faults>>

\* "landed" is the page "The upload was not installed" for one that was.
AnswerOf(result) ==
    CASE result = "ok" -> "saved"
      [] result = "timeout" -> "unsure"
      [] result = "late" -> "landed"
      [] OTHER -> "refused"

\* The reply leaves if the connection lives; the upload is closed, and active_
\* cleared, behind it.  finish_ is set after its reply.
Answer ==
    /\ req.step = "answer"
    /\ phone' = IF req.cut THEN phone
                ELSE Freed(AnswerOf(req.result))
    /\ store' = AbortUpload(store, req.up)[1]
    /\ api' = IF req.result = "ended" THEN api
              ELSE [api EXCEPT !.active = FALSE, !.finish = @ \/ req.kind = "finish"]
    /\ req' = NoRequest
    /\ UNCHANGED <<now, xfer, poll, radio, kept, faults>>

-----------------------------------------------------------------------------
Poll == PollBegins \/ PollStartsRadio \/ PollOpensServer \/ PollProgress \/ PollWaits \/ PollStops
Handler == Arrive \/ Chunk \/ Commit \/ Downloaded \/ Answer
Stopping == ServerStops \/ LeaseEnds
PollsOn == Poll \/ Stopping

Next == \/ Tick \/ Start \/ RadioChanges \/ OwnerStops \/ StopFails
        \/ Poll \/ Handler \/ Stopping \/ Cancel \/ Breaks
        \/ \E kind \in Kinds, t \in Attempts \cup {None}, n \in Books : Send(kind, t, n)

Spec == Init /\ [][Next]_vars

\* The session task and the handler task run, the clock does not stop, and a
\* connection that was cut is noticed.
Fairness == WF_vars(PollsOn) /\ WF_vars(Handler) /\ WF_vars(Tick)
FairSpec == Spec /\ Fairness

-----------------------------------------------------------------------------
(* Properties.                                                             *)

\* "Cancellation joins all handlers before releasing the Storage lease"
\* (BookTransferServer): a request works on the store only under its lease and
\* never after Stop has reported the server stopped; what it opened is closed.
HandlerHasLease ==
    /\ req.step \in {"body", "commit"} => store.managing /\ Busy /\ api.up
    /\ ~api.up => ~store.uploading /\ store.readers = 0

\* What the phone shows of an upload is true: saved means committed, and an
\* answer that is an error means it is not, but for an error of the store's for
\* an upload that landed (BookWebApi.Upload, Note4TransferClient).
OutcomeIsTrue ==
    \A t \in Attempts : /\ phone.outcome[t] = "saved" => t \in kept
                        /\ phone.outcome[t] = "refused" => t \notin kept

\* A session ends by itself, without an error, only after a real pause of
\* the clients, also when the last one spoke after the poll read its clock.
StopsWhenIdle ==
    poll.step = "poll" /\ poll'.step = "join" /\ ~xfer'.err /\ ~xfer.finishing
      => Since(now, api.activity) >= AfterUploadFor

IdleIsReal == [][StopsWhenIdle]_vars

\* Every transfer ends and gives back the radio and the books, through failing
\* stops and clients that stay silent (BookTransfer.Poll and Stop).
SessionEnds == Busy ~> (~Busy /\ radio = "off" /\ ~store.managing)

=============================================================================
