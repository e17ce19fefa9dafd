------------------------------ MODULE Gateway ------------------------------
(***************************************************************************)
(* A resource fetched through the phone: the Note4's request as the session *)
(* task sends and repeats it, PhoneResourceGateway with its table of known  *)
(* requests and its one worker thread, and the reply on its way back.       *)
(*                                                                         *)
(* A message's sequence number matters only in being the last one sent or   *)
(* not, a session in being the present one or not, so both are Booleans.    *)
(* Retry delays, the choice of a path and Wi-Fi are module ResourceClient.  *)
(* What cannot be decoded or asks for an unknown capability is answered at  *)
(* once without the table, and left out.                                    *)
(***************************************************************************)
EXTENDS Naturals, Sequences, SequencesExt

CONSTANTS
    Ids,            \* request ids, 32 random bits in the code
    Bodies,         \* requests: [max |-> bytes the answer may have]
    Capacity,       \* DEDUPE_CAPACITY
    MaxSize,        \* bound: bytes of a document
    Pages,          \* what the server may serve: [ok, text, size, utf8]
    MaxAir,         \* frames under way in a direction, MAX_QUEUED_PACKETS on the phone
    MaxTransient, MaxDown,      \* bounds: failed fetches, lost sessions
    None

VARIABLES
    up,             \* an authorized session, at both ends
    ask,            \* the request ResourceClient works on
    answer,         \* the last one it got, and for which request
    toPhone, toNote,            \* frames under way
    dedupe,         \* LinkedHashMap in access order, eldest first
    tasks,          \* the executor's queue; its head runs
    transient, down             \* counters for the bounds

vars == <<up, ask, answer, toPhone, toNote, dedupe, tasks, transient, down>>

Transient == {"offline", "timeout"}
Statuses == Transient \cup {"success", "serverError", "tooLarge", "invalid"}
Response == [status : Statuses, size : 0..MaxSize]
Failed(s) == [status |-> s, size |-> 0]

Request == [id : Ids, body : Bodies, fresh : BOOLEAN]
Entry == [id : Ids, body : Bodies, inFlight : BOOLEAN, cached : Response \cup {None}]

Init ==
    /\ up = FALSE /\ ask = None /\ answer = None
    /\ toPhone = <<>> /\ toNote = <<>>
    /\ dedupe = <<>> /\ tasks = <<>>
    /\ transient = 0 /\ down = 0

-----------------------------------------------------------------------------
(* Seeded faults.                                                          *)

\* OneFetch: the eldest entry is evicted, its fetch running or not.
EvictableAlways(e) == TRUE

-----------------------------------------------------------------------------
(* The Note4: RequestResource, SendResource, ProcessResourceResponse.       *)

Stale(ms) == [i \in DOMAIN ms |-> [ms[i] EXCEPT !.fresh = FALSE]]

Begin(id, b) ==
    /\ ask = None
    /\ ask' = [id |-> id, body |-> b, waiting |-> FALSE]
    /\ answer' = None
    /\ UNCHANGED <<up, toPhone, toNote, dedupe, tasks, transient, down>>

Cancel ==
    /\ ask # None
    /\ ask' = None
    /\ UNCHANGED <<up, answer, toPhone, toNote, dedupe, tasks, transient, down>>

\* The next sequence number makes every earlier one stale.
Send ==
    /\ up /\ ask # None /\ ~ask.waiting /\ Len(toPhone) < MaxAir
    /\ ask' = [ask EXCEPT !.waiting = TRUE]
    /\ toPhone' = Append(Stale(toPhone), [id |-> ask.id, body |-> ask.body, fresh |-> TRUE])
    /\ toNote' = Stale(toNote)
    /\ tasks' = Stale(tasks)
    /\ UNCHANGED <<up, answer, dedupe, transient, down>>

\* The deadline is shorter than a fetch may take, longer than a message does.
Deadline ==
    /\ ask # None /\ ask.waiting /\ toPhone = <<>> /\ toNote = <<>>
    /\ ask' = [ask EXCEPT !.waiting = FALSE]
    /\ UNCHANGED <<up, answer, toPhone, toNote, dedupe, tasks, transient, down>>

Accepts(r) == ask.waiting /\ r.fresh /\ r.id = ask.id

Accepted(r) == IF r.size > ask.body.max THEN Failed("tooLarge")
               ELSE IF r.status = "success" /\ r.size = 0 THEN Failed("invalid")
               ELSE [status |-> r.status, size |-> r.size]

Receive ==
    LET r == Head(toNote)
        result == Accepted(r)
    IN  /\ up /\ toNote # <<>>
        /\ toNote' = Tail(toNote)
        /\ IF ask = None \/ ~Accepts(r) THEN UNCHANGED <<ask, answer>>
           ELSE IF result.status \in Transient
           THEN ask' = [ask EXCEPT !.waiting = FALSE] /\ UNCHANGED answer
           ELSE ask' = None /\ answer' = [asked |-> ask.body, fetched |-> r.body, is |-> result]
        /\ UNCHANGED <<up, toPhone, dedupe, tasks, transient, down>>

Connected == up' = TRUE /\ ~up
             /\ UNCHANGED <<ask, answer, toPhone, toNote, dedupe, tasks, transient, down>>

\* PhoneDisconnected on the Note4; callbacks of this session answer nobody from here on.
Disconnected ==
    /\ up /\ down < MaxDown
    /\ up' = FALSE /\ down' = down + 1
    /\ toPhone' = <<>> /\ toNote' = <<>>
    /\ ask' = IF ask = None THEN None ELSE [ask EXCEPT !.waiting = FALSE]
    /\ tasks' = [i \in DOMAIN tasks |-> [tasks[i] EXCEPT !.session = FALSE]]
    /\ UNCHANGED <<answer, dedupe, transient>>

-----------------------------------------------------------------------------
(* The phone: handle, up to the executor.                                   *)

Known(id) == {i \in DOMAIN dedupe : dedupe[i].id = id}
Place(id) == CHOOSE i \in Known(id) : TRUE

\* get moves an entry to the end of the access order.
Touched(id) == Append(RemoveAt(dedupe, Place(id)), dedupe[Place(id)])

\* evictCompletedEntryIfNeeded
Evictable(e) == ~e.inFlight
Evicted ==
    LET done == {i \in DOMAIN dedupe : Evictable(dedupe[i])}
    IN  IF Len(dedupe) < Capacity \/ done = {} THEN dedupe
        ELSE RemoveAt(dedupe, CHOOSE i \in done : \A j \in done : i <= j)

\* responseFrame repeats the request's header.
Reply(m, r) == [id |-> m.id, body |-> m.body, fresh |-> m.fresh, status |-> r.status,
                size |-> r.size]

\* queueFrame refuses a frame its queue has no room for; the answer is then lost.
Answers(m, r) == toNote' = IF Len(toNote) < MaxAir THEN Append(toNote, Reply(m, r)) ELSE toNote

Started(m) ==
    /\ tasks' = Append(tasks, [id |-> m.id, body |-> m.body, fresh |-> m.fresh, session |-> TRUE])
    /\ UNCHANGED toNote

Handle ==
    LET m == Head(toPhone)
        touched == Touched(m.id)
        e == Last(touched)
    IN  /\ up /\ toPhone # <<>>
        /\ toPhone' = Tail(toPhone)
        /\ IF Known(m.id) = {}
           THEN /\ dedupe' = Append(Evicted, [id |-> m.id, body |-> m.body, inFlight |-> TRUE,
                                              cached |-> None])
                /\ Started(m)
           ELSE IF e.body # m.body
           THEN Answers(m, Failed("invalid")) /\ dedupe' = touched /\ UNCHANGED tasks
           ELSE IF e.cached # None
           THEN Answers(m, e.cached) /\ dedupe' = touched /\ UNCHANGED tasks
           ELSE IF e.inFlight
           THEN dedupe' = touched /\ UNCHANGED <<toNote, tasks>>
           ELSE /\ dedupe' = [touched EXCEPT ![Len(touched)].inFlight = TRUE]
                /\ Started(m)
        /\ UNCHANGED <<up, ask, answer, transient, down>>

(* HttpUrlConnectionResourceClient.fetch, mapFetchResult and the callback.  *)


\* A declared length is believed at once, any other is found out while reading.
Fetched(page, max) ==
    IF ~page.ok THEN Failed("serverError")
    ELSE IF ~page.text THEN Failed("invalid")
    ELSE IF page.size > max THEN Failed("tooLarge")
    ELSE IF page.size = 0 \/ ~page.utf8 THEN Failed("invalid")
    ELSE [status |-> "success", size |-> page.size]

Finished(e, r) == [e EXCEPT !.inFlight = FALSE,
                            !.cached = IF r.status \in Transient THEN None ELSE r]

Complete(r) ==
    LET t == Head(tasks)
        touched == Touched(t.id)
        e == Last(touched)
    IN  /\ tasks # <<>>
        /\ tasks' = Tail(tasks)
        /\ dedupe' = IF Known(t.id) = {} THEN dedupe
                     ELSE IF e.body # t.body THEN touched
                     ELSE [touched EXCEPT ![Len(touched)] = Finished(e, r)]
        /\ IF t.session THEN Answers(t, r) ELSE UNCHANGED toNote
        /\ UNCHANGED <<up, ask, answer, toPhone, down>>

FetchEnds == /\ tasks # <<>>
             /\ \E page \in Pages : Complete(Fetched(page, Head(tasks).body.max))
             /\ UNCHANGED transient

FetchFails == /\ transient < MaxTransient /\ transient' = transient + 1
              /\ \E s \in Transient : Complete(Failed(s))

Next ==
    \/ \E id \in Ids, b \in Bodies : Begin(id, b)
    \/ Cancel \/ Send \/ Deadline \/ Receive \/ Connected \/ Disconnected
    \/ Handle \/ FetchEnds \/ FetchFails

Spec == Init /\ [][Next]_vars

\* The Note4's session task.
Note4 == Send \/ Deadline \/ Receive

FairSpec == /\ Spec
            /\ WF_vars(Note4) /\ WF_vars(Connected) /\ WF_vars(Handle) /\ WF_vars(FetchEnds)

-----------------------------------------------------------------------------
(* Properties.                                                             *)

TypeOK ==
    /\ up \in BOOLEAN /\ transient \in 0..MaxTransient /\ down \in 0..MaxDown
    /\ \A i \in DOMAIN toPhone : toPhone[i] \in Request
    /\ \A i \in DOMAIN dedupe : dedupe[i] \in Entry
    /\ \A i, j \in DOMAIN dedupe : i # j => dedupe[i].id # dedupe[j].id

\* What a caller is handed was fetched for the request it made and keeps its limits, although
\* ids are random, a late answer to an earlier request may carry the same one, and answers
\* are stored on the phone across sessions (note4_connectivity_service.cc:735-746).
AnswerIsOwn ==
    answer # None /\ answer.is.status = "success" =>
        /\ answer.fetched = answer.asked
        /\ answer.is.size \in 1..answer.asked.max

\* One fetch runs for a request id, its entry is in the table for as long, and no entry waits
\* for a fetch that is over (PhoneResourceGateway.kt:172-188).
OneFetch ==
    /\ \A i, j \in DOMAIN tasks : i # j => tasks[i].id # tasks[j].id
    /\ {tasks[i].id : i \in DOMAIN tasks} =
           {dedupe[i].id : i \in {j \in DOMAIN dedupe : dedupe[j].inFlight}}

\* A request is answered or cancelled once fetches succeed and the session stays: also when
\* the repeated request found its fetch still running, whose answer carries the sequence
\* number of the first and is thrown away.
Answered == ask # None ~> ask = None

=============================================================================
