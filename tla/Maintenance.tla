---------------------------- MODULE Maintenance ----------------------------
(***************************************************************************)
(* The maintenance console: the USB task with its line session             *)
(* (note4_cli_usb.cc, note4_cli_session.cc) and its executor               *)
(* (note4_cli_diagnostics.cc), and the foreground task that alone may look *)
(* at or change the device (note4_cli_control.cc,                          *)
(* note4_platform_diagnostics.cc).                                         *)
(*                                                                         *)
(* The two tasks share one request slot.  A request is queued by the       *)
(* console, executed by the owner with the slot unlocked, and its answer   *)
(* taken by the console, which may meanwhile have given up, been           *)
(* interrupted or lost its cable; and the platform may shut down at any    *)
(* point.  Commands that change something ask for a confirmation first.    *)
(*                                                                         *)
(* A line is its words: text arrives as pieces that carry the connection   *)
(* they were typed in (history).                                           *)
(***************************************************************************)
EXTENDS Integers, Sequences

CONSTANTS Reads,      \* commands that only look
          Writes,     \* commands that change something (IsMutation)
          None,       \* no command
          Patience,   \* kOwnerRequestTimeoutMs
          Deadline,   \* the 15 s a confirmation stays valid
          MaxTickets, \* bound on requests
          MaxTokens,  \* bound on confirmation prompts
          MaxTyped    \* bound on unread input

VARIABLES usb,     \* [up, latch]: the cable, and a disconnect seen and not yet handled;
                   \* [cable, noted]: which of two connections in turn, and whether
                   \* its end was seen (history)
          rx,      \* bytes received and not read
          pc,      \* where the console task is
          cli,     \* [on, line, active, binary]: CliSession
          exec,    \* [active, ticket, ready, token, request, left, next]: DiagnosticExecutor
          slot,    \* [state, request, ticket, status, answer, age, abandoned, closing]
          owner,   \* the request the owner is executing, or None
          stop,    \* stop_requested
          fresh,   \* the prompt the user has just seen (history)
          effects, \* [made, erred]: tickets whose change was made, and those of them the
                   \* owner answered with an error all the same (history)
          told     \* what the user was told of each ticket (history)

vars == <<usb, rx, pc, cli, exec, slot, owner, stop, fresh, effects, told>>

Ops == Reads \cup Writes
Tickets == 1 .. MaxTickets

NoRequest == [op |-> None, confirmed |-> FALSE]
NoExec == [active |-> FALSE, ticket |-> 0, ready |-> FALSE, token |-> 0,
           request |-> None, left |-> 0, next |-> 0]
NoSlot == [state |-> "idle", request |-> NoRequest, status |-> "none", answer |-> 0, age |-> 0,
           abandoned |-> FALSE, ticket |-> 0, closing |-> FALSE]

Untold == [t \in Tickets |-> "nothing"]
NoEffects == [made |-> {}, erred |-> {}]

Init ==
    /\ usb = [up |-> FALSE, cable |-> 0, latch |-> FALSE, noted |-> TRUE]
    /\ rx = << >>
    /\ pc = "flush"
    /\ cli = [on |-> FALSE, line |-> << >>, active |-> FALSE, binary |-> FALSE]
    /\ exec = NoExec
    /\ slot = NoSlot
    /\ owner = None
    /\ stop = FALSE
    /\ fresh = None
    /\ effects = NoEffects
    /\ told = Untold

Console == <<pc, cli, exec, rx>>
History == <<fresh, effects, told>>

-----------------------------------------------------------------------------
(* The cable and the person at the other end. *)

(* An outage that began and ended between two looks is none to the device. *)
Plug ==
    /\ ~usb.up
    /\ usb' = [usb EXCEPT !.up = TRUE, !.noted = FALSE, !.cable = IF usb.noted THEN 1 - @ ELSE @]
    /\ UNCHANGED <<Console, slot, owner, stop, History>>

Unplug ==
    /\ usb.up
    /\ usb' = [usb EXCEPT !.up = FALSE]
    /\ UNCHANGED <<Console, slot, owner, stop, History>>

Pieces == [what : Ops \cup {"follow", "host", "enter", "break"}, cable : {usb.cable}, token : {0}]
             \cup [what : {"confirm"}, cable : {usb.cable}, token : 1 .. exec.next]

(* Frames of the host protocol are sent only inside a binary session. *)
Frame == [what |-> "frame", cable |-> usb.cable, token |-> 0]

Type ==
    /\ usb.up
    /\ Len(rx) < MaxTyped
    /\ \E piece \in (IF cli.binary THEN {Frame} ELSE Pieces) : rx' = Append(rx, piece)
    /\ UNCHANGED <<usb, pc, cli, exec, slot, owner, stop, History>>

-----------------------------------------------------------------------------
(* The slot, PlatformControlDispatcher. *)

Queued(request) ==
    [slot EXCEPT !.state = "queued", !.request = request, !.ticket = @ + 1,
                 !.age = 0, !.abandoned = FALSE]

(* A free slot, whose contents nobody reads. *)
Free == [NoSlot EXCEPT !.ticket = slot.ticket, !.closing = slot.closing]

(* Giving up on a request: one being executed is abandoned, and its slot   *)
(* stays taken until the owner has finished with it.                       *)
GivenUp == IF slot.state = "executing" THEN [slot EXCEPT !.abandoned = TRUE]
                                       ELSE Free

Changes(request) == request.op \in Writes

Expired == slot.age >= Patience

(* Take: what the console is told of its request while it waits. *)
Answer ==
    CASE slot.state = "complete" -> slot.status
      [] slot.state # "complete" /\ Expired /\ ~slot.closing ->
             IF slot.state = "executing" /\ Changes(slot.request) THEN "unknown" ELSE "timeout"
      [] OTHER -> "pending"

(* Cancel: an interrupt is certain only of what was not begun. *)
Cancelled ==
    IF exec.ticket # 0 /\ Changes(slot.request)
       /\ (slot.state = "executing" \/ (slot.state = "complete" /\ slot.status = "ok"))
      THEN "unknown" ELSE "cancelled"

Mine == exec.ticket # 0 /\ exec.ticket = slot.ticket /\ slot.state # "idle"

-----------------------------------------------------------------------------
(* The executor. *)

Says(ticket, what) == IF ticket = 0 THEN told ELSE [told EXCEPT ![ticket] = what]

(* CancelStatus, from Ctrl+C, from a rejected line, and from a reset.      *)
ExecutorCancel(reported) ==
    /\ exec' = [NoExec EXCEPT !.next = exec.next]
    /\ slot' = IF Mine THEN GivenUp ELSE slot
    /\ told' = IF Mine /\ reported THEN Says(exec.ticket, Cancelled) ELSE told

(* Seeded fault: a prompt waits for its confirmation through other commands. *)
ForgetsNot(e) == e

(* Any other command forgets a prompt that was not confirmed. *)
Forgets(e) == [e EXCEPT !.token = 0, !.request = None]

Untouched == told' = told /\ effects' = effects

(* DiagnosticExecutor::Submit, and the errors of the slot.  With the owner *)
(* at rest, nothing more can become of earlier tickets: their history ends.*)
SubmitRequest(e, request) ==
    IF slot.closing \/ slot.state # "idle" \/ slot.ticket = MaxTickets
      THEN /\ exec' = [NoExec EXCEPT !.next = e.next] /\ slot' = slot
           /\ cli' = [cli EXCEPT !.line = << >>]
           /\ Untouched
      ELSE /\ slot' = Queued(request)
           /\ IF owner = None THEN told' = Untold /\ effects' = NoEffects ELSE Untouched
           /\ exec' = [e EXCEPT !.active = TRUE, !.ticket = slot.ticket + 1, !.ready = FALSE]
           /\ cli' = [cli EXCEPT !.line = << >>, !.active = TRUE]

Confirms(piece) == piece.token = exec.token /\ exec.token # 0 /\ exec.left > 0

(* Execute: what the words of a line ask for. *)
Execute(piece) ==
    LET word == piece.what
        plain == Forgets(exec)
        stays == slot' = slot /\ cli' = [cli EXCEPT !.line = << >>] /\ Untouched
    IN  CASE word = "confirm" /\ Confirms(piece) ->
               SubmitRequest(Forgets(exec), [op |-> exec.request, confirmed |-> TRUE])
                  /\ fresh' = None
          [] word = "confirm" /\ ~Confirms(piece) ->
               stays /\ exec' = Forgets(exec) /\ fresh' = None
          [] word = "host" ->
               /\ cli' = [cli EXCEPT !.line = << >>, !.binary = TRUE]
               /\ exec' = plain /\ slot' = slot /\ fresh' = None /\ Untouched
          [] word = "follow" ->
               /\ cli' = [cli EXCEPT !.line = << >>, !.active = TRUE]
               /\ exec' = [plain EXCEPT !.active = TRUE]
               /\ slot' = slot /\ fresh' = None /\ Untouched
          [] word \in Reads ->
               SubmitRequest(plain, [op |-> word, confirmed |-> FALSE]) /\ fresh' = None
          [] word \in Writes /\ exec.next < MaxTokens ->
               /\ stays
               /\ exec' = [exec EXCEPT !.request = word, !.next = @ + 1,
                                       !.token = exec.next + 1, !.left = Deadline]
               /\ fresh' = word
          [] OTHER -> stays /\ exec' = plain /\ fresh' = None

-----------------------------------------------------------------------------
(* The console task, CliUsbService::Impl::Run and CliSession::Poll.        *)

(* Seeded fault: a disconnect is seen only while it lasts. *)
SeenNow == ~usb.up

(* IsConnected keeps every disconnect it saw until the task handles it. *)
Seen == usb.latch \/ ~usb.up

Noticed == [usb EXCEPT !.latch = Seen, !.noted = @ \/ ~usb.up]

(* CliSession::Reset. *)
SessionReset ==
    /\ cli' = [on |-> FALSE, line |-> << >>, active |-> FALSE, binary |-> FALSE]
    /\ ExecutorCancel(FALSE)
    /\ rx' = << >>
    /\ fresh' = None

Flush ==
    /\ pc = "flush" /\ ~stop
    /\ usb' = Noticed
    /\ rx' = IF Seen THEN << >> ELSE rx
    /\ pc' = "look"
    /\ UNCHANGED <<cli, exec, slot, owner, stop, History>>

(* TakeDisconnect. *)
Look ==
    /\ pc = "look"
    /\ usb' = [usb EXCEPT !.latch = FALSE]
    /\ pc' = "poll"
    /\ IF usb.latch /\ cli.on THEN SessionReset
                              ELSE UNCHANGED <<cli, exec, slot, rx, told, fresh>>
    /\ UNCHANGED <<owner, stop, effects>>

Poll ==
    /\ pc = "poll"
    /\ usb' = Noticed
    /\ IF Seen
         THEN /\ pc' = "flush"
              /\ IF cli.on THEN SessionReset ELSE UNCHANGED <<cli, exec, slot, rx, told, fresh>>
         ELSE /\ pc' = IF cli.binary THEN "binary" ELSE "read"
              /\ cli' = [cli EXCEPT !.on = TRUE]
              /\ UNCHANGED <<exec, slot, rx, told, fresh>>
    /\ UNCHANGED <<owner, stop, effects>>

(* Of a line of several pieces no command comes; where they were typed is  *)
(* all that is left to tell.                                               *)
Joined(line, piece) ==
    LET place(k) == [k EXCEPT !.what = IF @ = "frame" THEN @ ELSE "words", !.token = 0]
    IN  CASE line = << >> -> <<piece>>
          [] Len(line) = 1 -> <<place(line[1]), place(piece)>>
          [] OTHER -> line

(* ProcessByte, one piece a poll: an interrupt before anything else,       *)
(* nothing more while a command runs, the rest into the line.              *)
Read ==
    /\ pc = "read"
    /\ usb' = Noticed
    /\ rx # << >> /\ ~Seen
    /\ LET piece == Head(rx)
           entered == piece.what = "enter" /\ ~cli.active
       IN  /\ pc' = "run"
           /\ CASE piece.what = "break" ->
                     /\ cli' = [cli EXCEPT !.line = << >>, !.active = FALSE]
                     /\ ExecutorCancel(TRUE)
                     /\ fresh' = None /\ effects' = effects
                [] piece.what # "break" /\ cli.active -> UNCHANGED <<cli, exec, slot, History>>
                [] entered /\ Len(cli.line) = 1 ->
                     Execute(Head(cli.line))
                [] entered /\ Len(cli.line) > 1 ->        \* words no command has
                     /\ cli' = [cli EXCEPT !.line = << >>]
                     /\ ExecutorCancel(FALSE)
                     /\ fresh' = None /\ effects' = effects
                [] entered /\ cli.line = << >> ->
                     UNCHANGED <<cli, exec, slot, History>>
                [] OTHER ->
                     /\ cli' = [cli EXCEPT !.line = Joined(@, piece)]
                     /\ UNCHANGED <<exec, slot, History>>
           /\ rx' = IF cli'.binary THEN << >> ELSE Tail(rx)
    /\ UNCHANGED <<owner, stop>>

ReadNothing ==
    /\ pc = "read"
    /\ usb' = Noticed
    /\ rx = << >> \/ Seen
    /\ pc' = "run"
    /\ UNCHANGED <<rx, cli, exec, slot, owner, stop, History>>

(* Poll and FormatResult: the answer is taken once, then shown page by page. *)
RunCommand ==
    /\ pc = "run"
    /\ pc' = "flush"
    /\ IF ~cli.active \/ (exec.ticket = 0 /\ ~exec.ready)
         THEN UNCHANGED <<cli, exec, slot, told>>
         ELSE IF exec.ready
           THEN \/ UNCHANGED <<cli, exec, slot, told>>                  \* another page
                \/ /\ exec' = [exec EXCEPT !.active = FALSE, !.ready = FALSE]
                   /\ cli' = [cli EXCEPT !.active = FALSE]
                   /\ UNCHANGED <<slot, told>>
           ELSE LET answer == IF Mine /\ ~slot.abandoned THEN Answer ELSE "unavailable"
                IN  CASE answer = "pending" -> UNCHANGED <<cli, exec, slot, told>>
                      [] answer = "ok" ->
                           /\ slot' = Free
                           /\ exec' = [exec EXCEPT !.ticket = 0, !.ready = TRUE]
                           /\ told' = Says(exec.ticket, IF slot.answer = exec.ticket
                                                          THEN "ok" ELSE "another's")
                           /\ UNCHANGED cli
                      [] OTHER ->
                           /\ slot' = IF Mine THEN GivenUp ELSE slot
                           /\ exec' = [NoExec EXCEPT !.next = exec.next]
                           /\ cli' = [cli EXCEPT !.active = FALSE]
                           /\ told' = Says(exec.ticket, answer)
    /\ UNCHANGED <<usb, rx, owner, stop, fresh, effects>>

(* A binary session has the transport to itself until its peer closes it. *)
Binary ==
    /\ pc = "binary"
    /\ pc' = "flush"
    /\ \/ rx' = << >> /\ UNCHANGED cli
       \/ rx' = << >> /\ cli' = [cli EXCEPT !.binary = FALSE, !.line = << >>]
    /\ UNCHANGED <<usb, exec, slot, owner, stop, History>>

(* The peer stopped reading and the output is full: the session is reset.  *)
OutputFull ==
    /\ pc \in {"read", "run"} /\ cli.on
    /\ usb' = Noticed
    /\ pc' = "flush"
    /\ SessionReset
    /\ UNCHANGED <<owner, stop, effects>>

(* The task saw stop_requested: it resets its session and is gone. *)
Leave ==
    /\ pc = "flush" /\ stop
    /\ pc' = "gone"
    /\ SessionReset
    /\ UNCHANGED <<usb, owner, stop, effects>>

-----------------------------------------------------------------------------
(* The foreground owner, in the wait hook of its input service.  Its       *)
(* attempt at the lock may fail; it comes back within a quarter second.    *)
Dispatch ==
    /\ owner = None
    /\ ~slot.closing
    /\ slot.state = "queued"
    /\ IF Expired
         THEN slot' = [slot EXCEPT !.state = "complete", !.status = "timeout"] /\ UNCHANGED owner
         ELSE slot' = [slot EXCEPT !.state = "executing"] /\ owner' = [op |-> slot.request.op, ticket |-> slot.ticket]
    /\ UNCHANGED <<usb, Console, stop, History>>

(* What the owner answers, and whether the change was made: a setting may  *)
(* have landed though its commit answered an error (storage_service.cc).   *)
Outcomes == {[status |-> "ok", made |-> TRUE], [status |-> "unavailable", made |-> FALSE],
             [status |-> "unavailable", made |-> TRUE]}

(* PlatformDiagnostics::Inspect has run. *)
Inspected ==
    /\ owner # None
    /\ owner' = None
    /\ \E o \in Outcomes :
          /\ slot' = IF slot.abandoned THEN Free
                     ELSE [slot EXCEPT !.state = "complete", !.status = o.status, !.answer = owner.ticket]
          /\ effects' = IF o.made /\ owner.op \in Writes
                          THEN [made |-> effects.made \cup {owner.ticket},
                                erred |-> effects.erred \cup (IF o.status = "ok" THEN {} ELSE {owner.ticket})]
                          ELSE effects
    /\ UNCHANGED <<usb, Console, stop, fresh, told>>

(* StopMaintenance: the slot is closed, then the console task stopped. *)
Shutdown ==
    /\ owner = None
    /\ ~slot.closing
    /\ slot' = [slot EXCEPT !.closing = TRUE,
                  !.state = IF @ = "queued" THEN "complete" ELSE @,
                  !.status = IF slot.state = "complete" /\ Changes(slot.request) THEN "unknown"
                             ELSE IF slot.state \in {"queued", "complete"} THEN "unavailable" ELSE @]
    /\ UNCHANGED <<usb, Console, owner, stop, History>>

StopConsole ==
    /\ slot.closing /\ ~stop
    /\ stop' = TRUE
    /\ UNCHANGED <<usb, Console, slot, owner, History>>

Tick ==
    /\ \/ slot.state \in {"queued", "executing"} /\ slot.age < Patience
       \/ exec.left > 0
    /\ slot' = [slot EXCEPT !.age = IF slot.state \in {"queued", "executing"} /\ @ < Patience
                                      THEN @ + 1 ELSE @]
    /\ exec' = [exec EXCEPT !.left = IF @ > 0 THEN @ - 1 ELSE 0]
    /\ fresh' = IF exec.left = 1 THEN None ELSE fresh
    /\ UNCHANGED <<usb, pc, cli, rx, owner, stop, effects, told>>

ConsoleTask == Flush \/ Look \/ Poll \/ Read \/ ReadNothing \/ RunCommand \/ Binary \/ OutputFull \/ Leave
Owner == Dispatch \/ Inspected

Next == Plug \/ Unplug \/ Type \/ ConsoleTask \/ Owner \/ Shutdown \/ StopConsole \/ Tick

Spec == Init /\ [][Next]_vars

-----------------------------------------------------------------------------
TypeOK ==
    /\ usb \in [up : BOOLEAN, cable : {0, 1}, latch : BOOLEAN, noted : BOOLEAN]
    /\ Len(rx) <= MaxTyped
    /\ pc \in {"flush", "look", "poll", "read", "run", "binary", "gone"}
    /\ cli.on \in BOOLEAN /\ cli.active \in BOOLEAN /\ cli.binary \in BOOLEAN
    /\ exec.ticket \in {0} \cup Tickets /\ exec.request \in Writes \cup {None}
    /\ exec.token \in 0 .. MaxTokens
    /\ slot.state \in {"idle", "queued", "executing", "complete"}
    /\ slot.ticket \in {0} \cup Tickets
    /\ effects.erred \subseteq effects.made /\ effects.made \subseteq Tickets
    /\ stop \in BOOLEAN

(* The user is never told that a change was not made when it was or still  *)
(* will be, whatever crossed: a timeout, an interrupt, a late owner.  And  *)
(* an answer is the answer to the request it was asked for, and reports    *)
(* what was made.  note4_cli_session.cc:32: "outcome unknown; inspect      *)
(* device before retrying".  Two interrupts are apart: during the          *)
(* platform's shutdown (CancelIsCertain), and between the owner's error    *)
(* for a change that was made and the console's taking it.                 *)
ToldTruly ==
    \A t \in Tickets :
        /\ told[t] = "timeout" => t \notin effects.made
        /\ told[t] = "cancelled" /\ t \in effects.made => slot.closing \/ t \in effects.erred
        /\ told[t] = "ok" => t \notin effects.erred
        /\ told[t] # "another's"

(* docs/MAINTENANCE_CLI_CONTRACT.md:396: "Executing cancellation, shutdown *)
(* or timeout with no provable result reports unknown outcome": of what    *)
(* the owner did and reported done, an interrupt is never told to have     *)
(* been in time.  It does not hold: Shutdown makes the result of a         *)
(* finished change unknown, and Cancel takes only "ok" for a sign that it  *)
(* was made (note4_cli_control.cc:65-66, 99-101).                          *)
CancelIsCertain ==
    \A t \in Tickets : told[t] = "cancelled" => t \notin effects.made \ effects.erred

(* A line that runs was typed in the connection it runs in, and frames of  *)
(* the binary protocol are never words of a command.                       *)
LineIsOwn ==
    \A k \in 1 .. Len(cli.line) :
        /\ cli.line[k].what # "frame"
        /\ \A j \in 1 .. Len(cli.line) : cli.line[j].cable = cli.line[k].cable

(* A change reaches the owner's slot only as the answer to the prompt just *)
(* shown for it: no other command, interrupt, cable or deadline between    *)
(* them (note4_cli_diagnostics.cc:481, "any other command or Ctrl+C        *)
(* cancels").                                                              *)
ConfirmedStep ==
    slot.state # "queued" /\ slot'.state = "queued" /\ Changes(slot'.request)
         => slot'.request.confirmed /\ fresh = slot'.request.op

ConfirmedOnly == [][ConfirmedStep]_vars
=============================================================================
