---------------------------- MODULE CompanionSync ----------------------------
(***************************************************************************)
(* Durable synchronization between a Note4 and its phone: a SyncSession    *)
(* over a SyncEngine on one side, a CompanionSyncSession over a            *)
(* DurableQueue on the other, and a BLE link between them that loses       *)
(* frames and drops.  Either side may restart at any point and any save    *)
(* may fail, with or without having reached the store.                     *)
(*                                                                         *)
(* The two sessions mirror each other, so one definition serves both; what *)
(* they decide about a key comes from the instance of their own engine.    *)
(* Clocks are abstracted: a retry or a progress timeout may fire whenever  *)
(* it is armed.  With Prompt they fire only when no answer is on its way.  *)
(***************************************************************************)
EXTENDS SyncState, Sequences

CONSTANTS
    MaxAttempts,   \* kMaximumAttempts, 3 in the code
    MaxPut,        \* bound: [Sides -> last revision a side enqueues]
    MaxFaults,     \* bound: losses, drops, failed saves, restarts, timeouts
    MaxInFlight,   \* bound: frames on their way to one side
    Prompt         \* answers outrun the retry timer

Sides == {"note4", "phone"}
Peer(s) == IF s = "note4" THEN "phone" ELSE "note4"

VARIABLES
    mem, disk,     \* per side: volatile engine state, committed record
    owner,         \* the reader's committed snapshot: revision and value per key
    sess,          \* per side: the session
    link,          \* the BLE connection exists
    air,           \* per side: frames on their way to it, in order
    faults,
    forgot         \* history: the Note4 has erased its record of this phone

system == <<mem, disk, owner, sess, link, air, faults>>
vars == <<mem, disk, owner, sess, link, air, faults, forgot>>

Note4 == INSTANCE SyncEngine
            WITH mem <- mem["note4"], disk <- disk["note4"], open <- TRUE,
                 recovered <- FALSE, NoRecord <- NoValue, Damaged <- NoValue
Phone == INSTANCE DurableQueue
            WITH entries <- mem["phone"], file <- disk["phone"], loaded <- TRUE,
                 NoFile <- NoValue, Damaged <- NoValue

ASSUME BoundsOK ==
    /\ MaxPut \in [Sides -> Revisions]
    /\ MaxAttempts \in Nat \ {0} /\ MaxFaults \in Nat /\ MaxInFlight \in Nat \ {0}
    /\ Prompt \in BOOLEAN

\* NoValue also stands for a record that was never written.
ASSUME NoRecordIsNone == NoValue \notin EngineState

-----------------------------------------------------------------------------
(* Frames and sessions.                                                    *)

StateFrame(seq, k, r, v) == [type |-> "state", seq |-> seq, key |-> k, rev |-> r, val |-> v]
ReplyFrame(seq, k, r, res) == [type |-> "reply", seq |-> seq, key |-> k, rev |-> r, result |-> res]
Hello(cursors) == [type |-> "hello", cursors |-> cursors]
HelloAck(cursors) == [type |-> "helloack", cursors |-> cursors]
Rejected == [type |-> "rejected"]

\* out and reply hold at most one frame; last is the last state frame taken.
Disconnected(s) ==
    [status |-> "disconnected", out |-> {}, attempts |-> 0, reply |-> {},
     after |-> "active", lastSeq |-> 0, last |-> {},
     next |-> IF s = "note4" THEN 1 ELSE 2,
     awaited |-> [k \in Keys |-> 0]]

Active(s) == sess[s].status = "active"
Failed(s) == sess[s].status \in {"protocol_error", "store_error", "timeout"}

Pending(s) == {k \in Keys : mem[s][k].pend # 0}

\* Nothing queued or in flight, and all the peer advertised has arrived.
Converged(s) ==
    /\ Active(s)
    /\ sess[s].out = {} /\ sess[s].reply = {}
    /\ Pending(s) = {}
    /\ \A k \in Keys : sess[s].awaited[k] <= mem[s][k].app

\* Seeded faults, each with the properties it breaks.

\* BytesAgree: the cursor is stored without its value.
AcceptKeepsOld(s, k, r, v) ==
    [mem[s] EXCEPT ![k] = [@ EXCEPT !.present = TRUE, !.app = r, !.irev = r]]

\* PeersAgree, IsTransfer: a value that was not saved is acknowledged.
AnsweredAccepted(s, f, result) ==
    sess' = [sess EXCEPT ![s] = [@ EXCEPT
        !.reply = {ReplyFrame(f.seq, f.key, f.rev, "accepted")},
        !.after = "active", !.lastSeq = f.seq, !.last = {f}]]

\* Delivered: a failed session keeps its connection.
HangUpUnanswered(s) ==
    /\ sess[s].status = "hello" /\ link /\ \A t \in Sides : air[t] = <<>>
    /\ link' = FALSE
    /\ sess' = [sess EXCEPT ![s] = Disconnected(s)]
    /\ UNCHANGED <<mem, disk, owner, air, faults>>

\* EventuallyConverged: a working session survives its connection.
NoticeDisconnectIdle(s) ==
    /\ ~link /\ sess[s].status = "hello"
    /\ sess' = [sess EXCEPT ![s] = Disconnected(s)]
    /\ UNCHANGED <<mem, disk, owner, link, air, faults>>

-----------------------------------------------------------------------------
(* What a session decides about a key is its engine's decision.            *)

AcceptStatus(s, k, r, v) ==
    IF s = "note4" THEN Note4!AcceptStatus(mem[s], k, r, v)
                   ELSE Phone!AcceptStatus(mem[s], k, r, v)
AcknowledgeStatus(s, k, r) ==
    IF s = "note4" THEN Note4!AcknowledgeStatus(mem[s], k, r)
                   ELSE Phone!AcknowledgeStatus(mem[s], k, r)
Accept(s, k, r, v) ==
    IF s = "note4" THEN Note4!Accept(mem[s], k, r, v) ELSE Phone!Accept(mem[s], k, r, v)
Acknowledge(s, k, r) ==
    IF s = "note4" THEN Note4!Acknowledge(mem[s], k, r) ELSE Phone!Acknowledge(mem[s], k, r)
ReconcileStatus(s, peer) ==
    IF s = "note4" THEN Note4!ReconcileStatus(mem[s], peer)
                   ELSE Phone!ReconcileStatus(mem[s], peer)

-----------------------------------------------------------------------------
(* Shared steps.                                                           *)

Fault == faults < MaxFaults /\ faults' = faults + 1

Saved(s, new) ==
    /\ mem' = [mem EXCEPT ![s] = new]
    /\ disk' = [disk EXCEPT ![s] = new]
    /\ UNCHANGED faults

SaveFailed(s, new) ==
    /\ \E d \in {disk[s], new} : disk' = [disk EXCEPT ![s] = d]
    /\ UNCHANGED mem
    /\ Fault

NothingSaved == UNCHANGED <<mem, disk, faults>>

Busy(s) == Len(air[Peer(s)]) >= MaxInFlight

Send(s, frame) == air' = [air EXCEPT ![Peer(s)] = Append(@, frame)]
Take(s) == air' = [air EXCEPT ![s] = Tail(@)]
TakeAndSend(s, frame) ==
    air' = [air EXCEPT ![s] = Tail(@), ![Peer(s)] = Append(@, frame)]
NoFrames == [s \in Sides |-> <<>>]

Session(s, new) == sess' = [sess EXCEPT ![s] = new]
Fails(s, status) == Session(s, [sess[s] EXCEPT !.status = status])

-----------------------------------------------------------------------------
(* The product owners.                                                     *)

\* The reader commits a bookmark snapshot and its next revision first ...
ReaderSaves(k, v) ==
    /\ owner[k].rev < MaxPut["note4"]
    /\ owner' = [owner EXCEPT ![k] = [rev |-> @.rev + 1, val |-> v]]
    /\ UNCHANGED <<mem, disk, sess, link, air, faults>>

\* ... and publishes exactly that, again after a failure or a reboot.
ReaderPublishes(k) ==
    LET r == owner[k].rev
        v == owner[k].val
    IN /\ r # 0
       /\ Note4!PutStatus(mem["note4"], k, r, v) = "Ok"
       /\ \/ Saved("note4", Note4!Put(mem["note4"], k, r, v))
          \/ SaveFailed("note4", Note4!Put(mem["note4"], k, r, v))
       /\ UNCHANGED <<owner, sess, link, air>>

\* The phone numbers its own updates from its cursors.
PhoneEnqueues(k, v) ==
    LET r == Phone!NextRevision(mem["phone"], k)
    IN /\ r <= MaxPut["phone"]
       /\ Phone!EnqueueStatus(mem["phone"], k, v) = "Ok"
       /\ \/ Saved("phone", Phone!Put(mem["phone"], k, r, v))
          \/ SaveFailed("phone", Phone!Put(mem["phone"], k, r, v))
       /\ UNCHANGED <<owner, sess, link, air>>

-----------------------------------------------------------------------------
(* Connecting: Hello carries the phone's cursors, HelloAck the Note4's.    *)

Connect ==
    /\ ~link
    /\ \A s \in Sides : sess[s].status = "disconnected"
    /\ link' = TRUE
    /\ Session("phone", [sess["phone"] EXCEPT !.status = "hello"])
    /\ air' = [air EXCEPT !["note4"] = <<Hello(CursorsOf(mem["phone"]))>>]
    /\ UNCHANGED <<mem, disk, owner, faults>>

Started(s, cursors, seq) ==
    [Disconnected(s) EXCEPT
        !.status = "active", !.lastSeq = seq,
        !.awaited = [k \in Keys |-> cursors[k].pend]]

ReceiveHello ==
    /\ air["note4"] # <<>> /\ Head(air["note4"]).type = "hello"
    /\ LET cursors == Head(air["note4"]).cursors
           new == Reconciled(mem["note4"], cursors)
           ok == ReconcileStatus("note4", cursors) = "Ok"
       IN \/ /\ ok /\ IF new = mem["note4"] THEN NothingSaved ELSE Saved("note4", new)
             /\ Session("note4", Started("note4", cursors, 1))
             /\ TakeAndSend("note4", HelloAck(CursorsOf(new)))
          \/ /\ \/ ok /\ new # mem["note4"] /\ SaveFailed("note4", new)
                \/ ~ok /\ NothingSaved
             /\ Session("note4", Disconnected("note4"))
             /\ TakeAndSend("note4", Rejected)
    /\ UNCHANGED <<owner, link>>

ReceiveHelloAck ==
    /\ sess["phone"].status = "hello"
    /\ air["phone"] # <<>> /\ Head(air["phone"]).type \in {"helloack", "rejected"}
    /\ Take("phone")
    /\ IF Head(air["phone"]).type = "rejected"
       THEN Fails("phone", "protocol_error") /\ NothingSaved
       ELSE LET cursors == Head(air["phone"]).cursors
                new == Reconciled(mem["phone"], cursors)
                ok == ReconcileStatus("phone", cursors) = "Ok"
                change == Phone!NeedsReconcile(mem["phone"], cursors)
            IN \/ /\ ok /\ IF change THEN Saved("phone", new) ELSE NothingSaved
                  /\ Session("phone", Started("phone", cursors, 0))
               \/ /\ \/ ok /\ change /\ SaveFailed("phone", new)
                     \/ ~ok /\ NothingSaved
                  /\ Fails("phone", "store_error")
    /\ UNCHANGED <<owner, link>>

-----------------------------------------------------------------------------
(* SyncSession::Poll.                                                      *)

\* A queued reply goes first; a NACK ends the session once it is sent.
PollReply(s) ==
    /\ Active(s) /\ ~Busy(s)
    /\ \E reply \in sess[s].reply :
        /\ Send(s, reply)
        /\ Session(s, [sess[s] EXCEPT !.reply = {}, !.status = sess[s].after])
    /\ UNCHANGED <<mem, disk, owner, link, faults>>

\* A new update is admitted, and sent unless the transmitter is busy.
PollAdmit(s) ==
    /\ Active(s)
    /\ sess[s].reply = {} /\ sess[s].out = {}
    /\ \E k \in Pending(s), sent \in BOOLEAN :
        LET frame == StateFrame(sess[s].next, k, mem[s][k].pend, mem[s][k].pval)
        IN /\ Session(s, [sess[s] EXCEPT !.out = {frame}, !.next = @ + 1,
                                        !.attempts = IF sent THEN 1 ELSE 0])
           /\ IF sent THEN ~Busy(s) /\ Send(s, frame)
                      ELSE Busy(s) /\ UNCHANGED air
    /\ UNCHANGED <<mem, disk, owner, link, faults>>

RetryDue(s) ==
    \/ sess[s].attempts = 0
    \/ ~Prompt
    \/ air = NoFrames /\ sess[Peer(s)].reply = {}

\* The original frame again, whatever replaced its outbox entry since.
PollRetry(s) ==
    /\ Active(s) /\ sess[s].reply = {}
    /\ RetryDue(s)
    /\ \E frame \in sess[s].out :
        \/ /\ sess[s].attempts < MaxAttempts /\ ~Busy(s)
           /\ Send(s, frame)
           /\ Session(s, [sess[s] EXCEPT !.attempts = @ + 1])
        \/ /\ sess[s].attempts = MaxAttempts
           /\ Fails(s, "timeout") /\ UNCHANGED air
    /\ UNCHANGED <<mem, disk, owner, link, faults>>

\* No progress for kProgressTimeoutMs.
PollTimeout(s) ==
    /\ Active(s) /\ ~Converged(s)
    /\ Fault
    /\ Fails(s, "timeout")
    /\ UNCHANGED <<mem, disk, owner, link, air>>

-----------------------------------------------------------------------------
(* SyncSession::Receive.                                                   *)

\* Only the answer to the frame in flight counts, and only once it was sent.
ReceiveReply(s) ==
    /\ Active(s)
    /\ air[s] # <<>> /\ Head(air[s]).type = "reply"
    /\ Take(s)
    /\ LET f == Head(air[s])
           mine == sess[s].attempts # 0 /\
                   \E o \in sess[s].out : o.seq = f.seq /\ o.key = f.key /\ o.rev = f.rev
           new == Acknowledge(s, f.key, f.rev)
           status == AcknowledgeStatus(s, f.key, f.rev)
           done == Session(s, [sess[s] EXCEPT !.out = {}])
       IN IF ~mine THEN UNCHANGED sess /\ NothingSaved
          ELSE IF f.result # "accepted"
               THEN /\ Fails(s, IF f.result = "store_error" THEN "store_error"
                                                            ELSE "protocol_error")
                    /\ NothingSaved
          ELSE \/ status = "Ok" /\ Saved(s, new) /\ done
               \/ status = "Ok" /\ SaveFailed(s, new) /\ Fails(s, "store_error")
               \/ status = "Duplicate" /\ NothingSaved /\ done
               \/ status \notin {"Ok", "Duplicate"} /\ NothingSaved /\ Fails(s, "store_error")
    /\ UNCHANGED <<owner, link>>

ResultOf(status) ==
    IF status \in {"Ok", "Duplicate"} THEN "accepted"
    ELSE IF status = "Full" THEN "capacity" ELSE "invalid"

\* The answer is queued; a refusal ends the session after it was sent.
Answered(s, f, result) ==
    Session(s, [sess[s] EXCEPT
        !.reply = {ReplyFrame(f.seq, f.key, f.rev, result)},
        !.after = IF result = "accepted" THEN "active"
                  ELSE IF result = "store_error" THEN "store_error" ELSE "protocol_error",
        !.lastSeq = f.seq, !.last = {f}])

OutOfOrder(s, f) ==
    \/ f.seq < sess[s].lastSeq
    \/ f.seq = sess[s].lastSeq /\ sess[s].last # {f}
    \/ sess[s].reply # {} /\ f.seq # sess[s].lastSeq

ReceiveState(s) ==
    /\ Active(s)
    /\ air[s] # <<>> /\ Head(air[s]).type = "state"
    /\ Take(s)
    /\ LET f == Head(air[s])
           new == Accept(s, f.key, f.rev, f.val)
           status == AcceptStatus(s, f.key, f.rev, f.val)
       IN \/ OutOfOrder(s, f) /\ Fails(s, "protocol_error") /\ NothingSaved
          \/ ~OutOfOrder(s, f) /\ sess[s].reply # {} /\ UNCHANGED sess /\ NothingSaved
          \/ /\ ~OutOfOrder(s, f) /\ sess[s].reply = {}
             /\ \/ status = "Ok" /\ Saved(s, new) /\ Answered(s, f, "accepted")
                \/ status = "Ok" /\ SaveFailed(s, new) /\ Answered(s, f, "store_error")
                \/ status # "Ok" /\ NothingSaved /\ Answered(s, f, ResultOf(status))
    /\ UNCHANGED <<owner, link>>

\* Anything else is logged and dropped.
Ignore(s) ==
    /\ air[s] # <<>>
    /\ \/ Head(air[s]).type \in {"state", "reply"} /\ ~Active(s)
       \/ s = "phone" /\ Head(air[s]).type \in {"helloack", "rejected"}
          /\ sess[s].status # "hello"
    /\ Take(s)
    /\ UNCHANGED <<mem, disk, owner, sess, link, faults>>

-----------------------------------------------------------------------------
(* Losing frames, the link, and everything volatile.                       *)

Down == link' = FALSE /\ air' = NoFrames

\* A failed session drops the connection; so does a Hello left unanswered.
HangUp(s) ==
    /\ \/ Failed(s)
       \/ sess[s].status = "hello" /\ link /\ air = NoFrames
    /\ Down
    /\ Session(s, Disconnected(s))
    /\ UNCHANGED <<mem, disk, owner, faults>>

NoticeDisconnect(s) ==
    /\ ~link /\ sess[s].status # "disconnected"
    /\ Session(s, Disconnected(s))
    /\ UNCHANGED <<mem, disk, owner, link, air, faults>>

Lose(s) ==
    /\ air[s] # <<>> /\ Fault
    /\ Take(s)
    /\ UNCHANGED <<mem, disk, owner, sess, link>>

Drop ==
    /\ link /\ Fault /\ Down
    /\ UNCHANGED <<mem, disk, owner, sess>>

Restart(s) ==
    /\ Fault /\ Down
    /\ mem' = [mem EXCEPT ![s] = disk[s]]
    /\ Session(s, Disconnected(s))
    /\ UNCHANGED <<disk, owner>>

\* ClearPeerBonds without a connection: the Note4 erases its durable record and
\* starts an empty engine.  The reader keeps its snapshot, the phone its file.
ForgetPeer ==
    /\ ~link
    /\ Fault
    /\ mem' = [mem EXCEPT !["note4"] = Empty]
    /\ disk' = [disk EXCEPT !["note4"] = Empty]
    /\ Session("note4", Disconnected("note4"))
    /\ forgot' = TRUE
    /\ UNCHANGED <<owner, link, air>>

-----------------------------------------------------------------------------
Init ==
    /\ mem = [s \in Sides |-> Empty]
    /\ disk = [s \in Sides |-> Empty]
    /\ owner = [k \in Keys |-> [rev |-> 0, val |-> NoValue]]
    /\ sess = [s \in Sides |-> Disconnected(s)]
    /\ link = FALSE
    /\ air = NoFrames
    /\ faults = 0
    /\ forgot = FALSE

SessionStep(s) ==
    \/ PollReply(s) \/ PollAdmit(s) \/ PollRetry(s)
    \/ ReceiveReply(s) \/ ReceiveState(s) \/ Ignore(s)
    \/ HangUp(s) \/ NoticeDisconnect(s)

Handshake == Connect \/ ReceiveHello \/ ReceiveHelloAck

Environment(s) == PollTimeout(s) \/ Lose(s) \/ Restart(s)

Owners ==
    \E k \in Keys :
        \/ ReaderPublishes(k)
        \/ \E v \in Values : ReaderSaves(k, v) \/ PhoneEnqueues(k, v)

\* Whatever happens while the Note4 keeps its phone.
Paired ==
    \/ Owners
    \/ Handshake
    \/ \E s \in Sides : SessionStep(s) \/ Environment(s)
    \/ Drop

Next ==
    \/ Paired /\ UNCHANGED forgot
    \/ ForgetPeer

Spec == Init /\ [][Next]_vars

\* Each owner task keeps polling, taking frames and reconnecting; owners retry
\* a publication that failed.  Faults are finitely many (MaxFaults).
Fairness ==
    /\ \A s \in Sides : /\ WF_system(PollReply(s)) /\ WF_system(PollAdmit(s))
                        /\ WF_system(PollRetry(s)) /\ WF_system(ReceiveReply(s))
                        /\ WF_system(ReceiveState(s)) /\ WF_system(Ignore(s))
                        /\ WF_system(HangUp(s)) /\ WF_system(NoticeDisconnect(s))
    /\ WF_system(Connect) /\ WF_system(ReceiveHello) /\ WF_system(ReceiveHelloAck)
    /\ \A k \in Keys : WF_system(ReaderPublishes(k))

\* Progress is promised while the Note4 keeps its phone.
FairSpec == Init /\ [][Paired /\ UNCHANGED forgot]_vars /\ Fairness

-----------------------------------------------------------------------------
(* What must hold.                                                         *)

Frame ==
    [type : {"state"}, seq : Nat \ {0}, key : Keys, rev : Revisions \ {0}, val : Values]
    \cup [type : {"reply"}, seq : Nat \ {0}, key : Keys, rev : Revisions \ {0},
          result : {"accepted", "store_error", "capacity", "invalid"}]
    \cup [type : {"hello", "helloack"}, cursors : [Keys -> Cursor]]
    \cup [type : {"rejected"}]

TypeOK ==
    /\ mem \in [Sides -> EngineState] /\ disk \in [Sides -> EngineState]
    /\ owner \in [Keys -> [rev : Revisions, val : Values \cup {NoValue}]]
    /\ \A s \in Sides :
        /\ sess[s].status \in {"disconnected", "hello", "active",
                               "protocol_error", "store_error", "timeout"}
        /\ sess[s].out \subseteq Frame /\ sess[s].reply \subseteq Frame
        /\ Cardinality(sess[s].out) <= 1 /\ Cardinality(sess[s].reply) <= 1
        /\ sess[s].attempts \in 0..MaxAttempts
        /\ air[s] \in Seq(Frame)
    /\ link \in BOOLEAN /\ faults \in 0..MaxFaults

\* An acknowledged revision is durable at its receiver: what a sender retired,
\* in memory or in a record it may reload, the other side has on its store,
\* through lost ACKs, stale ACKs, failed saves and restarts of both.
AckedIsDurableThere ==
    \A s \in Sides, k \in Keys :
        /\ mem[s][k].ack <= disk[Peer(s)][k].app
        /\ disk[s][k].ack <= disk[Peer(s)][k].app

\* The receiver never runs ahead of what its sender still knows: a revision
\* applied there is acknowledged or pending here, now and after any restart.
AppliedIsKnownHere ==
    \A s \in Sides, k \in Keys : \A m \in {mem[s], disk[s]} :
        disk[Peer(s)][k].app <= Higher(m[k].ack, m[k].pend)

\* A revision names the same bytes on both sides, even when an enqueue or a
\* receive was reported as failed and was on the store after all.
SameBytes ==
    \A s \in Sides, k \in Keys :
      \A m \in {mem[s], disk[s]}, n \in {mem[Peer(s)], disk[Peer(s)]} :
        m[k].pend # 0 /\ m[k].pend = n[k].irev => m[k].pval = n[k].ival

\* Two undamaged stores always reconcile: neither Hello nor HelloAck is
\* answered with "resynchronization required" or "invalid cursors".
NeverResync ==
    \A s \in Sides, i \in 1..MaxInFlight :
        i <= Len(air[s]) /\ air[s][i].type \in {"hello", "helloack"} =>
            ReconcileStatus(s, air[s][i].cursors) \notin {"Resync", "Invalid"}

\* No update in flight is refused as conflicting with what was received before.
NeverConflict ==
    \A s \in Sides : Active(s) =>
        \A f \in sess[Peer(s)].out :
            AcceptStatus(s, f.key, f.rev, f.val) \notin {"Conflict", "Invalid"}

\* Whatever was erased before, two sessions that are both synchronizing agree
\* on the replay window: neither waits for an ACK the other side will not give.
ActiveInWindow ==
    (\A s \in Sides : Active(s)) /\ link =>
        \A s \in Sides, k \in Keys :
            /\ mem[s][k].ack <= mem[Peer(s)][k].app
            /\ mem[Peer(s)][k].app <= Higher(mem[s][k].ack, mem[s][k].pend)

\* Once both sides call the replay converged, they agree: what one
\* acknowledged is what the other applied, and the reader's published snapshot
\* is the phone's received value.
ConvergedAgree ==
    (\A s \in Sides : Converged(s)) =>
        \A k \in Keys :
            /\ mem["note4"][k].ack = mem["phone"][k].app
            /\ mem["phone"][k].ack = mem["note4"][k].app
            /\ owner[k].rev # 0 /\ owner[k].rev = mem["phone"][k].irev =>
                    mem["phone"][k].ival = owner[k].val

\* What one side has retired is durable at the other and what one side applied
\* is still known at the other, so that undamaged stores always reconcile and
\* two sides that call themselves converged agree, through losses, failed saves,
\* restarts and timeouts of both, until the Note4 forgets the phone.  And of two
\* sessions at work neither waits for an ACK the other will not give.
PeersAgree ==
    /\ ~forgot => AckedIsDurableThere /\ AppliedIsKnownHere /\ NeverResync /\ ConvergedAgree
    /\ ActiveInWindow

\* A revision carries the same bytes wherever it is held, so an update in flight
\* is never refused as a conflict (note4_sync_engine.cc AcceptIncomingState,
\* DurableQueue.kt accept).
BytesAgree == SameBytes /\ NeverConflict

\* The phone takes nothing back because the Note4 forgot it: what it retired and
\* what it applied stay so, in memory and through a restart of its own.
PhoneKeepsCursors ==
    \A k \in Keys : /\ mem'["phone"][k].ack >= mem["phone"][k].ack
                    /\ mem'["phone"][k].app >= mem["phone"][k].app

\* Sessions change the two stores by operations of the engine and of the queue
\* only, and the queue takes nothing back because the Note4 forgot the phone
\* (note4_sync_session.cc, CompanionSyncSession.kt).
StoresOnly ==
    [][/\ ForgetPeer \/ Note4!Next \/ UNCHANGED <<mem["note4"], disk["note4"]>>
       /\ Phone!Next \/ UNCHANGED <<mem["phone"], disk["phone"]>>
       /\ PhoneKeepsCursors]_<<mem, disk>>

\* What the contract says of a mismatch (CONNECTIVITY_CONTRACT.md:192): once
\* the peer was forgotten and the reader restored its snapshot, a Hello no
\* longer meets "resynchronization required".
OwnerRestored ==
    \A k \in Keys :
        owner[k].rev <= Higher(mem["note4"][k].ack, mem["note4"][k].pend)

ResetRecovers ==
    OwnerRestored =>
        \A i \in 1..MaxInFlight :
            i <= Len(air["note4"]) /\ air["note4"][i].type = "hello" =>
                ReconcileStatus("note4", air["note4"][i].cursors) # "Resync"

\* Seen from the owners of the data, each direction is the register of
\* DurableTransfer: what waits, what was retired, what the other side applied.
Transfer(s) ==
    [offer |-> [k \in Keys |-> [rev |-> mem[s][k].pend, val |-> mem[s][k].pval]],
     acked |-> [k \in Keys |-> mem[s][k].ack],
     applied |-> [k \in Keys |-> [rev |-> mem[Peer(s)][k].app, val |-> mem[Peer(s)][k].ival]]]

ToPhone == INSTANCE DurableTransfer
              WITH offer <- Transfer("note4").offer, acked <- Transfer("note4").acked,
                   applied <- Transfer("note4").applied
ToNote4 == INSTANCE DurableTransfer
              WITH offer <- Transfer("phone").offer, acked <- Transfer("phone").acked,
                   applied <- Transfer("phone").applied

\* Losses, retries, failed saves and restarts are invisible at that level, until
\* the Note4 forgets the phone.
IsTransfer ==
    /\ ToPhone!Init /\ [][forgot' \/ ToPhone!Next]_(ToPhone!vars)
    /\ ToNote4!Init /\ [][forgot' \/ ToNote4!Next]_(ToNote4!vars)

\* Every pending update is eventually applied at the other side, in this or a
\* newer revision.
Delivered ==
    \A s \in Sides, k \in Keys, r \in Revisions \ {0} :
        mem[s][k].pend = r ~> disk[Peer(s)][k].app >= r

\* After the last enqueue and the last fault both sides converge for good, so
\* the phone shows READY and resource requests are admitted.
EventuallyConverged == <>[](\A s \in Sides : Converged(s))
=============================================================================
