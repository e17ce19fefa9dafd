----------------------------- MODULE SyncEngine -----------------------------
(***************************************************************************)
(* note4::companion::SyncEngine over its SyncStore: durable revisions that *)
(* wait for the phone, values received from it and the cursors of both     *)
(* directions.  Every operation is one critical section of the caller's    *)
(* resource_mutex; what interleaves with it is a save whose outcome the    *)
(* engine cannot trust, a restart at any point and a damaged record.       *)
(***************************************************************************)
EXTENDS SyncState

CONSTANTS NoRecord, Damaged   \* what the store holds instead of a record

\* What is asked of the constants; the instance assumes it.
StoreConstants ==
    /\ NoRecord \notin EngineState /\ Damaged \notin EngineState
    /\ NoRecord # Damaged

VARIABLES
    mem,        \* outbox_, inbox_, cursors_
    disk,       \* the record behind SyncStore
    open,       \* store_ # nullptr
    recovered   \* recovered_from_corrupt_

vars == <<mem, disk, open, recovered>>

-----------------------------------------------------------------------------
(* Slots.                                                                  *)

Pending(e) == {k \in Keys : e[k].pend # 0}
Received(e) == {k \in Keys : e[k].irev # 0}

CursorSlot(e, k) == e[k].present \/ Cardinality(Present(e)) < Capacity
OutboxSlot(e, k) == e[k].pend # 0 \/ Cardinality(Pending(e)) < Capacity
InboxSlot(e, k) == e[k].irev # 0 \/ Cardinality(Received(e)) < Capacity

-----------------------------------------------------------------------------
(* Seeded faults: each replaces the operation it is named after, and breaks *)
(* the property named beside it.                                           *)

\* NoUpdateLost: a late ACK frees the slot of a newer value.
AcknowledgeDropsNewer(e, k, r) ==
    [e EXCEPT ![k] = [@ EXCEPT !.present = TRUE, !.ack = r, !.pend = 0, !.pval = NoValue]]

\* SavedBeforeReported: a failed save leaves the new state in memory.
PersistWithoutRollback(new) ==
    /\ mem' = new /\ disk' \in {disk, new}
    /\ UNCHANGED <<open, recovered>>

-----------------------------------------------------------------------------
(* What each call answers, and the state it asks the store to keep.        *)

PutStatus(e, k, r, v) ==
    IF r <= e[k].ack \/ r < e[k].pend THEN "Stale"
    ELSE IF r = e[k].pend THEN IF v = e[k].pval THEN "Duplicate" ELSE "Conflict"
    ELSE IF OutboxSlot(e, k) /\ CursorSlot(e, k) THEN "Ok" ELSE "Full"

Put(e, k, r, v) ==
    [e EXCEPT ![k] = [@ EXCEPT
              !.present = TRUE, !.pend = r, !.pval = v]]

AcknowledgeStatus(e, k, r) ==
    IF e[k].pend = 0 THEN IF r <= e[k].ack THEN "Duplicate" ELSE "NotFound"
    ELSE IF r > e[k].pend THEN "Conflict"
    ELSE IF ~CursorSlot(e, k) THEN "Full"
    ELSE IF r <= e[k].ack THEN "Duplicate" ELSE "Ok"

\* A newer coalesced value stays pending.
Acknowledge(e, k, r) ==
    [e EXCEPT ![k] = [@ EXCEPT
              !.present = TRUE,
              !.ack = r,
              !.pend = IF e[k].pend = r THEN 0 ELSE e[k].pend,
              !.pval = IF e[k].pend = r THEN NoValue ELSE e[k].pval]]

InspectStatus(e, k, r) == IF r <= e[k].app THEN "Duplicate" ELSE "ApplyRequired"

CommitStatus(e, k, r) ==
    IF InspectStatus(e, k, r) = "Duplicate" THEN "Duplicate"
    ELSE IF CursorSlot(e, k) THEN "Ok" ELSE "Full"

\* The value was persisted elsewhere: an older inbox value is dropped.
Commit(e, k, r) ==
    [e EXCEPT ![k] = [@ EXCEPT
              !.present = TRUE, !.app = r,
              !.irev = 0, !.ival = NoValue]]

AcceptStatus(e, k, r, v) ==
    IF InspectStatus(e, k, r) = "Duplicate"
    THEN IF e[k].irev = r /\ e[k].ival # v THEN "Conflict" ELSE "Duplicate"
    ELSE IF InboxSlot(e, k) /\ CursorSlot(e, k) THEN "Ok" ELSE "Full"

\* The value and its receive cursor are one transaction.
Accept(e, k, r, v) ==
    [e EXCEPT ![k] = [@ EXCEPT
              !.present = TRUE, !.app = r, !.irev = r, !.ival = v]]

ReconcileStatus(e, peer) ==
    IF ~ValidCursors(peer) THEN "Invalid"
    ELSE IF ~AllCompatible(e, peer) THEN "Resync"
    ELSE IF Cardinality(KeysAfter(e, peer)) > Capacity THEN "Full"
    ELSE "Ok"

-----------------------------------------------------------------------------
(* The record.  A version 1 record kept pending values without reserving   *)
(* their cursor and had no inbox; LoadState reserves the missing cursors.  *)

LoadAccepts(d) ==
    /\ \A k \in Keys : d[k].pend # 0 => d[k].pend > d[k].ack
    /\ \A k \in Keys : d[k].irev # 0 => d[k].present /\ d[k].irev = d[k].app
    /\ Cardinality(Present(d) \cup Pending(d)) <= Capacity

Readable(d) == d # Damaged /\ LoadAccepts(d)

Loaded(d) == [k \in Keys |-> [d[k] EXCEPT !.present = @ \/ d[k].pend # 0]]

Version1Key ==
    {x \in KeyState : /\ x.irev = 0 /\ x.ival = NoValue
                      /\ x.pend = 0 <=> x.pval = NoValue
                      /\ ~x.present => x.ack = 0 /\ x.app = 0}

Version1 == {d \in [Keys -> Version1Key] : LoadAccepts(d)}

\* Save answers OK and the record is replaced, or it answers an error, memory
\* is rolled back and the record is the old one or already the new one.
Persist(new) ==
    /\ \/ mem' = new /\ disk' = new
       \/ mem' = mem /\ disk' \in {disk, new}
    /\ UNCHANGED <<open, recovered>>

-----------------------------------------------------------------------------
(* Operations.  An answer other than Ok leaves everything as it was.       *)

PutDurableState(k, r, v) ==
    /\ open
    /\ PutStatus(mem, k, r, v) = "Ok"
    /\ Persist(Put(mem, k, r, v))

AcknowledgeDurableState(k, r) ==
    /\ open
    /\ AcknowledgeStatus(mem, k, r) = "Ok"
    /\ Persist(Acknowledge(mem, k, r))

CommitIncomingState(k, r) ==
    /\ open
    /\ CommitStatus(mem, k, r) = "Ok"
    /\ Persist(Commit(mem, k, r))

AcceptIncomingState(k, r, v) ==
    /\ open
    /\ AcceptStatus(mem, k, r, v) = "Ok"
    /\ Persist(Accept(mem, k, r, v))

ReconcilePeerCursors(peer) ==
    /\ open
    /\ ReconcileStatus(mem, peer) = "Ok"
    /\ Reconciled(mem, peer) # mem
    /\ Persist(Reconciled(mem, peer))

\* A reset at any moment, then Initialize on what the store holds.
Restart ==
    /\ UNCHANGED disk
    /\ \/ /\ disk = NoRecord
          /\ mem' = Empty /\ open' = TRUE /\ recovered' = FALSE
       \/ /\ disk # NoRecord   \* Load fails: store_ stays null
          /\ mem' = Empty /\ open' = FALSE /\ recovered' = FALSE
       \/ /\ disk # NoRecord /\ Readable(disk)
          /\ mem' = Loaded(disk) /\ open' = TRUE /\ recovered' = FALSE
       \/ /\ disk # NoRecord /\ ~Readable(disk)
          /\ mem' = Empty /\ open' = TRUE /\ recovered' = TRUE

\* The environment damages the record (CRC, format or length).
Damage ==
    /\ disk # NoRecord
    /\ disk' = Damaged
    /\ UNCHANGED <<mem, open, recovered>>

Init ==
    /\ mem = Empty
    /\ disk \in {NoRecord} \cup Version1
    /\ open = FALSE
    /\ recovered = FALSE

PeerCursor ==
    {c \in Cursor : IF c.present THEN c.pend = 0 \/ c.pend > c.ack ELSE c = NoCursor}

Next ==
    \/ \E k \in Keys, r \in Revisions \ {0}, v \in Values :
            PutDurableState(k, r, v) \/ AcceptIncomingState(k, r, v)
    \/ \E k \in Keys, r \in Revisions \ {0} :
            AcknowledgeDurableState(k, r) \/ CommitIncomingState(k, r)
    \/ \E peer \in [Keys -> PeerCursor] : ReconcilePeerCursors(peer)
    \/ Restart
    \/ Damage

Spec == Init /\ [][Next]_vars

-----------------------------------------------------------------------------
(* What must hold.                                                         *)

\* The state is well formed, and a slot holds a value exactly when in use.
TypeOK ==
    /\ mem \in EngineState /\ Slots(mem)
    /\ disk \in EngineState \cup {NoRecord, Damaged}
    /\ disk \in EngineState => Slots(disk)
    /\ open \in BOOLEAN
    /\ recovered \in BOOLEAN

\* Whatever the engine wrote, it accepts at the next boot: LoadState's cross
\* checks (a pending revision above its ACK cursor, an inbox revision equal to
\* the receive cursor, at most Capacity keys) never refuse a record that
\* Persist produced, so an undamaged store is never "recovered" to nothing.
RecordLoads ==
    /\ disk \notin {NoRecord, Damaged} => LoadAccepts(disk)
    /\ LoadAccepts(mem)

\* A pending value always has the cursor slot its ACK will need: neither
\* AcknowledgeDurableState nor a later reconcile can fail for want of a slot.
AckHasItsCursor == \A k \in Pending(mem) : mem[k].present

\* What memory shows, and hence what was reported saved or told to the peer,
\* is in the record or already superseded there: a restart cannot take back an
\* enqueue, an ACK or an accepted value, whatever saves failed in between.
Covers(d, m) ==
    \A k \in Keys :
        /\ d[k].ack >= m[k].ack
        /\ d[k].app >= m[k].app
        /\ m[k].pend > d[k].ack =>
              d[k].pend > m[k].pend \/ (d[k].pend = m[k].pend /\ d[k].pval = m[k].pval)
        /\ m[k].irev # 0 /\ d[k].irev = m[k].irev => d[k].ival = m[k].ival

SavedBeforeReported ==
    /\ open /\ disk = NoRecord => mem = Empty
    /\ open /\ disk \notin {NoRecord, Damaged} => Covers(disk, mem)

\* The store as a whole: what it holds is well formed, loads, has room for its
\* ACKs, and covers what was reported.
StoreSound == TypeOK /\ RecordLoads /\ AckHasItsCursor /\ SavedBeforeReported

\* Cursors only grow while the engine runs and across restarts, unless the
\* record was damaged: an applied revision is never asked for again and a
\* retired one never comes back.
CursorsNeverRegress ==
    [][open /\ open' /\ disk # Damaged =>
        \A k \in Keys : mem'[k].ack >= mem[k].ack /\ mem'[k].app >= mem[k].app]_vars

\* A pending update leaves the outbox only because it was superseded by a
\* newer revision or is covered by the ACK cursor.
NoUpdateLost ==
    [][open /\ open' /\ disk # Damaged =>
        \A k \in Keys : mem[k].pend # 0 =>
            mem'[k].pend >= mem[k].pend \/ mem'[k].ack >= mem[k].pend]_vars

\* A revision names one value: neither an enqueue, a receive nor a reload
\* replaces the bytes of a revision that memory already showed.
OneValuePerRevision ==
    [][open /\ open' =>
        \A k \in Keys :
            /\ mem[k].pend # 0 /\ mem'[k].pend = mem[k].pend => mem'[k].pval = mem[k].pval
            /\ mem[k].irev # 0 /\ mem'[k].irev = mem[k].irev => mem'[k].ival = mem[k].ival]_vars

\* No call, failed save or restart takes back a cursor, an update or the bytes
\* of a revision.
NothingTakenBack == CursorsNeverRegress /\ NoUpdateLost /\ OneValuePerRevision
=============================================================================
