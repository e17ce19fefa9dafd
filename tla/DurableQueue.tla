---------------------------- MODULE DurableQueue ----------------------------
(***************************************************************************)
(* The Android DurableQueue over its DurableStorage file: the phone's      *)
(* mirror of SyncEngine.  A map entry holds the ACK cursor, the pending    *)
(* update and the last value received of one key; the received revision is *)
(* the receive cursor, so app = irev throughout.  All calls run under the  *)
(* GATT owner's monitor.                                                   *)
(***************************************************************************)
EXTENDS SyncState

CONSTANTS NoFile, Damaged   \* what the file system holds instead of a queue

\* What is asked of the constants; the instance assumes it.
StoreConstants ==
    /\ NoFile \notin EngineState /\ Damaged \notin EngineState
    /\ NoFile # Damaged

VARIABLES
    entries,    \* the map, volatile
    file,       \* the committed file
    loaded

vars == <<entries, file, loaded>>

-----------------------------------------------------------------------------
(* Seeded faults, each with the property it breaks.                        *)

\* NoUpdateLost: an older revision replaces the pending one.
PutStatusAnyOrder(e, k, r, v) ==
    IF r <= e[k].ack THEN "Refused"
    ELSE IF r = e[k].pend /\ v = e[k].pval THEN "Duplicate"
    ELSE IF ~e[k].present /\ Cardinality(Present(e)) = Capacity THEN "Refused" ELSE "Ok"

\* SavedBeforeReported: a failed write leaves the changed entry in the map.
ChangeWithoutRollback(new) == entries' = new /\ file' \in {file, new} /\ UNCHANGED loaded

-----------------------------------------------------------------------------
(* Decisions of the calls and the map each asks the storage to keep.       *)

Full(e, k) == ~e[k].present /\ Cardinality(Present(e)) = Capacity

\* put: "true" without a save for the revision and payload already pending.
PutStatus(e, k, r, v) ==
    IF r <= e[k].ack THEN "Refused"
    ELSE IF e[k].pend # 0 /\ r <= e[k].pend
         THEN IF r = e[k].pend /\ v = e[k].pval THEN "Duplicate" ELSE "Refused"
    ELSE IF Full(e, k) THEN "Refused" ELSE "Ok"

Put(e, k, r, v) ==
    [e EXCEPT ![k] = [@ EXCEPT
              !.present = TRUE, !.pend = r, !.pval = v]]

\* enqueue: the next revision, unless the same payload is already pending.
\* A revision beyond MaxRevision is not valid and put refuses it.
NextRevision(e, k) == Higher(e[k].ack, e[k].pend) + 1

EnqueueStatus(e, k, v) ==
    IF e[k].pend # 0 /\ e[k].pval = v THEN "Duplicate"
    ELSE IF NextRevision(e, k) > MaxRevision THEN "Refused"
    ELSE PutStatus(e, k, NextRevision(e, k), v)

AcknowledgeStatus(e, k, r) ==
    IF ~e[k].present THEN "Refused"
    ELSE IF r <= e[k].ack THEN "Duplicate"
    ELSE IF e[k].pend = 0 \/ r > e[k].pend THEN "Refused" ELSE "Ok"

Acknowledge(e, k, r) ==
    [e EXCEPT ![k] = [@ EXCEPT
              !.ack = r,
              !.pend = IF e[k].pend = r THEN 0 ELSE e[k].pend,
              !.pval = IF e[k].pend = r THEN NoValue ELSE e[k].pval]]

AcceptStatus(e, k, r, v) ==
    IF r < e[k].irev THEN "Duplicate"
    ELSE IF r = e[k].irev THEN IF v = e[k].ival THEN "Duplicate" ELSE "Invalid"
    ELSE IF Full(e, k) THEN "Full" ELSE "Ok"

Accept(e, k, r, v) ==
    [e EXCEPT ![k] = [@ EXCEPT
              !.present = TRUE, !.app = r, !.irev = r, !.ival = v]]

ReconcileStatus(e, peer) ==
    IF ~ValidCursors(peer) THEN "Invalid"
    ELSE IF Cardinality(KeysAfter(e, peer)) > Capacity THEN "Full"
    ELSE IF ~AllCompatible(e, peer) THEN "Resync"
    ELSE "Ok"

\* Nothing is saved when every listed key is already acknowledged there.
NeedsReconcile(e, peer) ==
    \E k \in Keys : peer[k].present /\ ~(e[k].present /\ e[k].ack = peer[k].app)

-----------------------------------------------------------------------------
(* The file.  write() renames a synced temporary file over the old one and *)
(* then syncs the directory: when that last step fails it answers false    *)
(* with the new file already in place.                                     *)

LoadAccepts(f) ==
    /\ \A k \in Keys : ~f[k].present => f[k] = NoEntry
    /\ \A k \in Keys : f[k].pend # 0 => f[k].pend > f[k].ack
    /\ \A k \in Keys : (f[k].irev = 0) = (f[k].ival = NoValue)
    /\ Cardinality(Present(f)) <= Capacity

Readable(f) == f # Damaged /\ LoadAccepts(f)

\* A version 1 file lists pending updates only.
Version1Key ==
    {NoEntry} \cup
    [present : {TRUE}, ack : {0}, app : {0}, pend : Revisions \ {0},
     pval : Values, irev : {0}, ival : {NoValue}]

Version1 == {f \in [Keys -> Version1Key] : LoadAccepts(f)}

Change(new) ==
    /\ \/ entries' = new /\ file' = new
       \/ entries' = entries /\ file' \in {file, new}
    /\ UNCHANGED loaded

-----------------------------------------------------------------------------
(* Operations.  A refused or repeated call changes nothing.                *)

put(k, r, v) ==
    /\ loaded
    /\ PutStatus(entries, k, r, v) = "Ok"
    /\ Change(Put(entries, k, r, v))

enqueue(k, v) ==
    /\ loaded
    /\ EnqueueStatus(entries, k, v) = "Ok"
    /\ Change(Put(entries, k, NextRevision(entries, k), v))

acknowledge(k, r) ==
    /\ loaded
    /\ AcknowledgeStatus(entries, k, r) = "Ok"
    /\ Change(Acknowledge(entries, k, r))

accept(k, r, v) ==
    /\ loaded
    /\ AcceptStatus(entries, k, r, v) = "Ok"
    /\ Change(Accept(entries, k, r, v))

reconcile(peer) ==
    /\ loaded
    /\ ReconcileStatus(entries, peer) = "Ok"
    /\ NeedsReconcile(entries, peer)
    /\ Change(Reconciled(entries, peer))

\* The process dies and prepareDevice loads the file again.
load ==
    /\ UNCHANGED file
    /\ \/ file = NoFile /\ entries' = Empty /\ loaded' = TRUE
       \/ file # NoFile /\ Readable(file) /\ entries' = file /\ loaded' = TRUE
       \/ file # NoFile /\ entries' = Empty /\ loaded' = FALSE  \* or an I/O error

Damage ==
    /\ file # NoFile
    /\ file' = Damaged
    /\ UNCHANGED <<entries, loaded>>

Init ==
    /\ entries = Empty
    /\ file \in {NoFile} \cup Version1
    /\ loaded = FALSE

PeerCursor ==
    {c \in Cursor : IF c.present THEN c.pend = 0 \/ c.pend > c.ack ELSE c = NoCursor}

Next ==
    \/ \E k \in Keys, r \in Revisions \ {0}, v \in Values : put(k, r, v) \/ accept(k, r, v)
    \/ \E k \in Keys, v \in Values : enqueue(k, v)
    \/ \E k \in Keys, r \in Revisions \ {0} : acknowledge(k, r)
    \/ \E peer \in [Keys -> PeerCursor] : reconcile(peer)
    \/ load
    \/ Damage

Spec == Init /\ [][Next]_vars

-----------------------------------------------------------------------------
(* What must hold.                                                         *)

TypeOK ==
    /\ entries \in EngineState /\ Slots(entries)
    /\ file \in EngineState \cup {NoFile, Damaged}
    /\ file \in EngineState => Slots(file)
    /\ loaded \in BOOLEAN

\* load() accepts every file that save() wrote.  Were a written file refused,
\* prepareDevice would fail for good: nothing replaces an unreadable file.
FileLoads ==
    /\ file \notin {NoFile, Damaged} => LoadAccepts(file)
    /\ LoadAccepts(entries)

\* A call that answered true or OK survives the process: the file has it or
\* something newer, also after writes that failed half-way.
Covers(f, m) ==
    \A k \in Keys :
        /\ f[k].ack >= m[k].ack
        /\ f[k].irev >= m[k].irev
        /\ m[k].pend > f[k].ack =>
              f[k].pend > m[k].pend \/ (f[k].pend = m[k].pend /\ f[k].pval = m[k].pval)
        /\ m[k].irev # 0 /\ f[k].irev = m[k].irev => f[k].ival = m[k].ival

SavedBeforeReported ==
    /\ loaded /\ file = NoFile => entries = Empty
    /\ loaded /\ file \notin {NoFile, Damaged} => Covers(file, entries)

\* Neither cursor goes back while the queue stays loaded or is reloaded.
CursorsNeverRegress ==
    [][loaded /\ loaded' =>
        \A k \in Keys : /\ entries'[k].ack >= entries[k].ack
                        /\ entries'[k].irev >= entries[k].irev]_vars

\* A queued update disappears only when superseded or acknowledged.
NoUpdateLost ==
    [][loaded /\ loaded' =>
        \A k \in Keys : entries[k].pend # 0 =>
            \/ entries'[k].pend >= entries[k].pend
            \/ entries'[k].ack >= entries[k].pend]_vars

\* What the phone has reported as saved is in its file, and whatever is left of a
\* save loads again, through failed directory syncs, process death and reloads
\* (DurableQueue.kt save, load).
QueueSound == FileLoads /\ SavedBeforeReported

\* Nor does the queue take back a cursor or lose a queued update
\* (DurableQueue.kt mutate).
QueueTakesNothingBack == CursorsNeverRegress /\ NoUpdateLost
=============================================================================
