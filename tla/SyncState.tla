------------------------------ MODULE SyncState ------------------------------
(***************************************************************************)
(* The durable per-key state that the Note4 SyncEngine and the Android     *)
(* DurableQueue both keep, and the cursors they exchange in Hello and      *)
(* HelloAck.  One record per key stands for the outbox slot, the inbox     *)
(* slot and the cursor slot of that key:                                   *)
(*                                                                         *)
(*   present  a cursor slot (Android: a map entry) is reserved for the key *)
(*   ack      outbound_acknowledged        app   inbound_applied           *)
(*   pend     revision of the outbox slot, 0 when it is free, value pval   *)
(*   irev     revision of the inbox slot, 0 when it is free,  value ival   *)
(***************************************************************************)
EXTENDS Naturals, FiniteSets

CONSTANTS
    Keys,         \* durable keys in use
    Values,       \* payloads
    NoValue,      \* what a free slot holds
    MaxRevision,  \* UINT32_MAX in the code
    Capacity      \* kDurableKeyCapacity, DurableQueue.CAPACITY (8 in the code)

ASSUME SyncConstants ==
    /\ IsFiniteSet(Keys)
    /\ NoValue \notin Values
    /\ MaxRevision \in Nat
    /\ Capacity \in Nat \ {0}

Revisions == 0..MaxRevision

KeyState == [present : BOOLEAN,
             ack : Revisions, app : Revisions,
             pend : Revisions, pval : Values \cup {NoValue},
             irev : Revisions, ival : Values \cup {NoValue}]

EngineState == [Keys -> KeyState]

NoEntry == [present |-> FALSE, ack |-> 0, app |-> 0, pend |-> 0,
            pval |-> NoValue, irev |-> 0, ival |-> NoValue]

Empty == [k \in Keys |-> NoEntry]

\* A free slot holds nothing, and a key without a cursor has moved no cursor.
Slots(e) ==
    \A k \in Keys :
        /\ (e[k].pend = 0) = (e[k].pval = NoValue)
        /\ (e[k].irev = 0) = (e[k].ival = NoValue)
        /\ ~e[k].present => e[k].ack = 0 /\ e[k].app = 0

Higher(a, b) == IF a > b THEN a ELSE b

Present(e) == {k \in Keys : e[k].present}

-----------------------------------------------------------------------------
(* A seeded fault.                                                         *)

\* StoresOnly: a receiver behind what was acknowledged is let in.
InWindowAbove(applied, sender) == applied <= Higher(sender.ack, sender.pend)

-----------------------------------------------------------------------------
(* Cursors as one peer tells them to the other; a key it does not list     *)
(* reads as all zeros.                                                     *)

Cursor == [present : BOOLEAN, ack : Revisions, app : Revisions, pend : Revisions]

NoCursor == [present |-> FALSE, ack |-> 0, app |-> 0, pend |-> 0]

CursorsOf(e) ==
    [k \in Keys |->
        IF e[k].present
        THEN [present |-> TRUE, ack |-> e[k].ack, app |-> e[k].app, pend |-> e[k].pend]
        ELSE NoCursor]

ValidCursors(c) ==
    \A k \in Keys :
        IF c[k].present THEN c[k].pend = 0 \/ c[k].pend > c[k].ack
                        ELSE c[k] = NoCursor

\* What the receiver has applied lies in the sender's replay window.
InWindow(applied, sender) ==
    /\ applied >= sender.ack
    /\ applied <= Higher(sender.ack, sender.pend)

Compatible(own, other) ==
    /\ InWindow(other.app, own)
    /\ InWindow(own.app, other)

AllCompatible(e, peer) ==
    \A k \in Keys : Compatible(CursorsOf(e)[k], peer[k])

\* A peer's receive cursor retires what it covers, for every key it lists.
Reconciled(e, peer) ==
    [k \in Keys |->
        IF ~peer[k].present THEN e[k]
        ELSE [e[k] EXCEPT
                !.present = TRUE,
                !.ack = peer[k].app,
                !.pend = IF @ <= peer[k].app THEN 0 ELSE @,
                !.pval = IF e[k].pend <= peer[k].app THEN NoValue ELSE @]]

KeysAfter(e, peer) == Present(e) \cup {k \in Keys : peer[k].present}
=============================================================================
