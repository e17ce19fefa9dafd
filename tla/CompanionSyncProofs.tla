------------------------- MODULE CompanionSyncProofs -------------------------
(***************************************************************************)
(* What CompanionSync promises, for any keys, values, revisions, faults    *)
(* and frames in flight.                                                   *)
(*                                                                         *)
(* FullInv is inductive, and no smaller part of it is:                     *)
(*  - StoresInv: memory is never behind the record (a failed save may have *)
(*    landed), so a restart goes back to something the peer can live with; *)
(*  - WindowInv: what is retired here is applied there, what is stored     *)
(*    there is known here.  An ACK can only keep the first half if it is   *)
(*    for something applied (AcksInv), an update the second only if its    *)
(*    sender knows it (StatesInv);                                         *)
(*  - OneValueInv: wherever a revision is found, pending, received or on   *)
(*    its way, it has one value.  For the Note4 that needs OwnerInv: a     *)
(*    revision it enqueues is the reader's newest and carried by nobody;   *)
(*  - HandshakeInv and CursorInv: a greeting travels alone, so the cursors *)
(*    it carries are still its sender's when they arrive.                  *)
(* The window of two stores is lost when the Note4 forgets the phone, so   *)
(* those parts are conditional on ~forgot.  What holds afterwards is       *)
(* BoundInv: a handshake compares the cursors anew, and no frame from      *)
(* before it is taken.                                                     *)
(*                                                                         *)
(* Each action is first shown to be one of a few kinds of step (DataStep   *)
(* for the stores, a Take, Send or rest for the air), and the parts of the *)
(* invariant are preserved by the kinds.                                   *)
(***************************************************************************)
EXTENDS CompanionSync, SequenceTheorems, FiniteSetTheorems, TLAPS

-----------------------------------------------------------------------------
(* Types.                                                                  *)

StateFrames ==
    [type : {"state"}, seq : Nat \ {0}, key : Keys, rev : Revisions \ {0}, val : Values]

ReplyFrames ==
    [type : {"reply"}, seq : Nat \ {0}, key : Keys, rev : Revisions \ {0},
     result : {"accepted", "store_error", "capacity", "invalid"}]

Greetings == [type : {"hello", "helloack"}, cursors : [Keys -> Cursor]]

Refusals == [type : {"rejected"}]

Sessions ==
    [status : {"disconnected", "hello", "active", "protocol_error", "store_error", "timeout"},
     out : SUBSET StateFrames, attempts : Nat, reply : SUBSET ReplyFrames,
     after : {"active", "protocol_error", "store_error"},
     lastSeq : Nat, last : SUBSET StateFrames, next : Nat \ {0},
     awaited : [Keys -> Revisions]]

Types ==
    /\ mem \in [Sides -> EngineState] /\ disk \in [Sides -> EngineState]
    /\ owner \in [Keys -> [rev : Revisions, val : Values \cup {NoValue}]]
    /\ \A k \in Keys : owner[k].rev # 0 => owner[k].val \in Values
    /\ sess \in [Sides -> Sessions]
    /\ air \in [Sides -> Seq(Frame)]
    /\ link \in BOOLEAN /\ forgot \in BOOLEAN

\* A revision is a number, and 0 is one.
LEMMA RevisionFacts == Revisions \subseteq Nat /\ 0 \in Revisions
BY SyncConstants DEF Revisions

\* The two sides and who is whose peer.
LEMMA SideFacts ==
    /\ "note4" \in Sides /\ "phone" \in Sides /\ "note4" # "phone"
    /\ Peer("note4") = "phone" /\ Peer("phone") = "note4"
    /\ \A s \in Sides : Peer(s) \in Sides /\ Peer(s) # s /\ Peer(Peer(s)) = s
    /\ \A s \in Sides, t \in Sides : t # s => t = Peer(s)
BY DEF Sides, Peer

\* What a frame is follows from its type.
LEMMA FrameKinds ==
    ASSUME NEW f \in Frame
    PROVE  /\ f.type \in {"state", "reply", "hello", "helloack", "rejected"}
           /\ f.type = "state" => f \in StateFrames
           /\ f.type = "reply" => f \in ReplyFrames
           /\ f.type \in {"hello", "helloack"} => f \in Greetings
<1>1. CASE f \in StateFrames
    BY <1>1 DEF StateFrames
<1>2. CASE f \in ReplyFrames
    BY <1>2 DEF ReplyFrames
<1>3. CASE f \in Greetings
    BY <1>3 DEF Greetings
<1>4. CASE f \in Refusals
    BY <1>4 DEF Refusals
<1> QED
    BY <1>1, <1>2, <1>3, <1>4 DEF Frame, StateFrames, ReplyFrames, Greetings, Refusals

\* The records the actions build are frames.
LEMMA FramesMade ==
    /\ StateFrames \subseteq Frame /\ ReplyFrames \subseteq Frame
    /\ \A c \in [Keys -> Cursor] : Hello(c) \in Greetings /\ HelloAck(c) \in Greetings
    /\ Greetings \subseteq Frame
    /\ Rejected \in Frame
BY DEF Frame, StateFrames, ReplyFrames, Greetings, Hello, HelloAck, Rejected

\* The frames on their way to t.
Elems(q) == {q[i] : i \in 1..Len(q)}
Flying(t) == Elems(air[t])

\* Taking the head of a queue leaves no new frame in it.
LEMMA ElemsOfTail ==
    ASSUME NEW q \in Seq(Frame), q # <<>>
    PROVE  /\ Tail(q) \in Seq(Frame) /\ Head(q) \in Elems(q)
           /\ Elems(Tail(q)) \subseteq Elems(q)
           /\ Len(Tail(q)) = Len(q) - 1 /\ Len(q) \in Nat \ {0}
           /\ \A i \in 1..Len(Tail(q)) : i + 1 \in 1..Len(q) /\ Tail(q)[i] = q[i + 1]
<1>1. Tail(q) \in Seq(Frame) /\ Len(Tail(q)) = Len(q) - 1
      /\ \A i \in 1..Len(Tail(q)) : Tail(q)[i] = q[i + 1]
    BY HeadTailProperties
<1>2. Len(q) \in Nat \ {0}
    BY EmptySeq
<1>3. Head(q) = q[1] /\ 1 \in 1..Len(q)
    BY <1>2
<1>4. \A i \in 1..Len(Tail(q)) : i + 1 \in 1..Len(q)
    BY <1>1, <1>2
<1> QED
    BY <1>1, <1>2, <1>3, <1>4 DEF Elems

\* Appending a frame adds that frame only.
LEMMA ElemsOfAppend ==
    ASSUME NEW q \in Seq(Frame), NEW f \in Frame
    PROVE  /\ Append(q, f) \in Seq(Frame)
           /\ Elems(Append(q, f)) = Elems(q) \cup {f}
           /\ Len(Append(q, f)) = Len(q) + 1 /\ Len(q) \in Nat
           /\ \A i \in 1..Len(q) : Append(q, f)[i] = q[i]
           /\ Append(q, f)[Len(q) + 1] = f
<1>1. Append(q, f) \in Seq(Frame) /\ Len(Append(q, f)) = Len(q) + 1 /\ Len(q) \in Nat
    BY AppendProperties, LenProperties
<1>2. (\A i \in 1..Len(q) : Append(q, f)[i] = q[i]) /\ Append(q, f)[Len(q) + 1] = f
    BY AppendProperties
<1>3. 1..(Len(q) + 1) = 1..Len(q) \cup {Len(q) + 1}
    BY <1>1
<1> QED
    BY <1>1, <1>2, <1>3 DEF Elems

\* What a queue of frames holds are frames.
LEMMA ElemsAreFrames ==
    ASSUME NEW q \in Seq(Frame)
    PROVE  Elems(q) \subseteq Frame /\ Elems(<<>>) = {}
BY ElementOfSeq DEF Elems

-----------------------------------------------------------------------------
(* What the operations of the two engines do to a store.                   *)

KeyNumbers(x) == x.ack \in Nat /\ x.app \in Nat /\ x.pend \in Nat /\ x.irev \in Nat

\* The numbers of one key are revisions.
LEMMA StateNumbers ==
    ASSUME NEW e \in EngineState, NEW k \in Keys
    PROVE  e[k] \in KeyState /\ KeyNumbers(e[k])
BY RevisionFacts DEF EngineState, KeyState, KeyNumbers

\* The newest revision a side knows of its own updates to a key.
Known(x) == Higher(x.ack, x.pend)

\* What a side knows is at least what it retired and what waits.
LEMMA KnownIsHigher ==
    ASSUME NEW x, x.ack \in Nat, x.pend \in Nat
    PROVE  /\ Known(x) \in Nat /\ x.ack <= Known(x) /\ x.pend <= Known(x)
           /\ Known(x) = x.ack \/ Known(x) = x.pend
           /\ \A r \in Nat : (Known(x) < r) <=> (x.ack < r /\ x.pend < r)
           /\ \A r \in Nat : (r <= Known(x)) <=> (r <= x.ack \/ r <= x.pend)
BY DEF Known, Higher

\* A store that only its engine wrote.
Kept(e) ==
    \A k \in Keys :
        /\ (e[k].pend = 0) = (e[k].pval = NoValue)
        /\ (e[k].irev = 0) = (e[k].ival = NoValue)
        /\ e[k].irev = e[k].app
        /\ e[k].pend # 0 => e[k].pend > e[k].ack
        /\ ~e[k].present => e[k].ack = 0 /\ e[k].app = 0 /\ e[k].pend = 0

\* An update waits that is newer than all before it.
Enqueued(m, n, k, r, v) ==
    /\ r > Known(m[k]) /\ n[k].pend = r /\ n[k].pval = v
    /\ \A j \in Keys :
        /\ n[j].ack = m[j].ack /\ n[j].app = m[j].app /\ n[j].ival = m[j].ival
        /\ j # k => n[j].pend = m[j].pend /\ n[j].pval = m[j].pval

\* A newer value was received.
Received(m, n, k, r, v) ==
    /\ r > m[k].app /\ n[k].app = r /\ n[k].ival = v
    /\ \A j \in Keys :
        /\ n[j].ack = m[j].ack /\ n[j].pend = m[j].pend /\ n[j].pval = m[j].pval
        /\ j # k => n[j].app = m[j].app /\ n[j].ival = m[j].ival

\* Updates left because their ACK cursor covers them.
Retired(m, n) ==
    \A j \in Keys :
        /\ n[j].app = m[j].app /\ n[j].ival = m[j].ival
        /\ n[j].ack >= m[j].ack
        /\ IF m[j].pend <= n[j].ack THEN n[j].pend = 0 /\ n[j].pval = NoValue
                                    ELSE n[j].pend = m[j].pend /\ n[j].pval = m[j].pval

\* A record is at most the one save ahead of memory that was called failed.
Ahead(m, d) ==
    \/ Retired(m, d)
    \/ \E k \in Keys, r \in Revisions \ {0}, v \in Values :
            Enqueued(m, d, k, r, v) \/ Received(m, d, k, r, v)

\* Enqueue of the engine is the abstract Enqueued (note4_sync_engine.cc Enqueue).
LEMMA PutEnqueues ==
    ASSUME NEW e \in EngineState, Kept(e), NEW k \in Keys, NEW r \in Revisions \ {0},
           NEW v \in Values, r > e[k].ack, r > e[k].pend,
           NEW n, n = [e EXCEPT ![k] = [@ EXCEPT !.present = TRUE, !.pend = r, !.pval = v]]
    PROVE  n \in EngineState /\ Kept(n) /\ Enqueued(e, n, k, r, v)
<1>0. r \in Nat /\ \A j \in Keys : KeyNumbers(e[j])
    BY StateNumbers, RevisionFacts
<1>1. n \in EngineState
    BY DEF EngineState, KeyState
<1>2. /\ n[k].present = TRUE /\ n[k].pend = r /\ n[k].pval = v
      /\ n[k].ack = e[k].ack /\ n[k].app = e[k].app
      /\ n[k].irev = e[k].irev /\ n[k].ival = e[k].ival
      /\ \A j \in Keys \ {k} : n[j] = e[j]
    BY DEF EngineState, KeyState
<1>3. Kept(n)
    BY <1>0, <1>2, SyncConstants DEF Kept, KeyNumbers
<1>4. Enqueued(e, n, k, r, v)
    BY <1>0, <1>2, KnownIsHigher DEF Enqueued, KeyNumbers
<1> QED
    BY <1>1, <1>3, <1>4

\* An accepted state is the abstract Received (AcceptIncomingState).
LEMMA AcceptReceives ==
    ASSUME NEW e \in EngineState, Kept(e), NEW k \in Keys, NEW r \in Revisions \ {0},
           NEW v \in Values, r > e[k].app,
           NEW n, n = [e EXCEPT ![k] = [@ EXCEPT !.present = TRUE, !.app = r, !.irev = r, !.ival = v]]
    PROVE  n \in EngineState /\ Kept(n) /\ Received(e, n, k, r, v)
<1>0. r \in Nat /\ \A j \in Keys : KeyNumbers(e[j])
    BY StateNumbers, RevisionFacts
<1>1. n \in EngineState
    BY DEF EngineState, KeyState
<1>2. /\ n[k].present = TRUE /\ n[k].pend = e[k].pend /\ n[k].pval = e[k].pval
      /\ n[k].ack = e[k].ack /\ n[k].app = r
      /\ n[k].irev = r /\ n[k].ival = v
      /\ \A j \in Keys \ {k} : n[j] = e[j]
    BY DEF EngineState, KeyState
<1>3. Kept(n)
    BY <1>0, <1>2, SyncConstants DEF Kept, KeyNumbers
<1>4. Received(e, n, k, r, v)
    BY <1>0, <1>2 DEF Received
<1> QED
    BY <1>1, <1>3, <1>4

\* n: the state after an ACK, fieldwise, for either engine.
LEMMA AcknowledgeRetires ==
    ASSUME NEW e \in EngineState, Kept(e), NEW k \in Keys, NEW r \in Revisions \ {0},
           r > e[k].ack, r <= e[k].pend,
           NEW n \in EngineState,
           n[k].present, n[k].ack = r,
           n[k].app = e[k].app, n[k].irev = e[k].irev, n[k].ival = e[k].ival,
           n[k].pend = IF e[k].pend = r THEN 0 ELSE e[k].pend,
           n[k].pval = IF e[k].pend = r THEN NoValue ELSE e[k].pval,
           \A j \in Keys \ {k} : n[j] = e[j]
    PROVE  Kept(n) /\ Retired(e, n)
<1>0. r \in Nat /\ \A j \in Keys : KeyNumbers(e[j])
    BY StateNumbers, RevisionFacts
<1>1. Kept(n)
    BY <1>0 DEF Kept, KeyNumbers
<1>2. Retired(e, n)
    BY <1>0 DEF Retired, Kept, KeyNumbers
<1> QED
    BY <1>1, <1>2

\* A reconciliation only retires what the peer says it applied (Reconcile).
LEMMA ReconcileRetires ==
    ASSUME NEW e \in EngineState, Kept(e), NEW c \in [Keys -> Cursor],
           \A k \in Keys : e[k].ack <= c[k].app
    PROVE  /\ Reconciled(e, c) \in EngineState /\ Kept(Reconciled(e, c))
           /\ Retired(e, Reconciled(e, c))
           /\ \A k \in Keys : Reconciled(e, c)[k].ack <= c[k].app
<1> DEFINE n == Reconciled(e, c)
<1>0. \A j \in Keys : KeyNumbers(e[j]) /\ c[j].app \in Nat /\ c[j].app \in Revisions
    BY StateNumbers, RevisionFacts DEF Cursor
<1>1. n \in EngineState
    BY <1>0, RevisionFacts, ZenonT(60) DEF Reconciled, EngineState, KeyState
<1>2. \A j \in Keys :
        IF ~c[j].present THEN n[j] = e[j]
        ELSE /\ n[j].present = TRUE /\ n[j].ack = c[j].app /\ n[j].app = e[j].app
             /\ n[j].pend = (IF e[j].pend <= c[j].app THEN 0 ELSE e[j].pend)
             /\ n[j].pval = (IF e[j].pend <= c[j].app THEN NoValue ELSE e[j].pval)
             /\ n[j].irev = e[j].irev /\ n[j].ival = e[j].ival
    BY DEF Reconciled, EngineState, KeyState
<1>3. Kept(n)
    BY <1>0, <1>2, SyncConstants DEF Kept, KeyNumbers
<1>4. Retired(e, n)
    BY <1>0, <1>2 DEF Retired, Kept, KeyNumbers
<1>5. \A k \in Keys : n[k].ack <= c[k].app
    BY <1>0, <1>2 DEF KeyNumbers
<1> QED
    BY <1>1, <1>3, <1>4, <1>5

\* Nothing a record is ahead of is undone in it.
LEMMA AheadCovers ==
    ASSUME NEW m \in EngineState, NEW d \in EngineState, Kept(m), Kept(d), Ahead(m, d),
           NEW k \in Keys
    PROVE  /\ m[k].ack <= d[k].ack /\ m[k].app <= d[k].app
           /\ Known(m[k]) <= Known(d[k])
           /\ d[k].pend # 0 =>
                d[k].pend > Known(m[k]) \/ (d[k].pend = m[k].pend /\ d[k].pval = m[k].pval)
           /\ d[k].app = m[k].app => d[k].ival = m[k].ival
<1>0. KeyNumbers(m[k]) /\ KeyNumbers(d[k])
    BY StateNumbers
<1>1. CASE Retired(m, d)
    BY <1>0, <1>1 DEF Retired, KeyNumbers, Known, Higher, Kept
<1>2. CASE \E j \in Keys, r \in Revisions \ {0}, v \in Values :
                Enqueued(m, d, j, r, v) \/ Received(m, d, j, r, v)
    BY <1>0, <1>2, RevisionFacts DEF Enqueued, Received, KeyNumbers, Known, Higher
<1> QED
    BY <1>1, <1>2 DEF Ahead

-----------------------------------------------------------------------------
(* The invariant.                                                          *)

StoresInv == \A s \in Sides : Kept(mem[s]) /\ Kept(disk[s]) /\ Ahead(mem[s], disk[s])

\* Until the Note4 forgets: what a side retired its peer has in memory, and
\* what the peer has on its store the side knows.
WindowInv ==
    ~forgot => \A s \in Sides, k \in Keys :
        /\ mem[s][k].ack <= mem[Peer(s)][k].app
        /\ disk[s][k].ack <= mem[Peer(s)][k].app
        /\ disk[Peer(s)][k].app <= Known(mem[s][k])

\* An ACK on its way, or queued, is for something applied.
AcksTo(s) == {f \in Flying(s) \cup sess[Peer(s)].reply : f.type = "reply" /\ f.result = "accepted"}

AcksInv ==
    ~forgot => \A s \in Sides : \A f \in AcksTo(s) : f.rev <= mem[Peer(s)][f.key].app

\* An update on its way, or kept for a retry, is one its sender knows; the
\* phone's numbers are its own and stay so when the Note4 forgets it.
StatesOf(s) == {f \in Flying(Peer(s)) \cup sess[s].out : f.type = "state"}

StatesInv ==
    \A s \in Sides : ~forgot \/ s = "phone" =>
        /\ \A f \in StatesOf(s) : f.rev <= Known(mem[s][f.key])
        /\ \A k \in Keys : disk[Peer(s)][k].app <= Known(mem[s][k])

\* Revision r of k with value v is found somewhere between s and its peer.
Carries(s, k, r, v) ==
    \/ mem[s][k].pend = r /\ mem[s][k].pval = v
    \/ disk[s][k].pend = r /\ disk[s][k].pval = v
    \/ mem[Peer(s)][k].app = r /\ mem[Peer(s)][k].ival = v
    \/ disk[Peer(s)][k].app = r /\ disk[Peer(s)][k].ival = v
    \/ \E f \in StatesOf(s) : f.key = k /\ f.rev = r /\ f.val = v

OneValueInv ==
    \A s \in Sides, k \in Keys, r \in Revisions \ {0}, v \in Values, w \in Values :
        Carries(s, k, r, v) /\ Carries(s, k, r, w) => v = w

\* Nothing from the reader is newer than its snapshot, and what is as new is it.
OwnerInv ==
    \A k \in Keys, r \in Revisions \ {0}, v \in Values : Carries("note4", k, r, v) =>
        r <= owner[k].rev /\ (r = owner[k].rev => v = owner[k].val)

DataInv == StoresInv /\ WindowInv /\ AcksInv /\ StatesInv /\ OneValueInv /\ OwnerInv

-----------------------------------------------------------------------------
(* What a step that does not forget may do to stores, frames and snapshot. *)

Stored(s, new) ==
    /\ disk' = [disk EXCEPT ![s] = new]
    /\ mem' = mem \/ mem' = [mem EXCEPT ![s] = new]

StoresSame == mem' = mem /\ disk' = disk

Enqueues(s) ==
    \E k \in Keys, r \in Revisions \ {0}, v \in Values, new \in EngineState :
        /\ Kept(new) /\ Enqueued(mem[s], new, k, r, v) /\ Stored(s, new)
        /\ s = "note4" => r = owner[k].rev /\ v = owner[k].val

Receives(s) ==
    \E f \in StatesOf(Peer(s)), new \in EngineState :
        Kept(new) /\ Received(mem[s], new, f.key, f.rev, f.val) /\ Stored(s, new)

RetiresAt(s) ==
    \E new \in EngineState :
        /\ Kept(new) /\ Retired(mem[s], new) /\ Stored(s, new)
        /\ ~forgot => \A k \in Keys : new[k].ack <= mem[Peer(s)][k].app

Reloads(s) == mem' = [mem EXCEPT ![s] = disk[s]] /\ disk' = disk

StoreStep ==
    StoresSame \/ \E s \in Sides : Enqueues(s) \/ Receives(s) \/ RetiresAt(s) \/ Reloads(s)

\* A new update frame is what waits in the outbox.
FrameStep ==
    \A s \in Sides : \A f \in StatesOf(s)' :
        f \in StatesOf(s) \/ (f.rev = mem[s][f.key].pend /\ f.val = mem[s][f.key].pval)

\* A new ACK is for something applied.
AckStep ==
    \A s \in Sides : \A f \in AcksTo(s)' : f \in AcksTo(s) \/ f.rev <= mem'[Peer(s)][f.key].app

OwnerStep ==
    \/ owner' = owner
    \/ /\ StoresSame
       /\ \E k \in Keys, v \in Values :
            owner' = [owner EXCEPT ![k] = [rev |-> @.rev + 1, val |-> v]]

DataStep == StoreStep /\ FrameStep /\ AckStep /\ OwnerStep /\ forgot' = forgot

\* Update and ACK frames found on the way or queued are of those types.
LEMMA FrameSets ==
    ASSUME Types, NEW s \in Sides
    PROVE  /\ StatesOf(s) \subseteq StateFrames /\ AcksTo(s) \subseteq ReplyFrames
           /\ Flying(s) \subseteq Frame
<1>1. Flying(s) \subseteq Frame /\ Flying(Peer(s)) \subseteq Frame
    BY SideFacts, ElemsAreFrames DEF Types, Flying
<1>2. sess[s].out \subseteq StateFrames /\ sess[Peer(s)].reply \subseteq ReplyFrames
    BY SideFacts DEF Types, Sessions
<1> QED
    BY <1>1, <1>2, FrameKinds DEF StatesOf, AcksTo

\* The same of the next state.
LEMMA FrameSetsNext ==
    ASSUME Types', NEW s \in Sides
    PROVE  /\ StatesOf(s)' \subseteq StateFrames /\ AcksTo(s)' \subseteq ReplyFrames
           /\ Flying(s)' \subseteq Frame
<1>1. Flying(s)' \subseteq Frame /\ Flying(Peer(s))' \subseteq Frame
    BY SideFacts, ElemsAreFrames DEF Types, Flying
<1>2. sess'[s].out \subseteq StateFrames /\ sess'[Peer(s)].reply \subseteq ReplyFrames
    BY SideFacts DEF Types, Sessions
<1> QED
    BY <1>1, <1>2, FrameKinds DEF StatesOf, AcksTo

\* The numbers of both sides, in memory and on the store, are revisions.
LEMMA SidesNumbers ==
    ASSUME Types, NEW s \in Sides, NEW k \in Keys
    PROVE  /\ mem[s] \in EngineState /\ disk[s] \in EngineState
           /\ KeyNumbers(mem[s][k]) /\ KeyNumbers(disk[s][k])
           /\ Known(mem[s][k]) \in Nat /\ Known(disk[s][k]) \in Nat
BY StateNumbers, KnownIsHigher DEF Types, KeyNumbers

\* A record is ahead of itself.
LEMMA AheadOfSelf ==
    ASSUME NEW e \in EngineState, Kept(e)
    PROVE  Ahead(e, e)
BY StateNumbers DEF Ahead, Retired, Kept, KeyNumbers

\* Cursors only grow; a record stays at most one save ahead.
LEMMA StoresStay ==
    ASSUME Types, StoresInv, StoreStep
    PROVE  /\ StoresInv'
           /\ mem' \in [Sides -> EngineState] /\ disk' \in [Sides -> EngineState]
           /\ \A s \in Sides, k \in Keys : /\ mem[s][k].app <= mem'[s][k].app
                                           /\ Known(mem[s][k]) <= Known(mem'[s][k])
                                           /\ mem'[s][k].app <= disk'[s][k].app
<1>1. /\ StoresInv'
      /\ mem' \in [Sides -> EngineState] /\ disk' \in [Sides -> EngineState]
      /\ \A s \in Sides : mem'[s] = mem[s] \/ Ahead(mem[s], mem'[s])
    <2>1. CASE StoresSame
        BY <2>1 DEF StoresSame, StoresInv, Types
    <2>2. ASSUME NEW s \in Sides, NEW new \in EngineState, Kept(new), Ahead(mem[s], new),
                 Stored(s, new)
          PROVE  /\ StoresInv'
                 /\ mem' \in [Sides -> EngineState] /\ disk' \in [Sides -> EngineState]
                 /\ \A t \in Sides : mem'[t] = mem[t] \/ Ahead(mem[t], mem'[t])
        BY <2>2, AheadOfSelf DEF Stored, StoresInv, Types
    <2>3. ASSUME NEW s \in Sides, Enqueues(s) \/ Receives(s) \/ RetiresAt(s)
          PROVE  \E new \in EngineState : Kept(new) /\ Ahead(mem[s], new) /\ Stored(s, new)
        <3>1. CASE Enqueues(s)
            BY <3>1 DEF Enqueues, Ahead
        <3>2. CASE Receives(s)
            BY <3>2, FrameSets, SideFacts DEF Receives, Ahead, StateFrames
        <3>3. CASE RetiresAt(s)
            BY <3>3 DEF RetiresAt, Ahead
        <3> QED
            BY <2>3, <3>1, <3>2, <3>3
    <2>4. ASSUME NEW s \in Sides, Reloads(s)
          PROVE  /\ StoresInv'
                 /\ mem' \in [Sides -> EngineState] /\ disk' \in [Sides -> EngineState]
                 /\ \A t \in Sides : mem'[t] = mem[t] \/ Ahead(mem[t], mem'[t])
        BY <2>4, AheadOfSelf DEF Reloads, StoresInv, Types
    <2> QED
        BY <2>1, <2>2, <2>3, <2>4 DEF StoreStep
<1>2. ASSUME NEW s \in Sides, NEW k \in Keys
      PROVE  /\ mem[s][k].app <= mem'[s][k].app
             /\ Known(mem[s][k]) <= Known(mem'[s][k])
             /\ mem'[s][k].app <= disk'[s][k].app
    <2>1. mem[s] \in EngineState /\ mem'[s] \in EngineState /\ disk'[s] \in EngineState
        BY <1>1 DEF Types
    <2>2. Kept(mem[s]) /\ Kept(mem'[s]) /\ Kept(disk'[s]) /\ Ahead(mem'[s], disk'[s])
        BY <1>1 DEF StoresInv
    <2>3. mem'[s][k].app <= disk'[s][k].app
        BY <2>1, <2>2, AheadCovers
    <2>4. CASE mem'[s] = mem[s]
        BY <2>3, <2>4, SidesNumbers DEF KeyNumbers
    <2>5. CASE Ahead(mem[s], mem'[s])
        BY <2>1, <2>2, <2>3, <2>5, AheadCovers
    <2> QED
        BY <1>1, <2>4, <2>5
<1> QED
    BY <1>1, <1>2

\* What reaches a store was applied there before or comes from a frame, and
\* what is retired was retired before or is applied at the peer.
LEMMA StoreSources ==
    ASSUME Types, StoresInv, StoreStep, NEW s \in Sides, NEW k \in Keys
    PROVE  /\ \/ disk'[s][k].app <= disk[s][k].app
              \/ \E f \in StatesOf(Peer(s)) : f.key = k /\ f.rev = disk'[s][k].app
           /\ \A a \in {mem'[s][k].ack, disk'[s][k].ack} :
                \/ a = mem[s][k].ack \/ a = disk[s][k].ack
                \/ ~forgot => a <= mem[Peer(s)][k].app
<1>0. /\ mem[s] \in EngineState /\ disk[s] \in EngineState
      /\ KeyNumbers(mem[s][k]) /\ KeyNumbers(disk[s][k])
      /\ mem[s][k].app <= disk[s][k].app
    BY SidesNumbers, AheadCovers DEF StoresInv
<1>1. CASE mem'[s] = mem[s] /\ disk'[s] = disk[s]
    BY <1>0, <1>1 DEF KeyNumbers
<1>2. CASE Reloads(s)
    BY <1>0, <1>2 DEF Reloads, KeyNumbers, Types
<1>3. ASSUME NEW new \in EngineState, Stored(s, new)
      PROVE  disk'[s] = new /\ (mem'[s] = mem[s] \/ mem'[s] = new)
    BY <1>3 DEF Stored, Types
<1>4. CASE Enqueues(s)
    BY <1>0, <1>3, <1>4 DEF Enqueues, Enqueued, KeyNumbers
<1>5. CASE Receives(s)
    <2>1. PICK f \in StatesOf(Peer(s)), new \in EngineState :
                Kept(new) /\ Received(mem[s], new, f.key, f.rev, f.val) /\ Stored(s, new)
        BY <1>5 DEF Receives
    <2>2. \A j \in Keys : new[j].ack = mem[s][j].ack /\ (j # f.key => new[j].app = mem[s][j].app)
        BY <2>1 DEF Received
    <2>3. new[f.key].app = f.rev
        BY <2>1 DEF Received
    <2> QED
        BY <1>0, <1>3, <2>1, <2>2, <2>3
<1>6. CASE RetiresAt(s)
    BY <1>0, <1>3, <1>6 DEF RetiresAt, Retired, KeyNumbers
<1>7. ASSUME NEW t \in Sides, t # s, Enqueues(t) \/ Receives(t) \/ RetiresAt(t) \/ Reloads(t)
      PROVE  mem'[s] = mem[s] /\ disk'[s] = disk[s]
    BY <1>7 DEF Enqueues, Receives, RetiresAt, Reloads, Stored, Types
<1> QED
    BY <1>1, <1>2, <1>4, <1>5, <1>6, <1>7 DEF StoreStep, StoresSame

-----------------------------------------------------------------------------
(* Such a step keeps the invariant of the data.                            *)

\* No step but forgetting takes the two stores out of the window.
LEMMA WindowStays ==
    ASSUME Types, DataInv, DataStep
    PROVE  WindowInv'
<1> SUFFICES ASSUME ~forgot, NEW s \in Sides, NEW k \in Keys
             PROVE  /\ mem'[s][k].ack <= mem'[Peer(s)][k].app
                    /\ disk'[s][k].ack <= mem'[Peer(s)][k].app
                    /\ disk'[Peer(s)][k].app <= Known(mem'[s][k])
    BY DEF WindowInv, DataStep
<1> DEFINE t == Peer(s)
<1>1. t \in Sides /\ Peer(t) = s
    BY SideFacts
<1>2. Types /\ StoresInv /\ StoreStep
    BY DEF DataInv, DataStep
<1>3. /\ mem'[s] \in EngineState /\ mem'[t] \in EngineState
      /\ disk'[s] \in EngineState /\ disk'[t] \in EngineState
      /\ mem[t][k].app <= mem'[t][k].app /\ Known(mem[s][k]) <= Known(mem'[s][k])
    BY <1>1, <1>2, StoresStay
<1>4. /\ KeyNumbers(mem'[s][k]) /\ KeyNumbers(disk'[s][k]) /\ KeyNumbers(mem'[t][k])
      /\ KeyNumbers(disk'[t][k]) /\ Known(mem'[s][k]) \in Nat
    BY <1>3, StateNumbers, KnownIsHigher DEF KeyNumbers
<1>5. /\ mem[s][k].ack <= mem[t][k].app /\ disk[s][k].ack <= mem[t][k].app
      /\ disk[t][k].app <= Known(mem[s][k])
    BY DEF DataInv, WindowInv
<1>6. /\ KeyNumbers(mem[s][k]) /\ KeyNumbers(disk[s][k]) /\ KeyNumbers(mem[t][k])
      /\ KeyNumbers(disk[t][k]) /\ Known(mem[s][k]) \in Nat
    BY <1>1, SidesNumbers
<1>7. \A a \in {mem'[s][k].ack, disk'[s][k].ack} : a <= mem[t][k].app
    BY <1>2, <1>5, StoreSources
<1>8. disk'[t][k].app <= Known(mem[s][k])
    <2>1. CASE disk'[t][k].app <= disk[t][k].app
        BY <1>4, <1>5, <1>6, <2>1 DEF KeyNumbers
    <2>2. CASE \E f \in StatesOf(s) : f.key = k /\ f.rev = disk'[t][k].app
        BY <2>2 DEF DataInv, StatesInv
    <2> QED
        BY <1>1, <1>2, <2>1, <2>2, StoreSources
<1> QED
    BY <1>3, <1>4, <1>6, <1>7, <1>8 DEF KeyNumbers

\* An ACK in flight stays one for something applied.
LEMMA AcksStay ==
    ASSUME Types, DataInv, DataStep, Types'
    PROVE  AcksInv'
<1> SUFFICES ASSUME ~forgot, NEW s \in Sides, NEW f \in AcksTo(s)'
             PROVE  f.rev <= mem'[Peer(s)][f.key].app
    BY DEF AcksInv, DataStep
<1>1. f \in ReplyFrames
    BY FrameSetsNext
<1>2. f.key \in Keys /\ f.rev \in Nat /\ Peer(s) \in Sides
    BY <1>1, SideFacts, RevisionFacts DEF ReplyFrames
<1>3. CASE f \in AcksTo(s)
    <2>1. f.rev <= mem[Peer(s)][f.key].app
        BY <1>3 DEF DataInv, AcksInv
    <2>2. mem[Peer(s)][f.key].app <= mem'[Peer(s)][f.key].app
        BY <1>2, StoresStay DEF DataInv, DataStep
    <2>3. mem[Peer(s)][f.key].app \in Nat /\ mem'[Peer(s)][f.key].app \in Nat
        BY <1>2, SidesNumbers, StateNumbers DEF Types, KeyNumbers
    <2> QED
        BY <1>2, <2>1, <2>2, <2>3
<1> QED
    BY <1>3 DEF DataStep, AckStep

\* An update in flight stays one its sender knows.
LEMMA StatesStay ==
    ASSUME Types, DataInv, DataStep, Types'
    PROVE  StatesInv'
<1> SUFFICES ASSUME NEW s \in Sides, ~forgot \/ s = "phone"
             PROVE  /\ \A f \in StatesOf(s)' : f.rev <= Known(mem'[s][f.key])
                    /\ \A k \in Keys : disk'[Peer(s)][k].app <= Known(mem'[s][k])
    BY DEF StatesInv, DataStep
<1>1. Peer(s) \in Sides /\ Peer(Peer(s)) = s /\ Types /\ StoresInv /\ StoreStep
    BY SideFacts DEF DataInv, DataStep
<1>2. ASSUME NEW k \in Keys
      PROVE  /\ KeyNumbers(mem[s][k]) /\ Known(mem[s][k]) \in Nat /\ Known(mem'[s][k]) \in Nat
             /\ KeyNumbers(disk[Peer(s)][k]) /\ KeyNumbers(disk'[Peer(s)][k])
             /\ Known(mem[s][k]) <= Known(mem'[s][k])
    BY <1>1, StoresStay, SidesNumbers, StateNumbers, KnownIsHigher DEF KeyNumbers, Types
<1>3. ASSUME NEW f \in StatesOf(s)
      PROVE  f.key \in Keys /\ f.rev \in Nat /\ f.rev <= Known(mem[s][f.key])
    BY <1>1, FrameSets, RevisionFacts DEF DataInv, StatesInv, StateFrames
<1>4. ASSUME NEW f \in StatesOf(s)' PROVE f.rev <= Known(mem'[s][f.key])
    <2>1. f.key \in Keys /\ f.rev \in Nat
        <3>1. StatesOf(s)' \subseteq StateFrames
            BY FrameSetsNext
        <3> QED
            BY <3>1, RevisionFacts DEF StateFrames
    <2>2. CASE f \in StatesOf(s)
        BY <1>2, <1>3, <2>1, <2>2
    <2>3. CASE f.rev = mem[s][f.key].pend
        <3>1. f.rev <= Known(mem[s][f.key])
            BY <1>2, <2>1, <2>3, KnownIsHigher DEF KeyNumbers
        <3> QED
            BY <1>2, <2>1, <3>1
    <2> QED
        BY <2>2, <2>3 DEF DataStep, FrameStep
<1>5. ASSUME NEW k \in Keys PROVE disk'[Peer(s)][k].app <= Known(mem'[s][k])
    <2>1. disk[Peer(s)][k].app <= Known(mem[s][k])
        BY DEF DataInv, StatesInv
    <2>2. CASE disk'[Peer(s)][k].app <= disk[Peer(s)][k].app
        BY <1>2, <2>1, <2>2 DEF KeyNumbers
    <2>3. CASE \E f \in StatesOf(s) : f.key = k /\ f.rev = disk'[Peer(s)][k].app
        BY <1>2, <1>3, <2>3
    <2> QED
        BY <1>1, <2>2, <2>3, StoreSources
<1> QED
    BY <1>4, <1>5

\* A step carries on what was there, except for an update just enqueued.
LEMMA CarriedBefore ==
    ASSUME Types, DataInv, DataStep, NEW s \in Sides, ~Enqueues(s),
           NEW k \in Keys, NEW r \in Revisions \ {0}, NEW v \in Values,
           Carries(s, k, r, v)'
    PROVE  Carries(s, k, r, v)
<1> DEFINE t == Peer(s)
<1>0. t \in Sides /\ t # s /\ Peer(t) = s /\ s \in Sides /\ (\A u \in Sides : u = s \/ u = t)
    BY SideFacts
<1>1. CASE \E f \in StatesOf(s)' : f.key = k /\ f.rev = r /\ f.val = v
    BY <1>1 DEF DataStep, FrameStep, Carries
<1>2. CASE (mem'[s][k].pend = r /\ mem'[s][k].pval = v) \/ (disk'[s][k].pend = r /\ disk'[s][k].pval = v)
    <2>1. CASE RetiresAt(s)
        BY <1>2, <2>1 DEF RetiresAt, Retired, Stored, Types, Carries
    <2>2. CASE Receives(s)
        BY <1>2, <2>2 DEF Receives, Received, Stored, Types, Carries
    <2>3. CASE Reloads(s)
        BY <1>2, <2>3 DEF Reloads, Types, Carries
    <2>4. CASE StoresSame
        BY <1>2, <2>4 DEF StoresSame, Carries
    <2>5. CASE Enqueues(t) \/ Receives(t) \/ RetiresAt(t) \/ Reloads(t)
        <3>1. mem'[s] = mem[s] /\ disk'[s] = disk[s]
            BY <1>0, <2>5 DEF Enqueues, Receives, RetiresAt, Reloads, Stored, Types
        <3> QED
            BY <1>2, <3>1 DEF Carries
    <2> QED
        BY <1>0, <2>1, <2>2, <2>3, <2>4, <2>5 DEF DataStep, StoreStep
<1>3. CASE (mem'[t][k].app = r /\ mem'[t][k].ival = v) \/ (disk'[t][k].app = r /\ disk'[t][k].ival = v)
    <2>1. CASE RetiresAt(t)
        BY <1>0, <1>3, <2>1 DEF RetiresAt, Retired, Stored, Types, Carries
    <2>2. CASE Receives(t)
        <3>1. PICK f \in StatesOf(s), new \in EngineState :
                    Received(mem[t], new, f.key, f.rev, f.val) /\ Stored(t, new)
            BY <1>0, <2>2 DEF Receives
        <3>2. (disk'[t] = new) /\ (mem'[t] = mem[t] \/ mem'[t] = new)
            BY <1>0, <3>1 DEF Stored, Types
        <3>3. CASE (mem[t][k].app = r /\ mem[t][k].ival = v)
            BY <3>3 DEF Carries
        <3>4. CASE new[k].app = r /\ new[k].ival = v /\ k = f.key
            BY <3>1, <3>4 DEF Received, Carries
        <3>5. CASE new[k].app = r /\ new[k].ival = v /\ k # f.key
            BY <3>1, <3>5 DEF Received, Carries
        <3> QED
            BY <1>3, <3>2, <3>3, <3>4, <3>5
    <2>3. CASE Reloads(t)
        BY <1>0, <1>3, <2>3 DEF Reloads, Types, Carries
    <2>4. CASE StoresSame
        BY <1>3, <2>4 DEF StoresSame, Carries
    <2>5. CASE Enqueues(t)
        BY <1>0, <1>3, <2>5 DEF Enqueues, Enqueued, Stored, Types, Carries
    <2>6. CASE RetiresAt(s) \/ Receives(s) \/ Reloads(s)
        <3>1. mem'[t] = mem[t] /\ disk'[t] = disk[t]
            BY <1>0, <2>6 DEF Receives, RetiresAt, Reloads, Stored, Types
        <3> QED
            BY <1>3, <3>1 DEF Carries
    <2> QED
        BY <1>0, <2>1, <2>2, <2>3, <2>4, <2>5, <2>6 DEF DataStep, StoreStep
<1> QED
    BY <1>1, <1>2, <1>3 DEF Carries

\* After an enqueue: what was carried, or the new update, which nothing else
\* contradicts - the phone's number is above all but the record it replaces,
\* and the reader's update is its snapshot.
LEMMA CarriedAfterEnqueue ==
    ASSUME Types, DataInv, DataStep, NEW s \in Sides,
           NEW j \in Keys, NEW q \in Revisions \ {0}, NEW w \in Values, NEW new \in EngineState,
           Enqueued(mem[s], new, j, q, w), Stored(s, new),
           s = "note4" => q = owner[j].rev /\ w = owner[j].val,
           NEW k \in Keys, NEW r \in Revisions \ {0}, NEW v \in Values,
           Carries(s, k, r, v)'
    PROVE  /\ Carries(s, k, r, v) \/ (k = j /\ r = q /\ v = w)
           /\ k = j /\ r = q => v = w
<1> DEFINE t == Peer(s)
<1>0. t \in Sides /\ t # s /\ Peer(t) = s
    BY SideFacts
<1>1. /\ disk'[s] = new /\ (mem'[s] = mem[s] \/ mem'[s] = new)
      /\ mem'[t] = mem[t] /\ disk'[t] = disk[t]
    BY <1>0 DEF Stored, Types
<1>2. /\ KeyNumbers(mem[s][k]) /\ Known(mem[s][k]) \in Nat /\ r \in Nat /\ q \in Nat
      /\ mem[s][k].pend <= Known(mem[s][k])
      /\ KeyNumbers(mem[t][k]) /\ KeyNumbers(disk[t][k]) /\ mem[t][k].app <= disk[t][k].app
    BY <1>0, SidesNumbers, KnownIsHigher, RevisionFacts, AheadCovers
       DEF KeyNumbers, DataInv, StoresInv
<1>3. /\ q > Known(mem[s][j]) /\ new[j].pend = q /\ new[j].pval = w
      /\ k # j => new[k].pend = mem[s][k].pend /\ new[k].pval = mem[s][k].pval
    BY DEF Enqueued
<1>4. ASSUME NEW f \in StatesOf(s)', f.key = k, f.rev = r, f.val = v
      PROVE  \/ \E g \in StatesOf(s) : g.key = k /\ g.rev = r /\ g.val = v
             \/ mem[s][k].pend = r /\ mem[s][k].pval = v
    BY <1>4 DEF DataStep, FrameStep
<1>5. \/ k = j /\ r = q /\ v = w
      \/ mem[s][k].pend = r /\ mem[s][k].pval = v
      \/ (mem[t][k].app = r /\ mem[t][k].ival = v) \/ (disk[t][k].app = r /\ disk[t][k].ival = v)
      \/ \E g \in StatesOf(s) : g.key = k /\ g.rev = r /\ g.val = v
    BY <1>1, <1>3, <1>4 DEF Carries
<1>6. Carries(s, k, r, v) \/ (k = j /\ r = q /\ v = w)
    BY <1>5 DEF Carries
<1>7. ASSUME k = j, r = q PROVE v = w
    <2>1. CASE s = "note4"
        <3>1. Carries("note4", k, r, v) => v = owner[k].val
            BY <1>7, <2>1 DEF DataInv, OwnerInv
        <3> QED
            BY <1>6, <1>7, <2>1, <3>1
    <2>2. CASE s = "phone"
        <3>1. /\ \A g \in StatesOf(s) : g.key = k => g.rev <= Known(mem[s][k])
              /\ disk[t][k].app <= Known(mem[s][k])
            BY <2>2 DEF DataInv, StatesInv
        <3>2. r > Known(mem[s][k])
            BY <1>3, <1>7
        <3>3. mem[s][k].pend # r /\ mem[t][k].app # r /\ disk[t][k].app # r
            BY <1>2, <3>1, <3>2 DEF KeyNumbers
        <3>4. ~ \E g \in StatesOf(s) : g.key = k /\ g.rev = r
            BY <1>2, <3>1, <3>2
        <3> QED
            BY <1>5, <3>3, <3>4
    <2> QED
        BY <2>1, <2>2 DEF Sides
<1> QED
    BY <1>6, <1>7

\* A revision keeps its bytes: a new one is carried by nobody yet.
LEMMA OneValueStays ==
    ASSUME Types, DataInv, DataStep
    PROVE  OneValueInv'
<1> SUFFICES ASSUME NEW s \in Sides, NEW k \in Keys, NEW r \in Revisions \ {0},
                    NEW v \in Values, NEW w \in Values,
                    Carries(s, k, r, v)', Carries(s, k, r, w)'
             PROVE  v = w
    BY DEF OneValueInv
<1>1. CASE ~Enqueues(s)
    <2>1. Carries(s, k, r, v) /\ Carries(s, k, r, w)
        BY <1>1, CarriedBefore
    <2> QED
        BY <2>1 DEF DataInv, OneValueInv
<1>2. CASE Enqueues(s)
    <2>1. PICK j \in Keys, q \in Revisions \ {0}, x \in Values, new \in EngineState :
            /\ Enqueued(mem[s], new, j, q, x) /\ Stored(s, new)
            /\ s = "note4" => q = owner[j].rev /\ x = owner[j].val
        BY <1>2 DEF Enqueues
    <2>2. CASE k = j /\ r = q
        BY <2>1, <2>2, CarriedAfterEnqueue
    <2>3. CASE ~(k = j /\ r = q)
        <3>1. Carries(s, k, r, v) /\ Carries(s, k, r, w)
            BY <2>1, <2>3, CarriedAfterEnqueue
        <3> QED
            BY <3>1 DEF DataInv, OneValueInv
    <2> QED
        BY <2>2, <2>3
<1> QED
    BY <1>1, <1>2

\* Nothing the reader sent overtakes its snapshot.
LEMMA OwnerStays ==
    ASSUME Types, DataInv, DataStep
    PROVE  OwnerInv'
<1> SUFFICES ASSUME NEW k \in Keys, NEW r \in Revisions \ {0}, NEW v \in Values,
                    Carries("note4", k, r, v)'
             PROVE  r <= owner'[k].rev /\ (r = owner'[k].rev => v = owner'[k].val)
    BY DEF OwnerInv
<1>0. "note4" \in Sides /\ r \in Nat /\ owner[k].rev \in Nat
    BY RevisionFacts DEF Sides, Types
<1>1. \/ r <= owner[k].rev /\ (r = owner[k].rev => v = owner[k].val)
      \/ r = owner[k].rev /\ v = owner[k].val
    <2>1. CASE ~Enqueues("note4")
        BY <1>0, <2>1, CarriedBefore DEF DataInv, OwnerInv
    <2>2. CASE Enqueues("note4")
        <3>1. PICK j \in Keys, q \in Revisions \ {0}, x \in Values, new \in EngineState :
                /\ Enqueued(mem["note4"], new, j, q, x) /\ Stored("note4", new)
                /\ q = owner[j].rev /\ x = owner[j].val
            BY <2>2 DEF Enqueues
        <3>2. Carries("note4", k, r, v) \/ (k = j /\ r = q /\ v = x)
            BY <1>0, <3>1, CarriedAfterEnqueue
        <3> QED
            BY <3>1, <3>2 DEF DataInv, OwnerInv
    <2> QED
        BY <2>1, <2>2
<1>2. CASE owner' = owner
    BY <1>0, <1>1, <1>2
<1>3. ASSUME NEW j \in Keys, NEW x \in Values,
             owner' = [owner EXCEPT ![j] = [rev |-> @.rev + 1, val |-> x]]
      PROVE  r <= owner'[k].rev /\ (r = owner'[k].rev => v = owner'[k].val)
    <2>1. owner'[k] = IF k = j THEN [rev |-> owner[k].rev + 1, val |-> x] ELSE owner[k]
        BY <1>3 DEF Types
    <2> QED
        BY <1>0, <1>1, <2>1
<1> QED
    BY <1>2, <1>3 DEF DataStep, OwnerStep

\* Every part of the data invariant survives a DataStep.
LEMMA DataStays ==
    ASSUME Types, DataInv, DataStep, Types'
    PROVE  DataInv'
<1>1. StoresInv'
    BY StoresStay DEF DataInv, DataStep
<1> QED
    BY <1>1, WindowStays, AcksStay, StatesStay, OneValueStays, OwnerStays DEF DataInv

-----------------------------------------------------------------------------
(* The handshake: at most one Hello or answer to it is on its way, on a live *)
(* link, and until it arrives the phone takes part in nothing else.          *)

Greeting(f) == f.type \in {"helloack", "rejected"}
Greeted == \E f \in Flying("phone") : Greeting(f)
OneGreeting ==
    \A i \in 1..Len(air["phone"]), j \in 1..Len(air["phone"]) :
        Greeting(air["phone"][i]) /\ Greeting(air["phone"][j]) => i = j

QuietInv ==
    \A s \in Sides : sess[s].status \in {"disconnected", "hello"} =>
        sess[s].out = {} /\ sess[s].reply = {}

HelloInv ==
    \A f \in Flying("note4") :
        /\ ~Greeting(f)
        /\ f.type = "hello" => /\ Len(air["note4"]) = 1 /\ link /\ ~Greeted
                               /\ sess["phone"].status = "hello"
                               /\ sess["note4"].status = "disconnected"

GreetingInv ==
    /\ \A f \in Flying("phone") : f.type # "hello"
    /\ OneGreeting
    /\ Greeted => link /\ sess["phone"].status = "hello" /\ air["note4"] = <<>>

HandshakeInv == QuietInv /\ sess["note4"].status # "hello" /\ HelloInv /\ GreetingInv

\* Cursors on their way still say what their sender would say, and cover what
\* the side they go to has on its store.
Cursors(f) == f.type \in {"hello", "helloack"}

Told(s, c) ==
    /\ ValidCursors(c)
    /\ \A k \in Keys : c[k].app = mem[s][k].app /\ c[k].ack = mem[s][k].ack
                       /\ Known(c[k]) <= Known(mem[s][k])

CursorInv ==
    \A t \in Sides : \A f \in Flying(t) : Cursors(f) =>
        /\ Told(Peer(t), f.cursors)
        /\ ~forgot => \A k \in Keys : disk[t][k].app <= Known(f.cursors[k])

\* How a session that is not shaking hands may change.
Steady ==
    \A s \in Sides :
        \/ sess'[s] = sess[s]
        \/ /\ sess[s].status \notin {"disconnected", "hello"}
           /\ sess'[s].status \notin {"disconnected", "hello"}

\* A session that is not active holds no frame to send.
LEMMA QuietStays ==
    ASSUME QuietInv, Steady, sess["note4"].status # "hello"
    PROVE  QuietInv' /\ sess'["note4"].status # "hello"
BY SideFacts DEF QuietInv, Steady

\* What flies towards a side is one of the frames of its queue.
LEMMA FlyingFacts ==
    ASSUME Types, NEW s \in Sides
    PROVE  air[s] \in Seq(Frame) /\ Flying(s) \subseteq Frame /\ Len(air[s]) \in Nat
           /\ (air[s] = <<>> <=> Len(air[s]) = 0) /\ (air[s] = <<>> <=> Flying(s) = {})
<1>1. air[s] \in Seq(Frame)
    BY DEF Types
<1>2. Flying(s) \subseteq Frame /\ Len(air[s]) \in Nat
    BY <1>1, ElemsAreFrames, LenProperties DEF Flying
<1>3. air[s] # <<>> => Len(air[s]) \in Nat \ {0} /\ Head(air[s]) \in Flying(s)
    BY <1>1, ElemsOfTail DEF Flying
<1>4. Len(<<>>) = 0 /\ Elems(<<>>) = {}
    BY EmptySeq DEF Elems
<1> QED
    BY <1>1, <1>2, <1>3, <1>4 DEF Flying

\* Taking the head of the air keeps the order of the rest.
LEMMA TakeFacts ==
    ASSUME Types, NEW s \in Sides, air[s] # <<>>, Take(s)
    PROVE  /\ air' \in [Sides -> Seq(Frame)]
           /\ Head(air[s]) \in Flying(s) /\ Head(air[s]) \in Frame
           /\ Flying(s)' \subseteq Flying(s)
           /\ Len(air[s]) \in Nat \ {0} /\ Len(air'[s]) = Len(air[s]) - 1
           /\ \A i \in 1..Len(air'[s]) : i + 1 \in 1..Len(air[s]) /\ air'[s][i] = air[s][i + 1]
           /\ \A u \in Sides \ {s} : air'[u] = air[u] /\ Flying(u)' = Flying(u)
<1>1. air'[s] = Tail(air[s]) /\ \A u \in Sides \ {s} : air'[u] = air[u]
    BY DEF Take, Types
<1>2. air[s] \in Seq(Frame)
    BY DEF Types
<1>3. /\ Tail(air[s]) \in Seq(Frame) /\ Head(air[s]) \in Elems(air[s])
      /\ Elems(Tail(air[s])) \subseteq Elems(air[s])
      /\ Len(Tail(air[s])) = Len(air[s]) - 1 /\ Len(air[s]) \in Nat \ {0}
      /\ \A i \in 1..Len(Tail(air[s])) : i + 1 \in 1..Len(air[s]) /\ Tail(air[s])[i] = air[s][i + 1]
    BY <1>2, ElemsOfTail
<1>4. air' \in [Sides -> Seq(Frame)]
    BY <1>3 DEF Take, Types
<1> QED
    BY <1>1, <1>3, <1>4, FlyingFacts DEF Flying

\* Sending puts one frame at the end of the peer's queue.
LEMMA SendFacts ==
    ASSUME Types, NEW s \in Sides, NEW f \in Frame, Send(s, f)
    PROVE  /\ air' \in [Sides -> Seq(Frame)]
           /\ Flying(Peer(s))' = Flying(Peer(s)) \cup {f}
           /\ Len(air'[Peer(s)]) = Len(air[Peer(s)]) + 1
           /\ \A i \in 1..Len(air[Peer(s)]) : air'[Peer(s)][i] = air[Peer(s)][i]
           /\ air'[Peer(s)][Len(air[Peer(s)]) + 1] = f
           /\ air'[s] = air[s] /\ Flying(s)' = Flying(s)
<1>1. Peer(s) \in Sides /\ Peer(s) # s
    BY SideFacts
<1>2. air'[Peer(s)] = Append(air[Peer(s)], f) /\ air'[s] = air[s]
    BY <1>1 DEF Send, Types
<1>3. air[Peer(s)] \in Seq(Frame)
    BY <1>1 DEF Types
<1>4. Append(air[Peer(s)], f) \in Seq(Frame)
    BY <1>3, ElemsOfAppend
<1>5. air' \in [Sides -> Seq(Frame)]
    BY <1>4 DEF Send, Types
<1> QED
    BY <1>2, <1>3, <1>5, ElemsOfAppend DEF Flying

\* Taking a frame and sending an update or an ACK disturb no handshake.
LEMMA HandshakeTakes ==
    ASSUME Types, HandshakeInv, Steady, link' = link,
           NEW s \in Sides, air[s] # <<>>, Take(s)
    PROVE  HandshakeInv'
<1> USE DEF HandshakeInv
<1>1. QuietInv' /\ sess'["note4"].status # "hello"
    BY QuietStays
<1>2. \A u \in Sides : sess[u].status \in {"disconnected", "hello"} => sess'[u] = sess[u]
    BY DEF Steady
<1>3. Flying("note4")' \subseteq Flying("note4") /\ Flying("phone")' \subseteq Flying("phone")
    BY TakeFacts, SideFacts
<1>4. Greeted' => Greeted
    BY <1>3 DEF Greeted
<1>5. HelloInv'
    <2>1. SUFFICES ASSUME NEW f \in Flying("note4")', f.type = "hello"
                   PROVE  Len(air'["note4"]) = 1
        BY <1>2, <1>3, <1>4, SideFacts DEF HelloInv
    <2>2. Len(air["note4"]) = 1 /\ air'["note4"] \in Seq(Frame)
        BY <1>3, <2>1, TakeFacts, SideFacts DEF HelloInv
    <2>3. CASE s = "phone"
        BY <2>2, <2>3, TakeFacts, SideFacts
    <2>4. CASE s = "note4"
        <3>1. Len(air'["note4"]) = 0
            BY <2>2, <2>4, TakeFacts
        <3>2. Flying("note4")' = {}
            BY <2>2, <3>1, EmptySeq DEF Flying, Elems
        <3> QED
            BY <2>1, <3>2
    <2> QED
        BY <2>3, <2>4 DEF Sides
<1>6. GreetingInv'
    <2>1. OneGreeting'
        <3>1. CASE s = "phone"
            <4>1. SUFFICES ASSUME NEW i \in 1..Len(air'["phone"]), NEW j \in 1..Len(air'["phone"]),
                                  Greeting(air'["phone"][i]), Greeting(air'["phone"][j])
                           PROVE  i = j
                BY DEF OneGreeting
            <4>2. /\ i + 1 \in 1..Len(air["phone"]) /\ j + 1 \in 1..Len(air["phone"])
                  /\ air'["phone"][i] = air["phone"][i + 1]
                  /\ air'["phone"][j] = air["phone"][j + 1]
                BY <3>1, TakeFacts
            <4>3. i + 1 = j + 1
                BY <4>1, <4>2, SMTT(30) DEF OneGreeting, GreetingInv
            <4> QED
                BY <4>3
        <3>2. CASE s = "note4"
            BY <3>2, TakeFacts, SideFacts DEF OneGreeting, GreetingInv
        <3> QED
            BY <3>1, <3>2 DEF Sides
    <2>2. Greeted => air'["note4"] = air["note4"]
        BY TakeFacts, SideFacts DEF GreetingInv
    <2> QED
        BY <1>2, <1>3, <1>4, <2>1, <2>2, SideFacts DEF GreetingInv
<1> QED
    BY <1>1, <1>5, <1>6

\* A frame of a session at work does not disturb a handshake.
LEMMA HandshakeSends ==
    ASSUME Types, HandshakeInv, Steady, link' = link,
           NEW s \in Sides, Active(s), NEW f \in StateFrames \cup ReplyFrames, Send(s, f)
    PROVE  HandshakeInv'
<1> USE DEF HandshakeInv
<1>0. f \in Frame /\ ~Greeting(f) /\ f.type # "hello"
    BY FramesMade DEF StateFrames, ReplyFrames, Greeting
<1>1. QuietInv' /\ sess'["note4"].status # "hello"
    BY QuietStays
<1>2. \A u \in Sides : sess[u].status \in {"disconnected", "hello"} => sess'[u] = sess[u]
    BY DEF Steady
<1>3. CASE s = "phone"
    <2>1. ~Greeted /\ \A g \in Flying("note4") : g.type # "hello"
        BY <1>3 DEF HelloInv, GreetingInv, Active
    <2>2. /\ Flying("note4")' = Flying("note4") \cup {f} /\ air'["phone"] = air["phone"]
          /\ Flying("phone")' = Flying("phone")
        BY <1>0, <1>3, SendFacts, SideFacts
    <2>3. ~Greeted'
        BY <2>1, <2>2 DEF Greeted
    <2>4. HelloInv'
        BY <1>0, <2>1, <2>2 DEF HelloInv
    <2>5. GreetingInv'
        BY <2>2, <2>3 DEF GreetingInv, OneGreeting
    <2> QED
        BY <1>1, <2>4, <2>5
<1>4. CASE s = "note4"
    <2>1. /\ Flying("phone")' = Flying("phone") \cup {f} /\ air'["note4"] = air["note4"]
          /\ Flying("note4")' = Flying("note4")
          /\ Len(air'["phone"]) = Len(air["phone"]) + 1 /\ Len(air["phone"]) \in Nat
          /\ \A i \in 1..Len(air["phone"]) : air'["phone"][i] = air["phone"][i]
          /\ air'["phone"][Len(air["phone"]) + 1] = f
        BY <1>0, <1>4, SendFacts, SideFacts, FlyingFacts
    <2>2. Greeted' => Greeted
        BY <1>0, <2>1 DEF Greeted
    <2>3. OneGreeting'
        BY <1>0, <2>1, SMTT(30) DEF OneGreeting, GreetingInv
    <2>4. HelloInv'
        BY <1>2, <2>1, <2>2, SideFacts DEF HelloInv
    <2>5. GreetingInv'
        BY <1>0, <1>2, <2>1, <2>2, <2>3, SideFacts DEF GreetingInv
    <2> QED
        BY <1>1, <2>4, <2>5
<1> QED
    BY <1>3, <1>4 DEF Sides

\* Nor does a step that leaves air and sessions alone or steady.
LEMMA HandshakeRests ==
    ASSUME HandshakeInv, Steady, link' = link, air' = air
    PROVE  HandshakeInv'
<1>1. QuietInv' /\ sess'["note4"].status # "hello"
    BY QuietStays DEF HandshakeInv
<1>2. \A u \in Sides : sess[u].status \in {"disconnected", "hello"} => sess'[u] = sess[u]
    BY DEF Steady
<1>3. Greeted' = Greeted /\ Flying("phone")' = Flying("phone") /\ Flying("note4")' = Flying("note4")
    BY DEF Greeted, Flying
<1>4. HelloInv' /\ GreetingInv'
    BY <1>2, <1>3, SideFacts DEF HandshakeInv, HelloInv, GreetingInv, OneGreeting
<1> QED
    BY <1>1, <1>4 DEF HandshakeInv

\* Nothing is on its way.
LEMMA DownFacts ==
    ASSUME Down
    PROVE  /\ air' \in [Sides -> Seq(Frame)] /\ link' = FALSE
           /\ \A s \in Sides : Flying(s)' = {} /\ air'[s] = <<>>
           /\ HelloInv' /\ GreetingInv' /\ CursorInv'
<1>1. Elems(<<>>) = {} /\ <<>> \in Seq(Frame) /\ Len(<<>>) = 0
    BY EmptySeq DEF Elems
<1>2. air' \in [Sides -> Seq(Frame)] /\ link' = FALSE /\ \A s \in Sides : air'[s] = <<>>
    BY <1>1 DEF Down, NoFrames
<1>3. \A s \in Sides : Flying(s)' = {}
    BY <1>1, <1>2 DEF Flying
<1>4. HelloInv' /\ GreetingInv'
    BY <1>1, <1>2, <1>3, SideFacts DEF HelloInv, GreetingInv, Greeted, OneGreeting
<1>5. CursorInv'
    BY <1>3 DEF CursorInv
<1> QED
    BY <1>2, <1>3, <1>4, <1>5

\* Neither sending data nor enqueueing it changes what cursors in flight say.
LEMMA CursorsRest ==
    ASSUME Types, DataInv, CursorInv, forgot' = forgot,
           \A t \in Sides : \A f \in Flying(t)' : Cursors(f) => f \in Flying(t),
           StoresSame \/ \E s \in Sides : Enqueues(s)
    PROVE  CursorInv'
<1>1. ASSUME NEW s \in Sides, NEW k \in Keys
      PROVE  /\ mem'[s][k].app = mem[s][k].app /\ mem'[s][k].ack = mem[s][k].ack
             /\ Known(mem[s][k]) <= Known(mem'[s][k])
             /\ disk'[s][k].app <= disk[s][k].app
             /\ Known(mem[s][k]) \in Nat /\ Known(mem'[s][k]) \in Nat
             /\ disk[s][k].app \in Nat /\ disk'[s][k].app \in Nat
    <2>0. StoreStep /\ StoresInv
        BY DEF StoreStep, DataInv
    <2>1. /\ Known(mem[s][k]) <= Known(mem'[s][k])
          /\ mem'[s] \in EngineState /\ disk'[s] \in EngineState
          /\ KeyNumbers(mem'[s][k]) /\ KeyNumbers(disk'[s][k])
          /\ Known(mem[s][k]) \in Nat /\ Known(mem'[s][k]) \in Nat
        BY <2>0, StoresStay, SidesNumbers, StateNumbers, KnownIsHigher DEF KeyNumbers
    <2>2. KeyNumbers(mem[s][k]) /\ KeyNumbers(disk[s][k]) /\ mem[s][k].app <= disk[s][k].app
        BY <2>0, SidesNumbers, AheadCovers DEF StoresInv
    <2>3. CASE mem'[s] = mem[s] /\ disk'[s] = disk[s]
        BY <2>1, <2>2, <2>3 DEF KeyNumbers
    <2>4. CASE Enqueues(s)
        <3>1. PICK new \in EngineState :
                /\ Stored(s, new)
                /\ new[k].app = mem[s][k].app /\ new[k].ack = mem[s][k].ack
            BY <2>4 DEF Enqueues, Enqueued
        <3>2. disk'[s] = new /\ (mem'[s] = mem[s] \/ mem'[s] = new)
            BY <3>1 DEF Stored, Types
        <3> QED
            BY <2>1, <2>2, <3>1, <3>2 DEF KeyNumbers
    <2>5. ASSUME NEW t \in Sides, t # s, Enqueues(t)
          PROVE  mem'[s] = mem[s] /\ disk'[s] = disk[s]
        BY <2>5 DEF Enqueues, Stored, Types
    <2> QED
        BY <2>3, <2>4, <2>5 DEF StoresSame
<1>2. SUFFICES ASSUME NEW t \in Sides, NEW f \in Flying(t), Cursors(f)
               PROVE  /\ Told(Peer(t), f.cursors)'
                      /\ ~forgot => \A k \in Keys : disk'[t][k].app <= Known(f.cursors[k])
    BY DEF CursorInv
<1>3. Told(Peer(t), f.cursors) /\ (~forgot => \A k \in Keys : disk[t][k].app <= Known(f.cursors[k]))
    BY <1>2 DEF CursorInv
<1>4. Peer(t) \in Sides /\ \A k \in Keys : Known(f.cursors[k]) \in Nat
    <2>1. f \in Greetings
        BY <1>2, FlyingFacts, FrameKinds DEF Cursors
    <2>2. \A k \in Keys : f.cursors[k].ack \in Nat /\ f.cursors[k].pend \in Nat
        BY <2>1, RevisionFacts DEF Greetings, Cursor
    <2> QED
        BY <2>2, KnownIsHigher, SideFacts
<1> QED
    BY <1>1, <1>3, <1>4 DEF Told

\* Two sessions at work share no handshake.
LEMMA NoCursors ==
    ASSUME Types, HandshakeInv, NEW s \in Sides, Active(s), air[s] # <<>>
    PROVE  \A t \in Sides : \A f \in Flying(t) : ~Cursors(f)
<1>1. ~Greeted
    BY SideFacts DEF HandshakeInv, GreetingInv, Active, Sides
<1>2. \A f \in Flying("note4") : f.type # "hello"
    BY SideFacts DEF HandshakeInv, HelloInv, Active, Sides
<1> QED
    BY <1>1, <1>2 DEF Greeted, Greeting, Cursors, HandshakeInv, HelloInv, GreetingInv, Sides

\* With no greeting in flight and none sent, there is none afterwards.
LEMMA NoCursorsStay ==
    ASSUME \A t \in Sides : \A f \in Flying(t) : ~Cursors(f),
           \A t \in Sides : Flying(t)' \subseteq Flying(t)
    PROVE  CursorInv'
BY DEF CursorInv

\* Frames that were there before.
LEMMA FewerFrames ==
    ASSUME \A s \in Sides : /\ Flying(s)' \subseteq Flying(s)
                            /\ sess'[s].out \subseteq sess[s].out
                            /\ sess'[s].reply \subseteq sess[s].reply
    PROVE  FrameStep /\ AckStep
BY SideFacts DEF FrameStep, AckStep, StatesOf, AcksTo

\* Taking a frame leaves fewer.
LEMMA TakeFewer ==
    ASSUME Types, NEW s \in Sides, air[s] # <<>>, Take(s)
    PROVE  \A t \in Sides : Flying(t)' \subseteq Flying(t)
BY TakeFacts

\* The fields of a session have their types.
LEMMA SessionFacts ==
    ASSUME Types, NEW s \in Sides, NEW new \in Sessions, Session(s, new)
    PROVE  /\ sess' \in [Sides -> Sessions] /\ sess'[s] = new
           /\ \A u \in Sides \ {s} : sess'[u] = sess[u]
BY DEF Session, Types

\* A session after an update of some of its fields.
LEMMA ReplySent ==
    ASSUME NEW x \in Sessions,
           NEW y, y = [x EXCEPT !.reply = {}, !.status = x.after]
    PROVE  y \in Sessions /\ y.reply = {} /\ y.out = x.out /\ y.status = x.after
BY DEF Sessions

WithUpdate(x, o, a) == [x EXCEPT !.out = o, !.next = @ + 1, !.attempts = a]

\* A session that took an update from the outbox is a session.
LEMMA UpdateAdmitted ==
    ASSUME NEW x \in Sessions, NEW o \in SUBSET StateFrames, NEW a \in Nat
    PROVE  /\ WithUpdate(x, o, a) \in Sessions
           /\ WithUpdate(x, o, a).reply = x.reply /\ WithUpdate(x, o, a).out = o
           /\ WithUpdate(x, o, a).status = x.status
<1>1. x.next + 1 \in Nat \ {0}
    BY DEF Sessions
<1>2. WithUpdate(x, o, a) \in Sessions
    BY <1>1 DEF Sessions, WithUpdate
<1>3. WithUpdate(x, o, a).reply = x.reply
    BY DEF Sessions, WithUpdate
<1>4. WithUpdate(x, o, a).out = o /\ WithUpdate(x, o, a).status = x.status
    BY DEF Sessions, WithUpdate
<1> QED
    BY <1>2, <1>3, <1>4

\* A session that counts a retry is a session.
LEMMA UpdateRetried ==
    ASSUME NEW x \in Sessions, NEW y, y = [x EXCEPT !.attempts = @ + 1]
    PROVE  y \in Sessions /\ y.reply = x.reply /\ y.out = x.out /\ y.status = x.status
BY DEF Sessions

\* The idle session is a session.
LEMMA DisconnectedIsSession ==
    ASSUME NEW s \in Sides
    PROVE  /\ Disconnected(s) \in Sessions /\ Disconnected(s).status = "disconnected"
           /\ Disconnected(s).out = {} /\ Disconnected(s).reply = {}
BY RevisionFacts DEF Disconnected, Sessions

\* A session that fails is a session, and holds no frame.
LEMMA FailsFacts ==
    ASSUME Types, NEW s \in Sides,
           NEW status \in {"protocol_error", "store_error", "timeout"}, Fails(s, status)
    PROVE  /\ sess' \in [Sides -> Sessions]
           /\ sess'[s].status = status /\ sess'[s].out = sess[s].out /\ sess'[s].reply = sess[s].reply
           /\ \A u \in Sides \ {s} : sess'[u] = sess[u]
<1> DEFINE x == sess[s]
           new == [x EXCEPT !.status = status]
<1>1. x \in Sessions /\ Session(s, new)
    BY DEF Types, Fails
<1>2. new \in Sessions
    BY <1>1 DEF Sessions
<1>3. new.status = status /\ new.out = x.out /\ new.reply = x.reply
    BY <1>1 DEF Sessions
<1> HIDE DEF new
<1>4. sess' \in [Sides -> Sessions] /\ sess'[s] = new /\ \A u \in Sides \ {s} : sess'[u] = sess[u]
    BY <1>1, <1>2, SessionFacts
<1> QED
    BY <1>3, <1>4

-----------------------------------------------------------------------------
(* Each action is such a step.                                             *)

FullInv == Types /\ DataInv /\ HandshakeInv /\ CursorInv

GoodStep == Types' /\ DataStep /\ HandshakeInv' /\ CursorInv'

\* A poll sends an answer that was queued or an update that waits, if anything.
Polls(s, f) ==
    /\ UNCHANGED <<mem, disk, owner, link>> /\ Active(s) /\ Steady
    /\ sess' \in [Sides -> Sessions]
    /\ Send(s, f) \/ air' = air
    /\ f.type \in {"state", "reply"}
    /\ f.type = "state" => \/ f \in sess[s].out
                           \/ f.rev = mem[s][f.key].pend /\ f.val = mem[s][f.key].pval
    /\ f.type = "reply" => f \in sess[s].reply
    /\ \A u \in Sides : /\ sess'[u].reply \subseteq sess[u].reply
                        /\ \A g \in sess'[u].out : g \in sess[u].out \/ (u = s /\ g = f)

\* Poll with a queued reply (note4_sync_session.cc Poll).
LEMMA PollReplyPolls ==
    ASSUME FullInv, NEW s \in Sides, PollReply(s)
    PROVE  \E f \in Frame : Polls(s, f)
<1> USE DEF FullInv
<1>1. PICK reply \in sess[s].reply :
        /\ Send(s, reply)
        /\ Session(s, [sess[s] EXCEPT !.reply = {}, !.status = sess[s].after])
    BY DEF PollReply
<1>2. Active(s) /\ UNCHANGED <<mem, disk, owner, link>>
    BY DEF PollReply
<1>3. sess[s] \in Sessions /\ reply \in ReplyFrames /\ reply \in Frame /\ reply.type = "reply"
    BY FramesMade DEF Types, Sessions, ReplyFrames
<1> DEFINE new == [sess[s] EXCEPT !.reply = {}, !.status = sess[s].after]
<1>4. /\ new \in Sessions /\ new.reply = {} /\ new.out = sess[s].out
      /\ new.status = sess[s].after
    BY <1>3, ReplySent
<1>5. /\ sess' \in [Sides -> Sessions] /\ \A u \in Sides \ {s} : sess'[u] = sess[u]
      /\ sess'[s].reply = {} /\ sess'[s].out = sess[s].out /\ sess'[s].status = sess[s].after
    <2>1. Session(s, new)
        BY <1>1
    <2> HIDE DEF new
    <2> QED
        BY <1>4, <2>1, SessionFacts
<1>6. Steady
    BY <1>2, <1>3, <1>5 DEF Steady, Active, Sessions
<1>7. Polls(s, reply)
    BY <1>1, <1>2, <1>3, <1>5, <1>6 DEF Polls
<1> QED
    BY <1>3, <1>7

\* Poll that takes the next durable update out of the outbox.
LEMMA PollAdmitPolls ==
    ASSUME FullInv, NEW s \in Sides, PollAdmit(s)
    PROVE  \E f \in Frame : Polls(s, f)
<1> USE DEF FullInv
<1>1. PICK k \in Pending(s), sent \in BOOLEAN :
        LET frame == StateFrame(sess[s].next, k, mem[s][k].pend, mem[s][k].pval)
        IN /\ Session(s, [sess[s] EXCEPT !.out = {frame}, !.next = @ + 1,
                                         !.attempts = IF sent THEN 1 ELSE 0])
           /\ IF sent THEN ~Busy(s) /\ Send(s, frame)
                      ELSE Busy(s) /\ UNCHANGED air
    BY DEF PollAdmit
<1> DEFINE frame == StateFrame(sess[s].next, k, mem[s][k].pend, mem[s][k].pval)
<1>2. Active(s) /\ UNCHANGED <<mem, disk, owner, link>>
    BY DEF PollAdmit
<1>3. sess[s] \in Sessions /\ frame \in StateFrames /\ frame \in Frame
      /\ frame.key = k /\ frame.rev = mem[s][k].pend /\ frame.val = mem[s][k].pval
      /\ frame.type = "state"
    <2>1. k \in Keys /\ mem[s][k].pend # 0
        BY DEF Pending
    <2>2. mem[s][k] \in KeyState /\ mem[s][k].pval # NoValue
        BY <2>1 DEF Types, EngineState, DataInv, StoresInv, Kept
    <2>3. sess[s] \in Sessions /\ sess[s].next \in Nat \ {0}
        BY DEF Types, Sessions
    <2>4. frame \in StateFrames
        BY <2>1, <2>2, <2>3 DEF StateFrame, StateFrames, KeyState
    <2> QED
        BY <2>3, <2>4, FramesMade DEF StateFrame
<1> DEFINE new == [sess[s] EXCEPT !.out = {frame}, !.next = @ + 1,
                                  !.attempts = IF sent THEN 1 ELSE 0]
<1>4. /\ new \in Sessions /\ new.reply = sess[s].reply /\ new.out = {frame}
      /\ new.status = sess[s].status
    <2> DEFINE o == {frame}
               a == IF sent THEN 1 ELSE 0
    <2>1. o \in SUBSET StateFrames /\ a \in Nat
        BY <1>3
    <2>2. new = WithUpdate(sess[s], o, a)
        BY DEF WithUpdate
    <2> HIDE DEF o, a, new
    <2>3. /\ new \in Sessions /\ new.reply = sess[s].reply /\ new.out = o
          /\ new.status = sess[s].status
        BY <1>3, <2>1, <2>2, UpdateAdmitted
    <2> QED
        BY <2>3 DEF o
<1>5. /\ sess' \in [Sides -> Sessions] /\ \A u \in Sides \ {s} : sess'[u] = sess[u]
      /\ sess'[s].reply = sess[s].reply /\ sess'[s].out = {frame} /\ sess'[s].status = sess[s].status
    <2>1. Session(s, new)
        BY <1>1
    <2> HIDE DEF new, frame
    <2> QED
        BY <1>4, <2>1, SessionFacts
<1>6. Send(s, frame) \/ air' = air
    BY <1>1
<1>7. Steady
    BY <1>2, <1>5 DEF Steady, Active
<1> HIDE DEF new, frame
<1>8. Polls(s, frame)
    BY <1>2, <1>3, <1>5, <1>6, <1>7 DEF Polls
<1> QED
    BY <1>3, <1>8

\* Poll that repeats an update that waits for its ACK.
LEMMA PollRetryPolls ==
    ASSUME FullInv, NEW s \in Sides, PollRetry(s)
    PROVE  \E f \in Frame : Polls(s, f)
<1> USE DEF FullInv
<1>1. PICK frame \in sess[s].out :
        \/ /\ Send(s, frame)
           /\ Session(s, [sess[s] EXCEPT !.attempts = @ + 1])
        \/ Fails(s, "timeout") /\ UNCHANGED air
    BY DEF PollRetry
<1>2. Active(s) /\ UNCHANGED <<mem, disk, owner, link>>
    BY DEF PollRetry
<1>3. sess[s] \in Sessions /\ frame \in StateFrames /\ frame \in Frame /\ frame.type = "state"
    BY FramesMade DEF Types, Sessions, StateFrames
<1>4. [sess[s] EXCEPT !.attempts = @ + 1] \in Sessions
    BY <1>3, UpdateRetried
<1>5. /\ sess' \in [Sides -> Sessions] /\ \A u \in Sides \ {s} : sess'[u] = sess[u]
      /\ sess'[s].reply = sess[s].reply /\ sess'[s].out = sess[s].out
      /\ sess'[s].status \in {sess[s].status, "timeout"}
    <2>1. CASE Session(s, [sess[s] EXCEPT !.attempts = @ + 1])
        BY <1>3, <1>4, <2>1, SessionFacts, UpdateRetried
    <2>2. CASE Fails(s, "timeout")
        BY <2>2, FailsFacts
    <2> QED
        BY <1>1, <2>1, <2>2
<1>6. Send(s, frame) \/ air' = air
    BY <1>1
<1>7. Steady
    BY <1>2, <1>5 DEF Steady, Active
<1>8. Polls(s, frame)
    BY <1>2, <1>3, <1>5, <1>6, <1>7 DEF Polls
<1> QED
    BY <1>3, <1>8

\* A poll keeps the invariant.
LEMMA PollsGood ==
    ASSUME FullInv, NEW s \in Sides, NEW f \in Frame, Polls(s, f), forgot' = forgot
    PROVE  GoodStep
<1> USE DEF FullInv
<1>1. /\ StoresSame /\ owner' = owner /\ link' = link /\ Active(s) /\ Steady
      /\ sess' \in [Sides -> Sessions] /\ (Send(s, f) \/ air' = air)
      /\ f \in StateFrames \cup ReplyFrames
      /\ f.type \in {"state", "reply"}
    BY FrameKinds DEF Polls, StoresSame
<1>2. Types'
    BY <1>1, SendFacts DEF Types, StoresSame
<1>3. HandshakeInv'
    BY <1>1, HandshakeSends, HandshakeRests
<1>4. Flying(s)' = Flying(s) /\ Flying(Peer(s))' \subseteq Flying(Peer(s)) \cup {f}
    BY <1>1, SendFacts DEF Flying
<1>5. CursorInv'
    <2>1. \A t \in Sides : \A g \in Flying(t)' : Cursors(g) => g \in Flying(t)
        BY <1>1, <1>4, SideFacts DEF Cursors
    <2> QED
        BY <1>1, <2>1, CursorsRest
<1>6. FrameStep
    BY <1>1, <1>4, SideFacts DEF Polls, FrameStep, StatesOf
<1>7. AckStep
    BY <1>1, <1>4, SideFacts DEF Polls, AckStep, AcksTo
<1> QED
    BY <1>1, <1>2, <1>3, <1>5, <1>6, <1>7 DEF GoodStep, DataStep, StoreStep, OwnerStep

\* Steps that only take a frame or end a session.
LEMMA TakesGood ==
    ASSUME FullInv, StoresSame, owner' = owner, link' = link, forgot' = forgot, Steady,
           sess' \in [Sides -> Sessions],
           \A s \in Sides : sess'[s].out \subseteq sess[s].out /\ sess'[s].reply \subseteq sess[s].reply,
           air' = air \/ \E s \in Sides : air[s] # <<>> /\ Take(s)
    PROVE  GoodStep
<1> USE DEF FullInv
<1>1. air' \in [Sides -> Seq(Frame)] /\ \A t \in Sides : Flying(t)' \subseteq Flying(t)
    BY TakeFacts DEF Types, Flying
<1>2. Types'
    BY <1>1 DEF Types, StoresSame
<1>3. HandshakeInv'
    BY HandshakeTakes, HandshakeRests
<1>4. CursorInv'
    BY <1>1, CursorsRest
<1>5. FrameStep /\ AckStep
    BY <1>1, FewerFrames
<1> QED
    BY <1>2, <1>3, <1>4, <1>5 DEF GoodStep, DataStep, StoreStep, OwnerStep

\* A poll that gives up after the last retry keeps it.
LEMMA PollTimeoutGood ==
    ASSUME FullInv, NEW s \in Sides, PollTimeout(s), forgot' = forgot
    PROVE  GoodStep
<1>1. Active(s) /\ StoresSame /\ owner' = owner /\ link' = link /\ air' = air
    BY DEF PollTimeout, StoresSame
<1>2. /\ sess' \in [Sides -> Sessions]
      /\ sess'[s].status = "timeout" /\ sess'[s].out = sess[s].out /\ sess'[s].reply = sess[s].reply
      /\ \A u \in Sides \ {s} : sess'[u] = sess[u]
    BY FailsFacts DEF PollTimeout, FullInv
<1>3. Steady
    BY <1>1, <1>2 DEF Steady, Active
<1> QED
    BY <1>1, <1>2, <1>3, TakesGood

\* A lost frame keeps it.
LEMMA LoseGood ==
    ASSUME FullInv, NEW s \in Sides, Lose(s) \/ Ignore(s), forgot' = forgot
    PROVE  GoodStep
<1>1. /\ StoresSame /\ owner' = owner /\ link' = link /\ sess' = sess
      /\ air[s] # <<>> /\ Take(s)
    BY DEF Lose, Ignore, StoresSame
<1> QED
    BY <1>1, TakesGood DEF Steady, FullInv, Types

\* Steps that end a session.
LEMMA SessionEnds ==
    ASSUME Types, HandshakeInv, NEW s \in Sides, sess' = sess \/ Session(s, Disconnected(s))
    PROVE  /\ sess' \in [Sides -> Sessions]
           /\ \A u \in Sides : sess'[u].out \subseteq sess[u].out /\ sess'[u].reply \subseteq sess[u].reply
           /\ QuietInv' /\ sess'["note4"].status # "hello"
<1>1. CASE sess' = sess
    BY <1>1 DEF Types, HandshakeInv, QuietInv
<1>2. CASE Session(s, Disconnected(s))
    <2>1. /\ sess' \in [Sides -> Sessions] /\ sess'[s] = Disconnected(s)
          /\ \A u \in Sides \ {s} : sess'[u] = sess[u]
        BY <1>2, SessionFacts, DisconnectedIsSession
    <2> QED
        BY <2>1, DisconnectedIsSession, SideFacts DEF HandshakeInv, QuietInv
<1> QED
    BY <1>1, <1>2

\* A link that goes down with its sessions and frames keeps it.
LEMMA DownGood ==
    ASSUME FullInv, NEW s \in Sides, Down, sess' = sess \/ Session(s, Disconnected(s)),
           StoresSame \/ Reloads(s), owner' = owner, forgot' = forgot
    PROVE  GoodStep
<1> USE DEF FullInv
<1>1. /\ air' \in [Sides -> Seq(Frame)] /\ link' = FALSE
      /\ \A t \in Sides : Flying(t)' = {}
      /\ HelloInv' /\ GreetingInv' /\ CursorInv'
    BY DownFacts
<1>2. /\ sess' \in [Sides -> Sessions]
      /\ \A u \in Sides : sess'[u].out \subseteq sess[u].out /\ sess'[u].reply \subseteq sess[u].reply
      /\ QuietInv' /\ sess'["note4"].status # "hello"
    BY SessionEnds
<1>3. StoreStep
    BY DEF StoreStep
<1>4. mem' \in [Sides -> EngineState] /\ disk' \in [Sides -> EngineState]
    BY <1>3, StoresStay DEF DataInv
<1>5. Types'
    BY <1>1, <1>2, <1>4 DEF Types
<1>6. FrameStep /\ AckStep
    BY <1>1, <1>2, FewerFrames
<1> QED
    BY <1>1, <1>2, <1>3, <1>5, <1>6 DEF GoodStep, DataStep, OwnerStep, HandshakeInv

\* A side that hangs up keeps it.
LEMMA HangUpGood ==
    ASSUME FullInv, NEW s \in Sides, HangUp(s), forgot' = forgot
    PROVE  GoodStep
BY DownGood DEF HangUp, StoresSame

\* A dropped link keeps it.
LEMMA DropGood ==
    ASSUME FullInv, Drop, forgot' = forgot
    PROVE  GoodStep
BY DownGood, SideFacts DEF Drop, StoresSame

\* A restart from the stored record keeps it.
LEMMA RestartGood ==
    ASSUME FullInv, NEW s \in Sides, Restart(s), forgot' = forgot
    PROVE  GoodStep
BY DownGood DEF Restart, Reloads

\* Noticing that the link is gone keeps it.
LEMMA NoticeDisconnectGood ==
    ASSUME FullInv, NEW s \in Sides, NoticeDisconnect(s), forgot' = forgot
    PROVE  GoodStep
<1> USE DEF FullInv
<1>1. ~link /\ StoresSame /\ owner' = owner /\ link' = link /\ air' = air
    BY DEF NoticeDisconnect, StoresSame
<1>2. /\ sess' \in [Sides -> Sessions]
      /\ \A u \in Sides : sess'[u].out \subseteq sess[u].out /\ sess'[u].reply \subseteq sess[u].reply
      /\ QuietInv' /\ sess'["note4"].status # "hello"
    BY SessionEnds DEF NoticeDisconnect
<1>3. \A t \in Sides : Flying(t)' = Flying(t)
    BY <1>1 DEF Flying
<1>4. ~Greeted /\ \A f \in Flying("note4") : f.type # "hello"
    BY <1>1 DEF HandshakeInv, HelloInv, GreetingInv
<1>5. HelloInv' /\ GreetingInv'
    BY <1>1, <1>3, <1>4, SideFacts DEF HandshakeInv, HelloInv, GreetingInv, Greeted, OneGreeting
<1>6. Types'
    BY <1>1, <1>2 DEF Types, StoresSame
<1>7. CursorInv'
    BY <1>1, <1>3, CursorsRest
<1>8. FrameStep /\ AckStep
    BY <1>2, <1>3, FewerFrames
<1> QED
    BY <1>1, <1>2, <1>5, <1>6, <1>7, <1>8 DEF GoodStep, DataStep, StoreStep, OwnerStep, HandshakeInv

\* The owners.
LEMMA SavedOrNot ==
    ASSUME Types, NEW s \in Sides, NEW new, Saved(s, new) \/ SaveFailed(s, new)
    PROVE  Stored(s, new) \/ StoresSame
BY DEF Saved, SaveFailed, Stored, StoresSame, Types

\* A new snapshot of the reader keeps it.
LEMMA ReaderSavesGood ==
    ASSUME FullInv, NEW k \in Keys, NEW v \in Values, ReaderSaves(k, v), forgot' = forgot
    PROVE  GoodStep
<1> USE DEF FullInv
<1>1. /\ StoresSame /\ link' = link /\ air' = air /\ sess' = sess
      /\ owner' = [owner EXCEPT ![k] = [rev |-> @.rev + 1, val |-> v]]
      /\ owner[k].rev < MaxPut["note4"]
    BY DEF ReaderSaves, StoresSame
<1>2. owner[k].rev + 1 \in Revisions
    <2>1. owner[k].rev \in Nat /\ MaxPut["note4"] \in Revisions
        BY BoundsOK, SideFacts, RevisionFacts DEF Types
    <2> QED
        BY <1>1, <2>1, SyncConstants DEF Revisions
<1>3. /\ owner' \in [Keys -> [rev : Revisions, val : Values \cup {NoValue}]]
      /\ \A j \in Keys : owner'[j].rev # 0 => owner'[j].val \in Values
    BY <1>1, <1>2 DEF Types
<1>4. Types'
    BY <1>1, <1>3 DEF Types, StoresSame
<1>5. HandshakeInv'
    BY <1>1, HandshakeRests DEF Steady
<1>6. \A t \in Sides : Flying(t)' = Flying(t)
    BY <1>1 DEF Flying
<1>7. CursorInv'
    BY <1>1, <1>6, CursorsRest
<1>8. FrameStep /\ AckStep
    BY <1>1, <1>6, FewerFrames
<1> QED
    BY <1>1, <1>4, <1>5, <1>7, <1>8 DEF GoodStep, DataStep, StoreStep, OwnerStep

\* An enqueued update keeps it, saved or not.
LEMMA EnqueueGood ==
    ASSUME FullInv, NEW s \in Sides, Enqueues(s) \/ StoresSame,
           UNCHANGED <<owner, sess, link, air, forgot>>
    PROVE  GoodStep
<1> USE DEF FullInv
<1>1. StoreStep
    BY DEF StoreStep
<1>2. mem' \in [Sides -> EngineState] /\ disk' \in [Sides -> EngineState]
    BY <1>1, StoresStay DEF DataInv
<1>3. Types'
    BY <1>2 DEF Types
<1>4. HandshakeInv'
    BY HandshakeRests DEF Steady
<1>5. \A t \in Sides : Flying(t)' = Flying(t)
    BY DEF Flying
<1>6. CursorInv'
    BY <1>5, CursorsRest
<1>7. FrameStep /\ AckStep
    BY <1>5, FewerFrames
<1> QED
    BY <1>1, <1>3, <1>4, <1>6, <1>7 DEF GoodStep, DataStep, OwnerStep

\* A snapshot not published yet is newer than all its Note4 knows.
LEMMA ReaderIsNewer ==
    ASSUME NEW e, NEW k, KeyNumbers(e[k]), NEW r \in Nat, NEW v, Note4!PutStatus(e, k, r, v) = "Ok"
    PROVE  r > e[k].ack /\ r > e[k].pend
<1>1. ~(r <= e[k].ack \/ r < e[k].pend) /\ r # e[k].pend
    BY Zenon DEF Note4!PutStatus
<1> QED
    BY <1>1 DEF KeyNumbers

\* Publishing a snapshot enqueues it under its own revision.
LEMMA ReaderEnqueues ==
    ASSUME FullInv, NEW k \in Keys, ReaderPublishes(k)
    PROVE  /\ Enqueues("note4") \/ StoresSame
           /\ UNCHANGED <<owner, sess, link, air>>
<1> DEFINE s == "note4"
           r == owner[k].rev
           v == owner[k].val
           new == Note4!Put(mem[s], k, r, v)
<1>1. /\ r # 0 /\ Note4!PutStatus(mem[s], k, r, v) = "Ok"
      /\ Saved(s, new) \/ SaveFailed(s, new)
      /\ UNCHANGED <<owner, sess, link, air>>
    BY DEF ReaderPublishes
<1>2. Stored(s, new) \/ StoresSame
    BY <1>1, SavedOrNot, SideFacts DEF FullInv
<1>3. ASSUME Stored(s, new) PROVE Enqueues(s)
    <2>1. mem[s] \in EngineState /\ Kept(mem[s]) /\ KeyNumbers(mem[s][k])
        BY SideFacts, SidesNumbers DEF FullInv, DataInv, StoresInv
    <2>2. r \in Revisions \ {0} /\ v \in Values
        BY <1>1 DEF FullInv, Types
    <2>3. r > mem[s][k].ack /\ r > mem[s][k].pend
        BY <1>1, <2>1, <2>2, RevisionFacts, ReaderIsNewer
    <2>4. new \in EngineState /\ Kept(new) /\ Enqueued(mem[s], new, k, r, v)
        BY <2>1, <2>2, <2>3, PutEnqueues DEF Note4!Put
    <2> QED
        BY <1>3, <2>2, <2>4 DEF Enqueues
<1> QED
    BY <1>1, <1>2, <1>3

\* Publishing keeps the invariant.
LEMMA ReaderPublishesGood ==
    ASSUME FullInv, NEW k \in Keys, ReaderPublishes(k), forgot' = forgot
    PROVE  GoodStep
BY ReaderEnqueues, SideFacts, EnqueueGood

\* The phone's next revision is above all it knows of the key.
LEMMA PhoneNumbers ==
    ASSUME FullInv, NEW k \in Keys, NEW v \in Values, PhoneEnqueues(k, v)
    PROVE  /\ Enqueues("phone") \/ StoresSame
           /\ UNCHANGED <<owner, sess, link, air>>
<1> DEFINE s == "phone"
           r == Phone!NextRevision(mem[s], k)
           new == Phone!Put(mem[s], k, r, v)
<1>1. /\ r <= MaxPut[s]
      /\ Saved(s, new) \/ SaveFailed(s, new)
      /\ UNCHANGED <<owner, sess, link, air>>
    BY DEF PhoneEnqueues
<1>2. Stored(s, new) \/ StoresSame
    BY <1>1, SavedOrNot, SideFacts DEF FullInv
<1>3. ASSUME Stored(s, new) PROVE Enqueues(s)
    <2>1. mem[s] \in EngineState /\ Kept(mem[s]) /\ KeyNumbers(mem[s][k])
          /\ Known(mem[s][k]) \in Nat
        BY SideFacts, SidesNumbers DEF FullInv, DataInv, StoresInv
    <2>2. r = Known(mem[s][k]) + 1
        BY DEF Phone!NextRevision, Phone!Higher, Known, Higher
    <2> HIDE DEF r
    <2>3. r \in Revisions \ {0}
        <3>1. MaxPut[s] \in Revisions /\ r <= MaxPut[s]
            BY <1>1, BoundsOK, SideFacts
        <3>2. r \in Nat /\ r # 0
            BY <2>1, <2>2
        <3> QED
            BY <3>1, <3>2, SyncConstants DEF Revisions
    <2>4. r > mem[s][k].ack /\ r > mem[s][k].pend
        BY <2>1, <2>2, KnownIsHigher DEF KeyNumbers
    <2>5. new \in EngineState /\ Kept(new) /\ Enqueued(mem[s], new, k, r, v)
        BY <2>1, <2>3, <2>4, PutEnqueues DEF Phone!Put
    <2> QED
        BY <1>3, <2>3, <2>5, SideFacts DEF Enqueues
<1> QED
    BY <1>1, <1>2, <1>3

\* A new update of the phone keeps the invariant.
LEMMA PhoneEnqueuesGood ==
    ASSUME FullInv, NEW k \in Keys, NEW v \in Values, PhoneEnqueues(k, v), forgot' = forgot
    PROVE  GoodStep
BY PhoneNumbers, SideFacts, EnqueueGood

\* Steps of a session that take what its peer sent.
LEMMA ReceivesGood ==
    ASSUME FullInv, NEW s \in Sides, Active(s), air[s] # <<>>, Take(s), StoreStep,
           UNCHANGED <<owner, link, forgot>>, Steady, sess' \in [Sides -> Sessions],
           \A u \in Sides : sess'[u].out \subseteq sess[u].out,
           AckStep
    PROVE  GoodStep
<1> USE DEF FullInv
<1>1. air' \in [Sides -> Seq(Frame)] /\ \A t \in Sides : Flying(t)' \subseteq Flying(t)
    BY TakeFacts
<1>2. mem' \in [Sides -> EngineState] /\ disk' \in [Sides -> EngineState]
    BY StoresStay DEF DataInv
<1>3. Types'
    BY <1>1, <1>2 DEF Types
<1>4. HandshakeInv'
    BY HandshakeTakes
<1>5. CursorInv'
    BY <1>1, NoCursors, NoCursorsStay
<1>6. FrameStep
    BY <1>1, SideFacts DEF FrameStep, StatesOf
<1> QED
    BY <1>3, <1>4, <1>5, <1>6 DEF GoodStep, DataStep, OwnerStep

\* What an ACK changes in either engine.
LEMMA Note4Acknowledges ==
    ASSUME NEW e \in EngineState, NEW k \in Keys, NEW r \in Revisions,
           NEW new, new = Note4!Acknowledge(e, k, r)
    PROVE  /\ new \in EngineState
           /\ new[k].present /\ new[k].ack = r
           /\ new[k].app = e[k].app /\ new[k].irev = e[k].irev /\ new[k].ival = e[k].ival
           /\ new[k].pend = IF e[k].pend = r THEN 0 ELSE e[k].pend
           /\ new[k].pval = IF e[k].pend = r THEN NoValue ELSE e[k].pval
           /\ \A j \in Keys \ {k} : new[j] = e[j]
<1> DEFINE p == IF e[k].pend = r THEN 0 ELSE e[k].pend
           v == IF e[k].pend = r THEN NoValue ELSE e[k].pval
<1>1. e[k] \in KeyState
    BY DEF EngineState
<1>2. p \in Revisions /\ v \in Values \cup {NoValue}
    BY <1>1, RevisionFacts DEF KeyState
<1>3. new = [e EXCEPT ![k] = [@ EXCEPT !.present = TRUE, !.ack = r, !.pend = p, !.pval = v]]
    BY DEF Note4!Acknowledge
<1>4. new[k].pend = p /\ new[k].pval = v
    BY DEF Note4!Acknowledge, EngineState, KeyState
<1> HIDE DEF p, v
<1>5. [e[k] EXCEPT !.present = TRUE, !.ack = r, !.pend = p, !.pval = v] \in KeyState
    BY <1>1, <1>2 DEF KeyState
<1>6. new \in EngineState
    BY <1>3, <1>5 DEF EngineState
<1>7. new[k].present /\ new[k].ack = r
    BY <1>3 DEF EngineState, KeyState
<1>8. new[k].app = e[k].app /\ new[k].irev = e[k].irev /\ new[k].ival = e[k].ival
    BY <1>3 DEF EngineState, KeyState
<1>9. \A j \in Keys \ {k} : new[j] = e[j]
    BY <1>3 DEF EngineState
<1> QED
    BY <1>4, <1>6, <1>7, <1>8, <1>9 DEF p, v

\* The same for the phone's queue (DurableQueue.kt acknowledge).
LEMMA PhoneAcknowledges ==
    ASSUME NEW e \in EngineState, NEW k \in Keys, NEW r \in Revisions,
           e[k].present, NEW new, new = Phone!Acknowledge(e, k, r)
    PROVE  /\ new \in EngineState
           /\ new[k].present /\ new[k].ack = r
           /\ new[k].app = e[k].app /\ new[k].irev = e[k].irev /\ new[k].ival = e[k].ival
           /\ new[k].pend = IF e[k].pend = r THEN 0 ELSE e[k].pend
           /\ new[k].pval = IF e[k].pend = r THEN NoValue ELSE e[k].pval
           /\ \A j \in Keys \ {k} : new[j] = e[j]
<1> DEFINE p == IF e[k].pend = r THEN 0 ELSE e[k].pend
           v == IF e[k].pend = r THEN NoValue ELSE e[k].pval
<1>1. e[k] \in KeyState
    BY DEF EngineState
<1>2. p \in Revisions /\ v \in Values \cup {NoValue}
    BY <1>1, RevisionFacts DEF KeyState
<1>3. new = [e EXCEPT ![k] = [@ EXCEPT !.ack = r, !.pend = p, !.pval = v]]
    BY DEF Phone!Acknowledge
<1>4. new[k].pend = p /\ new[k].pval = v
    BY DEF Phone!Acknowledge, EngineState, KeyState
<1> HIDE DEF p, v
<1>5. [e[k] EXCEPT !.ack = r, !.pend = p, !.pval = v] \in KeyState
    BY <1>1, <1>2 DEF KeyState
<1>6. new \in EngineState
    BY <1>3, <1>5 DEF EngineState
<1>7. new[k].present /\ new[k].ack = r
    BY <1>3 DEF EngineState, KeyState
<1>8. new[k].app = e[k].app /\ new[k].irev = e[k].irev /\ new[k].ival = e[k].ival
    BY <1>3 DEF EngineState, KeyState
<1>9. \A j \in Keys \ {k} : new[j] = e[j]
    BY <1>3 DEF EngineState
<1> QED
    BY <1>4, <1>6, <1>7, <1>8, <1>9 DEF p, v

\* What an ACK changes in its receiver.
LEMMA AcknowledgeFacts ==
    ASSUME NEW s \in Sides, mem[s] \in EngineState, Kept(mem[s]),
           NEW k \in Keys, NEW r \in Revisions \ {0}, AcknowledgeStatus(s, k, r) = "Ok"
    PROVE  LET new == Acknowledge(s, k, r)
           IN  /\ new \in EngineState /\ Kept(new) /\ Retired(mem[s], new)
               /\ new[k].ack = r /\ \A j \in Keys \ {k} : new[j] = mem[s][j]
<1> DEFINE e == mem[s]
           new == Acknowledge(s, k, r)
<1>1. KeyNumbers(e[k]) /\ r \in Nat /\ e[k] \in KeyState
    BY StateNumbers, RevisionFacts
<1>2. r > e[k].ack /\ r <= e[k].pend /\ e[k].present
    <2>1. CASE s = "note4"
        BY <1>1, <2>1 DEF AcknowledgeStatus, Note4!AcknowledgeStatus, KeyNumbers, Kept
    <2>2. CASE s = "phone"
        BY <1>1, <2>2, SideFacts DEF AcknowledgeStatus, Phone!AcknowledgeStatus, KeyNumbers
    <2> QED
        BY <2>1, <2>2 DEF Sides
<1>3. e[k].present /\ e \in EngineState /\ r \in Revisions
    BY <1>1, <1>2 DEF KeyState
<1> HIDE DEF new, e
<1>4. /\ new \in EngineState
      /\ new[k].present /\ new[k].ack = r
      /\ new[k].app = e[k].app /\ new[k].irev = e[k].irev /\ new[k].ival = e[k].ival
      /\ new[k].pend = (IF e[k].pend = r THEN 0 ELSE e[k].pend)
      /\ new[k].pval = (IF e[k].pend = r THEN NoValue ELSE e[k].pval)
      /\ \A j \in Keys \ {k} : new[j] = e[j]
    <2>1. CASE s = "note4"
        <3>1. new = Note4!Acknowledge(e, k, r)
            BY <2>1 DEF new, e, Acknowledge
        <3> QED
            BY <1>3, <3>1, Note4Acknowledges
    <2>2. CASE s = "phone"
        <3>1. new = Phone!Acknowledge(e, k, r)
            BY <2>2, SideFacts DEF new, e, Acknowledge
        <3> QED
            BY <1>3, <3>1, PhoneAcknowledges
    <2> QED
        BY <2>1, <2>2 DEF Sides
<1>5. Kept(new) /\ Retired(e, new)
    BY <1>2, <1>3, <1>4, AcknowledgeRetires DEF e
<1> QED
    BY <1>4, <1>5 DEF new, e

\* How a session takes an answer, and what it does to its store.
TakesReply(s, f) ==
    /\ Active(s) /\ air[s] # <<>> /\ f = Head(air[s]) /\ f.type = "reply" /\ Take(s)
    /\ f \in Flying(s) /\ f \in ReplyFrames
    /\ UNCHANGED <<owner, link>> /\ Steady /\ sess' \in [Sides -> Sessions]
    /\ \A u \in Sides : sess'[u].out \subseteq sess[u].out /\ sess'[u].reply \subseteq sess[u].reply
    /\ \/ StoresSame
       \/ /\ f.result = "accepted"
          /\ \E new \in EngineState :
                /\ Kept(new) /\ Retired(mem[s], new) /\ Stored(s, new)
                /\ new[f.key].ack = f.rev
                /\ \A j \in Keys \ {f.key} : new[j] = mem[s][j]

\* Receiving a reply takes it and retires at most what it names.
LEMMA ReceiveReplyTakes ==
    ASSUME FullInv, NEW s \in Sides, ReceiveReply(s)
    PROVE  \E f \in ReplyFrames : TakesReply(s, f)
<1> USE DEF FullInv
<1> DEFINE f == Head(air[s])
           new == Acknowledge(s, f.key, f.rev)
<1>1. Active(s) /\ air[s] # <<>> /\ f.type = "reply" /\ Take(s)
      /\ UNCHANGED <<owner, link>>
    BY DEF ReceiveReply
<1>2. f \in Flying(s) /\ f \in ReplyFrames
    BY <1>1, TakeFacts, FrameKinds
<1>3. f.key \in Keys /\ f.rev \in Revisions \ {0} /\ f.rev \in Nat
    BY <1>2, RevisionFacts DEF ReplyFrames
<1>4. /\ \/ sess' = sess \/ Session(s, [sess[s] EXCEPT !.out = {}])
         \/ \E st \in {"protocol_error", "store_error"} : Fails(s, st)
      /\ \/ StoresSame
         \/ /\ f.result = "accepted" /\ AcknowledgeStatus(s, f.key, f.rev) = "Ok"
            /\ Saved(s, new) \/ SaveFailed(s, new)
    BY DEF ReceiveReply, NothingSaved, StoresSame
<1>5. /\ Steady /\ sess' \in [Sides -> Sessions]
      /\ \A u \in Sides : sess'[u].out \subseteq sess[u].out /\ sess'[u].reply \subseteq sess[u].reply
    <2>1. CASE sess' = sess
        BY <2>1 DEF Steady, Types
    <2>2. CASE Session(s, [sess[s] EXCEPT !.out = {}])
        <3> DEFINE x == [sess[s] EXCEPT !.out = {}]
        <3>0. sess[s] \in Sessions
            BY DEF Types
        <3>1. x \in Sessions
            BY <3>0 DEF Sessions
        <3>2. x.status = sess[s].status /\ x.out = {} /\ x.reply = sess[s].reply
            BY <3>0 DEF Sessions
        <3> HIDE DEF x
        <3>3. sess' \in [Sides -> Sessions] /\ sess'[s] = x /\ \A u \in Sides \ {s} : sess'[u] = sess[u]
            BY <2>2, <3>1, SessionFacts DEF x
        <3> QED
            BY <1>1, <3>2, <3>3 DEF Steady, Active
    <2>3. CASE \E st \in {"protocol_error", "store_error"} : Fails(s, st)
        BY <1>1, <2>3, FailsFacts DEF Steady, Active
    <2> QED
        BY <1>4, <2>1, <2>2, <2>3
<1>6. mem[s] \in EngineState /\ Kept(mem[s])
    BY DEF Types, DataInv, StoresInv
<1>7. \/ StoresSame
      \/ /\ f.result = "accepted" /\ Stored(s, new)
         /\ new \in EngineState /\ Kept(new) /\ Retired(mem[s], new)
         /\ new[f.key].ack = f.rev /\ \A j \in Keys \ {f.key} : new[j] = mem[s][j]
    <2> SUFFICES ASSUME f.result = "accepted", AcknowledgeStatus(s, f.key, f.rev) = "Ok",
                        Stored(s, new)
                 PROVE  /\ new \in EngineState /\ Kept(new) /\ Retired(mem[s], new)
                        /\ new[f.key].ack = f.rev
                        /\ \A j \in Keys \ {f.key} : new[j] = mem[s][j]
        BY <1>4, SavedOrNot
    <2> QED
        BY <1>3, <1>6, AcknowledgeFacts
<1> HIDE DEF new
<1>8. TakesReply(s, f)
    BY <1>1, <1>2, <1>5, <1>7 DEF TakesReply
<1> QED
    BY <1>2, <1>8

\* Such a step keeps the invariant.
LEMMA TakesReplyGood ==
    ASSUME FullInv, NEW s \in Sides, NEW f \in ReplyFrames, TakesReply(s, f), forgot' = forgot
    PROVE  GoodStep
<1> USE DEF FullInv
<1>1. /\ Active(s) /\ air[s] # <<>> /\ Take(s) /\ UNCHANGED <<owner, link>> /\ Steady
      /\ sess' \in [Sides -> Sessions] /\ f \in Flying(s) /\ f.type = "reply"
      /\ \A u \in Sides : /\ sess'[u].out \subseteq sess[u].out
                          /\ sess'[u].reply \subseteq sess[u].reply
    BY DEF TakesReply
<1>2. AckStep
    BY <1>1, TakeFewer, FewerFrames
<1>3. ASSUME NEW new \in EngineState, f.result = "accepted", ~forgot, NEW k \in Keys,
             new[f.key].ack = f.rev, \A j \in Keys \ {f.key} : new[j] = mem[s][j]
      PROVE  new[k].ack <= mem[Peer(s)][k].app
    <2>1. f \in AcksTo(s)
        BY <1>1, <1>3 DEF AcksTo
    <2>2. f.rev <= mem[Peer(s)][f.key].app
        BY <1>3, <2>1 DEF DataInv, AcksInv
    <2>3. mem[s][k].ack <= mem[Peer(s)][k].app
        BY <1>3 DEF DataInv, WindowInv
    <2> QED
        BY <1>3, <2>2, <2>3
<1>4. StoresSame \/ RetiresAt(s)
    BY <1>3 DEF TakesReply, RetiresAt
<1> QED
    BY <1>1, <1>2, <1>4, ReceivesGood DEF StoreStep

\* A value that is received is newer than all before it; one that is answered
\* as accepted without a save was received before.
LEMMA AcceptFacts ==
    ASSUME NEW s \in Sides, mem[s] \in EngineState, Kept(mem[s]),
           NEW k \in Keys, NEW r \in Revisions \ {0}, NEW v \in Values
    PROVE  LET new == Accept(s, k, r, v)
               status == AcceptStatus(s, k, r, v)
           IN  /\ status = "Ok" =>
                    new \in EngineState /\ Kept(new) /\ Received(mem[s], new, k, r, v)
               /\ status = "Duplicate" => r <= mem[s][k].app
               /\ status \in {"Ok", "Duplicate", "Conflict", "Invalid", "Full"}
<1> DEFINE e == mem[s]
           new == Accept(s, k, r, v)
           status == AcceptStatus(s, k, r, v)
<1>1. KeyNumbers(e[k]) /\ r \in Nat /\ e[k].irev = e[k].app
    BY StateNumbers, RevisionFacts DEF Kept
<1>2. /\ status = "Ok" => r > e[k].app
      /\ status = "Duplicate" => r <= e[k].app
      /\ status \in {"Ok", "Duplicate", "Conflict", "Invalid", "Full"}
    <2>1. CASE s = "note4"
        BY <1>1, <2>1 DEF AcceptStatus, Note4!AcceptStatus, Note4!InspectStatus, KeyNumbers
    <2>2. CASE s = "phone"
        BY <1>1, <2>2, SideFacts DEF AcceptStatus, Phone!AcceptStatus, KeyNumbers
    <2> QED
        BY <2>1, <2>2 DEF Sides
<1>3. new = [e EXCEPT ![k] = [@ EXCEPT !.present = TRUE, !.app = r, !.irev = r, !.ival = v]]
    BY DEF Accept, Note4!Accept, Phone!Accept
<1>4. ASSUME status = "Ok"
      PROVE  new \in EngineState /\ Kept(new) /\ Received(e, new, k, r, v)
    <2>1. r > e[k].app /\ e \in EngineState /\ Kept(e)
        BY <1>2, <1>4
    <2> HIDE DEF new, e
    <2> QED
        BY <1>3, <2>1, AcceptReceives
<1> QED
    BY <1>2, <1>4

WithAnswer(x, reply, after, f) ==
    [x EXCEPT !.reply = {reply}, !.after = after, !.lastSeq = f.seq, !.last = {f}]

\* A session with an answer queued is a session.
LEMMA AnswerAdmitted ==
    ASSUME NEW x \in Sessions, NEW reply \in ReplyFrames, NEW f \in StateFrames,
           NEW after \in {"active", "protocol_error", "store_error"}
    PROVE  /\ WithAnswer(x, reply, after, f) \in Sessions
           /\ WithAnswer(x, reply, after, f).reply = {reply}
           /\ WithAnswer(x, reply, after, f).out = x.out
           /\ WithAnswer(x, reply, after, f).status = x.status
<1>1. f.seq \in Nat
    BY DEF StateFrames
<1>2. WithAnswer(x, reply, after, f) \in Sessions
    BY <1>1 DEF Sessions, WithAnswer
<1>3. WithAnswer(x, reply, after, f).reply = {reply}
    BY DEF Sessions, WithAnswer
<1>4. WithAnswer(x, reply, after, f).out = x.out /\ WithAnswer(x, reply, after, f).status = x.status
    BY DEF Sessions, WithAnswer
<1> QED
    BY <1>2, <1>3, <1>4

Results == {"accepted", "store_error", "capacity", "invalid"}

\* What answering an update changes in the session.
LEMMA AnsweredFacts ==
    ASSUME Types, NEW s \in Sides, NEW f \in StateFrames, NEW result \in Results,
           Answered(s, f, result)
    PROVE  /\ sess' \in [Sides -> Sessions]
           /\ sess'[s].status = sess[s].status /\ sess'[s].out = sess[s].out
           /\ sess'[s].reply = {ReplyFrame(f.seq, f.key, f.rev, result)}
           /\ \A u \in Sides \ {s} : sess'[u] = sess[u]
<1> DEFINE reply == ReplyFrame(f.seq, f.key, f.rev, result)
           after == IF result = "accepted" THEN "active"
                    ELSE IF result = "store_error" THEN "store_error" ELSE "protocol_error"
           new == WithAnswer(sess[s], reply, after, f)
<1>1. reply \in ReplyFrames
    BY DEF ReplyFrame, ReplyFrames, StateFrames, Results
<1>2. after \in {"active", "protocol_error", "store_error"} /\ sess[s] \in Sessions
    BY DEF Types
<1>3. Session(s, new)
    BY DEF Answered, WithAnswer
<1> HIDE DEF reply, after
<1>4. /\ new \in Sessions /\ new.status = sess[s].status /\ new.out = sess[s].out
      /\ new.reply = {reply}
    BY <1>1, <1>2, AnswerAdmitted
<1> HIDE DEF new
<1>5. sess' \in [Sides -> Sessions] /\ sess'[s] = new /\ \A u \in Sides \ {s} : sess'[u] = sess[u]
    BY <1>3, <1>4, SessionFacts
<1> QED
    BY <1>4, <1>5 DEF reply

\* How a session takes an update, and what it answers.
TakesState(s, f) ==
    /\ Active(s) /\ air[s] # <<>> /\ f = Head(air[s]) /\ f.type = "state" /\ Take(s)
    /\ f \in Flying(s) /\ f \in StateFrames
    /\ UNCHANGED <<owner, link>> /\ Steady /\ sess' \in [Sides -> Sessions]
    /\ \A u \in Sides : sess'[u].out \subseteq sess[u].out
    /\ \/ StoresSame
       \/ \E new \in EngineState :
            Kept(new) /\ Received(mem[s], new, f.key, f.rev, f.val) /\ Stored(s, new)
    /\ \A u \in Sides : \A g \in sess'[u].reply :
            \/ g \in sess[u].reply
            \/ u = s /\ (g.result = "accepted" => g.rev <= mem'[s][g.key].app)

\* Receiving an update takes it, answers it and stores at most it.
LEMMA ReceiveStateTakes ==
    ASSUME FullInv, NEW s \in Sides, ReceiveState(s)
    PROVE  \E f \in StateFrames : TakesState(s, f)
<1> USE DEF FullInv
<1> DEFINE f == Head(air[s])
           new == Accept(s, f.key, f.rev, f.val)
           status == AcceptStatus(s, f.key, f.rev, f.val)
<1>1. Active(s) /\ air[s] # <<>> /\ f.type = "state" /\ Take(s) /\ UNCHANGED <<owner, link>>
    BY DEF ReceiveState
<1>2. f \in Flying(s) /\ f \in StateFrames
    BY <1>1, TakeFacts, FrameKinds
<1>3. f.key \in Keys /\ f.rev \in Revisions \ {0} /\ f.val \in Values
    BY <1>2 DEF StateFrames
<1>4. mem[s] \in EngineState /\ Kept(mem[s])
    BY DEF Types, DataInv, StoresInv
<1>5. /\ status = "Ok" => /\ new \in EngineState /\ Kept(new)
                          /\ Received(mem[s], new, f.key, f.rev, f.val)
      /\ status = "Duplicate" => f.rev <= mem[s][f.key].app
      /\ status \in {"Ok", "Duplicate", "Conflict", "Invalid", "Full"}
    BY <1>3, <1>4, AcceptFacts
<1>6. \/ (sess' = sess \/ Fails(s, "protocol_error")) /\ StoresSame
      \/ status = "Ok" /\ Saved(s, new) /\ Answered(s, f, "accepted")
      \/ status = "Ok" /\ SaveFailed(s, new) /\ Answered(s, f, "store_error")
      \/ status # "Ok" /\ StoresSame /\ Answered(s, f, ResultOf(status))
    BY DEF ReceiveState, NothingSaved, StoresSame
<1>7. f = Head(air[s])
    OBVIOUS
<1> HIDE DEF f, new, status
<1>8. CASE (sess' = sess \/ Fails(s, "protocol_error")) /\ StoresSame
    <2>1. /\ Steady /\ sess' \in [Sides -> Sessions]
          /\ \A u \in Sides : sess'[u].out \subseteq sess[u].out /\ sess'[u].reply \subseteq sess[u].reply
        BY <1>1, <1>8, FailsFacts DEF Steady, Active, Types
    <2> QED
        BY <1>1, <1>2, <1>7, <1>8, <2>1 DEF TakesState
<1>9. ASSUME NEW result \in Results, Answered(s, f, result),
             StoresSame \/ (status = "Ok" /\ Stored(s, new)),
             result = "accepted" => f.rev <= mem'[s][f.key].app
      PROVE  TakesState(s, f)
    <2> DEFINE reply == ReplyFrame(f.seq, f.key, f.rev, result)
    <2>1. /\ sess' \in [Sides -> Sessions]
          /\ sess'[s].status = sess[s].status /\ sess'[s].out = sess[s].out
          /\ sess'[s].reply = {reply}
          /\ \A u \in Sides \ {s} : sess'[u] = sess[u]
        BY <1>2, <1>9, AnsweredFacts
    <2>2. Steady /\ \A u \in Sides : sess'[u].out \subseteq sess[u].out
        BY <1>1, <2>1 DEF Steady, Active
    <2>3. reply.rev = f.rev /\ reply.key = f.key /\ reply.result = result
        BY DEF ReplyFrame
    <2> HIDE DEF reply
    <2>4. \A u \in Sides : \A g \in sess'[u].reply :
            \/ g \in sess[u].reply
            \/ u = s /\ (g.result = "accepted" => g.rev <= mem'[s][g.key].app)
        BY <1>9, <2>1, <2>3
    <2> QED
        BY <1>1, <1>2, <1>5, <1>7, <1>9, <2>1, <2>2, <2>4 DEF TakesState
<1>10. CASE status = "Ok" /\ Saved(s, new) /\ Answered(s, f, "accepted")
    <2>1. Stored(s, new)
        BY <1>10 DEF Stored, Saved
    <2>2. mem'[s] = new /\ new[f.key].app = f.rev /\ f.rev \in Nat
        BY <1>3, <1>5, <1>10, RevisionFacts DEF Saved, Types, Received
    <2> QED
        BY <1>2, <1>9, <1>10, <2>1, <2>2 DEF Results
<1>11. CASE status = "Ok" /\ SaveFailed(s, new) /\ Answered(s, f, "store_error")
    BY <1>2, <1>9, <1>11, SavedOrNot DEF Results
<1>12. CASE status # "Ok" /\ StoresSame /\ Answered(s, f, ResultOf(status))
    <2>1. ResultOf(status) \in Results /\ (ResultOf(status) = "accepted" => status = "Duplicate")
        BY <1>5, <1>12 DEF ResultOf, Results
    <2> QED
        BY <1>2, <1>5, <1>9, <1>12, <2>1 DEF StoresSame
<1> QED
    BY <1>2, <1>6, <1>8, <1>10, <1>11, <1>12

\* Such a step keeps the invariant.
LEMMA TakesStateGood ==
    ASSUME FullInv, NEW s \in Sides, NEW f \in StateFrames, TakesState(s, f), forgot' = forgot
    PROVE  GoodStep
<1> USE DEF FullInv
<1>1. /\ Active(s) /\ air[s] # <<>> /\ Take(s) /\ UNCHANGED <<owner, link>> /\ Steady
      /\ sess' \in [Sides -> Sessions] /\ f \in Flying(s) /\ f.type = "state"
      /\ \A u \in Sides : sess'[u].out \subseteq sess[u].out
    BY DEF TakesState
<1>2. \A t \in Sides : Flying(t)' \subseteq Flying(t)
    BY <1>1, TakeFewer
<1>3. AckStep
    <2> SUFFICES ASSUME NEW u \in Sides, NEW g \in AcksTo(u)'
                 PROVE  g \in AcksTo(u) \/ g.rev <= mem'[Peer(u)][g.key].app
        BY DEF AckStep
    <2>1. g \in Flying(u)' \cup sess'[Peer(u)].reply /\ g.type = "reply" /\ g.result = "accepted"
        BY DEF AcksTo
    <2>2. CASE g \in Flying(u)'
        BY <1>2, <2>1, <2>2 DEF AcksTo
    <2>3. CASE g \in sess'[Peer(u)].reply
        BY <2>1, <2>3, SideFacts DEF TakesState, AcksTo
    <2> QED
        BY <2>1, <2>2, <2>3
<1>4. f \in StatesOf(Peer(s))
    BY <1>1, SideFacts DEF StatesOf
<1>5. StoresSame \/ Receives(s)
    BY <1>4 DEF TakesState, Receives
<1> QED
    BY <1>1, <1>3, <1>5, ReceivesGood DEF StoreStep

\* The handshake.
LEMMA CursorsTold ==
    ASSUME NEW e \in EngineState, Kept(e)
    PROVE  /\ CursorsOf(e) \in [Keys -> Cursor] /\ ValidCursors(CursorsOf(e))
           /\ \A k \in Keys : /\ CursorsOf(e)[k].app = e[k].app /\ CursorsOf(e)[k].ack = e[k].ack
                              /\ Known(CursorsOf(e)[k]) = Known(e[k])
<1> DEFINE c == CursorsOf(e)
<1>1. ASSUME NEW k \in Keys, e[k].present
      PROVE  /\ c[k] = [present |-> TRUE, ack |-> e[k].ack, app |-> e[k].app, pend |-> e[k].pend]
             /\ c[k] \in Cursor
             /\ c[k].app = e[k].app /\ c[k].ack = e[k].ack /\ c[k].pend = e[k].pend
             /\ c[k].present /\ (c[k].pend = 0 \/ c[k].pend > c[k].ack)
    <2>1. c[k] = [present |-> TRUE, ack |-> e[k].ack, app |-> e[k].app, pend |-> e[k].pend]
        BY <1>1 DEF CursorsOf
    <2>2. e[k].ack \in Revisions /\ e[k].app \in Revisions /\ e[k].pend \in Revisions
        BY DEF EngineState, KeyState
    <2>3. e[k].pend # 0 => e[k].pend > e[k].ack
        BY DEF Kept
    <2> QED
        BY <2>1, <2>2, <2>3 DEF Cursor
<1>2. ASSUME NEW k \in Keys, ~e[k].present
      PROVE  /\ c[k] = NoCursor /\ c[k] \in Cursor
             /\ c[k].app = e[k].app /\ c[k].ack = e[k].ack /\ c[k].pend = e[k].pend
             /\ ~c[k].present
    <2>1. c[k] = NoCursor
        BY <1>2 DEF CursorsOf
    <2>2. e[k].ack = 0 /\ e[k].app = 0 /\ e[k].pend = 0
        BY <1>2 DEF Kept
    <2> QED
        BY <2>1, <2>2, RevisionFacts DEF Cursor, NoCursor
<1>3. c \in [Keys -> Cursor]
    <2>1. \A k \in Keys : c[k] \in Cursor
        BY <1>1, <1>2
    <2>2. c = [k \in Keys |-> c[k]]
        BY DEF CursorsOf
    <2> HIDE DEF c
    <2> QED
        BY <2>1, <2>2
<1>4. ValidCursors(c)
    BY <1>1, <1>2 DEF ValidCursors
<1>5. \A k \in Keys : c[k].app = e[k].app /\ c[k].ack = e[k].ack /\ c[k].pend = e[k].pend
    BY <1>1, <1>2
<1> HIDE DEF c
<1>6. \A k \in Keys : Known(c[k]) = Known(e[k])
    BY <1>5 DEF Known
<1> QED
    BY <1>3, <1>4, <1>5, <1>6 DEF c

\* A session that starts is a session.
LEMMA StartedIsSession ==
    ASSUME NEW s \in Sides, NEW c \in [Keys -> Cursor], NEW seq \in Nat
    PROVE  Started(s, c, seq) \in Sessions /\ Started(s, c, seq).status = "active"
           /\ Started(s, c, seq).out = {} /\ Started(s, c, seq).reply = {}
<1> DEFINE d == Disconnected(s)
           w == [k \in Keys |-> c[k].pend]
<1>1. d \in Sessions /\ d.out = {} /\ d.reply = {}
    BY DisconnectedIsSession
<1>2. w \in [Keys -> Revisions]
    BY DEF Cursor
<1>3. Started(s, c, seq) = [d EXCEPT !.status = "active", !.lastSeq = seq, !.awaited = w]
    BY DEF Started
<1> HIDE DEF d, w
<1>4. [d EXCEPT !.status = "active", !.lastSeq = seq, !.awaited = w] \in Sessions
    BY <1>1, <1>2 DEF Sessions
<1>5. [d EXCEPT !.status = "active", !.lastSeq = seq, !.awaited = w].status = "active"
    BY <1>1 DEF Sessions
<1>6. /\ [d EXCEPT !.status = "active", !.lastSeq = seq, !.awaited = w].out = {}
      /\ [d EXCEPT !.status = "active", !.lastSeq = seq, !.awaited = w].reply = {}
    BY <1>1 DEF Sessions
<1> QED
    BY <1>3, <1>4, <1>5, <1>6

\* A connection, with the Hello of the phone, keeps the invariant.
LEMMA ConnectGood ==
    ASSUME FullInv, Connect, forgot' = forgot
    PROVE  GoodStep
<1> USE DEF FullInv
<1> DEFINE c == CursorsOf(mem["phone"])
           f == Hello(c)
           new == [sess["phone"] EXCEPT !.status = "hello"]
<1>1. /\ ~link /\ link' = TRUE /\ StoresSame /\ owner' = owner
      /\ \A s \in Sides : sess[s].status = "disconnected"
      /\ Session("phone", new)
      /\ air' = [air EXCEPT !["note4"] = <<f>>]
    BY DEF Connect, StoresSame
<1>2. mem["phone"] \in EngineState /\ Kept(mem["phone"])
    BY SideFacts DEF Types, DataInv, StoresInv
<1>3. /\ c \in [Keys -> Cursor] /\ ValidCursors(c)
      /\ \A k \in Keys : /\ c[k].app = mem["phone"][k].app /\ c[k].ack = mem["phone"][k].ack
                         /\ Known(c[k]) = Known(mem["phone"][k])
    BY <1>2, CursorsTold
<1> HIDE DEF c
<1>4. f \in Frame /\ f.type = "hello" /\ f.cursors = c
    BY <1>3, FramesMade DEF Hello
<1> HIDE DEF f
<1>5. new \in Sessions /\ new.status = "hello" /\ new.out = {} /\ new.reply = {}
    <2>1. sess["phone"] \in Sessions /\ sess["phone"].out = {} /\ sess["phone"].reply = {}
        BY <1>1, SideFacts DEF Types, HandshakeInv, QuietInv
    <2> QED
        BY <2>1 DEF Sessions
<1> HIDE DEF new
<1>6. /\ sess' \in [Sides -> Sessions] /\ sess'["phone"] = new /\ sess'["note4"] = sess["note4"]
    BY <1>1, <1>5, SessionFacts, SideFacts
<1>7. /\ air' \in [Sides -> Seq(Frame)] /\ air'["phone"] = air["phone"]
      /\ air'["note4"] = <<f>> /\ Len(air'["note4"]) = 1 /\ Flying("note4")' = {f}
      /\ Flying("phone")' = Flying("phone")
    <2>1. <<f>> \in Seq(Frame) /\ Len(<<f>>) = 1 /\ Elems(<<f>>) = {f}
        BY <1>4 DEF Elems
    <2>2. air' \in [Sides -> Seq(Frame)] /\ air'["phone"] = air["phone"] /\ air'["note4"] = <<f>>
        BY <1>1, <2>1, SideFacts DEF Types
    <2> QED
        BY <2>1, <2>2 DEF Flying
<1>8. Types'
    BY <1>1, <1>6, <1>7 DEF Types, StoresSame
<1>9. ~Greeted
    BY <1>1 DEF HandshakeInv, GreetingInv
<1>10. ~Greeted'
    BY <1>7, <1>9 DEF Greeted
<1>11. HandshakeInv'
    <2>1. QuietInv' /\ sess'["note4"].status # "hello"
        BY <1>1, <1>5, <1>6, SideFacts DEF HandshakeInv, QuietInv, Sides
    <2>2. HelloInv'
        BY <1>1, <1>4, <1>5, <1>6, <1>7, <1>10, SideFacts DEF HelloInv, Greeting
    <2>3. GreetingInv'
        BY <1>7, <1>10 DEF HandshakeInv, GreetingInv, OneGreeting
    <2> QED
        BY <2>1, <2>2, <2>3 DEF HandshakeInv
<1>12. CursorInv'
    <2> SUFFICES ASSUME NEW t \in Sides, NEW g \in Flying(t)', Cursors(g)
                 PROVE  /\ Told(Peer(t), g.cursors)'
                        /\ ~forgot => \A k \in Keys : disk'[t][k].app <= Known(g.cursors[k])
        BY DEF CursorInv
    <2>1. t = "note4" /\ g = f
        BY <1>7, <1>9, SideFacts DEF Sides, Greeted, Greeting, Cursors, HandshakeInv, GreetingInv
    <2>2. disk' = disk /\ mem' = mem /\ Peer(t) = "phone" /\ g.cursors = c
        BY <1>1, <1>4, <2>1, SideFacts DEF StoresSame
    <2>3. \A k \in Keys : Known(c[k]) <= Known(mem["phone"][k])
        BY <1>3, SidesNumbers, SideFacts
    <2>4. Told("phone", g.cursors)'
        BY <1>3, <2>2, <2>3 DEF Told
    <2>5. ~forgot => \A k \in Keys : disk["note4"][k].app <= Known(c[k])
        BY <1>3, SideFacts DEF DataInv, WindowInv
    <2> QED
        BY <2>1, <2>2, <2>4, <2>5
<1>13. FrameStep /\ AckStep
    <2>1. \A u \in Sides : sess'[u].out \subseteq sess[u].out /\ sess'[u].reply \subseteq sess[u].reply
        BY <1>5, <1>6, SideFacts DEF Sides
    <2>2. f.type \notin {"state", "reply"}
        BY <1>4
    <2> QED
        BY <1>7, <2>1, <2>2, SideFacts DEF Sides, FrameStep, AckStep, StatesOf, AcksTo
<1> QED
    BY <1>1, <1>8, <1>11, <1>12, <1>13 DEF GoodStep, DataStep, StoreStep, OwnerStep

\* What a session answers to cursors.
LEMMA ReconcileAnswers ==
    ASSUME NEW s \in Sides, NEW c
    PROVE  /\ ReconcileStatus(s, c) = "Ok" => AllCompatible(mem[s], c)
           /\ ValidCursors(c) /\ AllCompatible(mem[s], c) => ReconcileStatus(s, c) \in {"Ok", "Full"}
<1>1. CASE s = "note4"
    <2>1. Note4!ValidCursors(c) = ValidCursors(c)
        BY DEF Note4!ValidCursors, ValidCursors, Note4!NoCursor, NoCursor
    <2>2. Note4!AllCompatible(mem[s], c) = AllCompatible(mem[s], c)
        BY DEF Note4!AllCompatible, AllCompatible, Note4!Compatible, Compatible, Note4!InWindow, InWindow,
               Note4!CursorsOf, CursorsOf, Note4!NoCursor, NoCursor, Note4!Higher, Higher
    <2> QED
        BY <1>1, <2>1, <2>2 DEF ReconcileStatus, Note4!ReconcileStatus
<1>2. CASE s = "phone"
    <2>1. Phone!ValidCursors(c) = ValidCursors(c)
        BY DEF Phone!ValidCursors, ValidCursors, Phone!NoCursor, NoCursor
    <2>2. Phone!AllCompatible(mem[s], c) = AllCompatible(mem[s], c)
        BY DEF Phone!AllCompatible, AllCompatible, Phone!Compatible, Compatible, Phone!InWindow, InWindow,
               Phone!CursorsOf, CursorsOf, Phone!NoCursor, NoCursor, Phone!Higher, Higher
    <2> QED
        BY <1>2, <2>1, <2>2, SideFacts DEF ReconcileStatus, Phone!ReconcileStatus
<1> QED
    BY <1>1, <1>2 DEF Sides

\* Cursors that are accepted retire what their sender has applied.
LEMMA CursorsRetire ==
    ASSUME FullInv, NEW s \in Sides, NEW c \in [Keys -> Cursor], Told(Peer(s), c),
           ReconcileStatus(s, c) = "Ok"
    PROVE  LET new == Reconciled(mem[s], c)
           IN  /\ new \in EngineState /\ Kept(new)
               /\ Stored(s, new) => RetiresAt(s)
<1> DEFINE e == mem[s]
           new == Reconciled(e, c)
<1>1. e \in EngineState /\ Kept(e)
    BY DEF FullInv, Types, DataInv, StoresInv
<1>2. \A k \in Keys : e[k].ack <= c[k].app
    <2>1. AllCompatible(e, c)
        BY ReconcileAnswers
    <2>2. \A k \in Keys : CursorsOf(e)[k].ack = e[k].ack /\ e[k].ack \in Nat /\ c[k].app \in Nat
        BY <1>1, CursorsTold, StateNumbers, RevisionFacts DEF KeyNumbers, Cursor
    <2> QED
        BY <2>1, <2>2 DEF AllCompatible, Compatible, InWindow
<1>3. /\ new \in EngineState /\ Kept(new) /\ Retired(e, new)
      /\ \A k \in Keys : new[k].ack <= c[k].app
    BY <1>1, <1>2, ReconcileRetires
<1>4. \A k \in Keys : new[k].ack <= mem[Peer(s)][k].app
    BY <1>3 DEF Told
<1> QED
    BY <1>3, <1>4 DEF RetiresAt

\* The answer to a Hello is the only frame that matters to a handshake.
LEMMA TakeAndSendFacts ==
    ASSUME Types, NEW f \in Frame, Len(air["note4"]) = 1, TakeAndSend("note4", f)
    PROVE  /\ air' \in [Sides -> Seq(Frame)]
           /\ air'["note4"] = <<>> /\ Flying("note4")' = {}
           /\ Flying("phone")' = Flying("phone") \cup {f}
           /\ Len(air["phone"]) \in Nat /\ Len(air'["phone"]) = Len(air["phone"]) + 1
           /\ \A i \in 1..Len(air["phone"]) : air'["phone"][i] = air["phone"][i]
           /\ air'["phone"][Len(air["phone"]) + 1] = f
<1>1. air["note4"] \in Seq(Frame) /\ air["phone"] \in Seq(Frame)
    BY SideFacts DEF Types
<1>2. air["note4"] # <<>>
    BY FlyingFacts, SideFacts
<1>3. Tail(air["note4"]) \in Seq(Frame) /\ Len(Tail(air["note4"])) = 0
    BY <1>1, <1>2, ElemsOfTail
<1>4. Tail(air["note4"]) = <<>> /\ Elems(<<>>) = {}
    BY <1>3, EmptySeq, ElemsAreFrames
<1>5. /\ Append(air["phone"], f) \in Seq(Frame)
      /\ Elems(Append(air["phone"], f)) = Elems(air["phone"]) \cup {f}
      /\ Len(Append(air["phone"], f)) = Len(air["phone"]) + 1 /\ Len(air["phone"]) \in Nat
      /\ \A i \in 1..Len(air["phone"]) : Append(air["phone"], f)[i] = air["phone"][i]
      /\ Append(air["phone"], f)[Len(air["phone"]) + 1] = f
    BY <1>1, ElemsOfAppend
<1>6. /\ air' = [air EXCEPT !["note4"] = Tail(air["note4"]), !["phone"] = Append(air["phone"], f)]
    BY SideFacts DEF TakeAndSend
<1>7. /\ air' \in [Sides -> Seq(Frame)] /\ air'["note4"] = Tail(air["note4"])
      /\ air'["phone"] = Append(air["phone"], f)
    BY <1>3, <1>5, <1>6, SideFacts DEF Types
<1> QED
    BY <1>4, <1>5, <1>7 DEF Flying

\* The Note4's answer to a Hello, accepting or refusing, keeps it.
LEMMA ReceiveHelloGood ==
    ASSUME FullInv, ReceiveHello, forgot' = forgot
    PROVE  GoodStep
<1> USE DEF FullInv
<1> DEFINE s == "note4"
           h == Head(air[s])
           c == h.cursors
           new == Reconciled(mem[s], c)
           ok == ReconcileStatus(s, c) = "Ok"
<1>1. /\ air[s] # <<>> /\ h.type = "hello" /\ owner' = owner /\ link' = link
      /\ \/ /\ ok
            /\ (new = mem[s] /\ StoresSame) \/ Saved(s, new)
            /\ Session(s, Started(s, c, 1))
            /\ TakeAndSend(s, HelloAck(CursorsOf(new)))
         \/ /\ StoresSame \/ (ok /\ SaveFailed(s, new))
            /\ Session(s, Disconnected(s))
            /\ TakeAndSend(s, Rejected)
    BY DEF ReceiveHello, NothingSaved, StoresSame
<1>2. h \in Flying(s) /\ h \in Greetings /\ c \in [Keys -> Cursor]
    <2>1. h \in Flying(s) /\ h \in Frame
        BY <1>1, ElemsOfTail, FlyingFacts, SideFacts DEF Flying, Types
    <2> QED
        BY <1>1, <2>1, FrameKinds DEF Greetings
<1>3. /\ Len(air[s]) = 1 /\ link /\ ~Greeted
      /\ sess["phone"].status = "hello" /\ sess[s].status = "disconnected"
    BY <1>1, <1>2 DEF HandshakeInv, HelloInv
<1>4. Told("phone", c)
    BY <1>1, <1>2, SideFacts DEF CursorInv, Cursors
<1>5. ok => new \in EngineState /\ Kept(new) /\ (Stored(s, new) => RetiresAt(s))
    BY <1>2, <1>4, CursorsRetire, SideFacts
<1> HIDE DEF c, new, ok
<1>6. mem[s] \in EngineState /\ Kept(mem[s]) /\ s \in Sides /\ Peer(s) = "phone"
    BY SideFacts DEF Types, DataInv, StoresInv
<1>7. StoreStep
    <2>1. StoresSame \/ (ok /\ (Saved(s, new) \/ SaveFailed(s, new)))
        BY <1>1
    <2>2. StoresSame \/ (ok /\ Stored(s, new))
        BY <1>6, <2>1, SavedOrNot
    <2> QED
        BY <1>5, <1>6, <2>2 DEF StoreStep
<1>8. PICK f \in Frame :
        /\ TakeAndSend(s, f) /\ Greeting(f) /\ f.type \in {"helloack", "rejected"}
        /\ Cursors(f) => ok /\ mem'[s] = new /\ f.cursors = CursorsOf(new)
    <2>1. CASE /\ ok
               /\ (new = mem[s] /\ StoresSame) \/ Saved(s, new)
               /\ TakeAndSend(s, HelloAck(CursorsOf(new)))
        <3>1. CursorsOf(new) \in [Keys -> Cursor]
            BY <1>5, <2>1, CursorsTold
        <3>2. HelloAck(CursorsOf(new)) \in Frame
            BY <3>1, FramesMade
        <3>3. mem'[s] = new
            BY <1>6, <2>1 DEF Saved, StoresSame, Types
        <3> QED
            BY <2>1, <3>2, <3>3 DEF HelloAck, Greeting
    <2>2. CASE TakeAndSend(s, Rejected)
        BY <2>2, FramesMade DEF Rejected, Greeting, Cursors
    <2> QED
        BY <1>1, <2>1, <2>2
<1>9. /\ air' \in [Sides -> Seq(Frame)]
      /\ air'[s] = <<>> /\ Flying(s)' = {} /\ Flying("phone")' = Flying("phone") \cup {f}
      /\ Len(air["phone"]) \in Nat /\ Len(air'["phone"]) = Len(air["phone"]) + 1
      /\ \A i \in 1..Len(air["phone"]) : air'["phone"][i] = air["phone"][i]
      /\ air'["phone"][Len(air["phone"]) + 1] = f
    BY <1>3, <1>8, TakeAndSendFacts
<1>10. /\ sess' \in [Sides -> Sessions] /\ sess'["phone"] = sess["phone"]
       /\ sess'[s].out = {} /\ sess'[s].reply = {} /\ sess'[s].status # "hello"
    <2>1. PICK x \in Sessions : Session(s, x) /\ x.out = {} /\ x.reply = {} /\ x.status # "hello"
        BY <1>1, <1>2, <1>6, StartedIsSession, DisconnectedIsSession
    <2> QED
        BY <1>6, <2>1, SessionFacts, SideFacts
<1>11. Types'
    BY <1>1, <1>7, <1>9, <1>10, StoresStay DEF Types, DataInv
<1>12. HandshakeInv'
    <2>1. QuietInv'
        BY <1>10, SideFacts DEF HandshakeInv, QuietInv, Sides
    <2>2. HelloInv'
        BY <1>9 DEF HelloInv
    <2>3. OneGreeting'
        <3>1. \A i \in 1..Len(air["phone"]) : ~Greeting(air["phone"][i])
            BY <1>3 DEF Greeted, Flying, Elems
        <3> QED
            BY <1>9, <3>1, SMTT(30) DEF OneGreeting
    <2>4. GreetingInv'
        <3>1. \A g \in Flying("phone")' : g.type # "hello"
            BY <1>8, <1>9 DEF HandshakeInv, GreetingInv
        <3> QED
            BY <1>1, <1>3, <1>9, <1>10, <2>3, <3>1 DEF GreetingInv
    <2> QED
        BY <1>10, <2>1, <2>2, <2>4 DEF HandshakeInv
<1>13. CursorInv'
    <2> SUFFICES ASSUME NEW t \in Sides, NEW g \in Flying(t)', Cursors(g)
                 PROVE  /\ Told(Peer(t), g.cursors)'
                        /\ ~forgot => \A k \in Keys : disk'[t][k].app <= Known(g.cursors[k])
        BY DEF CursorInv
    <2>1. t = "phone" /\ g = f /\ Peer(t) = s
        BY <1>3, <1>9, SideFacts DEF Sides, Greeted, Greeting, Cursors, HandshakeInv, GreetingInv
    <2>2. ok /\ mem'[s] = new /\ g.cursors = CursorsOf(new)
        BY <1>8, <2>1
    <2>3. /\ ValidCursors(g.cursors)
          /\ \A k \in Keys : /\ g.cursors[k].app = new[k].app /\ g.cursors[k].ack = new[k].ack
                             /\ Known(g.cursors[k]) = Known(new[k])
        BY <1>5, <2>2, CursorsTold
    <2>4. \A k \in Keys : Known(mem'[s][k]) \in Nat /\ Known(mem[s][k]) \in Nat
                          /\ Known(mem[s][k]) <= Known(mem'[s][k])
        BY <1>5, <1>6, <1>7, <2>2, StoresStay, StateNumbers, KnownIsHigher DEF KeyNumbers, DataInv
    <2>5. Told(s, g.cursors)'
        BY <2>2, <2>3, <2>4 DEF Told
    <2>6. ASSUME ~forgot, NEW k \in Keys PROVE disk'["phone"][k].app <= Known(g.cursors[k])
        <3>1. disk'["phone"] = disk["phone"]
            <4>1. Stored(s, new) \/ StoresSame
                BY <1>1, <1>6, SavedOrNot
            <4> QED
                BY <1>6, <4>1, SideFacts DEF Stored, StoresSame, Types
        <3>2. disk["phone"][k].app <= Known(mem[s][k])
            BY <1>6, <2>6 DEF DataInv, WindowInv
        <3>3. disk["phone"][k].app \in Nat
            BY SidesNumbers, SideFacts DEF KeyNumbers
        <3> QED
            BY <2>2, <2>3, <2>4, <3>1, <3>2, <3>3
    <2> QED
        BY <2>1, <2>5, <2>6
<1>14. FrameStep /\ AckStep
    BY <1>6, <1>8, <1>9, <1>10, SideFacts DEF Sides, FrameStep, AckStep, StatesOf, AcksTo
<1> QED
    BY <1>1, <1>7, <1>11, <1>12, <1>13, <1>14 DEF GoodStep, DataStep, OwnerStep

\* The phone's start on the answer to its Hello keeps it.
LEMMA ReceiveHelloAckGood ==
    ASSUME FullInv, ReceiveHelloAck, forgot' = forgot
    PROVE  GoodStep
<1> USE DEF FullInv
<1> DEFINE s == "phone"
           h == Head(air[s])
           c == h.cursors
           new == Reconciled(mem[s], c)
           ok == ReconcileStatus(s, c) = "Ok"
<1>1. /\ sess[s].status = "hello" /\ air[s] # <<>> /\ Greeting(h) /\ Take(s)
      /\ owner' = owner /\ link' = link
      /\ \/ StoresSame
         \/ h.type = "helloack" /\ ok /\ (Saved(s, new) \/ SaveFailed(s, new))
      /\ \/ \E st \in {"protocol_error", "store_error"} : Fails(s, st)
         \/ h.type = "helloack" /\ Session(s, Started(s, c, 0))
    BY DEF ReceiveHelloAck, NothingSaved, StoresSame, Greeting
<1>2. /\ h \in Flying(s)
      /\ h.type = "helloack" => c \in [Keys -> Cursor]
    <2>1. h \in Flying(s) /\ h \in Frame
        BY <1>1, TakeFacts, SideFacts
    <2> QED
        BY <2>1, FrameKinds DEF Greetings
<1>3. Greeted /\ air["note4"] = <<>> /\ Flying("note4") = {}
    BY <1>1, <1>2, FlyingFacts, SideFacts DEF Greeted, HandshakeInv, GreetingInv
<1>4. StoreStep
    <2>1. CASE StoresSame
        BY <2>1 DEF StoreStep
    <2>2. CASE h.type = "helloack" /\ ok /\ (Saved(s, new) \/ SaveFailed(s, new))
        <3>1. Told("note4", c)
            BY <1>2, <2>2, SideFacts DEF CursorInv, Cursors
        <3>2. Stored(s, new) => RetiresAt(s)
            BY <1>2, <2>2, <3>1, CursorsRetire, SideFacts
        <3>3. Stored(s, new) \/ StoresSame
            BY <2>2, SavedOrNot, SideFacts
        <3> QED
            BY <3>2, <3>3, SideFacts DEF StoreStep
    <2> QED
        BY <1>1, <2>1, <2>2
<1>5. /\ sess' \in [Sides -> Sessions] /\ sess'["note4"] = sess["note4"]
      /\ sess'[s].status \notin {"disconnected", "hello"}
      /\ sess'[s].out \subseteq sess[s].out /\ sess'[s].reply \subseteq sess[s].reply
    <2>1. CASE \E st \in {"protocol_error", "store_error"} : Fails(s, st)
        BY <2>1, FailsFacts, SideFacts
    <2>2. CASE h.type = "helloack" /\ Session(s, Started(s, c, 0))
        <3>1. PICK x \in Sessions : Session(s, x) /\ x.out = {} /\ x.reply = {} /\ x.status = "active"
            BY <1>2, <2>2, StartedIsSession, SideFacts
        <3> QED
            BY <3>1, SessionFacts, SideFacts
    <2> QED
        BY <1>1, <2>1, <2>2
<1>6. /\ air' \in [Sides -> Seq(Frame)] /\ Flying(s)' \subseteq Flying(s)
      /\ Flying("note4")' = {} /\ air'["note4"] = <<>>
    BY <1>1, <1>3, TakeFacts, SideFacts
<1>7. ~Greeted'
    <2> SUFFICES ASSUME NEW i \in 1..Len(air'[s]), Greeting(air'[s][i]) PROVE FALSE
        BY DEF Greeted, Flying, Elems
    <2>1. i + 1 \in 1..Len(air[s]) /\ Greeting(air[s][i + 1])
        BY <1>1, TakeFacts, SideFacts
    <2>2. 1 \in 1..Len(air[s]) /\ Greeting(air[s][1])
        <3>1. Len(air[s]) \in Nat \ {0}
            BY <1>1, TakeFacts, SideFacts
        <3> QED
            BY <1>1, <3>1
    <2>3. i + 1 = 1
        BY <2>1, <2>2 DEF HandshakeInv, GreetingInv, OneGreeting
    <2> QED
        BY <2>3
<1>8. Types'
    BY <1>1, <1>4, <1>5, <1>6, StoresStay DEF Types, DataInv
<1>9. HandshakeInv'
    <2>1. QuietInv' /\ sess'["note4"].status # "hello"
        BY <1>5, SideFacts DEF HandshakeInv, QuietInv, Sides
    <2>2. OneGreeting'
        BY <1>7 DEF OneGreeting, Greeted, Flying, Elems
    <2> QED
        BY <1>6, <1>7, <2>1, <2>2 DEF HandshakeInv, HelloInv, GreetingInv
<1>10. CursorInv'
    BY <1>6, <1>7, SideFacts DEF Sides, CursorInv, Cursors, Greeted, Greeting, HandshakeInv, GreetingInv
<1>11. FrameStep /\ AckStep
    BY <1>3, <1>5, <1>6, FewerFrames, SideFacts DEF Sides
<1> QED
    BY <1>1, <1>4, <1>8, <1>9, <1>10, <1>11 DEF GoodStep, DataStep, OwnerStep

-----------------------------------------------------------------------------
(* The invariant holds.                                                    *)

\* The invariant holds of empty stores and no link.
LEMMA InitFull == Init => FullInv
<1> SUFFICES ASSUME Init PROVE FullInv
    OBVIOUS
<1> USE DEF Init
<1>1. \A s \in Sides : /\ mem[s] = Empty /\ disk[s] = Empty /\ sess[s] = Disconnected(s)
                       /\ air[s] = <<>>
    BY DEF NoFrames
<1>2. /\ Empty \in EngineState /\ Kept(Empty)
      /\ \A k \in Keys : /\ Empty[k].ack = 0 /\ Empty[k].app = 0 /\ Empty[k].pend = 0
                         /\ Known(Empty[k]) = 0
    BY RevisionFacts, SyncConstants DEF Empty, EngineState, KeyState, NoEntry, Kept, Known, Higher
<1>3. \A s \in Sides : sess[s] \in Sessions /\ sess[s].out = {} /\ sess[s].reply = {}
                       /\ sess[s].status = "disconnected"
    BY <1>1, DisconnectedIsSession
<1>4. \A s \in Sides : Flying(s) = {} /\ air[s] \in Seq(Frame)
    <2>1. Elems(<<>>) = {} /\ <<>> \in Seq(Frame)
        BY EmptySeq DEF Elems
    <2> QED
        BY <1>1, <2>1 DEF Flying
<1>5. Types
    BY <1>2, <1>3, <1>4, RevisionFacts DEF Types, NoFrames
<1>6. \A s \in Sides : StatesOf(s) = {} /\ AcksTo(s) = {}
    BY <1>3, <1>4, SideFacts DEF StatesOf, AcksTo
<1>7. DataInv
    <2>1. StoresInv
        BY <1>1, <1>2, AheadOfSelf DEF StoresInv
    <2>2. WindowInv /\ AcksInv /\ StatesInv
        BY <1>1, <1>2, <1>6, SideFacts DEF WindowInv, AcksInv, StatesInv
    <2>3. \A s \in Sides, k \in Keys, r \in Revisions \ {0}, v \in Values : ~Carries(s, k, r, v)
        BY <1>1, <1>2, <1>6, SideFacts DEF Carries
    <2> QED
        BY <2>1, <2>2, <2>3, SideFacts DEF DataInv, OneValueInv, OwnerInv
<1>8. HandshakeInv /\ CursorInv
    <2>1. Len(air["phone"]) = 0
        BY <1>1, <1>4, SideFacts, EmptySeq
    <2>2. OneGreeting
        BY <2>1 DEF OneGreeting
    <2>3. HelloInv /\ GreetingInv /\ CursorInv
        BY <1>4, <2>2, SideFacts DEF HelloInv, GreetingInv, Greeted, CursorInv
    <2> QED
        BY <1>3, <2>3, SideFacts DEF HandshakeInv, QuietInv
<1> QED
    BY <1>5, <1>7, <1>8 DEF FullInv

\* Every step that does not forget.
LEMMA PairedGood ==
    ASSUME FullInv, Paired, forgot' = forgot
    PROVE  GoodStep
<1>1. CASE Owners
    BY <1>1, ReaderPublishesGood, ReaderSavesGood, PhoneEnqueuesGood DEF Owners
<1>2. CASE Handshake
    BY <1>2, ConnectGood, ReceiveHelloGood, ReceiveHelloAckGood DEF Handshake
<1>3. ASSUME NEW s \in Sides, SessionStep(s) PROVE GoodStep
    BY <1>3, PollReplyPolls, PollAdmitPolls, PollRetryPolls, PollsGood, ReceiveReplyTakes, TakesReplyGood, ReceiveStateTakes, TakesStateGood,
       LoseGood, HangUpGood, NoticeDisconnectGood DEF SessionStep
<1>4. ASSUME NEW s \in Sides, Environment(s) PROVE GoodStep
    BY <1>4, PollTimeoutGood, LoseGood, RestartGood DEF Environment
<1>5. CASE Drop
    BY <1>5, DropGood
<1> QED
    BY <1>1, <1>2, <1>3, <1>4, <1>5 DEF Paired

\* Forgetting leaves the phone's side and what is on its way.
LEMMA ForgetFull ==
    ASSUME FullInv, ForgetPeer
    PROVE  FullInv'
<1> USE DEF FullInv
<1>1. /\ ~link /\ forgot' = TRUE /\ owner' = owner /\ link' = link /\ air' = air
      /\ mem' = [mem EXCEPT !["note4"] = Empty] /\ disk' = [disk EXCEPT !["note4"] = Empty]
      /\ Session("note4", Disconnected("note4"))
    BY DEF ForgetPeer
<1>2. /\ Empty \in EngineState /\ Kept(Empty)
      /\ \A k \in Keys : Empty[k].app = 0 /\ Empty[k].pend = 0
    BY RevisionFacts, SyncConstants DEF Empty, EngineState, KeyState, NoEntry, Kept
<1>3. /\ mem'["note4"] = Empty /\ disk'["note4"] = Empty
      /\ mem'["phone"] = mem["phone"] /\ disk'["phone"] = disk["phone"]
      /\ mem' \in [Sides -> EngineState] /\ disk' \in [Sides -> EngineState]
    BY <1>1, <1>2, SideFacts DEF Types
<1>4. /\ sess' \in [Sides -> Sessions]
      /\ \A u \in Sides : sess'[u].out \subseteq sess[u].out /\ sess'[u].reply \subseteq sess[u].reply
      /\ QuietInv' /\ sess'["note4"].status # "hello"
    BY <1>1, SessionEnds, SideFacts
<1>5. \A t \in Sides : Flying(t)' = Flying(t)
    BY <1>1 DEF Flying
<1>6. ~Greeted /\ \A f \in Flying("note4") : f.type # "hello"
    BY <1>1 DEF HandshakeInv, HelloInv, GreetingInv
<1>7. HandshakeInv'
    BY <1>1, <1>4, <1>5, <1>6, SideFacts
       DEF HandshakeInv, HelloInv, GreetingInv, Greeted, OneGreeting
<1>8. CursorInv'
    BY <1>5, <1>6, SideFacts
       DEF Sides, CursorInv, Cursors, Greeted, Greeting, HandshakeInv, GreetingInv, HelloInv
<1>9. Types'
    BY <1>1, <1>3, <1>4 DEF Types
<1>10. \A s \in Sides : StatesOf(s)' \subseteq StatesOf(s)
    BY <1>4, <1>5, SideFacts DEF StatesOf
<1>11. StoresInv'
    BY <1>2, <1>3, AheadOfSelf DEF DataInv, StoresInv, Sides
<1>12. WindowInv' /\ AcksInv'
    BY <1>1 DEF WindowInv, AcksInv
<1>13. StatesInv'
    <2> SUFFICES /\ \A f \in StatesOf("phone")' : f.rev <= Known(mem'["phone"][f.key])
                 /\ \A k \in Keys : disk'["note4"][k].app <= Known(mem'["phone"][k])
        BY <1>1, SideFacts DEF StatesInv, Sides
    <2>1. \A f \in StatesOf("phone")' : f.rev <= Known(mem["phone"][f.key])
        BY <1>10, SideFacts DEF DataInv, StatesInv
    <2>2. \A k \in Keys : Known(mem["phone"][k]) \in Nat
        BY SidesNumbers, SideFacts
    <2> QED
        BY <1>2, <1>3, <2>1, <2>2
<1>14. ASSUME NEW s \in Sides, NEW k \in Keys, NEW r \in Revisions \ {0}, NEW v \in Values,
              Carries(s, k, r, v)'
       PROVE  Carries(s, k, r, v)
    BY <1>2, <1>3, <1>10, <1>14, SideFacts DEF Carries, Sides
<1>15. OneValueInv' /\ OwnerInv'
    BY <1>1, <1>14, SideFacts DEF DataInv, OneValueInv, OwnerInv
<1> QED
    BY <1>7, <1>8, <1>9, <1>11, <1>12, <1>13, <1>15 DEF DataInv

\* It holds after every step, the forgetting of the peer included.
LEMMA StepFull ==
    ASSUME FullInv, [Next]_vars
    PROVE  FullInv'
<1>1. CASE Paired /\ UNCHANGED forgot
    <2>1. GoodStep
        BY <1>1, PairedGood
    <2>2. DataInv'
        BY <2>1, DataStays DEF FullInv, GoodStep
    <2> QED
        BY <2>1, <2>2 DEF FullInv, GoodStep
<1>2. CASE ForgetPeer
    BY <1>2, ForgetFull
<1>3. CASE UNCHANGED vars
    BY <1>3 DEF vars, FullInv, Types, DataInv, StoresInv, WindowInv, AcksInv, StatesInv,
       OneValueInv, OwnerInv, Carries, StatesOf, AcksTo, Flying, HandshakeInv, QuietInv, HelloInv,
       GreetingInv, Greeted, OneGreeting, CursorInv, Told
<1> QED
    BY <1>1, <1>2, <1>3 DEF Next

\* The inductive invariant, for any keys, values and revisions, any number of
\* frames in flight and any number of faults: types, what the stores and the
\* frames say of each other, the handshake, and the cursors it carries
\* (note4_sync_session.cc, CompanionSyncSession.kt, BleGattClient.kt).
THEOREM AlwaysFull == Spec => []FullInv
<1>1. Init => FullInv
    BY InitFull
<1>2. FullInv /\ [Next]_vars => FullInv'
    BY StepFull
<1> QED
    BY <1>1, <1>2, PTL DEF Spec

-----------------------------------------------------------------------------
(* What the invariant says of the properties.                              *)

\* What waits or was received carries its value.
LEMMA HeldCarries ==
    ASSUME Types, StoresInv, NEW s \in Sides, NEW k \in Keys
    PROVE  /\ \A m \in {mem[s], disk[s]} : m[k].pend # 0 =>
                m[k].pend \in Revisions \ {0} /\ m[k].pval \in Values
                /\ Carries(s, k, m[k].pend, m[k].pval)
           /\ \A n \in {mem[Peer(s)], disk[Peer(s)]} : n[k].irev # 0 =>
                n[k].irev \in Revisions \ {0} /\ n[k].ival \in Values
                /\ Carries(s, k, n[k].irev, n[k].ival)
<1>1. ASSUME NEW t \in Sides, NEW e, e = mem[t] \/ e = disk[t]
      PROVE  /\ e[k] \in KeyState /\ e[k].irev = e[k].app
             /\ e[k].pend # 0 => e[k].pval # NoValue
             /\ e[k].irev # 0 => e[k].ival # NoValue
    BY <1>1 DEF Types, EngineState, StoresInv, Kept
<1>2. Peer(s) \in Sides
    BY SideFacts
<1>3. ASSUME NEW m \in {mem[s], disk[s]}, m[k].pend # 0
      PROVE  m[k].pend \in Revisions \ {0} /\ m[k].pval \in Values
             /\ Carries(s, k, m[k].pend, m[k].pval)
    BY <1>1, <1>3 DEF KeyState, Carries
<1>4. ASSUME NEW n \in {mem[Peer(s)], disk[Peer(s)]}, n[k].irev # 0
      PROVE  n[k].irev \in Revisions \ {0} /\ n[k].ival \in Values
             /\ Carries(s, k, n[k].irev, n[k].ival)
    BY <1>1, <1>2, <1>4 DEF KeyState, Carries
<1> QED
    BY <1>3, <1>4

\* A pending revision has the bytes its receiver holds.
LEMMA FullSameBytes == FullInv => SameBytes
<1> SUFFICES ASSUME FullInv, NEW s \in Sides, NEW k \in Keys,
                    NEW m \in {mem[s], disk[s]}, NEW n \in {mem[Peer(s)], disk[Peer(s)]},
                    m[k].pend # 0, m[k].pend = n[k].irev
             PROVE  m[k].pval = n[k].ival
    BY DEF SameBytes
<1> QED
    BY HeldCarries DEF FullInv, DataInv, OneValueInv

\* An update that waits for its ACK never conflicts at the receiver.
LEMMA FullNeverConflict == FullInv => NeverConflict
<1> SUFFICES ASSUME FullInv, NEW s \in Sides, NEW f \in sess[Peer(s)].out
             PROVE  AcceptStatus(s, f.key, f.rev, f.val) \notin {"Conflict", "Invalid"}
    BY DEF NeverConflict
<1> DEFINE t == Peer(s)
           e == mem[s]
<1>1. t \in Sides /\ Peer(t) = s
    BY SideFacts
<1>2. f \in StateFrames /\ f \in StatesOf(t)
    BY <1>1 DEF FullInv, Types, Sessions, StateFrames, StatesOf
<1>3. /\ f.key \in Keys /\ f.rev \in Revisions \ {0} /\ f.val \in Values
      /\ Carries(t, f.key, f.rev, f.val)
    BY <1>2 DEF StateFrames, Carries
<1>4. f.rev = e[f.key].irev => f.val = e[f.key].ival
    BY <1>1, <1>3, HeldCarries DEF FullInv, DataInv, OneValueInv
<1> HIDE DEF e
<1>5. Note4!AcceptStatus(e, f.key, f.rev, f.val) \notin {"Conflict", "Invalid"}
    BY <1>4 DEF Note4!AcceptStatus
<1>6. Phone!AcceptStatus(e, f.key, f.rev, f.val) \notin {"Conflict", "Invalid"}
    BY <1>4 DEF Phone!AcceptStatus
<1> QED
    BY <1>5, <1>6 DEF AcceptStatus, e

\* What one side retired is on the other's store.
LEMMA FullAckedIsDurable == FullInv /\ ~forgot => AckedIsDurableThere
<1> SUFFICES ASSUME FullInv, ~forgot, NEW s \in Sides, NEW k \in Keys
             PROVE  /\ mem[s][k].ack <= disk[Peer(s)][k].app
                    /\ disk[s][k].ack <= disk[Peer(s)][k].app
    BY DEF AckedIsDurableThere
<1>1. /\ mem[s][k].ack <= mem[Peer(s)][k].app /\ disk[s][k].ack <= mem[Peer(s)][k].app
    BY DEF FullInv, DataInv, WindowInv
<1>2. /\ KeyNumbers(mem[s][k]) /\ KeyNumbers(disk[s][k])
      /\ KeyNumbers(mem[Peer(s)][k]) /\ KeyNumbers(disk[Peer(s)][k])
      /\ mem[Peer(s)][k].app <= disk[Peer(s)][k].app
    BY SidesNumbers, SideFacts, AheadCovers DEF FullInv, DataInv, StoresInv
<1> QED
    BY <1>1, <1>2 DEF KeyNumbers

\* What one side applied the other still knows.
LEMMA FullAppliedIsKnown == FullInv /\ ~forgot => AppliedIsKnownHere
<1> SUFFICES ASSUME FullInv, ~forgot, NEW s \in Sides, NEW k \in Keys,
                    NEW m \in {mem[s], disk[s]}
             PROVE  disk[Peer(s)][k].app <= Known(m[k])
    BY DEF AppliedIsKnownHere, Known
<1>1. disk[Peer(s)][k].app <= Known(mem[s][k])
    BY DEF FullInv, DataInv, WindowInv
<1>2. /\ Known(mem[s][k]) \in Nat /\ Known(disk[s][k]) \in Nat
      /\ KeyNumbers(disk[Peer(s)][k]) /\ Known(mem[s][k]) <= Known(disk[s][k])
    BY SidesNumbers, SideFacts, AheadCovers DEF FullInv, DataInv, StoresInv
<1> QED
    BY <1>1, <1>2 DEF KeyNumbers

\* Cursors that were told and cover what the other side has find it compatible.
LEMMA ToldIsCompatible ==
    ASSUME FullInv, ~forgot, NEW s \in Sides, NEW f \in Flying(s), Cursors(f)
    PROVE  ReconcileStatus(s, f.cursors) \in {"Ok", "Full"}
<1> DEFINE c == f.cursors
           t == Peer(s)
           own == CursorsOf(mem[s])
<1>1. Told(t, c) /\ \A k \in Keys : disk[s][k].app <= Known(c[k])
    BY DEF FullInv, CursorInv
<1>2. c \in [Keys -> Cursor]
    BY FlyingFacts, FrameKinds DEF FullInv, Cursors, Greetings
<1>3. ASSUME NEW k \in Keys PROVE Compatible(own[k], c[k])
    <2>1. own[k].app = mem[s][k].app /\ own[k].ack = mem[s][k].ack /\ Known(own[k]) = Known(mem[s][k])
        BY CursorsTold DEF FullInv, Types, DataInv, StoresInv
    <2>2. c[k].app = mem[t][k].app /\ c[k].ack = mem[t][k].ack
        BY <1>1 DEF Told
    <2>3. /\ mem[s][k].ack <= mem[t][k].app /\ mem[t][k].ack <= mem[s][k].app
          /\ disk[t][k].app <= Known(mem[s][k])
        BY SideFacts DEF FullInv, DataInv, WindowInv
    <2>4. /\ KeyNumbers(mem[s][k]) /\ KeyNumbers(mem[t][k]) /\ KeyNumbers(disk[s][k])
          /\ KeyNumbers(disk[t][k]) /\ Known(mem[s][k]) \in Nat
          /\ mem[s][k].app <= disk[s][k].app /\ mem[t][k].app <= disk[t][k].app
        BY SidesNumbers, SideFacts, AheadCovers DEF FullInv, DataInv, StoresInv
    <2>5. Known(c[k]) \in Nat
        BY <1>2, RevisionFacts, KnownIsHigher DEF Cursor
    <2>6. c[k].app >= own[k].ack /\ c[k].app <= Known(own[k])
        BY <2>1, <2>2, <2>3, <2>4 DEF KeyNumbers
    <2>7. own[k].app >= c[k].ack /\ own[k].app <= Known(c[k])
        BY <1>1, <2>1, <2>2, <2>3, <2>4, <2>5 DEF KeyNumbers
    <2> QED
        BY <2>6, <2>7 DEF Compatible, InWindow, Known
<1>4. AllCompatible(mem[s], c)
    BY <1>3 DEF AllCompatible
<1> QED
    BY <1>1, <1>4, ReconcileAnswers DEF Told

\* The cursors of undamaged stores always reconcile.
LEMMA FullNeverResync == FullInv /\ ~forgot => NeverResync
<1> SUFFICES ASSUME FullInv, ~forgot, NEW s \in Sides, NEW i \in 1..MaxInFlight,
                    i <= Len(air[s]), air[s][i].type \in {"hello", "helloack"}
             PROVE  ReconcileStatus(s, air[s][i].cursors) \notin {"Resync", "Invalid"}
    BY DEF NeverResync
<1>1. i \in 1..Len(air[s])
    BY BoundsOK, FlyingFacts DEF FullInv
<1>2. air[s][i] \in Flying(s) /\ Cursors(air[s][i])
    BY <1>1 DEF Flying, Elems, Cursors
<1> QED
    BY <1>2, ToldIsCompatible

\* Two sides that call themselves converged agree.
LEMMA FullConvergedAgree == FullInv /\ ~forgot => ConvergedAgree
<1> SUFFICES ASSUME FullInv, ~forgot, \A s \in Sides : Converged(s), NEW k \in Keys
             PROVE  /\ mem["note4"][k].ack = mem["phone"][k].app
                    /\ mem["phone"][k].ack = mem["note4"][k].app
                    /\ owner[k].rev # 0 /\ owner[k].rev = mem["phone"][k].irev =>
                            mem["phone"][k].ival = owner[k].val
    BY DEF ConvergedAgree
<1>1. ASSUME NEW s \in Sides PROVE mem[s][k].ack = mem[Peer(s)][k].app
    <2>1. mem[s][k].pend = 0
        BY DEF Converged, Pending
    <2>2. /\ KeyNumbers(mem[s][k]) /\ KeyNumbers(mem[Peer(s)][k]) /\ KeyNumbers(disk[Peer(s)][k])
          /\ mem[Peer(s)][k].app <= disk[Peer(s)][k].app
        BY SidesNumbers, SideFacts, AheadCovers DEF FullInv, DataInv, StoresInv
    <2>3. Known(mem[s][k]) = mem[s][k].ack
        BY <2>1, <2>2 DEF Known, Higher, KeyNumbers
    <2>4. /\ mem[s][k].ack <= mem[Peer(s)][k].app /\ disk[Peer(s)][k].app <= Known(mem[s][k])
        BY DEF FullInv, DataInv, WindowInv
    <2> QED
        BY <2>2, <2>3, <2>4 DEF KeyNumbers
<1>2. ASSUME owner[k].rev # 0, owner[k].rev = mem["phone"][k].irev
      PROVE  mem["phone"][k].ival = owner[k].val
    <2>1. /\ mem["phone"][k].irev \in Revisions \ {0} /\ mem["phone"][k].ival \in Values
          /\ Carries("note4", k, mem["phone"][k].irev, mem["phone"][k].ival)
        BY <1>2, HeldCarries, SideFacts DEF FullInv, DataInv
    <2> QED
        BY <1>2, <2>1 DEF FullInv, DataInv, OwnerInv
<1> QED
    BY <1>1, <1>2, SideFacts

\* A revision carries the same bytes wherever it is held, and no update in
\* flight is refused as a conflict, even after the Note4 forgot the phone
\* (note4_sync_engine.cc AcceptIncomingState, DurableQueue.kt accept).
THEOREM BytesAlwaysAgree == Spec => []BytesAgree
<1>1. FullInv => BytesAgree
    BY FullSameBytes, FullNeverConflict DEF BytesAgree
<1> QED
    BY <1>1, AlwaysFull, PTL

-----------------------------------------------------------------------------
(* Each direction is the register of DurableTransfer.                      *)

\* How the memory of a side moves: by one of the operations of its engine, on
\* the call that is saved or on a restart from the record one save ahead.
MovesTo(s, n) ==
    \/ n = mem[s]
    \/ Retired(mem[s], n) /\ (~forgot => \A k \in Keys : n[k].ack <= mem[Peer(s)][k].app)
    \/ \E k \in Keys, r \in Revisions \ {0}, v \in Values : Enqueued(mem[s], n, k, r, v)
    \/ \E k \in Keys, r \in Revisions \ {0}, v \in Values :
            /\ Received(mem[s], n, k, r, v)
            /\ Carries(Peer(s), k, r, v)
            /\ ~forgot => r <= Known(mem[Peer(s)][k])

\* Memory goes to the stored record by one move.
LEMMA RecordIsMove ==
    ASSUME Types, DataInv, NEW s \in Sides
    PROVE  MovesTo(s, disk[s])
<1>1. Ahead(mem[s], disk[s]) /\ Peer(s) \in Sides /\ Peer(Peer(s)) = s
    BY SideFacts DEF DataInv, StoresInv
<1>2. CASE Retired(mem[s], disk[s])
    BY <1>2 DEF MovesTo, DataInv, WindowInv
<1>3. ASSUME NEW k \in Keys, NEW r \in Revisions \ {0}, NEW v \in Values,
             Received(mem[s], disk[s], k, r, v)
      PROVE  MovesTo(s, disk[s])
    <2>1. disk[s][k].app = r /\ disk[s][k].ival = v
        BY <1>3 DEF Received
    <2>2. Carries(Peer(s), k, r, v)
        BY <1>1, <2>1 DEF Carries
    <2>3. ~forgot => r <= Known(mem[Peer(s)][k])
        BY <1>1, <2>1 DEF DataInv, WindowInv
    <2> QED
        BY <1>3, <2>2, <2>3 DEF MovesTo
<1> QED
    BY <1>1, <1>2, <1>3 DEF Ahead, MovesTo

\* Every step moves the memory of each side so.
LEMMA StoreMoves ==
    ASSUME Types, DataInv, StoreStep
    PROVE  \/ mem' = mem
           \/ \E s \in Sides : MovesTo(s, mem'[s]) /\ \A t \in Sides \ {s} : mem'[t] = mem[t]
<1>1. CASE StoresSame
    BY <1>1 DEF StoresSame
<1>2. ASSUME NEW s \in Sides, NEW new, MovesTo(s, new), Stored(s, new)
      PROVE  \/ mem' = mem
             \/ MovesTo(s, mem'[s]) /\ \A t \in Sides \ {s} : mem'[t] = mem[t]
    BY <1>2 DEF Stored, Types
<1>3. ASSUME NEW s \in Sides, Enqueues(s)
      PROVE  \E new : MovesTo(s, new) /\ Stored(s, new)
    BY <1>3 DEF Enqueues, MovesTo
<1>4. ASSUME NEW s \in Sides, Receives(s)
      PROVE  \E new : MovesTo(s, new) /\ Stored(s, new)
    <2>1. PICK f \in StatesOf(Peer(s)), new \in EngineState :
                Received(mem[s], new, f.key, f.rev, f.val) /\ Stored(s, new)
        BY <1>4 DEF Receives
    <2>2. Peer(s) \in Sides /\ f \in StateFrames
        BY FrameSets, SideFacts
    <2>3. f.key \in Keys /\ f.rev \in Revisions \ {0} /\ f.val \in Values
        BY <2>2 DEF StateFrames
    <2>4. Carries(Peer(s), f.key, f.rev, f.val)
        BY DEF Carries
    <2>5. ~forgot => f.rev <= Known(mem[Peer(s)][f.key])
        BY <2>2 DEF DataInv, StatesInv
    <2>6. MovesTo(s, new)
        BY <2>1, <2>3, <2>4, <2>5 DEF MovesTo
    <2> QED
        BY <2>1, <2>6
<1>5. ASSUME NEW s \in Sides, RetiresAt(s)
      PROVE  \E new : MovesTo(s, new) /\ Stored(s, new)
    BY <1>5 DEF RetiresAt, MovesTo
<1>6. ASSUME NEW s \in Sides, Reloads(s)
      PROVE  MovesTo(s, mem'[s]) /\ \A t \in Sides \ {s} : mem'[t] = mem[t]
    BY <1>6, RecordIsMove DEF Reloads, Types
<1> QED
    BY <1>1, <1>2, <1>3, <1>4, <1>5, <1>6 DEF StoreStep

\* The register seen from s, before and after.
Offer(s) == [k \in Keys |-> [rev |-> mem[s][k].pend, val |-> mem[s][k].pval]]
Acked(s) == [k \in Keys |-> mem[s][k].ack]
Applied(s) == [k \in Keys |-> [rev |-> mem[Peer(s)][k].app, val |-> mem[Peer(s)][k].ival]]

RegisterOffers(s, k) ==
    /\ \E r \in Revisions, v \in Values :
        /\ r > Higher(Acked(s)[k], Offer(s)[k].rev)
        /\ Offer(s)' = [Offer(s) EXCEPT ![k] = [rev |-> r, val |-> v]]
    /\ UNCHANGED <<Acked(s), Applied(s)>>

RegisterApplies(s, k) ==
    /\ \E r \in Revisions, v \in Values :
        /\ Applied(s)[k].rev < r /\ r <= Offer(s)[k].rev
        /\ r = Offer(s)[k].rev => v = Offer(s)[k].val
        /\ Applied(s)' = [Applied(s) EXCEPT ![k] = [rev |-> r, val |-> v]]
    /\ UNCHANGED <<Offer(s), Acked(s)>>

RegisterRetires(s) ==
    /\ \E a \in [Keys -> Revisions] :
        /\ \A k \in Keys : /\ Acked(s)[k] <= a[k]
                           /\ a[k] <= Higher(Acked(s)[k], Applied(s)[k].rev)
        /\ Acked(s)' = a
        /\ Offer(s)' = [k \in Keys |-> IF Offer(s)[k].rev <= a[k]
                                       THEN [rev |-> 0, val |-> NoValue] ELSE Offer(s)[k]]
    /\ UNCHANGED Applied(s)

RegisterNext(s) ==
    RegisterRetires(s) \/ \E k \in Keys : RegisterOffers(s, k) \/ RegisterApplies(s, k)

\* An engine's operation on one side is a step of the register seen from it ...
LEMMA OwnMove ==
    ASSUME Types, Types', DataInv, ~forgot, NEW s \in Sides, MovesTo(s, mem'[s]),
           mem'[Peer(s)] = mem[Peer(s)]
    PROVE  RegisterNext(s) \/ UNCHANGED <<Offer(s), Acked(s), Applied(s)>>
<1>1. Applied(s)' = Applied(s)
    BY DEF Applied
<1>2. CASE mem'[s] = mem[s]
    BY <1>1, <1>2 DEF Offer, Acked
<1>3. CASE Retired(mem[s], mem'[s]) /\ \A k \in Keys : mem'[s][k].ack <= mem[Peer(s)][k].app
    <2> DEFINE a == [k \in Keys |-> mem'[s][k].ack]
    <2>1. a \in [Keys -> Revisions] /\ Acked(s)' = a
        BY DEF Types, EngineState, KeyState, Acked
    <2>2. ASSUME NEW k \in Keys
          PROVE  Acked(s)[k] <= a[k] /\ a[k] <= Higher(Acked(s)[k], Applied(s)[k].rev)
        <3>1. KeyNumbers(mem[s][k]) /\ KeyNumbers(mem'[s][k]) /\ KeyNumbers(mem[Peer(s)][k])
            BY SidesNumbers, SideFacts, StateNumbers DEF Types
        <3> QED
            BY <1>3, <3>1 DEF Retired, Acked, Applied, Higher, KeyNumbers
    <2>3. Offer(s)' = [k \in Keys |-> IF Offer(s)[k].rev <= a[k]
                                      THEN [rev |-> 0, val |-> NoValue] ELSE Offer(s)[k]]
        BY <1>3 DEF Offer, Retired
    <2> HIDE DEF a
    <2> QED
        BY <1>1, <2>1, <2>2, <2>3 DEF RegisterNext, RegisterRetires
<1>4. ASSUME NEW k \in Keys, NEW r \in Revisions \ {0}, NEW v \in Values,
             Enqueued(mem[s], mem'[s], k, r, v)
      PROVE  RegisterNext(s)
    <2>1. r > Higher(Acked(s)[k], Offer(s)[k].rev)
        BY <1>4 DEF Enqueued, Known, Acked, Offer
    <2>2. Offer(s)' = [Offer(s) EXCEPT ![k] = [rev |-> r, val |-> v]]
        BY <1>4 DEF Enqueued, Offer
    <2>3. Acked(s)' = Acked(s)
        BY <1>4 DEF Enqueued, Acked
    <2> QED
        BY <1>1, <2>1, <2>2, <2>3 DEF RegisterNext, RegisterOffers
<1>5. ASSUME NEW k \in Keys, NEW r \in Revisions \ {0}, NEW v \in Values,
             Received(mem[s], mem'[s], k, r, v)
      PROVE  UNCHANGED <<Offer(s), Acked(s), Applied(s)>>
    BY <1>1, <1>5 DEF Received, Offer, Acked
<1> QED
    BY <1>2, <1>3, <1>4, <1>5 DEF MovesTo

\* ... and of the register seen from its peer.
LEMMA PeersMove ==
    ASSUME Types, Types', DataInv, ~forgot, NEW s \in Sides, MovesTo(Peer(s), mem'[Peer(s)]),
           mem'[s] = mem[s]
    PROVE  RegisterNext(s) \/ UNCHANGED <<Offer(s), Acked(s), Applied(s)>>
<1> DEFINE t == Peer(s)
<1>0. t \in Sides /\ Peer(t) = s
    BY SideFacts
<1>1. UNCHANGED <<Offer(s), Acked(s)>>
    BY DEF Offer, Acked
<1>2. CASE \A k \in Keys : mem'[t][k].app = mem[t][k].app /\ mem'[t][k].ival = mem[t][k].ival
    BY <1>1, <1>2 DEF Applied
<1>3. ASSUME NEW k \in Keys, NEW r \in Revisions \ {0}, NEW v \in Values,
             Received(mem[t], mem'[t], k, r, v), Carries(s, k, r, v), r <= Known(mem[s][k])
      PROVE  RegisterNext(s)
    <2>1. /\ KeyNumbers(mem[s][k]) /\ KeyNumbers(mem[t][k]) /\ r \in Nat
          /\ mem[s][k].ack <= mem[t][k].app
        BY <1>0, SidesNumbers, RevisionFacts DEF DataInv, WindowInv
    <2>2. r > mem[t][k].app /\ r <= mem[s][k].pend
        BY <1>3, <2>1, KnownIsHigher DEF Received, KeyNumbers
    <2>3. r = mem[s][k].pend => v = mem[s][k].pval
        BY <1>3, HeldCarries DEF DataInv, OneValueInv
    <2>4. Applied(s)' = [Applied(s) EXCEPT ![k] = [rev |-> r, val |-> v]]
        BY <1>3 DEF Applied, Received
    <2>5. RegisterApplies(s, k)
        BY <1>1, <2>2, <2>3, <2>4 DEF RegisterApplies, Applied, Offer
    <2> QED
        BY <2>5 DEF RegisterNext
<1> QED
    BY <1>0, <1>2, <1>3 DEF MovesTo, Retired, Enqueued

\* A move of either side is a step of the register between them.
LEMMA RegisterMoves ==
    ASSUME FullInv, GoodStep, ~forgot, NEW s \in Sides
    PROVE  RegisterNext(s) \/ UNCHANGED <<Offer(s), Acked(s), Applied(s)>>
<1>1. Types /\ Types' /\ DataInv /\ StoreStep
    BY DEF FullInv, GoodStep, DataStep
<1>2. CASE mem' = mem
    BY <1>2 DEF Offer, Acked, Applied
<1>3. ASSUME NEW u \in Sides, MovesTo(u, mem'[u]), \A t \in Sides \ {u} : mem'[t] = mem[t]
      PROVE  RegisterNext(s) \/ UNCHANGED <<Offer(s), Acked(s), Applied(s)>>
    <2>1. CASE u = s
        BY <1>1, <1>3, <2>1, OwnMove, SideFacts
    <2>2. CASE u = Peer(s)
        BY <1>1, <1>3, <2>2, PeersMove, SideFacts
    <2> QED
        BY <2>1, <2>2, SideFacts
<1> QED
    BY <1>1, <1>2, <1>3, StoreMoves

\* The register's three variables are made of the two memories.
LEMMA TransferIsRegister ==
    ASSUME NEW s \in Sides
    PROVE  /\ Transfer(s).offer = Offer(s) /\ Transfer(s).acked = Acked(s)
           /\ Transfer(s).applied = Applied(s)
BY DEF Transfer, Offer, Acked, Applied

\* The same of the next state.
LEMMA TransferIsRegisterNext ==
    ASSUME NEW s \in Sides
    PROVE  /\ Transfer(s).offer' = Offer(s)' /\ Transfer(s).acked' = Acked(s)'
           /\ Transfer(s).applied' = Applied(s)'
BY DEF Transfer, Offer, Acked, Applied

\* Steps towards the phone are steps of the register.
LEMMA ToPhoneStep ==
    /\ RegisterNext("note4") => ToPhone!Next
    /\ UNCHANGED <<Offer("note4"), Acked("note4"), Applied("note4")>> => UNCHANGED ToPhone!vars
<1> DEFINE s == "note4"
<1>1. /\ Transfer(s).offer = Offer(s) /\ Transfer(s).offer' = Offer(s)'
      /\ Transfer(s).acked = Acked(s) /\ Transfer(s).acked' = Acked(s)'
      /\ Transfer(s).applied = Applied(s) /\ Transfer(s).applied' = Applied(s)'
    BY TransferIsRegister, TransferIsRegisterNext, SideFacts
<1>2. /\ ToPhone!Revisions = Revisions /\ ToPhone!NoOffer = [rev |-> 0, val |-> NoValue]
      /\ \A a, b : ToPhone!Higher(a, b) = Higher(a, b)
    BY DEF ToPhone!Revisions, Revisions, ToPhone!NoOffer, ToPhone!Higher, Higher
<1>3. ASSUME RegisterRetires(s) PROVE ToPhone!Retires
    <2>1. PICK a \in [Keys -> Revisions] :
            /\ \A k \in Keys : Acked(s)[k] <= a[k] /\ a[k] <= Higher(Acked(s)[k], Applied(s)[k].rev)
            /\ Acked(s)' = a
            /\ Offer(s)' = [k \in Keys |-> IF Offer(s)[k].rev <= a[k]
                                           THEN [rev |-> 0, val |-> NoValue] ELSE Offer(s)[k]]
        BY <1>3 DEF RegisterRetires
    <2>2. \A k \in Keys : /\ Transfer(s).acked[k] <= a[k]
                          /\ a[k] <= ToPhone!Higher(Transfer(s).acked[k], Transfer(s).applied[k].rev)
        BY <1>1, <1>2, <2>1
    <2>3. Transfer(s).acked' = a
        BY <1>1, <2>1
    <2>4. Transfer(s).offer' = [k \in Keys |-> IF Transfer(s).offer[k].rev <= a[k]
                                             THEN ToPhone!NoOffer ELSE Transfer(s).offer[k]]
        BY <1>1, <1>2, <2>1
    <2>5. UNCHANGED Transfer(s).applied
        BY <1>1, <1>3 DEF RegisterRetires
    <2> QED
        BY <1>2, <2>2, <2>3, <2>4, <2>5 DEF ToPhone!Retires
<1>4. \A k \in Keys : RegisterOffers(s, k) => ToPhone!Offers(k)
    BY <1>1, <1>2 DEF RegisterOffers, ToPhone!Offers
<1>5. \A k \in Keys : RegisterApplies(s, k) => ToPhone!Applies(k)
    BY <1>1, <1>2 DEF RegisterApplies, ToPhone!Applies
<1>6. UNCHANGED <<Offer(s), Acked(s), Applied(s)>> => UNCHANGED ToPhone!vars
    BY <1>1 DEF ToPhone!vars
<1> QED
    BY <1>3, <1>4, <1>5, <1>6 DEF RegisterNext, ToPhone!Next

\* So are those towards the Note4.
LEMMA ToNote4Step ==
    /\ RegisterNext("phone") => ToNote4!Next
    /\ UNCHANGED <<Offer("phone"), Acked("phone"), Applied("phone")>> => UNCHANGED ToNote4!vars
<1> DEFINE s == "phone"
<1>1. /\ Transfer(s).offer = Offer(s) /\ Transfer(s).offer' = Offer(s)'
      /\ Transfer(s).acked = Acked(s) /\ Transfer(s).acked' = Acked(s)'
      /\ Transfer(s).applied = Applied(s) /\ Transfer(s).applied' = Applied(s)'
    BY TransferIsRegister, TransferIsRegisterNext, SideFacts
<1>2. /\ ToNote4!Revisions = Revisions /\ ToNote4!NoOffer = [rev |-> 0, val |-> NoValue]
      /\ \A a, b : ToNote4!Higher(a, b) = Higher(a, b)
    BY DEF ToNote4!Revisions, Revisions, ToNote4!NoOffer, ToNote4!Higher, Higher
<1>3. ASSUME RegisterRetires(s) PROVE ToNote4!Retires
    <2>1. PICK a \in [Keys -> Revisions] :
            /\ \A k \in Keys : Acked(s)[k] <= a[k] /\ a[k] <= Higher(Acked(s)[k], Applied(s)[k].rev)
            /\ Acked(s)' = a
            /\ Offer(s)' = [k \in Keys |-> IF Offer(s)[k].rev <= a[k]
                                           THEN [rev |-> 0, val |-> NoValue] ELSE Offer(s)[k]]
        BY <1>3 DEF RegisterRetires
    <2>2. \A k \in Keys : /\ Transfer(s).acked[k] <= a[k]
                          /\ a[k] <= ToNote4!Higher(Transfer(s).acked[k], Transfer(s).applied[k].rev)
        BY <1>1, <1>2, <2>1
    <2>3. Transfer(s).acked' = a
        BY <1>1, <2>1
    <2>4. Transfer(s).offer' = [k \in Keys |-> IF Transfer(s).offer[k].rev <= a[k]
                                             THEN ToNote4!NoOffer ELSE Transfer(s).offer[k]]
        BY <1>1, <1>2, <2>1
    <2>5. UNCHANGED Transfer(s).applied
        BY <1>1, <1>3 DEF RegisterRetires
    <2> QED
        BY <1>2, <2>2, <2>3, <2>4, <2>5 DEF ToNote4!Retires
<1>4. \A k \in Keys : RegisterOffers(s, k) => ToNote4!Offers(k)
    BY <1>1, <1>2 DEF RegisterOffers, ToNote4!Offers
<1>5. \A k \in Keys : RegisterApplies(s, k) => ToNote4!Applies(k)
    BY <1>1, <1>2 DEF RegisterApplies, ToNote4!Applies
<1>6. UNCHANGED <<Offer(s), Acked(s), Applied(s)>> => UNCHANGED ToNote4!vars
    BY <1>1 DEF ToNote4!vars
<1> QED
    BY <1>3, <1>4, <1>5, <1>6 DEF RegisterNext, ToNote4!Next

\* Both together.
LEMMA TransferStep ==
    ASSUME FullInv, [Next]_vars
    PROVE  /\ forgot' \/ ToPhone!Next \/ UNCHANGED ToPhone!vars
           /\ forgot' \/ ToNote4!Next \/ UNCHANGED ToNote4!vars
<1>1. CASE Paired /\ UNCHANGED forgot /\ ~forgot
    <2>1. \A s \in Sides : RegisterNext(s) \/ UNCHANGED <<Offer(s), Acked(s), Applied(s)>>
        BY <1>1, PairedGood, RegisterMoves
    <2> QED
        BY <2>1, ToPhoneStep, ToNote4Step, SideFacts
<1>2. CASE Paired /\ UNCHANGED forgot /\ forgot
    BY <1>2
<1>3. CASE ForgetPeer
    BY <1>3 DEF ForgetPeer
<1>4. CASE UNCHANGED vars
    BY <1>4 DEF vars, ToPhone!vars, ToNote4!vars, Transfer
<1> QED
    BY <1>1, <1>2, <1>3, <1>4 DEF Next

\* Empty stores are an empty register.
LEMMA TransferInit == Init => ToPhone!Init /\ ToNote4!Init
BY SideFacts DEF Init, Empty, NoEntry, Transfer, ToPhone!Init, ToPhone!NoOffer, ToNote4!Init, ToNote4!NoOffer

\* Each direction implements the register of DurableTransfer: sessions, losses,
\* retries, failed saves and restarts of both sides are invisible to the owners
\* of the data, until the Note4 forgets the phone.
THEOREM ImplementsTransfer == Spec => IsTransfer
<1>1. FullInv /\ [Next]_vars =>
        /\ [forgot' \/ ToPhone!Next]_(ToPhone!vars)
        /\ [forgot' \/ ToNote4!Next]_(ToNote4!vars)
    BY TransferStep
<1> QED
    BY <1>1, TransferInit, AlwaysFull, PTL DEF Spec, IsTransfer

-----------------------------------------------------------------------------
(* Two sessions at work agree on the replay window, whatever was erased     *)
(* before: the handshake that let them start compared their cursors, and no *)
(* frame from before that handshake is ever taken by one of them.           *)

\* Both may take part: on a link the Note4 accepted a Hello.
Bound == link /\ sess["note4"].status # "disconnected"

\* What the phone takes comes after the answer to its Hello.
Fresh(t, i) ==
    \/ t = "note4"
    \/ sess["phone"].status # "hello"
    \/ \E j \in 1..Len(air["phone"]) : j < i /\ air["phone"][j].type = "helloack"

FreshFrames(t) == {air[t][i] : i \in {j \in 1..Len(air[t]) : Fresh(t, j)}}
FreshStates(s) == {f \in FreshFrames(Peer(s)) \cup sess[s].out : f.type = "state"}
FreshAcks(s) ==
    {f \in FreshFrames(s) \cup sess[Peer(s)].reply : f.type = "reply" /\ f.result = "accepted"}

Refused == \E f \in Flying("phone") : f.type = "rejected"

WindowAgrees ==
    \A s \in Sides, k \in Keys : /\ mem[s][k].ack <= mem[Peer(s)][k].app
                                 /\ mem[Peer(s)][k].app <= Known(mem[s][k])

AgreedInv ==
    /\ WindowAgrees
    /\ \A s \in Sides :
        /\ \A f \in FreshStates(s) : f.rev <= Known(mem[s][f.key])
        /\ \A f \in FreshAcks(s) : f.rev <= mem[Peer(s)][f.key].app

BoundInv ==
    /\ Refused => sess["note4"].status = "disconnected"
    /\ Bound => AgreedInv

\* What a step may do to two sides that agree.
MovesWithin(s, new) ==
    \/ Retired(mem[s], new) /\ \A k \in Keys : new[k].ack <= mem[Peer(s)][k].app
    \/ \E k \in Keys, r \in Revisions \ {0}, v \in Values : Enqueued(mem[s], new, k, r, v)
    \/ \E k \in Keys, r \in Revisions \ {0}, v \in Values :
            Received(mem[s], new, k, r, v) /\ r <= Known(mem[Peer(s)][k])

StoreAgrees ==
    \/ mem' = mem
    \/ \E s \in Sides, new \in EngineState :
            Kept(new) /\ MovesWithin(s, new) /\ mem' = [mem EXCEPT ![s] = new]

FramesAgree ==
    \A s \in Sides :
        /\ \A f \in FreshStates(s)' : f \in FreshStates(s) \/ f.rev <= Known(mem[s][f.key])
        /\ \A f \in FreshAcks(s)' : f \in FreshAcks(s) \/ f.rev <= mem'[Peer(s)][f.key].app

\* Fresh frames fly.
LEMMA FreshFly ==
    ASSUME Types, NEW s \in Sides
    PROVE  /\ FreshFrames(s) \subseteq Flying(s)
           /\ FreshStates(s) \subseteq StatesOf(s) /\ FreshAcks(s) \subseteq AcksTo(s)
BY SideFacts DEF FreshFrames, Flying, Elems, FreshStates, FreshAcks, StatesOf, AcksTo

\* The same of the next state.
LEMMA FreshFlyNext ==
    ASSUME Types', NEW s \in Sides
    PROVE  /\ FreshFrames(s)' \subseteq Flying(s)'
           /\ FreshStates(s)' \subseteq StatesOf(s)' /\ FreshAcks(s)' \subseteq AcksTo(s)'
BY SideFacts DEF FreshFrames, Flying, Elems, FreshStates, FreshAcks, StatesOf, AcksTo

\* What a step within the window may do to the numbers of a side.
LEMMA StoresGrow ==
    ASSUME FullInv, Types', StoreAgrees
    PROVE  \A s \in Sides, k \in Keys :
             /\ KeyNumbers(mem[s][k]) /\ KeyNumbers(mem'[s][k])
             /\ Known(mem[s][k]) \in Nat /\ Known(mem'[s][k]) \in Nat
             /\ mem[s][k].app <= mem'[s][k].app /\ Known(mem[s][k]) <= Known(mem'[s][k])
<1> SUFFICES ASSUME NEW s \in Sides, NEW k \in Keys
             PROVE  /\ KeyNumbers(mem[s][k]) /\ KeyNumbers(mem'[s][k])
                    /\ Known(mem[s][k]) \in Nat /\ Known(mem'[s][k]) \in Nat
                    /\ mem[s][k].app <= mem'[s][k].app /\ Known(mem[s][k]) <= Known(mem'[s][k])
    OBVIOUS
<1>0. /\ KeyNumbers(mem[s][k]) /\ KeyNumbers(mem'[s][k])
      /\ Known(mem[s][k]) \in Nat /\ Known(mem'[s][k]) \in Nat
    <2>1. mem[s] \in EngineState /\ mem'[s] \in EngineState
        BY DEF FullInv, Types
    <2> QED
        BY <2>1, StateNumbers, KnownIsHigher DEF KeyNumbers
<1>1. CASE mem'[s] = mem[s]
    BY <1>0, <1>1 DEF KeyNumbers
<1>2. ASSUME NEW new \in EngineState, Kept(new), MovesWithin(s, new), mem'[s] = new
      PROVE  mem[s][k].app <= mem'[s][k].app /\ Known(mem[s][k]) <= Known(mem'[s][k])
    <2>1. mem[s] \in EngineState /\ Kept(mem[s])
        BY DEF FullInv, Types, DataInv, StoresInv
    <2>2. Ahead(mem[s], new)
        BY <1>2 DEF MovesWithin, Ahead
    <2> QED
        BY <1>2, <2>1, <2>2, AheadCovers
<1>3. \/ mem'[s] = mem[s]
      \/ \E new \in EngineState : Kept(new) /\ MovesWithin(s, new) /\ mem'[s] = new
    <2>1. CASE mem' = mem
        BY <2>1
    <2>2. ASSUME NEW u \in Sides, NEW new \in EngineState,
                 Kept(new), MovesWithin(u, new), mem' = [mem EXCEPT ![u] = new]
          PROVE  \/ mem'[s] = mem[s]
                 \/ \E n \in EngineState : Kept(n) /\ MovesWithin(s, n) /\ mem'[s] = n
        <3>1. mem'[u] = new /\ (u # s => mem'[s] = mem[s])
            BY <2>2 DEF FullInv, Types
        <3> QED
            BY <2>2, <3>1
    <2> QED
        BY <2>1, <2>2 DEF StoreAgrees
<1> QED
    BY <1>0, <1>1, <1>2, <1>3

\* Such a step keeps the two sides agreed.
LEMMA WindowAgreesStays ==
    ASSUME FullInv, Types', WindowAgrees, StoreAgrees
    PROVE  WindowAgrees'
<1> SUFFICES ASSUME NEW s \in Sides, NEW k \in Keys
             PROVE  mem'[s][k].ack <= mem'[Peer(s)][k].app /\ mem'[Peer(s)][k].app <= Known(mem'[s][k])
    BY DEF WindowAgrees
<1> DEFINE p == Peer(s)
<1>0. p \in Sides /\ p # s /\ Peer(p) = s
    BY SideFacts
<1>1. /\ mem[s][k].ack <= mem[p][k].app /\ mem[p][k].app <= Known(mem[s][k])
      /\ KeyNumbers(mem[s][k]) /\ KeyNumbers(mem[p][k])
      /\ KeyNumbers(mem'[s][k]) /\ KeyNumbers(mem'[p][k])
      /\ Known(mem[s][k]) \in Nat /\ Known(mem'[s][k]) \in Nat
      /\ Known(mem[s][k]) <= Known(mem'[s][k]) /\ mem[p][k].app <= mem'[p][k].app
    BY <1>0, StoresGrow DEF WindowAgrees
<1> HIDE DEF p
<1>2. CASE mem' = mem
    BY <1>1, <1>2 DEF p
<1>3. ASSUME NEW u \in Sides, NEW new \in EngineState,
             Kept(new), MovesWithin(u, new), mem' = [mem EXCEPT ![u] = new]
      PROVE  mem'[s][k].ack <= mem'[p][k].app /\ mem'[p][k].app <= Known(mem'[s][k])
    <2>1. mem'[u] = new /\ \A t \in Sides \ {u} : mem'[t] = mem[t]
        BY <1>3 DEF FullInv, Types
    <2>2. CASE u = s
        <3>1. mem'[p] = mem[p]
            BY <1>0, <2>1, <2>2
        <3>2. mem'[s][k].ack <= mem[p][k].app
            BY <1>1, <1>3, <2>1, <2>2, <3>1 DEF MovesWithin, Enqueued, Received, p
        <3> QED
            BY <1>1, <3>1, <3>2 DEF KeyNumbers
    <2>3. CASE u = p
        <3>1. mem'[s] = mem[s]
            BY <1>0, <2>1, <2>3
        <3>2. mem'[p][k].app = mem[p][k].app \/ mem'[p][k].app <= Known(mem[s][k])
            BY <1>0, <1>3, <2>1, <2>3 DEF MovesWithin, Retired, Enqueued, Received
        <3> QED
            BY <1>1, <3>1, <3>2 DEF KeyNumbers
    <2> QED
        BY <1>0, <2>2, <2>3, SideFacts DEF p
<1> QED
    BY <1>2, <1>3 DEF StoreAgrees, p

\* And the fresh frames with them.
LEMMA AgreedStays ==
    ASSUME FullInv, Types', AgreedInv, StoreAgrees, FramesAgree
    PROVE  AgreedInv'
<1>1. WindowAgrees'
    BY WindowAgreesStays DEF AgreedInv
<1>2. ASSUME NEW s \in Sides, NEW f \in FreshStates(s)'
      PROVE  f.rev <= Known(mem'[s][f.key])
    <2>1. f.key \in Keys /\ f.rev \in Nat
        BY FreshFlyNext, FrameSetsNext, RevisionFacts DEF StateFrames
    <2>2. f.rev <= Known(mem[s][f.key])
        BY <1>2 DEF AgreedInv, FramesAgree
    <2> QED
        BY StoresGrow, <2>1, <2>2
<1>3. ASSUME NEW s \in Sides, NEW f \in FreshAcks(s)'
      PROVE  f.rev <= mem'[Peer(s)][f.key].app
    <2>0. f \in ReplyFrames /\ Peer(s) \in Sides
        BY <1>3, FreshFlyNext, FrameSetsNext, SideFacts
    <2>1. f.key \in Keys /\ f.rev \in Nat /\ Peer(s) \in Sides
        BY <2>0, RevisionFacts DEF ReplyFrames
    <2>2. f.rev <= mem[Peer(s)][f.key].app \/ f.rev <= mem'[Peer(s)][f.key].app
        BY <1>3 DEF AgreedInv, FramesAgree
    <2> QED
        BY StoresGrow, <2>1, <2>2 DEF KeyNumbers
<1> QED
    BY <1>1, <1>2, <1>3 DEF AgreedInv

\* Taking and sending a frame leaves the others as fresh as they were.
LEMMA FreshTaken ==
    ASSUME Types, NEW s \in Sides, air[s] # <<>>, Take(s),
           sess'["phone"].status # "hello" => sess["phone"].status # "hello"
    PROVE  \A t \in Sides : FreshFrames(t)' \subseteq FreshFrames(t)
<1> SUFFICES ASSUME NEW t \in Sides, NEW i \in 1..Len(air'[t]), Fresh(t, i)'
             PROVE  air'[t][i] \in FreshFrames(t)
    BY DEF FreshFrames
<1>1. CASE t = s
    <2>1. i + 1 \in 1..Len(air[s]) /\ air'[s][i] = air[s][i + 1]
        BY <1>1, TakeFacts
    <2>2. Fresh(s, i + 1)
        <3>1. CASE \E j \in 1..Len(air'["phone"]) : j < i /\ air'["phone"][j].type = "helloack"
            <4>1. PICK j \in 1..Len(air'["phone"]) : j < i /\ air'["phone"][j].type = "helloack"
                BY <3>1
            <4>2. CASE s = "phone"
                <5>1. j + 1 \in 1..Len(air[s]) /\ air[s][j + 1].type = "helloack"
                    BY <4>1, <4>2, TakeFacts
                <5>2. j + 1 < i + 1
                    BY <4>1, <4>2, TakeFacts, FlyingFacts
                <5> QED
                    BY <4>2, <5>1, <5>2 DEF Fresh
            <4> QED
                BY <4>2 DEF Fresh, Sides
        <3> QED
            BY <1>1, <3>1 DEF Fresh
    <2> QED
        BY <1>1, <2>1, <2>2 DEF FreshFrames
<1>2. CASE t # s
    <2>1. air'[t] = air[t]
        BY <1>2, TakeFacts
    <2>2. Fresh(t, i)
        BY <1>2, <2>1 DEF Fresh, Sides
    <2> QED
        BY <2>1, <2>2 DEF FreshFrames
<1> QED
    BY <1>1, <1>2

\* A frame sent is the only one that becomes fresh.
LEMMA FreshSent ==
    ASSUME Types, NEW s \in Sides, NEW f \in Frame, f.type # "helloack", Send(s, f),
           sess'["phone"].status # "hello" => sess["phone"].status # "hello"
    PROVE  /\ FreshFrames(s)' \subseteq FreshFrames(s)
           /\ FreshFrames(Peer(s))' \subseteq FreshFrames(Peer(s)) \cup {f}
<1> DEFINE p == Peer(s)
<1>0. p \in Sides /\ p # s /\ Len(air[p]) \in Nat
    BY SideFacts, FlyingFacts
<1>1. /\ Len(air'[p]) = Len(air[p]) + 1 /\ air'[s] = air[s]
      /\ \A i \in 1..Len(air[p]) : air'[p][i] = air[p][i]
      /\ air'[p][Len(air[p]) + 1] = f
    BY SendFacts
<1> HIDE DEF p
<1>2. ASSUME NEW t \in Sides, NEW i \in 1..Len(air[t]), Fresh(t, i)'
      PROVE  Fresh(t, i)
    <2>1. CASE t = "note4" \/ sess'["phone"].status # "hello"
        BY <2>1 DEF Fresh
    <2>2. ASSUME t = "phone",
                 NEW j \in 1..Len(air'["phone"]), j < i, air'["phone"][j].type = "helloack"
          PROVE  Fresh(t, i)
        <3>1. j \in 1..Len(air["phone"])
            BY <2>2, FlyingFacts
        <3>2. air'["phone"][j] = air["phone"][j]
            BY <1>0, <1>1, <3>1, SideFacts DEF p
        <3> QED
            BY <2>2, <3>1, <3>2 DEF Fresh
    <2> QED
        BY <1>2, <2>1, <2>2 DEF Fresh, Sides
<1>3. FreshFrames(s)' \subseteq FreshFrames(s)
    BY <1>1, <1>2 DEF FreshFrames
<1>4. FreshFrames(p)' \subseteq FreshFrames(p) \cup {f}
    <2> SUFFICES ASSUME NEW i \in 1..Len(air'[p]), Fresh(p, i)'
                 PROVE  air'[p][i] \in FreshFrames(p) \cup {f}
        BY DEF FreshFrames
    <2>1. CASE i \in 1..Len(air[p])
        BY <1>0, <1>1, <1>2, <2>1 DEF FreshFrames
    <2>2. CASE i = Len(air[p]) + 1
        BY <1>1, <2>2
    <2> QED
        BY <1>0, <1>1, <2>1, <2>2
<1> QED
    BY <1>3, <1>4 DEF p

\* Where nothing is sent or taken, nothing becomes fresh.
LEMMA FreshRests ==
    ASSUME Types, air' = air,
           sess'["phone"].status # "hello" => sess["phone"].status # "hello"
    PROVE  \A t \in Sides : FreshFrames(t)' \subseteq FreshFrames(t)
BY DEF FreshFrames, Fresh

\* A step that starts no session.
LEMMA BoundKept ==
    ASSUME FullInv, Types', BoundInv, Steady, link' = link,
           \A f \in Flying("phone")' : f.type = "rejected" => f \in Flying("phone"),
           Bound /\ AgreedInv => StoreAgrees /\ FramesAgree
    PROVE  BoundInv'
<1>1. sess["note4"].status = "disconnected" => sess'["note4"].status = "disconnected"
    BY SideFacts DEF Steady
<1>2. sess'["note4"].status = "disconnected" => sess["note4"].status = "disconnected"
    BY SideFacts DEF Steady
<1>3. Refused' => sess'["note4"].status = "disconnected"
    BY <1>1 DEF BoundInv, Refused
<1>4. Bound' => Bound
    BY <1>1 DEF Bound
<1>5. Bound => AgreedInv'
    BY AgreedStays DEF BoundInv
<1> QED
    BY <1>3, <1>4, <1>5 DEF BoundInv

\* Steps that only take a frame, send what is kept, or end a session.
LEMMA PollsBound ==
    ASSUME FullInv, BoundInv, Types', NEW s \in Sides, NEW f \in Frame, Polls(s, f)
    PROVE  BoundInv'
<1>0. /\ mem' = mem /\ link' = link /\ Steady /\ f.type \in {"state", "reply"}
      /\ Send(s, f) \/ air' = air
    BY DEF Polls
<1>1. sess'["phone"].status # "hello" => sess["phone"].status # "hello"
    BY <1>0, SideFacts DEF Steady
<1>2. /\ FreshFrames(s)' \subseteq FreshFrames(s)
      /\ FreshFrames(Peer(s))' \subseteq FreshFrames(Peer(s)) \cup {f}
    BY <1>0, <1>1, FreshSent, FreshRests, SideFacts DEF FullInv
<1>3. FramesAgree
    <2>1. ASSUME NEW u \in Sides, NEW g \in FreshStates(u)'
          PROVE  g \in FreshStates(u) \/ g.rev <= Known(mem[u][g.key])
        <3>1. CASE u = s /\ g = f
            <4>1. f.type = "state"
                BY <2>1, <3>1 DEF FreshStates
            <4>2. CASE f \in sess[s].out
                BY <3>1, <4>1, <4>2 DEF FreshStates
            <4>3. CASE f.rev = mem[s][f.key].pend
                <5>1. f.key \in Keys
                    BY <4>1, FrameKinds DEF StateFrames
                <5> QED
                    BY <3>1, <4>3, <5>1, SidesNumbers, KnownIsHigher DEF FullInv, KeyNumbers
            <4> QED
                BY <4>1, <4>2, <4>3 DEF Polls
        <3>2. CASE u # s \/ g # f
            BY <1>2, <2>1, <3>2, SideFacts DEF Polls, FreshStates
        <3> QED
            BY <3>1, <3>2
    <2>2. ASSUME NEW u \in Sides, NEW g \in FreshAcks(u)'
          PROVE  g \in FreshAcks(u)
        BY <1>2, <2>2, SideFacts DEF Polls, FreshAcks
    <2> QED
        BY <2>1, <2>2 DEF FramesAgree
<1>4. \A g \in Flying("phone")' : g.type = "rejected" => g \in Flying("phone")
    <2>1. Flying(Peer(s))' \subseteq Flying(Peer(s)) \cup {f} /\ Flying(s)' = Flying(s)
        BY <1>0, SendFacts DEF FullInv, Flying
    <2> QED
        BY <1>0, <2>1, SideFacts
<1> QED
    BY <1>0, <1>3, <1>4, BoundKept DEF StoreAgrees

\* What a step that takes a frame does to fresh frames.
LEMMA BoundTakes ==
    ASSUME FullInv, BoundInv, Types', Steady, link' = link,
           air' = air \/ \E s \in Sides : air[s] # <<>> /\ Take(s),
           Bound /\ AgreedInv => StoreAgrees,
           \A s \in Sides : sess'[s].out \subseteq sess[s].out,
           Bound /\ AgreedInv => \A s \in Sides : \A f \in sess'[s].reply :
                f \in sess[s].reply \/ (f.result = "accepted" => f.rev <= mem'[s][f.key].app)
    PROVE  BoundInv'
<1>1. sess'["phone"].status # "hello" => sess["phone"].status # "hello"
    BY SideFacts DEF Steady
<1>2. \A t \in Sides : FreshFrames(t)' \subseteq FreshFrames(t)
    BY <1>1, FreshTaken, FreshRests DEF FullInv
<1>3. Bound /\ AgreedInv => FramesAgree
    BY <1>2, SideFacts DEF FramesAgree, FreshStates, FreshAcks
<1>4. Flying("phone")' \subseteq Flying("phone")
    BY TakeFewer, SideFacts DEF FullInv, Flying
<1> QED
    BY <1>3, <1>4, BoundKept

\* What a session at work takes is fresh.
LEMMA TakesFresh ==
    ASSUME Types, NEW s \in Sides, Active(s), air[s] # <<>>
    PROVE  Head(air[s]) \in FreshFrames(s)
<1>1. 1 \in 1..Len(air[s]) /\ Head(air[s]) = air[s][1]
    <2>1. air[s] \in Seq(Frame) /\ Len(air[s]) \in Nat \ {0}
        BY FlyingFacts
    <2> QED
        BY <2>1
<1>2. Fresh(s, 1)
    BY DEF Fresh, Active, Sides
<1> QED
    BY <1>1, <1>2 DEF FreshFrames

\* A reply taken keeps bound sides agreed.
LEMMA TakesReplyBound ==
    ASSUME FullInv, BoundInv, Types', NEW s \in Sides, NEW f \in ReplyFrames, TakesReply(s, f)
    PROVE  BoundInv'
<1>1. /\ Active(s) /\ air[s] # <<>> /\ Take(s) /\ UNCHANGED <<owner, link>> /\ Steady
      /\ f = Head(air[s]) /\ f.type = "reply"
      /\ \A u \in Sides : /\ sess'[u].out \subseteq sess[u].out
                          /\ sess'[u].reply \subseteq sess[u].reply
    BY DEF TakesReply
<1>2. ASSUME AgreedInv, NEW new \in EngineState, f.result = "accepted", NEW k \in Keys,
             new[f.key].ack = f.rev, \A j \in Keys \ {f.key} : new[j] = mem[s][j]
      PROVE  new[k].ack <= mem[Peer(s)][k].app
    <2>1. f \in FreshAcks(s)
        BY <1>1, <1>2, TakesFresh DEF FullInv, FreshAcks
    <2>2. f.rev <= mem[Peer(s)][f.key].app
        BY <1>2, <2>1 DEF AgreedInv
    <2>3. mem[s][k].ack <= mem[Peer(s)][k].app
        BY <1>2 DEF AgreedInv, WindowAgrees
    <2> QED
        BY <1>2, <2>2, <2>3
<1>3. AgreedInv => StoreAgrees
    <2>1. CASE mem' = mem
        BY <2>1 DEF StoreAgrees
    <2>2. ASSUME AgreedInv, f.result = "accepted", NEW new \in EngineState, Kept(new),
                 Retired(mem[s], new), mem' = [mem EXCEPT ![s] = new],
                 new[f.key].ack = f.rev, \A j \in Keys \ {f.key} : new[j] = mem[s][j]
          PROVE  StoreAgrees
        <3>1. MovesWithin(s, new)
            BY <1>2, <2>2 DEF MovesWithin
        <3> QED
            BY <2>2, <3>1 DEF StoreAgrees
    <2> QED
        BY <2>1, <2>2 DEF TakesReply, StoresSame, Stored
<1> QED
    BY <1>1, <1>3, BoundTakes

\* An update taken keeps bound sides agreed.
LEMMA TakesStateBound ==
    ASSUME FullInv, BoundInv, Types', NEW s \in Sides, NEW f \in StateFrames, TakesState(s, f)
    PROVE  BoundInv'
<1>1. /\ Active(s) /\ air[s] # <<>> /\ Take(s) /\ UNCHANGED <<owner, link>> /\ Steady
      /\ f = Head(air[s]) /\ f.type = "state"
      /\ \A u \in Sides : sess'[u].out \subseteq sess[u].out
      /\ \A u \in Sides : \A g \in sess'[u].reply :
            \/ g \in sess[u].reply
            \/ u = s /\ (g.result = "accepted" => g.rev <= mem'[s][g.key].app)
    BY DEF TakesState
<1>2. AgreedInv => f.rev <= Known(mem[Peer(s)][f.key])
    <2>1. f \in FreshStates(Peer(s))
        BY <1>1, TakesFresh, SideFacts DEF FullInv, FreshStates
    <2> QED
        BY <2>1, SideFacts DEF AgreedInv
<1>3. AgreedInv => StoreAgrees
    <2>1. CASE mem' = mem
        BY <2>1 DEF StoreAgrees
    <2>2. ASSUME AgreedInv, NEW new \in EngineState, Kept(new),
                 Received(mem[s], new, f.key, f.rev, f.val), mem' = [mem EXCEPT ![s] = new]
          PROVE  StoreAgrees
        <3>1. f.key \in Keys /\ f.rev \in Revisions \ {0} /\ f.val \in Values
            BY DEF StateFrames
        <3>2. MovesWithin(s, new)
            BY <1>2, <2>2, <3>1 DEF MovesWithin
        <3> QED
            BY <2>2, <3>2 DEF StoreAgrees
    <2> QED
        BY <2>1, <2>2 DEF TakesState, StoresSame, Stored
<1> QED
    BY <1>1, <1>3, BoundTakes

\* An update enqueued keeps bound sides agreed.
LEMMA EnqueuesBound ==
    ASSUME FullInv, BoundInv, Types', NEW s \in Sides, Enqueues(s) \/ StoresSame,
           UNCHANGED <<sess, link, air>>
    PROVE  BoundInv'
<1>1. StoreAgrees
    <2>1. CASE mem' = mem
        BY <2>1 DEF StoreAgrees
    <2>2. ASSUME NEW k \in Keys, NEW r \in Revisions \ {0}, NEW v \in Values, NEW new \in EngineState,
                 Kept(new), Enqueued(mem[s], new, k, r, v), mem' = [mem EXCEPT ![s] = new]
          PROVE  StoreAgrees
        BY <2>2 DEF StoreAgrees, MovesWithin
    <2> QED
        BY <2>1, <2>2 DEF Enqueues, StoresSame, Stored
<1> QED
    BY <1>1, BoundTakes DEF Steady

\* Steps that leave no link, or leave the Note4 without a session.
LEMMA UnboundKept ==
    ASSUME FullInv, ~link' \/ sess'["note4"].status = "disconnected",
           Flying("phone")' = {} \/ (~link /\ air'["phone"] = air["phone"])
    PROVE  BoundInv'
<1>1. ~Bound'
    BY DEF Bound
<1>2. ~Refused'
    <2>1. ~link => ~Refused
        BY DEF FullInv, HandshakeInv, GreetingInv, Refused, Greeted, Greeting
    <2> QED
        BY <2>1 DEF Refused, Flying
<1> QED
    BY <1>1, <1>2 DEF BoundInv

\* With the link down nobody is bound.
LEMMA DownBound ==
    ASSUME FullInv, Down
    PROVE  BoundInv'
<1>1. link' = FALSE /\ Flying("phone")' = {}
    BY DownFacts, SideFacts DEF FullInv, Down
<1> QED
    BY <1>1, UnboundKept

\* Cursors that were told and are accepted show two sides that agree, and what
\* they retire keeps it so.
LEMMA AcceptedAgrees ==
    ASSUME FullInv, NEW s \in Sides, NEW c \in [Keys -> Cursor], Told(Peer(s), c),
           ReconcileStatus(s, c) = "Ok"
    PROVE  /\ WindowAgrees
           /\ LET new == Reconciled(mem[s], c)
              IN  new \in EngineState /\ Kept(new) /\ MovesWithin(s, new)
<1> DEFINE e == mem[s]
           p == mem[Peer(s)]
           new == Reconciled(e, c)
<1>1. /\ e \in EngineState /\ Kept(e) /\ Peer(s) \in Sides /\ Peer(Peer(s)) = s
      /\ p \in EngineState
    BY SideFacts DEF FullInv, Types, DataInv, StoresInv
<1>2. ASSUME NEW k \in Keys
      PROVE  /\ e[k].ack <= c[k].app /\ c[k].app <= Known(e[k])
             /\ c[k].ack <= e[k].app /\ e[k].app <= Known(p[k])
             /\ c[k].app = p[k].app /\ c[k].ack = p[k].ack
    <2>1. AllCompatible(e, c)
        BY ReconcileAnswers
    <2>2. /\ CursorsOf(e)[k].ack = e[k].ack /\ CursorsOf(e)[k].app = e[k].app
          /\ Known(CursorsOf(e)[k]) = Known(e[k])
        BY <1>1, CursorsTold
    <2>3. /\ KeyNumbers(e[k]) /\ KeyNumbers(p[k]) /\ Known(e[k]) \in Nat /\ Known(p[k]) \in Nat
          /\ c[k] \in Cursor /\ c[k].ack \in Nat /\ c[k].app \in Nat /\ c[k].pend \in Nat
        BY <1>1, SidesNumbers, RevisionFacts DEF FullInv, Cursor
    <2>4. Compatible(CursorsOf(e)[k], c[k])
        BY <2>1 DEF AllCompatible
    <2>5. /\ c[k].app >= CursorsOf(e)[k].ack /\ c[k].app <= Known(CursorsOf(e)[k])
          /\ CursorsOf(e)[k].app >= c[k].ack /\ CursorsOf(e)[k].app <= Known(c[k])
        BY <2>4 DEF Compatible, InWindow, Known
    <2>6. c[k].app = p[k].app /\ c[k].ack = p[k].ack /\ Known(c[k]) <= Known(p[k])
        BY DEF Told
    <2>7. Known(c[k]) \in Nat
        BY <2>3, KnownIsHigher
    <2> HIDE DEF e, p
    <2> QED
        BY <2>2, <2>3, <2>5, <2>6, <2>7 DEF KeyNumbers
<1>3. WindowAgrees
    <2> SUFFICES ASSUME NEW t \in Sides, NEW k \in Keys
                 PROVE  mem[t][k].ack <= mem[Peer(t)][k].app /\ mem[Peer(t)][k].app <= Known(mem[t][k])
        BY DEF WindowAgrees
    <2>1. t = s \/ t = Peer(s)
        BY SideFacts
    <2> QED
        BY <1>1, <1>2, <2>1
<1>4. /\ new \in EngineState /\ Kept(new) /\ Retired(e, new)
      /\ \A k \in Keys : new[k].ack <= c[k].app
    BY <1>1, <1>2, ReconcileRetires
<1> HIDE DEF new
<1>5. MovesWithin(s, new)
    BY <1>2, <1>4 DEF MovesWithin
<1> QED
    BY <1>3, <1>4, <1>5 DEF new

\* A connection begins unbound.
LEMMA ConnectBound ==
    ASSUME FullInv, Connect
    PROVE  BoundInv'
<1>1. /\ ~link /\ sess["note4"].status = "disconnected" /\ air'["phone"] = air["phone"]
      /\ Session("phone", [sess["phone"] EXCEPT !.status = "hello"])
    BY SideFacts DEF Connect, FullInv, Types
<1>2. sess'["note4"] = sess["note4"]
    BY <1>1, SideFacts DEF Session, FullInv, Types
<1> QED
    BY <1>1, <1>2, UnboundKept

\* A Hello the Note4 accepts makes the sides agree; one it refuses, unbound.
LEMMA ReceiveHelloBound ==
    ASSUME FullInv, BoundInv, Types', ReceiveHello
    PROVE  BoundInv'
<1> USE DEF FullInv
<1> DEFINE s == "note4"
           h == Head(air[s])
           c == h.cursors
           new == Reconciled(mem[s], c)
           ok == ReconcileStatus(s, c) = "Ok"
<1>1. /\ air[s] # <<>> /\ h.type = "hello" /\ link' = link
      /\ \/ /\ ok
            /\ (new = mem[s] /\ StoresSame) \/ Saved(s, new)
            /\ Session(s, Started(s, c, 1))
            /\ TakeAndSend(s, HelloAck(CursorsOf(new)))
         \/ /\ Session(s, Disconnected(s))
            /\ TakeAndSend(s, Rejected)
    BY DEF ReceiveHello, NothingSaved, StoresSame
<1>2. h \in Flying(s) /\ h \in Greetings /\ c \in [Keys -> Cursor]
    <2>1. h \in Flying(s) /\ h \in Frame
        BY <1>1, ElemsOfTail, FlyingFacts, SideFacts DEF Flying, Types
    <2> QED
        BY <1>1, <2>1, FrameKinds DEF Greetings
<1>3. /\ Len(air[s]) = 1 /\ link /\ ~Greeted
      /\ sess["phone"].status = "hello" /\ sess[s].status = "disconnected"
    BY <1>1, <1>2 DEF HandshakeInv, HelloInv
<1>4. Told("phone", c)
    BY <1>1, <1>2, SideFacts DEF CursorInv, Cursors
<1>5. ok => WindowAgrees /\ new \in EngineState /\ Kept(new) /\ MovesWithin(s, new)
    BY <1>2, <1>4, AcceptedAgrees, SideFacts
<1> HIDE DEF c, new, ok
<1>6. CASE /\ ok
           /\ (new = mem[s] /\ StoresSame) \/ Saved(s, new)
           /\ Session(s, Started(s, c, 1))
           /\ TakeAndSend(s, HelloAck(CursorsOf(new)))
    <2> DEFINE f == HelloAck(CursorsOf(new))
    <2>1. StoreAgrees
        BY <1>5, <1>6, SideFacts DEF StoreAgrees, StoresSame, Saved
    <2>2. WindowAgrees'
        BY <1>5, <1>6, <2>1, WindowAgreesStays
    <2>3. f \in Frame /\ f.type = "helloack"
        <3>1. CursorsOf(new) \in [Keys -> Cursor]
            BY <1>5, <1>6, CursorsTold
        <3> QED
            BY <3>1, FramesMade DEF HelloAck
    <2> HIDE DEF f
    <2>4. /\ Flying(s)' = {} /\ Flying("phone")' = Flying("phone") \cup {f}
          /\ Len(air["phone"]) \in Nat /\ Len(air'["phone"]) = Len(air["phone"]) + 1
          /\ \A i \in 1..Len(air["phone"]) : air'["phone"][i] = air["phone"][i]
          /\ air'["phone"][Len(air["phone"]) + 1] = f
        BY <1>3, <1>6, <2>3, TakeAndSendFacts DEF f
    <2>5. /\ sess'["phone"] = sess["phone"] /\ sess'[s].out = {} /\ sess'[s].reply = {}
        <3>1. PICK x \in Sessions : Session(s, x) /\ x.out = {} /\ x.reply = {}
            BY <1>2, <1>6, StartedIsSession, SideFacts
        <3> QED
            BY <3>1, SessionFacts, SideFacts
    <2>6. \A i \in 1..Len(air'["phone"]) : ~Fresh("phone", i)'
        <3> SUFFICES ASSUME NEW j \in 1..Len(air'["phone"]), air'["phone"][j].type = "helloack"
                     PROVE  j = Len(air'["phone"])
            BY <1>3, <2>4, <2>5, SideFacts DEF Fresh
        <3>1. \A i \in 1..Len(air["phone"]) : air["phone"][i].type # "helloack"
            BY <1>3 DEF Greeted, Greeting, Flying, Elems
        <3> QED
            BY <2>4, <3>1, SMTT(30)
    <2>7. FreshFrames("phone")' = {}
        BY <2>6 DEF FreshFrames
    <2>8. FreshFrames("note4")' = {}
        BY <2>4, FreshFlyNext, SideFacts
    <2>9. \A u \in Sides : sess'[u].out = {} /\ sess'[u].reply = {}
        BY <1>3, <2>5, SideFacts DEF Sides, HandshakeInv, QuietInv
    <2>10. AgreedInv'
        BY <2>2, <2>7, <2>8, <2>9, SideFacts DEF Sides, AgreedInv, FreshStates, FreshAcks
    <2>11. ~Refused'
        BY <1>3, <2>3, <2>4 DEF Refused, Greeted, Greeting
    <2> QED
        BY <2>10, <2>11 DEF BoundInv
<1>7. CASE Session(s, Disconnected(s))
    <2>1. sess'[s].status = "disconnected"
        BY <1>7, DisconnectedIsSession, SessionFacts, SideFacts
    <2> QED
        BY <2>1 DEF BoundInv, Bound
<1> QED
    BY <1>1, <1>6, <1>7

\* The answer the phone accepts keeps them agreed.
LEMMA ReceiveHelloAckBound ==
    ASSUME FullInv, BoundInv, Types', ReceiveHelloAck
    PROVE  BoundInv'
<1> USE DEF FullInv
<1> DEFINE s == "phone"
           h == Head(air[s])
           c == h.cursors
           new == Reconciled(mem[s], c)
           ok == ReconcileStatus(s, c) = "Ok"
<1>1. /\ sess[s].status = "hello" /\ air[s] # <<>> /\ Greeting(h) /\ Take(s) /\ link' = link
      /\ \/ StoresSame
         \/ h.type = "helloack" /\ ok /\ (Saved(s, new) \/ SaveFailed(s, new))
      /\ \/ \E st \in {"protocol_error", "store_error"} : Fails(s, st)
         \/ h.type = "helloack" /\ Session(s, Started(s, c, 0))
    BY DEF ReceiveHelloAck, NothingSaved, StoresSame, Greeting
<1>2. /\ h \in Flying(s)
      /\ h.type = "helloack" => c \in [Keys -> Cursor]
    <2>1. h \in Flying(s) /\ h \in Frame
        BY <1>1, TakeFacts, SideFacts
    <2> QED
        BY <2>1, FrameKinds DEF Greetings
<1>3. Greeted /\ air["note4"] = <<>> /\ Flying("note4") = {}
    BY <1>1, <1>2, FlyingFacts, SideFacts DEF Greeted, HandshakeInv, GreetingInv
<1>4. /\ sess'["note4"] = sess["note4"]
      /\ sess'[s].out \subseteq sess[s].out /\ sess'[s].reply \subseteq sess[s].reply
    <2>1. CASE \E st \in {"protocol_error", "store_error"} : Fails(s, st)
        BY <2>1, FailsFacts, SideFacts
    <2>2. CASE h.type = "helloack" /\ Session(s, Started(s, c, 0))
        <3>1. PICK x \in Sessions : Session(s, x) /\ x.out = {} /\ x.reply = {} /\ x.status = "active"
            BY <1>2, <2>2, StartedIsSession, SideFacts
        <3> QED
            BY <3>1, SessionFacts, SideFacts
    <2> QED
        BY <1>1, <2>1, <2>2
<1>5. Flying(s)' \subseteq Flying(s) /\ Flying("note4")' = {} /\ air'["note4"] = <<>>
    BY <1>1, <1>3, TakeFacts, SideFacts
<1>6. Refused' => sess'["note4"].status = "disconnected"
    BY <1>4, <1>5 DEF Refused, BoundInv
<1>7. Bound' => Bound
    BY <1>1, <1>4 DEF Bound
<1>8. CASE h.type = "rejected"
    <2>1. ~Bound
        BY <1>2, <1>8 DEF BoundInv, Refused, Bound
    <2> QED
        BY <1>6, <1>7, <2>1 DEF BoundInv
<1>9. CASE h.type = "helloack"
    <2>1. FreshFrames(s)' \subseteq FreshFrames(s)
        <3> SUFFICES ASSUME NEW i \in 1..Len(air'[s])
                     PROVE  air'[s][i] \in FreshFrames(s)
            BY DEF FreshFrames
        <3>1. i + 1 \in 1..Len(air[s]) /\ air'[s][i] = air[s][i + 1] /\ Len(air[s]) \in Nat \ {0}
            BY <1>1, TakeFacts, SideFacts
        <3>2. 1 \in 1..Len(air[s]) /\ 1 < i + 1 /\ air[s][1].type = "helloack"
            BY <1>1, <1>9, <3>1
        <3>3. Fresh(s, i + 1)
            BY <3>1, <3>2 DEF Fresh
        <3> QED
            BY <3>1, <3>3 DEF FreshFrames
    <2>2. FreshFrames("note4")' = {}
        BY <1>5, FreshFlyNext, SideFacts
    <2>3. FramesAgree
        BY <1>4, <2>1, <2>2, SideFacts DEF Sides, FramesAgree, FreshStates, FreshAcks
    <2>4. StoreAgrees
        <3>1. CASE StoresSame
            BY <3>1 DEF StoresSame, StoreAgrees
        <3>2. CASE ok /\ (Saved(s, new) \/ SaveFailed(s, new))
            <4>1. Told("note4", c)
                BY <1>2, <1>9, SideFacts DEF CursorInv, Cursors
            <4>2. new \in EngineState /\ Kept(new) /\ MovesWithin(s, new)
                BY <1>2, <1>9, <3>2, <4>1, AcceptedAgrees, SideFacts
            <4>3. mem' = mem \/ mem' = [mem EXCEPT ![s] = new]
                BY <3>2 DEF Saved, SaveFailed
            <4> HIDE DEF new
            <4> QED
                BY <4>2, <4>3, SideFacts DEF StoreAgrees
        <3> QED
            BY <1>1, <3>1, <3>2
    <2>5. Bound => AgreedInv'
        BY <2>3, <2>4, AgreedStays DEF BoundInv
    <2> QED
        BY <1>6, <1>7, <2>5 DEF BoundInv
<1> QED
    BY <1>1, <1>8, <1>9 DEF Greeting

\* No link, nobody bound.
LEMMA InitBound == Init => BoundInv
<1>1. Init => ~Bound /\ Flying("phone") = {}
    <2>1. Elems(<<>>) = {}
        BY DEF Elems
    <2> QED
        BY <2>1, SideFacts DEF Init, Bound, NoFrames, Flying
<1> QED
    BY <1>1 DEF BoundInv, Refused

\* Noticing that the link is gone leaves nobody bound.
LEMMA NoticeBound ==
    ASSUME FullInv, NEW s \in Sides, NoticeDisconnect(s)
    PROVE  BoundInv'
BY UnboundKept DEF NoticeDisconnect

\* The Note4 forgets with its session down: nobody is bound.
LEMMA ForgetBound ==
    ASSUME FullInv, ForgetPeer
    PROVE  BoundInv'
BY UnboundKept DEF ForgetPeer

\* Steps of a session that send nothing and keep their store.
LEMMA RestsBound ==
    ASSUME FullInv, BoundInv, Types', NEW s \in Sides, PollTimeout(s) \/ Lose(s) \/ Ignore(s)
    PROVE  BoundInv'
<1>1. CASE PollTimeout(s)
    <2>1. Active(s) /\ UNCHANGED <<mem, link, air>>
        BY <1>1 DEF PollTimeout
    <2>2. /\ sess'[s].status = "timeout" /\ sess'[s].out = sess[s].out /\ sess'[s].reply = sess[s].reply
          /\ \A u \in Sides \ {s} : sess'[u] = sess[u]
        BY <1>1, FailsFacts DEF PollTimeout, FullInv
    <2>3. Steady
        BY <2>1, <2>2 DEF Steady, Active
    <2> QED
        BY <2>1, <2>2, <2>3, BoundTakes DEF StoreAgrees
<1>2. CASE Lose(s) \/ Ignore(s)
    <2>1. UNCHANGED <<mem, link, sess>> /\ air[s] # <<>> /\ Take(s)
        BY <1>2 DEF Lose, Ignore
    <2> QED
        BY <2>1, BoundTakes DEF StoreAgrees, Steady
<1> QED
    BY <1>1, <1>2

\* The second invariant holds after every step.
LEMMA StepBound ==
    ASSUME FullInv, FullInv', BoundInv, [Next]_vars
    PROVE  BoundInv'
<1>0. Types'
    BY DEF FullInv
<1>1. CASE Owners
    <2>1. ASSUME NEW k \in Keys, NEW v \in Values, ReaderSaves(k, v) PROVE BoundInv'
        <3>1. StoresSame /\ UNCHANGED <<sess, link, air>>
            BY <2>1 DEF ReaderSaves, StoresSame
        <3> QED
            BY <1>0, <3>1, EnqueuesBound, SideFacts
    <2> QED
        BY <1>0, <1>1, <2>1, ReaderEnqueues, PhoneNumbers, EnqueuesBound, SideFacts DEF Owners
<1>2. CASE Handshake
    BY <1>0, <1>2, ConnectBound, ReceiveHelloBound, ReceiveHelloAckBound DEF Handshake
<1>3. ASSUME NEW s \in Sides, SessionStep(s) PROVE BoundInv'
    <2>1. CASE PollReply(s) \/ PollAdmit(s) \/ PollRetry(s)
        BY <1>0, <2>1, PollReplyPolls, PollAdmitPolls, PollRetryPolls, PollsBound
    <2>2. CASE ReceiveReply(s) \/ ReceiveState(s)
        BY <1>0, <2>2, ReceiveReplyTakes, TakesReplyBound, ReceiveStateTakes, TakesStateBound
    <2>3. CASE HangUp(s)
        BY <2>3, DownBound DEF HangUp
    <2> QED
        BY <1>0, <1>3, <2>1, <2>2, <2>3, RestsBound, NoticeBound DEF SessionStep
<1>4. ASSUME NEW s \in Sides, Environment(s) PROVE BoundInv'
    <2>1. CASE Restart(s)
        BY <2>1, DownBound DEF Restart
    <2> QED
        BY <1>0, <1>4, <2>1, RestsBound DEF Environment
<1>5. CASE Drop
    BY <1>5, DownBound DEF Drop
<1>6. CASE ForgetPeer
    BY <1>6, ForgetBound
<1>7. CASE UNCHANGED vars
    BY <1>7 DEF vars, BoundInv, Refused, Flying, Bound, AgreedInv, WindowAgrees, FreshStates,
       FreshAcks, FreshFrames, Fresh
<1> QED
    BY <1>1, <1>2, <1>3, <1>4, <1>5, <1>6, <1>7 DEF Next, Paired

\* From the Note4's acceptance of a Hello to the end of that link the two sides
\* agree on the replay window, even if the Note4 forgot the phone before; no
\* update or ACK they still have to take is from before the handshake
\* (note4_sync_session.cc Start, CompanionSyncSession.kt).
THEOREM AlwaysBound == Spec => []BoundInv
<1>1. FullInv /\ FullInv' /\ BoundInv /\ [Next]_vars => BoundInv'
    BY StepBound
<1> QED
    BY <1>1, InitBound, AlwaysFull, PTL DEF Spec

\* Two sessions at work are bound.
LEMMA BoundActiveInWindow == FullInv /\ BoundInv => ActiveInWindow
<1> SUFFICES ASSUME FullInv, BoundInv, \A s \in Sides : Active(s), link
             PROVE  WindowAgrees
    BY DEF ActiveInWindow, WindowAgrees, Known
<1>1. Bound
    BY SideFacts DEF Bound, Active
<1> QED
    BY <1>1 DEF BoundInv, AgreedInv

\* What one side retired is durable at the other, what it applied is known
\* there, undamaged stores always reconcile and converged sides agree, through
\* losses, failed saves, restarts and timeouts, until the Note4 forgets the
\* phone; and of two sessions at work neither waits for an ACK that will not
\* come, whatever was forgotten (note4_sync_engine.cc, DurableQueue.kt).
THEOREM PeersAlwaysAgree == Spec => []PeersAgree
<1>1. FullInv /\ BoundInv => PeersAgree
    BY FullAckedIsDurable, FullAppliedIsKnown, FullNeverResync, FullConvergedAgree,
       BoundActiveInWindow DEF PeersAgree
<1> QED
    BY <1>1, AlwaysFull, AlwaysBound, PTL

-----------------------------------------------------------------------------
(* The two stores change by operations of their engines only.  For a       *)
(* restart that needs room: a record with more keys than slots is refused. *)

\* A store holds no more keys than it has slots.
Room(e) == Cardinality(Present(e)) <= Capacity

RoomInv == \A s \in Sides : Room(mem[s]) /\ Room(disk[s])

\* What the engine, and what the queue, may make of a store they accept it for.
EngineMakes(e, n) ==
    \/ \E k \in Keys, r \in Revisions \ {0}, v \in Values :
        \/ Note4!PutStatus(e, k, r, v) = "Ok" /\ n = Note4!Put(e, k, r, v)
        \/ Note4!AcceptStatus(e, k, r, v) = "Ok" /\ n = Note4!Accept(e, k, r, v)
    \/ \E k \in Keys, r \in Revisions \ {0} :
        Note4!AcknowledgeStatus(e, k, r) = "Ok" /\ n = Note4!Acknowledge(e, k, r)
    \/ \E c \in [Keys -> Note4!PeerCursor] :
        Note4!ReconcileStatus(e, c) = "Ok" /\ n = Note4!Reconciled(e, c) /\ n # e

QueueMakes(e, n) ==
    \/ \E k \in Keys, v \in Values :
        Phone!EnqueueStatus(e, k, v) = "Ok" /\ n = Phone!Put(e, k, Phone!NextRevision(e, k), v)
    \/ \E k \in Keys, r \in Revisions \ {0}, v \in Values :
        Phone!AcceptStatus(e, k, r, v) = "Ok" /\ n = Phone!Accept(e, k, r, v)
    \/ \E k \in Keys, r \in Revisions \ {0} :
        Phone!AcknowledgeStatus(e, k, r) = "Ok" /\ n = Phone!Acknowledge(e, k, r)
    \/ \E c \in [Keys -> Phone!PeerCursor] :
        /\ Phone!ReconcileStatus(e, c) = "Ok" /\ Phone!NeedsReconcile(e, c)
        /\ n = Phone!Reconciled(e, c)

\* The engines and the composition count the same keys and reconcile alike.
LEMMA EnginesAlike ==
    ASSUME NEW e, NEW c
    PROVE  /\ Note4!Cardinality(Note4!Present(e)) = Cardinality(Present(e))
           /\ Phone!Cardinality(Phone!Present(e)) = Cardinality(Present(e))
           /\ Note4!Cardinality(Note4!KeysAfter(e, c)) = Cardinality(KeysAfter(e, c))
           /\ Phone!Cardinality(Phone!KeysAfter(e, c)) = Cardinality(KeysAfter(e, c))
           /\ Note4!Reconciled(e, c) = Reconciled(e, c)
           /\ Phone!Reconciled(e, c) = Reconciled(e, c)
<1>1. /\ Note4!Present(e) = Present(e) /\ Phone!Present(e) = Present(e)
      /\ Note4!KeysAfter(e, c) = KeysAfter(e, c) /\ Phone!KeysAfter(e, c) = KeysAfter(e, c)
    BY DEF Note4!Present, Phone!Present, Present, Note4!KeysAfter, Phone!KeysAfter, KeysAfter
<1>2. \A S : Note4!Cardinality(S) = Cardinality(S)
    BY DEF Note4!Cardinality, Cardinality
<1>3. \A S : Phone!Cardinality(S) = Cardinality(S)
    BY DEF Phone!Cardinality, Cardinality
<1>4. Note4!Reconciled(e, c) = Reconciled(e, c) /\ Phone!Reconciled(e, c) = Reconciled(e, c)
    BY DEF Note4!Reconciled, Phone!Reconciled, Reconciled
<1> QED
    BY <1>1, <1>2, <1>3, <1>4

\* The keys of a store can be counted.
LEMMA KeysCounted ==
    ASSUME NEW S \in SUBSET Keys
    PROVE  IsFiniteSet(S) /\ Cardinality(S) \in Nat
BY SyncConstants, FS_Subset, FS_CardinalityType

\* One key more than a store with a free slot, or none more, still fits.
LEMMA OneKeyFits ==
    ASSUME NEW e, NEW n, NEW k \in Keys, Room(e),
           e[k].present \/ Cardinality(Present(e)) # Capacity,
           Present(n) \subseteq Present(e) \cup {k}
    PROVE  Room(n)
<1>1. /\ Present(e) \in SUBSET Keys /\ Present(n) \in SUBSET Keys
      /\ IsFiniteSet(Present(e)) /\ Cardinality(Present(e)) \in Nat
      /\ Cardinality(Present(n)) \in Nat /\ Capacity \in Nat
    BY KeysCounted, SyncConstants DEF Present
<1>2. CASE e[k].present
    <2>1. Present(n) \subseteq Present(e)
        BY <1>2 DEF Present
    <2>2. Cardinality(Present(n)) <= Cardinality(Present(e))
        BY <1>1, <2>1, FS_Subset
    <2> QED
        BY <1>1, <2>2 DEF Room
<1>3. CASE ~e[k].present
    <2>1. k \notin Present(e)
        BY <1>3 DEF Present
    <2>2. /\ IsFiniteSet(Present(e) \cup {k})
          /\ Cardinality(Present(e) \cup {k}) = Cardinality(Present(e)) + 1
        BY <1>1, <2>1, FS_AddElement
    <2>3. Cardinality(Present(n)) <= Cardinality(Present(e) \cup {k})
        BY <2>2, FS_Subset
    <2> QED
        BY <1>1, <1>3, <2>2, <2>3 DEF Room
<1> QED
    BY <1>2, <1>3

\* So does a store after a reconciliation that was not refused as full.
LEMMA ReconciledFits ==
    ASSUME NEW e \in EngineState, NEW c, Cardinality(KeysAfter(e, c)) <= Capacity
    PROVE  Room(Reconciled(e, c))
<1>1. Present(Reconciled(e, c)) = KeysAfter(e, c)
    BY DEF Present, KeysAfter, Reconciled, EngineState, KeyState
<1> QED
    BY <1>1 DEF Room

\* A slot that the engine or the queue finds is there.
LEMMA EngineKeepsRoom ==
    ASSUME NEW e \in EngineState, Kept(e), Room(e), NEW n, EngineMakes(e, n)
    PROVE  Room(n)
<1>0. Cardinality(Present(e)) \in Nat /\ Capacity \in Nat
    BY KeysCounted, SyncConstants DEF Present
<1>1. ASSUME NEW k \in Keys, NEW r \in Revisions \ {0}, NEW v \in Values,
             Note4!PutStatus(e, k, r, v) = "Ok", n = Note4!Put(e, k, r, v)
      PROVE  Room(n)
    <2>1. e[k].present \/ Cardinality(Present(e)) # Capacity
        BY <1>0, <1>1, EnginesAlike DEF Note4!PutStatus, Note4!CursorSlot
    <2>2. Present(n) \subseteq Present(e) \cup {k}
        BY <1>1 DEF Note4!Put, Present, EngineState, KeyState
    <2> QED
        BY <2>1, <2>2, OneKeyFits
<1>2. ASSUME NEW k \in Keys, NEW r \in Revisions \ {0}, NEW v \in Values,
             Note4!AcceptStatus(e, k, r, v) = "Ok", n = Note4!Accept(e, k, r, v)
      PROVE  Room(n)
    <2>1. e[k].present \/ Cardinality(Present(e)) # Capacity
        BY <1>0, <1>2, EnginesAlike DEF Note4!AcceptStatus, Note4!CursorSlot
    <2>2. Present(n) \subseteq Present(e) \cup {k}
        BY <1>2 DEF Note4!Accept, Present, EngineState, KeyState
    <2> QED
        BY <2>1, <2>2, OneKeyFits
<1>3. ASSUME NEW k \in Keys, NEW r \in Revisions \ {0},
             Note4!AcknowledgeStatus(e, k, r) = "Ok", n = Note4!Acknowledge(e, k, r)
      PROVE  Room(n)
    <2>1. e[k].present
        BY <1>3 DEF Note4!AcknowledgeStatus, Kept
    <2>2. Present(n) \subseteq Present(e) \cup {k}
        BY <1>3 DEF Note4!Acknowledge, Present, EngineState, KeyState
    <2> QED
        BY <2>1, <2>2, OneKeyFits
<1>4. ASSUME NEW c, Note4!ReconcileStatus(e, c) = "Ok", n = Note4!Reconciled(e, c)
      PROVE  Room(n)
    <2>1. ~(Cardinality(KeysAfter(e, c)) > Capacity)
        BY <1>4, EnginesAlike DEF Note4!ReconcileStatus
    <2>2. Cardinality(KeysAfter(e, c)) \in Nat
        BY KeysCounted DEF KeysAfter, Present
    <2> QED
        BY <1>0, <1>4, <2>1, <2>2, EnginesAlike, ReconciledFits
<1> QED
    BY <1>1, <1>2, <1>3, <1>4 DEF EngineMakes

\* The same of the queue (DurableQueue.kt put, accept, reconcile).
LEMMA QueueKeepsRoom ==
    ASSUME NEW e \in EngineState, Kept(e), Room(e), NEW n, QueueMakes(e, n)
    PROVE  Room(n)
<1>0. Cardinality(Present(e)) \in Nat /\ Capacity \in Nat
    BY KeysCounted, SyncConstants DEF Present
<1>1. ASSUME NEW k \in Keys, NEW v \in Values, Phone!EnqueueStatus(e, k, v) = "Ok",
             n = Phone!Put(e, k, Phone!NextRevision(e, k), v)
      PROVE  Room(n)
    <2>1. e[k].present \/ Cardinality(Present(e)) # Capacity
        BY <1>1, EnginesAlike DEF Phone!EnqueueStatus, Phone!PutStatus, Phone!Full
    <2>2. Present(n) \subseteq Present(e) \cup {k}
        BY <1>1 DEF Phone!Put, Present, EngineState, KeyState
    <2> QED
        BY <2>1, <2>2, OneKeyFits
<1>2. ASSUME NEW k \in Keys, NEW r \in Revisions \ {0}, NEW v \in Values,
             Phone!AcceptStatus(e, k, r, v) = "Ok", n = Phone!Accept(e, k, r, v)
      PROVE  Room(n)
    <2>1. e[k].present \/ Cardinality(Present(e)) # Capacity
        BY <1>2, EnginesAlike DEF Phone!AcceptStatus, Phone!Full
    <2>2. Present(n) \subseteq Present(e) \cup {k}
        BY <1>2 DEF Phone!Accept, Present, EngineState, KeyState
    <2> QED
        BY <2>1, <2>2, OneKeyFits
<1>3. ASSUME NEW k \in Keys, NEW r \in Revisions \ {0},
             Phone!AcknowledgeStatus(e, k, r) = "Ok", n = Phone!Acknowledge(e, k, r)
      PROVE  Room(n)
    <2>1. e[k].present
        BY <1>3 DEF Phone!AcknowledgeStatus
    <2>2. Present(n) \subseteq Present(e) \cup {k}
        BY <1>3 DEF Phone!Acknowledge, Present, EngineState, KeyState
    <2> QED
        BY <2>1, <2>2, OneKeyFits
<1>4. ASSUME NEW c, Phone!ReconcileStatus(e, c) = "Ok", n = Phone!Reconciled(e, c)
      PROVE  Room(n)
    <2>1. ~(Cardinality(KeysAfter(e, c)) > Capacity)
        BY <1>4, EnginesAlike DEF Phone!ReconcileStatus
    <2>2. Cardinality(KeysAfter(e, c)) \in Nat
        BY KeysCounted DEF KeysAfter, Present
    <2> QED
        BY <1>0, <1>4, <2>1, <2>2, EnginesAlike, ReconciledFits
<1> QED
    BY <1>1, <1>2, <1>3, <1>4 DEF QueueMakes

\* Cursors that were accepted are some a peer can tell.
LEMMA AcceptedCursors ==
    ASSUME NEW e, NEW c \in [Keys -> Cursor]
    PROVE  /\ Note4!ReconcileStatus(e, c) = "Ok" => c \in [Keys -> Note4!PeerCursor]
           /\ Phone!ReconcileStatus(e, c) = "Ok" => c \in [Keys -> Phone!PeerCursor]
<1>1. ASSUME Note4!ReconcileStatus(e, c) = "Ok", NEW k \in Keys
      PROVE  c[k] \in Note4!PeerCursor
    <2>1. Note4!ValidCursors(c)
        BY <1>1 DEF Note4!ReconcileStatus
    <2> QED
        BY <2>1 DEF Note4!ValidCursors, Note4!PeerCursor, Note4!Cursor, Cursor,
                    Note4!Revisions, Revisions
<1>2. ASSUME Phone!ReconcileStatus(e, c) = "Ok", NEW k \in Keys
      PROVE  c[k] \in Phone!PeerCursor
    <2>1. Phone!ValidCursors(c)
        BY <1>2 DEF Phone!ReconcileStatus
    <2> QED
        BY <2>1 DEF Phone!ValidCursors, Phone!PeerCursor, Phone!Cursor, Cursor,
                    Phone!Revisions, Revisions
<1> QED
    BY <1>1, <1>2

\* A call saves what it made, or fails to.
Tries(s, new) == Saved(s, new) \/ SaveFailed(s, new)

\* A save, successful or not, of what the engine made is a step of the engine.
LEMMA EngineSteps ==
    ASSUME Types, NEW n, EngineMakes(mem["note4"], n), Tries("note4", n)
    PROVE  Note4!Next /\ UNCHANGED <<mem["phone"], disk["phone"]>>
<1>1. /\ Note4!Persist(n)
      /\ UNCHANGED <<mem["phone"], disk["phone"]>>
    BY SideFacts DEF Tries, Saved, SaveFailed, Types, Note4!Persist
<1>2. ASSUME NEW k \in Keys, NEW r \in Revisions \ {0}, NEW v \in Values,
             \/ Note4!PutStatus(mem["note4"], k, r, v) = "Ok" /\ n = Note4!Put(mem["note4"], k, r, v)
             \/ /\ Note4!AcceptStatus(mem["note4"], k, r, v) = "Ok"
                /\ n = Note4!Accept(mem["note4"], k, r, v)
      PROVE  Note4!Next
    BY <1>1, <1>2 DEF Note4!Next, Note4!PutDurableState, Note4!AcceptIncomingState,
                      Note4!Revisions, Revisions
<1>3. ASSUME NEW k \in Keys, NEW r \in Revisions \ {0},
             Note4!AcknowledgeStatus(mem["note4"], k, r) = "Ok",
             n = Note4!Acknowledge(mem["note4"], k, r)
      PROVE  Note4!Next
    BY <1>1, <1>3 DEF Note4!Next, Note4!AcknowledgeDurableState, Note4!Revisions, Revisions
<1>4. ASSUME NEW c \in [Keys -> Note4!PeerCursor],
             Note4!ReconcileStatus(mem["note4"], c) = "Ok",
             n = Note4!Reconciled(mem["note4"], c), n # mem["note4"]
      PROVE  Note4!Next
    BY <1>1, <1>4 DEF Note4!Next, Note4!ReconcilePeerCursors
<1> QED
    BY <1>1, <1>2, <1>3, <1>4 DEF EngineMakes

\* The same of the queue.
LEMMA QueueSteps ==
    ASSUME Types, NEW n, QueueMakes(mem["phone"], n), Tries("phone", n)
    PROVE  Phone!Next /\ UNCHANGED <<mem["note4"], disk["note4"]>>
<1>1. /\ Phone!Change(n)
      /\ UNCHANGED <<mem["note4"], disk["note4"]>>
    BY SideFacts DEF Tries, Saved, SaveFailed, Types, Phone!Change
<1>2. ASSUME NEW k \in Keys, NEW v \in Values,
             Phone!EnqueueStatus(mem["phone"], k, v) = "Ok",
             n = Phone!Put(mem["phone"], k, Phone!NextRevision(mem["phone"], k), v)
      PROVE  Phone!Next
    BY <1>1, <1>2 DEF Phone!Next, Phone!enqueue
<1>3. ASSUME NEW k \in Keys, NEW r \in Revisions \ {0}, NEW v \in Values,
             Phone!AcceptStatus(mem["phone"], k, r, v) = "Ok",
             n = Phone!Accept(mem["phone"], k, r, v)
      PROVE  Phone!Next
    BY <1>1, <1>3 DEF Phone!Next, Phone!accept, Phone!Revisions, Revisions
<1>4. ASSUME NEW k \in Keys, NEW r \in Revisions \ {0},
             Phone!AcknowledgeStatus(mem["phone"], k, r) = "Ok",
             n = Phone!Acknowledge(mem["phone"], k, r)
      PROVE  Phone!Next
    BY <1>1, <1>4 DEF Phone!Next, Phone!acknowledge, Phone!Revisions, Revisions
<1>5. ASSUME NEW c \in [Keys -> Phone!PeerCursor],
             Phone!ReconcileStatus(mem["phone"], c) = "Ok",
             Phone!NeedsReconcile(mem["phone"], c), n = Phone!Reconciled(mem["phone"], c)
      PROVE  Phone!Next
    BY <1>1, <1>5 DEF Phone!Next, Phone!reconcile
<1> QED
    BY <1>1, <1>2, <1>3, <1>4, <1>5 DEF QueueMakes

\* What each step of the composition does to the two stores.
MakesOnly ==
    \/ StoresSame
    \/ \E n : EngineMakes(mem["note4"], n) /\ Tries("note4", n)
    \/ \E n : QueueMakes(mem["phone"], n) /\ Tries("phone", n)
    \/ \E s \in Sides : Reloads(s)

\* The owners enqueue, each in its own engine.
LEMMA OwnersMake ==
    ASSUME FullInv, Owners
    PROVE  MakesOnly
<1>1. ASSUME NEW k \in Keys, ReaderPublishes(k) PROVE MakesOnly
    <2> DEFINE r == owner[k].rev
               v == owner[k].val
    <2>1. r \in Revisions \ {0} /\ v \in Values
        BY <1>1 DEF ReaderPublishes, FullInv, Types
    <2>2. Note4!PutStatus(mem["note4"], k, r, v) = "Ok"
          /\ Tries("note4", Note4!Put(mem["note4"], k, r, v))
        BY <1>1 DEF ReaderPublishes, Tries
    <2> HIDE DEF r, v
    <2> QED
        BY <2>1, <2>2 DEF MakesOnly, EngineMakes
<1>2. ASSUME NEW k \in Keys, NEW v \in Values, PhoneEnqueues(k, v) PROVE MakesOnly
    <2> DEFINE r == Phone!NextRevision(mem["phone"], k)
    <2>1. Phone!EnqueueStatus(mem["phone"], k, v) = "Ok"
          /\ Tries("phone", Phone!Put(mem["phone"], k, r, v))
        BY <1>2 DEF PhoneEnqueues, Tries
    <2> QED
        BY <2>1 DEF MakesOnly, QueueMakes
<1>3. ASSUME NEW k \in Keys, NEW v \in Values, ReaderSaves(k, v) PROVE MakesOnly
    BY <1>3 DEF ReaderSaves, MakesOnly, StoresSame
<1> QED
    BY <1>1, <1>2, <1>3 DEF Owners

\* A handshake reconciles.
LEMMA HandshakeMakes ==
    ASSUME FullInv, Handshake
    PROVE  MakesOnly
<1>1. CASE Connect
    BY <1>1 DEF Connect, MakesOnly, StoresSame
<1>2. CASE ReceiveHello
    <2> DEFINE h == Head(air["note4"])
               e == mem["note4"]
               n == Reconciled(e, h.cursors)
    <2>1. /\ air["note4"] # <<>> /\ h.type = "hello"
          /\ \/ StoresSame
             \/ ReconcileStatus("note4", h.cursors) = "Ok" /\ n # e /\ Tries("note4", n)
        BY <1>2 DEF ReceiveHello, NothingSaved, StoresSame, Tries
    <2>2. h.cursors \in [Keys -> Cursor]
        BY <2>1, ElemsOfTail, FlyingFacts, SideFacts, FrameKinds DEF Flying, FullInv, Types, Greetings
    <2>3. ASSUME ReconcileStatus("note4", h.cursors) = "Ok", n # e, Tries("note4", n)
          PROVE  MakesOnly
        <3>1. Note4!ReconcileStatus(e, h.cursors) = "Ok"
            BY <2>3 DEF ReconcileStatus
        <3>2. h.cursors \in [Keys -> Note4!PeerCursor] /\ n = Note4!Reconciled(e, h.cursors)
            BY <2>2, <3>1, AcceptedCursors, EnginesAlike
        <3> QED
            BY <2>3, <3>1, <3>2 DEF MakesOnly, EngineMakes
    <2> QED
        BY <2>1, <2>3 DEF MakesOnly
<1>3. CASE ReceiveHelloAck
    <2> DEFINE h == Head(air["phone"])
               e == mem["phone"]
               n == Reconciled(e, h.cursors)
    <2>1. /\ air["phone"] # <<>> /\ h.type \in {"helloack", "rejected"}
          /\ \/ StoresSame
             \/ /\ h.type # "rejected" /\ ReconcileStatus("phone", h.cursors) = "Ok"
                /\ Phone!NeedsReconcile(e, h.cursors) /\ Tries("phone", n)
        BY <1>3 DEF ReceiveHelloAck, NothingSaved, StoresSame, Tries
    <2>2. h.type = "helloack" => h.cursors \in [Keys -> Cursor]
        BY <2>1, ElemsOfTail, FlyingFacts, SideFacts, FrameKinds DEF Flying, FullInv, Types, Greetings
    <2>3. ASSUME h.type = "helloack", ReconcileStatus("phone", h.cursors) = "Ok",
                 Phone!NeedsReconcile(e, h.cursors), Tries("phone", n)
          PROVE  MakesOnly
        <3>1. Phone!ReconcileStatus(e, h.cursors) = "Ok"
            BY <2>3 DEF ReconcileStatus
        <3>2. h.cursors \in [Keys -> Phone!PeerCursor] /\ n = Phone!Reconciled(e, h.cursors)
            BY <2>2, <2>3, <3>1, AcceptedCursors, EnginesAlike
        <3> QED
            BY <2>3, <3>1, <3>2 DEF MakesOnly, QueueMakes
    <2> QED
        BY <2>1, <2>3 DEF MakesOnly
<1> QED
    BY <1>1, <1>2, <1>3 DEF Handshake

\* What a session makes of a frame it takes is what its engine makes.
LEMMA SideMakes ==
    ASSUME NEW s \in Sides, NEW k \in Keys, NEW r \in Revisions \ {0}, NEW n, Tries(s, n),
           \/ AcknowledgeStatus(s, k, r) = "Ok" /\ n = Acknowledge(s, k, r)
           \/ \E v \in Values : AcceptStatus(s, k, r, v) = "Ok" /\ n = Accept(s, k, r, v)
    PROVE  MakesOnly
<1>1. CASE s = "note4"
    BY <1>1 DEF AcknowledgeStatus, Acknowledge, AcceptStatus, Accept, MakesOnly, EngineMakes
<1>2. CASE s = "phone"
    BY <1>2 DEF AcknowledgeStatus, Acknowledge, AcceptStatus, Accept, MakesOnly, QueueMakes
<1> QED
    BY <1>1, <1>2 DEF Sides

\* A session changes its store for a reply or an update it takes, or reloads it.
LEMMA SessionMakes ==
    ASSUME FullInv, NEW s \in Sides, SessionStep(s) \/ Environment(s)
    PROVE  MakesOnly
<1> DEFINE f == Head(air[s])
<1>0. air[s] # <<>> => f \in Frame
    BY ElemsOfTail, FlyingFacts DEF Flying, FullInv, Types
<1>1. CASE ReceiveReply(s)
    <2>1. /\ f.type = "reply" /\ air[s] # <<>>
          /\ \/ StoresSame
             \/ /\ AcknowledgeStatus(s, f.key, f.rev) = "Ok"
                /\ Tries(s, Acknowledge(s, f.key, f.rev))
        BY <1>1 DEF ReceiveReply, NothingSaved, StoresSame, Tries
    <2>2. f.key \in Keys /\ f.rev \in Revisions \ {0}
        BY <1>0, <2>1, FrameKinds DEF ReplyFrames
    <2> HIDE DEF f
    <2> QED
        BY <2>1, <2>2, SideMakes DEF MakesOnly
<1>2. CASE ReceiveState(s)
    <2>1. /\ f.type = "state" /\ air[s] # <<>>
          /\ \/ StoresSame
             \/ /\ AcceptStatus(s, f.key, f.rev, f.val) = "Ok"
                /\ Tries(s, Accept(s, f.key, f.rev, f.val))
        BY <1>2 DEF ReceiveState, NothingSaved, StoresSame, Tries
    <2>2. f.key \in Keys /\ f.rev \in Revisions \ {0} /\ f.val \in Values
        BY <1>0, <2>1, FrameKinds DEF StateFrames
    <2> HIDE DEF f
    <2> QED
        BY <2>1, <2>2, SideMakes DEF MakesOnly
<1>3. CASE Restart(s)
    BY <1>3 DEF Restart, Reloads, MakesOnly
<1>4. CASE \/ PollReply(s) \/ PollAdmit(s) \/ PollRetry(s) \/ Ignore(s) \/ HangUp(s)
           \/ NoticeDisconnect(s) \/ PollTimeout(s) \/ Lose(s)
    BY <1>4 DEF PollReply, PollAdmit, PollRetry, Ignore, HangUp, NoticeDisconnect, PollTimeout,
                Lose, MakesOnly, StoresSame
<1> QED
    BY <1>1, <1>2, <1>3, <1>4 DEF SessionStep, Environment

\* Every step that does not forget.
LEMMA PairedMakes ==
    ASSUME FullInv, Paired
    PROVE  MakesOnly
<1>1. CASE Drop
    BY <1>1 DEF Drop, MakesOnly, StoresSame
<1> QED
    BY <1>1, OwnersMake, HandshakeMakes, SessionMakes DEF Paired


\* A store that only its engine wrote, and that has room, loads again as it is.
LEMMA EngineReloads ==
    ASSUME NEW d \in EngineState, Kept(d), Room(d)
    PROVE  Note4!LoadAccepts(d) /\ Note4!Loaded(d) = d
<1>1. \A k \in Keys : d[k] \in KeyState /\ KeyNumbers(d[k])
    BY StateNumbers
<1>2. Note4!Present(d) \cup Note4!Pending(d) = Note4!Present(d)
    BY DEF Note4!Present, Note4!Pending, Kept
<1>3. Note4!LoadAccepts(d)
    <2>1. \A k \in Keys : d[k].pend # 0 => d[k].pend > d[k].ack
        BY DEF Kept
    <2>2. \A k \in Keys : d[k].irev # 0 => d[k].present /\ d[k].irev = d[k].app
        BY <1>1 DEF Kept, KeyState
    <2>3. Note4!Cardinality(Note4!Present(d) \cup Note4!Pending(d)) <= Capacity
        BY <1>2, EnginesAlike DEF Room
    <2> QED
        BY <2>1, <2>2, <2>3 DEF Note4!LoadAccepts
<1>4. \A k \in Keys : [d[k] EXCEPT !.present = @ \/ d[k].pend # 0] = d[k]
    <2> SUFFICES ASSUME NEW k \in Keys
                 PROVE  [d[k] EXCEPT !.present = @ \/ d[k].pend # 0] = d[k]
        OBVIOUS
    <2>1. (d[k].present \/ d[k].pend # 0) = d[k].present
        BY <1>1 DEF KeyState, Kept
    <2>2. [d[k] EXCEPT !.present = d[k].present] = d[k]
        BY <1>1 DEF KeyState
    <2> QED
        BY <2>1, <2>2
<1>5. Note4!Loaded(d) = d
    BY <1>4 DEF Note4!Loaded, EngineState
<1> QED
    BY <1>3, <1>5

\* The queue's file also lists nothing for a key without an entry.
LEMMA QueueReloads ==
    ASSUME NEW d \in EngineState, Kept(d), Room(d)
    PROVE  Phone!LoadAccepts(d)
<1>1. \A k \in Keys : d[k] \in KeyState /\ KeyNumbers(d[k])
    BY StateNumbers
<1>2. \A k \in Keys : ~d[k].present => d[k] = Phone!NoEntry
    <2> SUFFICES ASSUME NEW k \in Keys, ~d[k].present
                 PROVE  d[k] = Phone!NoEntry
        OBVIOUS
    <2>1. /\ d[k].present = FALSE /\ d[k].ack = 0 /\ d[k].app = 0 /\ d[k].pend = 0
          /\ d[k].pval = NoValue /\ d[k].irev = 0 /\ d[k].ival = NoValue
        BY <1>1 DEF Kept, KeyState
    <2> QED
        BY <1>1, <2>1 DEF KeyState, Phone!NoEntry
<1>3. Phone!Cardinality(Phone!Present(d)) <= Capacity
    BY EnginesAlike DEF Room
<1> QED
    BY <1>2, <1>3 DEF Phone!LoadAccepts, Kept

\* A restart is the engine's own, from the record it finds.
LEMMA ReloadSteps ==
    ASSUME FullInv, RoomInv, NEW s \in Sides, Reloads(s)
    PROVE  /\ Note4!Next \/ UNCHANGED <<mem["note4"], disk["note4"]>>
           /\ Phone!Next \/ UNCHANGED <<mem["phone"], disk["phone"]>>
<1>1. /\ disk[s] \in EngineState /\ Kept(disk[s]) /\ Room(disk[s]) /\ disk[s] # NoValue
      /\ disk' = disk /\ mem'[s] = disk[s] /\ \A t \in Sides \ {s} : mem'[t] = mem[t]
    BY NoRecordIsNone DEF FullInv, Types, DataInv, StoresInv, RoomInv, Reloads
<1>2. CASE s = "note4"
    <2>1. Note4!LoadAccepts(disk["note4"]) /\ Note4!Loaded(disk["note4"]) = disk["note4"]
        BY <1>1, <1>2, EngineReloads
    <2>2. Note4!Restart
        BY <1>1, <1>2, <2>1 DEF Note4!Restart, Note4!Readable
    <2> QED
        BY <1>1, <1>2, <2>2, SideFacts DEF Note4!Next
<1>3. CASE s = "phone"
    <2>1. Phone!LoadAccepts(disk["phone"])
        BY <1>1, <1>3, QueueReloads
    <2>2. Phone!load
        BY <1>1, <1>3, <2>1 DEF Phone!load, Phone!Readable
    <2> QED
        BY <1>1, <1>3, <2>2, SideFacts DEF Phone!Next
<1> QED
    BY <1>2, <1>3 DEF Sides

\* No step leaves a store with more keys than slots.
LEMMA RoomStep ==
    ASSUME FullInv, RoomInv, [Next]_vars
    PROVE  RoomInv'
<1> USE DEF RoomInv
<1>0. \A s \in Sides : mem[s] \in EngineState /\ Kept(mem[s])
    BY DEF FullInv, Types, DataInv, StoresInv
<1>1. ASSUME NEW s \in Sides, NEW n, Room(n), Tries(s, n)
      PROVE  RoomInv'
    <2>1. Stored(s, n) \/ StoresSame
        BY <1>1, SavedOrNot DEF FullInv, Tries
    <2> QED
        BY <1>1, <2>1 DEF Stored, StoresSame, FullInv, Types, Room, Present
<1>2. CASE MakesOnly
    <2>1. CASE StoresSame
        BY <2>1 DEF StoresSame, Room, Present
    <2>2. CASE \E n : EngineMakes(mem["note4"], n) /\ Tries("note4", n)
        BY <1>0, <1>1, <2>2, EngineKeepsRoom, SideFacts
    <2>3. CASE \E n : QueueMakes(mem["phone"], n) /\ Tries("phone", n)
        BY <1>0, <1>1, <2>3, QueueKeepsRoom, SideFacts
    <2>4. ASSUME NEW s \in Sides, Reloads(s) PROVE RoomInv'
        BY <2>4 DEF Reloads, FullInv, Types, Room, Present
    <2> QED
        BY <1>2, <2>1, <2>2, <2>3, <2>4 DEF MakesOnly
<1>3. CASE ForgetPeer
    <2>1. Room(Empty)
        <3>1. Present(Empty) = {}
            BY DEF Present, Empty, NoEntry
        <3> QED
            BY <3>1, FS_EmptySet, SyncConstants DEF Room
    <2> QED
        BY <1>3, <2>1 DEF ForgetPeer, FullInv, Types, Room, Present
<1>4. CASE UNCHANGED vars
    BY <1>4 DEF vars, Room, Present
<1> QED
    BY <1>2, <1>3, <1>4, PairedMakes DEF Next

\* No store ever lists more keys than it has slots.
LEMMA AlwaysRoom == Spec => []RoomInv
<1>1. Init => RoomInv
    <2>1. Present(Empty) = {}
        BY DEF Present, Empty, NoEntry
    <2> QED
        BY <2>1, FS_EmptySet, SyncConstants DEF Init, RoomInv, Room
<1> QED
    BY <1>1, RoomStep, AlwaysFull, PTL DEF Spec

\* The phone's cursors never go back, not even when the Note4 forgets it.
LEMMA PhoneKeeps ==
    ASSUME FullInv, [Next]_vars
    PROVE  PhoneKeepsCursors
<1> SUFFICES ASSUME NEW k \in Keys
             PROVE  /\ mem'["phone"][k].ack >= mem["phone"][k].ack
                    /\ mem'["phone"][k].app >= mem["phone"][k].app
    BY DEF PhoneKeepsCursors
<1>0. /\ mem["phone"] \in EngineState /\ KeyNumbers(mem["phone"][k])
      /\ "phone" \in Sides /\ "note4" # "phone"
    BY SidesNumbers, SideFacts DEF FullInv
<1>1. CASE mem'["phone"] = mem["phone"]
    BY <1>0, <1>1 DEF KeyNumbers
<1>2. CASE MovesTo("phone", mem'["phone"])
    BY <1>0, <1>2, RevisionFacts DEF MovesTo, Retired, Enqueued, Received, KeyNumbers
<1>3. CASE Paired /\ UNCHANGED forgot
    <2>1. Types /\ DataInv /\ StoreStep
        BY <1>3, PairedGood DEF FullInv, GoodStep, DataStep
    <2> QED
        BY <1>0, <1>1, <1>2, <2>1, StoreMoves
<1>4. CASE ForgetPeer
    BY <1>0, <1>1, <1>4 DEF ForgetPeer, FullInv, Types
<1>5. CASE UNCHANGED vars
    BY <1>1, <1>5 DEF vars
<1> QED
    BY <1>3, <1>4, <1>5 DEF Next

\* StoresOnly: each step of the two sessions is, on either side, a step of that
\* side's engine alone or none, or the Note4 forgets the phone; and the phone
\* takes nothing back (note4_sync_session.cc, CompanionSyncSession.kt).
THEOREM StoresChangeByTheirEngines == Spec => StoresOnly
<1> DEFINE ByEngines ==
        /\ ForgetPeer \/ Note4!Next \/ UNCHANGED <<mem["note4"], disk["note4"]>>
        /\ Phone!Next \/ UNCHANGED <<mem["phone"], disk["phone"]>>
        /\ PhoneKeepsCursors
<1>1. ASSUME FullInv, RoomInv, [Next]_vars
      PROVE  [ByEngines]_<<mem, disk>>
    <2>1. CASE Paired /\ UNCHANGED forgot
        <3>1. MakesOnly
            BY <1>1, <2>1, PairedMakes
        <3>2. CASE StoresSame
            BY <3>2 DEF StoresSame
        <3>3. CASE \E n : EngineMakes(mem["note4"], n) /\ Tries("note4", n)
            BY <1>1, <3>3, EngineSteps, PhoneKeeps DEF FullInv
        <3>4. CASE \E n : QueueMakes(mem["phone"], n) /\ Tries("phone", n)
            BY <1>1, <3>4, QueueSteps, PhoneKeeps DEF FullInv
        <3>5. CASE \E s \in Sides : Reloads(s)
            BY <1>1, <3>5, ReloadSteps, PhoneKeeps
        <3> QED
            BY <3>1, <3>2, <3>3, <3>4, <3>5 DEF MakesOnly
    <2>2. CASE ForgetPeer
        <3>1. UNCHANGED <<mem["phone"], disk["phone"]>>
            BY <1>1, <2>2, SideFacts DEF ForgetPeer, FullInv, Types
        <3> QED
            BY <1>1, <2>2, <3>1, PhoneKeeps
    <2>3. CASE UNCHANGED vars
        BY <2>3 DEF vars
    <2> QED
        BY <1>1, <2>1, <2>2, <2>3 DEF Next
<1> QED
    BY <1>1, AlwaysFull, AlwaysRoom, PTL DEF Spec, StoresOnly

==============================================================================
