---------------------------- MODULE StoresProofs ----------------------------
(***************************************************************************)
(* Proofs about three of the stores that MCStores runs side by side.       *)
(*                                                                         *)
(* SyncEngine keeps its record loadable and never takes back what it       *)
(* reported, for any keys, values, revisions and capacity.  Every call     *)
(* asks the store for a state that is sound and covers the one in memory;  *)
(* Persist leaves memory and record on either of the two, so the record    *)
(* covers memory at any moment and a restart returns to a covering state.  *)
(*                                                                         *)
(* WifiDriver, for any number of driver objects, name queries, places and  *)
(* sessions.  The radio is claimed by one object at most, every reference  *)
(* of a query is its driver's or lwIP's, and an address an object has was  *)
(* leased to its interface, or to an earlier one at the same place.        *)
(*                                                                         *)
(* EdgePage, for any day, quiet hours, intervals and validity.  A page of  *)
(* the present generation is of the present source; a wake that is not for *)
(* a download has something that forbids it or a time that is still ahead; *)
(* and the time waited and the time ahead together stay within one         *)
(* interval and one quiet period.                                          *)
(***************************************************************************)
EXTENDS MCStores, Sequences, FiniteSetTheorems, TLAPS

-----------------------------------------------------------------------------
(* The durable sync engine.                                                *)


IInv == TypeOK /\ RecordLoads /\ AckHasItsCursor /\ SavedBeforeReported

\* A state the engine may hold in memory.
Sound(e) ==
    /\ e \in EngineState /\ Slots(e)
    /\ LoadAccepts(e)
    /\ Pending(e) \subseteq Present(e)

-----------------------------------------------------------------------------
LEMMA RevisionFacts == Revisions \subseteq Nat /\ 0 \in Revisions
BY SyncConstants DEF Revisions

LEMMA KeySetsFinite ==
    ASSUME NEW S \in SUBSET Keys
    PROVE  IsFiniteSet(S) /\ Cardinality(S) \in Nat
BY SyncConstants, FS_Subset, FS_CardinalityType

\* The numbers of one key, for the arithmetic below.
KeyNumbers(x) ==
    x.ack \in Nat /\ x.app \in Nat /\ x.pend \in Nat /\ x.irev \in Nat

LEMMA SoundNumbers ==
    ASSUME NEW e \in EngineState, NEW k \in Keys
    PROVE  e[k] \in KeyState /\ KeyNumbers(e[k])
BY RevisionFacts DEF EngineState, KeyState, KeyNumbers

\* A key with a cursor slot, present or still to be reserved, fits.
LEMMA SlotFits ==
    ASSUME NEW e, Sound(e), NEW k \in Keys, CursorSlot(e, k),
           NEW S \in SUBSET Keys, S \subseteq Present(e) \cup {k}
    PROVE  Cardinality(S) <= Capacity
<1>1. Present(e) \in SUBSET Keys /\ Present(e) \cup Pending(e) = Present(e)
    BY DEF Present, Sound
<1>2. Cardinality(Present(e)) <= Capacity
    BY <1>1 DEF Sound, LoadAccepts
<1>3. CASE k \in Present(e)
    <2>1. Cardinality(S) <= Cardinality(Present(e))
        BY <1>1, <1>3, KeySetsFinite, FS_Subset
    <2> QED
        BY <1>1, <1>2, <2>1, KeySetsFinite, SyncConstants
<1>4. CASE k \notin Present(e)
    <2>1. Cardinality(Present(e)) < Capacity
        BY <1>4 DEF CursorSlot, Present
    <2>2. Cardinality(Present(e) \cup {k}) = Cardinality(Present(e)) + 1
        BY <1>1, <1>4, KeySetsFinite, FS_AddElement
    <2>3. Cardinality(S) <= Cardinality(Present(e) \cup {k})
        BY <1>1, KeySetsFinite, FS_Subset
    <2>4. Present(e) \cup {k} \in SUBSET Keys
        BY <1>1
    <2> QED
        BY <1>1, <2>1, <2>2, <2>3, <2>4, KeySetsFinite, SyncConstants
<1> QED
    BY <1>3, <1>4

LEMMA EmptySound == Sound(Empty)
<1>1. Empty \in EngineState
    BY RevisionFacts DEF Empty, NoEntry, EngineState, KeyState
<1>2. Present(Empty) = {} /\ Pending(Empty) = {}
    BY DEF Present, Pending, Empty, NoEntry
<1>3. Cardinality({}) <= Capacity
    BY FS_EmptySet, SyncConstants
<1>4. LoadAccepts(Empty) /\ Slots(Empty)
    BY <1>2, <1>3 DEF LoadAccepts, Slots, Empty, NoEntry
<1> QED
    BY <1>1, <1>2, <1>4 DEF Sound

-----------------------------------------------------------------------------
(* What each call asks the store to keep.                                  *)

LEMMA PutCovers ==
    ASSUME NEW e, Sound(e), NEW k \in Keys, NEW r \in Revisions \ {0}, NEW v \in Values,
           PutStatus(e, k, r, v) = "Ok"
    PROVE  Sound(Put(e, k, r, v)) /\ Covers(Put(e, k, r, v), e)
<1> DEFINE new == Put(e, k, r, v)
<1>0. r \in Nat /\ \A j \in Keys : KeyNumbers(e[j])
    BY SoundNumbers, RevisionFacts DEF Sound
<1>1. /\ r > e[k].ack /\ r > e[k].pend
      /\ CursorSlot(e, k)
    <2>1. ~(r <= e[k].ack \/ r < e[k].pend) /\ r # e[k].pend
        BY DEF PutStatus
    <2>2. CursorSlot(e, k)
        BY DEF PutStatus
    <2> QED
        BY <1>0, <2>1, <2>2 DEF KeyNumbers
<1>2. new \in EngineState
    BY DEF Put, Sound, EngineState, KeyState
<1>3. /\ new[k].present = TRUE /\ new[k].pend = r /\ new[k].pval = v
      /\ new[k].ack = e[k].ack /\ new[k].app = e[k].app
      /\ new[k].irev = e[k].irev /\ new[k].ival = e[k].ival
      /\ \A j \in Keys \ {k} : new[j] = e[j]
    BY DEF Put, Sound, EngineState, KeyState
<1>4. Present(new) \subseteq Present(e) \cup {k} /\ Pending(new) \subseteq Present(new)
    BY <1>3 DEF Present, Pending, Sound
<1>5. Cardinality(Present(new) \cup Pending(new)) <= Capacity
    BY <1>1, <1>4, SlotFits DEF Present
<1>6. LoadAccepts(new) /\ Slots(new)
    BY <1>0, <1>1, <1>3, <1>5, SyncConstants DEF LoadAccepts, Slots, Sound, KeyNumbers
<1>7. Covers(new, e)
    BY <1>0, <1>1, <1>3 DEF Covers, Sound, LoadAccepts, KeyNumbers
<1> QED
    BY <1>2, <1>4, <1>6, <1>7 DEF Sound

LEMMA AcknowledgeCovers ==
    ASSUME NEW e, Sound(e), NEW k \in Keys, NEW r \in Revisions \ {0},
           AcknowledgeStatus(e, k, r) = "Ok"
    PROVE  Sound(Acknowledge(e, k, r)) /\ Covers(Acknowledge(e, k, r), e)
<1> DEFINE new == Acknowledge(e, k, r)
<1>0. r \in Nat /\ \A j \in Keys : KeyNumbers(e[j])
    BY SoundNumbers, RevisionFacts DEF Sound
<1>1. /\ e[k].pend # 0 /\ r <= e[k].pend /\ r > e[k].ack
      /\ CursorSlot(e, k)
    <2>1. e[k].pend # 0 /\ ~(r > e[k].pend) /\ ~(r <= e[k].ack)
        BY DEF AcknowledgeStatus
    <2>2. CursorSlot(e, k)
        BY DEF AcknowledgeStatus
    <2> QED
        BY <1>0, <2>1, <2>2 DEF KeyNumbers
<1>2. new \in EngineState
    <2>1. e \in [Keys -> KeyState] /\ e[k] \in KeyState
        BY DEF Sound, EngineState
    <2>2. [e[k] EXCEPT !.present = TRUE, !.ack = r,
                       !.pend = IF e[k].pend = r THEN 0 ELSE e[k].pend,
                       !.pval = IF e[k].pend = r THEN NoValue ELSE e[k].pval] \in KeyState
        BY <2>1, RevisionFacts DEF KeyState
    <2> QED
        BY <2>1, <2>2 DEF Acknowledge, EngineState
<1>3. /\ new[k].present = TRUE /\ new[k].ack = r /\ new[k].app = e[k].app
      /\ new[k].pend = (IF e[k].pend = r THEN 0 ELSE e[k].pend)
      /\ new[k].pval = (IF e[k].pend = r THEN NoValue ELSE e[k].pval)
      /\ new[k].irev = e[k].irev /\ new[k].ival = e[k].ival
      /\ \A j \in Keys \ {k} : new[j] = e[j]
    BY DEF Acknowledge, Sound, EngineState, KeyState
<1>4. Present(new) \subseteq Present(e) \cup {k} /\ Pending(new) \subseteq Present(new)
    BY <1>3 DEF Present, Pending, Sound
<1>5. Cardinality(Present(new) \cup Pending(new)) <= Capacity
    BY <1>1, <1>4, SlotFits DEF Present
<1>6. LoadAccepts(new) /\ Slots(new)
    BY <1>0, <1>1, <1>3, <1>5, SyncConstants DEF LoadAccepts, Slots, Sound, KeyNumbers
<1>7. Covers(new, e)
    BY <1>0, <1>1, <1>3 DEF Covers, Sound, LoadAccepts, KeyNumbers
<1> QED
    BY <1>2, <1>4, <1>6, <1>7 DEF Sound

LEMMA CommitCovers ==
    ASSUME NEW e, Sound(e), NEW k \in Keys, NEW r \in Revisions \ {0},
           CommitStatus(e, k, r) = "Ok"
    PROVE  Sound(Commit(e, k, r)) /\ Covers(Commit(e, k, r), e)
<1> DEFINE new == Commit(e, k, r)
<1>0. r \in Nat /\ \A j \in Keys : KeyNumbers(e[j])
    BY SoundNumbers, RevisionFacts DEF Sound
<1>1. r > e[k].app /\ CursorSlot(e, k)
    <2>1. ~(r <= e[k].app)
        BY DEF CommitStatus, InspectStatus
    <2>2. CursorSlot(e, k)
        BY DEF CommitStatus
    <2> QED
        BY <1>0, <2>1, <2>2 DEF KeyNumbers
<1>2. new \in EngineState
    BY RevisionFacts DEF Commit, Sound, EngineState, KeyState
<1>3. /\ new[k].present = TRUE /\ new[k].app = r /\ new[k].ack = e[k].ack
      /\ new[k].pend = e[k].pend /\ new[k].pval = e[k].pval
      /\ new[k].irev = 0 /\ new[k].ival = NoValue
      /\ \A j \in Keys \ {k} : new[j] = e[j]
    BY DEF Commit, Sound, EngineState, KeyState
<1>4. Present(new) \subseteq Present(e) \cup {k} /\ Pending(new) \subseteq Present(new)
    BY <1>3 DEF Present, Pending, Sound
<1>5. Cardinality(Present(new) \cup Pending(new)) <= Capacity
    BY <1>1, <1>4, SlotFits DEF Present
<1>6. LoadAccepts(new) /\ Slots(new)
    BY <1>0, <1>1, <1>3, <1>5, SyncConstants DEF LoadAccepts, Slots, Sound, KeyNumbers
<1>7. Covers(new, e)
    BY <1>0, <1>1, <1>3 DEF Covers, Sound, LoadAccepts, KeyNumbers
<1> QED
    BY <1>2, <1>4, <1>6, <1>7 DEF Sound

LEMMA AcceptCovers ==
    ASSUME NEW e, Sound(e), NEW k \in Keys, NEW r \in Revisions \ {0}, NEW v \in Values,
           AcceptStatus(e, k, r, v) = "Ok"
    PROVE  Sound(Accept(e, k, r, v)) /\ Covers(Accept(e, k, r, v), e)
<1> DEFINE new == Accept(e, k, r, v)
<1>0. r \in Nat /\ \A j \in Keys : KeyNumbers(e[j])
    BY SoundNumbers, RevisionFacts DEF Sound
<1>1. r > e[k].app /\ CursorSlot(e, k)
    <2>1. ~(r <= e[k].app)
        BY DEF AcceptStatus, InspectStatus
    <2>2. CursorSlot(e, k)
        BY DEF AcceptStatus
    <2> QED
        BY <1>0, <2>1, <2>2 DEF KeyNumbers
<1>2. new \in EngineState
    BY DEF Accept, Sound, EngineState, KeyState
<1>3. /\ new[k].present = TRUE /\ new[k].app = r /\ new[k].ack = e[k].ack
      /\ new[k].pend = e[k].pend /\ new[k].pval = e[k].pval
      /\ new[k].irev = r /\ new[k].ival = v
      /\ \A j \in Keys \ {k} : new[j] = e[j]
    BY DEF Accept, Sound, EngineState, KeyState
<1>4. Present(new) \subseteq Present(e) \cup {k} /\ Pending(new) \subseteq Present(new)
    BY <1>3 DEF Present, Pending, Sound
<1>5. Cardinality(Present(new) \cup Pending(new)) <= Capacity
    BY <1>1, <1>4, SlotFits DEF Present
<1>6. LoadAccepts(new) /\ Slots(new)
    BY <1>0, <1>1, <1>3, <1>5, SyncConstants DEF LoadAccepts, Slots, Sound, KeyNumbers
<1>7. Covers(new, e)
    BY <1>0, <1>1, <1>3 DEF Covers, Sound, LoadAccepts, KeyNumbers
<1> QED
    BY <1>2, <1>4, <1>6, <1>7 DEF Sound

\* A compatible peer never lists a receive cursor below the ACK cursor.
LEMMA ReconcileCovers ==
    ASSUME NEW e, Sound(e), NEW peer \in [Keys -> Cursor],
           ReconcileStatus(e, peer) = "Ok"
    PROVE  Sound(Reconciled(e, peer)) /\ Covers(Reconciled(e, peer), e)
<1> DEFINE new == Reconciled(e, peer)
<1>0. \A j \in Keys : KeyNumbers(e[j]) /\ peer[j].app \in Nat /\ peer[j].app \in Revisions
    BY SoundNumbers, RevisionFacts DEF Sound, Cursor
<1>1. /\ \A j \in Keys : peer[j].app >= e[j].ack
      /\ Cardinality(KeysAfter(e, peer)) <= Capacity
    <2>1. AllCompatible(e, peer) /\ ~(Cardinality(KeysAfter(e, peer)) > Capacity)
        BY DEF ReconcileStatus
    <2>2. KeysAfter(e, peer) \in SUBSET Keys
        BY DEF KeysAfter, Present
    <2>3. ASSUME NEW j \in Keys PROVE peer[j].app >= e[j].ack
        <3>1. peer[j].app >= CursorsOf(e)[j].ack
            BY <2>1 DEF AllCompatible, Compatible, InWindow
        <3>2. CursorsOf(e)[j].ack = e[j].ack
            BY DEF CursorsOf, NoCursor, Sound, Slots
        <3> QED
            BY <3>1, <3>2
    <2> QED
        BY <2>1, <2>2, <2>3, KeySetsFinite, SyncConstants
<1>2. new \in EngineState
    BY <1>0, RevisionFacts DEF Reconciled, Sound, EngineState, KeyState
<1>3. \A j \in Keys :
        IF ~peer[j].present THEN new[j] = e[j]
        ELSE /\ new[j].present = TRUE /\ new[j].ack = peer[j].app /\ new[j].app = e[j].app
             /\ new[j].pend = (IF e[j].pend <= peer[j].app THEN 0 ELSE e[j].pend)
             /\ new[j].pval = (IF e[j].pend <= peer[j].app THEN NoValue ELSE e[j].pval)
             /\ new[j].irev = e[j].irev /\ new[j].ival = e[j].ival
    BY DEF Reconciled, Sound, EngineState, KeyState
<1>4. Present(new) \subseteq KeysAfter(e, peer) /\ Pending(new) \subseteq Present(new)
    BY <1>3 DEF Present, Pending, KeysAfter, Sound
<1>5. Cardinality(Present(new) \cup Pending(new)) <= Capacity
    <2>1. Present(new) \cup Pending(new) \subseteq KeysAfter(e, peer)
        BY <1>4
    <2>2. KeysAfter(e, peer) \in SUBSET Keys
        BY DEF KeysAfter, Present
    <2>3. Present(new) \cup Pending(new) \in SUBSET Keys
        BY DEF Present, Pending
    <2>4. Cardinality(Present(new) \cup Pending(new)) <= Cardinality(KeysAfter(e, peer))
        BY <2>1, <2>2, KeySetsFinite, FS_Subset
    <2> QED
        BY <1>1, <2>2, <2>3, <2>4, KeySetsFinite, SyncConstants
<1>6. LoadAccepts(new) /\ Slots(new)
    BY <1>0, <1>1, <1>3, <1>5, SyncConstants DEF LoadAccepts, Slots, Sound, KeyNumbers
<1>7. Covers(new, e)
    BY <1>0, <1>1, <1>3 DEF Covers, Sound, LoadAccepts, KeyNumbers
<1> QED
    BY <1>2, <1>4, <1>6, <1>7 DEF Sound

-----------------------------------------------------------------------------
(* Steps.                                                                  *)

\* Whatever became of the save, memory and record are old or new.
LEMMA PersistKeeps ==
    ASSUME StoreConstants, IInv, open, NEW new, Sound(new), Covers(new, mem), Persist(new)
    PROVE  IInv' /\ Covers(mem', mem)
<1>1. Sound(mem) /\ Covers(mem, mem) /\ Covers(new, new)
    <2>1. Sound(mem)
        BY DEF IInv, TypeOK, RecordLoads, AckHasItsCursor, Sound, Present, Pending
    <2>2. \A k \in Keys : KeyNumbers(mem[k]) /\ KeyNumbers(new[k])
        BY <2>1, SoundNumbers DEF Sound
    <2> QED
        BY <2>1, <2>2 DEF Covers, KeyNumbers
<1>2. /\ Sound(mem') /\ Covers(mem', mem)
      /\ disk' = new \/ (mem' = mem /\ disk' = disk)
      /\ disk' = new => Covers(disk', mem')
      /\ open' = open /\ recovered' = recovered
    BY <1>1 DEF Persist
<1>3. new \in EngineState /\ Slots(new) /\ LoadAccepts(new)
    BY DEF Sound
<1>4. TypeOK'
    BY <1>2, <1>3 DEF IInv, TypeOK, Sound
<1>5. RecordLoads' /\ AckHasItsCursor'
    BY <1>2, <1>3 DEF IInv, RecordLoads, AckHasItsCursor, Sound, Present, Pending
<1>6. SavedBeforeReported'
    BY <1>2, <1>3 DEF IInv, SavedBeforeReported, StoreConstants
<1> QED
    BY <1>2, <1>4, <1>5, <1>6 DEF IInv

\* LoadState adds the cursors a version 1 record lacks and nothing else.
LEMMA LoadedCovers ==
    ASSUME NEW d \in EngineState, Slots(d), LoadAccepts(d)
    PROVE  /\ Sound(Loaded(d)) /\ Covers(d, Loaded(d))
           /\ \A m : Covers(d, m) => Covers(Loaded(d), m)
<1> DEFINE new == Loaded(d)
<1>0. \A j \in Keys : KeyNumbers(d[j])
    BY SoundNumbers
<1>1. new \in EngineState
    BY DEF Loaded, EngineState, KeyState
<1>2. \A j \in Keys :
        /\ new[j].present <=> (d[j].present \/ d[j].pend # 0)
        /\ new[j].ack = d[j].ack /\ new[j].app = d[j].app
        /\ new[j].pend = d[j].pend /\ new[j].pval = d[j].pval
        /\ new[j].irev = d[j].irev /\ new[j].ival = d[j].ival
    BY DEF Loaded, EngineState, KeyState
<1>3. Present(new) = Present(d) \cup Pending(d) /\ Pending(new) \subseteq Present(new)
    BY <1>2 DEF Present, Pending
<1>4. Present(new) \cup Pending(new) = Present(d) \cup Pending(d)
    BY <1>3
<1>5. LoadAccepts(new)
    <2>1. Cardinality(Present(new) \cup Pending(new)) <= Capacity
        BY <1>4 DEF LoadAccepts
    <2>2. \A j \in Keys : /\ new[j].pend # 0 => new[j].pend > new[j].ack
                          /\ new[j].irev # 0 => new[j].present /\ new[j].irev = new[j].app
        BY <1>2 DEF LoadAccepts
    <2> QED
        BY <2>1, <2>2 DEF LoadAccepts
<1>6. Slots(new)
    BY <1>2 DEF Slots
<1>7. Covers(d, new) /\ \A m : Covers(d, m) => Covers(new, m)
    BY <1>0, <1>2 DEF Covers, KeyNumbers
<1> QED
    BY <1>1, <1>3, <1>5, <1>6, <1>7 DEF Sound

LEMMA RestartKeeps ==
    ASSUME StoreConstants, IInv, Restart
    PROVE  /\ IInv'
           /\ open /\ open' => Covers(mem', mem) \/ (disk = Damaged /\ mem' = Empty)
<1>1. disk' = disk /\ Sound(Empty) /\ Covers(Empty, Empty)
    <2>1. \A k \in Keys : KeyNumbers(Empty[k])
        BY EmptySound, SoundNumbers DEF Sound
    <2> QED
        BY <2>1, EmptySound DEF Restart, Covers, KeyNumbers
<1>2. CASE disk = NoRecord /\ mem' = Empty /\ open' = TRUE /\ recovered' = FALSE
    BY <1>1, <1>2
    DEF StoreConstants, IInv, TypeOK, RecordLoads, AckHasItsCursor, SavedBeforeReported, Sound, Present, Pending
<1>3. CASE mem' = Empty /\ open' = FALSE /\ recovered' = FALSE
    BY <1>1, <1>3
    DEF IInv, TypeOK, RecordLoads, AckHasItsCursor, SavedBeforeReported, Sound, Present, Pending
<1>4. CASE disk # NoRecord /\ Readable(disk) /\ mem' = Loaded(disk)
           /\ open' = TRUE /\ recovered' = FALSE
    <2>1. disk \in EngineState /\ Slots(disk) /\ LoadAccepts(disk)
        BY <1>4 DEF Readable, IInv, TypeOK
    <2>2. Sound(mem') /\ Covers(disk, mem')
        BY <1>4, <2>1, LoadedCovers
    <2>3. open => Covers(mem', mem)
        BY <1>4, <2>1, LoadedCovers DEF IInv, SavedBeforeReported, StoreConstants
    <2>4. IInv'
        BY <1>1, <1>4, <2>1, <2>2
        DEF StoreConstants, IInv, TypeOK, RecordLoads, AckHasItsCursor, SavedBeforeReported, Sound, Present, Pending
    <2> QED
        BY <2>3, <2>4
<1>5. CASE disk # NoRecord /\ ~Readable(disk) /\ mem' = Empty
           /\ open' = TRUE /\ recovered' = TRUE
    <2>1. disk = Damaged
        BY <1>5 DEF Readable, IInv, RecordLoads
    <2> QED
        BY <1>1, <1>5, <2>1
        DEF StoreConstants, IInv, TypeOK, RecordLoads, AckHasItsCursor, SavedBeforeReported, Sound, Present, Pending
<1> QED
    BY <1>2, <1>3, <1>4, <1>5 DEF Restart

LEMMA InitHolds == StoreConstants /\ Init => IInv
<1> SUFFICES ASSUME StoreConstants, Init PROVE IInv
    OBVIOUS
<1>1. ASSUME NEW x \in Version1Key
      PROVE  /\ x \in KeyState
             /\ x.pend = 0 <=> x.pval = NoValue
             /\ x.irev = 0 <=> x.ival = NoValue
             /\ ~x.present => x.ack = 0 /\ x.app = 0
    BY DEF Version1Key
<1>2. ASSUME NEW d \in Version1
      PROVE  d \in EngineState /\ Slots(d) /\ LoadAccepts(d)
    <2>1. d \in [Keys -> Version1Key] /\ LoadAccepts(d)
        BY DEF Version1
    <2>2. \A k \in Keys : d[k] \in Version1Key
        BY <2>1
    <2>3. d \in EngineState
        BY <1>1, <2>1, <2>2 DEF EngineState
    <2>4. Slots(d)
        BY <1>1, <2>2 DEF Slots
    <2> QED
        BY <2>1, <2>3, <2>4
<1>3. \/ disk = NoRecord
      \/ disk \in EngineState /\ Slots(disk) /\ LoadAccepts(disk)
    BY <1>2 DEF Init
<1> QED
    BY <1>3, EmptySound
    DEF StoreConstants, Init, IInv, TypeOK, RecordLoads, AckHasItsCursor, SavedBeforeReported, Sound, Present, Pending

\* Each call's answer "Ok" gives the covering state that Persist needs.
LEMMA StepKeeps ==
    ASSUME StoreConstants, IInv, Next
    PROVE  /\ IInv'
           /\ open /\ open' => Covers(mem', mem) \/ (disk = Damaged /\ mem' = Empty)
<1>0. Sound(mem)
    BY DEF IInv, TypeOK, RecordLoads, AckHasItsCursor, Sound, Present, Pending
<1>1. CASE \E k \in Keys, r \in Revisions \ {0}, v \in Values : PutDurableState(k, r, v)
    BY <1>0, <1>1, PutCovers, PersistKeeps DEF PutDurableState
<1>2. CASE \E k \in Keys, r \in Revisions \ {0}, v \in Values : AcceptIncomingState(k, r, v)
    BY <1>0, <1>2, AcceptCovers, PersistKeeps DEF AcceptIncomingState
<1>3. CASE \E k \in Keys, r \in Revisions \ {0} : AcknowledgeDurableState(k, r)
    BY <1>0, <1>3, AcknowledgeCovers, PersistKeeps DEF AcknowledgeDurableState
<1>4. CASE \E k \in Keys, r \in Revisions \ {0} : CommitIncomingState(k, r)
    BY <1>0, <1>4, CommitCovers, PersistKeeps DEF CommitIncomingState
<1>5. CASE \E peer \in [Keys -> PeerCursor] : ReconcilePeerCursors(peer)
    <2>1. PICK peer \in [Keys -> PeerCursor] : ReconcilePeerCursors(peer)
        BY <1>5
    <2>2. peer \in [Keys -> Cursor]
        BY DEF PeerCursor
    <2> QED
        BY <1>0, <2>1, <2>2, ReconcileCovers, PersistKeeps DEF ReconcilePeerCursors
<1>6. CASE Restart
    BY <1>6, RestartKeeps
<1>7. CASE Damage
    <2>1. \A k \in Keys : KeyNumbers(mem[k])
        BY <1>0, SoundNumbers DEF Sound
    <2>2. Covers(mem, mem)
        BY <2>1 DEF Covers, KeyNumbers
    <2> QED
        BY <1>7, <2>2
        DEF StoreConstants, Damage, IInv, TypeOK, RecordLoads, AckHasItsCursor, SavedBeforeReported, Pending
<1> QED
    BY <1>1, <1>2, <1>3, <1>4, <1>5, <1>6, <1>7 DEF Next

LEMMA Invariance ==
    ASSUME StoreConstants
    PROVE  Spec => []IInv
<1>1. IInv /\ [Next]_vars => IInv'
    <2> SUFFICES ASSUME IInv, [Next]_vars PROVE IInv'
        OBVIOUS
    <2>1. CASE Next
        BY <2>1, StepKeeps
    <2>2. CASE UNCHANGED vars
        BY <2>2
        DEF vars, IInv, TypeOK, RecordLoads, AckHasItsCursor, SavedBeforeReported, Pending
    <2> QED
        BY <2>1, <2>2
<1> QED
    BY <1>1, InitHolds, PTL DEF Spec

-----------------------------------------------------------------------------
(* Theorems.                                                               *)

\* The outbox, inbox and cursor slots stay well formed in memory and on the
\* store, through every call, failed save, damage and restart.
THEOREM EngineTypes ==
    ASSUME StoreConstants
    PROVE  Spec => []TypeOK
BY Invariance, PTL DEF IInv

\* LoadState accepts every record Persist can have written, a pending value never
\* waits for a cursor slot its ACK could be refused, and nothing that a call
\* reported as saved is missing from the record.
THEOREM EngineStoreSound ==
    ASSUME StoreConstants
    PROVE  Spec => []StoreSound
BY Invariance, PTL DEF IInv, StoreSound

\* No cursor goes back, no update is lost and no revision changes its value,
\* in a step of a call or across a restart on an undamaged record.
THEOREM EngineNeverTakesBack ==
    ASSUME StoreConstants
    PROVE  Spec => NothingTakenBack
<1> DEFINE
      Cursors == open /\ open' /\ disk # Damaged =>
        \A k \in Keys : mem'[k].ack >= mem[k].ack /\ mem'[k].app >= mem[k].app
      Updates == open /\ open' /\ disk # Damaged =>
        \A k \in Keys : mem[k].pend # 0 =>
            mem'[k].pend >= mem[k].pend \/ mem'[k].ack >= mem[k].pend
      OneValue == open /\ open' =>
        \A k \in Keys :
            /\ mem[k].pend # 0 /\ mem'[k].pend = mem[k].pend => mem'[k].pval = mem[k].pval
            /\ mem[k].irev # 0 /\ mem'[k].irev = mem[k].irev => mem'[k].ival = mem[k].ival
<1>1. IInv /\ IInv' /\ [Next]_vars => [Cursors]_vars /\ [Updates]_vars /\ [OneValue]_vars
    <2> SUFFICES ASSUME IInv, IInv', Next PROVE Cursors /\ Updates /\ OneValue
        OBVIOUS
    <2>1. open /\ open' => Covers(mem', mem) \/ (disk = Damaged /\ mem' = Empty)
        BY StepKeeps
    <2>2. \A k \in Keys : KeyNumbers(mem[k]) /\ KeyNumbers(mem'[k])
        BY SoundNumbers DEF IInv, TypeOK
    <2>3. Cursors /\ Updates
        BY <2>1, <2>2 DEF Covers, KeyNumbers
    <2>4. ASSUME Covers(mem', mem) PROVE OneValue
        <3>1. \A k \in Keys : mem'[k].pend # 0 => mem'[k].pend > mem'[k].ack
            BY DEF IInv, RecordLoads, LoadAccepts
        <3> QED
            BY <2>2, <2>4, <3>1 DEF Covers, KeyNumbers
    <2>5. ASSUME mem' = Empty PROVE OneValue
        BY <2>5 DEF Empty, NoEntry
    <2>6. ASSUME ~(open /\ open') PROVE OneValue
        BY <2>6
    <2> HIDE DEF Cursors, Updates, OneValue
    <2> QED
        BY <2>1, <2>3, <2>4, <2>5, <2>6
<1> QED
    BY <1>1, Invariance, PTL
    DEF Spec, NothingTakenBack, CursorsNeverRegress, NoUpdateLost, OneValuePerRevision

-----------------------------------------------------------------------------
(* The Wi-Fi radio.                                                        *)

Places == Netifs \cup {NoValue}

Objects ==
    [life : {"none", "live", "gone", "leaked"}, claimed : BOOLEAN, stopping : BOOLEAN,
     netif : Places, init : BOOLEAN, started : BOOLEAN, wifiHandler : BOOLEAN,
     ipHandler : BOOLEAN, error : BOOLEAN, ready : BOOLEAN, assoc : BOOLEAN, ip : BOOLEAN,
     mode : {"station", "scan", "ap"}, connect : BOOLEAN, scan : BOOLEAN, done : BOOLEAN,
     dns : Queries \cup {NoValue}, tls : BOOLEAN, http : BOOLEAN, clock : BOOLEAN]

QueryStates ==
    [at : {"free", "queued", "asked", "done"}, refs : 0..2, cancelled : BOOLEAN,
     result : {"pending", "ready", "failed"}]

Posted == [kind : Wifi!Kinds, netif : Places]

WifiTypes ==
    /\ wDriver \in [Drivers -> Objects] /\ wClaim \in BOOLEAN
    /\ wRadio \in [init : BOOLEAN, on : BOOLEAN, netif : Places, scan : BOOLEAN,
                   link : {"none", "connecting", "assoc", "ip"}]
    /\ wEvents \in Seq(Posted) /\ wQuery \in [Queries -> QueryStates] /\ wSessions \in Nat

\* An object that has no claim is called by nobody and asks nobody; one whose memory
\* was given back has no claim.
Quiet(v) ==
    /\ ~v.claimed => ~v.init /\ ~v.wifiHandler /\ ~v.ipHandler /\ v.dns = NoValue
    /\ v.life \in {"none", "gone"} => ~v.claimed

\* The radio's claim is that of one object.
OneClaim(dr, claim, radio) ==
    /\ claim <=> \E d \in Drivers : dr[d].claimed
    /\ \A d, e \in Drivers : dr[d].claimed /\ dr[e].claimed => d = e
    /\ radio.init => \E d \in Drivers : dr[d].claimed /\ dr[d].init

Asking(s) == IF s.at \in {"queued", "asked"} THEN 1 ELSE 0

\* Each reference of a query is its driver's or lwIP's.
Counted(dr, qs) ==
    \A q \in Queries :
        qs[q].refs = (IF \E d \in Drivers : dr[d].dns = q THEN 1 ELSE 0) + Asking(qs[q])

\* Sessions whose interface has an address, or is where one was that may be told of.
Given == wLeased \cup wShared

\* An object with an address, and one that an event in the loop may give it to, are of
\* such a session.
Leased(dr, evs, n, given) ==
    /\ \A i \in 1..Len(evs), d \in Drivers :
         evs[i].kind = "gotIp" /\ dr[d].claimed /\ dr[d].netif = evs[i].netif => n \in given
    /\ \A d \in Drivers : dr[d].claimed /\ dr[d].ip => n \in given

WifiInv ==
    /\ WifiTypes
    /\ \A d \in Drivers : Quiet(wDriver[d])
    /\ OneClaim(wDriver, wClaim, wRadio)
    /\ Counted(wDriver, wQuery)
    /\ Leased(wDriver, wEvents, wSessions, Given)

-----------------------------------------------------------------------------
\* What a call or an event that neither claims nor lets go leaves of an object.
Same(v, w) ==
    /\ w \in Objects
    /\ w.life = v.life /\ w.claimed = v.claimed /\ w.init = v.init /\ w.netif = v.netif
    /\ w.wifiHandler = v.wifiHandler /\ w.ipHandler = v.ipHandler /\ w.dns = v.dns

\* Such a step keeps the claim, the references and the addresses.
LEMMA SameKeeps ==
    ASSUME WifiInv, NEW dr \in [Drivers -> Objects],
           \A d \in Drivers : Same(wDriver[d], dr[d]),
           \A d \in Drivers : dr[d].claimed /\ dr[d].ip
                                => wDriver[d].ip \/ wSessions \in Given
    PROVE  /\ \A d \in Drivers : Quiet(dr[d])
           /\ OneClaim(dr, wClaim, wRadio)
           /\ Counted(dr, wQuery)
           /\ Leased(dr, wEvents, wSessions, Given)
<1>1. \A d \in Drivers : Quiet(dr[d])
    BY DEF WifiInv, Same, Quiet
<1>2. OneClaim(dr, wClaim, wRadio)
    BY DEF WifiInv, Same, OneClaim
<1>3. Counted(dr, wQuery)
    <2>1. \A d \in Drivers : dr[d].dns = wDriver[d].dns
        BY DEF Same
    <2>2. \A q \in Queries : (\E d \in Drivers : dr[d].dns = q)
                               <=> (\E d \in Drivers : wDriver[d].dns = q)
        BY <2>1
    <2> QED BY <2>2 DEF WifiInv, Counted
<1>4. Leased(dr, wEvents, wSessions, Given)
    BY DEF WifiInv, Same, Leased
<1> QED BY <1>1, <1>2, <1>3, <1>4

\* A poll of one object, which leaves the rest as it is.
LEMMA PollKeeps ==
    ASSUME WifiInv, NEW d \in Drivers, NEW w, Same(wDriver[d], w), w.ip = wDriver[d].ip,
           wDriver' = [wDriver EXCEPT ![d] = w],
           wRadio' \in [init : {wRadio.init}, on : BOOLEAN, netif : Places, scan : BOOLEAN,
                        link : {"none", "connecting", "assoc", "ip"}],
           UNCHANGED <<wClaim, wEvents, wQuery, wSessions, wLeased, wShared>>
    PROVE  WifiInv'
<1>1. wDriver' \in [Drivers -> Objects] /\ \A e \in Drivers : Same(wDriver[e], wDriver'[e])
    BY DEF WifiInv, WifiTypes, Same
<1>2. \A e \in Drivers : wDriver'[e].ip = wDriver[e].ip
    BY DEF WifiInv, WifiTypes
<1>3. /\ \A e \in Drivers : Quiet(wDriver'[e])
      /\ OneClaim(wDriver', wClaim, wRadio)
      /\ Counted(wDriver', wQuery)
      /\ Leased(wDriver', wEvents, wSessions, Given)
    BY <1>1, <1>2, SameKeeps
<1>4. WifiTypes'
    BY <1>1 DEF WifiInv, WifiTypes
<1>5. OneClaim(wDriver', wClaim', wRadio') /\ Counted(wDriver', wQuery')
    <2>1. wRadio'.init = wRadio.init
        OBVIOUS
    <2> QED BY <1>3, <2>1 DEF OneClaim
<1>6. Leased(wDriver', wEvents', wSessions', Given')
    BY <1>3 DEF Given
<1> QED BY <1>3, <1>4, <1>5, <1>6 DEF WifiInv

\* The flags of an object are its own.
LEMMA FlagsAreSame ==
    ASSUME NEW v \in Objects, NEW b \in BOOLEAN, NEW c \in BOOLEAN,
           NEW w \in {[v EXCEPT !.connect = b], [v EXCEPT !.scan = b], [v EXCEPT !.done = b],
                      [v EXCEPT !.clock = b], [v EXCEPT !.tls = b],
                      [v EXCEPT !.http = b, !.clock = c], [v EXCEPT !.connect = b, !.error = c],
                      [v EXCEPT !.done = b, !.scan = c]}
    PROVE  Same(v, w) /\ w.ip = v.ip
<1>1. CASE w \in {[v EXCEPT !.connect = b], [v EXCEPT !.scan = b], [v EXCEPT !.done = b]}
    BY <1>1 DEF Same, Objects
<1>2. CASE w \in {[v EXCEPT !.clock = b], [v EXCEPT !.tls = b]}
    BY <1>2 DEF Same, Objects
<1>3. CASE w = [v EXCEPT !.http = b, !.clock = c]
    BY <1>3 DEF Same, Objects
<1>4. CASE w = [v EXCEPT !.connect = b, !.error = c]
    BY <1>4 DEF Same, Objects
<1>5. CASE w = [v EXCEPT !.done = b, !.scan = c]
    BY <1>5 DEF Same, Objects
<1> QED BY <1>1, <1>2, <1>3, <1>4, <1>5

\* The polls of an object.
LEMMA PollsKeep ==
    ASSUME WifiInv, NEW d \in Drivers,
           \/ Wifi!PollAssociation(d) \/ Wifi!PollScan(d) \/ Wifi!OpenTls(d)
           \/ Wifi!Fetch(d) \/ Wifi!TakeClockSample(d)
    PROVE  WifiInv'
<1> DEFINE v == wDriver[d]
<1>1. v \in Objects /\ wRadio \in [init : BOOLEAN, on : BOOLEAN, netif : Places, scan : BOOLEAN,
                                   link : {"none", "connecting", "assoc", "ip"}]
    BY DEF WifiInv, WifiTypes
<1>2. wDriver \in [Drivers -> Objects]
    BY DEF WifiInv, WifiTypes
<1> DEFINE radios == [init : {wRadio.init}, on : BOOLEAN, netif : Places, scan : BOOLEAN,
                      link : {"none", "connecting", "assoc", "ip"}]
<1>3. wRadio \in radios /\ [wRadio EXCEPT !.link = "connecting"] \in radios
      /\ [wRadio EXCEPT !.scan = TRUE] \in radios
    BY <1>1
<1>4. ASSUME Wifi!PollAssociation(d) PROVE WifiInv'
    <2>1. wRadio' \in radios /\ UNCHANGED <<wClaim, wEvents, wQuery, wSessions, wLeased, wShared>>
        BY <1>3, <1>4 DEF Wifi!PollAssociation
    <2>2. \/ wDriver' = [wDriver EXCEPT ![d] = [v EXCEPT !.connect = TRUE]]
          \/ wDriver' = [wDriver EXCEPT ![d] = [v EXCEPT !.connect = TRUE, !.error = TRUE]]
        BY <1>2, <1>4 DEF Wifi!PollAssociation
    <2>3. PICK w \in {[v EXCEPT !.connect = TRUE], [v EXCEPT !.connect = TRUE, !.error = TRUE]} :
            wDriver' = [wDriver EXCEPT ![d] = w]
        BY <2>2
    <2>4. Same(v, w) /\ w.ip = v.ip
        BY <1>1, <2>3, FlagsAreSame
    <2> HIDE DEF v
    <2> QED BY <2>1, <2>3, <2>4, PollKeeps DEF v
<1>5. ASSUME Wifi!PollScan(d) PROVE WifiInv'
    <2>1. wRadio' \in radios /\ UNCHANGED <<wClaim, wEvents, wQuery, wSessions, wLeased, wShared>>
        BY <1>3, <1>5 DEF Wifi!PollScan
    <2>2. \/ wDriver' = [wDriver EXCEPT ![d] = [v EXCEPT !.done = FALSE, !.scan = TRUE]]
          \/ wDriver' = [wDriver EXCEPT ![d] = [v EXCEPT !.done = FALSE]]
          \/ wDriver' = [wDriver EXCEPT ![d] = [v EXCEPT !.scan = FALSE]]
        BY <1>2, <1>5 DEF Wifi!PollScan
    <2>3. PICK w \in {[v EXCEPT !.done = FALSE, !.scan = TRUE], [v EXCEPT !.done = FALSE],
                      [v EXCEPT !.scan = FALSE]} :
            wDriver' = [wDriver EXCEPT ![d] = w]
        BY <2>2
    <2>4. Same(v, w) /\ w.ip = v.ip
        BY <1>1, <2>3, FlagsAreSame
    <2> HIDE DEF v
    <2> QED BY <2>1, <2>3, <2>4, PollKeeps DEF v
<1>6. ASSUME Wifi!OpenTls(d) \/ Wifi!Fetch(d) \/ Wifi!TakeClockSample(d) PROVE WifiInv'
    <2>1. wRadio' \in radios /\ UNCHANGED <<wClaim, wEvents, wQuery, wSessions, wLeased, wShared>>
        BY <1>3, <1>6 DEF Wifi!OpenTls, Wifi!Fetch, Wifi!TakeClockSample
    <2>2. PICK b \in BOOLEAN :
          \/ wDriver' = [wDriver EXCEPT ![d] = [v EXCEPT !.tls = TRUE]]
          \/ wDriver' = [wDriver EXCEPT ![d] = [v EXCEPT !.http = TRUE, !.clock = b]]
          \/ wDriver' = [wDriver EXCEPT ![d] = [v EXCEPT !.clock = FALSE]]
        BY <1>2, <1>6 DEF Wifi!OpenTls, Wifi!Fetch, Wifi!TakeClockSample
    <2>3. PICK w \in {[v EXCEPT !.tls = TRUE], [v EXCEPT !.http = TRUE, !.clock = b],
                      [v EXCEPT !.clock = FALSE]} :
            wDriver' = [wDriver EXCEPT ![d] = w]
        BY <2>2
    <2>4. Same(v, w) /\ w.ip = v.ip
        <3>1. CASE w = [v EXCEPT !.tls = TRUE]
            BY <1>1, <3>1, FlagsAreSame
        <3>2. CASE w = [v EXCEPT !.http = TRUE, !.clock = b]
            BY <1>1, <2>2, <3>2, FlagsAreSame
        <3>3. CASE w = [v EXCEPT !.clock = FALSE]
            BY <1>1, <3>3, FlagsAreSame
        <3> QED BY <2>3, <3>1, <3>2, <3>3
    <2> HIDE DEF v
    <2> QED BY <2>1, <2>3, <2>4, PollKeeps DEF v
<1> QED BY <1>4, <1>5, <1>6

-----------------------------------------------------------------------------
\* A handler changes flags, and takes an address only from an event of its interface.
LEMMA HandledIsSame ==
    ASSUME NEW d \in Drivers, wDriver[d] \in Objects, NEW e \in Posted
    PROVE  /\ Same(wDriver[d], Wifi!Handled(d, e))
           /\ Wifi!Handled(d, e).ip
                => wDriver[d].ip \/ (e.kind = "gotIp" /\ e.netif = wDriver[d].netif)
<1> DEFINE v == wDriver[d]
           w == Wifi!Handled(d, e)
<1>1. v \in Objects /\ e.kind \in Wifi!Kinds
    BY DEF Posted
<1>2. CASE w = v
    BY <1>1, <1>2 DEF Same
<1>3. CASE w # v
    <2>1. \/ e.kind = "start" /\ w = [v EXCEPT !.ready = TRUE]
          \/ e.kind = "stop" /\ w = [v EXCEPT !.ready = FALSE, !.error = TRUE]
          \/ e.kind = "connected" /\ w = [v EXCEPT !.assoc = TRUE]
          \/ e.kind = "disconnected"
             /\ w = [v EXCEPT !.assoc = FALSE, !.ip = FALSE, !.error = TRUE]
          \/ e.kind = "scanDone" /\ w = [v EXCEPT !.done = TRUE]
          \/ e.kind = "gotIp" /\ w = [v EXCEPT !.ip = v.ip \/ Wifi!Ours(d, e)]
          \/ e.kind = "lostIp" /\ w = [v EXCEPT !.ip = FALSE, !.error = TRUE]
        BY <1>1, <1>3 DEF Wifi!Handled, Wifi!Kinds
    <2> HIDE DEF v, w
    <2>2. CASE w = [v EXCEPT !.ready = TRUE]
        BY <1>1, <2>2 DEF Same, Objects, v, w
    <2>3. CASE w = [v EXCEPT !.ready = FALSE, !.error = TRUE]
        BY <1>1, <2>3 DEF Same, Objects, v, w
    <2>4. CASE w = [v EXCEPT !.assoc = TRUE]
        BY <1>1, <2>4 DEF Same, Objects, v, w
    <2>5. CASE w = [v EXCEPT !.assoc = FALSE, !.ip = FALSE, !.error = TRUE]
        BY <1>1, <2>5 DEF Same, Objects, v, w
    <2>6. CASE w = [v EXCEPT !.done = TRUE]
        BY <1>1, <2>6 DEF Same, Objects, v, w
    <2>7. CASE e.kind = "gotIp" /\ w = [v EXCEPT !.ip = v.ip \/ Wifi!Ours(d, e)]
        <3>1. (v.ip \/ Wifi!Ours(d, e)) \in BOOLEAN
            BY <1>1 DEF Objects
        <3>2. Wifi!Ours(d, e) <=> e.netif = v.netif
            BY DEF Wifi!Ours, v
        <3>3. PICK b \in BOOLEAN : b <=> (v.ip \/ Wifi!Ours(d, e))
            BY <3>1
        <3>4. w = [v EXCEPT !.ip = b]
            BY <2>7, <3>1, <3>3
        <3>5. Same(v, w) /\ w.ip = b
            BY <1>1, <3>4 DEF Same, Objects
        <3> QED BY <2>7, <3>2, <3>3, <3>5 DEF v, w
    <2>8. CASE w = [v EXCEPT !.ip = FALSE, !.error = TRUE]
        BY <1>1, <2>8 DEF Same, Objects, v, w
    <2> QED BY <2>1, <2>2, <2>3, <2>4, <2>5, <2>6, <2>7, <2>8 DEF v, w
<1> QED BY <1>2, <1>3

\* An event reaches the objects.
LEMMA DeliverKeeps ==
    ASSUME WifiInv, Wifi!Deliver
    PROVE  WifiInv'
<1> DEFINE e == Head(wEvents)
<1>1. wEvents \in Seq(Posted) /\ wEvents # <<>> /\ wDriver \in [Drivers -> Objects]
    BY DEF WifiInv, WifiTypes, Wifi!Deliver
<1>2. e \in Posted /\ wEvents' \in Seq(Posted) /\ Len(wEvents) \in Nat /\ Len(wEvents) > 0
      /\ e = wEvents[1] /\ Len(wEvents') = Len(wEvents) - 1
      /\ \A i \in 1..Len(wEvents') : wEvents'[i] = wEvents[i + 1]
    BY <1>1 DEF Wifi!Deliver
<1>3. \A d \in Drivers : wDriver'[d] = Wifi!Handled(d, e)
    BY DEF Wifi!Deliver
<1>4. \A d \in Drivers :
        /\ Same(wDriver[d], wDriver'[d])
        /\ wDriver'[d].ip => wDriver[d].ip \/ (e.kind = "gotIp" /\ e.netif = wDriver[d].netif)
    <2> HIDE DEF e
    <2> QED BY <1>1, <1>2, <1>3, HandledIsSame
<1>5. wDriver' \in [Drivers -> Objects]
    <2>1. wDriver' = [d \in Drivers |-> Wifi!Handled(d, e)]
        BY DEF Wifi!Deliver
    <2>2. \A d \in Drivers : Wifi!Handled(d, e) \in Objects
        BY <1>3, <1>4 DEF Same
    <2> HIDE DEF e
    <2> QED BY <2>1, <2>2
<1>6. \A d \in Drivers : e.kind = "gotIp" /\ wDriver[d].claimed /\ e.netif = wDriver[d].netif
                           => wSessions \in Given
    <2>1. 1 \in 1..Len(wEvents)
        BY <1>2
    <2> QED BY <1>2, <2>1 DEF WifiInv, Leased
<1>7. \A d \in Drivers : wDriver'[d].claimed /\ wDriver'[d].ip
                           => wDriver[d].ip \/ wSessions \in Given
    BY <1>4, <1>6 DEF Same
<1>8. /\ \A d \in Drivers : Quiet(wDriver'[d])
      /\ OneClaim(wDriver', wClaim, wRadio)
      /\ Counted(wDriver', wQuery)
      /\ Leased(wDriver', wEvents, wSessions, Given)
    BY <1>4, <1>5, <1>7, SameKeeps
<1>9. UNCHANGED <<wClaim, wRadio, wQuery, wSessions, wLeased, wShared>>
    BY DEF Wifi!Deliver
<1>10. Leased(wDriver', wEvents', wSessions', Given')
    <2>1. \A i \in 1..Len(wEvents') : i + 1 \in 1..Len(wEvents)
        BY <1>2
    <2> QED BY <1>2, <1>8, <1>9, <2>1 DEF Leased, Given
<1> QED BY <1>2, <1>5, <1>8, <1>9, <1>10 DEF WifiInv, WifiTypes

\* An address is told of in a session that was given one.
LEMMA PostKeeps ==
    ASSUME NEW evs \in Seq(Posted), NEW e \in Posted, NEW given, NEW n, NEW dr,
           Leased(dr, evs, n, given), NEW more, given \subseteq more,
           e.kind = "gotIp" => n \in more
    PROVE  /\ Append(evs, e) \in Seq(Posted) /\ Leased(dr, Append(evs, e), n, more)
           /\ Leased(dr, evs, n, more)
<1>1. /\ Append(evs, e) \in Seq(Posted) /\ Len(evs) \in Nat
      /\ Len(Append(evs, e)) = Len(evs) + 1
      /\ Append(evs, e)[Len(evs) + 1] = e
      /\ \A i \in 1..Len(evs) : Append(evs, e)[i] = evs[i]
    OBVIOUS
<1>2. \A i \in 1..(Len(evs) + 1) : i \in 1..Len(evs) \/ i = Len(evs) + 1
    BY <1>1
<1> QED BY <1>1, <1>2 DEF Leased

\* The radio and what it posts.
LEMMA RadioStepKeeps ==
    ASSUME WifiInv, Wifi!RadioStep
    PROVE  WifiInv'
<1>1. /\ wRadio \in [init : BOOLEAN, on : BOOLEAN, netif : Places, scan : BOOLEAN,
                     link : {"none", "connecting", "assoc", "ip"}]
      /\ wEvents \in Seq(Posted) /\ Leased(wDriver, wEvents, wSessions, Given)
    BY DEF WifiInv, WifiTypes
<1>2. PICK kind \in {"connected", "gotIp", "lostIp", "disconnected", "scanDone"} :
        /\ wEvents' = Append(wEvents, [kind |-> kind, netif |-> wRadio.netif])
        /\ wLeased' = IF kind = "gotIp" THEN wLeased \cup {wSessions} ELSE wLeased
    BY DEF Wifi!RadioStep, Wifi!Post
<1>3. /\ wRadio' \in [init : {wRadio.init}, on : BOOLEAN, netif : Places, scan : BOOLEAN,
                      link : {"none", "connecting", "assoc", "ip"}]
      /\ UNCHANGED <<wDriver, wClaim, wQuery, wSessions, wShared>>
    BY <1>1 DEF Wifi!RadioStep
<1> DEFINE e == [kind |-> kind, netif |-> wRadio.netif]
<1>4. e \in Posted /\ (e.kind = "gotIp" => wSessions \in Given') /\ Given \subseteq Given'
    BY <1>1, <1>2, <1>3 DEF Posted, Wifi!Kinds, Given
<1>5. wEvents' \in Seq(Posted) /\ Leased(wDriver, wEvents', wSessions, Given')
    <2> HIDE DEF e
    <2>1. wEvents' = Append(wEvents, e)
        BY <1>2 DEF e
    <2> QED BY <1>1, <1>4, <2>1, PostKeeps
<1>6. OneClaim(wDriver', wClaim', wRadio')
    BY <1>3 DEF WifiInv, OneClaim
<1>7. WifiTypes'
    BY <1>1, <1>3, <1>5 DEF WifiInv, WifiTypes
<1>8. Counted(wDriver', wQuery') /\ \A d \in Drivers : Quiet(wDriver'[d])
    BY <1>3 DEF WifiInv
<1> QED BY <1>3, <1>5, <1>6, <1>7, <1>8 DEF WifiInv

-----------------------------------------------------------------------------
\* A free query that is dropped leaves the others alone; lwIP's part in one ends.
LEMMA QueryKeeps ==
    ASSUME WifiInv, NEW q \in Queries, NEW s \in QueryStates,
           s.refs - Asking(s) = wQuery[q].refs - Asking(wQuery[q]),
           wQuery' = [wQuery EXCEPT ![q] = s],
           UNCHANGED <<wDriver, wClaim, wRadio, wEvents, wSessions, wLeased, wShared>>
    PROVE  WifiInv'
<1>1. wQuery \in [Queries -> QueryStates] /\ wQuery' \in [Queries -> QueryStates]
    BY DEF WifiInv, WifiTypes
<1>2. Counted(wDriver, wQuery')
    <2> SUFFICES ASSUME NEW p \in Queries
                 PROVE wQuery'[p].refs = (IF \E d \in Drivers : wDriver[d].dns = p THEN 1 ELSE 0)
                                         + Asking(wQuery'[p])
        BY DEF Counted
    <2> DEFINE held == IF \E d \in Drivers : wDriver[d].dns = p THEN 1 ELSE 0
    <2>1. held \in Nat /\ wQuery[p].refs = held + Asking(wQuery[p])
        BY DEF WifiInv, Counted
    <2> HIDE DEF held
    <2>2. CASE p # q
        BY <1>1, <2>1, <2>2 DEF held
    <2>3. CASE p = q
        <3>1. wQuery'[p] = s
            BY <1>1, <2>3
        <3>2. s.refs \in Int /\ Asking(s) \in Int /\ Asking(wQuery[q]) \in Int
              /\ wQuery[q].refs \in Int
            BY <1>1 DEF QueryStates, Asking
        <3>3. s.refs = held + Asking(s)
            BY <2>1, <2>3, <3>2
        <3> QED BY <3>1, <3>3 DEF held
    <2> QED BY <2>2, <2>3
<1> QED BY <1>1, <1>2 DEF WifiInv, WifiTypes, OneClaim, Leased, Given

\* lwIP takes a query, or is done with it.
LEMMA LookupsKeep ==
    ASSUME WifiInv, NEW q \in Queries, Wifi!Lookup(q) \/ Wifi!Complete(q)
    PROVE  WifiInv'
<1> DEFINE s0 == wQuery[q]
<1>1. s0 \in QueryStates /\ s0.at \in {"queued", "asked"} /\ s0.refs # 0
    <2>1. s0 \in QueryStates /\ s0.at \in {"queued", "asked"}
        BY DEF WifiInv, WifiTypes, Wifi!Lookup, Wifi!Complete
    <2>2. s0.refs = (IF \E d \in Drivers : wDriver[d].dns = q THEN 1 ELSE 0) + 1
        BY <2>1 DEF WifiInv, Counted, Asking
    <2> QED BY <2>1, <2>2
<1>2. PICK s : /\ wQuery' = [wQuery EXCEPT ![q] = s]
               /\ \/ s = [s0 EXCEPT !.at = "asked"]
                  \/ s = Wifi!Release([s0 EXCEPT !.at = "done"])
                  \/ \E r \in {"ready", "failed"} :
                       s = Wifi!Release([s0 EXCEPT !.at = "done", !.result = r])
    <2>1. CASE Wifi!Lookup(q)
        BY <2>1 DEF Wifi!Lookup, Wifi!Answer
    <2>2. CASE Wifi!Complete(q)
        <3>1. PICK r \in {"ready", "failed"} :
                wQuery' = [wQuery EXCEPT ![q] = Wifi!Answer(wQuery[q], r)]
            BY <2>2 DEF Wifi!Complete, WifiInv, WifiTypes
        <3> QED BY <3>1 DEF Wifi!Answer
    <2> QED BY <2>1, <2>2
<1>3. UNCHANGED <<wDriver, wClaim, wRadio, wEvents, wSessions, wLeased, wShared>>
    BY DEF Wifi!Lookup, Wifi!Complete
<1>4. s \in QueryStates /\ s.refs - Asking(s) = s0.refs - Asking(s0)
    <2> HIDE DEF s0
    <2>1. CASE s = [s0 EXCEPT !.at = "asked"]
        BY <1>1, <2>1 DEF QueryStates, Asking
    <2>2. ASSUME NEW t \in QueryStates, t.at = "done", t.refs = s0.refs, s = Wifi!Release(t)
          PROVE  s \in QueryStates /\ s.refs - Asking(s) = s0.refs - Asking(s0)
        <3>1. CASE t.refs = 1
            BY <1>1, <2>2, <3>1 DEF QueryStates, Asking, Wifi!Release, Wifi!Free
        <3>2. CASE t.refs = 2
            BY <1>1, <2>2, <3>2 DEF QueryStates, Asking, Wifi!Release
        <3> QED BY <1>1, <2>2, <3>1, <3>2 DEF QueryStates
    <2>3. CASE s = Wifi!Release([s0 EXCEPT !.at = "done"])
        <3>1. [s0 EXCEPT !.at = "done"] \in QueryStates
              /\ [s0 EXCEPT !.at = "done"].at = "done"
              /\ [s0 EXCEPT !.at = "done"].refs = s0.refs
            BY <1>1 DEF QueryStates
        <3> QED BY <2>2, <2>3, <3>1
    <2>4. ASSUME NEW r \in {"ready", "failed"},
                 s = Wifi!Release([s0 EXCEPT !.at = "done", !.result = r])
          PROVE  s \in QueryStates /\ s.refs - Asking(s) = s0.refs - Asking(s0)
        <3>1. [s0 EXCEPT !.at = "done", !.result = r] \in QueryStates
              /\ [s0 EXCEPT !.at = "done", !.result = r].at = "done"
              /\ [s0 EXCEPT !.at = "done", !.result = r].refs = s0.refs
            BY <1>1 DEF QueryStates
        <3> QED BY <2>2, <2>4, <3>1
    <2> QED BY <1>2, <2>1, <2>3, <2>4
<1> QED BY <1>2, <1>3, <1>4, QueryKeeps

-----------------------------------------------------------------------------
\* An object without a claim is made or deleted.
LEMMA UnclaimedKeeps ==
    ASSUME WifiInv, NEW d \in Drivers, ~wDriver[d].claimed,
           NEW w \in Objects, Quiet(w), ~w.claimed, wDriver' = [wDriver EXCEPT ![d] = w],
           UNCHANGED <<wClaim, wRadio, wEvents, wQuery, wSessions, wLeased, wShared>>
    PROVE  WifiInv'
<1>1. wDriver \in [Drivers -> Objects] /\ wDriver' \in [Drivers -> Objects]
      /\ wDriver'[d] = w /\ \A e \in Drivers : e # d => wDriver'[e] = wDriver[e]
    BY DEF WifiInv, WifiTypes
<1>2. w.dns = NoValue /\ wDriver[d].dns = NoValue
    BY DEF WifiInv, Quiet
<1>3. \A e \in Drivers : Quiet(wDriver'[e])
    BY <1>1 DEF WifiInv
<1>4. \A e \in Drivers : /\ wDriver'[e].claimed = wDriver[e].claimed
                         /\ wDriver'[e].claimed => wDriver'[e] = wDriver[e]
                         /\ wDriver'[e].dns = wDriver[e].dns
    BY <1>1, <1>2 DEF Objects
<1>5. OneClaim(wDriver', wClaim, wRadio)
    BY <1>4 DEF WifiInv, OneClaim
<1>6. Counted(wDriver', wQuery)
    <2>1. \A q \in Queries : (\E e \in Drivers : wDriver'[e].dns = q)
                               <=> (\E e \in Drivers : wDriver[e].dns = q)
        BY <1>4
    <2> QED BY <2>1 DEF WifiInv, Counted
<1>7. Leased(wDriver', wEvents', wSessions', Given')
    BY <1>4 DEF WifiInv, Leased, Given
<1> QED BY <1>1, <1>3, <1>5, <1>6, <1>7 DEF WifiInv, WifiTypes

\* A new object, and one that is deleted unused.
LEMMA FreshIsQuiet ==
    /\ Wifi!Fresh \in Objects /\ Quiet(Wifi!Fresh) /\ ~Wifi!Fresh.claimed
    /\ \A l \in {"none", "gone"} :
         /\ [Wifi!Fresh EXCEPT !.life = l] \in Objects
         /\ Quiet([Wifi!Fresh EXCEPT !.life = l])
         /\ ~[Wifi!Fresh EXCEPT !.life = l].claimed
BY DEF Wifi!Fresh, Objects, Places, Quiet

\* An object takes the radio; whatever fails, the claim is its own.
LEMMA StartKeeps ==
    ASSUME WifiInv, NEW d \in Drivers, NEW mode \in {"station", "scan", "ap"},
           Wifi!Start(d, mode)
    PROVE  WifiInv'
<1> DEFINE v == wDriver[d]
<1> DEFINE at(made, place) == IF made >= 1 THEN place ELSE NoValue
<1>1. PICK made \in 0..5, place \in Netifs :
        /\ wDriver' = [wDriver EXCEPT ![d] =
             [@ EXCEPT !.claimed = TRUE, !.stopping = FALSE, !.mode = mode,
                       !.netif = at(made, place),
                       !.init = made >= 2, !.wifiHandler = made >= 3,
                       !.ipHandler = made >= 4, !.started = made = 5, !.error = made < 5,
                       !.ready = FALSE, !.assoc = FALSE, !.ip = FALSE, !.done = FALSE,
                       !.clock = FALSE]]
        /\ wRadio' = [Wifi!NoRadio EXCEPT !.init = made >= 2, !.on = made = 5,
                                          !.netif = at(made, place)]
        /\ wEvents' = IF made < 5 THEN wEvents
                      ELSE Append(wEvents, [kind |-> "start", netif |-> at(made, place)])
        /\ wShared' = IF Wifi!Lingers(at(made, place)) THEN wShared \cup {wSessions + 1}
                      ELSE wShared
    BY DEF Wifi!Start
<1>2. /\ v.life = "live" /\ ~v.claimed /\ ~wClaim /\ wSessions' = wSessions + 1
      /\ wClaim' = TRUE
      /\ UNCHANGED <<wQuery, wLeased>>
    BY DEF Wifi!Start
<1>3. wDriver \in [Drivers -> Objects] /\ v \in Objects /\ wSessions \in Nat
      /\ wEvents \in Seq(Posted)
    BY DEF WifiInv, WifiTypes
<1> DEFINE w == wDriver'[d]
<1>4. PICK n \in Places, i \in BOOLEAN, x \in BOOLEAN, y \in BOOLEAN, z \in BOOLEAN, f \in BOOLEAN :
        /\ n = at(made, place)
        /\ i = (made >= 2) /\ x = (made >= 3) /\ y = (made >= 4) /\ z = (made = 5)
        /\ f = (made < 5)
    <2>1. at(made, place) \in Places
        BY DEF Places
    <2>2. (made >= 2) \in BOOLEAN /\ (made >= 3) \in BOOLEAN /\ (made >= 4) \in BOOLEAN
          /\ (made = 5) \in BOOLEAN /\ (made < 5) \in BOOLEAN
        OBVIOUS
    <2> QED BY <2>1, <2>2
<1>5. w = [v EXCEPT !.claimed = TRUE, !.stopping = FALSE, !.mode = mode, !.netif = n,
                    !.init = i, !.wifiHandler = x, !.ipHandler = y, !.started = z,
                    !.error = f, !.ready = FALSE, !.assoc = FALSE, !.ip = FALSE,
                    !.done = FALSE, !.clock = FALSE]
    BY <1>1, <1>3, <1>4
<1>6. /\ w \in Objects /\ w.claimed /\ w.init = i /\ ~w.ip /\ w.dns = v.dns /\ w.life = v.life
      /\ w.netif = n
    <2> HIDE DEF w, v
    <2>1. w = [life |-> v.life, claimed |-> TRUE, stopping |-> FALSE, netif |-> n, init |-> i,
               started |-> z, wifiHandler |-> x, ipHandler |-> y, error |-> f,
               ready |-> FALSE, assoc |-> FALSE, ip |-> FALSE, mode |-> mode,
               connect |-> v.connect, scan |-> v.scan, done |-> FALSE, dns |-> v.dns,
               tls |-> v.tls, http |-> v.http, clock |-> FALSE]
        BY <1>3, <1>5 DEF Objects
    <2> QED BY <1>3, <2>1 DEF Objects
<1>7. /\ wDriver' \in [Drivers -> Objects]
      /\ \A e \in Drivers : e # d => wDriver'[e] = wDriver[e]
    BY <1>1, <1>3, <1>6
<1>8. v.dns = NoValue /\ \A e \in Drivers : ~wDriver[e].claimed
    BY <1>2 DEF WifiInv, OneClaim, Quiet
<1>9. wRadio'.init = i
      /\ wRadio' \in [init : BOOLEAN, on : BOOLEAN, netif : Places, scan : BOOLEAN,
                      link : {"none", "connecting", "assoc", "ip"}]
    <2>1. wRadio' = [Wifi!NoRadio EXCEPT !.init = i, !.on = z, !.netif = n]
        BY <1>1, <1>4
    <2>2. wRadio' = [init |-> i, on |-> z, link |-> "none", netif |-> n,
                     scan |-> FALSE]
        BY <2>1 DEF Wifi!NoRadio
    <2> QED BY <1>3, <2>2
<1> HIDE DEF w, v
<1>10. \A e \in Drivers : Quiet(wDriver'[e])
    BY <1>2, <1>6, <1>7 DEF WifiInv, Quiet, w
<1>11. OneClaim(wDriver', wClaim', wRadio')
    BY <1>2, <1>6, <1>7, <1>8, <1>9 DEF OneClaim, w
<1>12. Counted(wDriver', wQuery')
    <2>1. \A e \in Drivers : wDriver'[e].dns = wDriver[e].dns
        BY <1>6, <1>7 DEF v, w
    <2>2. \A q \in Queries : (\E e \in Drivers : wDriver'[e].dns = q)
                               <=> (\E e \in Drivers : wDriver[e].dns = q)
        BY <2>1
    <2> QED BY <1>2, <2>2 DEF WifiInv, Counted
<1>13. wEvents' \in Seq(Posted) /\ Leased(wDriver', wEvents', wSessions', Given')
    <2>1. Leased(wDriver', wEvents, wSessions', Given')
        <3>1. \A e \in Drivers : wDriver'[e].claimed => e = d
            BY <1>7, <1>8
        <3>2. (\E k \in 1..Len(wEvents) : wEvents[k].kind = "gotIp" /\ wEvents[k].netif = n)
                 => wSessions' \in Given'
            BY <1>1, <1>2, <1>4 DEF Wifi!Lingers, Given
        <3>3. wDriver'[d].netif = n /\ ~wDriver'[d].ip
            BY <1>6 DEF w
        <3> QED BY <3>1, <3>2, <3>3 DEF Leased
    <2> DEFINE e == [kind |-> "start", netif |-> n]
    <2>2. e \in Posted /\ e.kind # "gotIp"
        BY <1>4 DEF Posted, Wifi!Kinds
    <2>3. CASE wEvents' = wEvents
        BY <1>3, <2>1, <2>3
    <2>4. CASE wEvents' = Append(wEvents, e)
        <3> HIDE DEF e
        <3> QED BY <1>3, <2>1, <2>2, <2>4, PostKeeps
    <2> QED BY <1>1, <1>4, <2>3, <2>4
<1> QED BY <1>2, <1>3, <1>7, <1>9, <1>10, <1>11, <1>12, <1>13 DEF WifiInv, WifiTypes

-----------------------------------------------------------------------------
\* What Impl.Stop leaves, whichever of its steps fails.
LetGo(v, r) ==
    /\ r[1] \in BOOLEAN /\ r[2] \in Objects
    /\ r[2].claimed <=> ~r[1]
    /\ r[1] => ~r[2].init /\ ~r[2].wifiHandler /\ ~r[2].ipHandler
    /\ r[2].dns = NoValue /\ r[2].life = v.life
    /\ r[2].claimed => r[2].netif = v.netif /\ r[2].ip = v.ip

LEMMA StoppedLetsGo ==
    ASSUME NEW d \in Drivers, wDriver[d] \in Objects, wDriver[d].claimed,
           NEW r \in Wifi!Stopped(d)
    PROVE  LetGo(wDriver[d], r)
<1> DEFINE v == wDriver[d]
           v0 == [v EXCEPT !.stopping = TRUE, !.http = FALSE, !.tls = FALSE, !.dns = NoValue]
           v1 == [v0 EXCEPT !.started = FALSE]
           v2 == [v1 EXCEPT !.init = FALSE]
           v3 == [v2 EXCEPT !.wifiHandler = FALSE]
           v4 == [v3 EXCEPT !.ipHandler = FALSE, !.netif = NoValue, !.connect = FALSE,
                            !.scan = FALSE, !.claimed = FALSE]
           kept(w) == /\ w \in Objects /\ w.claimed /\ w.dns = NoValue /\ w.life = v.life
                      /\ w.netif = v.netif /\ w.ip = v.ip
<1>1. r \in {<<TRUE, v4>>, <<FALSE, v0>>, <<FALSE, v1>>, <<FALSE, v2>>, <<FALSE, v3>>}
    BY DEF Wifi!Stopped
<1>2. kept(v0)
    <2>1. v0 \in Objects
        BY DEF Objects
    <2>2. v0.claimed /\ v0.dns = NoValue /\ v0.life = v.life /\ v0.netif = v.netif /\ v0.ip = v.ip
        BY DEF Objects
    <2> QED BY <2>1, <2>2
<1>3. kept(v1)
    <2> HIDE DEF v, v0
    <2> QED BY <1>2 DEF Objects
<1>4. kept(v2) /\ ~v2.init
    <2> HIDE DEF v, v1
    <2> QED BY <1>3 DEF Objects
<1>5. kept(v3) /\ ~v3.init /\ ~v3.wifiHandler
    <2> HIDE DEF v, v2
    <2> QED BY <1>4 DEF Objects
<1>6. /\ v4 \in Objects /\ ~v4.claimed /\ ~v4.init /\ ~v4.wifiHandler /\ ~v4.ipHandler
      /\ v4.dns = NoValue /\ v4.life = v.life
    <2> DEFINE u == [v3 EXCEPT !.ipHandler = FALSE, !.netif = NoValue]
    <2>1. /\ u \in Objects /\ ~u.init /\ ~u.wifiHandler /\ ~u.ipHandler
          /\ u.dns = NoValue /\ u.life = v.life
        <3>1. NoValue \in Places
            BY DEF Places
        <3> HIDE DEF v, v3
        <3> QED BY <1>5, <3>1 DEF Objects
    <2>2. v4 = [u EXCEPT !.connect = FALSE, !.scan = FALSE, !.claimed = FALSE]
        OBVIOUS
    <2> HIDE DEF v, v3, v4, u
    <2> QED BY <2>1, <2>2 DEF Objects
<1> HIDE DEF v, v0, v1, v2, v3, v4
<1>7. CASE r = <<TRUE, v4>>
    BY <1>6, <1>7 DEF LetGo, v
<1>8. ASSUME NEW w, kept(w), r = <<FALSE, w>> PROVE LetGo(v, r)
    BY <1>8 DEF LetGo
<1> HIDE DEF kept
<1> QED BY <1>1, <1>2, <1>3, <1>4, <1>5, <1>7, <1>8 DEF v

\* The query that an object lets go of.
LEMMA WithoutDnsCounts ==
    ASSUME WifiInv, NEW d \in Drivers, NEW w, w.dns = NoValue,
           NEW dr, dr = [wDriver EXCEPT ![d] = w]
    PROVE  /\ Wifi!WithoutDns(d) \in [Queries -> QueryStates]
           /\ Counted(dr, Wifi!WithoutDns(d))
<1> DEFINE p == wDriver[d].dns
           s0 == wQuery[p]
           s == Wifi!Release([s0 EXCEPT !.cancelled = TRUE])
<1>1. /\ wDriver \in [Drivers -> Objects] /\ wQuery \in [Queries -> QueryStates]
      /\ p \in Queries \cup {NoValue}
    BY DEF WifiInv, WifiTypes, Objects
<1>2. \A e \in Drivers : wDriver[e].dns # NoValue => wDriver[e].claimed
    BY DEF WifiInv, Quiet
<1>3. \A e \in Drivers : dr[e].dns = IF e = d THEN NoValue ELSE wDriver[e].dns
    BY <1>1
<1>4. \A q \in Queries : q # p => ((\E e \in Drivers : dr[e].dns = q)
                                     <=> (\E e \in Drivers : wDriver[e].dns = q))
    BY <1>3, WifiConstants
<1>5. CASE p = NoValue
    <2>1. Wifi!WithoutDns(d) = wQuery
        BY <1>5 DEF Wifi!WithoutDns
    <2>2. \A q \in Queries : q # p
        BY <1>5, WifiConstants
    <2> HIDE DEF p
    <2> QED BY <1>1, <1>4, <2>1, <2>2 DEF WifiInv, Counted
<1>6. CASE p # NoValue
    <2>1. p \in Queries /\ s0 \in QueryStates
        BY <1>1, <1>6
    <2>2. Wifi!WithoutDns(d) = [wQuery EXCEPT ![p] = s]
        BY <1>1, <1>6 DEF Wifi!WithoutDns
    <2>3. ~\E e \in Drivers : dr[e].dns = p
        <3>1. \A e \in Drivers : wDriver[e].dns = p => e = d
            BY <1>2, <1>6 DEF WifiInv, OneClaim
        <3> QED BY <1>3, <1>6, <3>1
    <2>4. s0.refs = 1 + Asking(s0)
        BY <2>1 DEF WifiInv, Counted
    <2>5. s \in QueryStates /\ s.refs = Asking(s)
        <3> DEFINE c == [s0 EXCEPT !.cancelled = TRUE]
        <3>1. c \in QueryStates /\ c.refs = s0.refs /\ c.at = s0.at
            BY <2>1 DEF QueryStates
        <3>2. Asking(c) = Asking(s0) /\ s = Wifi!Release(c)
            BY <3>1 DEF Asking
        <3> HIDE DEF c, s0, s
        <3>3. CASE Asking(c) = 0
            BY <2>4, <3>1, <3>2, <3>3 DEF Wifi!Release, Wifi!Free, QueryStates, Asking
        <3>4. CASE Asking(c) = 1
            <4>1. c.refs = 2 /\ s = [c EXCEPT !.refs = 1]
                BY <2>4, <3>1, <3>2, <3>4 DEF Wifi!Release
            <4> QED BY <3>1, <3>4, <4>1 DEF QueryStates, Asking
        <3> QED BY <3>3, <3>4 DEF Asking
    <2> HIDE DEF p, s, s0
    <2>6. Wifi!WithoutDns(d) \in [Queries -> QueryStates]
          /\ Wifi!WithoutDns(d)[p] = s
          /\ \A q \in Queries : q # p => Wifi!WithoutDns(d)[q] = wQuery[q]
        BY <1>1, <2>1, <2>2, <2>5
    <2>7. s.refs = 0 + Asking(s)
        BY <2>5 DEF QueryStates
    <2>8. ASSUME NEW q \in Queries
          PROVE  Wifi!WithoutDns(d)[q].refs
                   = (IF \E e \in Drivers : dr[e].dns = q THEN 1 ELSE 0)
                     + Asking(Wifi!WithoutDns(d)[q])
        <3>1. CASE q = p
            BY <2>3, <2>6, <2>7, <3>1
        <3>2. CASE q # p
            BY <1>4, <2>6, <3>2 DEF WifiInv, Counted
        <3> QED BY <3>1, <3>2
    <2> QED BY <2>6, <2>8 DEF Counted
<1> QED BY <1>5, <1>6

\* What was taken down is down, or the object that failed to keeps the claim for it.
LEMMA StopKeeps ==
    ASSUME WifiInv, NEW d \in Drivers, wDriver[d].claimed, NEW r, LetGo(wDriver[d], r),
           NEW w \in Objects, Quiet(w), w.claimed = r[2].claimed, w.init = r[2].init,
           w.dns = r[2].dns, w.netif = r[2].netif, w.ip = r[2].ip,
           wDriver' = [wDriver EXCEPT ![d] = w], wClaim' = ~r[1], Wifi!TakenDown(r[2]),
           wQuery' = Wifi!WithoutDns(d), UNCHANGED <<wSessions, wLeased, wShared>>
    PROVE  WifiInv'
<1>1. wDriver \in [Drivers -> Objects] /\ wDriver' \in [Drivers -> Objects]
      /\ wDriver'[d] = w /\ \A e \in Drivers : e # d => wDriver'[e] = wDriver[e]
    BY DEF WifiInv, WifiTypes
<1>2. \A e \in Drivers : e # d => ~wDriver[e].claimed
    BY DEF WifiInv, OneClaim
<1>3. /\ wRadio \in [init : BOOLEAN, on : BOOLEAN, netif : Places, scan : BOOLEAN,
                     link : {"none", "connecting", "assoc", "ip"}]
      /\ wEvents \in Seq(Posted) /\ Leased(wDriver, wEvents, wSessions, Given)
      /\ wSessions' = wSessions /\ Given' = Given
    BY DEF WifiInv, WifiTypes, Given
<1>4. r[2].init \in BOOLEAN /\ r[2].started \in BOOLEAN /\ r[1] \in BOOLEAN
      /\ (r[2].claimed <=> ~r[1]) /\ w.dns = NoValue
    BY DEF LetGo, Objects
<1>5. /\ wRadio' \in [init : BOOLEAN, on : BOOLEAN, netif : Places, scan : BOOLEAN,
                      link : {"none", "connecting", "assoc", "ip"}]
      /\ wRadio'.init => r[2].init
    <2>1. CASE r[2].init
        BY <1>3, <1>4, <2>1 DEF Wifi!TakenDown
    <2>2. CASE ~r[2].init
        BY <1>3, <1>4, <2>2 DEF Wifi!TakenDown, Wifi!NoRadio, Places
    <2> QED BY <2>1, <2>2
<1>6. \A e \in Drivers : Quiet(wDriver'[e])
    BY <1>1 DEF WifiInv
<1>7. OneClaim(wDriver', wClaim', wRadio')
    <2>1. wClaim' <=> w.claimed
        BY <1>4
    <2>2. w.init => w.claimed
        BY DEF Quiet
    <2> QED BY <1>1, <1>2, <1>5, <2>1, <2>2 DEF OneClaim
<1>8. wQuery' \in [Queries -> QueryStates] /\ Counted(wDriver', wQuery')
    BY <1>4, WithoutDnsCounts
<1>9. Leased(wDriver', wEvents, wSessions, Given)
    BY <1>1, <1>2, <1>3 DEF Leased, LetGo
<1>10. wEvents' \in Seq(Posted) /\ Leased(wDriver', wEvents', wSessions', Given')
    <2>2. wEvents' = wEvents \/ \E kind \in {"disconnected", "stop"} :
            wEvents' = Append(wEvents, [kind |-> kind, netif |-> wRadio.netif])
        BY DEF Wifi!TakenDown
    <2>3. ASSUME NEW kind \in {"disconnected", "stop"},
                 wEvents' = Append(wEvents, [kind |-> kind, netif |-> wRadio.netif])
          PROVE  wEvents' \in Seq(Posted) /\ Leased(wDriver', wEvents', wSessions', Given')
        <3> DEFINE e == [kind |-> kind, netif |-> wRadio.netif]
        <3>1. e \in Posted /\ e.kind # "gotIp"
            BY <1>3 DEF Posted, Wifi!Kinds
        <3>2. wEvents' = Append(wEvents, e)
            BY <2>3
        <3> HIDE DEF e
        <3> QED BY <1>3, <1>9, <3>1, <3>2, PostKeeps
    <2> QED BY <1>3, <1>9, <2>2, <2>3
<1>11. wClaim' \in BOOLEAN /\ wSessions' \in Nat
    BY <1>4 DEF WifiInv, WifiTypes
<1> QED BY <1>1, <1>5, <1>6, <1>7, <1>8, <1>10, <1>11 DEF WifiInv, WifiTypes

\* Stop, and the destructor of an object that has the radio.
LEMMA StopsKeep ==
    ASSUME WifiInv, NEW d \in Drivers, Wifi!StopStation(d) \/ Wifi!Destroy(d)
    PROVE  WifiInv'
<1>1. wDriver[d] \in Objects /\ wDriver[d].life = "live"
    BY DEF WifiInv, WifiTypes, Wifi!StopStation, Wifi!Destroy
<1>2. ASSUME Wifi!StopStation(d) PROVE WifiInv'
    <2>1. PICK r \in Wifi!Stopped(d) :
            /\ wDriver' = [wDriver EXCEPT ![d] = r[2]] /\ wClaim' = ~r[1]
            /\ Wifi!TakenDown(r[2]) /\ wQuery' = Wifi!WithoutDns(d)
        BY <1>2 DEF Wifi!StopStation
    <2>2. wDriver[d].claimed /\ UNCHANGED <<wSessions, wLeased, wShared>>
        BY <1>2 DEF Wifi!StopStation
    <2>3. LetGo(wDriver[d], r)
        BY <1>1, <2>2, StoppedLetsGo
    <2>4. r[2] \in Objects /\ Quiet(r[2])
        BY <1>1, <2>3 DEF LetGo, Quiet
    <2> QED BY <2>1, <2>2, <2>3, <2>4, StopKeeps
<1>3. ASSUME Wifi!Destroy(d), ~wDriver[d].claimed PROVE WifiInv'
    <2>1. /\ wDriver' = [wDriver EXCEPT ![d] = [Wifi!Fresh EXCEPT !.life = "gone"]]
          /\ UNCHANGED <<wClaim, wRadio, wEvents, wQuery, wSessions, wLeased, wShared>>
        BY <1>3 DEF Wifi!Destroy
    <2>2. PICK w : w = [Wifi!Fresh EXCEPT !.life = "gone"]
        OBVIOUS
    <2>3. w \in Objects /\ Quiet(w) /\ ~w.claimed
        BY <2>2, FreshIsQuiet
    <2> QED BY <1>3, <2>1, <2>2, <2>3, UnclaimedKeeps
<1>4. ASSUME Wifi!Destroy(d), wDriver[d].claimed PROVE WifiInv'
    <2>1. PICK r \in Wifi!Stopped(d) :
            /\ wDriver' = [wDriver EXCEPT
                             ![d] = [r[2] EXCEPT !.life = Wifi!AfterDestroy(d, r[1])]]
            /\ wClaim' = ~r[1] /\ Wifi!TakenDown(r[2]) /\ wQuery' = Wifi!WithoutDns(d)
        BY <1>4 DEF Wifi!Destroy
    <2>2. UNCHANGED <<wSessions, wLeased, wShared>>
        BY <1>4 DEF Wifi!Destroy
    <2>3. LetGo(wDriver[d], r)
        BY <1>1, <1>4, StoppedLetsGo
    <2>4. PICK l \in {"gone", "leaked"} :
            l = Wifi!AfterDestroy(d, r[1]) /\ (l = "gone" => r[1])
        BY DEF Wifi!AfterDestroy
    <2>5. PICK w : w = [r[2] EXCEPT !.life = l]
        OBVIOUS
    <2>6. /\ w \in Objects /\ w.life = l /\ w.claimed = r[2].claimed /\ w.init = r[2].init
          /\ w.dns = r[2].dns /\ w.netif = r[2].netif /\ w.ip = r[2].ip
          /\ w.wifiHandler = r[2].wifiHandler /\ w.ipHandler = r[2].ipHandler
        BY <2>3, <2>5 DEF LetGo, Objects
    <2>7. Quiet(w)
        BY <2>3, <2>4, <2>6 DEF LetGo, Quiet
    <2> QED BY <1>4, <2>1, <2>2, <2>3, <2>4, <2>5, <2>6, <2>7, StopKeeps
<1> QED BY <1>2, <1>3, <1>4

\* A query is held by its driver and by lwIP, or by nobody.
LEMMA ResolveKeeps ==
    ASSUME WifiInv, NEW d \in Drivers, Wifi!Resolve(d)
    PROVE  WifiInv'
<1> DEFINE v == wDriver[d]
<1>1. /\ v \in Objects /\ v.claimed /\ v.dns = NoValue /\ wDriver \in [Drivers -> Objects]
      /\ wQuery \in [Queries -> QueryStates]
    BY DEF WifiInv, WifiTypes, Wifi!Resolve, Wifi!Usable
<1>2. UNCHANGED <<wClaim, wRadio, wEvents, wSessions, wLeased, wShared>>
    BY DEF Wifi!Resolve
<1>3. PICK q \in Queries :
        /\ wQuery[q] = Wifi!Free
        /\ \/ /\ wQuery' = [wQuery EXCEPT ![q] = [Wifi!Free EXCEPT !.at = "queued", !.refs = 2]]
              /\ wDriver' = [wDriver EXCEPT ![d].dns = q]
           \/ wQuery' = [wQuery EXCEPT ![q] = Wifi!Refused] /\ UNCHANGED wDriver
    BY DEF Wifi!Resolve
<1>4. CASE wQuery' = [wQuery EXCEPT ![q] = Wifi!Refused] /\ UNCHANGED wDriver
    <2>1. wQuery' = wQuery
        BY <1>1, <1>3, <1>4 DEF Wifi!Refused
    <2> QED BY <1>2, <1>4, <2>1 DEF WifiInv, WifiTypes, OneClaim, Counted, Leased, Given
<1>5. CASE /\ wQuery' = [wQuery EXCEPT ![q] = [Wifi!Free EXCEPT !.at = "queued", !.refs = 2]]
           /\ wDriver' = [wDriver EXCEPT ![d].dns = q]
    <2>1. PICK w : w = [v EXCEPT !.dns = q]
        OBVIOUS
    <2>2. /\ w \in Objects /\ w.life = v.life /\ w.claimed = v.claimed /\ w.init = v.init
          /\ w.netif = v.netif /\ w.ip = v.ip /\ w.dns = q
        BY <1>1, <2>1 DEF Objects
    <2>3. /\ wDriver' \in [Drivers -> Objects] /\ wDriver'[d] = w
          /\ \A e \in Drivers : e # d => wDriver'[e] = wDriver[e]
        BY <1>1, <1>5, <2>1, <2>2
    <2> HIDE DEF v
    <2>4. \A e \in Drivers : Quiet(wDriver'[e])
        BY <1>1, <2>2, <2>3 DEF WifiInv, Quiet, v
    <2>5. OneClaim(wDriver', wClaim, wRadio)
        <3>1. \A e \in Drivers : /\ wDriver'[e].claimed = wDriver[e].claimed
                                 /\ wDriver'[e].init = wDriver[e].init
            BY <2>2, <2>3 DEF v
        <3> QED BY <3>1 DEF WifiInv, OneClaim
    <2>6. Leased(wDriver', wEvents, wSessions, Given)
        BY <2>2, <2>3 DEF WifiInv, Leased, v
    <2>7. PICK s \in QueryStates : s = [Wifi!Free EXCEPT !.at = "queued", !.refs = 2]
                                   /\ s.refs = 2 /\ s.at = "queued"
        <3>1. Wifi!Free \in QueryStates
            BY DEF Wifi!Free, QueryStates
        <3>2. ASSUME NEW f \in QueryStates, NEW s, s = [f EXCEPT !.at = "queued", !.refs = 2]
              PROVE  s \in QueryStates /\ s.refs = 2 /\ s.at = "queued"
            <4>1. s = [at |-> "queued", refs |-> 2, cancelled |-> f.cancelled,
                       result |-> f.result]
                BY <3>2 DEF QueryStates
            <4> QED BY <4>1 DEF QueryStates
        <3> QED BY <3>1, <3>2
    <2>8. /\ wQuery' \in [Queries -> QueryStates] /\ wQuery'[q] = s
          /\ \A p \in Queries : p # q => wQuery'[p] = wQuery[p]
        BY <1>1, <1>5, <2>7
    <2>9. ASSUME NEW p \in Queries
          PROVE  wQuery'[p].refs = (IF \E e \in Drivers : wDriver'[e].dns = p THEN 1 ELSE 0)
                                   + Asking(wQuery'[p])
        <3>1. CASE p = q
            <4>1. wQuery'[p].refs = 2 /\ Asking(wQuery'[p]) = 1
                BY <2>7, <2>8, <3>1 DEF Asking
            <4>2. \E e \in Drivers : wDriver'[e].dns = p
                BY <2>2, <2>3, <3>1
            <4> QED BY <4>1, <4>2
        <3>2. CASE p # q
            <4>1. (\E e \in Drivers : wDriver'[e].dns = p)
                    <=> (\E e \in Drivers : wDriver[e].dns = p)
                BY <1>1, <2>2, <2>3, <3>2, WifiConstants DEF v
            <4> QED BY <2>8, <3>2, <4>1 DEF WifiInv, Counted
        <3> QED BY <3>1, <3>2
    <2> QED BY <1>2, <2>3, <2>4, <2>5, <2>6, <2>8, <2>9
            DEF WifiInv, WifiTypes, OneClaim, Counted, Leased, Given
<1> QED BY <1>3, <1>4, <1>5

\* Whatever the objects, the radio and lwIP do next.
LEMMA WifiStep ==
    ASSUME WifiInv, Wifi!Next
    PROVE  WifiInv'
<1>1. ASSUME NEW d \in Drivers, Wifi!New(d) PROVE WifiInv'
    <2>1. ~wDriver[d].claimed
        BY <1>1 DEF Wifi!New, WifiInv, Quiet
    <2>2. /\ wDriver' = [wDriver EXCEPT ![d] = Wifi!Fresh]
          /\ UNCHANGED <<wClaim, wRadio, wEvents, wQuery, wSessions, wLeased, wShared>>
        BY <1>1 DEF Wifi!New
    <2> QED BY <2>1, <2>2, FreshIsQuiet, UnclaimedKeeps
<1> QED BY <1>1, StopsKeep, StartKeeps, PollsKeep, ResolveKeeps, LookupsKeep, RadioStepKeeps,
           DeliverKeeps DEF Wifi!Next

\* The driver's cardinality is that of finite sets.
LEMMA SameCardinality ==
    ASSUME NEW S
    PROVE  Wifi!Cardinality(S) = Cardinality(S)
BY DEF Wifi!Cardinality, Cardinality

\* The references of a query are the drivers that hold it and lwIP.
LEMMA WifiInvIsSound ==
    ASSUME WifiInv
    PROVE  Wifi!RadioOwned /\ Wifi!QueryHeld /\ Wifi!AddressIsReal
<1>1. ASSUME NEW P \in SUBSET Drivers, \A d, e \in P : d = e
      PROVE  Cardinality(P) = IF P = {} THEN 0 ELSE 1
    <2>1. CASE P = {}
        BY <2>1, FS_EmptySet
    <2>2. CASE P # {}
        <3>1. PICK d \in P : P = {d}
            BY <1>1, <2>2
        <3> QED BY <2>2, <3>1, FS_Singleton
    <2> QED BY <2>1, <2>2
<1>2. Cardinality({d \in Drivers : wDriver[d].claimed}) = IF wClaim THEN 1 ELSE 0
    <2> DEFINE S == {d \in Drivers : wDriver[d].claimed}
    <2>1. S \in SUBSET Drivers /\ (\A d, e \in S : d = e) /\ (wClaim <=> S # {})
        BY DEF WifiInv, OneClaim
    <2> HIDE DEF S
    <2>2. Cardinality(S) = IF S = {} THEN 0 ELSE 1
        BY <1>1, <2>1
    <2> QED BY <2>1, <2>2 DEF S
<1>3. ASSUME NEW q \in Queries
      PROVE  wQuery[q].refs = Cardinality({d \in Drivers : wDriver[d].dns = q})
                              + IF wQuery[q].at \in {"queued", "asked"} THEN 1 ELSE 0
    <2> DEFINE S == {d \in Drivers : wDriver[d].dns = q}
    <2>1. \A d, e \in S : d = e
        BY WifiConstants DEF WifiInv, Quiet, OneClaim
    <2>2. S \in SUBSET Drivers /\ (S # {} <=> \E d \in Drivers : wDriver[d].dns = q)
        OBVIOUS
    <2>3. wQuery[q].refs = (IF S = {} THEN 0 ELSE 1) + Asking(wQuery[q])
        BY <2>2 DEF WifiInv, Counted
    <2> HIDE DEF S
    <2>4. Cardinality(S) = IF S = {} THEN 0 ELSE 1
        BY <1>1, <2>1, <2>2
    <2> QED BY <2>3, <2>4 DEF S, Asking
<1>4. Wifi!RadioOwned
    <2>1. wRadio.init => \E d \in Drivers : wDriver[d].claimed /\ wDriver[d].init
        BY DEF WifiInv, OneClaim
    <2>2. \A d \in Drivers : wDriver[d].life \in {"none", "gone"}
            => ~wDriver[d].wifiHandler /\ ~wDriver[d].ipHandler /\ wDriver[d].dns = NoValue
        BY DEF WifiInv, Quiet
    <2> QED BY <1>2, <2>1, <2>2, SameCardinality DEF Wifi!RadioOwned
<1>5. Wifi!QueryHeld
    BY <1>3, SameCardinality DEF Wifi!QueryHeld
<1>6. Wifi!AddressIsReal
    BY DEF WifiInv, Leased, Given, Wifi!AddressIsReal
<1> QED BY <1>4, <1>5, <1>6

\* The invariant of the radio, while it is the part that moves.
LEMMA AlwaysWifi == MCSpec => [](part = "wifi" => WifiInv)
<1>1. MCInit => (part = "wifi" => WifiInv)
    <2> SUFFICES ASSUME MCInit, part = "wifi" PROVE WifiInv
        OBVIOUS
    <2>1. Wifi!Init
        BY DEF MCInit
    <2>2. \A d \in Drivers : wDriver[d] = [Wifi!Fresh EXCEPT !.life = "none"]
        BY <2>1 DEF Wifi!Init
    <2>3. wDriver \in [Drivers -> Objects]
          /\ \A d \in Drivers : Quiet(wDriver[d]) /\ ~wDriver[d].claimed
        BY <2>1, <2>2, FreshIsQuiet DEF Wifi!Init
    <2>4. \A d \in Drivers : wDriver[d].dns = NoValue
        BY <2>3 DEF Quiet
    <2>5. WifiTypes
        <3>1. Wifi!Free \in QueryStates
            BY DEF Wifi!Free, QueryStates
        <3>2. wQuery \in [Queries -> QueryStates]
            BY <2>1, <3>1 DEF Wifi!Init
        <3>3. wEvents \in Seq(Posted)
            BY <2>1 DEF Wifi!Init
        <3>4. wRadio \in [init : BOOLEAN, on : BOOLEAN, netif : Places, scan : BOOLEAN,
                          link : {"none", "connecting", "assoc", "ip"}]
            BY <2>1 DEF Wifi!Init, Wifi!NoRadio, Places
        <3>5. wClaim \in BOOLEAN /\ wSessions \in Nat
            BY <2>1 DEF Wifi!Init
        <3> QED BY <2>3, <3>2, <3>3, <3>4, <3>5 DEF WifiTypes
    <2>6. OneClaim(wDriver, wClaim, wRadio)
        BY <2>1, <2>3 DEF Wifi!Init, OneClaim, Wifi!NoRadio
    <2>7. Counted(wDriver, wQuery)
        BY <2>1, <2>4, WifiConstants DEF Wifi!Init, Counted, Wifi!Free, Asking
    <2>8. Leased(wDriver, wEvents, wSessions, Given)
        BY <2>1, <2>3 DEF Wifi!Init, Leased
    <2> QED BY <2>3, <2>5, <2>6, <2>7, <2>8 DEF WifiInv
<1>2. (part = "wifi" => WifiInv) /\ [MCNext]_mcVars => (part = "wifi" => WifiInv)'
    <2> SUFFICES ASSUME part = "wifi" => WifiInv, [MCNext]_mcVars, part' = "wifi"
                 PROVE  WifiInv'
        OBVIOUS
    <2>1. CASE UNCHANGED <<part, WifiVars>>
        BY <2>1 DEF WifiVars, WifiInv, WifiTypes, OneClaim, Counted, Leased, Given
    <2>2. CASE Wifi!Next /\ part = "wifi"
        BY <2>2, WifiStep
    <2> QED BY <2>1, <2>2 DEF MCNext, mcVars
<1> QED BY <1>1, <1>2, PTL DEF MCSpec

\* The radio runs for the one object that claimed it, a query is in memory as long as
\* its driver or lwIP may touch it, and an address is of the session that asked, or of an
\* event left over from an interface that was at the same place in the heap
\* (note4_wifi_esp_driver.cc), for any number of objects, queries, places and sessions.
THEOREM RadioAlwaysSound == MCSpec => []RadioSound
<1>1. (part = "wifi" => WifiInv) => RadioSound
    BY WifiInvIsSound DEF RadioSound
<1> QED BY <1>1, AlwaysWifi, PTL

-----------------------------------------------------------------------------
(* The remote page.                                                        *)

Hours == 0 .. (Day - 1)
Bursts == [state : Page!States, started : BOOLEAN,
           result : {"Pending", "Success", "Failed", "Cancelled", "StopFailed"},
           page : Page!Pages \cup {NoValue}, accepted : BOOLEAN, key : BOOLEAN]
Surroundings == [clock : BOOLEAN, hour : Hours, power : {"critical", "low", "ok"},
                 style : Styles]
Screens == [shows : {"ui", "local", "page"}, plan : Nat \cup {NoValue}, critical : BOOLEAN]
Witnesses == [wakes : Nat, misread : Nat, promised : BOOLEAN, waited : Nat, moved : BOOLEAN,
              blind : BOOLEAN, turned : BOOLEAN]

PageTypes ==
    /\ ePhase \in {"ui", "closing", "covered", "asleep", "woken", "burst", "settled"}
    /\ eConf.interval \in Intervals /\ eConf.generation \in 1 .. MaxGeneration
    /\ eDue \in 0 .. (Day + 1)
    /\ eCache \in Page!Pages \cup {NoValue}
    /\ eRam \in [valid : BOOLEAN, failed : BOOLEAN]
    /\ eSync \in Bursts /\ eRadio \subseteq {"station", "ble"}
    /\ eEnv \in Surroundings /\ eScreen \in Screens /\ eSeen \in Witnesses
    /\ eFaults \in Nat

-----------------------------------------------------------------------------
(* Quiet hours.                                                            *)

QuietAt(quiet, local) ==
    /\ quiet /\ QuietStart # QuietEnd
    /\ IF QuietStart < QuietEnd THEN local \in QuietStart .. (QuietEnd - 1)
       ELSE local >= QuietStart \/ local < QuietEnd

\* What is left of the quiet hours, and all of them.
Pause(quiet, local) == IF QuietAt(quiet, local) THEN (QuietEnd + Day - local) % Day ELSE 0
Night == (QuietEnd + Day - QuietStart) % Day

LEMMA PageConstantsAre ==
    /\ Day \in Nat \ {0} /\ Intervals \subseteq 1 .. Day
    /\ QuietStart \in Hours /\ QuietEnd \in Hours /\ Life \in Nat \ {0}
    /\ NoValue \notin Nat /\ NoValue \notin Page!Pages
    /\ MaxPages \in Nat /\ MaxGeneration \in Nat \ {0} /\ MaxPageFaults \in Nat
BY PageConstants DEF Page!EdgeConstants, Hours

\* Of times within two days, the hour.
Turned(x) == IF x < Day THEN x ELSE x - Day

LEMMA Turns ==
    ASSUME NEW x \in 0 .. (2 * Day - 1)
    PROVE  x % Day = Turned(x)
BY PageConstantsAre DEF Turned

LEMMA PauseIs ==
    ASSUME NEW quiet, NEW local \in Hours
    PROVE  Pause(quiet, local) \in Nat /\ Pause(quiet, local) <= Night /\ Night \in 0 .. (Day - 1)
<1>1. QuietEnd + Day - local \in 0 .. (2 * Day - 1) /\ QuietEnd + Day - QuietStart \in 0 .. (2 * Day - 1)
    BY PageConstantsAre DEF Hours
<1>2. /\ (QuietEnd + Day - local) % Day = Turned(QuietEnd + Day - local)
      /\ Night = Turned(QuietEnd + Day - QuietStart)
    BY <1>1, Turns DEF Night
<1> QED BY <1>2, PageConstantsAre DEF Pause, QuietAt, Hours, Turned

LEMMA NextHour ==
    ASSUME NEW hour \in Hours
    PROVE  (hour + 1) % Day = (IF hour + 1 < Day THEN hour + 1 ELSE 0) /\ (hour + 1) % Day \in Hours
<1>1. hour + 1 \in 0 .. (2 * Day - 1)
    BY PageConstantsAre DEF Hours
<1>2. (hour + 1) % Day = Turned(hour + 1)
    BY <1>1, Turns
<1> QED BY <1>2, PageConstantsAre DEF Turned, Hours

\* An hour later it is an hour less.
LEMMA PauseTicks ==
    ASSUME NEW quiet, NEW local \in Hours, Pause(quiet, local) >= 1
    PROVE  Pause(quiet, (local + 1) % Day) = Pause(quiet, local) - 1
<1> DEFINE next == (local + 1) % Day
<1>1. next = IF local + 1 < Day THEN local + 1 ELSE 0
    BY NextHour
<1>2. next \in Hours
    BY <1>1, PageConstantsAre DEF Hours
<1>3. QuietEnd + Day - local \in 0 .. (2 * Day - 1) /\ QuietEnd + Day - next \in 0 .. (2 * Day - 1)
    BY <1>2, PageConstantsAre DEF Hours
<1> HIDE DEF next
<1>4. /\ (QuietEnd + Day - local) % Day = Turned(QuietEnd + Day - local)
      /\ (QuietEnd + Day - next) % Day = Turned(QuietEnd + Day - next)
    BY <1>3, Turns
<1>5. Pause(quiet, next) = Pause(quiet, local) - 1
    BY <1>1, <1>2, <1>4, PageConstantsAre DEF Pause, QuietAt, Hours, Turned
<1> QED BY <1>5 DEF next

\* A wait and the hour it ends at.
Pauses(quiet, hour, wait) == wait + Pause(quiet, (hour + wait) % Day)

LEMMA HourIs ==
    ASSUME NEW hour \in Hours, NEW wait \in 0 .. Day
    PROVE  (hour + wait) % Day \in Hours
<1>1. hour + wait \in 0 .. (2 * Day - 1)
    BY PageConstantsAre DEF Hours
<1>2. (hour + wait) % Day = Turned(hour + wait)
    BY <1>1, Turns
<1> QED BY <1>1, <1>2, PageConstantsAre DEF Hours, Turned

LEMMA PausesIs ==
    ASSUME NEW quiet, NEW hour \in Hours, NEW wait \in 0 .. Day
    PROVE  /\ Pauses(quiet, hour, wait) \in Nat /\ wait <= Pauses(quiet, hour, wait)
           /\ Pauses(quiet, hour, wait) <= wait + Night
<1> DEFINE p == Pause(quiet, (hour + wait) % Day)
<1>0. (hour + wait) % Day \in Hours
    BY HourIs
<1>1. p \in Nat /\ p <= Night /\ Night \in 0 .. (Day - 1)
    BY <1>0, PauseIs
<1>2. Pauses(quiet, hour, wait) = wait + p
    BY DEF Pauses
<1> HIDE DEF p
<1> QED BY <1>1, <1>2, PageConstantsAre

LEMMA PausesTicks ==
    ASSUME NEW quiet, NEW hour \in Hours, NEW wait \in 0 .. Day, Pauses(quiet, hour, wait) >= 1
    PROVE  Pauses(quiet, (hour + 1) % Day, IF wait = 0 THEN 0 ELSE wait - 1)
             = Pauses(quiet, hour, wait) - 1
<1> DEFINE next == (hour + 1) % Day
<1>0. /\ next = IF hour + 1 < Day THEN hour + 1 ELSE 0
      /\ next \in Hours
    BY NextHour
<1>1. CASE wait = 0
    <2>0. ASSUME NEW h \in Hours PROVE h % Day = h /\ h + 0 = h
        <3>1. h \in 0 .. (2 * Day - 1) /\ h + 0 = h /\ h < Day
            BY PageConstantsAre DEF Hours
        <3>2. h % Day = Turned(h)
            BY <3>1, Turns
        <3> QED BY <3>1, <3>2 DEF Turned
    <2>1. (hour + 0) % Day = hour /\ (next + 0) % Day = next
        BY <1>0, <2>0
    <2>2. Pauses(quiet, hour, 0) = 0 + Pause(quiet, hour)
          /\ Pauses(quiet, next, 0) = 0 + Pause(quiet, next)
        BY <2>1 DEF Pauses
    <2>3. Pause(quiet, hour) \in Nat /\ Pause(quiet, next) \in Nat
        BY <1>0, PauseIs
    <2>4. Pause(quiet, next) = Pause(quiet, hour) - 1
        BY <1>1, <2>2, <2>3, PauseTicks
    <2> QED BY <1>1, <2>2, <2>3, <2>4
<1>2. CASE wait # 0
    <2>1. /\ hour + wait \in 0 .. (2 * Day - 1)
          /\ next + (wait - 1) \in 0 .. (2 * Day - 1)
        BY <1>0, <1>2, PageConstantsAre DEF Hours
    <2>2. (next + (wait - 1)) % Day = (hour + wait) % Day
        <3>1. /\ (hour + wait) % Day = Turned(hour + wait)
              /\ (next + (wait - 1)) % Day = Turned(next + (wait - 1))
            BY <2>1, Turns
        <3> HIDE DEF next
        <3>2. Turned(next + (wait - 1)) = Turned(hour + wait)
            BY <1>0, <1>2, PageConstantsAre DEF Hours, Turned
        <3> QED BY <3>1, <3>2
    <2> DEFINE p == Pause(quiet, (hour + wait) % Day)
    <2>3. p \in Nat
        BY HourIs, PauseIs
    <2>4. Pauses(quiet, hour, wait) = wait + p /\ Pauses(quiet, next, wait - 1) = (wait - 1) + p
        BY <2>2 DEF Pauses
    <2> HIDE DEF p, next
    <2>5. Pauses(quiet, next, wait - 1) = Pauses(quiet, hour, wait) - 1
        BY <2>3, <2>4, PageConstantsAre
    <2> QED BY <1>2, <2>5 DEF next
<1> QED BY <1>1, <1>2

-----------------------------------------------------------------------------
(* What is kept.                                                           *)

\* When the next download is due, and begun after quiet hours.
DueIn == IF eDue > Day THEN 0 ELSE Page!Least(eDue, eConf.interval)
Ahead == Pauses(eConf.quiet, eEnv.hour, DueIn)

\* A page of the present generation is of the present source.
SourceInv ==
    eCache # NoValue =>
        /\ eCache.generation <= eConf.generation
        /\ eCache.generation = eConf.generation => eCache.source = eConf.source

\* A burst has the time, and brings pages of the configured source.
BurstInv ==
    /\ ePhase \in {"burst", "settled"} => eEnv.clock
    /\ ePhase = "burst" /\ eSync.result = "Success" =>
          eSync.page \in Page!Pages /\ eSync.page.source = eConf.source
    /\ ePhase = "settled" /\ eSync.accepted => eCache \in Page!Pages

\* A station is on during a burst only, and after one only if it did not stop.
RadioInv ==
    /\ "station" \in eRadio => ePhase \in {"burst", "settled", "closing", "covered"}
    /\ ePhase \in {"asleep", "woken"} => eRadio = {}
    /\ ePhase \in {"burst", "settled"} => "ble" \notin eRadio
    /\ ePhase = "burst" =>
          /\ "station" \in eRadio => eSync.started
          /\ eSync.state = "Done" /\ eSync.started => eSync.result = "StopFailed"
    /\ ePhase = "settled" /\ "station" \in eRadio => ~eSync.key /\ ~eRam.valid
    /\ Page!OneRadio

\* A page on the panel is the cached one, and where its end was known the wake is not later.
ShownInv ==
    /\ ePhase = "covered" =>
          /\ eRam.failed => ~eRam.valid
          /\ eScreen.shows = "page" => Page!Ours(eCache)
    /\ ePhase = "asleep" /\ eScreen.shows = "page" /\ ~eScreen.critical =>
          /\ eCache # NoValue /\ eCache.source = eConf.source
          /\ ~eSeen.blind =>
                eScreen.plan \in Nat /\ eScreen.plan <= eCache.left /\ eCache.left <= Life

\* The next wake is not at once: something forbids the download, or it is not due.
Later == eRam.failed \/ eEnv.power # "ok" \/ ~eEnv.clock \/ ~eConf.enabled \/ Ahead # 0

\* Nobody waits for a device that was just used.
Unawaited(s) == s.wakes = 0 /\ s.misread = 0 /\ ~s.promised /\ s.waited = 0 /\ ~s.moved

WakeInv ==
    /\ ePhase = "ui" => Unawaited(eSeen)
    /\ ePhase \in {"asleep", "woken"} => ~eRam.failed
    /\ Page!NoWakeLoop
    /\ ePhase = "asleep" /\ eScreen.plan = 0 => eSeen.wakes <= eSeen.misread
    /\ ePhase \in {"closing", "covered"} => eSeen.wakes <= eSeen.misread \/ Later

\* What was promised comes in time.  The time waited and the time ahead stay together
\* also while the panel takes its cover: a download that is due then is not begun, because
\* something forbids it or the wait has just started over.
Bound == eConf.interval + Night
Off == eEnv.power # "ok" \/ ~eEnv.clock \/ ~eConf.enabled
TimeInv ==
    /\ ~eSeen.moved => eSeen.waited <= Bound
    /\ ~eSeen.promised => eSeen.waited = 0
    /\ ePhase \in {"asleep", "woken", "closing", "covered"} /\ eSeen.promised /\ ~eSeen.moved
          => (eDue <= eConf.interval => eSeen.waited + Ahead <= Bound \/ (ePhase = "covered" /\ Off))
    /\ ePhase = "asleep" /\ eSeen.promised =>
          /\ eEnv.clock /\ eScreen.plan \in Nat
          /\ ~eSeen.moved => IF eDue <= eConf.interval THEN eScreen.plan <= Ahead
                             ELSE eScreen.plan = 0 /\ Ahead = 0
    /\ ePhase = "woken" /\ eSeen.promised /\ ~eSeen.moved => eDue <= eConf.interval \/ Ahead = 0
    /\ ePhase = "closing" \/ (ePhase = "covered" /\ ~eSeen.turned) =>
          (eSeen.promised /\ ~eSeen.moved
             => Off \/ eSeen.waited = 0 \/ (eDue <= eConf.interval /\ Ahead # 0))

PageInv == PageTypes /\ SourceInv /\ BurstInv /\ RadioInv /\ ShownInv /\ WakeInv /\ TimeInv

LEMMA AheadIs ==
    ASSUME PageTypes
    PROVE  /\ DueIn \in 0 .. Day /\ Ahead \in Nat /\ DueIn <= Ahead /\ Ahead <= DueIn + Night
           /\ Night \in Nat
<1>0. eConf.interval \in 1 .. Day /\ eDue \in 0 .. (Day + 1) /\ Day \in Nat
    BY PageConstantsAre DEF PageTypes
<1>1. DueIn \in 0 .. Day
    BY <1>0 DEF DueIn, Page!Least
<1>2. eEnv.hour \in Hours
    BY DEF PageTypes, Surroundings
<1>3. Night \in 0 .. (Day - 1)
    <2>1. 0 \in Hours
        BY PageConstantsAre DEF Hours
    <2> QED BY <2>1, PauseIs
<1> QED BY <1>1, <1>2, <1>3, PausesIs, PageConstantsAre DEF Ahead

LEMMA NextDownloadIs ==
    ASSUME PageTypes, NEW allowed
    PROVE  Page!NextDownload(allowed) =
              IF ~eConf.enabled \/ ~allowed \/ ~eEnv.clock THEN NoValue ELSE Ahead
<1>1. Page!AfterQuiet(DueIn) = Ahead
    <2>1. DueIn + 0 = DueIn
        BY AheadIs
    <2> QED BY <2>1 DEF Page!AfterQuiet, Ahead, Pauses, Pause, QuietAt
<1> QED BY <1>1 DEF Page!NextDownload, DueIn

LEMMA EarlierIs ==
    ASSUME NEW a \in Nat \cup {NoValue}, NEW b \in Nat \cup {NoValue}
    PROVE  /\ Page!Earlier(a, b) \in Nat \cup {NoValue}
           /\ a \in Nat => Page!Earlier(a, b) \in Nat /\ Page!Earlier(a, b) <= a
           /\ b \in Nat => Page!Earlier(a, b) \in Nat /\ Page!Earlier(a, b) <= b
           /\ Page!Earlier(a, b) = a \/ Page!Earlier(a, b) = b
BY PageConstantsAre DEF Page!Earlier

LEMMA AgedIs ==
    ASSUME NEW p \in Page!Pages \cup {NoValue}
    PROVE  /\ Page!Aged(p, 1) \in Page!Pages \cup {NoValue}
           /\ p = NoValue <=> Page!Aged(p, 1) = NoValue
           /\ p # NoValue => /\ Page!Aged(p, 1).generation = p.generation
                             /\ Page!Aged(p, 1).source = p.source
                             /\ Page!Aged(p, 1).revision = p.revision
                             /\ Page!Aged(p, 1).left = IF p.left > 1 THEN p.left - 1 ELSE 0
<1>1. CASE p = NoValue
    BY <1>1 DEF Page!Aged
<1>2. CASE p # NoValue
    <2> DEFINE n == IF p.left > 1 THEN p.left - 1 ELSE 0
    <2>1. Page!Aged(p, 1) = [p EXCEPT !.left = n]
        BY <1>2 DEF Page!Aged
    <2>2. p \in Page!Pages /\ n \in 0 .. (Life + 1)
        BY <1>2, PageConstantsAre DEF Page!Pages
    <2> HIDE DEF n
    <2>3. /\ Page!Aged(p, 1) \in Page!Pages /\ Page!Aged(p, 1).left = n
          /\ Page!Aged(p, 1).generation = p.generation
          /\ Page!Aged(p, 1).source = p.source /\ Page!Aged(p, 1).revision = p.revision
        BY <2>1, <2>2 DEF Page!Pages
    <2> QED BY <1>2, <2>3, PageConstantsAre DEF n
<1> QED BY <1>1, <1>2

\* No burst, a burst begun, and a device nobody has waited for.
LEMMA FreshRecords ==
    /\ Page!NoSync \in Bursts /\ Page!Begun \in Bursts /\ Page!Unseen \in Witnesses
    /\ [shows |-> "ui", plan |-> NoValue, critical |-> FALSE] \in Screens
    /\ [valid |-> FALSE, failed |-> FALSE] \in [valid : BOOLEAN, failed : BOOLEAN]
    /\ Page!SaveFailed \in [valid : BOOLEAN, failed : BOOLEAN]
<1>1. Page!NoSync \in Bursts
    BY DEF Page!NoSync, Bursts, Page!States
<1>2. Page!Unseen \in Witnesses
    BY DEF Page!Unseen, Witnesses
<1>3. Page!Begun \in Bursts
    <2> DEFINE s == Page!NoSync
    <2>1. Page!Begun = [s EXCEPT !.state = "Credentials"]
        BY DEF Page!Begun
    <2> HIDE DEF s
    <2>2. s \in Bursts
        BY <1>1 DEF s
    <2> QED BY <2>1, <2>2 DEF Bursts, Page!States
<1>4. [shows |-> "ui", plan |-> NoValue, critical |-> FALSE] \in Screens
    BY DEF Screens
<1>5. [valid |-> FALSE, failed |-> FALSE] \in [valid : BOOLEAN, failed : BOOLEAN]
    OBVIOUS
<1>6. Page!SaveFailed \in [valid : BOOLEAN, failed : BOOLEAN]
    BY DEF Page!SaveFailed
<1> QED BY <1>1, <1>2, <1>3, <1>4, <1>5, <1>6

\* What a wake ends in.
ReturnTypes ==
    /\ ePhase' \in {"ui", "closing", "burst", "settled"} /\ eRadio' \subseteq {"station", "ble"}
    /\ eScreen' \in Screens

LEMMA ReturnsTypes ==
    ASSUME PageTypes, NEW valid, NEW interactive \in BOOLEAN,
           \/ Page!Returns(interactive, valid)
           \/ ePhase' \in {"burst", "settled"} /\ UNCHANGED <<eRadio, eScreen>>
    PROVE  ReturnTypes
<1>1. eScreen' = eScreen \/ eScreen' = [shows |-> "ui", plan |-> NoValue, critical |-> FALSE]
    <2>1. CASE interactive
        BY <2>1 DEF Page!Returns
    <2>2. CASE ~interactive
        BY <2>2 DEF Page!Returns
    <2> QED BY <2>1, <2>2
<1>2. eScreen' \in Screens
    BY <1>1, FreshRecords DEF PageTypes
<1>3. ePhase' \in {"ui", "closing", "burst", "settled"}
    BY DEF Page!Returns
<1>4. eRadio' \subseteq {"station", "ble"}
    <2>1. eRadio' = eRadio \/ eRadio' = eRadio \cup {"ble"}
        <3>1. CASE interactive
            BY <3>1 DEF Page!Returns
        <3>2. CASE ~interactive
            BY <3>2 DEF Page!Returns
        <3> QED BY <3>1, <3>2
    <2> QED BY <2>1 DEF PageTypes
<1> QED BY <1>2, <1>3, <1>4 DEF ReturnTypes

\* What a poll makes of a burst.
StoppedBy(s, result) == s = Page!Stopped(s, result)

LEMMA StoppedIs ==
    ASSUME NEW s \in Bursts,
           NEW result \in {"Pending", "Success", "Failed", "Cancelled", "StopFailed"}
    PROVE  /\ Page!Stopped(s, result) \in Bursts
           /\ Page!Stopped(s, result).state \in {"Stop", "Done"}
           /\ Page!Stopped(s, result).state = "Done" => ~Page!Stopped(s, result).started
           /\ Page!Stopped(s, result).result = result
           /\ Page!Stopped(s, result).page = s.page
           /\ Page!Stopped(s, result).started = s.started
BY DEF Page!Stopped, Bursts, Page!States

\* A burst is well formed: it is done only when its station is off, and what succeeded
\* brought a page of the configured source.
Proper(s) ==
    /\ s \in Bursts
    /\ s.state = "Done" /\ s.started => s.result = "StopFailed"
    /\ s.result = "Success" => s.page \in Page!Pages /\ s.page.source = eConf.source

LEMMA StepIs ==
    ASSUME NEW s, Proper(s), NEW next, Page!Step(s, next)
    PROVE  Proper(next)
<1>1. CASE s.state = "Credentials"
    <2>1. next = [s EXCEPT !.state = "Start"] \/ next = Page!Stopped(s, "Failed")
        BY <1>1 DEF Page!Step, Page!After
    <2> QED BY <2>1, StoppedIs DEF Proper, Bursts, Page!States
<1>2. CASE s.state = "Start"
    <2>1. next = [s EXCEPT !.started = TRUE, !.state = "Association"]
          \/ next = Page!Stopped(s, "Failed")
        BY <1>2 DEF Page!Step, Page!After
    <2>2. CASE next = [s EXCEPT !.started = TRUE, !.state = "Association"]
        BY <2>2 DEF Proper, Bursts, Page!States
    <2>3. CASE next = Page!Stopped(s, "Failed")
        BY <2>3, StoppedIs DEF Proper
    <2> QED BY <2>1, <2>2, <2>3
<1>3. CASE s.state \in {"Association", "Ip", "Dns", "Tls"}
    <2>1. \/ next = s \/ next = Page!Stopped(s, "Failed")
          \/ \E state \in {"Ip", "Dns", "Tls", "Fetch"} : next = [s EXCEPT !.state = state]
        BY <1>3 DEF Page!Step, Page!After
    <2> QED BY <2>1, StoppedIs DEF Proper, Bursts, Page!States
<1>4. CASE s.state = "Fetch"
    <2>1. \/ next = s \/ next = Page!Stopped(s, "Failed")
          \/ \E p \in Page!Offers : next = [Page!Stopped(s, "Success") EXCEPT !.page = p]
        BY <1>4 DEF Page!Step, Page!After
    <2>2. CASE \E p \in Page!Offers : next = [Page!Stopped(s, "Success") EXCEPT !.page = p]
        <3>1. PICK p \in Page!Offers : next = [Page!Stopped(s, "Success") EXCEPT !.page = p]
            BY <2>2
        <3> DEFINE t == Page!Stopped(s, "Success")
        <3>2. /\ t \in Bursts /\ t.state \in {"Stop", "Done"} /\ (t.state = "Done" => ~t.started)
              /\ next = [t EXCEPT !.page = p]
              /\ p \in Page!Pages /\ p.source = eConf.source
            BY <3>1, StoppedIs DEF Proper, Page!Offers
        <3> HIDE DEF t
        <3> QED BY <3>2 DEF Proper, Bursts
    <2> QED BY <2>1, <2>2, StoppedIs DEF Proper
<1>5. CASE s.state = "Stop"
    <2>1. next = s \/ next = [s EXCEPT !.started = FALSE, !.state = "Done"]
        BY <1>5 DEF Page!Step, Page!After
    <2> QED BY <2>1 DEF Proper, Bursts, Page!States
<1>6. CASE s.state \in {"Idle", "Done"}
    BY <1>6 DEF Page!Step, Page!After
<1> QED BY <1>1, <1>2, <1>3, <1>4, <1>5, <1>6 DEF Proper, Bursts, Page!States

LEMMA PollIs ==
    ASSUME PageTypes, BurstInv, RadioInv, Page!Poll
    PROVE  Proper(eSync') /\ eSync' \in Bursts
<1>1. Proper(eSync)
    BY DEF Page!Poll, PageTypes, BurstInv, RadioInv, Proper
<1>2. PICK key \in BOOLEAN, late \in BOOLEAN :
        LET pressed == IF key THEN Page!Cancelled([eSync EXCEPT !.key = TRUE]) ELSE eSync
            begun == IF late /\ pressed.state \notin {"Stop", "Done"}
                     THEN Page!Stopped(pressed, "Failed") ELSE pressed
        IN  Page!Step(begun, eSync')
    BY DEF Page!Poll
<1> DEFINE k == [eSync EXCEPT !.key = TRUE]
           pressed == IF key THEN Page!Cancelled(k) ELSE eSync
           begun == IF late /\ pressed.state \notin {"Stop", "Done"}
                    THEN Page!Stopped(pressed, "Failed") ELSE pressed
<1>3. ASSUME NEW s, Proper(s), NEW result \in {"Failed", "Cancelled"}
      PROVE  Proper(Page!Stopped(s, result))
    BY <1>3, StoppedIs DEF Proper
<1>4. Proper(k)
    BY <1>1 DEF Proper, Bursts
<1> HIDE DEF k
<1>5. Proper(pressed)
    BY <1>1, <1>3, <1>4 DEF Page!Cancelled
<1>6. Proper(begun)
    <2> HIDE DEF pressed
    <2> QED BY <1>3, <1>5
<1>7. Page!Step(begun, eSync')
    BY <1>2 DEF k
<1> HIDE DEF begun
<1> QED BY <1>6, <1>7, StepIs DEF Proper

\* What becomes of the page a burst brought.
LEMMA KeepIs ==
    ASSUME PageTypes, BurstInv, Page!Keep
    PROVE  /\ eCache' = eCache \/ (/\ eCache' \in Page!Pages
                                   /\ eCache'.generation = eConf.generation
                                   /\ eCache'.source = eConf.source)
           /\ eFaults' \in {eFaults, eFaults + 1}
           /\ eFaults' = eFaults /\ eCache' # eCache /\ Page!Ours(eCache)
                 => eCache'.revision > eCache.revision
           /\ eSync' \in Bursts /\ (eSync'.accepted => eCache' \in Page!Pages)
           /\ eSync'.key => eSync.result # "StopFailed"
<1> DEFINE interactive == eSync.key /\ eSync.result # "StopFailed"
           stamped == [eSync.page EXCEPT !.generation = eConf.generation]
<1>1. interactive \in BOOLEAN
    BY DEF PageTypes, Bursts
<1>2. ASSUME NEW accepted \in BOOLEAN, eSync' = [eSync EXCEPT !.key = interactive, !.accepted = accepted]
      PROVE  eSync' \in Bursts /\ eSync'.accepted = accepted /\ eSync'.key = interactive
    <2> HIDE DEF interactive
    <2> QED BY <1>1, <1>2 DEF PageTypes, Bursts
<1>3. CASE eSync.result = "Success" /\ Page!Fresh(eSync.page)
    <2>1. eSync.page \in Page!Pages /\ eSync.page.source = eConf.source
        BY <1>3 DEF BurstInv, Page!Keep
    <2>2. /\ stamped \in Page!Pages /\ stamped.generation = eConf.generation
          /\ stamped.source = eConf.source /\ stamped.revision = eSync.page.revision
        BY <2>1 DEF Page!Pages, PageTypes
    <2>3. ASSUME NEW accepted \in BOOLEAN,
                 eSync' = [eSync EXCEPT !.key = interactive, !.accepted = accepted],
                 \/ eCache' = stamped
                 \/ eCache' = eCache /\ (accepted => Page!Ours(eCache))
          PROVE  /\ eCache' = eCache \/ (/\ eCache' \in Page!Pages
                                         /\ eCache'.generation = eConf.generation
                                         /\ eCache'.source = eConf.source)
                 /\ eSync' \in Bursts /\ (eSync'.accepted => eCache' \in Page!Pages)
                 /\ eSync'.key => eSync.result # "StopFailed"
        <3>1. eSync' \in Bursts /\ eSync'.accepted = accepted /\ eSync'.key = interactive
            BY <1>2, <2>3
        <3> HIDE DEF stamped
        <3>2. Page!Ours(eCache) => eCache \in Page!Pages
            BY DEF Page!Ours, PageTypes
        <3> QED BY <2>2, <2>3, <3>1, <3>2
    <2>4. \E readable \in BOOLEAN, accepted \in BOOLEAN :
            /\ eSync' = [eSync EXCEPT !.key = interactive, !.accepted = accepted]
            /\ \/ eCache' = stamped /\ (eFaults' = eFaults => Page!Replaces(eSync.page, eCache))
               \/ eCache' = eCache /\ (accepted => Page!Ours(eCache))
            /\ eFaults' \in {eFaults, eFaults + 1}
        <3>1. CASE \E readable \in BOOLEAN :
                     LET previous == IF readable THEN eCache ELSE NoValue
                     IN /\ IF readable THEN Page!Fine ELSE Page!Failing
                        /\ IF Page!Replaces(eSync.page, previous)
                           THEN eCache' = stamped /\ eSync' = [eSync EXCEPT !.key = interactive, !.accepted = TRUE]
                           ELSE /\ UNCHANGED eCache
                                /\ eSync' = [eSync EXCEPT !.key = interactive,
                                              !.accepted = Page!Same(eSync.page, previous)]
            <4>1. PICK readable \in BOOLEAN :
                     LET previous == IF readable THEN eCache ELSE NoValue
                     IN /\ IF readable THEN Page!Fine ELSE Page!Failing
                        /\ IF Page!Replaces(eSync.page, previous)
                           THEN eCache' = stamped /\ eSync' = [eSync EXCEPT !.key = interactive, !.accepted = TRUE]
                           ELSE /\ UNCHANGED eCache
                                /\ eSync' = [eSync EXCEPT !.key = interactive,
                                              !.accepted = Page!Same(eSync.page, previous)]
                BY <3>1
            <4> DEFINE same == Page!Same(eSync.page, IF readable THEN eCache ELSE NoValue)
            <4>2. same \in BOOLEAN /\ (same => Page!Ours(eCache))
                BY DEF Page!Same, Page!Ours
            <4>3. /\ eFaults' = eFaults => readable
                  /\ eFaults' \in {eFaults, eFaults + 1}
                BY <4>1 DEF Page!Fine, Page!Failing, PageTypes
            <4> HIDE DEF stamped, interactive
            <4>4. \/ /\ eCache' = stamped /\ Page!Replaces(eSync.page, IF readable THEN eCache ELSE NoValue)
                     /\ eSync' = [eSync EXCEPT !.key = interactive, !.accepted = TRUE]
                  \/ eCache' = eCache /\ eSync' = [eSync EXCEPT !.key = interactive, !.accepted = same]
                BY <4>1
            <4> HIDE DEF same
            <4> QED BY <4>2, <4>3, <4>4
        <3>2. CASE /\ Page!Replaces(eSync.page, eCache) /\ Page!Failing
                   /\ eCache' \in {eCache, stamped}
                   /\ eSync' = [eSync EXCEPT !.key = interactive, !.accepted = FALSE]
            <4> HIDE DEF stamped, interactive
            <4> QED BY <3>2 DEF Page!Failing
        <3> QED BY <1>3, <3>1, <3>2 DEF Page!Keep
    <2>5. eFaults' = eFaults /\ eCache' # eCache /\ Page!Ours(eCache)
                 => eCache'.revision > eCache.revision
        <3> HIDE DEF stamped, interactive
        <3> QED BY <2>2, <2>4 DEF Page!Replaces
    <2> HIDE DEF stamped, interactive
    <2>6. PICK accepted \in BOOLEAN :
            /\ eSync' = [eSync EXCEPT !.key = interactive, !.accepted = accepted]
            /\ eCache' = stamped \/ (eCache' = eCache /\ (accepted => Page!Ours(eCache)))
            /\ eFaults' \in {eFaults, eFaults + 1}
        BY <2>4
    <2> QED BY <2>3, <2>5, <2>6
<1>4. CASE ~(eSync.result = "Success" /\ Page!Fresh(eSync.page))
    <2>1. /\ eFaults' = eFaults /\ eCache' = eCache
          /\ eSync' = [eSync EXCEPT !.key = interactive, !.accepted = FALSE]
        BY <1>4 DEF Page!Keep, Page!Fine
    <2>2. eSync' \in Bursts /\ eSync'.accepted = FALSE /\ eSync'.key = interactive
        BY <1>2, <2>1
    <2> QED BY <2>1, <2>2
<1> QED BY <1>3, <1>4

\* When the next download is planned for.
LEMMA ScheduleIs ==
    ASSUME PageTypes, BurstInv, Page!Schedule
    PROVE  \E next \in 1 .. eConf.interval :
              \/ eDue' = next /\ eFaults' = eFaults /\ eRam' = eRam
              \/ eDue' \in {eDue, next} /\ eFaults' = eFaults + 1 /\ eRam' = Page!SaveFailed
<1>1. PICK suggested \in IF eSync.accepted THEN 0 .. Page!Least(eCache.left, Life) ELSE {0} :
        LET next == Page!NextEdgeSync(suggested, ~eSync.accepted)
        IN  \/ eDue' = next /\ Page!Fine /\ UNCHANGED eRam
            \/ eDue' \in {eDue, next} /\ Page!Failing /\ eRam' = Page!SaveFailed
    BY DEF Page!Schedule
<1>2. suggested \in Nat
    <2>1. CASE eSync.accepted
        <3>1. Page!Least(eCache.left, Life) \in Nat
            BY <2>1, PageConstantsAre DEF Page!Least, BurstInv, Page!Schedule, Page!Pages
        <3> QED BY <1>1, <2>1, <3>1
    <2> QED BY <1>1, <2>1
<1>3. eEnv.clock /\ eConf.interval \in Nat \ {0}
    BY PageConstantsAre DEF BurstInv, Page!Schedule, PageTypes
<1>4. Page!NextEdgeSync(suggested, ~eSync.accepted) \in 1 .. eConf.interval
    BY <1>2, <1>3 DEF Page!NextEdgeSync, Page!Least, Page!Greatest
<1> QED BY <1>1, <1>4 DEF Page!Fine, Page!Failing

\* The expiry of a page on the panel, and the next wake.
Plan(read) ==
    IF eEnv.power = "critical" THEN NoValue
    ELSE Page!Earlier(Page!Earlier(Page!Calendar, Page!Expiry(read)), Page!NextDownload(Page!Allowed))
Promised == ~(eEnv.power = "critical") /\ Page!NextDownload(Page!Allowed) # NoValue

LEMMA PlanIs ==
    ASSUME PageTypes, NEW read \in BOOLEAN
    PROVE  /\ Page!Calendar \in (Nat \ {0}) \cup {NoValue}
           /\ Page!Expiry(read) \in (Nat \ {0}) \cup {NoValue}
           /\ Page!NextDownload(Page!Allowed) \in Nat \cup {NoValue}
           /\ Plan(read) \in Nat \cup {NoValue}
           /\ Page!Expiry(read) # NoValue => Page!Expiry(read) = eCache.left /\ eCache.left \in 1 .. Life
           /\ Page!Expiry(read) # NoValue /\ eEnv.power # "critical" => Plan(read) \in Nat /\ Plan(read) <= eCache.left
           /\ eEnv.power # "critical" /\ Page!NextDownload(Page!Allowed) # NoValue
                => Plan(read) \in Nat /\ Plan(read) <= Page!NextDownload(Page!Allowed)
           /\ Plan(read) = 0 => Page!NextDownload(Page!Allowed) = 0
<1>1. Page!Calendar \in (Nat \ {0}) \cup {NoValue}
    BY PageConstantsAre DEF Page!Calendar, PageTypes, Surroundings, Hours
<1>2. Page!Expiry(read) \in (Nat \ {0}) \cup {NoValue}
    BY PageConstantsAre DEF Page!Expiry, Page!Fresh
<1>3. Page!NextDownload(Page!Allowed) \in Nat \cup {NoValue}
    <2> DEFINE allowed == Page!Allowed
    <2>1. Page!NextDownload(allowed) \in Nat \cup {NoValue}
        <3> HIDE DEF allowed
        <3> QED BY NextDownloadIs, AheadIs
    <2> QED BY <2>1
<1>4. Page!Expiry(read) # NoValue => Page!Expiry(read) = eCache.left /\ eCache.left \in 1 .. Life
    BY DEF Page!Expiry, Page!Fresh
<1> DEFINE c == Page!Calendar
           e == Page!Expiry(read)
           d == Page!NextDownload(Page!Allowed)
           first == Page!Earlier(c, e)
<1>5. Plan(read) = IF eEnv.power = "critical" THEN NoValue ELSE Page!Earlier(first, d)
    BY DEF Plan
<1>6. c \in Nat \cup {NoValue} /\ e \in Nat \cup {NoValue} /\ d \in Nat \cup {NoValue}
    BY <1>1, <1>2, <1>3
<1>7. c # 0 /\ e # 0 /\ NoValue # 0
    BY <1>1, <1>2, PageConstantsAre
<1> HIDE DEF c, e, d
<1>8. /\ first \in Nat \cup {NoValue} /\ first # 0
      /\ e \in Nat => first \in Nat /\ first <= e
    BY <1>6, <1>7, EarlierIs
<1> HIDE DEF first
<1>9. /\ Page!Earlier(first, d) \in Nat \cup {NoValue}
      /\ first \in Nat => Page!Earlier(first, d) \in Nat /\ Page!Earlier(first, d) <= first
      /\ d \in Nat => Page!Earlier(first, d) \in Nat /\ Page!Earlier(first, d) <= d
      /\ Page!Earlier(first, d) = first \/ Page!Earlier(first, d) = d
    BY <1>6, <1>8, EarlierIs
<1>10. Plan(read) \in Nat \cup {NoValue} /\ (Plan(read) = 0 => d = 0)
    BY <1>5, <1>7, <1>8, <1>9
<1>11. eEnv.power # "critical" /\ d # NoValue => Plan(read) \in Nat /\ Plan(read) <= d
    BY <1>5, <1>6, <1>9
<1>12. Page!Expiry(read) # NoValue /\ eEnv.power # "critical" => Plan(read) \in Nat /\ Plan(read) <= eCache.left
    <2>1. Page!Expiry(read) # NoValue => e = eCache.left /\ eCache.left \in Nat
        BY <1>4 DEF e
    <2> QED BY <1>5, <1>8, <1>9, <2>1
<1> QED BY <1>1, <1>2, <1>3, <1>4, <1>10, <1>11, <1>12 DEF d

\* Going to sleep, the page read again or not.
Slept(read) ==
    LET download == Page!NextDownload(Page!Allowed)
    IN  /\ ePhase = "covered" /\ ePhase' = "asleep" /\ eRadio' = {}
        /\ eScreen' = [eScreen EXCEPT !.critical = (eEnv.power = "critical"), !.plan = Plan(read)]
        /\ eSeen' = [eSeen EXCEPT
                !.promised = Promised, !.waited = IF Promised THEN eSeen.waited ELSE 0,
                !.moved = eSeen.moved \/ (Promised /\ eDue > eConf.interval /\ download # 0),
                !.blind = (eScreen.shows = "page" /\ Page!Expiry(read) = NoValue), !.turned = FALSE]
        /\ eRam' = [valid |-> FALSE, failed |-> FALSE] /\ eSync' = Page!NoSync
        /\ UNCHANGED <<eConf, eDue, eCache, eEnv>> /\ eFaults' \in {eFaults, eFaults + 1}

LEMMA SleepIs ==
    ASSUME Page!Sleep
    PROVE  \E read \in BOOLEAN : Slept(read)
BY DEF Page!Sleep, Page!Fine, Page!Failing, Slept, Plan, Promised

LEMMA LoadedTypes ==
    ASSUME PageTypes, NEW v \in BOOLEAN, Page!Loaded(v)
    PROVE  eSeen' \in Witnesses /\ eFaults' \in Nat
<1>1. \/ eSeen' = eSeen /\ eFaults' = eFaults
      \/ /\ eSeen' = [eSeen EXCEPT !.misread = eSeen.misread + 1, !.waited = 0]
         /\ eFaults' = eFaults + 1
    BY DEF Page!Loaded, Page!Fine, Page!Failing
<1>2. eSeen \in Witnesses /\ eFaults \in Nat /\ eSeen.misread + 1 \in Nat
    BY DEF PageTypes, Witnesses
<1> DEFINE n == eSeen.misread + 1
<1>3. n \in Nat
    BY <1>2
<1> HIDE DEF n
<1>4. [eSeen EXCEPT !.misread = n, !.waited = 0] \in Witnesses
    BY <1>2, <1>3 DEF Witnesses
<1>5. eSeen' \in Witnesses
    BY <1>1, <1>2, <1>4 DEF n
<1> QED BY <1>1, <1>2, <1>5

LEMMA PageTypesStep ==
    ASSUME PageTypes, BurstInv, RadioInv, Page!Next
    PROVE  PageTypes'
<1>1. CASE Page!Configure
    <2>1. /\ eConf'.interval \in Intervals /\ eConf'.generation \in 1 .. MaxGeneration
          /\ UNCHANGED <<ePhase, eDue, eCache, eRam, eSync, eRadio, eEnv, eScreen, eSeen, eFaults>>
        <3>1. PICK s \in Sources, w \in Switches, i \in Intervals :
                LET new == [source |-> s, generation |-> eConf.generation, enabled |-> w.enabled,
                            show |-> w.show, interval |-> i, quiet |-> eConf.quiet]
                IN  eConf' = new \/ (/\ eConf.generation < MaxGeneration
                                    /\ eConf' = [new EXCEPT !.generation = @ + 1])
            BY <1>1 DEF Page!Configure
        <3>2. /\ eConf'.interval = i
              /\ eConf'.generation = eConf.generation
                 \/ (eConf.generation < MaxGeneration /\ eConf'.generation = eConf.generation + 1)
            BY <3>1
        <3> QED BY <1>1, <3>2, PageConstantsAre DEF Page!Configure, PageTypes
    <2> QED BY <2>1 DEF PageTypes
<1>2. CASE Page!SetClock
    <2>1. UNCHANGED <<ePhase, eConf, eRam, eSync, eRadio, eScreen, eSeen, eFaults>>
        BY <1>2 DEF Page!SetClock
    <2>2. \E hour \in {(eEnv.hour + Day - 1) % Day, (eEnv.hour + 1) % Day} :
                eEnv' = [eEnv EXCEPT !.clock = TRUE, !.hour = hour]
        BY <1>2 DEF Page!SetClock
    <2>3. (eEnv.hour + Day - 1) % Day \in Hours /\ (eEnv.hour + 1) % Day \in Hours
        <3>1. eEnv.hour \in Hours
            BY DEF PageTypes, Surroundings
        <3>2. eEnv.hour + Day - 1 \in 0 .. (2 * Day - 1)
            BY <3>1, PageConstantsAre DEF Hours
        <3>3. (eEnv.hour + Day - 1) % Day = Turned(eEnv.hour + Day - 1)
            BY <3>2, Turns
        <3> QED BY <3>1, <3>2, <3>3, NextHour, PageConstantsAre DEF Turned, Hours
    <2>4. eEnv' \in Surroundings
        BY <2>2, <2>3 DEF PageTypes, Surroundings
    <2>5. eDue' \in 0 .. (Day + 1)
        BY <1>2, PageConstantsAre DEF Page!SetClock, PageTypes, Page!Least
    <2>6. eCache' \in Page!Pages \cup {NoValue}
        <3>1. CASE eCache' = Page!Aged(eCache, 1)
            BY <3>1, AgedIs DEF PageTypes
        <3>2. CASE eCache # NoValue /\ eCache' = [eCache EXCEPT !.left = Page!Least(@ + 1, Life + 1)]
            <4> DEFINE n == Page!Least(eCache.left + 1, Life + 1)
            <4>1. eCache \in Page!Pages /\ eCache' = [eCache EXCEPT !.left = n]
                BY <3>2 DEF PageTypes
            <4>2. n \in 0 .. (Life + 1)
                BY <4>1, PageConstantsAre DEF Page!Pages, Page!Least
            <4> HIDE DEF n
            <4> QED BY <4>1, <4>2 DEF Page!Pages
        <3> QED BY <1>2, <3>1, <3>2 DEF Page!SetClock
    <2> QED BY <2>1, <2>4, <2>5, <2>6 DEF PageTypes
<1>3. CASE Page!PowerOff
    BY <1>3 DEF Page!PowerOff, PageTypes
<1>4. CASE Page!PowerChanges
    <2>1. eEnv' \in Surroundings
        BY <1>4 DEF Page!PowerChanges, PageTypes, Surroundings
    <2> QED BY <1>4, <2>1 DEF Page!PowerChanges, PageTypes
<1>5. CASE Page!Tick
    <2>1. eEnv' \in Surroundings
        <3>1. eEnv' = [eEnv EXCEPT !.hour = (eEnv.hour + 1) % Day]
            BY <1>5 DEF Page!Tick
        <3>2. (eEnv.hour + 1) % Day \in Hours
            BY NextHour DEF PageTypes, Surroundings
        <3> QED BY <3>1, <3>2 DEF PageTypes, Surroundings
    <2>2. eDue' \in 0 .. (Day + 1)
        BY <1>5, PageConstantsAre DEF Page!Tick, PageTypes
    <2>3. eCache' \in Page!Pages \cup {NoValue}
        BY <1>5, AgedIs DEF Page!Tick, PageTypes
    <2>4. eSync' \in Bursts
        <3>1. eSync' = [eSync EXCEPT !.page = Page!Aged(eSync.page, 1)]
            BY <1>5 DEF Page!Tick
        <3>2. Page!Aged(eSync.page, 1) \in Page!Pages \cup {NoValue}
            BY AgedIs DEF PageTypes, Bursts
        <3> QED BY <3>1, <3>2 DEF PageTypes, Bursts
    <2>5. eScreen' \in Screens
        <3> DEFINE n == IF ePhase = "asleep" /\ eScreen.plan # NoValue THEN eScreen.plan - 1
                        ELSE eScreen.plan
        <3>1. eScreen' = [eScreen EXCEPT !.plan = n]
            BY <1>5 DEF Page!Tick
        <3>2. n \in Nat \cup {NoValue}
            BY <1>5 DEF Page!Tick, PageTypes, Screens
        <3> HIDE DEF n
        <3> QED BY <3>1, <3>2 DEF PageTypes, Screens
    <2>6. eSeen' \in Witnesses
        <3> DEFINE n == IF ePhase = "asleep" /\ eSeen.promised /\ eSeen.waited <= 2 * Day
                        THEN eSeen.waited + 1 ELSE eSeen.waited
        <3> DEFINE turned == ePhase = "covered"
        <3>1. eSeen' = [eSeen EXCEPT !.wakes = 0, !.misread = 0, !.turned = turned, !.waited = n]
            BY <1>5 DEF Page!Tick
        <3>2. n \in Nat /\ turned \in BOOLEAN
            BY DEF PageTypes, Witnesses
        <3> HIDE DEF n, turned
        <3> QED BY <3>1, <3>2 DEF PageTypes, Witnesses
    <2> QED BY <1>5, <2>1, <2>2, <2>3, <2>4, <2>5, <2>6 DEF Page!Tick, PageTypes
<1>6. CASE Page!Cover
    <2>1. eSeen' \in Witnesses /\ eFaults' \in Nat
        BY <1>6, LoadedTypes DEF Page!Cover
    <2> QED BY <1>6, <2>1 DEF Page!Cover, PageTypes, Screens
<1>7. CASE Page!CoverFails
    BY <1>7 DEF Page!CoverFails, Page!Failing, PageTypes, Screens
<1>8. CASE Page!Sleep
    <2>1. PICK read \in BOOLEAN : Slept(read)
        BY <1>8, SleepIs
    <2> DEFINE plan == Plan(read)
               promised == Promised
               moved == eSeen.moved \/ (promised /\ eDue > eConf.interval /\ Page!NextDownload(Page!Allowed) # 0)
               blind == eScreen.shows = "page" /\ Page!Expiry(read) = NoValue
               waited == IF promised THEN eSeen.waited ELSE 0
    <2>7. /\ eScreen' = [eScreen EXCEPT !.critical = (eEnv.power = "critical"), !.plan = plan]
          /\ eSeen' = [eSeen EXCEPT !.promised = promised, !.waited = waited,
                                    !.moved = moved, !.blind = blind, !.turned = FALSE]
          /\ eRam' = [valid |-> FALSE, failed |-> FALSE] /\ eSync' = Page!NoSync
          /\ eRadio' = {} /\ ePhase' = "asleep" /\ UNCHANGED <<eConf, eDue, eCache, eEnv>>
          /\ eFaults' \in {eFaults, eFaults + 1}
        BY <2>1 DEF Slept
    <2>2. plan \in Nat \cup {NoValue}
        BY PlanIs
    <2>3. promised \in BOOLEAN /\ moved \in BOOLEAN /\ blind \in BOOLEAN /\ waited \in Nat
        BY DEF PageTypes, Witnesses, Promised
    <2> HIDE DEF plan, promised, moved, blind, waited
    <2>4. eScreen' \in Screens
        BY <2>7, <2>2 DEF PageTypes, Screens
    <2>5. eSeen' \in Witnesses
        BY <2>7, <2>3 DEF PageTypes, Witnesses
    <2>6. eSync' \in Bursts
        BY <2>7, FreshRecords
    <2>8. eFaults' \in Nat
        BY <2>7 DEF PageTypes
    <2> QED BY <2>7, <2>4, <2>5, <2>6, <2>8 DEF PageTypes
<1>9. CASE Page!Button \/ Page!PowerCut
    <2>1. /\ eScreen' = [shows |-> "ui", plan |-> NoValue, critical |-> FALSE]
          /\ eSeen' = Page!Unseen /\ eRadio' = {"ble"} /\ ePhase' = "ui"
          /\ eSync' \in {eSync, Page!NoSync}
          /\ eRam' \in {eRam, [valid |-> FALSE, failed |-> FALSE]}
          /\ eFaults' \in {eFaults, eFaults + 1}
          /\ UNCHANGED <<eConf, eDue, eCache, eEnv>>
        BY <1>9 DEF Page!Button, Page!PowerCut, Page!Failing
    <2>2. eScreen' \in Screens
        BY <2>1 DEF Screens
    <2>3. eSeen' \in Witnesses
        BY <2>1, FreshRecords
    <2>4. eSync' \in Bursts
        BY <2>1, FreshRecords DEF PageTypes
    <2>5. eRam' \in [valid : BOOLEAN, failed : BOOLEAN]
        BY <2>1, FreshRecords DEF PageTypes
    <2>6. eFaults' \in Nat
        BY <2>1 DEF PageTypes
    <2> QED BY <2>1, <2>2, <2>3, <2>4, <2>5, <2>6 DEF PageTypes
<1>10. CASE Page!Wake
    <2>1. eSeen' \in Witnesses
        BY <1>10 DEF Page!Wake, PageTypes, Witnesses
    <2> QED BY <1>10, <2>1 DEF Page!Wake, PageTypes
<1>11. CASE Page!Decide
    <2>1. ReturnTypes
        <3>1. \/ Page!Returns(FALSE, eRam'.valid)
              \/ ePhase' \in {"burst", "settled"} /\ UNCHANGED <<eRadio, eScreen>>
            BY <1>11 DEF Page!Decide
        <3> DEFINE valid == eRam'.valid
        <3> HIDE DEF valid
        <3>2. \/ Page!Returns(FALSE, valid)
              \/ ePhase' \in {"burst", "settled"} /\ UNCHANGED <<eRadio, eScreen>>
            BY <3>1 DEF valid
        <3>3. FALSE \in BOOLEAN
            OBVIOUS
        <3> QED BY <3>2, <3>3, ReturnsTypes
    <2>2. eSync' \in {eSync, Page!NoSync, Page!Begun} /\ UNCHANGED <<eConf, eDue, eCache, eEnv>>
        BY <1>11 DEF Page!Decide
    <2>3. eSync' \in Bursts
        BY <2>2, FreshRecords DEF PageTypes
    <2>4. eSeen' \in Witnesses /\ eFaults' \in Nat
        BY <1>11, LoadedTypes DEF Page!Decide
    <2>5. eRam' \in [valid : BOOLEAN, failed : BOOLEAN]
        BY <1>11 DEF Page!Decide, PageTypes
    <2> QED BY <2>1, <2>2, <2>3, <2>4, <2>5 DEF PageTypes, ReturnTypes
<1>12. CASE Page!Poll
    <2>1. eSync' \in Bursts
        BY <1>12, PollIs
    <2> QED BY <1>12, <2>1 DEF Page!Poll, PageTypes
<1>13. CASE Page!StopTimesOut
    <2>1. eSync' \in Bursts
        BY <1>13 DEF Page!StopTimesOut, PageTypes, Bursts, Page!States
    <2> QED BY <1>13, <2>1 DEF Page!StopTimesOut, Page!Failing, PageTypes
<1>14. CASE Page!Keep
    <2>1. eCache' \in Page!Pages \cup {NoValue}
        BY <1>14, KeepIs DEF PageTypes
    <2>2. eSync' \in Bursts
        BY <1>14, KeepIs
    <2>3. eFaults' \in Nat
        BY <1>14, KeepIs DEF PageTypes
    <2> QED BY <1>14, <2>1, <2>2, <2>3 DEF Page!Keep, Page!StopFailed, PageTypes
<1>15. CASE Page!Schedule
    <2>1. ReturnTypes
        <3> DEFINE valid == eRam'.valid
                   interactive == eSync.key
        <3>1. Page!Returns(interactive, valid)
            BY <1>15 DEF Page!Schedule
        <3>2. interactive \in BOOLEAN
            BY DEF PageTypes, Bursts
        <3> HIDE DEF valid, interactive
        <3> QED BY <3>1, <3>2, ReturnsTypes
    <2>2. eDue' \in 0 .. (Day + 1) /\ eFaults' \in Nat
        <3>1. PICK next \in 1 .. eConf.interval :
                \/ eDue' = next /\ eFaults' = eFaults /\ eRam' = eRam
                \/ eDue' \in {eDue, next} /\ eFaults' = eFaults + 1 /\ eRam' = Page!SaveFailed
            BY <1>15, ScheduleIs
        <3>2. eConf.interval \in 1 .. Day /\ Day \in Nat
            BY PageConstantsAre DEF PageTypes
        <3>3. next \in 0 .. (Day + 1)
            BY <3>2
        <3> QED BY <3>1, <3>3 DEF PageTypes
    <2>3. eSync' \in Bursts
        BY <1>15, FreshRecords DEF Page!Schedule
    <2>4. eSeen' \in Witnesses
        <3>1. \/ eSeen' = Page!Unseen
              \/ eSeen' = [eSeen EXCEPT !.waited = 0, !.moved = FALSE, !.promised = FALSE]
            BY <1>15 DEF Page!Schedule
        <3>2. CASE eSeen' = Page!Unseen
            BY <3>2, FreshRecords
        <3>3. CASE eSeen' = [eSeen EXCEPT !.waited = 0, !.moved = FALSE, !.promised = FALSE]
            BY <3>3 DEF PageTypes, Witnesses
        <3> QED BY <3>1, <3>2, <3>3
    <2>5. UNCHANGED <<eConf, eCache, eEnv>>
        BY <1>15 DEF Page!Schedule
    <2>6. eRam' \in [valid : BOOLEAN, failed : BOOLEAN]
        <3>1. eRam' = eRam \/ eRam' = Page!SaveFailed
            BY <1>15, ScheduleIs
        <3> QED BY <3>1, FreshRecords DEF PageTypes
    <2> QED BY <2>1, <2>2, <2>3, <2>4, <2>5, <2>6 DEF PageTypes, ReturnTypes
<1> QED BY <1>1, <1>2, <1>3, <1>4, <1>5, <1>6, <1>7, <1>8, <1>9, <1>10, <1>11, <1>12, <1>13,
           <1>14, <1>15 DEF Page!Next

\* Time and the clock age what is cached, and change nothing else of it.
LEMMA CacheAges ==
    ASSUME PageTypes, Page!SetClock \/ Page!Tick
    PROVE  /\ eConf' = eConf /\ (eCache = NoValue <=> eCache' = NoValue)
           /\ eCache # NoValue => /\ eCache'.generation = eCache.generation
                                  /\ eCache'.source = eCache.source
                                  /\ eCache'.revision = eCache.revision
<1>1. eConf' = eConf
    BY DEF Page!SetClock, Page!Tick
<1>2. CASE eCache' = Page!Aged(eCache, 1)
    BY <1>1, <1>2, AgedIs DEF PageTypes
<1>3. CASE eCache = NoValue /\ eCache' = NoValue
    BY <1>1, <1>3
<1>4. CASE eCache # NoValue /\ eCache' = [eCache EXCEPT !.left = Page!Least(@ + 1, Life + 1)]
    <2> DEFINE n == Page!Least(eCache.left + 1, Life + 1)
    <2>1. eCache \in Page!Pages /\ eCache' = [eCache EXCEPT !.left = n]
        BY <1>4 DEF PageTypes
    <2>2. n \in 0 .. (Life + 1)
        BY <2>1, PageConstantsAre DEF Page!Pages, Page!Least
    <2> HIDE DEF n
    <2>3. eCache' \in Page!Pages /\ eCache'.generation = eCache.generation
          /\ eCache'.source = eCache.source /\ eCache'.revision = eCache.revision
        BY <2>1, <2>2 DEF Page!Pages
    <2> QED BY <1>1, <1>4, <2>3, PageConstantsAre
<1> QED BY <1>2, <1>3, <1>4 DEF Page!SetClock, Page!Tick

LEMMA CacheStays ==
    ASSUME Page!Next
    PROVE  Page!Configure \/ Page!SetClock \/ Page!Tick \/ Page!Keep \/ UNCHANGED <<eConf, eCache>>
BY DEF Page!Next, Page!PowerOff, Page!PowerChanges, Page!Cover, Page!CoverFails, Page!Sleep,
       Page!Button, Page!Wake, Page!Decide, Page!Poll, Page!StopTimesOut, Page!Schedule,
       Page!PowerCut

LEMMA SourceStep ==
    ASSUME PageTypes, SourceInv, BurstInv, Page!Next
    PROVE  SourceInv'
<1>1. CASE Page!Configure
    <2>1. PICK s \in Sources, w \in Switches, i \in Intervals :
            LET new == [source |-> s, generation |-> eConf.generation, enabled |-> w.enabled,
                        show |-> w.show, interval |-> i, quiet |-> eConf.quiet]
            IN  IF new.source = eConf.source THEN eConf' = new
                ELSE eConf' = [new EXCEPT !.generation = @ + 1]
        BY <1>1 DEF Page!Configure
    <2>2. \/ eConf'.source = eConf.source /\ eConf'.generation = eConf.generation
          \/ eConf'.generation = eConf.generation + 1
        BY <2>1
    <2>3. eCache' = eCache /\ eConf.generation \in Nat
          /\ (eCache # NoValue => eCache.generation \in Nat)
        BY <1>1 DEF Page!Configure, PageTypes, Page!Pages
    <2> QED BY <2>2, <2>3 DEF SourceInv
<1>2. CASE Page!SetClock \/ Page!Tick
    <2>1. eConf' = eConf /\ (eCache' # NoValue => eCache # NoValue)
        BY <1>2, CacheAges
    <2>2. eCache # NoValue => eCache'.generation = eCache.generation /\ eCache'.source = eCache.source
        BY <1>2, CacheAges
    <2> QED BY <2>1, <2>2 DEF SourceInv
<1>3. CASE Page!Keep
    <2>1. eConf' = eConf
        BY <1>3 DEF Page!Keep
    <2>2. eConf.generation \in Nat
        BY PageConstantsAre DEF PageTypes
    <2> QED BY <1>3, <2>1, <2>2, KeepIs DEF SourceInv
<1>4. CASE UNCHANGED <<eConf, eCache>>
    BY <1>4 DEF SourceInv
<1> QED BY <1>1, <1>2, <1>3, <1>4, CacheStays

LEMMA PageStepForward ==
    ASSUME PageTypes, BurstInv, Page!Next
    PROVE  Page!GoesForward
<1>1. eCache # NoValue => eCache.revision \in Nat
    BY DEF PageTypes, Page!Pages
<1>2. CASE Page!Configure \/ UNCHANGED <<eConf, eCache>>
    BY <1>1, <1>2 DEF Page!Configure, Page!GoesForward
<1>3. CASE Page!SetClock \/ Page!Tick
    BY <1>1, <1>3, CacheAges DEF Page!GoesForward
<1>4. CASE Page!Keep
    <2>1. eCache' # NoValue => eCache' \in Page!Pages
        BY <1>4, KeepIs DEF PageTypes
    <2>2. eCache' # NoValue => eCache'.revision \in Nat
        BY <2>1 DEF Page!Pages
    <2> QED BY <1>1, <1>4, <2>2, KeepIs DEF Page!GoesForward, Page!Ours
<1> QED BY <1>2, <1>3, <1>4, CacheStays

LEMMA BurstStep ==
    ASSUME PageTypes, BurstInv, RadioInv, Page!Next
    PROVE  BurstInv'
<1>1. CASE \/ Page!Configure \/ Page!SetClock \/ Page!PowerOff \/ Page!PowerChanges \/ Page!Cover
           \/ Page!CoverFails \/ Page!Sleep \/ Page!Button \/ Page!Wake \/ Page!PowerCut
    <2>1. ePhase' \notin {"burst", "settled"}
        <3>1. CASE Page!Sleep
            BY <3>1 DEF Page!Sleep
        <3>2. CASE \/ Page!Configure \/ Page!SetClock \/ Page!PowerOff \/ Page!PowerChanges
                   \/ Page!Cover \/ Page!CoverFails
            BY <3>2 DEF Page!Configure, Page!SetClock, Page!PowerOff, Page!PowerChanges, Page!Cover,
                        Page!CoverFails
        <3>3. CASE Page!Button \/ Page!Wake \/ Page!PowerCut
            BY <3>3 DEF Page!Button, Page!Wake, Page!PowerCut
        <3> QED BY <1>1, <3>1, <3>2, <3>3
    <2> QED BY <2>1 DEF BurstInv
<1>2. CASE Page!Tick
    <2>1. ePhase' = ePhase /\ ePhase # "settled" /\ eConf' = eConf
        BY <1>2 DEF Page!Tick
    <2>2. eEnv'.clock = eEnv.clock
        BY <1>2 DEF Page!Tick, PageTypes, Surroundings
    <2>3. eSync'.result = eSync.result /\ eSync'.page = Page!Aged(eSync.page, 1)
        BY <1>2 DEF Page!Tick, PageTypes, Bursts
    <2>4. ePhase = "burst" /\ eSync.result = "Success" =>
            /\ eSync.page \in Page!Pages /\ eSync.page.source = eConf.source
            /\ Page!Aged(eSync.page, 1) \in Page!Pages
            /\ Page!Aged(eSync.page, 1).source = eConf.source
        BY AgedIs, PageConstantsAre DEF BurstInv
    <2> QED BY <2>1, <2>2, <2>3, <2>4 DEF BurstInv
<1>3. CASE Page!Decide
    <2>1. eEnv' = eEnv /\ (ePhase' \in {"burst", "settled"} => eEnv.clock)
        BY <1>3 DEF Page!Decide, Page!Returns
    <2>2. ePhase' = "burst" => eSync' = Page!Begun
        BY <1>3 DEF Page!Decide, Page!Returns
    <2>3. ePhase' = "settled" => eSync' = Page!NoSync
        BY <1>3 DEF Page!Decide, Page!Returns
    <2>4. Page!Begun.result = "Pending" /\ Page!NoSync.accepted = FALSE
        BY DEF Page!Begun, Page!NoSync
    <2> QED BY <2>1, <2>2, <2>3, <2>4 DEF BurstInv
<1>4. CASE Page!Poll
    <2>1. Proper(eSync')
        BY <1>4, PollIs
    <2>2. ePhase = "burst" /\ UNCHANGED <<ePhase, eEnv, eConf>>
        BY <1>4 DEF Page!Poll
    <2> QED BY <2>1, <2>2 DEF BurstInv, Proper
<1>5. CASE Page!StopTimesOut
    <2>1. eSync'.result = "StopFailed"
        BY <1>5 DEF Page!StopTimesOut, PageTypes, Bursts
    <2> QED BY <1>5, <2>1 DEF Page!StopTimesOut, BurstInv
<1>6. CASE Page!Keep
    <2>1. ePhase = "burst" /\ ePhase' = "settled" /\ eEnv' = eEnv
        BY <1>6 DEF Page!Keep
    <2> QED BY <1>6, <2>1, KeepIs DEF BurstInv
<1>7. CASE Page!Schedule
    <2>1. ePhase' \notin {"burst", "settled"}
        BY <1>7 DEF Page!Schedule, Page!Returns
    <2> QED BY <2>1 DEF BurstInv
<1> QED BY <1>1, <1>2, <1>3, <1>4, <1>5, <1>6, <1>7 DEF Page!Next

LEMMA RadioStep ==
    ASSUME PageTypes, BurstInv, RadioInv, Page!Next
    PROVE  RadioInv'
<1>1. CASE \/ Page!Configure \/ Page!SetClock \/ Page!PowerChanges \/ Page!CoverFails \/ Page!Wake
    BY <1>1 DEF Page!Configure, Page!SetClock, Page!PowerChanges, Page!CoverFails, Page!Wake,
                RadioInv, Page!OneRadio
<1>2. CASE Page!Tick
    <2>1. eSync'.started = eSync.started /\ eSync'.state = eSync.state /\ eSync'.result = eSync.result
        BY <1>2 DEF Page!Tick, PageTypes, Bursts
    <2> QED BY <1>2, <2>1 DEF Page!Tick, RadioInv, Page!OneRadio
<1>3. CASE Page!PowerOff \/ Page!Cover
    BY <1>3 DEF Page!PowerOff, Page!Cover, RadioInv, Page!OneRadio
<1>4. CASE Page!Sleep \/ Page!Button \/ Page!PowerCut
    BY <1>4 DEF Page!Sleep, Page!Button, Page!PowerCut, RadioInv, Page!OneRadio
<1>5. CASE Page!Decide
    <2>1. eRadio = {}
        BY <1>5 DEF Page!Decide, RadioInv
    <2>2. \/ ePhase' \in {"burst", "settled"} /\ eRadio' = {}
          \/ ePhase' = "closing" /\ eRadio' \in {{}, {"ble"}}
        BY <1>5, <2>1 DEF Page!Decide, Page!Returns
    <2>3. ePhase' = "burst" => eSync' = Page!Begun
        BY <1>5 DEF Page!Decide, Page!Returns
    <2>4. Page!Begun.state = "Credentials"
        BY DEF Page!Begun, Page!NoSync
    <2> QED BY <2>2, <2>3, <2>4 DEF RadioInv, Page!OneRadio
<1>6. CASE Page!Poll
    <2>1. Proper(eSync')
        BY <1>6, PollIs
    <2>2. ePhase = "burst" /\ ePhase' = "burst" /\ "ble" \notin eRadio
        BY <1>6 DEF Page!Poll, RadioInv
    <2>3. eRadio' = IF eSync'.started THEN eRadio \cup {"station"} ELSE eRadio \ {"station"}
        BY <1>6 DEF Page!Poll
    <2> QED BY <2>1, <2>2, <2>3 DEF RadioInv, Proper, Page!OneRadio
<1>7. CASE Page!StopTimesOut
    <2>1. eSync'.started = eSync.started /\ eSync'.result = "StopFailed"
        BY <1>7 DEF Page!StopTimesOut, PageTypes, Bursts
    <2> QED BY <1>7, <2>1 DEF Page!StopTimesOut, RadioInv, Page!OneRadio
<1>8. CASE Page!Keep
    <2>1. /\ ePhase = "burst" /\ ePhase' = "settled" /\ eRadio' = eRadio
          /\ eSync.state = "Done" /\ (eSync.result = "StopFailed" => eRam' = Page!StopFailed)
        BY <1>8 DEF Page!Keep
    <2>2. eSync'.key => eSync.result # "StopFailed"
        BY <1>8, KeepIs
    <2>3. ~Page!StopFailed.valid
        BY DEF Page!StopFailed
    <2> QED BY <2>1, <2>2, <2>3 DEF RadioInv, Page!OneRadio
<1>9. CASE Page!Schedule
    <2>1. ePhase = "settled" /\ "ble" \notin eRadio
        BY <1>9 DEF Page!Schedule, RadioInv
    <2>2. eRam' = eRam \/ eRam' = Page!SaveFailed
        BY <1>9, ScheduleIs
    <2>3. ~Page!SaveFailed.valid
        BY DEF Page!SaveFailed
    <2>4. "station" \in eRadio => ~eSync.key /\ ~eRam'.valid
        BY <2>1, <2>2, <2>3 DEF RadioInv
    <2>5. CASE eSync.key
        <3>1. ePhase' = "ui" /\ eRadio' = eRadio \cup {"ble"}
            BY <1>9, <2>5 DEF Page!Schedule, Page!Returns
        <3> QED BY <2>4, <2>5, <3>1 DEF RadioInv, Page!OneRadio
    <2>6. CASE ~eSync.key
        <3>1. ePhase' = "closing" /\ eRadio' \in {eRadio, eRadio \cup {"ble"}}
              /\ (~eRam'.valid => eRadio' = eRadio)
            BY <1>9, <2>6 DEF Page!Schedule, Page!Returns
        <3> QED BY <2>1, <2>4, <3>1 DEF RadioInv, Page!OneRadio
    <2> QED BY <2>5, <2>6
<1> QED BY <1>1, <1>2, <1>3, <1>4, <1>5, <1>6, <1>7, <1>8, <1>9 DEF Page!Next

\* What a tick and a sleep leave of the witnesses.
LEMMA TickIs ==
    ASSUME PageTypes, Page!Tick
    PROVE  /\ eSeen'.wakes = 0 /\ eSeen'.misread = 0 /\ eSeen'.promised = eSeen.promised
           /\ eSeen'.moved = eSeen.moved /\ eSeen'.blind = eSeen.blind
           /\ eSeen'.waited = IF ePhase = "asleep" /\ eSeen.promised /\ eSeen.waited <= 2 * Day
                              THEN eSeen.waited + 1 ELSE eSeen.waited
           /\ ePhase = "covered" => ~eSeen.turned /\ eSeen'.turned
<1> DEFINE n == IF ePhase = "asleep" /\ eSeen.promised /\ eSeen.waited <= 2 * Day
                THEN eSeen.waited + 1 ELSE eSeen.waited
           turned == ePhase = "covered"
<1>1. eSeen' = [eSeen EXCEPT !.wakes = 0, !.misread = 0, !.turned = turned, !.waited = n]
    BY DEF Page!Tick
<1> HIDE DEF n, turned
<1>2. /\ eSeen'.wakes = 0 /\ eSeen'.misread = 0 /\ eSeen'.promised = eSeen.promised
      /\ eSeen'.moved = eSeen.moved /\ eSeen'.blind = eSeen.blind
      /\ eSeen'.waited = n /\ eSeen'.turned = turned
    BY <1>1 DEF PageTypes, Witnesses
<1>3. ePhase = "covered" => ~eSeen.turned
    BY DEF Page!Tick
<1> QED BY <1>2, <1>3 DEF n, turned

LEMMA SeenAsleep ==
    ASSUME PageTypes, NEW read \in BOOLEAN, Slept(read)
    PROVE  /\ eSeen'.wakes = eSeen.wakes /\ eSeen'.misread = eSeen.misread
           /\ eSeen'.promised = Promised
           /\ eSeen'.waited = IF Promised THEN eSeen.waited ELSE 0
           /\ eSeen'.moved = (eSeen.moved \/ (Promised /\ eDue > eConf.interval
                                              /\ Page!NextDownload(Page!Allowed) # 0))
           /\ eSeen'.blind = (eScreen.shows = "page" /\ Page!Expiry(read) = NoValue)
<1> DEFINE promised == Promised
           waited == IF Promised THEN eSeen.waited ELSE 0
           moved == eSeen.moved \/ (Promised /\ eDue > eConf.interval
                                    /\ Page!NextDownload(Page!Allowed) # 0)
           blind == eScreen.shows = "page" /\ Page!Expiry(read) = NoValue
<1>1. eSeen' = [eSeen EXCEPT !.promised = promised, !.waited = waited, !.moved = moved,
                             !.blind = blind, !.turned = FALSE]
    BY DEF Slept
<1> HIDE DEF promised, waited, moved, blind
<1>2. /\ eSeen'.wakes = eSeen.wakes /\ eSeen'.misread = eSeen.misread
      /\ eSeen'.promised = promised /\ eSeen'.waited = waited /\ eSeen'.moved = moved
      /\ eSeen'.blind = blind
    BY <1>1 DEF PageTypes, Witnesses
<1> QED BY <1>2 DEF promised, waited, moved, blind

LEMMA ShownStep ==
    ASSUME PageTypes, SourceInv, ShownInv, Page!Next
    PROVE  ShownInv'
<1>1. CASE \/ Page!Configure \/ Page!SetClock \/ Page!PowerOff \/ Page!Button \/ Page!Wake
           \/ Page!Decide \/ Page!Poll \/ Page!StopTimesOut \/ Page!Keep \/ Page!Schedule
           \/ Page!PowerCut
    <2>1. ePhase' \notin {"covered", "asleep"}
        <3>1. CASE \/ Page!Configure \/ Page!SetClock \/ Page!PowerOff \/ Page!Button \/ Page!Wake
                   \/ Page!Poll \/ Page!StopTimesOut \/ Page!PowerCut
            BY <3>1 DEF Page!Configure, Page!SetClock, Page!PowerOff, Page!Button, Page!Wake,
                        Page!Poll, Page!StopTimesOut, Page!PowerCut
        <3>2. CASE Page!Keep
            BY <3>2 DEF Page!Keep
        <3>3. CASE Page!Decide \/ Page!Schedule
            BY <3>3 DEF Page!Decide, Page!Schedule, Page!Returns
        <3> QED BY <1>1, <3>1, <3>2, <3>3
    <2> QED BY <2>1 DEF ShownInv
<1>2. CASE Page!PowerChanges
    BY <1>2 DEF Page!PowerChanges, ShownInv
<1>3. CASE Page!Tick
    <2>1. CASE ePhase = "asleep"
        <3>1. /\ ePhase' = "asleep" /\ eConf' = eConf /\ eCache' = Page!Aged(eCache, 1)
              /\ eScreen.plan # 0
              /\ eScreen' = [eScreen EXCEPT !.plan = IF eScreen.plan # NoValue THEN eScreen.plan - 1
                                                     ELSE eScreen.plan]
            BY <1>3, <2>1 DEF Page!Tick
        <3>2. eScreen'.shows = eScreen.shows /\ eScreen'.critical = eScreen.critical
              /\ (eScreen.plan \in Nat => eScreen'.plan = eScreen.plan - 1)
            BY <3>1, PageConstantsAre DEF PageTypes, Screens
        <3>3. eCache # NoValue => /\ eCache' # NoValue /\ eCache'.source = eCache.source
                                  /\ eCache'.left = IF eCache.left > 1 THEN eCache.left - 1 ELSE 0
            BY <3>1, AgedIs DEF PageTypes
        <3>4. eCache # NoValue => eCache.left \in Nat
            BY PageConstantsAre DEF PageTypes, Page!Pages
        <3>5. eSeen'.blind = eSeen.blind
            BY <1>3, TickIs
        <3> QED BY <2>1, <3>1, <3>2, <3>3, <3>4, <3>5, PageConstantsAre DEF ShownInv
    <2>2. CASE ePhase = "covered"
        <3>1. /\ ePhase' = "covered" /\ UNCHANGED <<eConf, eRam>> /\ eCache' = Page!Aged(eCache, 1)
              /\ eScreen' = [eScreen EXCEPT !.plan = eScreen.plan]
            BY <1>3, <2>2 DEF Page!Tick
        <3>2. eScreen'.shows = eScreen.shows
            BY <3>1 DEF PageTypes, Screens
        <3>3. Page!Ours(eCache) => Page!Ours(eCache)'
            BY <3>1, AgedIs DEF PageTypes, Page!Ours
        <3> QED BY <2>2, <3>1, <3>2, <3>3 DEF ShownInv
    <2>3. CASE ePhase \notin {"asleep", "covered"}
        <3>1. ePhase' \notin {"asleep", "covered"}
            BY <1>3, <2>3 DEF Page!Tick
        <3> QED BY <3>1 DEF ShownInv
    <2> QED BY <2>1, <2>2, <2>3
<1>4. CASE Page!Cover
    <2>1. PICK v \in BOOLEAN : Page!Loaded(v) /\ eRam' = [eRam EXCEPT !.valid = v]
        BY <1>4 DEF Page!Cover
    <2>2. eRam'.valid = v /\ eRam'.failed = eRam.failed /\ (eRam.failed => ~v)
        BY <2>1 DEF Page!Loaded, PageTypes
    <2>3. /\ ePhase' = "covered" /\ UNCHANGED <<eConf, eCache, eEnv>>
          /\ eScreen' = [eScreen EXCEPT !.shows = IF Page!MayShow(eCache) THEN "page" ELSE "local"]
        BY <1>4 DEF Page!Cover
    <2>4. eScreen'.shows = "page" => Page!MayShow(eCache)
        <3>1. eScreen'.shows = IF Page!MayShow(eCache) THEN "page" ELSE "local"
            BY <2>3 DEF PageTypes, Screens
        <3> QED BY <3>1
    <2>5. eScreen'.shows = "page" => Page!Ours(eCache)'
        BY <2>3, <2>4 DEF Page!MayShow, Page!Ours
    <2> QED BY <2>2, <2>3, <2>5 DEF ShownInv
<1>5. CASE Page!CoverFails
    <2>1. ePhase' = "covered" /\ ePhase = "covered" /\ UNCHANGED eRam
          /\ eScreen' = [eScreen EXCEPT !.shows = "local"]
        BY <1>5 DEF Page!CoverFails
    <2>2. eScreen'.shows = "local"
        BY <2>1 DEF PageTypes, Screens
    <2> QED BY <2>1, <2>2 DEF ShownInv
<1>6. CASE Page!Sleep
    <2>0. PICK read \in BOOLEAN : Slept(read)
        BY <1>6, SleepIs
    <2>1. /\ ePhase = "covered" /\ ePhase' = "asleep" /\ UNCHANGED <<eConf, eCache>>
          /\ eScreen' = [eScreen EXCEPT !.critical = (eEnv.power = "critical"), !.plan = Plan(read)]
        BY <2>0 DEF Slept
    <2>2. eScreen'.shows = eScreen.shows /\ eScreen'.plan = Plan(read)
          /\ (~eScreen'.critical => eEnv.power # "critical")
        <3> DEFINE critical == eEnv.power = "critical"
                   plan == Plan(read)
        <3>1. eScreen' = [eScreen EXCEPT !.critical = critical, !.plan = plan]
            BY <2>1
        <3> HIDE DEF critical, plan
        <3>2. eScreen'.shows = eScreen.shows /\ eScreen'.plan = plan /\ eScreen'.critical = critical
            BY <3>1 DEF PageTypes, Screens
        <3> QED BY <3>2 DEF critical, plan
    <2>3. eScreen.shows = "page" => eCache # NoValue /\ eCache.source = eConf.source
        BY <2>1 DEF ShownInv, Page!Ours, SourceInv
    <2>4. ~eSeen'.blind /\ eScreen.shows = "page" => Page!Expiry(read) # NoValue
        BY <2>0, SeenAsleep
    <2>5. Page!Expiry(read) # NoValue => eCache.left \in 1 .. Life
                                         /\ (eEnv.power # "critical" => Plan(read) \in Nat /\ Plan(read) <= eCache.left)
        BY PlanIs
    <2> QED BY <2>1, <2>2, <2>3, <2>4, <2>5, PageConstantsAre DEF ShownInv
<1> QED BY <1>1, <1>2, <1>3, <1>4, <1>5, <1>6 DEF Page!Next

\* How far ahead a download is, of any settings and time.
LEMMA AheadOf ==
    ASSUME NEW quiet, NEW hour \in Hours, NEW due \in 0 .. (Day + 1), NEW interval \in 1 .. Day,
           NEW wait, wait = IF due > Day THEN 0 ELSE Page!Least(due, interval)
    PROVE  /\ wait \in 0 .. Day /\ wait <= interval /\ Pauses(quiet, hour, wait) \in Nat
           /\ wait <= Pauses(quiet, hour, wait) /\ Pauses(quiet, hour, wait) <= wait + Night
<1>1. wait \in 0 .. Day /\ wait <= interval
    BY PageConstantsAre DEF Page!Least
<1> QED BY <1>1, PausesIs

\* An hour later the download is an hour nearer.
LEMMA AheadTicks ==
    ASSUME PageTypes, Page!Tick, eDue <= eConf.interval, Ahead >= 1
    PROVE  Ahead' = Ahead - 1 /\ eDue' <= eConf'.interval /\ Ahead \in Nat
<1>1. /\ eConf' = eConf /\ eDue' = IF eDue = 0 THEN 0 ELSE eDue - 1
      /\ eEnv' = [eEnv EXCEPT !.hour = (eEnv.hour + 1) % Day]
    BY DEF Page!Tick
<1>2. eConf.interval \in 1 .. Day /\ eDue \in 0 .. Day /\ Day \in Nat /\ eEnv.hour \in Hours
    <2>1. eConf.interval \in 1 .. Day /\ Day \in Nat
        BY PageConstantsAre DEF PageTypes
    <2>3. eDue \in 0 .. (Day + 1)
        BY DEF PageTypes
    <2>2. eEnv.hour \in Hours
        BY DEF PageTypes, Surroundings
    <2> QED BY <2>1, <2>2, <2>3
<1>3. eEnv'.hour = (eEnv.hour + 1) % Day
    <2> DEFINE h == (eEnv.hour + 1) % Day
    <2>1. eEnv' = [eEnv EXCEPT !.hour = h]
        BY <1>1
    <2> HIDE DEF h
    <2>2. eEnv'.hour = h
        BY <2>1 DEF PageTypes, Surroundings
    <2> QED BY <2>2 DEF h
<1>4. DueIn = eDue /\ DueIn' = eDue'
    BY <1>1, <1>2 DEF DueIn, Page!Least
<1>5. Ahead = Pauses(eConf.quiet, eEnv.hour, eDue)
    BY <1>4 DEF Ahead
<1>6. Ahead' = Pauses(eConf.quiet, (eEnv.hour + 1) % Day, IF eDue = 0 THEN 0 ELSE eDue - 1)
    BY <1>1, <1>3, <1>4 DEF Ahead
<1>7. Ahead' = Ahead - 1
    BY <1>2, <1>5, <1>6, PausesTicks
<1> QED BY <1>1, <1>2, <1>7, AheadIs

LEMMA LoadedIs ==
    ASSUME PageTypes, NEW v \in BOOLEAN, Page!Loaded(v)
    PROVE  /\ eSeen'.wakes = eSeen.wakes /\ eSeen'.promised = eSeen.promised
           /\ eSeen'.moved = eSeen.moved
           /\ \/ /\ v = ~eRam.failed /\ eSeen'.misread = eSeen.misread
                 /\ eSeen'.waited = eSeen.waited
              \/ ~v /\ eSeen'.misread = eSeen.misread + 1 /\ eSeen'.waited = 0
BY DEF Page!Loaded, PageTypes, Witnesses

\* A device that goes to sleep is told to wake at once only when it may.
LEMMA NotAtOnce ==
    ASSUME PageTypes, ShownInv, ePhase = "covered", Later, NEW read \in BOOLEAN
    PROVE  Plan(read) # 0
<1>1. ~(eEnv.power = "critical") /\ Plan(read) = 0 => Page!NextDownload(Page!Allowed) = 0
    BY PlanIs
<1>2. Page!NextDownload(Page!Allowed) # 0
    <2> DEFINE allowed == Page!Allowed
    <2>1. Page!NextDownload(allowed) = IF ~eConf.enabled \/ ~allowed \/ ~eEnv.clock THEN NoValue ELSE Ahead
        <3> HIDE DEF allowed
        <3> QED BY NextDownloadIs
    <2>2. eRam.failed \/ eEnv.power # "ok" \/ ~eEnv.clock => ~allowed
        BY DEF Page!Allowed, ShownInv
    <2> HIDE DEF allowed
    <2>3. Page!NextDownload(allowed) # 0
        BY <2>1, <2>2, PageConstantsAre DEF Later
    <2> QED BY <2>3 DEF allowed
<1> QED BY <1>2, PlanIs

LEMMA UnseenIs == Unawaited(Page!Unseen)
BY DEF Unawaited, Page!Unseen

LEMMA WakeStep ==
    ASSUME PageTypes, BurstInv, ShownInv, WakeInv, Page!Next, PageTypes'
    PROVE  WakeInv'
<1>0. eSeen.wakes \in Nat /\ eSeen.misread \in Nat
    BY DEF PageTypes, Witnesses
<1>1. CASE Page!Configure \/ Page!SetClock \/ Page!Button \/ Page!PowerCut
    <2>1. ePhase' = "ui" /\ Unawaited(eSeen')
        BY <1>1, UnseenIs DEF Page!Configure, Page!SetClock, Page!Button, Page!PowerCut, WakeInv
    <2> QED BY <2>1 DEF WakeInv, Page!NoWakeLoop, Unawaited
<1>2. CASE Page!PowerChanges
    <2>1. ePhase' \in {"ui", "asleep"} /\ UNCHANGED <<ePhase, eSeen, eRam, eScreen>>
        BY <1>2 DEF Page!PowerChanges
    <2> QED BY <2>1 DEF WakeInv, Page!NoWakeLoop
<1>3. CASE Page!PowerOff
    <2>1. ePhase = "ui" /\ ePhase' = "closing" /\ eSeen' = eSeen
        BY <1>3 DEF Page!PowerOff
    <2> QED BY <2>1 DEF WakeInv, Page!NoWakeLoop, Unawaited
<1>4. CASE Page!Tick
    <2>1. ePhase' = ePhase /\ ePhase \in {"ui", "burst", "covered", "asleep"} /\ eRam' = eRam
        BY <1>4 DEF Page!Tick
    <2>2. eSeen'.wakes = 0 /\ eSeen'.misread = 0
        BY <1>4, TickIs
    <2>3. ePhase = "ui" => Unawaited(eSeen')
        BY <1>4, TickIs DEF WakeInv, Unawaited
    <2> QED BY <2>1, <2>2, <2>3 DEF WakeInv, Page!NoWakeLoop
<1>5. CASE Page!Cover
    <2>1. PICK v \in BOOLEAN : Page!Loaded(v) /\ eRam' = [eRam EXCEPT !.valid = v]
        BY <1>5 DEF Page!Cover
    <2>2. eSeen'.wakes = eSeen.wakes /\ eSeen'.misread >= eSeen.misread /\ eRam'.failed = eRam.failed
        BY <1>0, <2>1, LoadedIs DEF PageTypes
    <2>3. ePhase = "closing" /\ ePhase' = "covered" /\ UNCHANGED <<eConf, eDue, eEnv>>
        BY <1>5 DEF Page!Cover
    <2>4. Ahead' = Ahead
        BY <2>3 DEF Ahead, DueIn
    <2>5. eSeen'.misread \in Nat
        BY <1>0, <2>1, LoadedIs
    <2> QED BY <1>0, <2>2, <2>3, <2>4, <2>5 DEF WakeInv, Page!NoWakeLoop, Later
<1>6. CASE Page!CoverFails
    <2>1. ePhase = "covered" /\ UNCHANGED <<ePhase, eConf, eDue, eEnv, eRam, eSeen>>
        BY <1>6 DEF Page!CoverFails
    <2>2. Ahead' = Ahead
        BY <2>1 DEF Ahead, DueIn
    <2> QED BY <2>1, <2>2 DEF WakeInv, Page!NoWakeLoop, Later
<1>7. CASE Page!Sleep
    <2>0. PICK read \in BOOLEAN : Slept(read)
        BY <1>7, SleepIs
    <2>1. /\ ePhase = "covered" /\ ePhase' = "asleep" /\ eRam' = [valid |-> FALSE, failed |-> FALSE]
          /\ eScreen' = [eScreen EXCEPT !.critical = (eEnv.power = "critical"), !.plan = Plan(read)]
        BY <2>0 DEF Slept
    <2>2. eSeen'.wakes = eSeen.wakes /\ eSeen'.misread = eSeen.misread
        BY <2>0, SeenAsleep
    <2>3. eScreen'.plan = Plan(read)
        BY <2>1 DEF PageTypes, Screens
    <2> QED BY <2>1, <2>2, <2>3, NotAtOnce DEF WakeInv, Page!NoWakeLoop
<1>8. CASE Page!Wake
    <2>1. ePhase = "asleep" /\ eScreen.plan = 0 /\ ePhase' = "woken" /\ eRam' = eRam
          /\ eSeen' = [eSeen EXCEPT !.wakes = eSeen.wakes + 1]
        BY <1>8 DEF Page!Wake
    <2>2. eSeen'.wakes = eSeen.wakes + 1 /\ eSeen'.misread = eSeen.misread
        BY <2>1 DEF PageTypes, Witnesses
    <2> QED BY <1>0, <2>1, <2>2 DEF WakeInv, Page!NoWakeLoop
<1>9. CASE Page!Decide
    <2>1. PICK v \in BOOLEAN : Page!Loaded(v) /\ eRam' = [eRam EXCEPT !.valid = v]
        BY <1>9 DEF Page!Decide
    <2>2. ePhase = "woken" /\ ePhase' \in {"burst", "settled", "closing"} /\ UNCHANGED <<eConf, eDue, eEnv>>
        BY <1>9 DEF Page!Decide, Page!Returns
    <2>3. ePhase' = "closing" => ~(eRam'.valid /\ eEnv.clock /\ eEnv.power = "ok" /\ Page!NextDownload(TRUE) = 0)
        BY <1>9 DEF Page!Decide
    <2>4. Page!NextDownload(TRUE) = IF ~eConf.enabled \/ ~eEnv.clock THEN NoValue ELSE Ahead
        BY NextDownloadIs
    <2>5. eRam'.valid = v /\ ~eRam.failed
        BY <2>1, <2>2 DEF PageTypes, WakeInv
    <2>6. Ahead' = Ahead
        BY <2>2 DEF Ahead, DueIn
    <2>7. /\ eSeen'.wakes = eSeen.wakes
          /\ \/ v /\ eSeen'.misread = eSeen.misread
             \/ eSeen'.misread = eSeen.misread + 1
        BY <2>1, <2>5, LoadedIs
    <2>8. eSeen.wakes <= 1 + eSeen.misread
        BY DEF WakeInv, Page!NoWakeLoop
    <2>9. eSeen'.wakes <= 1 + eSeen'.misread /\ (~v => eSeen'.wakes <= eSeen'.misread)
        <3>1. CASE v /\ eSeen'.misread = eSeen.misread
            BY <2>7, <2>8, <3>1
        <3>2. CASE eSeen'.misread = eSeen.misread + 1
            BY <1>0, <2>7, <2>8, <3>2
        <3> QED BY <2>7, <3>1, <3>2
    <2>10. v /\ ePhase' = "closing" => Later'
        BY <2>2, <2>3, <2>4, <2>5, <2>6 DEF Later
    <2> QED BY <2>2, <2>9, <2>10 DEF WakeInv, Page!NoWakeLoop
<1>10. CASE Page!Poll \/ Page!StopTimesOut \/ Page!Keep
    <2>1. ePhase' \in {"burst", "settled"} /\ eSeen' = eSeen
        <3>1. CASE Page!Poll \/ Page!StopTimesOut
            BY <3>1 DEF Page!Poll, Page!StopTimesOut
        <3>2. CASE Page!Keep
            BY <3>2 DEF Page!Keep
        <3> QED BY <1>10, <3>1, <3>2
    <2> QED BY <2>1 DEF WakeInv, Page!NoWakeLoop
<1>11. CASE Page!Schedule
    <2>1. CASE eSync.key
        <3>1. ePhase' = "ui" /\ eSeen' = Page!Unseen
            BY <1>11, <2>1 DEF Page!Schedule, Page!Returns
        <3> QED BY <3>1, UnseenIs DEF WakeInv, Page!NoWakeLoop, Unawaited
    <2>2. CASE ~eSync.key
        <3>1. /\ ePhase' = "closing" /\ eConf' = eConf
              /\ eSeen' = [eSeen EXCEPT !.waited = 0, !.moved = FALSE, !.promised = FALSE]
            BY <1>11, <2>2 DEF Page!Schedule, Page!Returns
        <3>2. eSeen'.wakes = eSeen.wakes /\ eSeen'.misread = eSeen.misread
            BY <3>1 DEF PageTypes, Witnesses
        <3>3. PICK next \in 1 .. eConf.interval :
                \/ eDue' = next /\ eRam' = eRam
                \/ eRam' = Page!SaveFailed
            BY <1>11, ScheduleIs
        <3>4. ASSUME eDue' = next PROVE Later'
            <4>1. eConf'.interval \in 1 .. Day /\ eEnv'.hour \in Hours /\ eDue' \in 0 .. (Day + 1)
                BY PageConstantsAre DEF PageTypes, Surroundings
            <4>2. DueIn' = IF eDue' > Day THEN 0 ELSE Page!Least(eDue', eConf'.interval)
                BY DEF DueIn
            <4>3. DueIn' >= 1
                BY <3>1, <3>4, <4>1, <4>2, PageConstantsAre DEF Page!Least
            <4>4. /\ DueIn' \in 0 .. Day /\ Pauses(eConf'.quiet, eEnv'.hour, DueIn') \in Nat
                  /\ DueIn' <= Pauses(eConf'.quiet, eEnv'.hour, DueIn')
                BY <4>1, <4>2, AheadOf
            <4>5. Ahead' = Pauses(eConf'.quiet, eEnv'.hour, DueIn')
                BY DEF Ahead
            <4>6. Ahead' # 0
                BY <4>3, <4>4, <4>5
            <4> QED BY <4>6 DEF Later
        <3>5. ASSUME eRam' = Page!SaveFailed PROVE Later'
            BY <3>5 DEF Page!SaveFailed, Later
        <3>6. Later'
            BY <3>3, <3>4, <3>5
        <3> QED BY <3>1, <3>2, <3>6 DEF WakeInv, Page!NoWakeLoop
    <2> QED BY <2>1, <2>2
<1> QED BY <1>1, <1>2, <1>3, <1>4, <1>5, <1>6, <1>7, <1>8, <1>9, <1>10, <1>11 DEF Page!Next

\* The bound does not depend on anything but the interval.
LEMMA BoundIs ==
    ASSUME PageTypes
    PROVE  Bound \in Nat /\ eConf.interval \in 1 .. Day /\ eDue \in Nat /\ Ahead \in Nat
           /\ eSeen.waited \in Nat /\ Ahead <= DueIn + Night /\ Night \in Nat
           /\ DueIn \in Nat /\ DueIn <= eConf.interval
<1>1. eConf.interval \in 1 .. Day /\ Day \in Nat
    BY PageConstantsAre DEF PageTypes
<1>2. eDue \in 0 .. (Day + 1) /\ eSeen.waited \in Nat
    BY DEF PageTypes, Witnesses
<1>3. DueIn <= eConf.interval
    BY <1>1, <1>2 DEF DueIn, Page!Least
<1> QED BY <1>1, <1>2, <1>3, AheadIs DEF Bound

LEMMA NoMoreAhead ==
    ASSUME PageTypes
    PROVE  Ahead \in Nat /\ Bound \in Nat /\ Ahead <= Bound
<1>1. Ahead \in Nat /\ Night \in Nat /\ DueIn \in Nat /\ DueIn <= eConf.interval /\ Ahead <= DueIn + Night
      /\ eConf.interval \in Nat
    BY BoundIs, PageConstantsAre
<1> QED BY <1>1 DEF Bound

LEMMA AgainBound ==
    ASSUME PageTypes'
    PROVE  /\ Ahead' \in Nat /\ Ahead' <= DueIn' + Night /\ DueIn' \in Nat
           /\ DueIn' <= eConf'.interval /\ Night \in Nat /\ eConf'.interval \in 1 .. Day
<1>1. /\ eConf'.interval \in 1 .. Day /\ Day \in Nat /\ eDue' \in 0 .. (Day + 1)
      /\ eEnv'.hour \in Hours
    BY PageConstantsAre DEF PageTypes, Surroundings
<1>2. DueIn' = IF eDue' > Day THEN 0 ELSE Page!Least(eDue', eConf'.interval)
    BY DEF DueIn
<1>3. /\ DueIn' \in 0 .. Day /\ DueIn' <= eConf'.interval
      /\ Pauses(eConf'.quiet, eEnv'.hour, DueIn') \in Nat
      /\ Pauses(eConf'.quiet, eEnv'.hour, DueIn') <= DueIn' + Night
    BY <1>1, <1>2, AheadOf
<1>4. Ahead' = Pauses(eConf'.quiet, eEnv'.hour, DueIn')
    BY DEF Ahead
<1>5. Night \in Nat
    <2>1. 0 \in Hours
        BY PageConstantsAre DEF Hours
    <2> QED BY <2>1, PauseIs
<1> QED BY <1>1, <1>3, <1>4, <1>5

LEMMA TimeStep ==
    ASSUME PageTypes, WakeInv, TimeInv, Page!Next, PageTypes'
    PROVE  TimeInv'
<1>0. Bound \in Nat /\ Ahead \in Nat /\ eSeen.waited \in Nat /\ eSeen.promised \in BOOLEAN
      /\ eSeen.moved \in BOOLEAN
    BY BoundIs DEF PageTypes, Witnesses
<1>1. ASSUME Unawaited(eSeen'), ePhase' # "asleep", Bound' \in Nat
      PROVE  TimeInv'
    BY <1>1 DEF TimeInv, Unawaited
<1>2. CASE Page!Configure
    <2>1. ePhase' = "ui" /\ Unawaited(eSeen')
        BY <1>2 DEF Page!Configure, WakeInv
    <2>2. Bound' \in Nat
        <3>1. eConf'.interval \in 1 .. Day /\ Day \in Nat /\ Night \in Nat
            BY PageConstantsAre, BoundIs DEF PageTypes
        <3> QED BY <3>1 DEF Bound
    <2> QED BY <1>1, <2>1, <2>2
<1>3. CASE Page!SetClock \/ Page!Button \/ Page!PowerCut \/ Page!PowerOff
    <2>1. ePhase' # "asleep" /\ Unawaited(eSeen') /\ eConf' = eConf
        BY <1>3, UnseenIs DEF Page!SetClock, Page!Button, Page!PowerCut, Page!PowerOff, WakeInv
    <2>2. Bound' \in Nat
        BY <1>0, <2>1 DEF Bound
    <2> QED BY <1>1, <2>1, <2>2
<1>4. CASE Page!PowerChanges
    <2>1. /\ ePhase' = ePhase /\ ePhase \in {"ui", "asleep"} /\ UNCHANGED <<eConf, eDue, eScreen, eSeen>>
          /\ \E p : eEnv' = [eEnv EXCEPT !.power = p]
        BY <1>4 DEF Page!PowerChanges
    <2>2. eEnv'.hour = eEnv.hour /\ eEnv'.clock = eEnv.clock
        BY <2>1 DEF PageTypes, Surroundings
    <2>3. Ahead' = Ahead /\ Bound' = Bound
        BY <2>1, <2>2 DEF Ahead, DueIn, Bound
    <2> QED BY <2>1, <2>2, <2>3 DEF TimeInv
<1>5. CASE Page!Tick
    <2> DEFINE n == IF ePhase = "asleep" /\ eSeen.promised /\ eSeen.waited <= 2 * Day
                    THEN eSeen.waited + 1 ELSE eSeen.waited
    <2>2. /\ eSeen'.promised = eSeen.promised /\ eSeen'.waited = n /\ eSeen'.moved = eSeen.moved
          /\ ePhase = "covered" => ~eSeen.turned /\ eSeen'.turned
        BY <1>5, TickIs
    <2>3. ePhase' = ePhase /\ ePhase \in {"ui", "burst", "covered", "asleep"} /\ eConf' = eConf
          /\ eEnv'.clock = eEnv.clock /\ eEnv'.power = eEnv.power /\ Bound' = Bound
        BY <1>5 DEF Page!Tick, PageTypes, Surroundings, Bound
    <2>4. CASE ePhase \notin {"asleep", "covered"}
        BY <2>2, <2>3, <2>4 DEF TimeInv
    <2>7. CASE ePhase = "covered"
        <3>1. eSeen'.waited = eSeen.waited /\ eSeen'.turned /\ ~eSeen.turned
            BY <2>2, <2>7
        <3>2. Off' = Off
            BY <2>3 DEF Off
        <3>3. Ahead' \in Nat /\ Ahead' <= Bound'
            <4>1. Ahead' \in Nat /\ Ahead' <= DueIn' + Night /\ DueIn' \in Nat
                  /\ DueIn' <= eConf'.interval /\ Night \in Nat /\ eConf'.interval \in 1 .. Day
                BY AgainBound
            <4>2. Day \in Nat /\ Bound' = eConf'.interval + Night
                BY PageConstantsAre DEF Bound
            <4> DEFINE i == eConf'.interval
                       j == DueIn'
                       a == Ahead'
                       b == Bound'
            <4>3. a \in Nat /\ a <= j + Night /\ j \in Nat /\ j <= i /\ Night \in Nat /\ i \in 1 .. Day
                  /\ Day \in Nat /\ b = i + Night
                BY <4>1, <4>2
            <4> HIDE DEF i, j, a, b
            <4>4. a \in Nat /\ a <= b
                BY <4>3
            <4> QED BY <4>4 DEF a, b
        <3>4. eSeen.promised /\ ~eSeen.moved => Off \/ eSeen.waited + Ahead' <= Bound
            <4> SUFFICES ASSUME eSeen.promised, ~eSeen.moved, ~Off
                         PROVE  eSeen.waited + Ahead' <= Bound
                OBVIOUS
            <4>1. CASE eSeen.waited = 0
                BY <2>3, <3>3, <4>1
            <4>2. CASE eDue <= eConf.interval /\ Ahead # 0
                <5>1. Ahead' = Ahead - 1
                    BY <1>0, <1>5, <4>2, AheadTicks
                <5>2. eSeen.waited + Ahead <= Bound
                    BY <2>7, <4>2 DEF TimeInv
                <5> QED BY <1>0, <5>1, <5>2
            <4> QED BY <2>7, <3>1, <4>1, <4>2 DEF TimeInv
        <3> QED BY <2>2, <2>3, <2>7, <3>1, <3>2, <3>4 DEF TimeInv
    <2>5. CASE ePhase = "asleep" /\ ~eSeen.promised
        BY <2>2, <2>3, <2>5 DEF TimeInv
    <2>6. CASE ePhase = "asleep" /\ eSeen.promised
        <3>1. eEnv.clock /\ eScreen.plan \in Nat /\ eScreen.plan # 0
            BY <1>5, <2>6 DEF Page!Tick, TimeInv
        <3>2. eScreen' = [eScreen EXCEPT !.plan = eScreen.plan - 1]
            BY <1>5, <2>6, <3>1, PageConstantsAre DEF Page!Tick
        <3>3. eScreen'.plan = eScreen.plan - 1 /\ eScreen'.plan \in Nat
            BY <3>1, <3>2 DEF PageTypes, Screens
        <3>4. ~eSeen.moved =>
                /\ eDue <= eConf.interval /\ eScreen.plan <= Ahead
                /\ eSeen.waited + Ahead <= Bound
            BY <2>6, <3>1 DEF TimeInv
        <3>5. ~eSeen.moved => Ahead' = Ahead - 1 /\ eDue' <= eConf'.interval
            BY <1>0, <1>5, <3>1, <3>4, AheadTicks
        <3> HIDE DEF n
        <3>6. n \in Nat /\ n <= eSeen.waited + 1
            BY <1>0 DEF n
        <3>7. ~eSeen.moved => n + Ahead' <= Bound /\ n <= Bound /\ eScreen'.plan <= Ahead'
            BY <1>0, <3>1, <3>3, <3>4, <3>5, <3>6
        <3> QED BY <2>2, <2>3, <2>6, <3>1, <3>3, <3>5, <3>7 DEF TimeInv
    <2> QED BY <2>3, <2>4, <2>5, <2>6, <2>7
<1>6. CASE Page!Cover
    <2>1. PICK v \in BOOLEAN : Page!Loaded(v)
        BY <1>6 DEF Page!Cover
    <2>2. ePhase = "closing" /\ ePhase' = "covered" /\ UNCHANGED <<eConf, eDue, eEnv>>
        BY <1>6 DEF Page!Cover
    <2>3. Ahead' = Ahead /\ Bound' = Bound /\ Off' = Off /\ Ahead <= Bound
        BY <2>2, BoundIs, NoMoreAhead DEF Ahead, DueIn, Bound, Off
    <2>4. eSeen'.promised = eSeen.promised /\ eSeen'.waited \in {eSeen.waited, 0}
          /\ eSeen'.moved = eSeen.moved
        BY <2>1, LoadedIs
    <2> QED BY <1>0, <2>2, <2>3, <2>4 DEF TimeInv
<1>7. CASE Page!CoverFails
    <2>1. ePhase = "covered" /\ UNCHANGED <<ePhase, eConf, eDue, eEnv, eSeen>>
        BY <1>7 DEF Page!CoverFails
    <2>2. Ahead' = Ahead /\ Bound' = Bound /\ Off' = Off
        BY <2>1 DEF Ahead, DueIn, Bound, Off
    <2> QED BY <2>1, <2>2 DEF TimeInv
<1>8. CASE Page!Sleep
    <2> DEFINE download == Page!NextDownload(Page!Allowed)
               promised == Promised
               moved == eSeen.moved \/ (promised /\ eDue > eConf.interval /\ download # 0)
               waited == IF promised THEN eSeen.waited ELSE 0
    <2>0. PICK read \in BOOLEAN : Slept(read)
        BY <1>8, SleepIs
    <2>1. /\ ePhase = "covered" /\ ePhase' = "asleep" /\ UNCHANGED <<eConf, eDue, eEnv>>
          /\ eScreen' = [eScreen EXCEPT !.critical = (eEnv.power = "critical"), !.plan = Plan(read)]
        BY <2>0 DEF Slept
    <2>2. eScreen'.plan = Plan(read)
        BY <2>1 DEF PageTypes, Screens
    <2>3. Ahead' = Ahead /\ Bound' = Bound
        BY <2>1 DEF Ahead, DueIn, Bound
    <2>4. promised => download = Ahead /\ eEnv.clock /\ ~Off /\ Plan(read) \in Nat /\ Plan(read) <= Ahead
        <3> DEFINE allowed == Page!Allowed
        <3>1. Page!NextDownload(allowed) = IF ~eConf.enabled \/ ~allowed \/ ~eEnv.clock THEN NoValue ELSE Ahead
            <4> HIDE DEF allowed
            <4> QED BY NextDownloadIs
        <3>2. promised => download = Ahead /\ eEnv.clock /\ ~Off
            BY <3>1 DEF Promised, Off, Page!Allowed
        <3>3. promised => Plan(read) \in Nat /\ Plan(read) <= download
            BY PlanIs DEF Promised
        <3> QED BY <3>2, <3>3
    <2>5. promised => (moved <=> eSeen.moved \/ (eDue > eConf.interval /\ Ahead # 0))
        BY <2>4
    <2>6. (promised \in BOOLEAN) /\ (~moved => ~eSeen.moved) /\ (promised => waited = eSeen.waited)
          /\ (~promised => waited = 0) /\ moved \in BOOLEAN
        BY <1>0 DEF Promised
    <2>7. eSeen'.promised = promised /\ eSeen'.waited = waited /\ eSeen'.moved = moved
        BY <2>0, SeenAsleep
    <2> HIDE DEF promised, moved, waited
    <2>8. ~moved => waited <= Bound
        BY <1>0, <2>6 DEF TimeInv
    <2>9. promised /\ ~moved /\ eDue <= eConf.interval => waited + Ahead <= Bound
        <3>1. CASE eSeen.promised
            BY <2>1, <2>4, <2>6, <3>1 DEF TimeInv
        <3>2. CASE ~eSeen.promised
            <4>1. eSeen.waited = 0
                BY <3>2 DEF TimeInv
            <4>2. eConf.interval \in Nat
                BY BoundIs, PageConstantsAre
            <4>3. Ahead <= Bound
                BY <1>0, <4>2, BoundIs DEF Bound
            <4>4. promised => waited = 0
                BY <2>6, <4>1
            <4> QED BY <1>0, <4>3, <4>4
        <3> QED BY <1>0, <3>1, <3>2
    <2>10. promised /\ ~moved => IF eDue <= eConf.interval THEN Plan(read) <= Ahead
                                 ELSE Plan(read) = 0 /\ Ahead = 0
        <3>1. eConf.interval \in Nat /\ eDue \in Nat
            BY BoundIs, PageConstantsAre
        <3>2. promised /\ ~moved => eDue <= eConf.interval \/ Ahead = 0
            BY <2>5, <3>1
        <3> QED BY <1>0, <2>4, <3>2
    <2> QED BY <2>1, <2>2, <2>3, <2>4, <2>6, <2>7, <2>8, <2>9, <2>10 DEF TimeInv
<1>9. CASE Page!Wake
    <2>1. /\ ePhase = "asleep" /\ ePhase' = "woken" /\ UNCHANGED <<eConf, eDue, eEnv>>
          /\ eSeen' = [eSeen EXCEPT !.wakes = eSeen.wakes + 1]
        BY <1>9 DEF Page!Wake
    <2>2. Ahead' = Ahead /\ Bound' = Bound
        BY <2>1 DEF Ahead, DueIn, Bound
    <2>3. eSeen'.promised = eSeen.promised /\ eSeen'.waited = eSeen.waited /\ eSeen'.moved = eSeen.moved
        BY <2>1 DEF PageTypes, Witnesses
    <2> QED BY <2>1, <2>2, <2>3 DEF TimeInv
<1>10. CASE Page!Decide
    <2>1. PICK v \in BOOLEAN : Page!Loaded(v) /\ eRam' = [eRam EXCEPT !.valid = v]
        BY <1>10 DEF Page!Decide
    <2>2. ePhase = "woken" /\ ePhase' \in {"burst", "settled", "closing"} /\ UNCHANGED <<eConf, eDue, eEnv>>
        BY <1>10 DEF Page!Decide, Page!Returns
    <2>3. Ahead' = Ahead /\ Bound' = Bound /\ Off' = Off /\ Ahead <= Bound
        BY <2>2, NoMoreAhead DEF Ahead, DueIn, Bound, Off
    <2>4. /\ eSeen'.promised = eSeen.promised /\ eSeen'.moved = eSeen.moved
          /\ (v /\ eSeen'.waited = eSeen.waited) \/ eSeen'.waited = 0
        BY <2>1, <2>2, LoadedIs DEF WakeInv
    <2>5. ePhase' = "closing" /\ eSeen'.waited # 0 => Off \/ Ahead # 0
        <3>1. ePhase' = "closing" => ~(eRam'.valid /\ eEnv.clock /\ eEnv.power = "ok" /\ Page!NextDownload(TRUE) = 0)
            BY <1>10 DEF Page!Decide
        <3>2. Page!NextDownload(TRUE) = IF ~eConf.enabled \/ ~eEnv.clock THEN NoValue ELSE Ahead
            BY NextDownloadIs
        <3>3. eRam'.valid = v
            BY <2>1 DEF PageTypes
        <3> QED BY <2>4, <3>1, <3>2, <3>3 DEF Off
    <2> QED BY <1>0, <2>2, <2>3, <2>4, <2>5 DEF TimeInv
<1>11. CASE Page!Poll \/ Page!StopTimesOut \/ Page!Keep
    <2>1. ePhase' \in {"burst", "settled"} /\ eSeen' = eSeen /\ eConf' = eConf
        <3>1. CASE Page!Poll \/ Page!StopTimesOut
            BY <3>1 DEF Page!Poll, Page!StopTimesOut
        <3>2. CASE Page!Keep
            BY <3>2 DEF Page!Keep
        <3> QED BY <1>11, <3>1, <3>2
    <2>2. Bound' = Bound
        BY <2>1 DEF Bound
    <2> QED BY <2>1, <2>2 DEF TimeInv
<1>12. CASE Page!Schedule
    <2>1. /\ ePhase' \in {"ui", "closing"} /\ eConf' = eConf
          /\ \/ eSeen' = Page!Unseen
             \/ eSeen' = [eSeen EXCEPT !.waited = 0, !.moved = FALSE, !.promised = FALSE]
        BY <1>12 DEF Page!Schedule, Page!Returns
    <2>2. ~eSeen'.promised /\ eSeen'.waited = 0
        <3>1. CASE eSeen' = Page!Unseen
            BY <3>1, UnseenIs DEF Unawaited
        <3>2. CASE eSeen' = [eSeen EXCEPT !.waited = 0, !.moved = FALSE, !.promised = FALSE]
            BY <3>2 DEF PageTypes, Witnesses
        <3> QED BY <2>1, <3>1, <3>2
    <2>3. Bound' = Bound
        BY <2>1 DEF Bound
    <2> QED BY <1>0, <2>1, <2>2, <2>3 DEF TimeInv
<1> QED BY <1>2, <1>3, <1>4, <1>5, <1>6, <1>7, <1>8, <1>9, <1>10, <1>11, <1>12 DEF Page!Next

-----------------------------------------------------------------------------
(* What the page always is.                                                *)

LEMMA PageStarts == Page!Init => PageInv
<1> SUFFICES ASSUME Page!Init PROVE PageInv
    OBVIOUS
<1>1. /\ ePhase = "ui" /\ eDue = 0 /\ eCache = NoValue /\ eSync = Page!NoSync
      /\ eRam = [valid |-> FALSE, failed |-> FALSE] /\ eRadio = {"ble"}
      /\ eScreen = [shows |-> "ui", plan |-> NoValue, critical |-> FALSE]
      /\ eSeen = Page!Unseen /\ eFaults = 0
    BY DEF Page!Init
<1>2. eConf.interval \in Intervals /\ eConf.generation = 1 /\ eEnv.hour = 0 /\ eEnv \in Surroundings
    <2>1. eEnv \in [clock : BOOLEAN, hour : {0}, power : {"ok"}, style : Styles]
        BY DEF Page!Init
    <2>2. 0 \in Hours
        BY PageConstantsAre DEF Hours
    <2> QED BY <2>1, <2>2 DEF Page!Init, Surroundings
<1>3. PageTypes
    BY <1>1, <1>2, FreshRecords, PageConstantsAre DEF PageTypes
<1>4. SourceInv /\ BurstInv /\ RadioInv /\ ShownInv
    BY <1>1, PageConstantsAre DEF SourceInv, BurstInv, RadioInv, ShownInv, Page!OneRadio
<1>5. WakeInv
    BY <1>1, UnseenIs DEF WakeInv, Unawaited, Page!NoWakeLoop
<1>6. TimeInv
    BY <1>1, <1>3, UnseenIs, BoundIs DEF TimeInv, Unawaited
<1> QED BY <1>3, <1>4, <1>5, <1>6 DEF PageInv

LEMMA PageStep == PageInv /\ Page!Next => PageInv'
<1> SUFFICES ASSUME PageInv, Page!Next PROVE PageInv'
    OBVIOUS
<1>1. /\ PageTypes /\ SourceInv /\ BurstInv /\ RadioInv /\ ShownInv /\ WakeInv /\ TimeInv
    BY DEF PageInv
<1>2. PageTypes'
    BY <1>1, PageTypesStep
<1>3. SourceInv' /\ BurstInv' /\ RadioInv' /\ ShownInv'
    BY <1>1, SourceStep, BurstStep, RadioStep, ShownStep
<1>4. WakeInv' /\ TimeInv'
    BY <1>1, <1>2, WakeStep, TimeStep
<1> QED BY <1>2, <1>3, <1>4 DEF PageInv

LEMMA PageStays == PageInv /\ UNCHANGED PageVars => PageInv'
<1> SUFFICES ASSUME PageInv, UNCHANGED PageVars PROVE PageInv'
    OBVIOUS
<1>1. UNCHANGED <<ePhase, eConf, eDue, eCache, eRam, eSync, eRadio, eEnv, eScreen, eSeen, eFaults>>
    BY DEF PageVars
<1>2. PageTypes' /\ SourceInv' /\ BurstInv' /\ RadioInv'
    BY <1>1 DEF PageInv, PageTypes, SourceInv, BurstInv, RadioInv, Page!OneRadio
<1>3. ShownInv'
    BY <1>1 DEF PageInv, ShownInv, Page!Ours
<1>4. Ahead' = Ahead /\ Bound' = Bound
    BY <1>1 DEF Ahead, DueIn, Bound
<1>5. WakeInv' /\ TimeInv'
    BY <1>1, <1>4 DEF PageInv, WakeInv, TimeInv, Later, Off, Page!NoWakeLoop
<1> QED BY <1>2, <1>3, <1>5 DEF PageInv

LEMMA PageInvIsSound == PageInv => Page!PageSound
<1> SUFFICES ASSUME PageInv PROVE Page!PageSound
    OBVIOUS
<1>1. Page!ShownIsTrue
    BY PageConstantsAre DEF PageInv, ShownInv, Page!ShownIsTrue
<1>2. Page!Punctual
    BY DEF PageInv, TimeInv, Page!Punctual, Bound, Night
<1> QED BY <1>1, <1>2 DEF PageInv, WakeInv, RadioInv, Page!PageSound

\* The invariant of the page, while it is the part that moves.
LEMMA AlwaysPage == MCSpec => [](part = "page" => PageInv)
<1>1. MCInit => (part = "page" => PageInv)
    BY PageStarts DEF MCInit
<1>2. (part = "page" => PageInv) /\ [MCNext]_mcVars => (part = "page" => PageInv)'
    <2> SUFFICES ASSUME part = "page" => PageInv, [MCNext]_mcVars, part' = "page"
                 PROVE  PageInv'
        OBVIOUS
    <2>1. CASE MCNext
        <3>1. PageInv /\ Page!Next
            BY <2>1 DEF MCNext
        <3> QED BY <3>1, PageStep
    <2>2. CASE UNCHANGED mcVars
        <3>1. PageInv /\ UNCHANGED PageVars
            BY <2>2 DEF mcVars
        <3> QED BY <3>1, PageStays
    <2> QED BY <2>1, <2>2
<1> QED BY <1>1, <1>2, PTL DEF MCSpec

\* A sleeping device shows a page of the configured source that is valid until the wake that
\* is planned, unless its end could not be known when the wake was planned; it never wakes in
\* a loop, downloads within one interval and one quiet period, and keeps its two radios apart
\* (edge_display.cc, note4_edge_settings.cc), for any day, quiet hours, intervals and validity.
THEOREM PageAlwaysSound == MCSpec => []PageSound
<1>1. (part = "page" => PageInv) => PageSound
    BY PageInvIsSound DEF PageSound
<1> QED BY <1>1, AlwaysPage, PTL

\* A cached page makes room for a later one of its source only, or when it cannot be read
\* (edge_display.cc), for any sources and revisions.
THEOREM PageGoesForward == MCSpec => PageForward
<1>1. (part = "page" => PageInv) /\ [MCNext]_mcVars
         => [part = "page" => Page!GoesForward]_PageVars
    <2> SUFFICES ASSUME part = "page" => PageInv, MCNext, part = "page"
                 PROVE  Page!GoesForward
        BY DEF mcVars, PageVars
    <2>1. PageInv /\ Page!Next
        BY DEF MCNext
    <2> QED BY <2>1, PageStepForward DEF PageInv
<1> QED BY <1>1, AlwaysPage, PTL DEF MCSpec, PageForward
=============================================================================
