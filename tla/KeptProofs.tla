----------------------------- MODULE KeptProofs -----------------------------
(***************************************************************************)
(* What is kept, for any constants.                                        *)
(*                                                                         *)
(* The phone's queue against its file: a call changes the map to one that  *)
(* loads again and covers the map before it; write() leaves map and file   *)
(* each on one of the two, the file never behind.  So the file covers the  *)
(* map at any moment, and a process that dies and loads it has lost        *)
(* nothing it reported.                                                    *)
(*                                                                         *)
(* The panel against the display service's memory of it: shadow, baseline  *)
(* and preview are what the glass shows, or are given up.                  *)
(***************************************************************************)
EXTENDS MCLink, FiniteSetTheorems, TLAPS

\* The received revision is the receive cursor.
Mirrored(e) == \A k \in Keys : e[k].app = e[k].irev

\* A map the queue may hold.
Good(e) == e \in EngineState /\ Slots(e) /\ LoadAccepts(e) /\ Mirrored(e)

IInv ==
    /\ Good(entries) /\ loaded \in BOOLEAN
    /\ file = NoFile \/ file = Damaged \/ Good(file)
    /\ SavedBeforeReported

-----------------------------------------------------------------------------
\* Revisions are numbers.
LEMMA RevisionFacts == Revisions \subseteq Nat /\ 0 \in Revisions
BY SyncConstants DEF Revisions

\* Sets of keys can be counted.
LEMMA KeySets ==
    ASSUME NEW S \in SUBSET Keys
    PROVE  IsFiniteSet(S) /\ Cardinality(S) \in Nat
BY SyncConstants, FS_Subset, FS_CardinalityType

Numbers(x) == x.ack \in Nat /\ x.app \in Nat /\ x.pend \in Nat /\ x.irev \in Nat

\* The numbers of one key, for the arithmetic below.
LEMMA GoodNumbers ==
    ASSUME NEW e, Good(e)
    PROVE  \A k \in Keys : Numbers(e[k]) /\ e[k] \in KeyState
BY RevisionFacts DEF Good, EngineState, KeyState, Numbers

\* An empty map is good.
LEMMA EmptyGood == Good(Empty)
<1>1. Empty \in EngineState
    BY RevisionFacts DEF Empty, NoEntry, EngineState, KeyState
<1>2. Present(Empty) = {}
    BY DEF Present, Empty, NoEntry
<1>3. Cardinality({}) <= Capacity
    BY FS_EmptySet, SyncConstants
<1> QED
    BY <1>1, <1>2, <1>3 DEF Good, Slots, LoadAccepts, Mirrored, Empty, NoEntry

\* A key that is present, or for which the map is not full, finds its place.
LEMMA Fits ==
    ASSUME NEW e, Good(e), NEW k \in Keys, ~Full(e, k),
           NEW S \in SUBSET Keys, S \subseteq Present(e) \cup {k}
    PROVE  Cardinality(S) <= Capacity
<1>1. Present(e) \in SUBSET Keys /\ Present(e) \cup {k} \in SUBSET Keys
    BY DEF Present
<1>2. Cardinality(Present(e)) <= Capacity
    BY DEF Good, LoadAccepts
<1>3. CASE k \in Present(e)
    <2>1. Cardinality(S) <= Cardinality(Present(e))
        BY <1>1, <1>3, KeySets, FS_Subset
    <2> QED
        BY <1>1, <1>2, <2>1, KeySets, SyncConstants
<1>4. CASE k \notin Present(e)
    <2>1. Cardinality(Present(e)) # Capacity
        BY <1>4 DEF Full, Present
    <2>2. Cardinality(Present(e) \cup {k}) = Cardinality(Present(e)) + 1
        BY <1>1, <1>4, KeySets, FS_AddElement
    <2>3. Cardinality(S) <= Cardinality(Present(e) \cup {k})
        BY <1>1, KeySets, FS_Subset
    <2> QED
        BY <1>1, <1>2, <2>1, <2>2, <2>3, KeySets, SyncConstants
<1> QED
    BY <1>3, <1>4

-----------------------------------------------------------------------------
(* What each call asks the file to keep.                                   *)

\* put and enqueue: a revision above what was acknowledged and what waits.
LEMMA PutGood ==
    ASSUME NEW e, Good(e), NEW k \in Keys, NEW r \in Revisions \ {0}, NEW v \in Values,
           PutStatus(e, k, r, v) = "Ok"
    PROVE  Good(Put(e, k, r, v)) /\ Covers(Put(e, k, r, v), e)
<1> DEFINE new == Put(e, k, r, v)
<1>0. r \in Nat /\ \A j \in Keys : Numbers(e[j])
    BY GoodNumbers, RevisionFacts
<1>1. r > e[k].ack /\ r > e[k].pend /\ ~Full(e, k)
    <2>1. ~(r <= e[k].ack) /\ ~(e[k].pend # 0 /\ r <= e[k].pend) /\ ~Full(e, k)
        BY DEF PutStatus
    <2> QED
        BY <1>0, <2>1 DEF Numbers
<1>2. new \in EngineState
    BY DEF Put, Good, EngineState, KeyState
<1>3. /\ new[k].present /\ new[k].pend = r /\ new[k].pval = v
      /\ new[k].ack = e[k].ack /\ new[k].app = e[k].app
      /\ new[k].irev = e[k].irev /\ new[k].ival = e[k].ival
      /\ \A j \in Keys \ {k} : new[j] = e[j]
    BY DEF Put, Good, EngineState, KeyState
<1>4. Cardinality(Present(new)) <= Capacity
    BY <1>1, <1>3, Fits DEF Present
<1>5. Slots(new) /\ LoadAccepts(new) /\ Mirrored(new)
    BY <1>0, <1>1, <1>3, <1>4, SyncConstants DEF Slots, LoadAccepts, Mirrored, Good, Numbers
<1>6. Covers(new, e)
    BY <1>0, <1>1, <1>3 DEF Covers, Numbers
<1> QED
    BY <1>2, <1>5, <1>6 DEF Good

\* acknowledge: a revision above what was acknowledged, up to what waits.
LEMMA AcknowledgeGood ==
    ASSUME NEW e, Good(e), NEW k \in Keys, NEW r \in Revisions \ {0},
           AcknowledgeStatus(e, k, r) = "Ok"
    PROVE  Good(Acknowledge(e, k, r)) /\ Covers(Acknowledge(e, k, r), e)
<1> DEFINE new == Acknowledge(e, k, r)
<1>0. r \in Nat /\ \A j \in Keys : Numbers(e[j])
    BY GoodNumbers, RevisionFacts
<1>1. e[k].present /\ r > e[k].ack /\ e[k].pend # 0 /\ r <= e[k].pend
    <2>1. e[k].present /\ ~(r <= e[k].ack) /\ ~(e[k].pend = 0 \/ r > e[k].pend)
        BY DEF AcknowledgeStatus
    <2> QED
        BY <1>0, <2>1 DEF Numbers
<1>2. new \in EngineState
    <2>1. e \in [Keys -> KeyState] /\ e[k] \in KeyState
        BY DEF Good, EngineState
    <2>2. [e[k] EXCEPT !.ack = r,
                       !.pend = IF e[k].pend = r THEN 0 ELSE e[k].pend,
                       !.pval = IF e[k].pend = r THEN NoValue ELSE e[k].pval] \in KeyState
        BY <2>1, RevisionFacts DEF KeyState
    <2> QED
        BY <2>1, <2>2 DEF Acknowledge, EngineState
<1>3. /\ new[k].present <=> e[k].present
      /\ new[k].ack = r /\ new[k].app = e[k].app
      /\ new[k].pend = (IF e[k].pend = r THEN 0 ELSE e[k].pend)
      /\ new[k].pval = (IF e[k].pend = r THEN NoValue ELSE e[k].pval)
      /\ new[k].irev = e[k].irev /\ new[k].ival = e[k].ival
      /\ \A j \in Keys \ {k} : new[j] = e[j]
    BY DEF Acknowledge, Good, EngineState, KeyState
<1>4. Cardinality(Present(new)) <= Capacity
    <2>1. Present(new) = Present(e)
        BY <1>3 DEF Present
    <2> QED
        BY <2>1 DEF Good, LoadAccepts
<1>5. Slots(new) /\ LoadAccepts(new) /\ Mirrored(new)
    BY <1>0, <1>1, <1>3, <1>4, SyncConstants DEF Slots, LoadAccepts, Mirrored, Good, Numbers
<1>6. Covers(new, e)
    BY <1>0, <1>1, <1>3 DEF Covers, Numbers
<1> QED
    BY <1>2, <1>5, <1>6 DEF Good

\* accept: a revision above what was received.
LEMMA AcceptGood ==
    ASSUME NEW e, Good(e), NEW k \in Keys, NEW r \in Revisions \ {0}, NEW v \in Values,
           AcceptStatus(e, k, r, v) = "Ok"
    PROVE  Good(Accept(e, k, r, v)) /\ Covers(Accept(e, k, r, v), e)
<1> DEFINE new == Accept(e, k, r, v)
<1>0. r \in Nat /\ r # 0 /\ \A j \in Keys : Numbers(e[j])
    BY GoodNumbers, RevisionFacts
<1>1. r > e[k].irev /\ ~Full(e, k)
    <2>1. ~(r < e[k].irev) /\ r # e[k].irev /\ ~Full(e, k)
        BY DEF AcceptStatus
    <2> QED
        BY <1>0, <2>1 DEF Numbers
<1>2. new \in EngineState
    BY DEF Accept, Good, EngineState, KeyState
<1>3. /\ new[k].present /\ new[k].app = r /\ new[k].irev = r /\ new[k].ival = v
      /\ new[k].ack = e[k].ack /\ new[k].pend = e[k].pend /\ new[k].pval = e[k].pval
      /\ \A j \in Keys \ {k} : new[j] = e[j]
    BY DEF Accept, Good, EngineState, KeyState
<1>4. Cardinality(Present(new)) <= Capacity
    BY <1>1, <1>3, Fits DEF Present
<1>5. Slots(new) /\ LoadAccepts(new) /\ Mirrored(new)
    BY <1>0, <1>1, <1>3, <1>4, SyncConstants DEF Slots, LoadAccepts, Mirrored, Good, Numbers
<1>6. Covers(new, e)
    BY <1>0, <1>1, <1>3 DEF Covers, Numbers
<1> QED
    BY <1>2, <1>5, <1>6 DEF Good

\* reconcile: a compatible peer never lists a receive cursor below the ACK.
LEMMA ReconcileGood ==
    ASSUME NEW e, Good(e), NEW peer \in [Keys -> Cursor], ReconcileStatus(e, peer) = "Ok"
    PROVE  Good(Reconciled(e, peer)) /\ Covers(Reconciled(e, peer), e)
<1> DEFINE new == Reconciled(e, peer)
<1>0. \A j \in Keys : Numbers(e[j]) /\ peer[j].app \in Nat /\ peer[j].app \in Revisions
    BY GoodNumbers, RevisionFacts DEF Cursor
<1>1. KeysAfter(e, peer) \in SUBSET Keys /\ ~(Cardinality(KeysAfter(e, peer)) > Capacity)
      /\ AllCompatible(e, peer)
    BY DEF ReconcileStatus, KeysAfter, Present
<1>2. ASSUME NEW j \in Keys PROVE peer[j].app >= e[j].ack
    <2>1. peer[j].app >= CursorsOf(e)[j].ack
        BY <1>1 DEF AllCompatible, Compatible, InWindow
    <2>2. CursorsOf(e)[j].ack = e[j].ack
        BY DEF CursorsOf, NoCursor, Good, Slots
    <2> QED
        BY <2>1, <2>2
<1>3. new \in EngineState
    BY <1>0, RevisionFacts DEF Reconciled, Good, EngineState, KeyState
<1>4. \A j \in Keys :
        IF ~peer[j].present THEN new[j] = e[j]
        ELSE /\ new[j].present /\ new[j].ack = peer[j].app /\ new[j].app = e[j].app
             /\ new[j].pend = (IF e[j].pend <= peer[j].app THEN 0 ELSE e[j].pend)
             /\ new[j].pval = (IF e[j].pend <= peer[j].app THEN NoValue ELSE e[j].pval)
             /\ new[j].irev = e[j].irev /\ new[j].ival = e[j].ival
    BY DEF Reconciled, Good, EngineState, KeyState
<1>5. Cardinality(Present(new)) <= Capacity
    <2>1. Present(new) \subseteq KeysAfter(e, peer) /\ Present(new) \in SUBSET Keys
        BY <1>4 DEF Present, KeysAfter
    <2>2. Cardinality(Present(new)) <= Cardinality(KeysAfter(e, peer))
        BY <1>1, <2>1, KeySets, FS_Subset
    <2> QED
        BY <1>1, <2>1, <2>2, KeySets, SyncConstants
<1>6. Slots(new) /\ LoadAccepts(new) /\ Mirrored(new)
    BY <1>0, <1>2, <1>4, <1>5, SyncConstants DEF Slots, LoadAccepts, Mirrored, Good, Numbers
<1>7. Covers(new, e)
    BY <1>0, <1>2, <1>4 DEF Covers, Numbers
<1> QED
    BY <1>3, <1>6, <1>7 DEF Good

-----------------------------------------------------------------------------
(* Steps.                                                                  *)

\* However far write() got, map and file are old or new, the map never ahead.
LEMMA ChangeKeeps ==
    ASSUME StoreConstants, IInv, loaded, NEW new, Good(new), Covers(new, entries), Change(new)
    PROVE  IInv' /\ Covers(entries', entries)
<1>1. Covers(entries, entries) /\ Covers(new, new)
    BY GoodNumbers DEF IInv, Covers, Numbers
<1>2. /\ Good(entries') /\ Covers(entries', entries) /\ loaded' = loaded
      /\ file' = new \/ (entries' = entries /\ file' = file)
      /\ file' = new => Covers(file', entries')
    BY <1>1 DEF Change, IInv
<1>3. new # NoFile /\ new # Damaged
    BY DEF Good, StoreConstants
<1>4. SavedBeforeReported'
    BY <1>2, <1>3 DEF IInv, SavedBeforeReported
<1> QED
    BY <1>2, <1>4 DEF IInv

\* A process that dies comes back with what its file says, or without a queue.
LEMMA LoadKeeps ==
    ASSUME StoreConstants, IInv, load
    PROVE  IInv' /\ (loaded /\ loaded' => Covers(entries', entries))
<1>1. Covers(Empty, Empty) /\ (Good(file) => Covers(file, file))
    BY EmptyGood, GoodNumbers DEF Covers, Numbers
<1>2. CASE file = NoFile /\ entries' = Empty /\ loaded' = TRUE
    BY <1>1, <1>2, EmptyGood DEF load, IInv, SavedBeforeReported
<1>3. CASE file # NoFile /\ Readable(file) /\ entries' = file /\ loaded' = TRUE
    BY <1>1, <1>3 DEF load, IInv, SavedBeforeReported, Readable
<1>4. CASE file # NoFile /\ entries' = Empty /\ loaded' = FALSE
    BY <1>4, EmptyGood DEF load, IInv, SavedBeforeReported
<1> QED
    BY <1>2, <1>3, <1>4 DEF load

\* Each call's answer gives the covering map that its change needs.
LEMMA StepKeeps ==
    ASSUME StoreConstants, IInv, Next
    PROVE  IInv' /\ (loaded /\ loaded' => Covers(entries', entries))
<1>0. Good(entries)
    BY DEF IInv
<1>1. CASE \E k \in Keys, r \in Revisions \ {0}, v \in Values : put(k, r, v)
    BY <1>0, <1>1, PutGood, ChangeKeeps DEF put
<1>2. CASE \E k \in Keys, r \in Revisions \ {0}, v \in Values : accept(k, r, v)
    BY <1>0, <1>2, AcceptGood, ChangeKeeps DEF accept
<1>3. CASE \E k \in Keys, v \in Values : enqueue(k, v)
    <2>1. PICK k \in Keys, v \in Values : enqueue(k, v)
        BY <1>3
    <2> DEFINE r == NextRevision(entries, k)
    <2>2. r \in Nat /\ r # 0
        BY <1>0, GoodNumbers DEF NextRevision, Higher, Numbers
    <2>3. ~(r > MaxRevision) /\ PutStatus(entries, k, r, v) = "Ok"
        BY <2>1 DEF enqueue, EnqueueStatus
    <2>4. r \in Revisions \ {0}
        BY <2>2, <2>3, SyncConstants DEF Revisions
    <2>5. loaded /\ Change(Put(entries, k, r, v))
        BY <2>1 DEF enqueue
    <2> HIDE DEF r
    <2> QED
        BY <1>0, <2>3, <2>4, <2>5, PutGood, ChangeKeeps
<1>4. CASE \E k \in Keys, r \in Revisions \ {0} : acknowledge(k, r)
    BY <1>0, <1>4, AcknowledgeGood, ChangeKeeps DEF acknowledge
<1>5. CASE \E peer \in [Keys -> PeerCursor] : reconcile(peer)
    <2>1. PICK peer \in [Keys -> PeerCursor] : reconcile(peer)
        BY <1>5
    <2>2. peer \in [Keys -> Cursor]
        BY DEF PeerCursor
    <2> QED
        BY <1>0, <2>1, <2>2, ReconcileGood, ChangeKeeps DEF reconcile
<1>6. CASE load
    BY <1>6, LoadKeeps
<1>7. CASE Damage
    <2>1. Covers(entries, entries)
        BY <1>0, GoodNumbers DEF Covers, Numbers
    <2> QED
        BY <1>7, <2>1 DEF Damage, IInv, SavedBeforeReported, StoreConstants
<1> QED
    BY <1>1, <1>2, <1>3, <1>4, <1>5, <1>6, <1>7 DEF Next

\* The phone starts without a file, or with one of version 1.
LEMMA InitHolds == Init => IInv
<1> SUFFICES ASSUME Init PROVE IInv
    OBVIOUS
<1>1. ASSUME NEW x \in Version1Key
      PROVE  /\ x \in KeyState /\ x.ack = 0 /\ x.app = 0 /\ x.irev = 0
             /\ x.pend = 0 <=> x.pval = NoValue
             /\ x.ival = NoValue
    <2>1. NoValue \notin Values /\ 0 \in Revisions
        BY RevisionFacts, SyncConstants
    <2>2. CASE x = NoEntry
        BY <2>1, <2>2 DEF NoEntry, KeyState
    <2>3. CASE x # NoEntry
        <3>1. x \in [present : {TRUE}, ack : {0}, app : {0}, pend : Revisions \ {0},
                     pval : Values, irev : {0}, ival : {NoValue}]
            BY <2>3 DEF Version1Key
        <3>2. x \in KeyState
            BY <2>1, <3>1 DEF KeyState
        <3>3. x.pend # 0 /\ x.pval # NoValue
            BY <2>1, <3>1
        <3>4. x.ack = 0 /\ x.app = 0 /\ x.irev = 0 /\ x.ival = NoValue
            BY <3>1
        <3> QED
            BY <3>2, <3>3, <3>4
    <2> QED
        BY <2>2, <2>3
<1>2. ASSUME NEW f \in Version1 PROVE Good(f)
    <2>1. f \in [Keys -> Version1Key] /\ LoadAccepts(f)
        BY DEF Version1
    <2>2. \A k \in Keys : f[k] \in Version1Key
        BY <2>1
    <2>3. f \in EngineState
        BY <1>1, <2>1, <2>2 DEF EngineState
    <2> QED
        BY <1>1, <2>1, <2>2, <2>3 DEF Good, Slots, Mirrored
<1> QED
    BY <1>2, EmptyGood DEF Init, IInv, SavedBeforeReported

LEMMA Invariance ==
    ASSUME StoreConstants
    PROVE  Spec => []IInv
<1>1. IInv /\ [Next]_vars => IInv'
    <2>1. ASSUME IInv, Next PROVE IInv'
        BY <2>1, StepKeeps
    <2>2. ASSUME IInv, UNCHANGED vars PROVE IInv'
        BY <2>2 DEF vars, IInv, SavedBeforeReported
    <2> QED
        BY <2>1, <2>2
<1> QED
    BY <1>1, InitHolds, PTL DEF Spec

-----------------------------------------------------------------------------
(* Theorems.                                                               *)

\* load() accepts every file that save() can have written, and what a call
\* reported as saved is in the file (DurableQueue.kt save, load).
THEOREM QueueAlwaysSound ==
    ASSUME StoreConstants
    PROVE  Spec => []QueueSound
<1>1. IInv => QueueSound
    BY DEF IInv, Good, QueueSound, FileLoads
<1> QED
    BY <1>1, Invariance, PTL

\* No cursor goes back and no queued update is lost, in a call or when the
\* process dies and loads its file (DurableQueue.kt mutate, load).
THEOREM QueueNeverTakesBack ==
    ASSUME StoreConstants
    PROVE  Spec => QueueTakesNothingBack
<1> DEFINE
      Cursors == loaded /\ loaded' =>
        \A k \in Keys : /\ entries'[k].ack >= entries[k].ack
                        /\ entries'[k].irev >= entries[k].irev
      Updates == loaded /\ loaded' =>
        \A k \in Keys : entries[k].pend # 0 =>
            \/ entries'[k].pend >= entries[k].pend
            \/ entries'[k].ack >= entries[k].pend
<1>1. IInv /\ IInv' /\ [Next]_vars => [Cursors]_vars /\ [Updates]_vars
    <2> SUFFICES ASSUME IInv, IInv', Next PROVE Cursors /\ Updates
        OBVIOUS
    <2>1. loaded /\ loaded' => Covers(entries', entries)
        BY StepKeeps
    <2>2. \A k \in Keys : Numbers(entries[k]) /\ Numbers(entries'[k])
        BY GoodNumbers DEF IInv
    <2> QED
        BY <2>1, <2>2 DEF Covers, Numbers
<1> QED
    BY <1>1, Invariance, PTL
    DEF Spec, QueueTakesNothingBack, CursorsNeverRegress, NoUpdateLost

-----------------------------------------------------------------------------
(* The panel.                                                              *)

Pictures == Images \cup {"gray", "torn"}
Glass == [{1, 2} -> Pictures]
Displays == [shadow : Panel!Canvas, shadowValid : BOOLEAN, baseline : BOOLEAN,
             orientation : Panel!Orientations, changed : BOOLEAN,
             portraitPresented : BOOLEAN,
             layout : {"upright", "turned", "clockwise", "counter", "none"},
             preview : Images \cup {"gray", NoValue}]
Uis == [canvas : Panel!Canvas, status : Images, dirty : SUBSET {1, 2}, quality : BOOLEAN,
        portrait : BOOLEAN, gray : BOOLEAN, sleep : BOOLEAN]

\* PanelKnown of a glass and a display.
Knows(glass, d) ==
    /\ d.shadowValid => glass = d.shadow
    /\ d.baseline => d.shadowValid
    /\ d.preview # NoValue => d.preview = glass[1]

\* A baseline was made in the layout of the direction it is kept for.
InLayout(d) ==
    d.baseline /\ ~d.changed => d.layout = Panel!LayoutOf(d.orientation, d.portraitPresented)

\* A status strip that is not due shows what it was last told.
StripDrawn(u) == ~u.sleep /\ 1 \notin u.dirty => u.canvas[1] = u.status

PanelInv ==
    /\ dPanel \in Glass /\ dDisplay \in Displays /\ dUi \in Uis /\ dStep \in Panel!Presentation
    /\ Knows(dPanel, dDisplay) /\ InLayout(dDisplay) /\ StripDrawn(dUi)
    /\ Panel!NothingStale

-----------------------------------------------------------------------------
(* What a driver call leaves.                                              *)

\* A call of the driver that was to show "p" leaves the direction and the layout
\* alone; it shows "p" or the next refresh is a full one.
Shown(o, d, p) ==
    /\ o \in [panel : Glass, display : Displays, step : Panel!Presentation]
    /\ Knows(o.panel, o.display)
    /\ o.display.orientation = d.orientation /\ o.display.changed = d.changed
    /\ o.display.portraitPresented = d.portraitPresented /\ o.display.layout = d.layout
    /\ IF o.step.ok THEN o.panel = p ELSE ~o.display.baseline

\* Either failure of a call forgets the preview and the baseline.
LEMMA ErrorForgets ==
    ASSUME NEW d \in Displays
    PROVE  /\ Panel!OnError(d) \in Displays
           /\ Panel!OnError(d).shadowValid = d.shadowValid /\ Panel!OnError(d).shadow = d.shadow
           /\ ~Panel!OnError(d).baseline /\ Panel!OnError(d).preview = NoValue
           /\ Panel!OnError(d).orientation = d.orientation
           /\ Panel!OnError(d).changed = d.changed
           /\ Panel!OnError(d).portraitPresented = d.portraitPresented
           /\ Panel!OnError(d).layout = d.layout
BY DEF Displays, Panel!OnError

\* A call that was never made, and one that failed and has its shadow refused.
LEMMA FailureShown ==
    ASSUME NEW g \in Glass, NEW h \in Glass, NEW d \in Displays, NEW p, Knows(g, d),
           NEW kind \in {"none", "equal", "partial", "full", "gray"}
    PROVE  /\ Shown(Panel!NoPower(g, d, kind), d, p)
           /\ Shown(Panel!Outcome(h, [Panel!OnError(d) EXCEPT !.shadowValid = FALSE], kind, FALSE),
                    d, p)
<1>1. Shown(Panel!NoPower(g, d, kind), d, p)
    BY ErrorForgets DEF Shown, Panel!NoPower, Panel!Outcome, Panel!Presentation, Knows
<1> DEFINE lost == [Panel!OnError(d) EXCEPT !.shadowValid = FALSE]
<1>2. lost \in Displays /\ ~lost.shadowValid /\ ~lost.baseline /\ lost.preview = NoValue
      /\ lost.orientation = d.orientation /\ lost.changed = d.changed
      /\ lost.portraitPresented = d.portraitPresented /\ lost.layout = d.layout
    BY ErrorForgets DEF Displays
<1>3. Shown(Panel!Outcome(h, lost, kind, FALSE), d, p)
    <2> HIDE DEF lost
    <2> QED BY <1>2 DEF Shown, Panel!Outcome, Panel!Presentation, Knows
<1> QED BY <1>1, <1>3

\* A frame is on a panel, and so is what an interrupted refresh leaves.
LEMMA FramesFit ==
    ASSUME NEW g \in Glass
    PROVE  /\ Panel!Canvas \subseteq Glass
           /\ Panel!AllOf("gray") \in Glass /\ Panel!AllOf("torn") \in Glass
           /\ \A h \in Glass : Panel!Interrupted(g, h) \subseteq Glass
           /\ \A h \in Glass : Panel!WrittenInterrupted(g, h) \subseteq Glass
           /\ Panel!GrayInterrupted(g) \subseteq Glass
<1>1. /\ Panel!Canvas \subseteq Glass
      /\ Panel!AllOf("gray") \in Glass /\ Panel!AllOf("torn") \in Glass
    BY DEF Panel!Canvas, Panel!Parts, Glass, Pictures, Panel!AllOf
<1>2. \A f \in Glass, h \in Glass : Panel!Interrupted(f, h) \subseteq Glass
    BY DEF Panel!Interrupted, Panel!Parts, Glass, Pictures
<1>3. \A h \in Glass : Panel!WrittenInterrupted(g, h) \subseteq Glass
    BY <1>1, <1>2 DEF Panel!WrittenInterrupted
<1> QED BY <1>1, <1>2, <1>3 DEF Panel!GrayInterrupted

\* A full refresh shows its frame whatever the panel held.
LEMMA FullShows ==
    ASSUME NEW g \in Glass, NEW d \in Displays, Knows(g, d), NEW p \in Panel!Canvas,
           NEW o \in Panel!Full(g, d, p)
    PROVE  Shown(o, d, p) /\ o.step.kind = "full"
<1> DEFINE known == [d EXCEPT !.shadow = p, !.shadowValid = TRUE]
<1> DEFINE done == [known EXCEPT !.baseline = TRUE, !.preview = p[1]]
<1> DEFINE lost == [Panel!OnError(d) EXCEPT !.shadowValid = FALSE]
<1>1. known \in Displays /\ known.shadow = p /\ known.shadowValid
      /\ known.orientation = d.orientation /\ known.changed = d.changed
      /\ known.portraitPresented = d.portraitPresented /\ known.layout = d.layout
    BY DEF Displays
<1>2. done \in Displays /\ done.shadow = p /\ done.preview = p[1]
      /\ done.orientation = d.orientation /\ done.changed = d.changed
      /\ done.portraitPresented = d.portraitPresented /\ done.layout = d.layout
    BY DEF Displays, Panel!Canvas, Panel!Parts
<1>3. p \in Glass
    BY FramesFit
<1>4. done.shadowValid
    BY DEF Displays
<1>5. CASE o = Panel!NoPower(g, d, "full")
    BY <1>5, FailureShown DEF Panel!NoPower, Panel!Outcome
<1>6. CASE o = Panel!Outcome(p, done, "full", TRUE)
    <2> HIDE DEF done
    <2> QED BY <1>2, <1>3, <1>4, <1>6 DEF Shown, Panel!Outcome, Panel!Presentation, Knows
<1>7. CASE o = Panel!Outcome(p, Panel!OnError(known), "full", FALSE)
    <2> HIDE DEF known
    <2> QED BY <1>1, <1>3, <1>7, ErrorForgets
            DEF Shown, Panel!Outcome, Panel!Presentation, Knows
<1>8. CASE \E h \in Panel!WrittenInterrupted(g, p) : o = Panel!Outcome(h, lost, "full", FALSE)
    <2>1. PICK h \in Panel!WrittenInterrupted(g, p) : o = Panel!Outcome(h, lost, "full", FALSE)
        BY <1>8
    <2>2. h \in Glass
        BY <1>3, FramesFit
    <2>3. Shown(Panel!Outcome(h, lost, "full", FALSE), d, p)
        BY <2>2, FailureShown
    <2> HIDE DEF lost
    <2> QED BY <2>1, <2>3 DEF Panel!Outcome
<1> QED
    <2> HIDE DEF known, done, lost
    <2> QED BY <1>5, <1>6, <1>7, <1>8 DEF Panel!Full, Panel!status, known, done, lost

\* A partial refresh shows its frame when the panel still shows the shadow.
LEMMA PartialShows ==
    ASSUME NEW g \in Glass, NEW d \in Displays, Knows(g, d), d.shadowValid,
           NEW p \in Panel!Canvas, NEW o \in Panel!Partial(g, d, p)
    PROVE  Shown(o, d, p) /\ o.step.kind = "partial"
<1> DEFINE driven == [t \in Panel!Parts |-> Panel!Driven(g[t], d.shadow[t], p[t])]
<1> DEFINE known == [d EXCEPT !.shadow = p]
<1> DEFINE done == [known EXCEPT !.preview = p[1]]
<1> DEFINE lost == [Panel!OnError(d) EXCEPT !.shadowValid = FALSE]
<1>1. driven = p
    <2>1. g = d.shadow
        BY DEF Knows
    <2>2. \A t \in Panel!Parts : Panel!Driven(g[t], d.shadow[t], p[t]) = p[t]
        BY <2>1 DEF Panel!Driven
    <2> QED BY <2>2 DEF Panel!Canvas
<1>2. known \in Displays /\ known.shadow = p
      /\ known.orientation = d.orientation /\ known.changed = d.changed
      /\ known.portraitPresented = d.portraitPresented /\ known.layout = d.layout
    BY DEF Displays
<1>3. done \in Displays /\ done.shadow = p /\ done.preview = p[1] /\ done.shadowValid
      /\ done.orientation = d.orientation /\ done.changed = d.changed
      /\ done.portraitPresented = d.portraitPresented /\ done.layout = d.layout
    BY DEF Displays, Panel!Canvas, Panel!Parts
<1>4. p \in Glass
    BY FramesFit
<1>5. CASE o = Panel!NoPower(g, d, "partial")
    BY <1>5, FailureShown DEF Panel!NoPower, Panel!Outcome
<1>6. CASE o = Panel!Outcome(driven, done, "partial", TRUE)
    <2> HIDE DEF done, driven
    <2> QED BY <1>1, <1>3, <1>4, <1>6 DEF Shown, Panel!Outcome, Panel!Presentation, Knows
<1>7. CASE o = Panel!Outcome(driven, Panel!OnError(known), "partial", FALSE)
    <2> HIDE DEF known, driven
    <2> QED BY <1>1, <1>2, <1>4, <1>7, ErrorForgets
            DEF Shown, Panel!Outcome, Panel!Presentation, Knows
<1>8. CASE \E h \in Panel!Interrupted(g, driven) : o = Panel!Outcome(h, lost, "partial", FALSE)
    <2>1. PICK h \in Panel!Interrupted(g, p) : o = Panel!Outcome(h, lost, "partial", FALSE)
        <3> HIDE DEF driven, lost
        <3> QED BY <1>1, <1>8
    <2>2. h \in Glass
        BY <1>4, FramesFit
    <2>3. Shown(Panel!Outcome(h, lost, "partial", FALSE), d, p)
        BY <2>2, FailureShown
    <2> HIDE DEF lost
    <2> QED BY <2>1, <2>3 DEF Panel!Outcome
<1> QED
    <2> HIDE DEF known, done, lost, driven
    <2> QED BY <1>5, <1>6, <1>7, <1>8 DEF Panel!Partial, Panel!status, known, done, lost, driven

\* A gray picture leaves no shadow.
LEMMA GrayShows ==
    ASSUME NEW g \in Glass, NEW d \in Displays, Knows(g, d), NEW o \in Panel!GrayRefresh(g, d)
    PROVE  Shown(o, d, Panel!AllOf("gray")) /\ o.step.kind = "gray" /\ ~o.display.baseline
<1> DEFINE lost == [Panel!OnError(d) EXCEPT !.shadowValid = FALSE]
<1> DEFINE done == [lost EXCEPT !.preview = "gray"]
<1>1. done \in Displays /\ ~done.shadowValid /\ ~done.baseline /\ done.preview = "gray"
      /\ done.orientation = d.orientation /\ done.changed = d.changed
      /\ done.portraitPresented = d.portraitPresented /\ done.layout = d.layout
    BY ErrorForgets DEF Displays
<1>2. Panel!AllOf("gray") \in Glass /\ Panel!AllOf("gray")[1] = "gray"
    BY FramesFit DEF Panel!AllOf, Panel!Parts
<1>3. CASE o = Panel!NoPower(g, d, "gray")
    BY <1>3, FailureShown, ErrorForgets DEF Panel!NoPower, Panel!Outcome
<1>4. CASE o = Panel!Outcome(Panel!AllOf("gray"), done, "gray", TRUE)
    <2> HIDE DEF done
    <2> QED BY <1>1, <1>2, <1>4 DEF Shown, Panel!Outcome, Panel!Presentation, Knows
<1>5. CASE \E h \in Panel!GrayInterrupted(g) : o = Panel!Outcome(h, lost, "gray", FALSE)
    <2>1. PICK h \in Panel!GrayInterrupted(g) : o = Panel!Outcome(h, lost, "gray", FALSE)
        BY <1>5
    <2>2. h \in Glass
        BY FramesFit
    <2>3. Shown(Panel!Outcome(h, lost, "gray", FALSE), d, Panel!AllOf("gray"))
        BY <2>2, FailureShown
    <2> HIDE DEF lost
    <2> QED BY <2>1, <2>3 DEF Panel!Outcome, Shown
<1> QED
    <2> HIDE DEF done, lost
    <2> QED BY <1>3, <1>4, <1>5 DEF Panel!GrayRefresh, done, lost

\* A frame in black and white: nothing to do, a partial refresh where the service
\* allows one, or a full one.
LEMMA PhysicalShows ==
    ASSUME NEW g \in Glass, NEW d \in Displays, Knows(g, d), NEW p \in Panel!Canvas,
           NEW automatic \in BOOLEAN, NEW o \in Panel!Physical1Bpp(g, d, p, automatic)
    PROVE  /\ Shown(o, d, p)
           /\ o.step.kind \in {"equal", "partial"} => automatic /\ d.baseline
<1>1. CASE automatic /\ Panel!IsShown(d, p)
    <2>1. o = Panel!Outcome(g, d, "equal", TRUE)
        BY <1>1 DEF Panel!Physical1Bpp
    <2> QED BY <1>1, <2>1 DEF Panel!IsShown, Shown, Panel!Outcome, Panel!Presentation, Knows
<1>2. CASE o \in Panel!Full(g, d, p)
    BY <1>2, FullShows
<1>3. CASE automatic /\ d.shadowValid /\ d.baseline /\ o \in Panel!Partial(g, d, p)
    BY <1>3, PartialShows
<1> QED BY <1>1, <1>2, <1>3 DEF Panel!Physical1Bpp

-----------------------------------------------------------------------------
(* What a presentation leaves.                                             *)

\* A frame that was turned is a frame.
LEMMA PlacedFits ==
    ASSUME NEW f \in Panel!Canvas, NEW layout
    PROVE  Panel!Placed(f, layout) \in Panel!Canvas
BY DEF Panel!Placed, Panel!Canvas, Panel!Parts

\* A presentation that is remembered: it shows "p" in "layout", or the next one is
\* a full refresh.
Presented(o, d, p, layout) ==
    /\ o \in [panel : Glass, display : Displays, step : Panel!Presentation]
    /\ Knows(o.panel, o.display) /\ InLayout(o.display)
    /\ o.display.orientation = d.orientation
    /\ o.step.ok => o.panel = p /\ o.display.layout = layout

\* Remembering a presentation in the layout of its direction, or one that left no
\* baseline, keeps the layout of the baseline known.
LEMMA RememberedShows ==
    ASSUME NEW d \in Displays, NEW p, NEW o, Shown(o, d, p), InLayout(d), NEW portrait \in BOOLEAN,
           NEW layout \in {"upright", "turned", "clockwise", "counter"},
           layout = Panel!LayoutOf(d.orientation, portrait)
    PROVE  /\ Presented(Panel!Remembered(o, portrait, layout), d, p, layout)
           /\ Panel!Remembered(o, portrait, layout).step = o.step
<1>1. CASE o.step.ok
    <2> DEFINE r == Panel!Remembered(o, portrait, layout)
    <2>1. r = [o EXCEPT !.display.changed = FALSE, !.display.portraitPresented = portrait,
                        !.display.layout = layout]
        BY <1>1 DEF Panel!Remembered
    <2>2. /\ r \in [panel : Glass, display : Displays, step : Panel!Presentation]
          /\ r.panel = o.panel /\ r.step = o.step
          /\ r.display = [o.display EXCEPT !.changed = FALSE, !.portraitPresented = portrait,
                                           !.layout = layout]
        <3>1. o.display \in Displays /\ o.panel \in Glass /\ o.step \in Panel!Presentation
              /\ o = [panel |-> o.panel, display |-> o.display, step |-> o.step]
            BY DEF Shown
        <3>2. r = [panel |-> o.panel, step |-> o.step,
                   display |-> [o.display EXCEPT !.changed = FALSE,
                                    !.portraitPresented = portrait, !.layout = layout]]
            BY <2>1, <3>1
        <3>3. [o.display EXCEPT !.changed = FALSE, !.portraitPresented = portrait,
                                !.layout = layout] \in Displays
            BY <3>1 DEF Displays
        <3> HIDE DEF r
        <3> QED BY <3>1, <3>2, <3>3
    <2>3. /\ r.display.shadow = o.display.shadow /\ r.display.shadowValid = o.display.shadowValid
          /\ r.display.baseline = o.display.baseline /\ r.display.preview = o.display.preview
          /\ r.display.orientation = d.orientation /\ r.display.layout = layout
          /\ r.display.portraitPresented = portrait
        BY <2>2 DEF Shown, Displays
    <2> HIDE DEF r
    <2>4. Presented(r, d, p, layout)
        BY <1>1, <2>2, <2>3 DEF Shown, Presented, Knows, InLayout
    <2> QED BY <2>2, <2>4 DEF r
<1>2. CASE ~o.step.ok
    BY <1>2 DEF Panel!Remembered, Shown, Presented, InLayout
<1> QED BY <1>1, <1>2

\* The rotation buffer cannot be had: nothing changed.
LEMMA NoMemoryShows ==
    ASSUME NEW g \in Glass, NEW d \in Displays, Knows(g, d), InLayout(d), NEW p, NEW layout
    PROVE  /\ Presented(Panel!NoMemory(g, d), d, p, layout)
           /\ ~Panel!NoMemory(g, d).step.ok
BY DEF Panel!NoMemory, Panel!Outcome, Presented, Panel!Presentation

\* The layouts of a frame.
LEMMA Layouts ==
    ASSUME NEW d \in Displays, NEW portrait \in BOOLEAN
    PROVE  Panel!LayoutOf(d.orientation, portrait)
               \in {"upright", "turned", "clockwise", "counter"}
BY DEF Panel!LayoutOf

\* A frame of the application is shown in the layout of its direction, and a
\* partial refresh finds the layout it has already.
LEMMA PresentShows ==
    ASSUME NEW g \in Glass, NEW d \in Displays, Knows(g, d), InLayout(d),
           NEW f \in Panel!Canvas, NEW portrait \in BOOLEAN, NEW automatic \in BOOLEAN,
           NEW o \in Panel!Present(g, d, f, portrait, automatic)
    PROVE  LET layout == Panel!LayoutOf(d.orientation, portrait)
           IN  /\ Presented(o, d, Panel!Placed(f, layout), layout)
               /\ o.step.ok /\ o.step.kind = "partial" => d.layout = layout
<1> DEFINE layout == Panel!LayoutOf(d.orientation, portrait)
<1> DEFINE auto == automatic /\ ~Panel!MustClean(d, portrait)
<1> DEFINE p == Panel!Placed(f, layout)
<1>1. layout \in {"upright", "turned", "clockwise", "counter"} /\ p \in Panel!Canvas
      /\ auto \in BOOLEAN
    BY Layouts, PlacedFits
<1>2. ASSUME NEW q \in Panel!Physical1Bpp(g, d, p, auto),
             o = Panel!Remembered(q, portrait, layout)
      PROVE  /\ Presented(o, d, p, layout)
             /\ o.step.ok /\ o.step.kind = "partial" => d.layout = layout
    <2> HIDE DEF auto, p
    <2>1. Shown(q, d, p) /\ (q.step.kind \in {"equal", "partial"} => auto /\ d.baseline)
        BY <1>1, PhysicalShows
    <2>2. Presented(o, d, p, layout) /\ o.step = q.step
        BY <1>1, <1>2, <2>1, RememberedShows
    <2>3. auto /\ d.baseline => d.layout = layout
        BY DEF auto, Panel!MustClean, InLayout, Displays
    <2> QED BY <2>1, <2>2, <2>3
<1>3. CASE o = Panel!NoMemory(g, d)
    BY <1>3, NoMemoryShows
<1> QED
    <2> HIDE DEF layout, auto, p
    <2> QED BY <1>2, <1>3 DEF Panel!Present, layout, auto, p

\* The lock screen is always clockwise, and no layout is kept after it.
LEMMA PresentLockShows ==
    ASSUME NEW g \in Glass, NEW d \in Displays, Knows(g, d), InLayout(d),
           NEW f \in Panel!Canvas, NEW o \in Panel!PresentLock(g, d, f)
    PROVE  /\ Presented(o, d, Panel!Placed(f, "clockwise"), "clockwise")
           /\ o.step.kind # "partial"
<1> DEFINE p == Panel!Placed(f, "clockwise")
<1>1. p \in Panel!Canvas
    BY PlacedFits
<1>2. ASSUME NEW q \in Panel!Physical1Bpp(g, d, p, FALSE),
             NEW r, r = Panel!Remembered(q, TRUE, "clockwise"),
             o = IF r.step.ok THEN [r EXCEPT !.display.changed = TRUE] ELSE r
      PROVE  Presented(o, d, p, "clockwise") /\ o.step.kind # "partial"
    <2> HIDE DEF p
    <2>1. Shown(q, d, p) /\ q.step.kind # "partial"
        BY <1>1, PhysicalShows
    <2>2. CASE q.step.ok
        <3>1. r = [q EXCEPT !.display.changed = FALSE, !.display.portraitPresented = TRUE,
                            !.display.layout = "clockwise"]
            BY <1>2, <2>2 DEF Panel!Remembered
        <3>2. /\ r \in [panel : Glass, display : Displays, step : Panel!Presentation]
              /\ r.panel = q.panel /\ r.step = q.step
              /\ r.display = [q.display EXCEPT !.changed = FALSE, !.portraitPresented = TRUE,
                                               !.layout = "clockwise"]
            BY <2>1, <3>1 DEF Shown, Displays
        <3>3. o = [r EXCEPT !.display.changed = TRUE]
            BY <1>2, <2>2, <3>2
        <3>4. /\ o \in [panel : Glass, display : Displays, step : Panel!Presentation]
              /\ o.panel = q.panel /\ o.step = q.step
              /\ o.display = [r.display EXCEPT !.changed = TRUE]
            BY <3>2, <3>3 DEF Displays
        <3>5. /\ o.display.shadow = q.display.shadow
              /\ o.display.shadowValid = q.display.shadowValid
              /\ o.display.baseline = q.display.baseline
              /\ o.display.preview = q.display.preview
              /\ o.display.orientation = d.orientation /\ o.display.layout = "clockwise"
              /\ o.display.changed
            BY <2>1, <3>2, <3>4 DEF Shown, Displays
        <3> QED BY <2>1, <2>2, <3>4, <3>5 DEF Shown, Presented, Knows, InLayout
    <2>3. CASE ~q.step.ok
        <3>1. o = q
            BY <1>2, <2>3 DEF Panel!Remembered
        <3> QED BY <2>1, <2>3, <3>1 DEF Shown, Presented, InLayout
    <2> QED BY <2>2, <2>3
<1>3. CASE o = Panel!NoMemory(g, d)
    BY <1>3, NoMemoryShows DEF Panel!NoMemory, Panel!Outcome
<1> QED
    <2> HIDE DEF p
    <2> QED BY <1>2, <1>3 DEF Panel!PresentLock, p

\* A gray picture is shown whatever the layout.
LEMMA Present4BppShows ==
    ASSUME NEW g \in Glass, NEW d \in Displays, Knows(g, d), InLayout(d),
           NEW o \in Panel!Present4Bpp(g, d)
    PROVE  /\ Presented(o, d, Panel!AllOf("gray"), Panel!LayoutOf(d.orientation, FALSE))
           /\ o.step.kind \notin {"equal", "partial", "full"}
<1> DEFINE layout == Panel!LayoutOf(d.orientation, FALSE)
<1>1. /\ layout \in {"upright", "turned", "clockwise", "counter"}
      /\ layout = Panel!LayoutOf(d.orientation, FALSE)
    BY Layouts
<1>2. ASSUME NEW q \in Panel!GrayRefresh(g, d), o = Panel!Remembered(q, FALSE, layout)
      PROVE  Presented(o, d, Panel!AllOf("gray"), layout) /\ o.step.kind = "gray"
    <2>1. Shown(q, d, Panel!AllOf("gray")) /\ q.step.kind = "gray"
        BY GrayShows
    <2> DEFINE p == Panel!AllOf("gray")
    <2>2. /\ Presented(Panel!Remembered(q, FALSE, layout), d, p, layout)
          /\ Panel!Remembered(q, FALSE, layout).step = q.step
        <3>1. layout \in {"upright", "turned", "clockwise", "counter"}
            BY <1>1
        <3>2. Shown(q, d, p) /\ InLayout(d) /\ d \in Displays
            BY <2>1
        <3> HIDE DEF layout, p
        <3>3. ASSUME NEW b \in BOOLEAN, layout = Panel!LayoutOf(d.orientation, b)
              PROVE  /\ Presented(Panel!Remembered(q, b, layout), d, p, layout)
                     /\ Panel!Remembered(q, b, layout).step = q.step
            BY <3>1, <3>2, <3>3, RememberedShows, SMTT(30)
        <3> QED BY <1>1, <3>3
    <2> QED BY <1>2, <2>1, <2>2
<1>3. CASE o = Panel!NoMemory(g, d)
    BY <1>3, NoMemoryShows DEF Panel!NoMemory, Panel!Outcome
<1> QED
    <2> HIDE DEF layout
    <2> QED BY <1>2, <1>3 DEF Panel!Present4Bpp, layout

-----------------------------------------------------------------------------
(* The engine on top of it.                                                *)

\* Another geometry leaves the canvas and makes everything due.
LEMMA ModeKept ==
    ASSUME NEW u \in Uis, NEW portrait \in BOOLEAN
    PROVE  LET m == Panel!UseCanvasMode(u, portrait)
           IN  /\ m \in Uis /\ m.portrait = portrait
               /\ m.canvas = u.canvas /\ m.status = u.status /\ m.gray = u.gray
               /\ m.sleep = u.sleep /\ (m = u \/ m.dirty = {1, 2})
BY DEF Panel!UseCanvasMode, Uis, Panel!Parts

\* What is composed for a refresh shows the status strip.
LEMMA ComposedShows ==
    ASSUME NEW u \in Uis, ~u.sleep, StripDrawn(u)
    PROVE  LET c == Panel!Composed(u)
           IN  /\ c \in Uis /\ c.canvas[1] = u.status /\ c.status = u.status
               /\ c.dirty = u.dirty /\ c.gray = u.gray /\ c.sleep = u.sleep
               /\ c.portrait = u.portrait /\ c.quality = u.quality
<1> DEFINE redrawn == [u EXCEPT !.canvas[1] = u.status]
<1>1. /\ redrawn \in Uis /\ redrawn.canvas[1] = u.status /\ redrawn.status = u.status
      /\ redrawn.dirty = u.dirty /\ redrawn.gray = u.gray /\ redrawn.sleep = u.sleep
      /\ redrawn.portrait = u.portrait /\ redrawn.quality = u.quality
    <2>1. u.canvas \in Panel!Canvas /\ u.status \in Images
        BY DEF Uis
    <2>2. [u.canvas EXCEPT ![1] = u.status] \in Panel!Canvas
          /\ [u.canvas EXCEPT ![1] = u.status][1] = u.status
        BY <2>1 DEF Panel!Canvas, Panel!Parts
    <2>3. redrawn = [u EXCEPT !.canvas = [u.canvas EXCEPT ![1] = u.status]]
        BY DEF Uis
    <2> HIDE DEF redrawn
    <2> QED BY <2>1, <2>2, <2>3 DEF Uis
<1>2. Panel!Composed(u) = redrawn \/ (Panel!Composed(u) = u /\ u.canvas[1] = u.status)
    BY DEF Panel!Composed, Panel!status, StripDrawn
<1> QED
    <2> HIDE DEF redrawn
    <2> QED BY <1>1, <1>2

\* What a step leaves: the invariant, and the two action properties.
PanelKept == PanelInv' /\ Panel!ShowsPresented /\ Panel!KeepsLayout

\* A step that presents nothing.
LEMMA QuietStep ==
    ASSUME dStep' = Panel!NoPresentation
    PROVE  dStep' \in Panel!Presentation /\ Panel!ShowsPresented /\ Panel!KeepsLayout
BY DEF Panel!NoPresentation, Panel!Presentation, Panel!ShowsPresented, Panel!KeepsLayout

\* RefreshPending of an engine that has something due or covers the screen.
LEMMA RefreshKeeps ==
    ASSUME PanelInv, NEW u \in Uis, StripDrawn(u), u = dUi \/ u.dirty # {}, Panel!Refresh(u)
    PROVE  PanelKept
<1> DEFINE c == Panel!Composed(u)
<1>1. CASE u.sleep \/ u.dirty = {}
    <2>1. dUi' = u /\ dStep' = Panel!NoPresentation /\ dPanel' = dPanel /\ dDisplay' = dDisplay
        BY <1>1 DEF Panel!Refresh
    <2>2. Panel!NothingStale'
        BY <1>1, <2>1 DEF PanelInv, Panel!NothingStale
    <2> QED BY <2>1, <2>2, QuietStep DEF PanelInv, PanelKept
<1>2. CASE ~u.sleep /\ u.dirty # {}
    <2>1. /\ c \in Uis /\ c.canvas[1] = u.status /\ c.status = u.status
          /\ c.dirty = u.dirty /\ c.gray = u.gray /\ c.sleep = u.sleep
        BY <1>2, ComposedShows
    <2> HIDE DEF c
    <2> DEFINE outcomes == IF c.gray THEN Panel!Present4Bpp(dPanel, dDisplay)
                           ELSE Panel!Present(dPanel, dDisplay, c.canvas, c.portrait, ~c.quality)
    <2>2. PICK o \in outcomes :
              /\ dPanel' = o.panel /\ dDisplay' = o.display /\ dStep' = o.step
              /\ dUi' = Panel!Complete(c, o.step.ok)
        BY <1>2 DEF Panel!Refresh, c
    <2> DEFINE layout == Panel!LayoutOf(dDisplay.orientation, IF c.gray THEN FALSE ELSE c.portrait)
    <2> DEFINE p == IF c.gray THEN Panel!AllOf("gray") ELSE Panel!Placed(c.canvas, layout)
    <2>3. /\ Presented(o, dDisplay, p, layout)
          /\ o.step.ok /\ o.step.kind = "partial" => dDisplay.layout = layout
          /\ c.gray => o.step.kind \notin {"equal", "partial", "full"}
        <3>1. CASE c.gray
            BY <2>2, <3>1, Present4BppShows DEF PanelInv
        <3>2. CASE ~c.gray
            <4> DEFINE automatic == ~c.quality
            <4>1. c.canvas \in Panel!Canvas /\ c.portrait \in BOOLEAN /\ automatic \in BOOLEAN
                BY <2>1 DEF Uis
            <4>2. o \in Panel!Present(dPanel, dDisplay, c.canvas, c.portrait, automatic)
                BY <2>2, <3>2
            <4> HIDE DEF automatic
            <4>3. LET l == Panel!LayoutOf(dDisplay.orientation, c.portrait)
                  IN  /\ Presented(o, dDisplay, Panel!Placed(c.canvas, l), l)
                      /\ o.step.ok /\ o.step.kind = "partial" => dDisplay.layout = l
                BY <4>1, <4>2, PresentShows DEF PanelInv
            <4> QED BY <3>2, <4>3
        <3> QED BY <3>1, <3>2
    <2>4. /\ dUi' \in Uis /\ dUi'.canvas = c.canvas /\ dUi'.status = c.status
          /\ dUi'.gray = c.gray /\ dUi'.portrait = c.portrait /\ dUi'.sleep = c.sleep
          /\ dUi'.dirty = IF o.step.ok THEN {} ELSE c.dirty
        BY <2>1, <2>2 DEF Panel!Complete, Uis
    <2> HIDE DEF outcomes, p, layout
    <2>5. StripDrawn(dUi')
        BY <2>1, <2>4 DEF StripDrawn
    <2>6. Panel!NothingStale'
        <3> SUFFICES ASSUME dUi'.dirty = {}
                     PROVE  /\ dPanel' = IF dUi'.gray THEN Panel!AllOf("gray")
                                 ELSE Panel!Placed(dUi'.canvas,
                                     Panel!LayoutOf(dDisplay'.orientation, dUi'.portrait))
                            /\ dUi'.canvas[1] = dUi'.status
            BY DEF Panel!NothingStale, Panel!status
        <3>1. o.step.ok
            BY <1>2, <2>1, <2>4
        <3> QED BY <2>1, <2>2, <2>3, <2>4, <3>1 DEF Presented, p, layout
    <2>7. Panel!ShowsPresented /\ Panel!KeepsLayout
        BY <2>2, <2>3, <2>4 DEF Panel!ShowsPresented, Panel!KeepsLayout, Presented, p
    <2> QED BY <2>2, <2>3, <2>4, <2>5, <2>6, <2>7 DEF PanelInv, PanelKept, Presented
<1> QED BY <1>1, <1>2

\* Every step of the panel keeps the invariant.
LEMMA PanelStep ==
    ASSUME PanelInv, Panel!Next
    PROVE  PanelKept
<1> USE DEF PanelInv
<1>1. CASE Panel!Restart
    <2>1. PICK i \in Images : dDisplay' = Panel!Fresh(i) /\ dUi' = Panel!FreshUi(i)
        BY <1>1 DEF Panel!Restart
    <2>2. Panel!AllOf(i) \in Panel!Canvas
        BY DEF Panel!AllOf, Panel!Canvas
    <2>3. Panel!Fresh(i) \in Displays /\ Knows(dPanel, Panel!Fresh(i)) /\ InLayout(Panel!Fresh(i))
        BY <2>2 DEF Panel!Fresh, Displays, Knows, InLayout, Panel!Orientations
    <2>4. Panel!FreshUi(i) \in Uis /\ Panel!FreshUi(i).dirty = {1, 2}
        BY <2>2 DEF Panel!FreshUi, Uis, Panel!Parts
    <2>5. Panel!NothingStale' /\ StripDrawn(dUi')
        BY <2>1, <2>4 DEF Panel!NothingStale, StripDrawn
    <2>6. dPanel' = dPanel /\ dStep' = Panel!NoPresentation
        BY <1>1 DEF Panel!Restart
    <2> QED BY <2>1, <2>3, <2>4, <2>5, <2>6, QuietStep DEF PanelKept
<1>2. CASE Panel!SetOrientation
    <2>1. PICK o \in Panel!Orientations :
              dDisplay' = [dDisplay EXCEPT !.orientation = o, !.changed = TRUE]
        BY <1>2 DEF Panel!SetOrientation
    <2>2. /\ dDisplay' \in Displays /\ dDisplay'.changed
          /\ dDisplay'.shadow = dDisplay.shadow /\ dDisplay'.shadowValid = dDisplay.shadowValid
          /\ dDisplay'.baseline = dDisplay.baseline /\ dDisplay'.preview = dDisplay.preview
        BY <2>1 DEF Displays
    <2>3. dPanel' = dPanel /\ dUi' = dUi /\ dStep' = Panel!NoPresentation
        BY <1>2 DEF Panel!SetOrientation
    <2>4. Panel!NothingStale' /\ Knows(dPanel', dDisplay') /\ InLayout(dDisplay')
        BY <2>2, <2>3 DEF Panel!NothingStale, Knows, InLayout
    <2> QED BY <2>2, <2>3, <2>4, QuietStep DEF PanelKept
<1>3. CASE Panel!SetCalibration
    <2> DEFINE d == Panel!OnError(dDisplay)
    <2>1. dDisplay' = [d EXCEPT !.shadowValid = FALSE]
          /\ dPanel' = dPanel /\ dUi' = dUi /\ dStep' = Panel!NoPresentation
        BY <1>3 DEF Panel!SetCalibration
    <2>2. /\ d \in Displays /\ ~d.baseline /\ d.preview = NoValue
          /\ d.orientation = dDisplay.orientation /\ d.changed = dDisplay.changed
        BY ErrorForgets
    <2> HIDE DEF d
    <2>3. /\ dDisplay' \in Displays /\ ~dDisplay'.shadowValid /\ ~dDisplay'.baseline
          /\ dDisplay'.preview = NoValue
          /\ dDisplay'.orientation = dDisplay.orientation /\ dDisplay'.changed = dDisplay.changed
        BY <2>1, <2>2 DEF Displays
    <2>4. Panel!NothingStale' /\ Knows(dPanel', dDisplay') /\ InLayout(dDisplay')
        BY <2>1, <2>3 DEF Panel!NothingStale, Knows, InLayout
    <2> QED BY <2>1, <2>3, <2>4, QuietStep DEF PanelKept
<1>4. CASE Panel!RefreshPending
    BY <1>4, RefreshKeeps DEF Panel!RefreshPending
<1>5. CASE Panel!UpdateStatus
    <2>1. PICK i \in Images : dUi' = [dUi EXCEPT !.status = i, !.dirty = @ \cup {1}]
        BY <1>5 DEF Panel!UpdateStatus, Panel!status
    <2>2. dUi' \in Uis /\ 1 \in dUi'.dirty
        BY <2>1 DEF Uis
    <2>3. dPanel' = dPanel /\ dDisplay' = dDisplay /\ dStep' = Panel!NoPresentation
        BY <1>5 DEF Panel!UpdateStatus
    <2>4. Panel!NothingStale' /\ StripDrawn(dUi')
        BY <2>2 DEF Panel!NothingStale, StripDrawn
    <2> QED BY <2>2, <2>3, <2>4, QuietStep DEF PanelKept
<1>6. CASE Panel!ShowContent
    <2>1. PICK image \in Images, full \in BOOLEAN, portrait \in BOOLEAN :
              Panel!Refresh([Panel!Drawn(dUi, portrait, image) EXCEPT !.quality = @ \/ full])
        BY <1>6 DEF Panel!ShowContent
    <2> DEFINE m == Panel!UseCanvasMode(dUi, portrait)
    <2> DEFINE w == Panel!Drawn(dUi, portrait, image)
    <2> DEFINE u == [w EXCEPT !.quality = @ \/ full]
    <2>2. m \in Uis
        BY ModeKept
    <2>3. w \in Uis /\ w.dirty = {1, 2}
        <3>1. w = [m EXCEPT !.sleep = FALSE, !.gray = FALSE, !.dirty = {1, 2},
                            !.canvas[2] = image]
            BY DEF Panel!Drawn, Panel!content, Panel!Parts
        <3>2. [m.canvas EXCEPT ![2] = image] \in Panel!Canvas
            BY <2>2 DEF Uis, Panel!Canvas, Panel!Parts
        <3>3. w = [m EXCEPT !.sleep = FALSE, !.gray = FALSE, !.dirty = {1, 2},
                            !.canvas = [m.canvas EXCEPT ![2] = image]]
            BY <2>2, <3>1 DEF Uis
        <3> HIDE DEF w, m
        <3> QED BY <2>2, <3>2, <3>3 DEF Uis
    <2> HIDE DEF w
    <2>4. u \in Uis /\ u.dirty = {1, 2}
        BY <2>3 DEF Uis
    <2>5. StripDrawn(u) /\ u.dirty # {}
        BY <2>4 DEF StripDrawn
    <2>6. Panel!Refresh(u)
        BY <2>1 DEF w
    <2> HIDE DEF u
    <2> QED BY <2>4, <2>5, <2>6, RefreshKeeps
<1>7. CASE Panel!ShowImagePatch
    <2> DEFINE m == Panel!UseCanvasMode(dUi, FALSE)
    <2>1. PICK image \in Images :
              Panel!Refresh([m EXCEPT !.canvas[2] = image, !.dirty = @ \cup {2}])
        BY <1>7 DEF Panel!ShowImagePatch, Panel!content
    <2> DEFINE u == [m EXCEPT !.canvas[2] = image, !.dirty = @ \cup {2}]
    <2>2. /\ m \in Uis /\ m.canvas = dUi.canvas /\ m.status = dUi.status
          /\ m.sleep = dUi.sleep /\ (m = dUi \/ m.dirty = {1, 2})
        BY ModeKept
    <2> HIDE DEF m
    <2>3. [m.canvas EXCEPT ![2] = image] \in Panel!Canvas
          /\ [m.canvas EXCEPT ![2] = image][1] = m.canvas[1]
        BY <2>2 DEF Uis, Panel!Canvas, Panel!Parts
    <2>4. u = [m EXCEPT !.canvas = [m.canvas EXCEPT ![2] = image], !.dirty = m.dirty \cup {2}]
        BY <2>2 DEF Uis
    <2>5. Panel!Refresh(u)
        BY <2>1
    <2> HIDE DEF u
    <2>6. /\ u \in Uis /\ u.canvas[1] = m.canvas[1] /\ u.status = m.status /\ u.sleep = m.sleep
          /\ u.dirty = m.dirty \cup {2}
        BY <2>2, <2>3, <2>4 DEF Uis
    <2>7. StripDrawn(u) /\ u.dirty # {}
        BY <2>2, <2>6 DEF StripDrawn
    <2> QED BY <2>5, <2>6, <2>7, RefreshKeeps
<1>8. CASE Panel!ShowImage4Bpp
    <2> DEFINE m == Panel!UseCanvasMode(dUi, FALSE)
    <2> DEFINE u == [m EXCEPT !.gray = TRUE, !.sleep = FALSE, !.dirty = Panel!Parts,
                              !.quality = TRUE]
    <2>1. m \in Uis
        BY ModeKept
    <2>2. Panel!Refresh(u)
        BY <1>8 DEF Panel!ShowImage4Bpp
    <2> HIDE DEF m
    <2>3. u \in Uis /\ u.dirty = {1, 2}
        BY <2>1 DEF Uis, Panel!Parts
    <2> HIDE DEF u
    <2>4. StripDrawn(u) /\ u.dirty # {}
        BY <2>3 DEF StripDrawn
    <2> QED BY <2>2, <2>3, <2>4, RefreshKeeps
<1>9. CASE Panel!ShowSleepCover
    <2>1. PICK f \in Panel!Canvas, calendar \in BOOLEAN :
              LET u == Panel!UseCanvasMode(dUi, calendar)
                  asleep == [u EXCEPT !.gray = FALSE, !.canvas = f, !.sleep = TRUE]
              IN \E o \in IF calendar THEN Panel!PresentLock(dPanel, dDisplay, f)
                           ELSE Panel!Present(dPanel, dDisplay, f, FALSE, FALSE) :
                    /\ dPanel' = o.panel /\ dDisplay' = o.display /\ dStep' = o.step
                    /\ dUi' = Panel!UseCanvasMode(asleep, FALSE)
        BY <1>9 DEF Panel!ShowSleepCover
    <2> DEFINE u == Panel!UseCanvasMode(dUi, calendar)
    <2> DEFINE asleep == [u EXCEPT !.gray = FALSE, !.canvas = f, !.sleep = TRUE]
    <2> DEFINE outcomes == IF calendar THEN Panel!PresentLock(dPanel, dDisplay, f)
                           ELSE Panel!Present(dPanel, dDisplay, f, FALSE, FALSE)
    <2>2. PICK o \in outcomes :
              /\ dPanel' = o.panel /\ dDisplay' = o.display /\ dStep' = o.step
              /\ dUi' = Panel!UseCanvasMode(asleep, FALSE)
        BY <2>1
    <2>3. u \in Uis
        BY ModeKept
    <2> HIDE DEF u
    <2>4. asleep \in Uis /\ asleep.sleep /\ asleep.canvas = f
        BY <2>3 DEF Uis
    <2> HIDE DEF asleep
    <2>5. dUi' \in Uis /\ dUi'.sleep /\ dUi'.canvas = f
        BY <2>2, <2>4, ModeKept
    <2> DEFINE layout == IF calendar THEN "clockwise"
                         ELSE Panel!LayoutOf(dDisplay.orientation, FALSE)
    <2>6. /\ Presented(o, dDisplay, Panel!Placed(f, layout), layout)
          /\ o.step.ok /\ o.step.kind = "partial" => dDisplay.layout = layout
        <3>1. CASE calendar
            <4>1. o \in Panel!PresentLock(dPanel, dDisplay, f)
                BY <2>2, <3>1
            <4> QED BY <3>1, <4>1, PresentLockShows
        <3>2. CASE ~calendar
            <4>1. o \in Panel!Present(dPanel, dDisplay, f, FALSE, FALSE)
                BY <2>2, <3>2
            <4> QED BY <3>2, <4>1, PresentShows
        <3> QED BY <3>1, <3>2
    <2> HIDE DEF outcomes, layout
    <2>7. Panel!NothingStale' /\ StripDrawn(dUi')
        BY <2>5 DEF Panel!NothingStale, StripDrawn
    <2>8. Panel!ShowsPresented /\ Panel!KeepsLayout
        BY <2>2, <2>5, <2>6 DEF Panel!ShowsPresented, Panel!KeepsLayout, Presented
    <2> QED BY <2>2, <2>5, <2>6, <2>7, <2>8 DEF PanelKept, Presented
<1> QED BY <1>1, <1>2, <1>3, <1>4, <1>5, <1>6, <1>7, <1>8, <1>9 DEF Panel!Next

-----------------------------------------------------------------------------
\* The invariant of the panel, while it is the part that moves.
LEMMA AlwaysPanel == MCSpec => [](part = "panel" => PanelInv)
<1>1. MCInit => (part = "panel" => PanelInv)
    <2> SUFFICES ASSUME MCInit, part = "panel" PROVE PanelInv
        OBVIOUS
    <2>1. Panel!Init
        BY DEF MCInit
    <2>2. PICK i \in Images : dDisplay = Panel!Fresh(i) /\ dUi = Panel!FreshUi(i)
        BY <2>1 DEF Panel!Init
    <2>3. Panel!AllOf(i) \in Panel!Canvas /\ Panel!AllOf("torn") \in Glass
        BY DEF Panel!AllOf, Panel!Canvas, Panel!Parts, Glass, Pictures
    <2>4. dDisplay \in Displays /\ Knows(dPanel, dDisplay) /\ InLayout(dDisplay)
        BY <2>2, <2>3 DEF Panel!Fresh, Displays, Knows, InLayout, Panel!Orientations
    <2>5. dUi \in Uis /\ dUi.dirty = {1, 2}
        BY <2>2, <2>3 DEF Panel!FreshUi, Uis, Panel!Parts
    <2> QED BY <2>1, <2>3, <2>4, <2>5
            DEF Panel!Init, PanelInv, Panel!NothingStale, StripDrawn, Panel!NoPresentation,
                Panel!Presentation
<1>2. (part = "panel" => PanelInv) /\ [MCNext]_mcVars => (part = "panel" => PanelInv)'
    <2> SUFFICES ASSUME part = "panel" => PanelInv, [MCNext]_mcVars, part' = "panel"
                 PROVE  PanelInv'
        OBVIOUS
    <2>1. CASE UNCHANGED <<part, PanelVars>>
        BY <2>1 DEF PanelVars, PanelInv, Panel!NothingStale
    <2>2. CASE Panel!Next /\ part = "panel"
        BY <2>2, PanelStep DEF PanelKept
    <2> QED BY <2>1, <2>2 DEF MCNext, mcVars
<1> QED BY <1>1, <1>2, PTL DEF MCSpec

\* Whatever check of the driver fails and whichever way the picture is turned, no
\* image is taken for what the panel holds, and no part that is not due is stale
\* (note4_display_service.cc), for any images.
THEOREM PanelAlwaysSound == MCSpec => []PanelSound
<1>1. (part = "panel" => PanelInv) => PanelSound
    BY DEF PanelInv, PanelSound, Panel!PanelKnown, Knows, Panel!status
<1> QED BY <1>1, AlwaysPanel, PTL

\* A frame reported as presented is on the glass, and a partial refresh keeps the
\* layout its baseline was made for (note4_display_service.cc), for any images.
THEOREM PanelShowsPresented == MCSpec => PresentedIsShown
<1>1. (part = "panel" => PanelInv) /\ [MCNext]_mcVars
        => [part = "panel" => Panel!ShowsPresented /\ Panel!KeepsLayout]_PanelVars
    <2> SUFFICES ASSUME part = "panel" => PanelInv, [MCNext]_mcVars, part = "panel",
                        ~UNCHANGED PanelVars
                 PROVE  Panel!ShowsPresented /\ Panel!KeepsLayout
        OBVIOUS
    <2>1. Panel!Next
        BY DEF MCNext, mcVars
    <2> QED BY <2>1, PanelStep DEF PanelKept
<1> QED BY <1>1, AlwaysPanel, PTL DEF MCSpec, PresentedIsShown
====
