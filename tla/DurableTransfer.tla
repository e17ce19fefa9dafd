--------------------------- MODULE DurableTransfer ---------------------------
(***************************************************************************)
(* What durable synchronization promises in one direction, whatever the    *)
(* link and the stores do: per key a register.  The owner offers revisions *)
(* that only grow and may replace one another; the receiver applies each   *)
(* revision at most once, in order, with the bytes offered under it; the   *)
(* owner retires an offer only after it, or a newer one, was applied.      *)
(***************************************************************************)
EXTENDS SyncState

VARIABLES
    offer,      \* per key: the revision (0: none) and value that wait
    acked,      \* per key: the revision the owner knows to be applied
    applied     \* per key: the revision and value at the receiver

vars == <<offer, acked, applied>>

NoOffer == [rev |-> 0, val |-> NoValue]
Register == [rev : Revisions, val : Values \cup {NoValue}]

\* The owner replaces what waits by a newer revision.
Offers(k) ==
    /\ \E r \in Revisions, v \in Values :
        /\ r > Higher(acked[k], offer[k].rev)
        /\ offer' = [offer EXCEPT ![k] = [rev |-> r, val |-> v]]
    /\ UNCHANGED <<acked, applied>>

\* The receiver applies the offer, or an older one that was already under way.
Applies(k) ==
    /\ \E r \in Revisions, v \in Values :
        /\ applied[k].rev < r /\ r <= offer[k].rev
        /\ r = offer[k].rev => v = offer[k].val
        /\ applied' = [applied EXCEPT ![k] = [rev |-> r, val |-> v]]
    /\ UNCHANGED <<offer, acked>>

\* The owner learns what was applied, for several keys at once on reconnect.
Retires ==
    /\ \E a \in [Keys -> Revisions] :
        /\ \A k \in Keys : acked[k] <= a[k] /\ a[k] <= Higher(acked[k], applied[k].rev)
        /\ acked' = a
        /\ offer' = [k \in Keys |-> IF offer[k].rev <= a[k] THEN NoOffer ELSE offer[k]]
    /\ UNCHANGED applied

Init ==
    /\ offer = [k \in Keys |-> NoOffer]
    /\ acked = [k \in Keys |-> 0]
    /\ applied = [k \in Keys |-> NoOffer]

Next == Retires \/ \E k \in Keys : Offers(k) \/ Applies(k)

Spec == Init /\ [][Next]_vars

-----------------------------------------------------------------------------
TypeOK ==
    /\ offer \in [Keys -> Register]
    /\ acked \in [Keys -> Revisions]
    /\ applied \in [Keys -> Register]

\* What was retired was applied, and what is applied is retired or still on
\* offer: the window in which SyncEngine::ReconcilePeerCursors accepts a peer.
WindowHolds ==
    \A k \in Keys :
        /\ acked[k] <= applied[k].rev
        /\ applied[k].rev <= Higher(acked[k], offer[k].rev)

\* An offer that waits is newer than anything retired, and when it has been
\* applied already, the receiver holds its very bytes.
OfferIsFresh ==
    \A k \in Keys : offer[k].rev # 0 =>
        /\ offer[k].rev > acked[k]
        /\ offer[k].rev = applied[k].rev => offer[k].val = applied[k].val

\* The receiver never goes back to an older value nor changes one in place.
AppliedInOrder ==
    [][\A k \in Keys : \/ applied'[k] = applied[k]
                       \/ applied'[k].rev > applied[k].rev]_vars
=============================================================================
