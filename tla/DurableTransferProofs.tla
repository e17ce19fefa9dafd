------------------------ MODULE DurableTransferProofs ------------------------
(***************************************************************************)
(* DurableTransfer keeps its window, for any keys, values and revisions.   *)
(* The three invariants are inductive together: a new offer is fresh       *)
(* because nothing beyond the window was applied, and what was applied     *)
(* stays in the window because an offer is dropped only once it is covered.*)
(***************************************************************************)
EXTENDS DurableTransfer, TLAPS

IInv == TypeOK /\ WindowHolds /\ OfferIsFresh

LEMMA HigherIsUpperBound ==
    ASSUME NEW a \in Nat, NEW b \in Nat
    PROVE  /\ Higher(a, b) \in Nat
           /\ Higher(a, b) \in {a, b}
           /\ a <= Higher(a, b)
           /\ b <= Higher(a, b)
BY DEF Higher

LEMMA RevisionsAreNat == Revisions \subseteq Nat
BY SyncConstants DEF Revisions

LEMMA InitHolds == Init => IInv
<1>1. 0 \in Revisions
    BY SyncConstants DEF Revisions
<1> QED
    BY <1>1 DEF Init, IInv, TypeOK, WindowHolds, OfferIsFresh, NoOffer, Register, Higher

\* Offers: the new revision is above the window, so it was never applied.
LEMMA OffersKeeps ==
    ASSUME IInv, NEW k \in Keys, Offers(k)
    PROVE  IInv'
<1>1. PICK r \in Revisions, v \in Values :
          /\ r > Higher(acked[k], offer[k].rev)
          /\ offer' = [offer EXCEPT ![k] = [rev |-> r, val |-> v]]
    BY DEF Offers
<1>2. acked' = acked /\ applied' = applied
    BY DEF Offers
<1>3. \A j \in Keys : /\ acked[j] \in Nat /\ offer[j].rev \in Nat /\ applied[j].rev \in Nat
                      /\ offer'[j] = IF j = k THEN [rev |-> r, val |-> v] ELSE offer[j]
    BY <1>1, RevisionsAreNat DEF IInv, TypeOK, Register
<1>4. r \in Nat
    BY RevisionsAreNat
<1>5. TypeOK'
    BY <1>1, <1>2 DEF IInv, TypeOK, Register
<1>6. WindowHolds'
    BY <1>1, <1>2, <1>3, <1>4, HigherIsUpperBound DEF IInv, WindowHolds, Higher
<1>7. OfferIsFresh'
    BY <1>1, <1>2, <1>3, <1>4, HigherIsUpperBound DEF IInv, WindowHolds, OfferIsFresh, Higher
<1> QED
    BY <1>5, <1>6, <1>7 DEF IInv

\* Applies: within the offer, above what was applied, with the offered bytes.
LEMMA AppliesKeeps ==
    ASSUME IInv, NEW k \in Keys, Applies(k)
    PROVE  IInv'
<1>1. PICK r \in Revisions, v \in Values :
          /\ applied[k].rev < r /\ r <= offer[k].rev
          /\ r = offer[k].rev => v = offer[k].val
          /\ applied' = [applied EXCEPT ![k] = [rev |-> r, val |-> v]]
    BY DEF Applies
<1>2. offer' = offer /\ acked' = acked
    BY DEF Applies
<1>3. \A j \in Keys : /\ acked[j] \in Nat /\ offer[j].rev \in Nat /\ applied[j].rev \in Nat
                      /\ applied'[j] = IF j = k THEN [rev |-> r, val |-> v] ELSE applied[j]
    BY <1>1, RevisionsAreNat DEF IInv, TypeOK, Register
<1>4. r \in Nat
    BY RevisionsAreNat
<1>5. TypeOK'
    BY <1>1, <1>2 DEF IInv, TypeOK, Register
<1>6. WindowHolds'
    BY <1>1, <1>2, <1>3, <1>4 DEF IInv, WindowHolds, Higher
<1>7. OfferIsFresh'
    BY <1>1, <1>2, <1>3, <1>4 DEF IInv, OfferIsFresh
<1> QED
    BY <1>5, <1>6, <1>7 DEF IInv

\* Retires: never beyond what was applied, and only covered offers go.
LEMMA RetiresKeeps ==
    ASSUME IInv, Retires
    PROVE  IInv'
<1>1. PICK a \in [Keys -> Revisions] :
          /\ \A k \in Keys : acked[k] <= a[k] /\ a[k] <= Higher(acked[k], applied[k].rev)
          /\ acked' = a
          /\ offer' = [k \in Keys |-> IF offer[k].rev <= a[k] THEN NoOffer ELSE offer[k]]
    BY DEF Retires
<1>2. applied' = applied
    BY DEF Retires
<1>3. \A k \in Keys : /\ acked[k] \in Nat /\ offer[k].rev \in Nat /\ applied[k].rev \in Nat
                      /\ a[k] \in Nat
                      /\ acked[k] <= a[k] /\ a[k] <= applied[k].rev
    <2> SUFFICES ASSUME NEW k \in Keys
                 PROVE  /\ acked[k] \in Nat /\ offer[k].rev \in Nat /\ applied[k].rev \in Nat
                        /\ a[k] \in Nat
                        /\ acked[k] <= a[k] /\ a[k] <= applied[k].rev
        OBVIOUS
    <2>1. acked[k] \in Nat /\ offer[k].rev \in Nat /\ applied[k].rev \in Nat /\ a[k] \in Nat
        BY RevisionsAreNat DEF IInv, TypeOK, Register
    <2>2. acked[k] <= a[k] /\ a[k] <= Higher(acked[k], applied[k].rev)
        BY <1>1
    <2> QED
        BY <2>1, <2>2 DEF IInv, WindowHolds, Higher
<1>4. NoOffer \in Register /\ NoOffer.rev = 0
    BY SyncConstants DEF NoOffer, Register, Revisions
<1>5. TypeOK'
    BY <1>1, <1>2, <1>4 DEF IInv, TypeOK
<1>6. WindowHolds'
    BY <1>1, <1>2, <1>3, <1>4 DEF IInv, WindowHolds, Higher
<1>7. OfferIsFresh'
    BY <1>1, <1>2, <1>3, <1>4 DEF IInv, OfferIsFresh
<1> QED
    BY <1>5, <1>6, <1>7 DEF IInv

LEMMA StepKeeps == IInv /\ [Next]_vars => IInv'
<1> SUFFICES ASSUME IInv, [Next]_vars PROVE IInv'
    OBVIOUS
<1>1. CASE Retires
    BY <1>1, RetiresKeeps
<1>2. CASE \E k \in Keys : Offers(k)
    BY <1>2, OffersKeeps
<1>3. CASE \E k \in Keys : Applies(k)
    BY <1>3, AppliesKeeps
<1>4. CASE UNCHANGED vars
    BY <1>4 DEF vars, IInv, TypeOK, WindowHolds, OfferIsFresh
<1> QED
    BY <1>1, <1>2, <1>3, <1>4 DEF Next

\* The register is well formed, what was retired was applied, what was applied
\* is retired or on offer, and a waiting offer has the bytes the receiver has.
THEOREM TransferInvariant == Spec => [](TypeOK /\ WindowHolds /\ OfferIsFresh)
<1>1. Init => IInv
    BY InitHolds
<1>2. IInv /\ [Next]_vars => IInv'
    BY StepKeeps
<1> QED
    BY <1>1, <1>2, PTL DEF Spec, IInv

\* Nothing is applied after something newer, nor replaced under its revision.
THEOREM TransferInOrder == Spec => AppliedInOrder
<1>1. IInv /\ [Next]_vars =>
        [\A k \in Keys : \/ applied'[k] = applied[k]
                         \/ applied'[k].rev > applied[k].rev]_vars
    <2> SUFFICES ASSUME IInv, [Next]_vars, NEW k \in Keys
                 PROVE  applied'[k] = applied[k] \/ applied'[k].rev > applied[k].rev
        OBVIOUS
    <2>1. CASE \E j \in Keys : Applies(j)
        <3>1. PICK j \in Keys : Applies(j)
            BY <2>1
        <3>2. PICK r \in Revisions, v \in Values :
                  /\ applied[j].rev < r
                  /\ applied' = [applied EXCEPT ![j] = [rev |-> r, val |-> v]]
            BY <3>1 DEF Applies
        <3>3. applied[j].rev \in Nat /\ r \in Nat
            BY RevisionsAreNat DEF IInv, TypeOK, Register
        <3> QED
            BY <3>2, <3>3 DEF IInv, TypeOK
    <2>2. CASE UNCHANGED applied
        BY <2>2
    <2> QED
        BY <2>1, <2>2 DEF Next, vars, Offers, Retires
<1>2. Spec => []IInv
    BY InitHolds, StepKeeps, PTL DEF Spec
<1> QED
    BY <1>1, <1>2, PTL DEF Spec, AppliedInOrder
=============================================================================
