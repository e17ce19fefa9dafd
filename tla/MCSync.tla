------------------------------- MODULE MCSync -------------------------------
(* One Note4 and one phone, in two settings: two failures and a Note4 that  *)
(* may forget the phone, over updates that are all alike; and updates that  *)
(* overtake each other, with values to tell them apart and one failure.     *)
EXTENDS CompanionSync, TLC

VARIABLE setting    \* "faults" or "values"

Puts(note4, phone) == [s \in Sides |-> IF s = "note4" THEN note4 ELSE phone]

PutsMore == Puts(2, 1)

AnyValue == Permutations(Values)

MCInit == Init /\ setting \in {"faults", "values"}

\* What a setting leaves out.
Within ==
    IF setting = "faults"
    THEN /\ \A k \in Keys : owner'[k].rev <= 1
         /\ \E v \in Values : \A s \in Sides, k \in Keys : mem'[s][k].pval \in {v, NoValue}
    ELSE faults' <= 1 /\ ~forgot'

MCNext == Next /\ Within /\ UNCHANGED setting

mcVars == <<vars, setting>>

MCSpec == MCInit /\ [][MCNext]_mcVars
=============================================================================
