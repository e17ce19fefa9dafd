--------------------------- MODULE MCCompanionSync ---------------------------
(* One Note4 and one phone; each side publishes once.                      *)
EXTENDS CompanionSync, TLC

PutsBoth == [s \in Sides |-> 1]
=============================================================================
