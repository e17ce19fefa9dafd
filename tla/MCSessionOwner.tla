--------------------------- MODULE MCSessionOwner ---------------------------
(* Three connections of a phone, so that two may end behind the task's back. *)
EXTENDS SessionOwner, TLC
=============================================================================
