--------------------------- MODULE MCTimeKeeping ---------------------------
(* One instance of the device's clock: times a distance apart that no pair *)
(* of offsets can produce, one step HTTPS may make and one it may not.     *)
EXTENDS TimeKeeping

MCTimes == {0, 1, 40}
MCOffsets == {5, 13}
=============================================================================
