-------------------------- MODULE MCResourceClient --------------------------
(* One request, over two connections of the phone and over Wi-Fi, with     *)
(* delays of one unit and of two.                                          *)
EXTENDS ResourceClient, TLC
=============================================================================
