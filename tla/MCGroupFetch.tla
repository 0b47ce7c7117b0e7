---------------------------- MODULE MCGroupFetch ----------------------------
(* The fan-outs of one manager, for TLC. *)
EXTENDS GroupFetch
=============================================================================
