-------------------------- MODULE MCLeaderElection --------------------------
(* Competing instances, for TLC. *)
EXTENDS LeaderElection
=============================================================================
