-------------------------- MODULE MCTimestampPool --------------------------
(* The sampling of one manager, for TLC. *)
EXTENDS TimestampPool, TLC

PoolSymmetry ==
    Permutations(Consumers) \cup Permutations(Rounds) \cup Permutations(Groups)
=============================================================================
