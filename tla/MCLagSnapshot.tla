--------------------------- MODULE MCLagSnapshot ---------------------------
(* A collection cycle against a small cluster, for TLC. *)
EXTENDS LagSnapshot, TLC

PartitionSymmetry == Permutations(Partitions)
=============================================================================
