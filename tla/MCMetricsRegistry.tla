------------------------- MODULE MCMetricsRegistry -------------------------
(* The registry on its own, for TLC: any sequence of calls by the writers. *)
EXTENDS MetricsRegistry, TLC

ClusterSymmetry == Permutations(Clusters)
=============================================================================
