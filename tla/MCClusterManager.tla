-------------------------- MODULE MCClusterManager --------------------------
(* The managers of two clusters, for TLC. *)
EXTENDS ClusterManager
=============================================================================
