------------------------- MODULE MCCollectionCycle -------------------------
(* A group and two topics that come and go, for TLC. *)
EXTENDS CollectionCycle, TLC

\* Nothing tells the topics apart but their names.
Alike == Permutations(Topics)
=============================================================================
