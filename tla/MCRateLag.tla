----------------------------- MODULE MCRateLag -----------------------------
(* Short histories of a slow partition, for TLC. *)
EXTENDS RateLag

\* A group without other partitions, with one of unknown time, and with one known.
MCOthersSeconds == {{}, {NoTime}, {2}}
=============================================================================
