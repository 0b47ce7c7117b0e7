-------------------------- MODULE MCDescribeGroups --------------------------
(* Requests for up to four groups, in chunks of two, for TLC. *)
EXTENDS DescribeGroups
=============================================================================
