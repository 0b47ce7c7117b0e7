--------------------------- MODULE GroupRequests ---------------------------
(***************************************************************************)
(* What the collector may rely on when it asks the cluster about a set of   *)
(* consumer groups (describe_consumer_groups_batched in                     *)
(* src/kafka/admin.rs): every group asked for is settled, one way or the    *)
(* other and once, whatever chunks, rounds and backoffs lie in between, and *)
(* the request ends.                                                        *)
(***************************************************************************)
CONSTANT Groups

VARIABLES
    open,       \* groups asked for and not settled yet
    answered,   \* groups the request returns
    failed      \* groups the request gives up

vars == <<open, answered, failed>>

Init == open = {} /\ answered = {} /\ failed = {}

\* A new request; what became of the one before is no longer of interest.
Ask ==
    /\ open = {}
    /\ open' \in SUBSET Groups
    /\ answered' = {}
    /\ failed' = {}

\* Groups are settled together, but none that is settled is touched again.
Settle ==
    \E ok, bad \in SUBSET open :
        /\ ok \cap bad = {}
        /\ open' = open \ (ok \cup bad)
        /\ answered' = answered \cup ok
        /\ failed' = failed \cup bad

Next == Ask \/ Settle

Spec == Init /\ [][Next]_vars /\ []<>(open = {})
=============================================================================
