--------------------------- MODULE ClusterExport ---------------------------
(***************************************************************************)
(* What an exporter process promises about the clusters it exports, without *)
(* tasks, map operations or cycles.                                         *)
(*                                                                          *)
(* A cluster is on standby, active or stopped.  It becomes active only      *)
(* while the process leads; only an active cluster exports; when it         *)
(* retires or stops it exports nothing, and a stopped one never returns.    *)
(* A loss of leadership is noticed late, but never by more than the one     *)
(* update that was under way.                                               *)
(***************************************************************************)
EXTENDS Naturals

CONSTANT Clusters

VARIABLES
    leader,    \* the process holds leadership
    phase,     \* per cluster
    exported,  \* per cluster: it has points in the registry
    late       \* per cluster: updates since leadership was last lost

vars == <<leader, phase, exported, late>>

Init ==
    /\ leader \in BOOLEAN
    /\ phase = [c \in Clusters |-> "standby"]
    /\ exported = [c \in Clusters |-> FALSE]
    /\ late = [c \in Clusters |-> 0]

GainLeadership ==
    /\ ~leader
    /\ leader' = TRUE
    /\ UNCHANGED <<phase, exported, late>>

LoseLeadership ==
    /\ leader
    /\ leader' = FALSE
    /\ late' = [c \in Clusters |-> 0]
    /\ UNCHANGED <<phase, exported>>

Activate(c) ==
    /\ leader
    /\ phase[c] = "standby"
    /\ phase' = [phase EXCEPT ![c] = "active"]
    /\ UNCHANGED <<leader, exported, late>>

Publish(c) ==
    /\ phase[c] = "active"
    /\ leader \/ late[c] = 0
    /\ exported' = [exported EXCEPT ![c] = TRUE]
    /\ late' = [late EXCEPT ![c] = IF leader THEN @ ELSE 1]
    /\ UNCHANGED <<leader, phase>>

Retire(c) ==
    /\ phase[c] = "active"
    /\ phase' = [phase EXCEPT ![c] = "standby"]
    /\ exported' = [exported EXCEPT ![c] = FALSE]
    /\ UNCHANGED <<leader, late>>

Stop(c) ==
    /\ phase[c] # "stopped"
    /\ phase' = [phase EXCEPT ![c] = "stopped"]
    /\ exported' = [exported EXCEPT ![c] = FALSE]
    /\ UNCHANGED <<leader, late>>

Next ==
    \/ GainLeadership \/ LoseLeadership
    \/ \E c \in Clusters : Activate(c) \/ Publish(c) \/ Retire(c) \/ Stop(c)

Spec == Init /\ [][Next]_vars
=============================================================================
