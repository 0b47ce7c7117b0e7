--------------------------- MODULE LeaderElection ---------------------------
(***************************************************************************)
(* Leader election between the instances of the exporter                   *)
(* (src/leadership/): every instance runs an election task that copies what *)
(* the lease manager says from a watch channel into the flag its cluster    *)
(* managers and its HTTP handlers read.                                     *)
(*                                                                          *)
(* The lease manager (crate kube-lease-manager) and the Lease object are    *)
(* external.  They are taken at their best: one holder at a time, and the   *)
(* task of a holder that cannot renew says so before anybody else gets the  *)
(* lease.  What goes wrong here is then due to the code around them.        *)
(***************************************************************************)
EXTENDS Naturals

CONSTANTS
    Instances,  \* identities of the competing pods
    Nobody,     \* the lease has no valid holder
    MaxFaults   \* bound of crashes, restarts, failed renewals and dead tasks

ASSUME NobodyAssumption == Nobody \notin Instances
ASSUME FaultsAssumption == MaxFaults \in Nat

VARIABLES
    holder,     \* the Lease object: its holder
    task,       \* per instance: the lease manager's background task
    held,       \* per instance: value in the watch channel of that task
    unseen,     \* per instance: the channel changed since it was last read
    alive,      \* per instance: the process runs
    stop,       \* per instance: stop() has sent the shutdown value
    election,   \* per instance: where run_election is
    isLeader,   \* per instance: its local is_leader
    flag,       \* per instance: LeadershipStatus.is_leader
    faults      \* faults so far

leaseVars    == <<holder, task, held>>
electionVars == <<election, isLeader, flag>>
vars == <<leaseVars, unseen, alive, stop, electionVars, faults>>

Init ==
    /\ holder = Nobody
    /\ task = [i \in Instances |-> "absent"]
    /\ held = [i \in Instances |-> FALSE]
    /\ unseen = [i \in Instances |-> FALSE]
    /\ alive = [i \in Instances |-> TRUE]
    /\ stop = [i \in Instances |-> FALSE]
    /\ election = [i \in Instances |-> "starting"]
    /\ isLeader = [i \in Instances |-> FALSE]
    /\ flag = [i \in Instances |-> FALSE]
    /\ faults = 0

Fault == faults < MaxFaults /\ faults' = faults + 1
NoFault == UNCHANGED faults

Goes(i, from, to) ==
    /\ election[i] = from
    /\ election' = [election EXCEPT ![i] = to]

-----------------------------------------------------------------------------
(* run_election.                                                           *)

\* No Kubernetes client, or no lease manager: the task returns.
StartFails(i) ==
    /\ Fault
    /\ Goes(i, "starting", "done")
    /\ UNCHANGED <<leaseVars, unseen, isLeader, flag, alive, stop>>

StartWatching(i) ==
    /\ Goes(i, "starting", "reading")
    /\ task' = [task EXCEPT ![i] = "running"]
    /\ UNCHANGED <<holder, held, unseen, isLeader, flag, alive, stop>> /\ NoFault

\* Faulty variant: the holder is kept instead of a verdict about it.
ReadHolder(i) ==
    /\ Goes(i, "reading", "setting")
    /\ isLeader' = [isLeader EXCEPT ![i] = holder]
    /\ unseen' = [unseen EXCEPT ![i] = FALSE]
    /\ UNCHANGED <<leaseVars, flag, alive, stop>> /\ NoFault

\* Faulty variant: the channel is marked as seen once the flag is stored.
MarkWhenWaiting(i) ==
    /\ Goes(i, "setting", "waiting")
    /\ flag' = [flag EXCEPT ![i] = isLeader[i]]
    /\ unseen' = [unseen EXCEPT ![i] = FALSE]
    /\ UNCHANGED <<leaseVars, isLeader, alive, stop>> /\ NoFault

\* borrow_and_update: the value is read and marked as seen in one step.
ReadChannel(i) ==
    /\ Goes(i, "reading", "setting")
    /\ isLeader' = [isLeader EXCEPT ![i] = held[i]]
    /\ unseen' = [unseen EXCEPT ![i] = FALSE]
    /\ UNCHANGED <<leaseVars, flag, alive, stop>> /\ NoFault

SetState(i) ==
    /\ Goes(i, "setting", "waiting")
    /\ flag' = [flag EXCEPT ![i] = isLeader[i]]
    /\ UNCHANGED <<leaseVars, unseen, isLeader, alive, stop>> /\ NoFault

Changed(i) ==
    /\ unseen[i]
    /\ Goes(i, "waiting", "reading")
    /\ UNCHANGED <<leaseVars, unseen, isLeader, flag, alive, stop>> /\ NoFault

\* The loop ends: the channel is closed and its last value was seen, or
\* stop() was called.  The receiver is dropped.
LeaveLoop(i) ==
    /\ stop[i] \/ (task[i] = "ended" /\ ~unseen[i])
    /\ Goes(i, "waiting", "dropped")
    /\ UNCHANGED <<leaseVars, unseen, isLeader, flag, alive, stop>> /\ NoFault

\* Faulty variant: the flag is left as it was.
JoinOnly(i) ==
    /\ task[i] = "ended"
    /\ Goes(i, "dropped", "done")
    /\ UNCHANGED <<leaseVars, unseen, isLeader, flag, alive, stop>> /\ NoFault

\* The lease task has been joined; only now is the flag lowered.
JoinLeaseTask(i) ==
    /\ task[i] = "ended"
    /\ Goes(i, "dropped", "done")
    /\ flag' = [flag EXCEPT ![i] = FALSE]
    /\ UNCHANGED <<leaseVars, unseen, isLeader, alive, stop>> /\ NoFault

ElectionStep(i) ==
    /\ alive[i]
    /\ \/ StartWatching(i) \/ ReadChannel(i) \/ SetState(i)
       \/ Changed(i) \/ LeaveLoop(i) \/ JoinLeaseTask(i)

-----------------------------------------------------------------------------
(* The lease manager's task and the Lease object (external).               *)

Acquire(i) ==
    /\ alive[i] /\ task[i] = "running" /\ election[i] # "dropped"
    /\ holder \in {Nobody, i} /\ ~held[i]
    /\ holder' = i
    /\ held' = [held EXCEPT ![i] = TRUE]
    /\ unseen' = [unseen EXCEPT ![i] = TRUE]
    /\ UNCHANGED <<task, alive, stop, electionVars>> /\ NoFault

LoseLease(i) ==
    /\ Fault
    /\ alive[i] /\ task[i] = "running" /\ held[i]
    /\ holder' = IF holder = i THEN Nobody ELSE holder
    /\ held' = [held EXCEPT ![i] = FALSE]
    /\ unseen' = [unseen EXCEPT ![i] = TRUE]
    /\ UNCHANGED <<task, alive, stop, electionVars>>

\* Its receiver is gone: the task gives the lease up and ends.
Release(i) ==
    /\ alive[i] /\ task[i] = "running" /\ election[i] = "dropped"
    /\ holder' = IF holder = i THEN Nobody ELSE holder
    /\ held' = [held EXCEPT ![i] = FALSE]
    /\ task' = [task EXCEPT ![i] = "ended"]
    /\ UNCHANGED <<unseen, alive, stop, electionVars>> /\ NoFault

\* The task ends in an error or a panic and closes the channel.
TaskDies(i) ==
    /\ Fault
    /\ alive[i] /\ task[i] = "running"
    /\ task' = [task EXCEPT ![i] = "ended"]
    /\ UNCHANGED <<holder, held, unseen, alive, stop, electionVars>>

\* Nobody renews any more.
Expire(i) ==
    /\ holder = i /\ task[i] # "running"
    /\ holder' = Nobody
    /\ UNCHANGED <<task, held, unseen, alive, stop, electionVars>> /\ NoFault

-----------------------------------------------------------------------------
(* The process.                                                            *)

\* main's call of stop(), after its managers were joined or timed out.
Stop(i) ==
    /\ alive[i] /\ ~stop[i]
    /\ stop' = [stop EXCEPT ![i] = TRUE]
    /\ UNCHANGED <<leaseVars, unseen, alive, electionVars>> /\ NoFault

ProcessGone(i) ==
    /\ alive' = [alive EXCEPT ![i] = FALSE]
    /\ stop' = [stop EXCEPT ![i] = FALSE]
    /\ task' = [task EXCEPT ![i] = "absent"]
    /\ held' = [held EXCEPT ![i] = FALSE]
    /\ unseen' = [unseen EXCEPT ![i] = FALSE]
    /\ election' = [election EXCEPT ![i] = "starting"]
    /\ isLeader' = [isLeader EXCEPT ![i] = FALSE]
    /\ flag' = [flag EXCEPT ![i] = FALSE]
    /\ UNCHANGED holder

\* stop() has awaited the election task and main returns.
Exit(i) ==
    /\ alive[i] /\ stop[i] /\ election[i] = "done"
    /\ ProcessGone(i) /\ NoFault

Crash(i) ==
    /\ alive[i]
    /\ ProcessGone(i) /\ Fault

Restart(i) ==
    /\ Fault
    /\ ~alive[i]
    /\ alive' = [alive EXCEPT ![i] = TRUE]
    /\ UNCHANGED <<leaseVars, unseen, stop, electionVars>>

LeaseStep(i) == Acquire(i) \/ Release(i) \/ Expire(i)

Disturbance(i) ==
    \/ LoseLease(i) \/ TaskDies(i) \/ Crash(i) \/ Restart(i)
    \/ alive[i] /\ StartFails(i)

Next == \E i \in Instances :
    \/ ElectionStep(i) \/ LeaseStep(i) \/ Stop(i) \/ Exit(i) \/ Disturbance(i)

\* The election task is scheduled, the lease manager keeps trying to acquire,
\* releases when it is dropped, and a lease nobody renews expires.  Several
\* instances compete for a lease that comes and goes: acquiring needs strong
\* fairness.  Faults and shutdowns owe nothing.
Fairness == \A i \in Instances :
    /\ WF_vars(ElectionStep(i))
    /\ WF_vars(Release(i) \/ Expire(i))
    /\ SF_vars(Acquire(i))

Spec == Init /\ [][Next]_vars
FairSpec == Spec /\ Fairness

-----------------------------------------------------------------------------
(* Properties.                                                             *)

\* Every variable keeps its type.
TypeOK ==
    /\ holder \in Instances \cup {Nobody}
    /\ task \in [Instances -> {"absent", "running", "ended"}]
    /\ election \in [Instances -> {"starting", "reading", "setting", "waiting",
                                   "dropped", "done"}]
    /\ held \in [Instances -> BOOLEAN]
    /\ unseen \in [Instances -> BOOLEAN]
    /\ alive \in [Instances -> BOOLEAN]
    /\ stop \in [Instances -> BOOLEAN]
    /\ isLeader \in [Instances -> BOOLEAN]
    /\ flag \in [Instances -> BOOLEAN]
    /\ faults \in 0..MaxFaults

\* The code has yet to act on something it has been told: a change it has not
\* read or not stored, a closed channel, or a stop.
AboutToLower(i) ==
    \/ unseen[i]
    \/ election[i] = "reading"
    \/ election[i] = "setting" /\ ~isLeader[i]
    \/ election[i] = "dropped"
    \/ task[i] = "ended" /\ election[i] # "done"

\* An instance whose flag says leader without holding the lease (so that two
\* instances may collect) is about to lower it: no notification of the lease
\* task is lost between reading the channel, storing the flag and waiting, and
\* none survives the end of the election task.
StaleFlagIsTransient ==
    \A i \in Instances : flag[i] /\ holder # i => AboutToLower(i)

\* Once faults stop, an instance that stays up with its election task running
\* makes sure that the holder of the lease, and nobody else, acts as leader.
Failover ==
    (\E i \in Instances : <>[](alive[i] /\ ~stop[i] /\ election[i] # "done"))
        => <>[](\E i \in Instances :
                   holder = i /\ \A j \in Instances : flag[j] <=> j = i)

\* "Standby instances wait idle, ready for failover": an instance that runs and
\* was not told to stop still takes part in the election.
ReadyForFailover ==
    \A i \in Instances : alive[i] /\ ~stop[i] => election[i] # "done"
=============================================================================
