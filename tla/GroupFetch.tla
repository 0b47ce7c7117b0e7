----------------------------- MODULE GroupFetch -----------------------------
(***************************************************************************)
(* The fan-out of a cycle's ListConsumerGroupOffsets calls                  *)
(* (fetch_all_group_offsets_batched in src/collector/offset_collector.rs,   *)
(* retry_with_backoff in src/retry.rs) on one cluster's blocking threads,   *)
(* next to the recycling of the Kafka clients (src/cluster/manager.rs).     *)
(*                                                                          *)
(* Every group has a task.  Each of its attempts takes a permit of the      *)
(* cycle's semaphore, makes the call on a blocking thread and gives the     *)
(* permit back, before the backoff too.  A cycle that times out drops the   *)
(* handles of its tasks, which does not stop them: they go on, with their   *)
(* own semaphore, beside the tasks of the cycles that follow.               *)
(***************************************************************************)
EXTENDS Naturals, FiniteSets

CONSTANTS
    Groups,              \* the groups of the cluster the filters let through
    Rounds,              \* bound: fan-outs whose tasks are under way at once
    MaxConcurrent,       \* max_concurrent_groups
    MaxRetries,          \* group_fetch_retries
    MaxBlockingThreads   \* what max_blocking_threads leaves for these calls

ASSUME GroupsAssumption  == IsFiniteSet(Groups) /\ Groups # {}
ASSUME LimitsAssumption  == /\ MaxConcurrent \in Nat \ {0}
                            /\ MaxRetries \in Nat
                            /\ MaxBlockingThreads \in Nat \ {0}

VARIABLES
    place,     \* where the manager is
    round,     \* the fan-out the manager waits for, or waited for last
    task,      \* per round and group: where its task is
    attempt,   \* per round and group: number of the attempt
    permits,   \* per round: free permits of its semaphore
    merged     \* the groups the cycle has offsets of, once it has joined

fetchVars == <<task, attempt, permits>>
vars == <<place, round, fetchVars, merged>>

Tasks == Rounds \X Groups

MaxAttempts == MaxRetries + 1

EndedStates == {"none", "fetched", "refused", "exhausted"}
TaskStates  == EndedStates \cup {"waiting", "queued", "calling", "sleeping"}

Ended(t) == task[t] \in EndedStates

Init ==
    /\ place = "elsewhere"
    /\ round \in Rounds
    /\ task = [t \in Tasks |-> "none"]
    /\ attempt = [t \in Tasks |-> 0]
    /\ permits = [r \in Rounds |-> 0]
    /\ merged = {}

ManagerGoes(from, to) ==
    /\ place = from
    /\ place' = to

TaskGoes(t, from, to) ==
    /\ task[t] = from
    /\ task' = [task EXCEPT ![t] = to]

TakePermit(t)   == permits' = [permits EXCEPT ![t[1]] = @ - 1]
ReturnPermit(t) == permits' = [permits EXCEPT ![t[1]] = @ + 1]

BusyThreads ==
    Cardinality({t \in Tasks : task[t] = "calling"})
        + (IF place = "replacing" THEN 1 ELSE 0)

ThreadFree == BusyThreads < MaxBlockingThreads

-----------------------------------------------------------------------------
(* The manager.                                                            *)

\* A cycle has come to the group offsets: a new semaphore, a task per group.
BeginRound ==
    /\ ManagerGoes("elsewhere", "fetching")
    /\ \E r \in Rounds :
          /\ \A g \in Groups : Ended(<<r, g>>)
          /\ round' = r
          /\ task' = [t \in Tasks |-> IF t[1] = r THEN "waiting" ELSE task[t]]
          /\ attempt' = [t \in Tasks |-> IF t[1] = r THEN 1 ELSE attempt[t]]
          /\ permits' = [permits EXCEPT ![r] = MaxConcurrent]
    /\ UNCHANGED merged

\* Faulty variant: the first finished task ends the wait for all.
JoinAny ==
    /\ ManagerGoes("fetching", "fetched")
    /\ \E g \in Groups : Ended(<<round, g>>)
    /\ merged' = {g \in Groups : task[<<round, g>>] = "fetched"}
    /\ UNCHANGED <<round, fetchVars>>

\* join_all: a group whose fetch failed is logged and left out.
JoinAll ==
    /\ ManagerGoes("fetching", "fetched")
    /\ \A g \in Groups : Ended(<<round, g>>)
    /\ merged' = {g \in Groups : task[<<round, g>>] = "fetched"}
    /\ UNCHANGED <<round, fetchVars>>

\* The rest of the cycle succeeds; the clients may be due for recycling.
CycleSucceeds ==
    /\ \/ ManagerGoes("fetched", "elsewhere")
       \/ ManagerGoes("fetched", "recycling")
    /\ merged' = {}
    /\ UNCHANGED <<round, fetchVars>>

\* The collection timeout drops the cycle and the handles, not the tasks.
CycleTimesOut ==
    /\ \/ ManagerGoes("fetching", "elsewhere")
       \/ ManagerGoes("fetched", "elsewhere")
    /\ merged' = {}
    /\ UNCHANGED <<round, fetchVars>>

\* recycle() is a blocking call as well and waits for a thread like the others.
BeginReplacing ==
    /\ ThreadFree
    /\ ManagerGoes("recycling", "replacing")
    /\ UNCHANGED <<round, fetchVars, merged>>

\* The clients are replaced, or the old ones kept if that fails.
EndReplacing ==
    /\ ManagerGoes("replacing", "elsewhere")
    /\ UNCHANGED <<round, fetchVars, merged>>

ManagerStep ==
    \/ BeginRound \/ JoinAll \/ CycleSucceeds \/ CycleTimesOut
    \/ BeginReplacing \/ EndReplacing

-----------------------------------------------------------------------------
(* The task of a group.                                                    *)

Acquire(t) ==
    /\ permits[t[1]] > 0
    /\ TaskGoes(t, "waiting", "queued")
    /\ TakePermit(t)
    /\ UNCHANGED attempt

StartCall(t) ==
    /\ ThreadFree
    /\ TaskGoes(t, "queued", "calling")
    /\ UNCHANGED <<attempt, permits>>

CallSucceeds(t) ==
    /\ TaskGoes(t, "calling", "fetched")
    /\ ReturnPermit(t)
    /\ UNCHANGED attempt

\* An error that is not retriable, a panic of the blocking task included.
CallRefused(t) ==
    /\ TaskGoes(t, "calling", "refused")
    /\ ReturnPermit(t)
    /\ UNCHANGED attempt

\* Faulty variant: the error returns past the code that gives the permit back.
CallFailsKeepingPermit(t) ==
    /\ TaskGoes(t, "calling", IF attempt[t] = MaxAttempts THEN "exhausted"
                              ELSE "sleeping")
    /\ UNCHANGED <<attempt, permits>>

\* Faulty variant: only the retries are counted, not the first attempt.
CallFailsOnceMore(t) ==
    /\ TaskGoes(t, "calling", IF attempt[t] > MaxAttempts THEN "exhausted"
                              ELSE "sleeping")
    /\ ReturnPermit(t)
    /\ UNCHANGED attempt

\* A retriable error, a timeout of the call included.
CallFails(t) ==
    /\ TaskGoes(t, "calling", IF attempt[t] = MaxAttempts THEN "exhausted"
                              ELSE "sleeping")
    /\ ReturnPermit(t)
    /\ UNCHANGED attempt

\* Faulty variant: the attempts are never counted.
WakeUncounted(t) ==
    /\ TaskGoes(t, "sleeping", "waiting")
    /\ UNCHANGED <<attempt, permits>>

\* The backoff is over.
WakeUp(t) ==
    /\ TaskGoes(t, "sleeping", "waiting")
    /\ attempt' = [attempt EXCEPT ![t] = @ + 1]
    /\ UNCHANGED permits

TaskStep(t) ==
    /\ \/ Acquire(t) \/ StartCall(t)
       \/ CallSucceeds(t) \/ CallRefused(t) \/ CallFails(t) \/ WakeUp(t)
    /\ UNCHANGED <<place, round, merged>>

Next == ManagerStep \/ \E t \in Tasks : TaskStep(t)

Spec == Init /\ [][Next]_vars

\* A call ends by its own timeout, a backoff by its timer, and the manager
\* goes on when what it waits for is there.  The collection timeout owes
\* nothing.  Tokio hands out blocking threads in the order they were asked for,
\* so no round is passed over for ever; within a round any order will do.
RoundStep(r)  == \E g \in Groups : TaskStep(<<r, g>>)
RoundCalls(r) == \E g \in Groups :
                    StartCall(<<r, g>>) /\ UNCHANGED <<place, round, merged>>

Fairness ==
    /\ WF_vars(JoinAll) /\ WF_vars(CycleSucceeds) /\ WF_vars(EndReplacing)
    /\ SF_vars(BeginReplacing)
    /\ \A r \in Rounds : WF_vars(RoundStep(r)) /\ SF_vars(RoundCalls(r))

FairSpec == Spec /\ Fairness

-----------------------------------------------------------------------------
(* Properties.                                                             *)

\* Every variable keeps its type; no attempt beyond the last one is made.
TypeOK ==
    /\ place \in {"elsewhere", "fetching", "fetched", "recycling", "replacing"}
    /\ round \in Rounds
    /\ task \in [Tasks -> TaskStates]
    /\ attempt \in [Tasks -> 0..MaxAttempts]
    /\ permits \in [Rounds -> 0..MaxConcurrent]
    /\ merged \in SUBSET Groups

Calling(r) == {g \in Groups : task[<<r, g>>] \in {"queued", "calling"}}

\* A permit is taken exactly by the tasks whose call is queued or under way, also
\* in rounds nobody waits for: no end of an attempt leaks or doubles one, and a
\* sleeping task holds none.
PermitsAccounted ==
    \A r \in Rounds :
        (\E g \in Groups : ~Ended(<<r, g>>)) =>
            permits[r] + Cardinality(Calling(r)) = MaxConcurrent

\* A group is missing from the snapshot only because an error said that another
\* attempt is no use or because all attempts were used; never because its fetch
\* was still under way, or was mixed up with a fetch of an earlier round.
MissingForAReason ==
    place = "fetched" =>
        \A g \in Groups \ merged :
            \/ task[<<round, g>>] = "refused"
            \/ task[<<round, g>>] = "exhausted" /\ attempt[<<round, g>>] = MaxAttempts

\* Every fetch comes to an end, also when the cycle that started it is long gone
\* and others compete for the blocking threads.
EveryFetchEnds == \A t \in Tasks : task[t] = "waiting" ~> Ended(t)

\* Without any help of the collection timeout a manager never waits for ever, be
\* it for the fetches of its cycle or for the recycling.
ManagerComesBack ==
    place \in {"fetching", "recycling"} ~> place = "elsewhere"
=============================================================================
