--------------------------- MODULE ClusterManager ---------------------------
(***************************************************************************)
(* The manager task of every configured cluster (src/cluster/manager.rs) in *)
(* one exporter process: they share the registry, its health flag, the      *)
(* leadership flag and the shutdown broadcast.                              *)
(*                                                                          *)
(* `pc` is the await point a task is suspended at; what the code does       *)
(* between two awaits is one action, except for the calls into the          *)
(* registry, whose map operations are the steps of MetricsRegistry.  The    *)
(* branch of select! that sweeps the timestamp cache changes none of this   *)
(* state and is left to the module of that cache.                           *)
(***************************************************************************)
EXTENDS MetricsRegistry

CONSTANTS
    MaxBackoff,       \* max_backoff, in seconds
    MaxErrors,        \* bound of consecutive_errors, which is compared with 3 only
    RecycleInterval   \* client_recycle_interval; 0 switches recycling off

ASSUME BackoffAssumption == MaxBackoff \in Nat \ {0}
ASSUME ErrorsAssumption  == MaxErrors \in Nat /\ MaxErrors >= 3
ASSUME RecycleAssumption == RecycleInterval \in Nat

VARIABLES
    leader,         \* LeadershipStatus.is_leader
    shutdown,       \* the shutdown broadcast has been sent
    pc,             \* per cluster: where the manager is suspended
    wasLeader,      \* was_leader
    errors,         \* consecutive_errors
    backoff,        \* current_backoff, in seconds
    cycles,         \* cycle_count
    latePublishes   \* history: updates stored since leadership was last lost

managerVars == <<pc, wasLeader, errors, backoff, cycles>>
processVars == <<leader, shutdown>>
vars == <<registryVars, managerVars, processVars, latePublishes>>

Places == {"unspawned", "select", "demoting", "collecting", "sampling",
           "publishing", "recycling", "backoff", "stopping", "stopped"}

Init ==
    /\ RegistryInit
    /\ leader \in BOOLEAN
    /\ shutdown = FALSE
    /\ pc = [c \in Clusters |-> "unspawned"]
    /\ wasLeader = [c \in Clusters |-> FALSE]
    /\ errors = [c \in Clusters |-> 0]
    /\ backoff = [c \in Clusters |-> 1]
    /\ cycles = [c \in Clusters |-> 0]
    /\ latePublishes = [c \in Clusters |-> 0]

Goes(c, from, to) ==
    /\ pc[c] = from
    /\ pc' = [pc EXCEPT ![c] = to]

NoRegistryCall == UNCHANGED <<mapVars, writerVars>>

-----------------------------------------------------------------------------
(* Start of the task.                                                      *)

\* ClusterManager::new fails: the task returns and nobody tries again.
FailToCreate(c) ==
    /\ Goes(c, "unspawned", "stopped")
    /\ UNCHANGED <<wasLeader, errors, backoff, cycles, healthy>>
    /\ NoRegistryCall

Start(c) ==
    /\ Goes(c, "unspawned", "select")
    /\ wasLeader' = [wasLeader EXCEPT ![c] = leader]
    /\ UNCHANGED <<errors, backoff, cycles, healthy>>
    /\ NoRegistryCall

-----------------------------------------------------------------------------
(* The interval's branch of select!.                                       *)

\* Faulty variant: the flag remembered from the last tick decides.
TickOnRememberedFlag(c) ==
    /\ leader \/ wasLeader[c]
    /\ Goes(c, "select", "collecting")
    /\ wasLeader' = [wasLeader EXCEPT ![c] = leader]
    /\ UNCHANGED <<errors, backoff, cycles, healthy>>
    /\ NoRegistryCall

TickAsLeader(c) ==
    /\ leader
    /\ Goes(c, "select", "collecting")
    /\ wasLeader' = [wasLeader EXCEPT ![c] = TRUE]
    /\ UNCHANGED <<errors, backoff, cycles, healthy>>
    /\ NoRegistryCall

\* Faulty variant: leadership lost is only recorded, the metrics stay.
TickForgetsToClear(c) ==
    /\ ~leader /\ wasLeader[c]
    /\ pc[c] = "select"
    /\ wasLeader' = [wasLeader EXCEPT ![c] = FALSE]
    /\ UNCHANGED <<pc, errors, backoff, cycles, healthy>>
    /\ NoRegistryCall

\* The first tick after leadership was lost.  A later tick on standby changes
\* nothing.
TickAfterLoss(c) ==
    /\ ~leader /\ wasLeader[c]
    /\ Goes(c, "select", "demoting")
    /\ BeginRemove(c)
    /\ UNCHANGED <<wasLeader, errors, backoff, cycles, healthy>>

EndDemotion(c) ==
    /\ writer[c] = "idle"
    /\ Goes(c, "demoting", "select")
    /\ wasLeader' = [wasLeader EXCEPT ![c] = FALSE]
    /\ UNCHANGED <<errors, backoff, cycles, healthy>>
    /\ NoRegistryCall

-----------------------------------------------------------------------------
(* collect_once, under the collection timeout.                             *)

\* collect_parallel returned the snapshot.
Collected(c) ==
    /\ Goes(c, "collecting", "sampling")
    /\ UNCHANGED <<wasLeader, errors, backoff, cycles, healthy>>
    /\ NoRegistryCall

\* compute_time_lags returned; from here to the end of the update there is no
\* await, so the timeout can no longer cut the cycle short.
Sampled(c) ==
    /\ Goes(c, "sampling", "publishing")
    /\ BeginUpdate(c)
    /\ UNCHANGED <<wasLeader, errors, backoff, cycles, healthy>>

\* The cycle succeeded.  Recycling, when it is due, blocks the loop.
Published(c) ==
    LET due == RecycleInterval > 0 /\ cycles[c] + 1 >= RecycleInterval IN
    /\ writer[c] = "idle"
    /\ Goes(c, "publishing", IF due THEN "recycling" ELSE "select")
    /\ errors' = [errors EXCEPT ![c] = 0]
    /\ backoff' = [backoff EXCEPT ![c] = 1]
    /\ cycles' = [cycles EXCEPT ![c] =
                    IF due \/ RecycleInterval = 0 THEN 0 ELSE @ + 1]
    /\ SetHealthy(TRUE)
    /\ UNCHANGED wasLeader
    /\ NoRegistryCall

Recycled(c) ==
    /\ Goes(c, "recycling", "select")
    /\ UNCHANGED <<wasLeader, errors, backoff, cycles, healthy>>
    /\ NoRegistryCall

OneMoreError(c) == IF errors[c] < MaxErrors THEN errors[c] + 1 ELSE MaxErrors

\* collect_parallel failed.
CollectionFails(c) ==
    /\ pc[c] = "collecting"
    /\ errors' = [errors EXCEPT ![c] = OneMoreError(c)]
    /\ \/ /\ OneMoreError(c) >= 3
          /\ SetHealthy(FALSE)
          /\ pc' = [pc EXCEPT ![c] = "backoff"]
       \/ /\ OneMoreError(c) < 3
          /\ pc' = [pc EXCEPT ![c] = "select"]
          /\ UNCHANGED healthy
    /\ UNCHANGED <<wasLeader, backoff, cycles>>
    /\ NoRegistryCall

\* Faulty variant: a timeout is reported at once, not after three in a row.
ReportFirstTimeout(c) ==
    /\ pc[c] \in {"collecting", "sampling"}
    /\ errors' = [errors EXCEPT ![c] = OneMoreError(c)]
    /\ SetHealthy(FALSE)
    /\ pc' = [pc EXCEPT ![c] = "select"]
    /\ UNCHANGED <<wasLeader, backoff, cycles>>
    /\ NoRegistryCall

\* The timeout drops collect_once at the await it is suspended at.  There is
\* no backoff on this path.
CollectionTimesOut(c) ==
    /\ pc[c] \in {"collecting", "sampling"}
    /\ errors' = [errors EXCEPT ![c] = OneMoreError(c)]
    /\ \/ OneMoreError(c) >= 3 /\ SetHealthy(FALSE)
       \/ OneMoreError(c) < 3 /\ UNCHANGED healthy
    /\ pc' = [pc EXCEPT ![c] = "select"]
    /\ UNCHANGED <<wasLeader, backoff, cycles>>
    /\ NoRegistryCall

\* Faulty variant: the doubled backoff is not capped.
WakeUncapped(c) ==
    /\ Goes(c, "backoff", "select")
    /\ backoff' = [backoff EXCEPT ![c] = @ * 2]
    /\ UNCHANGED <<wasLeader, errors, cycles, healthy>>
    /\ NoRegistryCall

\* The sleep of the smaller of current_backoff and max_backoff is over.
WakeUp(c) ==
    /\ Goes(c, "backoff", "select")
    /\ backoff' = [backoff EXCEPT ![c] =
                     IF @ * 2 <= MaxBackoff THEN @ * 2 ELSE MaxBackoff]
    /\ UNCHANGED <<wasLeader, errors, cycles, healthy>>
    /\ NoRegistryCall

-----------------------------------------------------------------------------
(* Shutdown.                                                               *)

\* Faulty variant: the loop ends without the clean-up after it.
StopWithoutCleanup(c) ==
    /\ shutdown
    /\ Goes(c, "select", "stopped")
    /\ UNCHANGED <<wasLeader, errors, backoff, cycles, healthy>>
    /\ NoRegistryCall

ReceiveShutdown(c) ==
    /\ shutdown
    /\ Goes(c, "select", "stopping")
    /\ BeginRemove(c)
    /\ UNCHANGED <<wasLeader, errors, backoff, cycles, healthy>>

Stopped(c) ==
    /\ writer[c] = "idle"
    /\ Goes(c, "stopping", "stopped")
    /\ UNCHANGED <<wasLeader, errors, backoff, cycles, healthy>>
    /\ NoRegistryCall

-----------------------------------------------------------------------------
(* The next map operation of the registry call a manager is in.            *)

RegistryStep(c) ==
    /\ WriterStep(c)
    /\ latePublishes' = IF writer[c] = "insert_metrics" /\ ~leader
                        THEN [latePublishes EXCEPT ![c] = @ + 1]
                        ELSE latePublishes
    /\ UNCHANGED <<healthy, managerVars>>

ManagerStep(c) ==
    \/ FailToCreate(c) \/ Start(c)
    \/ TickAsLeader(c) \/ TickAfterLoss(c) \/ EndDemotion(c)
    \/ Collected(c) \/ Sampled(c) \/ Published(c) \/ Recycled(c)
    \/ CollectionFails(c) \/ CollectionTimesOut(c) \/ WakeUp(c)
    \/ ReceiveShutdown(c) \/ Stopped(c)

(* What happens to the process.                                            *)

GainLeadership ==
    /\ ~leader
    /\ leader' = TRUE
    /\ UNCHANGED <<shutdown, latePublishes>>

LoseLeadership ==
    /\ leader
    /\ leader' = FALSE
    /\ latePublishes' = [c \in Clusters |-> 0]
    /\ UNCHANGED shutdown

SignalShutdown ==
    /\ ~shutdown
    /\ shutdown' = TRUE
    /\ UNCHANGED <<leader, latePublishes>>

ProcessEvent ==
    /\ GainLeadership \/ LoseLeadership \/ SignalShutdown
    /\ UNCHANGED <<registryVars, managerVars>>

ManagersNext ==
    \/ /\ \E c \in Clusters : ManagerStep(c)
       /\ UNCHANGED <<now, scrapeVars, processVars, latePublishes>>
    \/ /\ \E c \in Clusters : RegistryStep(c)
       /\ UNCHANGED <<now, scrapeVars, processVars>>
    \/ ProcessEvent

ManagersSpec == Init /\ [][ManagersNext]_vars

-----------------------------------------------------------------------------
(* Scheduling.  Every await of the loop ends: a collection by its timeout, a *)
(* backoff by its timer, a recycling by the blocking pool.  tokio's select!  *)
(* polls its branches in random order, so a branch that is ready again and   *)
(* again (the shutdown signal, between two cycles) is taken some day even if *)
(* the interval is ready every time.                                         *)

Run(c) ==
    \/ ManagerStep(c) /\ UNCHANGED <<now, scrapeVars, processVars, latePublishes>>
    \/ RegistryStep(c) /\ UNCHANGED <<now, scrapeVars, processVars>>

TakeShutdown(c) ==
    /\ ReceiveShutdown(c)
    /\ UNCHANGED <<now, scrapeVars, processVars, latePublishes>>

Fairness ==
    \A c \in Clusters : WF_vars(Run(c)) /\ SF_vars(TakeShutdown(c))

FairManagersSpec == ManagersSpec /\ Fairness

-----------------------------------------------------------------------------
(* Properties.                                                              *)

\* Every variable keeps its type, and the backoff its cap.
TypeOK ==
    /\ RegistryTypeOK
    /\ leader \in BOOLEAN
    /\ shutdown \in BOOLEAN
    /\ pc \in [Clusters -> Places]
    /\ wasLeader \in [Clusters -> BOOLEAN]
    /\ errors \in [Clusters -> 0..MaxErrors]
    /\ backoff \in [Clusters -> 1..MaxBackoff]
    /\ cycles \in [Clusters -> Nat]
    /\ latePublishes \in [Clusters -> Nat]

\* The managers do to the registry only what ClusterExport promises: a cluster
\* exports only after it was activated as leader, a loss of leadership is
\* followed by at most one more update of it, and a cluster that retired or
\* stopped exports nothing, the last one for ever.  A cluster has retired or
\* stopped for the readers of the registry when `metrics` loses its key.
Withdrawn(c) == writer[c] # "remove_metrics"

PhaseOf(c) ==
    IF pc[c] = "stopped" \/ (pc[c] = "stopping" /\ Withdrawn(c))
    THEN "stopped"
    ELSE IF wasLeader[c] /\ ~(pc[c] = "demoting" /\ Withdrawn(c))
         THEN "active"
         ELSE "standby"

Export == INSTANCE ClusterExport WITH
    phase    <- [c \in Clusters |-> PhaseOf(c)],
    exported <- [c \in Clusters |-> metrics[c] # Absent],
    late     <- latePublishes

ExportPromise == Export!Spec

\* The process reports itself unhealthy only on account of a manager whose last
\* three cycles or more failed, without a success in between.  All managers
\* write the one flag, each from its own counter.
UnhealthyForAReason ==
    ~healthy => \E c \in Clusters : errors[c] >= 3

\* A process that stays on standby ends up with nothing in the registry, however
\* the loss of leadership fell into the cycles of its managers.
StandbyIsCleared ==
    <>[]~leader => <>[](\A c \in Clusters : metrics[c] = Absent)

\* After the shutdown signal every manager ends and its cluster is withdrawn,
\* even if its collections fail and it leads and loses leadership for ever.
ShutdownCompletes ==
    shutdown ~> [](\A c \in Clusters : pc[c] = "stopped" /\ metrics[c] = Absent)
=============================================================================
