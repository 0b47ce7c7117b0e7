-------------------------- MODULE ExporterProcess --------------------------
(***************************************************************************)
(* One exporter process in time (src/main.rs): configuration, start, the     *)
(* HTTP server, the OpenTelemetry exporter, the shutdown, and the schedule   *)
(* of a manager's loop (ClusterManager::run in src/cluster/manager.rs), with  *)
(* the age of what it has published.                                         *)
(*                                                                          *)
(* Time is discrete.  A step that waits for nothing is taken before time     *)
(* goes on; a collection, a backoff, a recycling, an open connection and, at *)
(* the end, the election's task and blocking calls are what takes time.      *)
(* What is inside a collection is the subject of CollectionCycle, what       *)
(* several managers do to the registry of ClusterManager, what the           *)
(* election's task does of LeaderElection.                                   *)
(***************************************************************************)
EXTENDS Integers

CONSTANTS
    PollInterval,       \* poll_interval
    CollectionTimeout,  \* collection_timeout
    KafkaTimeout,       \* kafka_timeout
    MaxBackoff,         \* max_backoff
    JoinTimeout,        \* the ten seconds main waits for the managers
    LongestBlock,       \* longest blocking task: two requests of kafka_timeout, or
                        \* one of fetch_timeout or offset_fetch_timeout
    MaxLate             \* bound: how far the schedule is seen to lag

\* collection_timeout is poll_interval less five seconds, or, for short ones, not
\* more than poll_interval.
ASSUME TimesAssumption ==
    /\ {PollInterval, CollectionTimeout, KafkaTimeout, MaxBackoff, JoinTimeout}
          \subseteq Nat \ {0}
    /\ MaxLate \in Nat
    /\ LongestBlock \in Nat /\ LongestBlock >= 2 * KafkaTimeout
    /\ CollectionTimeout <= PollInterval

VARIABLES
    main,       \* where main is
    settings,   \* what it goes on with of the configuration
    leader,     \* LeadershipStatus.is_leader
    election,   \* the election's task
    shutdown,   \* the shutdown broadcast has been sent
    server,     \* the HTTP server's task
    connected,  \* a client keeps a connection open
    otel,       \* the OpenTelemetry exporter's task
    joining,    \* time main has waited for the manager
    left,       \* time the blocking calls take that the runtime waits for
    stopping,   \* history: time since the signal, but for open connections and the
                \* election's task
    manager,    \* where the manager's task is
    detached,   \* tasks of a timed-out cycle are still at work
    due,        \* time until the next tick of its interval, if positive
    spent,      \* time spent at its present await
    wasLeader,  \* was_leader
    errors,     \* consecutive_errors, up to the three that count
    backoff,    \* current_backoff
    age,        \* age of its metrics in the registry
    slow        \* history: since they were stored an await of the loop took longer than
                \* a collection may

taskVars    == <<server, connected, otel>>
mainVars    == <<main, settings, shutdown, joining, left, stopping>>
leaderVars  == <<leader, election>>
loopVars    == <<manager, detached, due, spent, wasLeader, errors, backoff, slow>>
vars == <<mainVars, leaderVars, taskVars, loopVars, age>>

Larger(a, b)   == IF a > b THEN a ELSE b
Smaller(a, b)  == IF a < b THEN a ELSE b
LongestCycle   == KafkaTimeout + Larger(CollectionTimeout, KafkaTimeout)
LongestStop    == JoinTimeout + LongestBlock

\* Faulty variant: no slack for a failed cycle.
ThresholdWithoutSlack(given) == IF given > 0 THEN given ELSE 2 * PollInterval

\* staleness_threshold: three poll intervals, if it is not given.
Threshold(given) == IF given > 0 THEN given ELSE 3 * PollInterval
Oldest == Threshold(0) + 1
Absent == -1

-----------------------------------------------------------------------------
(* Configuration.                                                          *)

Unset == -1

\* A flag for what is checked and has no effect in this module: cluster for the
\* names, servers and patterns, fetchTimeout and minRate for their ranges.
Configs ==
    [clusters : 0..1, cluster : BOOLEAN, poll : {0, PollInterval},
     staleness : {Unset, 0, 2 * PollInterval}, groups : 0..1, watermarks : 0..1,
     sampling : {"off", "message", "rate"}, fetches : 0..1, fetchTimeout : BOOLEAN,
     samples : 1..2, minRate : BOOLEAN,
     threads : {0, 5, 6}, cacheTTL : 0..1, host : BOOLEAN, election : BOOLEAN]

\* Faulty variant: an interval of zero is let through.
AnyInterval(c) == c.poll >= 0

\* A poll interval of zero would busy-loop the collector.
IntervalAccepted(c) == c.poll > 0

\* Config::validate.
Validated(c) ==
    /\ c.clusters > 0 /\ c.cluster
    /\ IntervalAccepted(c)
    /\ c.staleness # 0
    /\ c.groups > 0 /\ c.watermarks > 0
    /\ c.sampling = "message" => c.fetches > 0 /\ c.fetchTimeout
    /\ c.sampling = "rate" => c.samples >= 2 /\ c.minRate
    /\ c.threads >= c.groups + (IF c.sampling = "message" THEN c.fetches ELSE 0) + 4

\* What matters from here on.
Settings(c) ==
    [poll |-> c.poll, threshold |-> Larger(c.staleness, 0), threads |-> c.threads,
     cacheTTL |-> c.cacheTTL, host |-> c.host, election |-> c.election]

Init ==
    /\ main = "loading"
    /\ settings = <<>>
    /\ leader = FALSE /\ election = "none"
    /\ shutdown = FALSE
    /\ server = "none" /\ connected = FALSE /\ otel = "none"
    /\ joining = 0 /\ left = 0 /\ stopping = 0
    /\ manager = "none" /\ detached = FALSE
    /\ due = 0 /\ spent = 0
    /\ wasLeader = FALSE
    /\ errors = 0 /\ backoff = 1
    /\ age = Absent
    /\ slow = FALSE

Over  == main \in {"exited", "failed", "panicked"}
MainGoes(from, to) == main = from /\ main' = to

-----------------------------------------------------------------------------
(* Start.                                                                  *)

\* Config::load: the file is read, parsed and validated.
LoadConfig ==
    /\ main = "loading"
    /\ \E c \in Configs :
          IF Validated(c) THEN MainGoes("loading", "building") /\ settings' = Settings(c)
                          ELSE MainGoes("loading", "failed") /\ UNCHANGED settings
    /\ UNCHANGED <<leaderVars, shutdown, joining, left, stopping, taskVars, loopVars, age>>

\* The runtime; its builder panics when it is given no blocking threads.
BuildRuntime ==
    /\ MainGoes("building", IF settings.threads = 0 THEN "panicked" ELSE "electing")
    /\ UNCHANGED <<settings, leaderVars, shutdown, joining, left, stopping, taskVars,
                   loopVars, age>>

\* create_leadership_provider; without an election this process always leads.
StartLeadership ==
    /\ MainGoes("electing", "spawning")
    /\ leader' = ~settings.election
    /\ election' = IF settings.election THEN "running" ELSE "none"
    /\ UNCHANGED <<settings, shutdown, joining, left, stopping, taskVars, loopVars, age>>

StartLeadershipFails ==
    /\ MainGoes("electing", "failed")
    /\ settings.election
    /\ UNCHANGED <<settings, leaderVars, shutdown, joining, left, stopping, taskVars,
                   loopVars, age>>

SpawnManager ==
    /\ MainGoes("spawning", "listening")
    /\ manager' = "creating"
    /\ UNCHANGED <<settings, leaderVars, shutdown, joining, left, stopping, taskVars,
                   detached, due, spent, wasLeader, errors, backoff, slow, age>>

\* HttpServer::new panics on an address that cannot be parsed, with the managers
\* spawned already.  The exporter of OpenTelemetry is a task of its own.
SpawnServer ==
    /\ main = "listening"
    /\ IF settings.host
       THEN /\ MainGoes("listening", "running")
            /\ server' = "binding"
            /\ otel' \in {"off", "starting"}
       ELSE MainGoes("listening", "panicked") /\ UNCHANGED <<server, otel>>
    /\ UNCHANGED <<settings, leaderVars, shutdown, joining, left, stopping, connected,
                   loopVars, age>>

\* HttpServer::run.  A port that cannot be bound is logged, the process goes on.
ServerBinds ==
    /\ server = "binding"
    /\ server' \in {"serving", "unbound"}
    /\ UNCHANGED <<connected, otel>>

Connects ==
    /\ server = "serving" /\ ~shutdown
    /\ ~connected
    /\ connected' = TRUE
    /\ UNCHANGED <<server, otel>>

Disconnects ==
    /\ connected
    /\ connected' = FALSE
    /\ UNCHANGED <<server, otel>>

\* run_otel_exporter, init_meter_provider.
OtelStarts ==
    /\ otel = "starting"
    /\ otel' \in {"exporting", "off"}
    /\ UNCHANGED <<server, connected>>

-----------------------------------------------------------------------------
(* Shutdown.                                                               *)

Signal ==
    /\ MainGoes("running", "draining")
    /\ shutdown' = TRUE
    /\ UNCHANGED <<settings, leaderVars, joining, left, stopping, taskVars, loopVars, age>>

\* Graceful shutdown waits for the connections there are, without a limit.
ServerCloses ==
    /\ shutdown
    /\ server = "serving" /\ ~connected
    /\ server' = "closed"
    /\ UNCHANGED <<connected, otel>>

\* Nobody waits for this task.
OtelStops ==
    /\ shutdown
    /\ otel = "exporting"
    /\ otel' = "off"
    /\ UNCHANGED <<server, connected>>

ServerTask == ServerBinds \/ ServerCloses
OtelTask   == OtelStarts \/ OtelStops

TaskStep ==
    /\ ~Over
    /\ ServerTask \/ OtelTask \/ Connects \/ Disconnects
    /\ UNCHANGED <<mainVars, leaderVars, loopVars, age>>

\* Faulty variant: the managers are waited for while the server still closes.
ServerJoinedEarly ==
    /\ MainGoes("draining", "joining")
    /\ UNCHANGED <<settings, leaderVars, shutdown, joining, left, stopping, taskVars,
                   loopVars, age>>

\* server_handle.await.
ServerJoined ==
    /\ server \in {"closed", "unbound"}
    /\ MainGoes("draining", "joining")
    /\ UNCHANGED <<settings, leaderVars, shutdown, joining, left, stopping, taskVars,
                   loopVars, age>>

ManagerJoined ==
    /\ manager \in {"ended", "panicked"}
    /\ MainGoes("joining", "releasing")
    /\ UNCHANGED <<settings, leaderVars, shutdown, joining, left, stopping, taskVars,
                   loopVars, age>>

JoinTimesOut ==
    /\ joining >= JoinTimeout
    /\ MainGoes("joining", "releasing")
    /\ UNCHANGED <<settings, leaderVars, shutdown, joining, left, stopping, taskVars,
                   loopVars, age>>

\* leadership_provider.stop has waited for the election's task, without a limit; at
\* the end of main the runtime is dropped, and with it every task, but for the
\* blocking calls under way, which it waits for.
Leave ==
    /\ election # "running"
    /\ MainGoes("releasing", "dropping")
    /\ left' \in 0..(IF manager \in {"collecting", "recycling"} \/ detached
                     THEN LongestBlock ELSE 0)
    /\ manager' = "ended" /\ detached' = FALSE /\ spent' = 0
    /\ otel' = "off"
    /\ age' = Absent /\ slow' = FALSE
    /\ UNCHANGED <<settings, leaderVars, shutdown, joining, stopping, server, connected,
                   due, wasLeader, errors, backoff>>

Exit ==
    /\ left = 0
    /\ MainGoes("dropping", "exited")
    /\ UNCHANGED <<settings, leaderVars, shutdown, joining, left, stopping, taskVars,
                   loopVars, age>>

MainStep ==
    \/ LoadConfig \/ BuildRuntime \/ StartLeadership \/ StartLeadershipFails
    \/ SpawnManager \/ SpawnServer
    \/ Signal \/ ServerJoined \/ ManagerJoined \/ JoinTimesOut \/ Leave \/ Exit

-----------------------------------------------------------------------------
(* The manager's loop.                                                     *)

Goes(from, to) == manager = from /\ manager' = to /\ spent' = 0

\* ClusterManager::new, and the intervals of run, which panic on a period of
\* zero: cache_cleanup_interval is twice cache_ttl.
Create ==
    /\ manager = "creating"
    /\ IF settings.poll = 0 \/ settings.cacheTTL = 0
       THEN Goes("creating", "panicked")
       ELSE Goes("creating", "select")
    /\ wasLeader' = leader
    /\ UNCHANGED <<detached, due, errors, backoff, slow, age>>

CreateFails ==
    /\ Goes("creating", "ended")
    /\ UNCHANGED <<detached, due, wasLeader, errors, backoff, slow, age>>

\* Missed ticks are made up for, one after the other.
NextDue == due + PollInterval

TickAsLeader ==
    /\ leader
    /\ due <= 0
    /\ Goes("select", "collecting")
    /\ due' = NextDue
    /\ wasLeader' = TRUE
    /\ UNCHANGED <<detached, errors, backoff, slow, age>>

TickOnStandby ==
    /\ ~leader
    /\ due <= 0
    /\ Goes("select", "select")
    /\ due' = NextDue
    /\ wasLeader' = FALSE
    /\ age' = IF wasLeader THEN Absent ELSE age
    /\ slow' = IF wasLeader THEN FALSE ELSE slow
    /\ UNCHANGED <<detached, errors, backoff>>

\* The update stamps the metrics with the time they are stored; recycling is due
\* at some cycles.
Succeeds ==
    /\ \/ Goes("collecting", "select") \/ Goes("collecting", "recycling")
    /\ errors' = 0
    /\ backoff' = 1
    /\ age' = 0
    /\ slow' = FALSE
    /\ UNCHANGED <<detached, due, wasLeader>>

Took(longest) == slow' = (slow \/ spent > longest)

Recycled ==
    /\ Goes("recycling", "select")
    /\ Took(CollectionTimeout)
    /\ UNCHANGED <<detached, due, wasLeader, errors, backoff, age>>

OneMoreError == Smaller(errors + 1, 3)

\* From the third error in a row on, the next cycle is put off.
Fails ==
    /\ Goes("collecting", IF OneMoreError >= 3 THEN "backoff" ELSE "select")
    /\ errors' = OneMoreError
    /\ Took(CollectionTimeout)
    /\ UNCHANGED <<detached, due, wasLeader, backoff, age>>

\* What the cycle has spawned goes on without it.
TimesOut ==
    /\ spent >= CollectionTimeout
    /\ Goes("collecting", "select")
    /\ detached' \in BOOLEAN /\ (detached => detached')
    /\ errors' = OneMoreError
    /\ Took(CollectionTimeout)
    /\ UNCHANGED <<due, wasLeader, backoff, age>>

\* Faulty variant: the cap is forgotten.
DoubledUncapped == backoff * 2

Doubled == Smaller(backoff * 2, MaxBackoff)

WakeUp ==
    /\ spent >= Smaller(backoff, MaxBackoff)
    /\ Goes("backoff", "select")
    /\ backoff' = Doubled
    /\ UNCHANGED <<detached, due, wasLeader, errors, slow, age>>

ReceiveShutdown ==
    /\ shutdown
    /\ Goes("select", "ended")
    /\ age' = Absent
    /\ slow' = FALSE
    /\ UNCHANGED <<detached, due, wasLeader, errors, backoff>>

DetachedEnd ==
    /\ detached
    /\ detached' = FALSE
    /\ UNCHANGED <<manager, due, spent, wasLeader, errors, backoff, slow, age>>

LoopStep ==
    \/ Create \/ CreateFails \/ TickAsLeader \/ TickOnStandby \/ Succeeds \/ Recycled
    \/ Fails \/ TimesOut \/ WakeUp \/ ReceiveShutdown \/ DetachedEnd

ManagerStep ==
    /\ ~Over
    /\ LoopStep
    /\ UNCHANGED <<mainVars, leaderVars, taskVars>>

LeadershipMoves ==
    /\ leader' = ~leader
    /\ UNCHANGED election

\* It is told to stop, it has lost its lease manager, or it never got one.
ElectionEnds ==
    /\ election' = "ended"
    /\ leader' = FALSE

ElectionStep ==
    /\ ~Over
    /\ election = "running"
    /\ LeadershipMoves \/ ElectionEnds
    /\ UNCHANGED <<mainVars, taskVars, loopVars, age>>

-----------------------------------------------------------------------------
(* Time.                                                                   *)

\* Nothing that waits for time only is ready to go on.
MainWaits ==
    \/ main = "running"
    \/ main = "draining" /\ server \notin {"closed", "unbound"}
    \/ /\ main = "joining" /\ joining < JoinTimeout
       /\ manager \notin {"ended", "panicked"}
    \/ main = "releasing" /\ election = "running"
    \/ main = "dropping" /\ left > 0

TasksWait ==
    /\ server # "binding" /\ otel # "starting"
    /\ shutdown => otel # "exporting" /\ ~(server = "serving" /\ ~connected)

ManagerWaits ==
    \/ manager \in {"ended", "panicked"}
    \/ manager = "select" /\ due > 0 /\ ~shutdown
    \/ manager = "collecting" /\ spent < LongestCycle
    \/ manager = "recycling" /\ spent < KafkaTimeout
    \/ manager = "backoff" /\ spent < Smaller(backoff, MaxBackoff)

Tick ==
    /\ MainWaits /\ TasksWait /\ ManagerWaits
    /\ due' = IF manager \in {"ended", "panicked"} THEN due ELSE Larger(due - 1, -MaxLate)
    /\ spent' = IF manager \in {"collecting", "recycling", "backoff"} THEN spent + 1 ELSE 0
    /\ age' = IF age = Absent THEN Absent ELSE Smaller(age + 1, Oldest)
    /\ joining' = IF main = "joining" THEN joining + 1 ELSE joining
    /\ left' = IF main = "dropping" THEN left - 1 ELSE left
    /\ stopping' = IF shutdown /\ ~connected /\ main # "releasing"
                   THEN Smaller(stopping + 1, LongestStop + 1) ELSE stopping
    /\ UNCHANGED <<main, settings, leaderVars, shutdown, taskVars,
                   manager, detached, wasLeader, errors, backoff, slow>>

Next ==
    \/ MainStep \/ TaskStep \/ ManagerStep \/ ElectionStep \/ Tick
    \/ Over /\ UNCHANGED vars

Spec == Init /\ [][Next]_vars

-----------------------------------------------------------------------------
(* What can be seen from outside.                                          *)

Stored == age # Absent
Fresh  == Stored /\ age <= Threshold(settings.threshold)

ReadyAnswered == server = "serving" /\ leader /\ Stored
OtelExported  == otel = "exporting" /\ Stored

-----------------------------------------------------------------------------
(* Properties.                                                             *)

\* Every variable keeps its type.
TypeOK ==
    /\ main \in {"loading", "building", "electing", "spawning", "listening", "running",
                 "draining", "joining", "releasing", "dropping", "exited", "failed",
                 "panicked"}
    /\ {leader, shutdown, connected, detached, wasLeader, slow} \subseteq BOOLEAN
    /\ election \in {"none", "running", "ended"}
    /\ server \in {"none", "binding", "serving", "unbound", "closed"}
    /\ otel \in {"none", "off", "starting", "exporting"}
    /\ joining \in 0..JoinTimeout /\ left \in 0..LongestBlock
    /\ stopping \in 0..LongestStop + 1
    /\ manager \in {"none", "creating", "select", "collecting", "recycling", "backoff",
                    "ended", "panicked"}
    /\ due \in -MaxLate..PollInterval
    /\ spent \in 0..Larger(LongestCycle, MaxBackoff)
    /\ errors \in 0..3 /\ backoff \in 1..MaxBackoff
    /\ age \in {Absent} \cup 0..Oldest

\* With the default threshold one failed cycle leaves no gap: a cluster whose
\* manager runs is not served, though the endpoint calls it ready and
\* OpenTelemetry exports it, only after two failures in a row, or when a
\* blocking call or a recycling kept the loop longer than a collection may.
StaleForAReason ==
    /\ ~Over
    /\ ReadyAnswered \/ OtelExported
    /\ settings.threshold = 0
    /\ ~Fresh
    => \/ errors >= 2
       \/ slow
       \/ manager \in {"collecting", "recycling"} /\ spent > CollectionTimeout

\* After the signal main has the managers behind it within the join timeout, and the
\* process is gone one blocking task later, not counting the time clients hold their
\* connections and the time the election's task takes to end, both of which main waits
\* for without a limit.  Leadership is not given up as long as an endpoint answers, and
\* the process does not end before it is given up.
OrderlyExit ==
    /\ main \in {"draining", "joining", "releasing"} => stopping <= JoinTimeout
    /\ main \in {"dropping", "exited"} => stopping <= JoinTimeout + LongestBlock
    /\ main \in {"releasing", "dropping", "exited"} =>
          server \in {"closed", "unbound"} /\ ~connected
    /\ main \in {"dropping", "exited"} => election # "running"

\* What validate lets through makes no part of the process panic, but for the two
\* settings it does not look at: the address and the life of cached timestamps.
PanicForAReason ==
    /\ main = "panicked" => ~settings.host
    /\ manager = "panicked" => settings.cacheTTL = 0
=============================================================================
