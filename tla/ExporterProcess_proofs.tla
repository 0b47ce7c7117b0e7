----------------------- MODULE ExporterProcess_proofs -----------------------
(***************************************************************************)
(* For any interval, timeouts and backoff with a collection timeout no      *)
(* longer than the interval: a single failed cycle leaves no gap, the exit  *)
(* is orderly, and what validation lets through panics for a reason.        *)
(***************************************************************************)
EXTENDS ExporterProcess, TLAPS

(***************************************************************************)
(* The argument for the gap.  After a success, as long as no await was slow *)
(* and the next cycle has not failed, the metrics are as old as the         *)
(* interval less what is left of it; the cycle adds what it takes, and its  *)
(* failure an interval less what is left of that.  So a cycle that starts   *)
(* after one failure starts within two intervals and ends within three.     *)
(***************************************************************************)
Room == IF errors = 0 THEN PollInterval ELSE 2 * PollInterval

LoopInStep ==
    /\ manager \notin {"select", "collecting", "recycling", "backoff"} => age = Absent
    /\ ~wasLeader => age = Absent
    /\ manager \in {"collecting", "recycling", "backoff"} => wasLeader = TRUE
    /\ manager = "backoff" => errors = 3
    /\ manager = "recycling" => errors = 0

DueInTime ==
    manager \in {"collecting", "recycling"} /\ spent <= CollectionTimeout
        => due <= PollInterval - spent

AgeBounded ==
    age # Absent /\ slow = FALSE /\ errors <= 1 =>
        /\ manager = "select" => age <= Room /\ age <= Room - due
        /\ manager = "collecting" /\ spent <= CollectionTimeout => age <= Room + spent
        /\ manager = "recycling" /\ spent <= CollectionTimeout => age <= spent

LoopInv == LoopInStep /\ DueInTime /\ AgeBounded

\* The configuration that was accepted is the one the process goes on with.
ConfigKept ==
    /\ main \notin {"loading", "failed"} => settings.poll # 0 /\ settings.threads # 0
    /\ manager # "none" => main \notin {"loading", "failed"}
    /\ main \in {"loading", "building", "electing", "spawning"} => manager = "none"
    /\ PanicForAReason

\* Where main is tells how far the server has come; what is counted of the time after
\* the signal passes in the join and while the runtime is dropped.
Joined   == {"releasing", "dropping", "exited"}
Stopping == {"draining", "joining"} \cup Joined

ExitInStep ==
    /\ shutdown <=> main \in Stopping
    /\ main \notin {"running"} \cup Stopping => server = "none"
    /\ main \in {"running", "draining"} => server # "none"
    /\ main \in {"joining"} \cup Joined => server \in {"closed", "unbound"}
    /\ connected => server = "serving"
    /\ main \notin {"joining"} \cup Joined => stopping = 0
    /\ main = "joining" => stopping <= joining
    /\ main = "releasing" => stopping <= JoinTimeout
    /\ main \in {"dropping", "exited"} => stopping <= LongestStop - left
    /\ main \in {"dropping", "exited"} => election # "running"
    /\ main = "exited" => left = 0

IInv == TypeOK /\ ConfigKept /\ ExitInStep /\ LoopInv

LEMMA TimesAreNat ==
    /\ PollInterval \in Nat \ {0} /\ CollectionTimeout \in Nat \ {0}
    /\ KafkaTimeout \in Nat \ {0} /\ MaxBackoff \in Nat \ {0}
    /\ JoinTimeout \in Nat \ {0} /\ MaxLate \in Nat
    /\ CollectionTimeout <= PollInterval
    /\ LongestCycle \in Nat /\ LongestCycle >= KafkaTimeout
    /\ Oldest = 3 * PollInterval + 1
    /\ LongestBlock \in Nat /\ LongestStop \in Nat
    /\ LongestStop = JoinTimeout + LongestBlock
<1>1. /\ PollInterval \in Nat \ {0} /\ CollectionTimeout \in Nat \ {0}
      /\ KafkaTimeout \in Nat \ {0} /\ MaxBackoff \in Nat \ {0}
      /\ JoinTimeout \in Nat \ {0} /\ MaxLate \in Nat
      /\ CollectionTimeout <= PollInterval /\ LongestBlock \in Nat
  BY TimesAssumption
<1>2. LongestCycle \in Nat /\ LongestCycle >= KafkaTimeout
  BY <1>1 DEF LongestCycle, Larger
<1>3. Oldest = 3 * PollInterval + 1
  BY <1>1 DEF Oldest, Threshold
<1>4. LongestStop \in Nat /\ LongestStop = JoinTimeout + LongestBlock
  BY <1>1 DEF LongestStop
<1>5. QED BY <1>1, <1>2, <1>3, <1>4

LEMMA StopAdds ==
    /\ JoinTimeout \in Nat /\ LongestBlock \in Nat /\ LongestStop \in Nat
    /\ LongestStop = JoinTimeout + LongestBlock
  BY TimesAreNat

LEMMA SumWithin ==
    ASSUME NEW a \in Nat, NEW b \in Nat, NEW j \in Nat, NEW k \in Nat, a <= j, b <= k
    PROVE  a <= (j + k) - b
  OBVIOUS

LEMMA OneUnitOn ==
    ASSUME NEW a \in Nat, NEW b \in Nat, NEW n \in Nat, NEW a2 \in Nat, NEW b2,
           b > 0, a <= n - b, b2 = b - 1, a2 <= a + 1
    PROVE  a2 <= n - b2 /\ a2 <= n
  OBVIOUS

LEMMA InitHolds == Init => IInv
<1> SUFFICES ASSUME Init PROVE IInv
  OBVIOUS
<1>1. TypeOK
  <2>1. /\ due \in -MaxLate..PollInterval /\ backoff \in 1..MaxBackoff
        /\ joining \in 0..JoinTimeout /\ left \in 0..LongestBlock
        /\ stopping \in 0..LongestStop + 1
    BY TimesAreNat DEF Init
  <2>2. spent \in 0..Larger(LongestCycle, MaxBackoff)
    BY TimesAreNat DEF Init, Larger
  <2>3. /\ {leader, shutdown, connected, detached, wasLeader, slow} \subseteq BOOLEAN
        /\ election = "none" /\ server = "none" /\ otel = "none" /\ manager = "none"
        /\ main = "loading"
    BY Zenon DEF Init
  <2>4. age \in {Absent} \cup 0..Oldest /\ errors \in 0..3
    BY DEF Init
  <2>5. QED BY <2>1, <2>2, <2>3, <2>4 DEF TypeOK
<1>2. ConfigKept /\ ExitInStep
  BY DEF Init, ConfigKept, ExitInStep, PanicForAReason, Joined, Stopping
<1>3. LoopInv
  BY DEF Init, LoopInv, LoopInStep, DueInTime, AgeBounded
<1>4. QED BY <1>1, <1>2, <1>3 DEF IInv

-----------------------------------------------------------------------------
(* The steps of main and of its tasks.                                     *)

LEMMA ValidatedIsSound ==
    ASSUME NEW c \in Configs, Validated(c)
    PROVE  c.poll # 0 /\ c.threads # 0
<1>1. /\ c.poll \in {0, PollInterval} /\ c.groups \in 0..1 /\ c.fetches \in 0..1
      /\ c.threads \in {0, 5, 6}
  BY DEF Configs
<1>2. c.poll > 0 /\ c.groups > 0
      /\ c.threads >= c.groups + (IF c.sampling = "message" THEN c.fetches ELSE 0) + 4
  BY DEF Validated, IntervalAccepted
<1>3. QED BY <1>1, <1>2, TimesAreNat

\* Dropping the runtime is the end of the manager's task, and of what it stored.
LEMMA LeaveKeeps == ASSUME IInv, Leave PROVE IInv'
<1>1. /\ main = "releasing" /\ main' = "dropping" /\ election # "running"
      /\ manager' = "ended" /\ detached' = FALSE /\ spent' = 0 /\ otel' = "off"
      /\ age' = Absent /\ slow' = FALSE
      /\ UNCHANGED <<settings, leader, election, shutdown, joining, stopping, server,
                     connected, due, wasLeader, errors, backoff>>
  BY DEF Leave, MainGoes, leaderVars
<1>2. left' \in 0..LongestBlock
  BY TimesAreNat DEF Leave
<1>3. TypeOK'
  <2>1. {leader', shutdown', connected', detached', wasLeader', slow'} \subseteq BOOLEAN
    <3>1. {leader, shutdown, connected, wasLeader} \subseteq BOOLEAN
      BY DEF IInv, TypeOK
    <3>2. QED BY <1>1, <3>1
  <2>2. spent' \in 0..Larger(LongestCycle, MaxBackoff)
    BY <1>1, TimesAreNat DEF Larger
  <2>3. QED BY <1>1, <1>2, <2>1, <2>2 DEF IInv, TypeOK
<1>4. ConfigKept'
  BY <1>1 DEF IInv, ConfigKept, PanicForAReason
<1>5. ExitInStep'
  <2>1. stopping <= LongestStop - left'
    <3>1. stopping <= JoinTimeout /\ stopping \in Nat
      BY <1>1, TimesAreNat DEF IInv, TypeOK, ExitInStep
    <3>2. left' \in Nat /\ left' <= LongestBlock
      BY <1>2, TimesAreNat
    <3>3. QED BY <3>1, <3>2, StopAdds, SumWithin
  <2>2. shutdown' /\ server' \in {"closed", "unbound"} /\ (connected' => server' = "serving")
    BY <1>1 DEF IInv, ExitInStep, Joined, Stopping
  <2>3. main' = "dropping" /\ election' # "running" /\ stopping' <= LongestStop - left'
    BY <1>1, <2>1
  <2>4. QED BY <2>2, <2>3 DEF ExitInStep, Joined, Stopping
<1>6. LoopInv'
  BY <1>1 DEF LoopInv, LoopInStep, DueInTime, AgeBounded
<1>7. QED BY <1>3, <1>4, <1>5, <1>6 DEF IInv

LEMMA MainKeeps == ASSUME IInv, MainStep PROVE IInv'
<1>0. CASE Leave
  BY <1>0, LeaveKeeps
<1> SUFFICES ASSUME ~Leave PROVE IInv'
  BY <1>0
<1> USE DEF leaderVars, taskVars, loopVars
<1>1. UNCHANGED <<age, detached, due, spent, wasLeader, errors, backoff, slow, left>>
  BY DEF MainStep, LoadConfig, BuildRuntime, StartLeadership, StartLeadershipFails,
         SpawnManager, SpawnServer, Signal, ServerJoined, ManagerJoined, JoinTimesOut,
         Exit
<1>2. \/ manager' = manager
      \/ manager = "none" /\ manager' = "creating"
  BY DEF MainStep, LoadConfig, BuildRuntime, StartLeadership, StartLeadershipFails,
         SpawnManager, SpawnServer, Signal, ServerJoined, ManagerJoined, JoinTimesOut,
         Exit, IInv, ConfigKept, MainGoes
<1>3. LoopInv'
  BY <1>1, <1>2
  DEF IInv, LoopInv, LoopInStep, DueInTime, AgeBounded, Room
<1>4. TypeOK'
  <2>1. CASE LoadConfig \/ BuildRuntime \/ StartLeadershipFails \/ SpawnManager
             \/ SpawnServer
    BY <1>1, <1>2, <2>1
    DEF LoadConfig, BuildRuntime, StartLeadershipFails, SpawnManager, SpawnServer,
        MainGoes, IInv, TypeOK
  <2>2. CASE StartLeadership
    BY <1>1, <1>2, <2>2 DEF StartLeadership, MainGoes, IInv, TypeOK
  <2>3. CASE Signal \/ ServerJoined \/ ManagerJoined \/ JoinTimesOut \/ Exit
    BY <1>1, <1>2, <2>3
    DEF Signal, ServerJoined, ManagerJoined, JoinTimesOut, Exit, MainGoes, IInv, TypeOK
  <2>4. QED BY <2>1, <2>2, <2>3 DEF MainStep
<1>5. ConfigKept'
  <2>1. CASE LoadConfig
    BY <2>1, ValidatedIsSound
    DEF LoadConfig, MainGoes, Settings, IInv, ConfigKept, PanicForAReason
  <2>2. CASE BuildRuntime
    BY <2>2 DEF BuildRuntime, MainGoes, IInv, ConfigKept, PanicForAReason
  <2>3. CASE StartLeadership \/ StartLeadershipFails
    BY <2>3 DEF StartLeadership, StartLeadershipFails, MainGoes, IInv, ConfigKept,
                PanicForAReason
  <2>4. CASE SpawnManager
    BY <2>4 DEF SpawnManager, MainGoes, IInv, ConfigKept, PanicForAReason
  <2>5. CASE SpawnServer
    BY <2>5 DEF SpawnServer, MainGoes, IInv, ConfigKept, PanicForAReason
  <2>6. CASE Signal \/ ServerJoined \/ ManagerJoined \/ JoinTimesOut \/ Exit
    BY <2>6 DEF Signal, ServerJoined, ManagerJoined, JoinTimesOut, Exit, MainGoes,
                IInv, ConfigKept, PanicForAReason
  <2>7. QED BY <2>1, <2>2, <2>3, <2>4, <2>5, <2>6 DEF MainStep
<1>6. ExitInStep'
  <2> USE DEF Joined, Stopping
  <2>1. CASE LoadConfig \/ BuildRuntime \/ StartLeadership \/ StartLeadershipFails
             \/ SpawnManager
    BY <2>1 DEF LoadConfig, BuildRuntime, StartLeadership, StartLeadershipFails,
                SpawnManager, MainGoes, IInv, ExitInStep
  <2>2. CASE SpawnServer
    BY <2>2 DEF SpawnServer, MainGoes, IInv, TypeOK, ExitInStep
  <2>3. CASE Signal
    BY <2>3 DEF Signal, MainGoes, IInv, ExitInStep
  <2>4. CASE ServerJoined
    BY <2>4 DEF ServerJoined, MainGoes, IInv, TypeOK, ExitInStep
  <2>5. CASE ManagerJoined \/ JoinTimesOut
    BY <2>5, TimesAreNat
    DEF ManagerJoined, JoinTimesOut, MainGoes, IInv, TypeOK, ExitInStep
  <2>6. CASE Exit
    BY <2>6 DEF Exit, MainGoes, IInv, ExitInStep
  <2>7. QED BY <2>1, <2>2, <2>3, <2>4, <2>5, <2>6 DEF MainStep
<1>7. QED BY <1>3, <1>4, <1>5, <1>6 DEF IInv

LEMMA TaskKeeps == ASSUME IInv, TaskStep PROVE IInv'
<1>0. UNCHANGED <<main, settings, shutdown, joining, left, stopping, leader, election,
                  manager, detached, due, spent, wasLeader, errors, backoff, slow, age>>
  BY DEF TaskStep, mainVars, leaderVars, loopVars
<1>1. TypeOK'
  <2>1. /\ server' \in {"none", "binding", "serving", "unbound", "closed"}
        /\ otel' \in {"none", "off", "starting", "exporting"}
        /\ connected' \in BOOLEAN
    BY DEF TaskStep, ServerTask, OtelTask, ServerBinds, ServerCloses, OtelStarts,
           OtelStops, Connects, Disconnects, IInv, TypeOK
  <2>2. QED BY <1>0, <2>1 DEF IInv, TypeOK
<1>3. ExitInStep'
  <2>1. CASE ServerBinds \/ ServerCloses
    BY <1>0, <2>1 DEF ServerBinds, ServerCloses, IInv, ExitInStep, Joined, Stopping
  <2>2. CASE Connects \/ Disconnects
    BY <1>0, <2>2 DEF Connects, Disconnects, IInv, ExitInStep, Joined, Stopping
  <2>3. CASE OtelTask
    BY <1>0, <2>3 DEF OtelTask, OtelStarts, OtelStops, IInv, ExitInStep
  <2>4. QED BY <2>1, <2>2, <2>3 DEF TaskStep, ServerTask
<1>2. ConfigKept' /\ LoopInv'
  BY <1>0 DEF IInv, ConfigKept, PanicForAReason, LoopInv, LoopInStep, DueInTime,
              AgeBounded, Room
<1>4. QED BY <1>1, <1>2, <1>3 DEF IInv

LEMMA ElectionKeeps == ASSUME IInv, ElectionStep PROVE IInv'
<1>0. UNCHANGED <<main, settings, shutdown, joining, left, stopping, server, connected,
                  otel, manager, detached, due, spent, wasLeader, errors, backoff, slow,
                  age>>
  BY DEF ElectionStep, mainVars, taskVars, loopVars
<1>1. leader' \in BOOLEAN /\ election = "running" /\ election' \in {"running", "ended"}
  BY DEF ElectionStep, LeadershipMoves, ElectionEnds, IInv, TypeOK
<1>2. TypeOK'
  <2>1. {leader', shutdown, connected, detached, wasLeader, slow} \subseteq BOOLEAN
    BY <1>1 DEF IInv, TypeOK
  <2>2. election' \in {"none", "running", "ended"}
    BY <1>1
  <2>3. QED BY <1>0, <2>1, <2>2 DEF IInv, TypeOK
<1>3. ConfigKept' /\ LoopInv'
  BY <1>0 DEF IInv, ConfigKept, PanicForAReason, LoopInv, LoopInStep, DueInTime,
              AgeBounded, Room
<1>4. ExitInStep'
  BY <1>0, <1>1 DEF IInv, ExitInStep
<1>5. QED BY <1>2, <1>3, <1>4 DEF IInv

-----------------------------------------------------------------------------
(* The steps of the loop.                                                  *)

\* What every step of the loop leaves to prove.
LEMMA LoopFrame ==
    ASSUME IInv, ManagerStep,
           manager' \in {"select", "collecting", "recycling", "backoff", "ended", "panicked"},
           manager # "none",
           manager' = "panicked" => settings.cacheTTL = 0,
           due' \in -MaxLate..PollInterval,
           detached' \in BOOLEAN, wasLeader' \in BOOLEAN, slow' \in BOOLEAN,
           errors' \in 0..3, backoff' \in 1..MaxBackoff,
           age' \in {Absent} \cup 0..Oldest,
           spent' \in 0..Larger(LongestCycle, MaxBackoff),
           LoopInv'
    PROVE  IInv'
<1>0. UNCHANGED <<main, settings, shutdown, joining, left, stopping, leader, election,
                  server, connected, otel>>
  BY DEF ManagerStep, mainVars, leaderVars, taskVars
<1>2. {leader', shutdown', connected', detached', wasLeader', slow'} \subseteq BOOLEAN
  <2>1. {leader, shutdown, connected} \subseteq BOOLEAN
    BY DEF IInv, TypeOK
  <2>2. QED BY <1>0, <2>1
<1>3. TypeOK'
  BY <1>0, <1>2 DEF IInv, TypeOK
<1>4. ConfigKept' /\ ExitInStep'
  BY <1>0 DEF IInv, ConfigKept, PanicForAReason, ExitInStep
<1>5. QED BY <1>3, <1>4 DEF IInv

\* The types the loop's steps start from.
LEMMA LoopTypes ==
    ASSUME IInv
    PROVE  /\ due \in Int /\ -MaxLate <= due /\ due <= PollInterval
           /\ spent \in Nat /\ errors \in 0..3 /\ backoff \in 1..MaxBackoff
           /\ age \in Int /\ age \in {Absent} \cup 0..Oldest
           /\ wasLeader \in BOOLEAN /\ slow \in BOOLEAN /\ leader \in BOOLEAN
           /\ detached \in BOOLEAN
           /\ 0 \in 0..Larger(LongestCycle, MaxBackoff)
  BY TimesAreNat DEF IInv, TypeOK, Larger, Absent

LEMMA CreateKeeps == ASSUME IInv, ManagerStep, Create \/ CreateFails PROVE IInv'
<1>1. /\ manager = "creating" /\ spent' = 0
      /\ UNCHANGED <<detached, due, errors, backoff, slow, age>>
      /\ wasLeader' \in BOOLEAN
      /\ manager' \in {"select", "ended", "panicked"}
  BY LoopTypes DEF Create, CreateFails, Goes
<1>2. manager' = "panicked" => settings.cacheTTL = 0
  BY DEF Create, CreateFails, Goes, IInv, ConfigKept
<1>3. age = Absent
  BY <1>1 DEF IInv, LoopInv, LoopInStep
<1>4. LoopInv'
  BY <1>1, <1>3 DEF LoopInv, LoopInStep, DueInTime, AgeBounded
<1>5. QED BY <1>1, <1>2, <1>4, LoopTypes, TimesAreNat, LoopFrame

LEMMA TickAsLeaderKeeps == ASSUME IInv, ManagerStep, TickAsLeader PROVE IInv'
<1>1. /\ manager = "select" /\ manager' = "collecting" /\ spent' = 0 /\ due <= 0
      /\ due' = due + PollInterval /\ wasLeader' = TRUE
      /\ UNCHANGED <<detached, errors, backoff, slow, age>>
  BY DEF TickAsLeader, Goes, NextDue
<1>2. due' \in -MaxLate..PollInterval /\ due' <= PollInterval
  BY <1>1, LoopTypes, TimesAreNat
<1>3. age # Absent /\ slow = FALSE /\ errors <= 1 => age <= Room
  BY <1>1 DEF IInv, LoopInv, AgeBounded
<1>4. Room' = Room /\ Room \in Nat
  BY <1>1, TimesAreNat DEF Room
<1>5. LoopInv'
  BY <1>1, <1>2, <1>3, <1>4, LoopTypes, TimesAreNat
  DEF LoopInv, LoopInStep, DueInTime, AgeBounded
<1>6. QED BY <1>1, <1>2, <1>5, LoopTypes, LoopFrame

\* A standby has nothing in the registry, or withdraws it.
LEMMA TickOnStandbyKeeps == ASSUME IInv, ManagerStep, TickOnStandby PROVE IInv'
<1>1. /\ manager = "select" /\ manager' = "select" /\ spent' = 0 /\ due <= 0
      /\ due' = due + PollInterval /\ wasLeader' = FALSE
      /\ slow' \in BOOLEAN
      /\ UNCHANGED <<detached, errors, backoff>>
  BY LoopTypes DEF TickOnStandby, Goes, NextDue
<1>2. due' \in -MaxLate..PollInterval
  BY <1>1, LoopTypes, TimesAreNat
<1>3. age' = Absent
  BY DEF TickOnStandby, IInv, LoopInv, LoopInStep
<1>4. LoopInv'
  BY <1>1, <1>3 DEF LoopInv, LoopInStep, DueInTime, AgeBounded
<1>5. QED BY <1>1, <1>2, <1>3, <1>4, LoopTypes, LoopFrame

LEMMA SucceedsKeeps == ASSUME IInv, ManagerStep, Succeeds PROVE IInv'
<1>1. /\ manager = "collecting" /\ manager' \in {"select", "recycling"} /\ spent' = 0
      /\ errors' = 0 /\ backoff' = 1 /\ age' = 0 /\ slow' = FALSE
      /\ UNCHANGED <<detached, due, wasLeader>>
  BY DEF Succeeds, Goes
<1>2. wasLeader = TRUE
  BY <1>1 DEF IInv, LoopInv, LoopInStep
<1>3. Room' = PollInterval
  BY <1>1 DEF Room
<1>4. LoopInv'
  BY <1>1, <1>2, <1>3, LoopTypes, TimesAreNat
  DEF LoopInv, LoopInStep, DueInTime, AgeBounded
<1>5. age' \in {Absent} \cup 0..Oldest /\ backoff' \in 1..MaxBackoff /\ errors' \in 0..3
  BY <1>1, TimesAreNat
<1>6. wasLeader' \in BOOLEAN /\ slow' \in BOOLEAN
  BY <1>1, <1>2
<1>7. due' \in -MaxLate..PollInterval
  BY <1>1, LoopTypes, TimesAreNat
<1>8. QED BY <1>1, <1>4, <1>5, <1>6, <1>7, LoopTypes, LoopFrame

LEMMA SlowIsKept ==
    ASSUME IInv, slow' = (slow \/ spent > CollectionTimeout)
    PROVE  slow' \in BOOLEAN /\ (slow' = FALSE => slow = FALSE /\ spent <= CollectionTimeout)
<1>1. slow \in BOOLEAN /\ spent \in Nat
  BY LoopTypes
<1>2. slow' \in BOOLEAN /\ (slow' = FALSE => slow = FALSE /\ ~(spent > CollectionTimeout))
  BY <1>1, Zenon
<1>3. ~(spent > CollectionTimeout) => spent <= CollectionTimeout
  BY <1>1, TimesAreNat
<1>4. QED BY <1>2, <1>3, Zenon

LEMMA RecycledKeeps == ASSUME IInv, ManagerStep, Recycled PROVE IInv'
<1>1. /\ manager = "recycling" /\ manager' = "select" /\ spent' = 0
      /\ UNCHANGED <<detached, due, wasLeader, errors, backoff, age>>
      /\ slow' = (slow \/ spent > CollectionTimeout)
  BY DEF Recycled, Goes, Took
<1>2. slow' \in BOOLEAN /\ (slow' = FALSE => slow = FALSE /\ spent <= CollectionTimeout)
  BY <1>1, SlowIsKept
<1>3. wasLeader = TRUE /\ errors = 0
  BY <1>1 DEF IInv, LoopInv, LoopInStep
<1>4. Room' = PollInterval
  BY <1>1, <1>3 DEF Room
<1>5. AgeBounded'
  <2> SUFFICES ASSUME age # Absent, slow' = FALSE
               PROVE  age <= PollInterval /\ age <= PollInterval - due
    BY <1>1, <1>4 DEF AgeBounded
  <2>1. age <= spent /\ due <= PollInterval - spent /\ spent <= CollectionTimeout
    BY <1>1, <1>2, <1>3 DEF IInv, LoopInv, AgeBounded, DueInTime
  <2>2. QED BY <2>1, LoopTypes, TimesAreNat
<1>6. LoopInv'
  BY <1>1, <1>3, <1>5 DEF LoopInv, LoopInStep, DueInTime
<1>7. due' \in -MaxLate..PollInterval
  BY <1>1, LoopTypes, TimesAreNat
<1>8. QED BY <1>1, <1>2, <1>6, <1>7, LoopTypes, LoopFrame

\* A cycle that failed or ran out of time.
LEMMA FailureKeeps == ASSUME IInv, ManagerStep, Fails \/ TimesOut PROVE IInv'
<1>1. /\ manager = "collecting" /\ spent' = 0
      /\ errors' = OneMoreError
      /\ manager' = "select" \/ (manager' = "backoff" /\ OneMoreError >= 3)
      /\ UNCHANGED <<due, wasLeader, backoff, age>>
      /\ slow' = (slow \/ spent > CollectionTimeout)
  BY DEF Fails, TimesOut, Goes, Took
<1>0. detached' \in BOOLEAN
  BY LoopTypes DEF Fails, TimesOut
<1>2. slow' \in BOOLEAN /\ (slow' = FALSE => slow = FALSE /\ spent <= CollectionTimeout)
  BY <1>1, SlowIsKept
<1>3. wasLeader = TRUE
  BY <1>1 DEF IInv, LoopInv, LoopInStep
<1>4. errors' \in 1..3 /\ (errors' <= 1 => errors = 0 /\ errors' = 1)
  BY <1>1, LoopTypes DEF OneMoreError, Smaller
<1>5. manager' = "backoff" => errors' = 3
  BY <1>1, <1>4
<1>6. AgeBounded'
  <2> SUFFICES ASSUME age # Absent, slow' = FALSE, errors' <= 1
               PROVE  age <= 2 * PollInterval /\ age <= 2 * PollInterval - due
    <3>1. errors' <= 1 => Room' = 2 * PollInterval
      BY <1>4 DEF Room
    <3>2. age' = age /\ due' = due /\ manager' \notin {"collecting", "recycling"}
      BY <1>1
    <3>3. QED BY <3>1, <3>2 DEF AgeBounded
  <2>1. /\ age <= PollInterval + spent
        /\ due <= PollInterval - spent
        /\ spent <= CollectionTimeout
    BY <1>1, <1>2, <1>4 DEF IInv, LoopInv, AgeBounded, DueInTime, Room
  <2>2. QED BY <2>1, LoopTypes, TimesAreNat
<1>7. LoopInv'
  BY <1>1, <1>3, <1>5, <1>6 DEF LoopInv, LoopInStep, DueInTime
<1>8. due' \in -MaxLate..PollInterval /\ errors' \in 0..3
  BY <1>1, <1>4, LoopTypes, TimesAreNat
<1>9. QED BY <1>0, <1>1, <1>2, <1>7, <1>8, LoopTypes, LoopFrame

LEMMA WakeUpKeeps == ASSUME IInv, ManagerStep, WakeUp PROVE IInv'
<1>1. /\ manager = "backoff" /\ manager' = "select" /\ spent' = 0
      /\ UNCHANGED <<detached, due, wasLeader, errors, slow, age>>
  BY DEF WakeUp, Goes
<1>2. wasLeader = TRUE /\ errors = 3
  BY <1>1 DEF IInv, LoopInv, LoopInStep
<1>3. backoff' \in 1..MaxBackoff
  BY LoopTypes, TimesAreNat DEF WakeUp, Doubled, Smaller
<1>4. LoopInv'
  BY <1>1, <1>2 DEF LoopInv, LoopInStep, DueInTime, AgeBounded
<1>5. due' \in -MaxLate..PollInterval
  BY <1>1, LoopTypes, TimesAreNat
<1>6. QED BY <1>1, <1>3, <1>4, <1>5, LoopTypes, LoopFrame

LEMMA ReceiveShutdownKeeps == ASSUME IInv, ManagerStep, ReceiveShutdown PROVE IInv'
<1>1. /\ manager = "select" /\ manager' = "ended" /\ spent' = 0
      /\ age' = Absent /\ slow' = FALSE
      /\ UNCHANGED <<detached, due, wasLeader, errors, backoff>>
  BY DEF ReceiveShutdown, Goes
<1>2. LoopInv'
  BY <1>1 DEF LoopInv, LoopInStep, DueInTime, AgeBounded
<1>3. due' \in -MaxLate..PollInterval
  BY <1>1, LoopTypes, TimesAreNat
<1>4. slow' \in BOOLEAN /\ wasLeader' \in BOOLEAN
  <2>1. slow' = FALSE /\ wasLeader' = wasLeader
    BY <1>1
  <2>2. QED BY <2>1, LoopTypes, Zenon
<1>5. QED BY <1>1, <1>2, <1>3, <1>4, LoopTypes, LoopFrame

LEMMA DetachedEndKeeps == ASSUME IInv, ManagerStep, DetachedEnd PROVE IInv'
<1>0. UNCHANGED <<main, settings, shutdown, joining, left, stopping, leader, election,
                  server, connected, otel, manager, due, spent, wasLeader, errors, backoff,
                  slow, age>>
  BY DEF ManagerStep, mainVars, leaderVars, taskVars, DetachedEnd
<1>1. detached' = FALSE
  BY DEF DetachedEnd
<1>2. {leader, shutdown, connected, detached', wasLeader, slow} \subseteq BOOLEAN
  BY <1>1 DEF IInv, TypeOK
<1>3. TypeOK'
  BY <1>0, <1>2 DEF IInv, TypeOK
<1>4. ConfigKept' /\ ExitInStep' /\ LoopInv'
  BY <1>0 DEF IInv, ConfigKept, PanicForAReason, ExitInStep, LoopInv, LoopInStep,
              DueInTime, AgeBounded, Room
<1>5. QED BY <1>3, <1>4 DEF IInv

LEMMA LoopKeeps == ASSUME IInv, ManagerStep PROVE IInv'
  BY CreateKeeps, TickAsLeaderKeeps, TickOnStandbyKeeps, SucceedsKeeps, RecycledKeeps,
     FailureKeeps, WakeUpKeeps, ReceiveShutdownKeeps, DetachedEndKeeps
  DEF ManagerStep, LoopStep

-----------------------------------------------------------------------------
(* Time.                                                                   *)

LEMMA TickKeeps == ASSUME IInv, Tick PROVE IInv'
<1>0. /\ UNCHANGED <<main, settings, leader, election, shutdown, server, connected, otel,
                     manager, detached, wasLeader, errors, backoff, slow>>
      /\ MainWaits /\ TasksWait /\ ManagerWaits
  BY DEF Tick, leaderVars, taskVars
<1>1. /\ manager \notin {"ended", "panicked"} => due' = Larger(due - 1, -MaxLate)
      /\ manager \in {"ended", "panicked"} => due' = due
      /\ manager \in {"collecting", "recycling", "backoff"} => spent' = spent + 1
      /\ manager \notin {"collecting", "recycling", "backoff"} => spent' = 0
      /\ age = Absent => age' = Absent
      /\ age # Absent => age' = Smaller(age + 1, Oldest)
      /\ main = "joining" => joining' = joining + 1
      /\ main # "joining" => joining' = joining
  BY DEF Tick
<1>2. age # Absent => age' \in 0..Oldest /\ age' <= age + 1
  BY <1>1, LoopTypes, TimesAreNat DEF Smaller, Absent
<1>3. due' \in -MaxLate..PollInterval
  BY <1>1, LoopTypes, TimesAreNat DEF Larger
<1>4. spent' \in 0..Larger(LongestCycle, MaxBackoff)
  <2>1. CASE manager \in {"collecting", "recycling"}
    <3>1. spent < LongestCycle /\ spent' = spent + 1
      BY <1>0, <1>1, <2>1, LoopTypes, TimesAreNat DEF ManagerWaits
    <3>2. QED BY <3>1, LoopTypes, TimesAreNat DEF Larger
  <2>2. CASE manager = "backoff"
    <3>1. spent < Smaller(backoff, MaxBackoff) /\ spent' = spent + 1
      BY <1>0, <1>1, <2>2 DEF ManagerWaits
    <3>2. QED BY <3>1, LoopTypes, TimesAreNat DEF Larger, Smaller
  <2>3. CASE manager \notin {"collecting", "recycling", "backoff"}
    BY <1>1, <2>3, TimesAreNat DEF Larger
  <2>4. QED BY <2>1, <2>2, <2>3
<1>5. /\ joining' \in 0..JoinTimeout /\ left' \in 0..LongestBlock
      /\ stopping' \in 0..LongestStop + 1
      /\ main \notin {"joining", "dropping"} => stopping' = stopping
      /\ main = "joining" => stopping' <= joining'
      /\ main = "dropping" => stopping' <= LongestStop - left'
      /\ main # "exited"
  <2>1. /\ joining \in 0..JoinTimeout /\ left \in 0..LongestBlock
        /\ stopping \in 0..LongestStop + 1
    BY DEF IInv, TypeOK
  <2>2. /\ stopping' = IF shutdown /\ ~connected /\ main # "releasing"
                       THEN Smaller(stopping + 1, LongestStop + 1) ELSE stopping
        /\ left' = IF main = "dropping" THEN left - 1 ELSE left
    BY DEF Tick
  <2>3. CASE main = "running"
    <3>1. stopping' = stopping /\ left' = left
      BY <2>2, <2>3 DEF IInv, ExitInStep, Joined, Stopping
    <3>2. QED BY <1>1, <2>1, <2>3, <3>1
  <2>4. CASE main = "draining"
    <3>1. connected
      BY <1>0, <2>4 DEF MainWaits, TasksWait, IInv, TypeOK, ExitInStep, Stopping
    <3>2. stopping' = stopping /\ left' = left
      BY <2>2, <2>4, <3>1
    <3>3. QED BY <1>1, <2>1, <2>4, <3>2
  <2>5. CASE main = "joining"
    <3>1. joining < JoinTimeout /\ joining' = joining + 1 /\ stopping <= joining
      BY <1>0, <1>1, <2>5 DEF MainWaits, IInv, ExitInStep
    <3>2. left' = left /\ stopping' \in {stopping, Smaller(stopping + 1, LongestStop + 1)}
      BY <2>2, <2>5
    <3>3. stopping' \in 0..LongestStop + 1 /\ stopping' <= joining'
      BY <2>1, <3>1, <3>2, TimesAreNat DEF Smaller
    <3>4. QED BY <2>1, <2>5, <3>1, <3>2, <3>3, TimesAreNat
  <2>6. CASE main = "releasing"
    <3>1. stopping' = stopping /\ left' = left
      BY <2>2, <2>6
    <3>2. QED BY <1>1, <2>1, <2>6, <3>1
  <2>7. CASE main = "dropping"
    <3>1. left > 0 /\ stopping <= LongestStop - left /\ left' = left - 1
      BY <1>0, <2>2, <2>7 DEF MainWaits, IInv, ExitInStep
    <3>2. stopping' \in {stopping, Smaller(stopping + 1, LongestStop + 1)}
      BY <2>2
    <3>3. stopping' \in Nat /\ stopping' <= stopping + 1
      BY <2>1, <3>2, TimesAreNat DEF Smaller
    <3>4. left' \in Nat /\ left' <= LongestBlock /\ stopping' <= LongestStop - left'
      <4>1. left \in Nat /\ left <= LongestBlock /\ stopping \in Nat
        BY <2>1, StopAdds
      <4>2. LongestStop \in Nat /\ LongestBlock \in Nat
        BY StopAdds
      <4>3. stopping' <= LongestStop - left'
        BY <3>1, <3>3, <4>1, <4>2, OneUnitOn
      <4>4. left' \in Nat /\ left' <= LongestBlock
        BY <3>1, <4>1, <4>2
      <4>5. QED BY <4>3, <4>4
    <3>5. stopping' \in 0..LongestStop + 1
      <4>1. left \in Nat /\ stopping \in Nat /\ LongestStop \in Nat
        BY <2>1, StopAdds
      <4>2. stopping' <= LongestStop
        BY <3>1, <3>3, <4>1, OneUnitOn
      <4>3. QED BY <3>3, <4>1, <4>2
    <3>6. joining' \in 0..JoinTimeout /\ left' \in 0..LongestBlock
      BY <1>1, <2>1, <2>7, <3>4, TimesAreNat
    <3>7. QED BY <2>7, <3>4, <3>5, <3>6
  <2>8. QED BY <1>0, <2>3, <2>4, <2>5, <2>6, <2>7 DEF MainWaits
<1>6. TypeOK'
  BY <1>0, <1>1, <1>2, <1>3, <1>4, <1>5 DEF IInv, TypeOK
<1>7. ConfigKept'
  BY <1>0 DEF IInv, ConfigKept, PanicForAReason
<1>8. ExitInStep'
  BY <1>0, <1>5 DEF IInv, ExitInStep, Joined, Stopping
<1>9. DueInTime'
  <2> SUFFICES ASSUME manager \in {"collecting", "recycling"}, spent' <= CollectionTimeout
               PROVE  due' <= PollInterval - spent'
    BY <1>0 DEF DueInTime
  <2>1. spent' = spent + 1 /\ due' = Larger(due - 1, -MaxLate)
    BY <1>1
  <2>2. due <= PollInterval - spent
    BY <2>1, LoopTypes, TimesAreNat DEF IInv, LoopInv, DueInTime
  <2>3. QED BY <2>1, <2>2, LoopTypes, TimesAreNat DEF Larger
<1>10. LoopInStep'
  BY <1>0, <1>1 DEF IInv, LoopInv, LoopInStep
<1>11. AgeBounded'
  <2> SUFFICES ASSUME age # Absent, slow = FALSE, errors <= 1
      PROVE  /\ manager = "select" => age' <= Room /\ age' <= Room - due'
             /\ manager = "collecting" /\ spent' <= CollectionTimeout
                   => age' <= Room + spent'
             /\ manager = "recycling" /\ spent' <= CollectionTimeout => age' <= spent'
    BY <1>0, <1>1 DEF AgeBounded, Room
  <2>0. Room \in Nat /\ age' \in Int
    BY <1>2, TimesAreNat DEF Room
  <2>1. CASE manager = "select"
    <3>1. due > 0 /\ due' = Larger(due - 1, -MaxLate) /\ age <= Room - due
      BY <1>0, <1>1, <2>1 DEF ManagerWaits, IInv, LoopInv, AgeBounded
    <3>2. due' = due - 1
      BY <3>1, LoopTypes, TimesAreNat DEF Larger
    <3>3. QED BY <1>2, <2>0, <2>1, <3>1, <3>2, LoopTypes
  <2>2. CASE manager = "collecting"
    <3>1. spent' = spent + 1 /\ (spent <= CollectionTimeout => age <= Room + spent)
      BY <1>1, <2>2 DEF IInv, LoopInv, AgeBounded
    <3>2. QED BY <1>2, <2>0, <2>2, <3>1, LoopTypes, TimesAreNat
  <2>3. CASE manager = "recycling"
    <3>1. spent' = spent + 1 /\ (spent <= CollectionTimeout => age <= spent)
      BY <1>1, <2>3 DEF IInv, LoopInv, AgeBounded
    <3>2. QED BY <1>2, <2>0, <2>3, <3>1, LoopTypes, TimesAreNat
  <2>4. QED BY <2>1, <2>2, <2>3
<1>12. QED BY <1>6, <1>7, <1>8, <1>9, <1>10, <1>11 DEF IInv, LoopInv

LEMMA StepKeeps == IInv /\ [Next]_vars => IInv'
<1> SUFFICES ASSUME IInv, [Next]_vars PROVE IInv'
  OBVIOUS
<1>1. CASE UNCHANGED vars
  BY <1>1 DEF vars, mainVars, leaderVars, taskVars, loopVars, IInv, TypeOK, ConfigKept,
              PanicForAReason, ExitInStep, LoopInv, LoopInStep, DueInTime, AgeBounded, Room
<1>2. QED
  BY <1>1, MainKeeps, TaskKeeps, LoopKeeps, ElectionKeeps, TickKeeps DEF Next

LEMMA Inductive == Spec => []IInv
  BY InitHolds, StepKeeps, PTL DEF Spec

-----------------------------------------------------------------------------

\* Every variable keeps its type: the schedule is never later than the bound it
\* is observed to, and no await outlasts what bounds it.
THEOREM TypeCorrect == Spec => []TypeOK
<1>1. IInv => TypeOK
  BY DEF IInv
<1>2. QED BY <1>1, Inductive, PTL

\* One failed cycle leaves no gap, for every interval and timeout.
THEOREM NoGapAfterOneFailure == Spec => []StaleForAReason
<1>1. IInv => StaleForAReason
  <2> SUFFICES ASSUME IInv PROVE StaleForAReason
    OBVIOUS
  <2>1. ASSUME age # Absent, errors <= 1, slow = FALSE,
               manager \in {"collecting", "recycling"} => spent <= CollectionTimeout
        PROVE  age <= 3 * PollInterval
    <3>1. manager \in {"select", "collecting", "recycling"}
      BY <2>1 DEF IInv, LoopInv, LoopInStep
    <3>2. Room \in Nat /\ Room <= 2 * PollInterval
      BY TimesAreNat DEF Room
    <3>3. /\ manager = "select" => age <= Room
          /\ manager = "collecting" => age <= Room + spent
          /\ manager = "recycling" => age <= spent
      BY <2>1 DEF IInv, LoopInv, AgeBounded
    <3>4. QED BY <2>1, <3>1, <3>2, <3>3, LoopTypes, TimesAreNat
  <2>2. slow \/ slow = FALSE
    BY LoopTypes, Zenon
  <2>3. /\ errors <= 1 \/ errors >= 2
        /\ spent <= CollectionTimeout \/ spent > CollectionTimeout
    BY LoopTypes, TimesAreNat
  <2>4. /\ ReadyAnswered \/ OtelExported => age # Absent
        /\ settings.threshold = 0 => Threshold(settings.threshold) = 3 * PollInterval
    BY DEF ReadyAnswered, OtelExported, Stored, Threshold
  <2>5. ASSUME ReadyAnswered \/ OtelExported, settings.threshold = 0, ~Fresh,
               ~(errors >= 2), ~slow,
               ~(manager \in {"collecting", "recycling"} /\ spent > CollectionTimeout)
        PROVE  FALSE
    <3>1. age # Absent /\ ~(age <= 3 * PollInterval)
      BY <2>4, <2>5 DEF Fresh, Stored
    <3>2. errors <= 1 /\ slow = FALSE
      BY <2>2, <2>3, <2>5
    <3>3. manager \in {"collecting", "recycling"} => spent <= CollectionTimeout
      BY <2>3, <2>5
    <3>4. QED BY <2>1, <3>1, <3>2, <3>3
  <2>6. QED BY <2>5, Zenon DEF StaleForAReason
<1>2. QED BY <1>1, Inductive, PTL

\* After the signal main is done with the managers within the join timeout and the
\* process is gone one blocking task later, not counting open connections and the
\* election's task, for which it waits without a limit (main.rs:202, main.rs:219); by then
\* no endpoint answers, and leadership has been given up.
THEOREM ExitIsOrderly == Spec => []OrderlyExit
<1>1. IInv => OrderlyExit
  <2> SUFFICES ASSUME IInv PROVE OrderlyExit
    OBVIOUS
  <2>0. stopping \in Nat /\ left \in Nat /\ joining \in Nat /\ joining <= JoinTimeout
    BY TimesAreNat DEF IInv, TypeOK
  <2>1. main \in {"draining", "joining", "releasing"} => stopping <= JoinTimeout
    <3>1. /\ main = "draining" => stopping = 0
          /\ main = "joining" => stopping <= joining
          /\ main = "releasing" => stopping <= JoinTimeout
      BY DEF IInv, ExitInStep, Joined
    <3>2. QED BY <2>0, <3>1, TimesAreNat
  <2>2. main \in {"dropping", "exited"} => stopping <= JoinTimeout + LongestBlock
    <3>1. main \in {"dropping", "exited"} => stopping <= LongestStop - left
      BY DEF IInv, ExitInStep
    <3>2. QED BY <2>0, <3>1, TimesAreNat
  <2>3. /\ main \in {"releasing", "dropping", "exited"} =>
              server \in {"closed", "unbound"} /\ ~connected
        /\ main \in {"dropping", "exited"} => election # "running"
    BY DEF IInv, ExitInStep, Joined
  <2>4. QED BY <2>1, <2>2, <2>3 DEF OrderlyExit
<1>2. QED BY <1>1, Inductive, PTL

\* Validation excludes every panic but the two it does not look for.
THEOREM PanicsAreExplained == Spec => []PanicForAReason
<1>1. IInv => PanicForAReason
  BY DEF IInv, ConfigKept
<1>2. QED BY <1>1, Inductive, PTL
=============================================================================
