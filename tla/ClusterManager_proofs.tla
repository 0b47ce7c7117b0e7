------------------------ MODULE ClusterManager_proofs ------------------------
(***************************************************************************)
(* No scrape renders stale points and no call leaves a torn entry, for any  *)
(* number of clusters, any threshold and an unbounded clock.  The managers  *)
(* use the registry as it expects to be used, report the process unhealthy  *)
(* for a reason, and export what ClusterExport promises, for any number of  *)
(* clusters and any backoff and recycling settings.                         *)
(***************************************************************************)
EXTENDS ClusterManager, TLAPS

-----------------------------------------------------------------------------
(* The registry.                                                           *)

(***************************************************************************)
(* The argument: where a writer is tells how its three entries relate.  At  *)
(* every point of an update the entry of `last_update` is no newer than the *)
(* points, because the points are inserted first; so points that pass the   *)
(* filter of a scrape are at least as new as the entry the filter looked at.*)
(***************************************************************************)
Agree(c) == lastUpdate[c] = metrics[c] /\ lastUpdateTimestamp[c] = metrics[c]

StampNotNewer(c) == lastUpdate[c] # Absent => lastUpdate[c] <= stamp[c]

EntriesMatchWriter(c) ==
    /\ writer[c] \in {"idle", "remove_metrics", "insert_metrics"} => Agree(c)
    /\ writer[c] = "insert_metrics" => StampNotNewer(c)
    /\ writer[c] = "insert_last_update" => metrics[c] = stamp[c] /\ StampNotNewer(c)
    /\ writer[c] \in {"insert_last_update", "remove_last_update"} =>
         lastUpdateTimestamp[c] = lastUpdate[c]
    /\ writer[c] = "insert_timestamp" =>
         metrics[c] = stamp[c] /\ lastUpdate[c] = stamp[c]
    /\ writer[c] = "remove_last_update" => metrics[c] = Absent
    /\ writer[c] = "remove_timestamp" =>
         metrics[c] = Absent /\ lastUpdate[c] = Absent

NothingFromTheFuture(c) ==
    /\ stamp[c] <= now
    /\ lastUpdate[c] # Absent => lastUpdate[c] <= now

NoScrapeNoPoints == scrapeStep = "idle" => points = NothingYet

RegistryInv ==
    /\ RegistryTypeOK
    /\ \A c \in Clusters : EntriesMatchWriter(c) /\ NothingFromTheFuture(c)
    /\ NoScrapeNoPoints
    /\ RenderedFresh

\* No step changes a type.
LEMMA RegistryTypeStep ==
    RegistryTypeOK /\ [RegistryNext]_registryVars => RegistryTypeOK'
<1> SUFFICES ASSUME RegistryTypeOK, [RegistryNext]_registryVars
             PROVE  RegistryTypeOK'
  OBVIOUS
<1> USE AbsentAssumption DEF RegistryTypeOK, Entry, WriterSteps
<1>1. CASE RegistryWrite
  <2> PICK c \in Clusters : BeginUpdate(c) \/ BeginRemove(c) \/ WriterStep(c)
    BY <1>1 DEF RegistryWrite
  <2>1. CASE BeginUpdate(c) \/ BeginRemove(c)
    BY <1>1, <2>1 DEF RegistryWrite, BeginUpdate, BeginRemove, WriterGoes,
                      mapVars, scrapeVars
  <2>2. CASE InsertMetrics(c)
    BY <1>1, <2>2 DEF RegistryWrite, InsertMetrics, WriterGoes, scrapeVars
  <2>3. CASE InsertLastUpdate(c)
    BY <1>1, <2>3 DEF RegistryWrite, InsertLastUpdate, WriterGoes, scrapeVars
  <2>4. CASE InsertTimestamp(c)
    BY <1>1, <2>4 DEF RegistryWrite, InsertTimestamp, WriterGoes, scrapeVars
  <2>5. CASE RemoveMetrics(c)
    BY <1>1, <2>5 DEF RegistryWrite, RemoveMetrics, WriterGoes, scrapeVars
  <2>6. CASE RemoveLastUpdate(c)
    BY <1>1, <2>6 DEF RegistryWrite, RemoveLastUpdate, WriterGoes, scrapeVars
  <2>7. CASE RemoveTimestamp(c)
    BY <1>1, <2>7 DEF RegistryWrite, RemoveTimestamp, WriterGoes, scrapeVars
  <2>8. QED
    BY <2>1, <2>2, <2>3, <2>4, <2>5, <2>6, <2>7
    DEF WriterStep, ContinueUpdate, ContinueRemove
<1>2. CASE Scrape
  <2>1. CASE BeginScrape \/ BeginStamps \/ EndScrape
    BY <1>2, <2>1 DEF Scrape, BeginScrape, BeginStamps, EndScrape, NothingYet,
                      mapVars, writerVars
  <2>2. ASSUME NEW c \in Clusters, RenderPoints(c) PROVE RegistryTypeOK'
    BY <1>2, <2>2 DEF Scrape, RenderPoints, mapVars, writerVars
  <2>3. ASSUME NEW c \in Clusters, RenderStamp(c) PROVE RegistryTypeOK'
    BY <1>2, <2>3 DEF Scrape, RenderStamp, mapVars, writerVars
  <2>4. QED
    BY <1>2, <2>1, <2>2, <2>3 DEF Scrape
<1>3. CASE Tick
  BY <1>3 DEF Tick, mapVars, writerVars, scrapeVars
<1>4. CASE HealthReport
  BY <1>4 DEF HealthReport, SetHealthy, mapVars, writerVars, scrapeVars
<1>5. CASE UNCHANGED registryVars
  BY <1>5 DEF registryVars, mapVars, writerVars, scrapeVars
<1>6. QED
  BY <1>1, <1>2, <1>3, <1>4, <1>5 DEF RegistryNext

\* Every variable of the registry keeps its type.
THEOREM RegistryTypeCorrect == RegistrySpec => []RegistryTypeOK
<1>1. RegistryInit => RegistryTypeOK
  BY DEF RegistryInit, RegistryTypeOK, NothingYet, Entry, WriterSteps
<1>2. QED
  BY <1>1, RegistryTypeStep, PTL DEF RegistrySpec

\* A map operation of one writer.  The entries of the other clusters and the
\* scrape in progress are left alone.
LEMMA WriteKeeps == RegistryInv /\ RegistryTypeOK' /\ RegistryWrite => RegistryInv'
<1> SUFFICES ASSUME RegistryInv, RegistryTypeOK', RegistryWrite PROVE RegistryInv'
  OBVIOUS
<1> USE AbsentAssumption DEF RegistryTypeOK, Entry
<1>1. UNCHANGED <<now, scrapeStep, scrapeStart, points>>
  BY DEF RegistryWrite, scrapeVars
<1>2. ASSUME NEW c \in Clusters
      PROVE  EntriesMatchWriter(c)' /\ NothingFromTheFuture(c)'
  <2> PICK w \in Clusters : BeginUpdate(w) \/ BeginRemove(w) \/ WriterStep(w)
    BY DEF RegistryWrite
  <2> USE DEF RegistryInv, EntriesMatchWriter, NothingFromTheFuture, Agree,
              StampNotNewer, WriterGoes, mapVars
  <2>1. CASE BeginUpdate(w)
    BY <1>1, <2>1 DEF BeginUpdate
  <2>2. CASE BeginRemove(w)
    BY <1>1, <2>2 DEF BeginRemove
  <2>3. CASE InsertMetrics(w)
    BY <1>1, <2>3 DEF InsertMetrics
  <2>4. CASE InsertLastUpdate(w)
    BY <1>1, <2>4 DEF InsertLastUpdate
  <2>5. CASE InsertTimestamp(w)
    BY <1>1, <2>5 DEF InsertTimestamp
  <2>6. CASE RemoveMetrics(w)
    BY <1>1, <2>6 DEF RemoveMetrics
  <2>7. CASE RemoveLastUpdate(w)
    BY <1>1, <2>7 DEF RemoveLastUpdate
  <2>8. CASE RemoveTimestamp(w)
    BY <1>1, <2>8 DEF RemoveTimestamp
  <2>9. QED
    BY <2>1, <2>2, <2>3, <2>4, <2>5, <2>6, <2>7, <2>8
    DEF WriterStep, ContinueUpdate, ContinueRemove
<1>3. NoScrapeNoPoints' /\ RenderedFresh'
  BY <1>1 DEF RegistryInv, NoScrapeNoPoints, RenderedFresh, NothingYet
<1>4. QED
  BY <1>2, <1>3 DEF RegistryInv

\* A step of a scrape: the interesting one renders the points of a cluster.
LEMMA ScrapeKeeps == RegistryInv /\ RegistryTypeOK' /\ Scrape => RegistryInv'
<1> SUFFICES ASSUME RegistryInv, RegistryTypeOK', Scrape PROVE RegistryInv'
  OBVIOUS
<1> USE AbsentAssumption, ThresholdAssumption DEF RegistryTypeOK, Entry
<1>1. \A c \in Clusters : EntriesMatchWriter(c)' /\ NothingFromTheFuture(c)'
  BY DEF RegistryInv, Scrape, EntriesMatchWriter, NothingFromTheFuture, Agree,
         StampNotNewer, mapVars, writerVars
<1>2. NoScrapeNoPoints' /\ RenderedFresh'
  <2> USE DEF NoScrapeNoPoints, RenderedFresh, NothingYet
  <2>1. CASE BeginScrape
    BY <2>1 DEF RegistryInv, BeginScrape
  <2>2. CASE BeginStamps
    BY <2>2 DEF RegistryInv, BeginStamps
  <2>3. CASE EndScrape
    BY <2>3 DEF RegistryInv, EndScrape
  <2>4. ASSUME NEW c \in Clusters, RenderPoints(c)
        PROVE  NoScrapeNoPoints' /\ RenderedFresh'
    <3>1. metrics[c] # Absent /\ lastUpdate[c] # Absent
            => lastUpdate[c] <= metrics[c]
      BY DEF RegistryInv, EntriesMatchWriter, Agree, StampNotNewer, WriterSteps
    <3>2. RenderedFresh'
      BY <2>4, <3>1 DEF RegistryInv, RenderPoints, Fresh
    <3>3. NoScrapeNoPoints'
      BY <2>4 DEF RenderPoints
    <3>4. QED BY <3>2, <3>3
  <2>5. ASSUME NEW c \in Clusters, RenderStamp(c)
        PROVE  NoScrapeNoPoints' /\ RenderedFresh'
    BY <2>5 DEF RegistryInv, RenderStamp
  <2>6. QED
    BY <2>1, <2>2, <2>3, <2>4, <2>5 DEF Scrape
<1>3. QED
  BY <1>1, <1>2 DEF RegistryInv

\* Time passing makes nothing rendered older: a scrape has read the clock.
LEMMA TickKeeps == RegistryInv /\ RegistryTypeOK' /\ Tick => RegistryInv'
<1> USE AbsentAssumption DEF RegistryTypeOK, Entry
<1>1. QED
  BY DEF RegistryInv, Tick, EntriesMatchWriter, NothingFromTheFuture, Agree,
         StampNotNewer, NoScrapeNoPoints, RenderedFresh, NothingYet,
         mapVars, writerVars, scrapeVars

\* The strengthened invariant holds throughout.
LEMMA RegistryInductive == RegistrySpec => []RegistryInv
<1>1. RegistryInit => RegistryInv
  BY AbsentAssumption
  DEF RegistryInit, RegistryInv, RegistryTypeOK, EntriesMatchWriter, Agree,
      NothingFromTheFuture, StampNotNewer, NoScrapeNoPoints, RenderedFresh,
      NothingYet, Entry, WriterSteps
<1>2. RegistryInv /\ [RegistryNext]_registryVars => RegistryInv'
  <2> SUFFICES ASSUME RegistryInv, [RegistryNext]_registryVars, RegistryTypeOK'
               PROVE  RegistryInv'
    BY RegistryTypeStep DEF RegistryInv
  <2>1. CASE UNCHANGED registryVars
    BY <2>1 DEF RegistryInv, RegistryTypeOK, EntriesMatchWriter, Agree,
                NothingFromTheFuture, StampNotNewer, NoScrapeNoPoints,
                RenderedFresh, NothingYet, registryVars, mapVars, writerVars,
                scrapeVars
  <2>2. CASE HealthReport
    BY <2>2 DEF RegistryInv, RegistryTypeOK, EntriesMatchWriter, Agree,
                NothingFromTheFuture, StampNotNewer, NoScrapeNoPoints,
                RenderedFresh, NothingYet, HealthReport, mapVars, writerVars,
                scrapeVars
  <2>3. QED
    BY <2>1, <2>2, WriteKeeps, ScrapeKeeps, TickKeeps DEF RegistryNext
<1>3. QED
  BY <1>1, <1>2, PTL DEF RegistrySpec

\* No scrape returns points older than the threshold, whatever the writers do
\* while it runs.
THEOREM ScrapesAreFresh == RegistrySpec => []RenderedFresh
<1>1. RegistryInv => RenderedFresh
  BY DEF RegistryInv
<1>2. QED BY <1>1, RegistryInductive, PTL

\* A cluster is in the three maps as one update left it, or in none.
THEOREM EntriesAreWhole == RegistrySpec => []MapsAgree
<1>1. RegistryInv => MapsAgree
  BY DEF RegistryInv, MapsAgree, EntriesMatchWriter, Agree
<1>2. QED BY <1>1, RegistryInductive, PTL

\* The timestamp of a stale cluster is rendered only while a call is one map
\* operation away from replacing or removing it.
THEOREM StaleStampsAreLeaving == RegistrySpec => StaleStampIsOnItsWayOut
<1> DEFINE OnItsWayOut ==
      \A c \in Clusters :
          /\ stamps'[c] \notin {Absent, stamps[c]}
          /\ scrapeStart - stamps'[c] > StalenessThreshold
          => writer[c] \in {"insert_timestamp", "remove_timestamp"}
<1>1. RegistryInv /\ [RegistryNext]_registryVars => [OnItsWayOut]_registryVars
  <2> SUFFICES ASSUME RegistryInv, RegistryNext, NEW c \in Clusters,
                      stamps'[c] \notin {Absent, stamps[c]},
                      scrapeStart - stamps'[c] > StalenessThreshold,
                      writer[c] \notin {"insert_timestamp", "remove_timestamp"}
               PROVE  FALSE
    OBVIOUS
  <2> USE AbsentAssumption, ThresholdAssumption DEF RegistryInv, RegistryTypeOK, Entry
  <2>1. RenderStamp(c)
    <3>1. CASE RegistryWrite \/ HealthReport \/ Tick
      BY <3>1 DEF RegistryWrite, HealthReport, Tick, scrapeVars
    <3>2. CASE BeginScrape \/ BeginStamps
      BY <3>2 DEF BeginScrape, BeginStamps
    <3>3. CASE EndScrape
      BY <3>3 DEF EndScrape, NothingYet
    <3>4. ASSUME NEW d \in Clusters, RenderPoints(d) PROVE FALSE
      BY <3>4 DEF RenderPoints
    <3>5. ASSUME NEW d \in Clusters, RenderStamp(d) PROVE d = c
      BY <3>5 DEF RenderStamp
    <3> QED
      BY <3>1, <3>2, <3>3, <3>4, <3>5 DEF RegistryNext, Scrape
  <2>2. lastUpdateTimestamp[c] = lastUpdate[c]
    BY DEF EntriesMatchWriter, Agree, WriterSteps
  <2> QED
    BY <2>1, <2>2 DEF RenderStamp, Fresh
<1> QED
  BY <1>1, RegistryInductive, PTL DEF RegistrySpec, StaleStampIsOnItsWayOut

-----------------------------------------------------------------------------
(* The managers.                                                           *)

(***************************************************************************)
(* The argument for ClusterExport: a manager that is not at rest remembers  *)
(* that it leads; a cluster whose manager does not remember it has nothing  *)
(* in the registry; and an update stored without leadership ends the cycle, *)
(* after which the manager cannot start another one without it.             *)
(***************************************************************************)
Inserting(c) == writer[c] \in {"insert_metrics", "insert_last_update",
                               "insert_timestamp"}

Removing(c) == writer[c] \in {"remove_metrics", "remove_last_update",
                              "remove_timestamp"}

CallsMatchPlace(c) ==
    /\ Inserting(c) => pc[c] = "publishing"
    /\ Removing(c) => pc[c] \in {"demoting", "stopping"}

BusyRemembersLeading(c) ==
    /\ pc[c] \in {"demoting", "collecting", "sampling", "publishing",
                  "recycling", "backoff"} => wasLeader[c]
    /\ pc[c] = "unspawned" => ~wasLeader[c]

WithdrawnExportsNothing(c) ==
    /\ ~wasLeader[c] => metrics[c] = Absent
    /\ pc[c] \in {"demoting", "stopping"} /\ Withdrawn(c) => metrics[c] = Absent
    /\ pc[c] = "stopped" => metrics[c] = Absent

LateOnce(c) ==
    /\ latePublishes[c] \in {0, 1}
    /\ ~leader /\ latePublishes[c] = 1 =>
         /\ pc[c] \notin {"collecting", "sampling"}
         /\ writer[c] # "insert_metrics"

ManagerInv(c) ==
    /\ CallsMatchPlace(c)
    /\ BusyRemembersLeading(c)
    /\ WithdrawnExportsNothing(c)
    /\ LateOnce(c)

ManagersInv == TypeOK /\ \A c \in Clusters : ManagerInv(c)

-----------------------------------------------------------------------------
(* The registry's own specification covers what the managers do to it.      *)

\* A step of a manager is a call of the registry, a health report or nothing.
LEMMA ManagerStepUsesRegistry ==
    ASSUME NEW c \in Clusters, ManagerStep(c), UNCHANGED <<now, scrapeVars>>
    PROVE  [RegistryNext]_registryVars
<1> USE DEF RegistryNext, registryVars
<1>1. CASE NoRegistryCall /\ UNCHANGED healthy
  BY <1>1 DEF NoRegistryCall
<1>2. CASE NoRegistryCall /\ \E h \in BOOLEAN : SetHealthy(h)
  BY <1>2 DEF NoRegistryCall, HealthReport
<1>3. CASE (BeginUpdate(c) \/ BeginRemove(c)) /\ UNCHANGED healthy
  BY <1>3 DEF RegistryWrite
<1>4. QED
  BY <1>1, <1>2, <1>3
  DEF ManagerStep, FailToCreate, Start, TickAsLeader, TickAfterLoss, EndDemotion,
      Collected, Sampled, Published, Recycled, CollectionFails,
      CollectionTimesOut, WakeUp, ReceiveShutdown, Stopped

\* Every step of the managers is a step of the registry or leaves it alone.
LEMMA StepUsesRegistry == [ManagersNext]_vars => [RegistryNext]_registryVars
<1> SUFFICES ASSUME [ManagersNext]_vars PROVE [RegistryNext]_registryVars
  OBVIOUS
<1>1. CASE /\ \E c \in Clusters : ManagerStep(c)
           /\ UNCHANGED <<now, scrapeVars, processVars, latePublishes>>
  BY <1>1, ManagerStepUsesRegistry
<1>2. CASE /\ \E c \in Clusters : RegistryStep(c)
           /\ UNCHANGED <<now, scrapeVars, processVars>>
  BY <1>2 DEF RegistryStep, RegistryNext, RegistryWrite
<1>3. CASE ProcessEvent
  BY <1>3 DEF ProcessEvent
<1>4. CASE UNCHANGED vars
  BY <1>4 DEF vars
<1>5. QED
  BY <1>1, <1>2, <1>3, <1>4 DEF ManagersNext

\* The managers keep to one call per cluster at a time, as the registry assumes:
\* what is proved of the registry holds of the process.
THEOREM ManagersUseRegistry == ManagersSpec => RegistrySpec
<1>1. Init => RegistryInit
  BY DEF Init
<1>2. QED
  BY <1>1, StepUsesRegistry, PTL DEF ManagersSpec, RegistrySpec

-----------------------------------------------------------------------------
(* Types.                                                                   *)

\* A step of a manager keeps the types of what managers own.
LEMMA ManagerTypeStep ==
    ASSUME TypeOK, RegistryTypeOK', NEW c \in Clusters, ManagerStep(c),
           UNCHANGED <<processVars, latePublishes>>
    PROVE  TypeOK'
<1> USE BackoffAssumption, ErrorsAssumption, RecycleAssumption
    DEF TypeOK, Goes, Places, processVars
<1> OneMoreError(c) \in 0..MaxErrors
  BY DEF OneMoreError
<1>1. CASE FailToCreate(c)
  BY <1>1 DEF FailToCreate
<1>2. CASE Start(c)
  BY <1>2 DEF Start
<1>3. CASE TickAsLeader(c)
  BY <1>3 DEF TickAsLeader
<1>4. CASE TickAfterLoss(c)
  BY <1>4 DEF TickAfterLoss
<1>5. CASE EndDemotion(c)
  BY <1>5 DEF EndDemotion
<1>6. CASE Collected(c) \/ Recycled(c)
  BY <1>6 DEF Collected, Recycled
<1>7. CASE Sampled(c)
  BY <1>7 DEF Sampled
<1>8. CASE Published(c)
  BY <1>8 DEF Published
<1>9. CASE CollectionFails(c)
  BY <1>9 DEF CollectionFails
<1>10. CASE CollectionTimesOut(c)
  BY <1>10 DEF CollectionTimesOut
<1>11. CASE WakeUp(c)
  BY <1>11 DEF WakeUp
<1>12. CASE ReceiveShutdown(c) \/ Stopped(c)
  BY <1>12 DEF ReceiveShutdown, Stopped
<1>13. QED
  BY <1>1, <1>2, <1>3, <1>4, <1>5, <1>6, <1>7, <1>8, <1>9, <1>10, <1>11, <1>12
  DEF ManagerStep

\* No step changes a type.
LEMMA TypeStep == TypeOK /\ [ManagersNext]_vars => TypeOK'
<1> SUFFICES ASSUME TypeOK, [ManagersNext]_vars PROVE TypeOK'
  OBVIOUS
<1>1. RegistryTypeOK'
  BY StepUsesRegistry, RegistryTypeStep DEF TypeOK
<1>2. CASE /\ \E c \in Clusters : ManagerStep(c)
           /\ UNCHANGED <<now, scrapeVars, processVars, latePublishes>>
  BY <1>1, <1>2, ManagerTypeStep
<1>3. CASE /\ \E c \in Clusters : RegistryStep(c)
           /\ UNCHANGED <<now, scrapeVars, processVars>>
  BY <1>1, <1>3 DEF RegistryStep, TypeOK, processVars, managerVars
<1>4. CASE ProcessEvent
  <2>1. latePublishes' \in [Clusters -> Nat]
    BY <1>4 DEF ProcessEvent, GainLeadership, LoseLeadership, SignalShutdown, TypeOK
  <2>2. leader' \in BOOLEAN /\ shutdown' \in BOOLEAN
    BY <1>4 DEF ProcessEvent, GainLeadership, LoseLeadership, SignalShutdown, TypeOK
  <2>3. UNCHANGED managerVars
    BY <1>4 DEF ProcessEvent
  <2>4. QED
    BY <1>1, <2>1, <2>2, <2>3 DEF TypeOK, managerVars
<1>5. CASE UNCHANGED vars
  BY <1>1, <1>5 DEF vars, TypeOK, managerVars, processVars
<1>6. QED
  BY <1>2, <1>3, <1>4, <1>5 DEF ManagersNext

\* Every variable keeps its type, and no backoff exceeds its cap.
THEOREM TypeCorrect == ManagersSpec => []TypeOK
<1>1. Init => TypeOK
  <2>1. RegistryInit => RegistryTypeOK
    BY DEF RegistryInit, RegistryTypeOK, NothingYet, Entry, WriterSteps
  <2>2. 0 \in 0..MaxErrors /\ 1 \in 1..MaxBackoff
    BY BackoffAssumption, ErrorsAssumption
  <2>3. Init => /\ pc \in [Clusters -> Places]
                /\ wasLeader \in [Clusters -> BOOLEAN]
    BY DEF Init, Places
  <2>4. Init => /\ errors \in [Clusters -> 0..MaxErrors]
                /\ backoff \in [Clusters -> 1..MaxBackoff]
                /\ cycles \in [Clusters -> Nat]
                /\ latePublishes \in [Clusters -> Nat]
    BY <2>2 DEF Init
  <2>5. QED
    BY <2>1, <2>3, <2>4 DEF Init, TypeOK
<1>2. QED
  BY <1>1, TypeStep, PTL DEF ManagersSpec

-----------------------------------------------------------------------------
(* The health flag.                                                         *)

\* A failure of one manager counts against the process for as long as no manager
\* of the process succeeds, and never before its third in a row.
LEMMA HealthStep ==
    TypeOK /\ UnhealthyForAReason /\ [ManagersNext]_vars => UnhealthyForAReason'
<1> SUFFICES ASSUME TypeOK, UnhealthyForAReason, [ManagersNext]_vars
             PROVE  UnhealthyForAReason'
  OBVIOUS
<1> USE DEF UnhealthyForAReason
<1>1. ASSUME NEW c \in Clusters, ManagerStep(c) PROVE UnhealthyForAReason'
  <2>1. CASE UNCHANGED <<errors, healthy>>
    BY <2>1
  <2>2. CASE Published(c)
    BY <2>2 DEF Published, SetHealthy
  <2>3. CASE CollectionFails(c) \/ CollectionTimesOut(c)
    <3>1. errors' = [errors EXCEPT ![c] = OneMoreError(c)]
      BY <2>3 DEF CollectionFails, CollectionTimesOut
    <3>2. errors'[c] = OneMoreError(c)
          /\ \A d \in Clusters \ {c} : errors'[d] = errors[d]
      BY <3>1 DEF TypeOK
    <3>3. CASE OneMoreError(c) >= 3
      BY <3>2, <3>3
    <3>4. CASE ~(OneMoreError(c) >= 3)
      <4>1. ~(errors[c] >= 3)
        <5>1. errors[c] \in 0..MaxErrors
          BY DEF TypeOK
        <5>2. QED BY <3>4, <5>1, ErrorsAssumption DEF OneMoreError
      <4>2. healthy' = healthy
        BY <2>3, <3>4 DEF CollectionFails, CollectionTimesOut
      <4>3. QED BY <3>2, <4>1, <4>2
    <3>5. QED BY <3>3, <3>4
  <2>4. QED
    BY <1>1, <2>1, <2>2, <2>3
    DEF ManagerStep, FailToCreate, Start, TickAsLeader, TickAfterLoss,
        EndDemotion, Collected, Sampled, Recycled, WakeUp, ReceiveShutdown,
        Stopped
<1>2. ASSUME NEW c \in Clusters, RegistryStep(c) PROVE UnhealthyForAReason'
  BY <1>2 DEF RegistryStep, managerVars
<1>3. CASE ProcessEvent \/ UNCHANGED vars
  BY <1>3 DEF ProcessEvent, vars, managerVars, registryVars
<1>4. QED
  BY <1>1, <1>2, <1>3 DEF ManagersNext

\* An unhealthy process has a manager whose last three cycles or more failed.
THEOREM UnhealthyIsJustified == ManagersSpec => []UnhealthyForAReason
<1>1. Init => UnhealthyForAReason
  BY DEF Init, RegistryInit, UnhealthyForAReason
<1>2. QED
  BY <1>1, HealthStep, TypeCorrect, PTL DEF ManagersSpec

-----------------------------------------------------------------------------
(* The invariant behind the promise of ClusterExport.                       *)

\* Between two awaits a manager changes nothing of another manager's cluster.
LEMMA OthersUntouched ==
    ASSUME TypeOK, NEW c \in Clusters, ManagerStep(c) \/ RegistryStep(c)
    PROVE  \A d \in Clusters \ {c} :
             /\ pc'[d] = pc[d]
             /\ wasLeader'[d] = wasLeader[d]
             /\ writer'[d] = writer[d]
             /\ metrics'[d] = metrics[d]
<1> USE DEF TypeOK, RegistryTypeOK, Goes, WriterGoes, mapVars, writerVars,
            NoRegistryCall
<1>1. CASE RegistryStep(c)
  BY <1>1 DEF RegistryStep, managerVars, WriterStep, ContinueUpdate,
              ContinueRemove, InsertMetrics, InsertLastUpdate, InsertTimestamp,
              RemoveMetrics, RemoveLastUpdate, RemoveTimestamp
<1>2. CASE FailToCreate(c) \/ Start(c) \/ TickAsLeader(c) \/ EndDemotion(c)
  BY <1>2 DEF FailToCreate, Start, TickAsLeader, EndDemotion
<1>3. CASE Collected(c) \/ Published(c) \/ Recycled(c) \/ WakeUp(c) \/ Stopped(c)
  BY <1>3 DEF Collected, Published, Recycled, WakeUp, Stopped
<1>4. CASE CollectionFails(c) \/ CollectionTimesOut(c)
  BY <1>4 DEF CollectionFails, CollectionTimesOut
<1>5. CASE TickAfterLoss(c) \/ ReceiveShutdown(c)
  BY <1>5 DEF TickAfterLoss, ReceiveShutdown, BeginRemove
<1>6. CASE Sampled(c)
  BY <1>6 DEF Sampled, BeginUpdate
<1>7. QED
  BY <1>1, <1>2, <1>3, <1>4, <1>5, <1>6 DEF ManagerStep

\* What happens between two awaits of a manager keeps its part of the invariant.
LEMMA ManagerStepKeeps ==
    ASSUME TypeOK, NEW c \in Clusters, ManagerInv(c), ManagerStep(c),
           UNCHANGED <<leader, latePublishes>>
    PROVE  ManagerInv(c)'
<1> USE DEF TypeOK, RegistryTypeOK, ManagerInv, CallsMatchPlace,
            BusyRemembersLeading, WithdrawnExportsNothing, LateOnce, Inserting,
            Removing, Withdrawn, Goes, WriterGoes, mapVars, writerVars,
            NoRegistryCall
<1>1. CASE FailToCreate(c)
  BY <1>1 DEF FailToCreate
<1>2. CASE Start(c)
  BY <1>2 DEF Start
<1>3. CASE TickAsLeader(c)
  BY <1>3 DEF TickAsLeader
<1>4. CASE TickAfterLoss(c)
  BY <1>4 DEF TickAfterLoss, BeginRemove
<1>5. CASE EndDemotion(c)
  BY <1>5 DEF EndDemotion
<1>6. CASE Collected(c)
  BY <1>6 DEF Collected
<1>7. CASE Sampled(c)
  BY <1>7 DEF Sampled, BeginUpdate
<1>8. CASE Published(c)
  BY <1>8 DEF Published
<1>9. CASE Recycled(c) \/ WakeUp(c)
  BY <1>9 DEF Recycled, WakeUp
<1>10. CASE CollectionFails(c) \/ CollectionTimesOut(c)
  BY <1>10 DEF CollectionFails, CollectionTimesOut
<1>11. CASE ReceiveShutdown(c)
  BY <1>11 DEF ReceiveShutdown, BeginRemove
<1>12. CASE Stopped(c)
  BY <1>12 DEF Stopped
<1>13. QED
  BY <1>1, <1>2, <1>3, <1>4, <1>5, <1>6, <1>7, <1>8, <1>9, <1>10, <1>11, <1>12
  DEF ManagerStep

\* A map operation keeps the invariant of its cluster: an insert of points
\* without leadership is the first one since leadership was lost.
LEMMA RegistryStepKeeps ==
    ASSUME TypeOK, NEW c \in Clusters, ManagerInv(c), RegistryStep(c),
           UNCHANGED leader
    PROVE  ManagerInv(c)'
<1> USE DEF TypeOK, RegistryTypeOK, ManagerInv, CallsMatchPlace,
            BusyRemembersLeading, WithdrawnExportsNothing, LateOnce, Inserting,
            Removing, Withdrawn, WriterGoes, RegistryStep, managerVars
<1>1. CASE InsertMetrics(c)
  BY <1>1 DEF InsertMetrics
<1>2. CASE InsertLastUpdate(c) \/ InsertTimestamp(c)
  BY <1>2 DEF InsertLastUpdate, InsertTimestamp
<1>3. CASE RemoveMetrics(c)
  BY <1>3 DEF RemoveMetrics
<1>4. CASE RemoveLastUpdate(c) \/ RemoveTimestamp(c)
  BY <1>4 DEF RemoveLastUpdate, RemoveTimestamp
<1>5. QED
  BY <1>1, <1>2, <1>3, <1>4 DEF WriterStep, ContinueUpdate, ContinueRemove

\* The invariant of every manager holds throughout.
LEMMA ManagersInductive == ManagersSpec => []ManagersInv
<1>1. ASSUME Init, NEW c \in Clusters PROVE ManagerInv(c)
  <2>1. /\ pc[c] = "unspawned"
        /\ ~wasLeader[c]
        /\ latePublishes[c] = 0
    BY <1>1 DEF Init
  <2>2. writer[c] = "idle" /\ metrics[c] = Absent
    BY <1>1 DEF Init, RegistryInit, NothingYet
  <2>3. QED
    BY <2>1, <2>2 DEF ManagerInv, CallsMatchPlace, BusyRemembersLeading,
                      WithdrawnExportsNothing, LateOnce, Inserting, Removing
<1>2. Init => \A c \in Clusters : ManagerInv(c)
  BY <1>1
<1>3. ASSUME TypeOK, \A c \in Clusters : ManagerInv(c), [ManagersNext]_vars
      PROVE  \A c \in Clusters : ManagerInv(c)'
  <2>1. ASSUME NEW c \in Clusters, ManagerStep(c) \/ RegistryStep(c),
               ManagerInv(c)', UNCHANGED leader,
               \A d \in Clusters \ {c} : latePublishes'[d] = latePublishes[d]
        PROVE  \A d \in Clusters : ManagerInv(d)'
    BY <1>3, <2>1, OthersUntouched
    DEF ManagerInv, CallsMatchPlace, BusyRemembersLeading,
        WithdrawnExportsNothing, LateOnce, Inserting, Removing, Withdrawn
  <2>2. CASE /\ \E c \in Clusters : ManagerStep(c)
             /\ UNCHANGED <<now, scrapeVars, processVars, latePublishes>>
    BY <1>3, <2>1, <2>2, ManagerStepKeeps DEF processVars
  <2>3. CASE /\ \E c \in Clusters : RegistryStep(c)
             /\ UNCHANGED <<now, scrapeVars, processVars>>
    <3> PICK c \in Clusters : RegistryStep(c)
      BY <2>3
    <3>1. \A d \in Clusters \ {c} : latePublishes'[d] = latePublishes[d]
      BY DEF RegistryStep, TypeOK
    <3>2. ManagerInv(c)'
      BY <1>3, <2>3, RegistryStepKeeps DEF processVars
    <3>3. QED
      BY <2>1, <2>3, <3>1, <3>2 DEF processVars
  <2>4. CASE ProcessEvent
    BY <1>3, <2>4
    DEF ProcessEvent, GainLeadership, LoseLeadership, SignalShutdown, ManagerInv,
        CallsMatchPlace, BusyRemembersLeading, WithdrawnExportsNothing, LateOnce,
        Inserting, Removing, Withdrawn, registryVars, mapVars, writerVars,
        managerVars
  <2>5. CASE UNCHANGED vars
    BY <1>3, <2>5
    DEF vars, ManagerInv, CallsMatchPlace, BusyRemembersLeading,
        WithdrawnExportsNothing, LateOnce, Inserting, Removing, Withdrawn,
        registryVars, mapVars, writerVars, managerVars, processVars
  <2>6. QED
    BY <1>3, <2>2, <2>3, <2>4, <2>5 DEF ManagersNext
<1>4. TypeOK /\ (\A c \in Clusters : ManagerInv(c)) /\ [ManagersNext]_vars
        => (\A c \in Clusters : ManagerInv(c))'
  BY <1>3
<1>5. ManagersSpec => [](\A c \in Clusters : ManagerInv(c))
  BY <1>2, <1>4, TypeCorrect, PTL DEF ManagersSpec
<1>6. QED
  BY <1>5, TypeCorrect, PTL DEF ManagersInv

-----------------------------------------------------------------------------
(* The managers implement ClusterExport.                                    *)

Exports(c) == metrics[c] # Absent

\* A step of one manager that changes neither its phase nor what it exports is
\* no step of ClusterExport.
LEMMA StutterOfOne ==
    ASSUME TypeOK, NEW c \in Clusters, ManagerStep(c) \/ RegistryStep(c),
           UNCHANGED <<leader, latePublishes>>,
           PhaseOf(c)' = PhaseOf(c), Exports(c)' = Exports(c)
    PROVE  UNCHANGED Export!vars
<1>1. \A d \in Clusters : PhaseOf(d)' = PhaseOf(d)
  BY OthersUntouched DEF PhaseOf, Withdrawn
<1>2. \A d \in Clusters : Exports(d)' = Exports(d)
  BY OthersUntouched DEF Exports
<1>3. QED
  BY <1>1, <1>2 DEF Export!vars, Exports

\* A step of one manager with leadership and the count of late updates as they
\* were is a step of ClusterExport when it activates, retires or stops one.
LEMMA ManagerStepImplements ==
    ASSUME TypeOK, NEW c \in Clusters, ManagerInv(c), ManagerInv(c)',
           ManagerStep(c), UNCHANGED <<leader, latePublishes>>
    PROVE  [Export!Next]_(Export!vars)
<1> DEFINE Stutters == PhaseOf(c)' = PhaseOf(c) /\ Exports(c)' = Exports(c)
<1>1. CASE Stutters
  BY <1>1, StutterOfOne
<1>2. ASSUME Start(c) \/ TickAsLeader(c), ~Stutters PROVE Export!Activate(c)
  <2>1. /\ pc[c] \in {"unspawned", "select"}
        /\ pc'[c] \in {"select", "collecting"}
        /\ wasLeader'[c] \in BOOLEAN /\ wasLeader'[c] = leader
        /\ Exports(c)' = Exports(c)
    BY <1>2 DEF Start, TickAsLeader, Goes, Exports, NoRegistryCall, mapVars, TypeOK
  <2>2. PhaseOf(c)' = IF leader THEN "active" ELSE "standby"
    BY <2>1 DEF PhaseOf
  <2>3. ~leader => PhaseOf(c) = "standby"
    BY <1>2, <2>1 DEF Start, TickAsLeader, Goes, PhaseOf, ManagerInv,
                      BusyRemembersLeading
  <2>4. /\ leader
        /\ PhaseOf(c) = "standby"
        /\ PhaseOf(c)' = "active"
        /\ Exports(c)' = Exports(c)
    BY <1>2, <2>1, <2>2, <2>3 DEF PhaseOf
  <2>5. \A d \in Clusters \ {c} :
          PhaseOf(d)' = PhaseOf(d) /\ Exports(d)' = Exports(d)
    BY OthersUntouched DEF PhaseOf, Withdrawn, Exports
  <2>6. QED
    BY <2>4, <2>5 DEF Export!Activate, Exports
<1>3. ASSUME FailToCreate(c) PROVE Export!Stop(c)
  <2>1. /\ PhaseOf(c) # "stopped"
        /\ PhaseOf(c)' = "stopped"
        /\ ~Exports(c)'
    BY <1>3 DEF FailToCreate, Goes, PhaseOf, Exports, NoRegistryCall, mapVars,
                TypeOK, ManagerInv, BusyRemembersLeading, WithdrawnExportsNothing
  <2>2. \A d \in Clusters \ {c} :
          PhaseOf(d)' = PhaseOf(d) /\ Exports(d)' = Exports(d)
    BY OthersUntouched DEF PhaseOf, Withdrawn, Exports
  <2>3. QED
    BY <2>1, <2>2 DEF Export!Stop, Exports
<1>4. CASE TickAfterLoss(c) \/ EndDemotion(c)
  <2>1. Stutters
    BY <1>4 DEF TickAfterLoss, EndDemotion, BeginRemove, WriterGoes, Goes,
                PhaseOf, Withdrawn, Exports, NoRegistryCall, mapVars, writerVars,
                TypeOK, RegistryTypeOK, ManagerInv, BusyRemembersLeading
  <2>2. QED BY <1>1, <2>1
<1>5. CASE Collected(c) \/ Sampled(c) \/ Published(c) \/ Recycled(c)
  <2>1. Stutters
    BY <1>5 DEF Collected, Sampled, Published, Recycled, BeginUpdate, WriterGoes,
                Goes, PhaseOf, Withdrawn, Exports, NoRegistryCall, mapVars,
                writerVars, TypeOK, RegistryTypeOK
  <2>2. QED BY <1>1, <2>1
<1>6. CASE CollectionFails(c) \/ CollectionTimesOut(c) \/ WakeUp(c)
  <2>1. Stutters
    BY <1>6 DEF CollectionFails, CollectionTimesOut, WakeUp, Goes, PhaseOf,
                Withdrawn, Exports, NoRegistryCall, mapVars, writerVars, TypeOK
  <2>2. QED BY <1>1, <2>1
<1>7. CASE ReceiveShutdown(c) \/ Stopped(c)
  <2>1. Stutters
    BY <1>7 DEF ReceiveShutdown, Stopped, BeginRemove, WriterGoes, Goes, PhaseOf,
                Withdrawn, Exports, NoRegistryCall, mapVars, writerVars, TypeOK,
                RegistryTypeOK
  <2>2. QED BY <1>1, <2>1
<1>8. QED
  BY <1>1, <1>2, <1>3, <1>4, <1>5, <1>6, <1>7 DEF ManagerStep, Export!Next

\* Inserting the points publishes, removing them retires or stops the cluster,
\* the other map operations are invisible.
LEMMA RegistryStepImplements ==
    ASSUME TypeOK, NEW c \in Clusters, ManagerInv(c), RegistryStep(c),
           UNCHANGED leader
    PROVE  [Export!Next]_(Export!vars)
<1>1. \A d \in Clusters \ {c} :
        PhaseOf(d)' = PhaseOf(d) /\ Exports(d)' = Exports(d)
  BY OthersUntouched DEF PhaseOf, Withdrawn, Exports
<1> USE DEF RegistryStep, WriterGoes, managerVars, TypeOK, RegistryTypeOK,
            ManagerInv, CallsMatchPlace, BusyRemembersLeading, Inserting,
            Removing, PhaseOf, Withdrawn, Exports
<1>2. CASE InsertMetrics(c)
  <2>1. stamp[c] # Absent
    BY AbsentAssumption
  <2>2. PhaseOf(c) = "active" /\ PhaseOf(c)' = "active" /\ Exports(c)'
    BY <1>2, <2>1 DEF InsertMetrics
  <2>3. leader \/ latePublishes[c] = 0
    BY <1>2 DEF InsertMetrics, LateOnce
  <2>4. latePublishes' = [latePublishes EXCEPT ![c] = IF leader THEN @ ELSE 1]
    <3>1. CASE leader
      <4>1. latePublishes' = latePublishes
        BY <3>1
      <4>2. QED BY <3>1, <4>1
    <3>2. CASE ~leader
      <4>1. latePublishes' = [latePublishes EXCEPT ![c] = latePublishes[c] + 1]
        BY <1>2, <3>2 DEF InsertMetrics
      <4>2. latePublishes[c] + 1 = 1
        BY <2>3, <3>2
      <4>3. latePublishes' = [latePublishes EXCEPT ![c] = 1]
        BY <4>1, <4>2
      <4>4. QED BY <3>2, <4>3
    <3>3. QED BY <3>1, <3>2
  <2>5. \A d \in Clusters : PhaseOf(d)' = PhaseOf(d)
    BY <1>1, <2>2
  <2>6. [d \in Clusters |-> metrics'[d] # Absent]
          = [[d \in Clusters |-> metrics[d] # Absent] EXCEPT ![c] = TRUE]
    BY <1>1, <2>2
  <2>7. Export!Publish(c)
    BY <2>2, <2>3, <2>4, <2>5, <2>6 DEF Export!Publish
  <2>8. QED BY <2>7 DEF Export!Next
<1>3. CASE RemoveMetrics(c)
  <2>1. ~Exports(c)' /\ UNCHANGED latePublishes
    BY <1>3 DEF RemoveMetrics
  <2>2. CASE pc[c] = "demoting"
    <3>1. PhaseOf(c) = "active" /\ PhaseOf(c)' = "standby"
      BY <1>3, <2>2 DEF RemoveMetrics
    <3>2. Export!Retire(c)
      BY <1>1, <2>1, <3>1 DEF Export!Retire
    <3>3. QED BY <3>2 DEF Export!Next
  <2>3. CASE pc[c] = "stopping"
    <3>1. PhaseOf(c) # "stopped" /\ PhaseOf(c)' = "stopped"
      BY <1>3, <2>3 DEF RemoveMetrics
    <3>2. Export!Stop(c)
      BY <1>1, <2>1, <3>1 DEF Export!Stop
    <3>3. QED BY <3>2 DEF Export!Next
  <2>4. QED
    BY <1>3, <2>2, <2>3 DEF RemoveMetrics
<1>4. CASE \/ InsertLastUpdate(c) \/ InsertTimestamp(c)
           \/ RemoveLastUpdate(c) \/ RemoveTimestamp(c)
  <2>1. /\ UNCHANGED latePublishes
        /\ PhaseOf(c)' = PhaseOf(c)
        /\ Exports(c)' = Exports(c)
    BY <1>4 DEF InsertLastUpdate, InsertTimestamp, RemoveLastUpdate,
                RemoveTimestamp
  <2>2. QED BY <2>1, StutterOfOne
<1>5. QED
  BY <1>2, <1>3, <1>4 DEF WriterStep, ContinueUpdate, ContinueRemove

\* For any number of clusters the managers export only what was activated under
\* leadership, store at most one update after losing it, and never return after
\* they stopped.
THEOREM ManagersImplementExport == ManagersSpec => ExportPromise
<1>1. Init => Export!Init
  <2> SUFFICES ASSUME Init PROVE Export!Init
    OBVIOUS
  <2>1. \A c \in Clusters : PhaseOf(c) = "standby"
    BY DEF Init, PhaseOf
  <2>2. \A c \in Clusters : (metrics[c] # Absent) = FALSE
    BY DEF Init, RegistryInit, NothingYet
  <2>3. QED
    BY <2>1, <2>2 DEF Init, Export!Init
<1>2. ManagersInv /\ ManagersInv' /\ [ManagersNext]_vars
        => [Export!Next]_(Export!vars)
  <2> SUFFICES ASSUME ManagersInv, ManagersInv', [ManagersNext]_vars
               PROVE  [Export!Next]_(Export!vars)
    OBVIOUS
  <2>1. CASE /\ \E c \in Clusters : ManagerStep(c)
             /\ UNCHANGED <<now, scrapeVars, processVars, latePublishes>>
    BY <2>1, ManagerStepImplements DEF ManagersInv, processVars
  <2>2. CASE /\ \E c \in Clusters : RegistryStep(c)
             /\ UNCHANGED <<now, scrapeVars, processVars>>
    BY <2>2, RegistryStepImplements DEF ManagersInv, processVars
  <2>3. CASE ProcessEvent
    <3>1. \A c \in Clusters : PhaseOf(c)' = PhaseOf(c)
      BY <2>3 DEF ProcessEvent, registryVars, writerVars, managerVars, PhaseOf,
                  Withdrawn
    <3>2. UNCHANGED metrics
      BY <2>3 DEF ProcessEvent, registryVars, mapVars
    <3>3. CASE GainLeadership
      BY <3>1, <3>2, <3>3 DEF GainLeadership, Export!Next, Export!GainLeadership
    <3>4. CASE LoseLeadership
      BY <3>1, <3>2, <3>4 DEF LoseLeadership, Export!Next, Export!LoseLeadership
    <3>5. CASE SignalShutdown
      BY <3>1, <3>2, <3>5 DEF SignalShutdown, Export!vars
    <3>6. QED BY <2>3, <3>3, <3>4, <3>5 DEF ProcessEvent
  <2>4. CASE UNCHANGED vars
    <3>1. \A c \in Clusters : PhaseOf(c)' = PhaseOf(c)
      BY <2>4 DEF vars, registryVars, writerVars, managerVars, PhaseOf, Withdrawn
    <3>2. UNCHANGED <<metrics, leader, latePublishes>>
      BY <2>4 DEF vars, registryVars, mapVars, processVars
    <3>3. QED BY <3>1, <3>2 DEF Export!vars
  <2>5. QED
    BY <2>1, <2>2, <2>3, <2>4 DEF ManagersNext
<1>3. QED
  BY <1>1, <1>2, ManagersInductive, PTL
  DEF ManagersSpec, ExportPromise, Export!Spec
=============================================================================
