-------------------------- MODULE MetricsRegistry --------------------------
(***************************************************************************)
(* The registry every part of the exporter shares                          *)
(* (src/metrics/registry.rs).                                              *)
(*                                                                         *)
(* It is three DashMaps keyed by cluster, written one after the other with *)
(* no lock around the three, and a health flag.  A cluster has one writer, *)
(* its manager task, so the writers of different clusters never touch the  *)
(* same key; a scrape reads all keys, one lock at a time, while the        *)
(* writers run.  The steps of this module are the single map operations;   *)
(* everything between two of them may be interleaved with other tasks.     *)
(*                                                                         *)
(* The points stored for a cluster are represented by the instant at which *)
(* the update that stored them read the clock: properties only tell how    *)
(* old the data is and which update it comes from.                         *)
(***************************************************************************)
EXTENDS Integers

CONSTANTS
    Clusters,            \* names of the configured Kafka clusters
    Absent,              \* no entry under this key
    StalenessThreshold,  \* staleness_threshold, in clock ticks
    MaxTime              \* bound of the clock

ASSUME AbsentAssumption    == Absent \notin Int
ASSUME ThresholdAssumption == StalenessThreshold \in Nat \ {0}
ASSUME MaxTimeAssumption   == MaxTime \in Nat

VARIABLES
    metrics,              \* metrics map: the instant the points stand for
    lastUpdate,           \* last_update map (Instant)
    lastUpdateTimestamp,  \* last_update_timestamp map (Unix seconds)
    healthy,              \* the one health flag of the process
    now,                  \* the clock
    writer,               \* per cluster: the map operation its writer does next
    stamp,                \* per cluster: `now` as the update in progress read it
    scrapeStep,           \* the pass a GET /metrics is in
    scrapeStart,          \* the scrape's `now`
    scrapeTodo,           \* keys the current pass has not visited
    points,               \* points rendered so far, by cluster
    stamps                \* timestamp lines rendered so far, by cluster

mapVars      == <<metrics, lastUpdate, lastUpdateTimestamp>>
writerVars   == <<writer, stamp>>
scrapeVars   == <<scrapeStep, scrapeStart, scrapeTodo, points, stamps>>
registryVars == <<mapVars, healthy, now, writerVars, scrapeVars>>

Entry == Nat \cup {Absent}

WriterSteps == {"idle", "insert_metrics", "insert_last_update", "insert_timestamp",
                "remove_metrics", "remove_last_update", "remove_timestamp"}

NothingYet == [c \in Clusters |-> Absent]

RegistryInit ==
    /\ metrics = NothingYet
    /\ lastUpdate = NothingYet
    /\ lastUpdateTimestamp = NothingYet
    /\ healthy = TRUE
    /\ now = 0
    /\ writer = [c \in Clusters |-> "idle"]
    /\ stamp = [c \in Clusters |-> 0]
    /\ scrapeStep = "idle"
    /\ scrapeStart = 0
    /\ scrapeTodo = {}
    /\ points = NothingYet
    /\ stamps = NothingYet

-----------------------------------------------------------------------------
(* Writers: update_with_options and remove_cluster.                        *)

WriterGoes(c, from, to) ==
    /\ writer[c] = from
    /\ writer' = [writer EXCEPT ![c] = to]

\* The points are built and the clock is read before the first insert.
BeginUpdate(c) ==
    /\ WriterGoes(c, "idle", "insert_metrics")
    /\ stamp' = [stamp EXCEPT ![c] = now]
    /\ UNCHANGED mapVars

\* Faulty variant: the freshness stamp is inserted before the points.
StampFirstInsert(c) ==
    \/ /\ WriterGoes(c, "insert_metrics", "insert_last_update")
       /\ lastUpdate' = [lastUpdate EXCEPT ![c] = stamp[c]]
       /\ UNCHANGED <<metrics, lastUpdateTimestamp, stamp>>
    \/ /\ WriterGoes(c, "insert_last_update", "insert_timestamp")
       /\ metrics' = [metrics EXCEPT ![c] = stamp[c]]
       /\ UNCHANGED <<lastUpdate, lastUpdateTimestamp, stamp>>
    \/ /\ WriterGoes(c, "insert_timestamp", "idle")
       /\ lastUpdateTimestamp' = [lastUpdateTimestamp EXCEPT ![c] = stamp[c]]
       /\ stamp' = [stamp EXCEPT ![c] = 0]
       /\ UNCHANGED <<metrics, lastUpdate>>

InsertMetrics(c) ==
    /\ WriterGoes(c, "insert_metrics", "insert_last_update")
    /\ metrics' = [metrics EXCEPT ![c] = stamp[c]]
    /\ UNCHANGED <<lastUpdate, lastUpdateTimestamp, stamp>>

InsertLastUpdate(c) ==
    /\ WriterGoes(c, "insert_last_update", "insert_timestamp")
    /\ lastUpdate' = [lastUpdate EXCEPT ![c] = stamp[c]]
    /\ UNCHANGED <<metrics, lastUpdateTimestamp, stamp>>

InsertTimestamp(c) ==
    /\ WriterGoes(c, "insert_timestamp", "idle")
    /\ lastUpdateTimestamp' = [lastUpdateTimestamp EXCEPT ![c] = stamp[c]]
    /\ stamp' = [stamp EXCEPT ![c] = 0]
    /\ UNCHANGED <<metrics, lastUpdate>>

ContinueUpdate(c) ==
    InsertMetrics(c) \/ InsertLastUpdate(c) \/ InsertTimestamp(c)

BeginRemove(c) ==
    /\ WriterGoes(c, "idle", "remove_metrics")
    /\ UNCHANGED <<mapVars, stamp>>

RemoveMetrics(c) ==
    /\ WriterGoes(c, "remove_metrics", "remove_last_update")
    /\ metrics' = [metrics EXCEPT ![c] = Absent]
    /\ UNCHANGED <<lastUpdate, lastUpdateTimestamp, stamp>>

RemoveLastUpdate(c) ==
    /\ WriterGoes(c, "remove_last_update", "remove_timestamp")
    /\ lastUpdate' = [lastUpdate EXCEPT ![c] = Absent]
    /\ UNCHANGED <<metrics, lastUpdateTimestamp, stamp>>

\* Faulty variant: remove_cluster without its last line.
KeepTimestamp(c) ==
    /\ WriterGoes(c, "remove_timestamp", "idle")
    /\ UNCHANGED <<mapVars, stamp>>

RemoveTimestamp(c) ==
    /\ WriterGoes(c, "remove_timestamp", "idle")
    /\ lastUpdateTimestamp' = [lastUpdateTimestamp EXCEPT ![c] = Absent]
    /\ UNCHANGED <<metrics, lastUpdate, stamp>>

ContinueRemove(c) ==
    RemoveMetrics(c) \/ RemoveLastUpdate(c) \/ RemoveTimestamp(c)

\* The next map operation of a call already made.
WriterStep(c) == ContinueUpdate(c) \/ ContinueRemove(c)

SetHealthy(h) == healthy' = h

-----------------------------------------------------------------------------
(* A scrape: render_prometheus.                                            *)

\* An instant later than the scrape's own is fresh: duration_since saturates.
Fresh(c) == scrapeStart - lastUpdate[c] <= StalenessThreshold

\* Faulty variant: the filter's cutoff is computed up front, by subtraction.
CutoffScrape ==
    /\ scrapeStep = "idle"
    /\ scrapeStep' = "points"
    /\ scrapeStart' = now - StalenessThreshold
    /\ scrapeTodo' = Clusters
    /\ UNCHANGED <<points, stamps>>

BeginScrape ==
    /\ scrapeStep = "idle"
    /\ scrapeStep' = "points"
    /\ scrapeStart' = now
    /\ scrapeTodo' = Clusters
    /\ UNCHANGED <<points, stamps>>

\* The first pass meets a key: the entry of `metrics` is locked, `last_update`
\* is read, and the points are cloned when they are fresh.
RenderPoints(c) ==
    /\ scrapeStep = "points"
    /\ c \in scrapeTodo
    /\ scrapeTodo' = scrapeTodo \ {c}
    /\ points' = [points EXCEPT ![c] =
                    IF metrics[c] # Absent /\ lastUpdate[c] # Absent /\ Fresh(c)
                    THEN metrics[c] ELSE Absent]
    /\ UNCHANGED <<scrapeStep, scrapeStart, stamps>>

BeginStamps ==
    /\ scrapeStep = "points"
    /\ scrapeTodo = {}
    /\ scrapeStep' = "stamps"
    /\ scrapeTodo' = Clusters
    /\ UNCHANGED <<scrapeStart, points, stamps>>

\* Faulty variant: the second pass does not filter.
RenderAnyStamp(c) ==
    /\ scrapeStep = "stamps"
    /\ c \in scrapeTodo
    /\ scrapeTodo' = scrapeTodo \ {c}
    /\ stamps' = [stamps EXCEPT ![c] = lastUpdateTimestamp[c]]
    /\ UNCHANGED <<scrapeStep, scrapeStart, points>>

\* The second pass: the line is skipped only for an entry of `last_update`
\* that is there and stale.
RenderStamp(c) ==
    /\ scrapeStep = "stamps"
    /\ c \in scrapeTodo
    /\ scrapeTodo' = scrapeTodo \ {c}
    /\ stamps' = [stamps EXCEPT ![c] =
                    IF lastUpdateTimestamp[c] # Absent
                       /\ (lastUpdate[c] = Absent \/ Fresh(c))
                    THEN lastUpdateTimestamp[c] ELSE Absent]
    /\ UNCHANGED <<scrapeStep, scrapeStart, points>>

\* The response leaves the process.
EndScrape ==
    /\ scrapeStep = "stamps"
    /\ scrapeTodo = {}
    /\ scrapeStep' = "idle"
    /\ scrapeStart' = 0
    /\ points' = NothingYet
    /\ stamps' = NothingYet
    /\ UNCHANGED scrapeTodo

Scrape ==
    /\ \/ BeginScrape \/ BeginStamps \/ EndScrape
       \/ \E c \in Clusters : RenderPoints(c) \/ RenderStamp(c)
    /\ UNCHANGED <<mapVars, healthy, now, writerVars>>

Tick ==
    /\ now < MaxTime
    /\ now' = now + 1
    /\ UNCHANGED <<mapVars, healthy, writerVars, scrapeVars>>

-----------------------------------------------------------------------------
(* The registry under callers that keep to one writer per cluster.         *)

RegistryWrite ==
    /\ \E c \in Clusters : BeginUpdate(c) \/ BeginRemove(c) \/ WriterStep(c)
    /\ UNCHANGED <<healthy, now, scrapeVars>>

HealthReport ==
    /\ \E h \in BOOLEAN : SetHealthy(h)
    /\ UNCHANGED <<mapVars, now, writerVars, scrapeVars>>

RegistryNext == RegistryWrite \/ HealthReport \/ Scrape \/ Tick

RegistrySpec == RegistryInit /\ [][RegistryNext]_registryVars

-----------------------------------------------------------------------------
(* Properties.                                                             *)

\* Every variable keeps its type.
RegistryTypeOK ==
    /\ metrics \in [Clusters -> Entry]
    /\ lastUpdate \in [Clusters -> Entry]
    /\ lastUpdateTimestamp \in [Clusters -> Entry]
    /\ healthy \in BOOLEAN
    /\ now \in Nat
    /\ writer \in [Clusters -> WriterSteps]
    /\ stamp \in [Clusters -> Nat]
    /\ scrapeStep \in {"idle", "points", "stamps"}
    /\ scrapeStart \in Nat
    /\ scrapeTodo \in SUBSET Clusters
    /\ points \in [Clusters -> Entry]
    /\ stamps \in [Clusters -> Entry]

\* No scrape returns points of a cluster that are older than the threshold at
\* the instant the scrape read the clock, whatever the writers do meanwhile:
\* the filter of render_prometheus looks at another map than the one the
\* points come from, so this rests on the order of the three inserts.
RenderedFresh ==
    \A c \in Clusters :
        points[c] # Absent => scrapeStart - points[c] <= StalenessThreshold

\* Between two calls of its writer a cluster is in all three maps, written by
\* the same update, or in none of them: neither call leaves a torn entry.
MapsAgree ==
    \A c \in Clusters :
        writer[c] = "idle" =>
            /\ lastUpdate[c] = metrics[c]
            /\ lastUpdateTimestamp[c] = metrics[c]

\* A scrape prints the timestamp of a stale update only in the gap between two map
\* operations of a call that is about to replace or remove that timestamp: the
\* second pass filters by `last_update`, which both calls change first.
StaleStampIsOnItsWayOut ==
    [][\A c \in Clusters :
          /\ stamps'[c] \notin {Absent, stamps[c]}
          /\ scrapeStart - stamps'[c] > StalenessThreshold
          => writer[c] \in {"insert_timestamp", "remove_timestamp"}]_registryVars
=============================================================================
