-------------------------- MODULE CollectionCycle --------------------------
(***************************************************************************)
(* One cluster's collection cycles (OffsetCollector::collect_parallel in    *)
(* src/collector/offset_collector.rs, under the timeout ClusterManager::run *)
(* puts on them), with the three caches that outlive a cycle: the list of    *)
(* groups, the set of monitored topics, the cleanup policy per topic.        *)
(*                                                                          *)
(* Listing the groups and loading the metadata are blocking calls made       *)
(* inside the asynchronous function: the timeout of the cycle can only fire  *)
(* at the awaits between them.  Time is discrete; caches hold the age of     *)
(* what they hold, and an entry as old as its time to live is as good as     *)
(* none.  Groups and Topics are those the filters let through.  What the     *)
(* description, the watermarks and the offsets bring is left to              *)
(* DescribeGroups, LagSnapshot and GroupFetch; here they take time and fail. *)
(***************************************************************************)
EXTENDS Integers, FiniteSets

CONSTANTS
    Groups,
    Topics,
    GroupsTTL,          \* consumer_groups_cache_ttl
    MetadataTTL,        \* metadata_cache_ttl
    CompactedTTL,       \* compacted_topics_cache_ttl
    CollectionTimeout,  \* collection_timeout
    KafkaTimeout,       \* kafka_timeout, which bounds every call
    Calm                \* bound: a group or a topic stays as it is this long

ASSUME TimesAssumption ==
    /\ {GroupsTTL, MetadataTTL, CompactedTTL, Calm} \subseteq Nat
    /\ {CollectionTimeout, KafkaTimeout} \subseteq Nat \ {0}

VARIABLES
    groups,         \* Kafka: the groups there are
    policy,         \* Kafka: per topic, its cleanup policy
    since,          \* history: time since a group or topic last changed
    phase,          \* where the cycle is
    elapsed,        \* time since the cycle began
    waited,         \* time since the call in progress was made
    answer,         \* what the broker answered to it
    rosterCache, topicsCache, policyCache,
    roster,         \* the groups this cycle works on
    topics,         \* the topics it monitors
    toFetch,        \* topics whose policy is asked for
    compacted       \* topics of the snapshot that count as compacted

worldVars == <<groups, policy>>
callVars  == <<waited, answer>>
caches    == <<rosterCache, topicsCache, policyCache>>
workVars  == <<roster, topics, toFetch, compacted>>
vars == <<worldVars, since, phase, elapsed, callVars, caches, workVars>>

Policies == {"absent", "delete", "compact"}
Existing == {t \in Topics : policy[t] # "absent"}

Larger(a, b) == IF a > b THEN a ELSE b

\* The longest a cycle can take: a blocking call begun at the last moment, or
\* two in a row with no group to await in between.
LongestCycle == KafkaTimeout + Larger(CollectionTimeout, KafkaTimeout)

\* Beyond this nothing depends on how long ago a change was.
Horizon ==
    LongestCycle + KafkaTimeout + Larger(GroupsTTL, Larger(MetadataTTL, CompactedTTL))

-----------------------------------------------------------------------------
(* Caches.                                                                 *)

Stored(value)     == [age |-> 0, value |-> value]
NoList(ttl)       == [age |-> ttl, value |-> {}]
Fresh(entry, ttl) == entry.age < ttl

\* known: whether the broker's answer was about this topic at all.
NoPolicy == [age |-> CompactedTTL, flag |-> FALSE, known |-> FALSE]
PolicyRead(flag, known) ==
    IF CompactedTTL = 0 THEN NoPolicy ELSE [age |-> 0, flag |-> flag, known |-> known]

OlderList(entry, ttl) ==
    IF entry.age + 1 < ttl THEN [entry EXCEPT !.age = @ + 1] ELSE NoList(ttl)
OlderPolicy(entry) ==
    IF entry.age + 1 < CompactedTTL THEN [entry EXCEPT !.age = @ + 1] ELSE NoPolicy

Init ==
    /\ groups \in SUBSET Groups
    /\ policy \in [Topics -> Policies]
    /\ since = [x \in Groups \cup Topics |-> Horizon]
    /\ phase = "idle"
    /\ elapsed = 0
    /\ waited = 0 /\ answer = <<>>
    /\ rosterCache = NoList(GroupsTTL)
    /\ topicsCache = NoList(MetadataTTL)
    /\ policyCache = [t \in Topics |-> NoPolicy]
    /\ roster = {} /\ topics = {} /\ toFetch = {} /\ compacted = {}

-----------------------------------------------------------------------------
(* Kafka.                                                                  *)

Changes(x) ==
    /\ since[x] >= Calm
    /\ since' = [since EXCEPT ![x] = 0]

GroupComesOrGoes(g) ==
    /\ groups' = (groups \ {g}) \cup ({g} \ groups)
    /\ Changes(g)
    /\ UNCHANGED <<policy, phase, elapsed, callVars, caches, workVars>>

\* A topic is created, deleted or altered.
TopicChanges(t) ==
    /\ \E p \in Policies \ {policy[t]} : policy' = [policy EXCEPT ![t] = p]
    /\ Changes(t)
    /\ UNCHANGED <<groups, phase, elapsed, callVars, caches, workVars>>

\* What the broker knows at some moment of the call.
Reply ==
    CASE phase = "listing" -> groups
      [] phase = "loading" -> Existing
      [] phase = "configs" -> [t \in toFetch |-> policy[t]]

BrokerAnswers ==
    /\ phase \in {"listing", "loading", "configs"}
    /\ answer = <<>>
    /\ answer' = <<Reply>>
    /\ UNCHANGED <<worldVars, since, phase, elapsed, waited, caches, workVars>>

-----------------------------------------------------------------------------
(* The cycle.                                                              *)

GoTo(next) == phase' = next /\ waited' = 0 /\ answer' = <<>>

\* The cycle returns, fails or is dropped.
End ==
    /\ GoTo("idle")
    /\ elapsed' = 0
    /\ roster' = {} /\ topics' = {} /\ toFetch' = {} /\ compacted' = {}
    /\ UNCHANGED <<worldVars, since, caches>>

\* Faulty variant: a hit renews the entry.
BeginRenewing ==
    /\ phase = "idle"
    /\ IF Fresh(rosterCache, GroupsTTL)
       THEN /\ roster' = rosterCache.value
            /\ rosterCache' = Stored(roster')
            /\ GoTo("describing")
       ELSE UNCHANGED <<roster, rosterCache>> /\ GoTo("listing")
    /\ UNCHANGED <<worldVars, since, elapsed, topicsCache, policyCache,
                   topics, toFetch, compacted>>

Begin ==
    /\ phase = "idle"
    /\ IF Fresh(rosterCache, GroupsTTL)
       THEN roster' = rosterCache.value /\ GoTo("describing")
       ELSE UNCHANGED roster /\ GoTo("listing")
    /\ UNCHANGED <<worldVars, since, elapsed, caches, topics, toFetch, compacted>>

\* list_consumer_groups returns.
GroupsListed ==
    /\ phase = "listing"
    /\ answer # <<>>
    /\ roster' = answer[1]
    /\ rosterCache' = IF GroupsTTL = 0 THEN rosterCache ELSE Stored(answer[1])
    /\ GoTo("describing")
    /\ UNCHANGED <<worldVars, since, elapsed, topicsCache, policyCache,
                   topics, toFetch, compacted>>

\* The describe request settled every group, see GroupRequests, and
\* list_monitored_partitions looks into its cache.
Described ==
    /\ phase = "describing"
    /\ IF Fresh(topicsCache, MetadataTTL)
       THEN topics' = topicsCache.value /\ GoTo("marking")
       ELSE UNCHANGED topics /\ GoTo("loading")
    /\ UNCHANGED <<worldVars, since, elapsed, caches, roster, toFetch, compacted>>

\* fetch_metadata returns.
TopicsLoaded ==
    /\ phase = "loading"
    /\ answer # <<>>
    /\ topics' = answer[1]
    /\ topicsCache' = IF MetadataTTL = 0 THEN topicsCache ELSE Stored(answer[1])
    /\ GoTo("marking")
    /\ UNCHANGED <<worldVars, since, elapsed, rosterCache, policyCache,
                   roster, toFetch, compacted>>

Marked ==
    /\ phase = "marking"
    /\ GoTo("fetching")
    /\ UNCHANGED <<worldVars, since, elapsed, caches, workVars>>

Pruned(cache) == [t \in Topics |-> IF t \in topics THEN cache[t] ELSE NoPolicy]

\* Faulty variant: the topics to ask for are not restricted to the monitored.
MissingAll == {t \in Topics : ~Fresh(policyCache[t], CompactedTTL)}

\* CompactedTopicsCache::partition, its second part.
Missing == {t \in topics : ~Fresh(policyCache[t], CompactedTTL)}

\* Fetching the offsets never fails as a whole; the cycle is done when the cache
\* answers for the policy of every topic.
Fetched ==
    /\ phase = "fetching"
    /\ toFetch' = Missing
    /\ compacted' = {t \in topics \ Missing : policyCache[t].flag}
    /\ IF Missing = {}
       THEN GoTo("done") /\ policyCache' = Pruned(policyCache)
       ELSE GoTo("configs") /\ UNCHANGED policyCache
    /\ UNCHANGED <<worldVars, since, elapsed, rosterCache, topicsCache, roster, topics>>

CompactedIn(known) == {t \in known : answer[1][t] = "compact"}

\* Faulty variant: what is recorded is all monitored topics, asked for or not.
UpdatedForAll(known) ==
    [t \in Topics |->
        IF t \in topics THEN PolicyRead(t \in CompactedIn(known), TRUE)
                        ELSE policyCache[t]]

\* CompactedTopicsCache::update, with what fetch_compacted_topics_for returned.
Updated(known) ==
    [t \in Topics |->
        IF t \in toFetch THEN PolicyRead(t \in CompactedIn(known), t \in known)
                         ELSE policyCache[t]]

\* A topic DescribeConfigs has an error for counts as one that is not compacted.
ConfigsRead ==
    /\ phase = "configs"
    /\ answer # <<>>
    /\ \E known \in SUBSET {t \in toFetch : answer[1][t] # "absent"} :
          /\ policyCache' = Pruned(Updated(known))
          /\ compacted' = compacted \cup CompactedIn(known)
    /\ GoTo("done")
    /\ UNCHANGED <<worldVars, since, elapsed, rosterCache, topicsCache,
                   roster, topics, toFetch>>

\* The failure of the whole call is only warned about.
ConfigsFail ==
    /\ phase = "configs"
    /\ policyCache' = Pruned(policyCache)
    /\ GoTo("done")
    /\ UNCHANGED <<worldVars, since, elapsed, rosterCache, topicsCache, workVars>>

\* Faulty variant: the metadata call is repeated when it fails.
CallFailsRepeating ==
    \/ phase \in {"listing", "marking"} /\ End
    \/ /\ phase = "loading"
       /\ GoTo("loading")
       /\ UNCHANGED <<worldVars, since, elapsed, caches, workVars>>

\* An error of these calls is the error of the cycle.
CallFails == phase \in {"listing", "loading", "marking"} /\ End

\* The awaits, with something to wait for.
Awaiting ==
    \/ phase = "describing" /\ roster # {}
    \/ phase = "marking"
    \/ phase = "fetching" /\ roster # {}
    \/ phase = "configs"

\* tokio::time::timeout drops the cycle.
TimesOut == Awaiting /\ elapsed >= CollectionTimeout /\ End

\* The snapshot goes to the lag calculator.
Return == phase = "done" /\ End

\* A blocking call lasts its own timeout, an await until the cycle times out.
MayTakeTime ==
    \/ phase = "idle"
    \/ phase \in {"listing", "loading"} /\ waited < KafkaTimeout
    \/ Awaiting /\ elapsed < CollectionTimeout
       /\ (phase = "configs" => waited < KafkaTimeout)

Tick ==
    /\ MayTakeTime
    /\ since' = [x \in DOMAIN since |-> IF since[x] < Horizon THEN since[x] + 1 ELSE Horizon]
    /\ elapsed' = IF phase = "idle" THEN 0 ELSE elapsed + 1
    /\ waited' = IF phase \in {"listing", "loading", "configs"} THEN waited + 1 ELSE waited
    /\ rosterCache' = OlderList(rosterCache, GroupsTTL)
    /\ topicsCache' = OlderList(topicsCache, MetadataTTL)
    /\ policyCache' = [t \in Topics |-> OlderPolicy(policyCache[t])]
    /\ UNCHANGED <<worldVars, phase, answer, workVars>>

CycleStep ==
    \/ Begin \/ GroupsListed \/ Described \/ TopicsLoaded \/ Marked \/ Fetched
    \/ ConfigsRead \/ ConfigsFail \/ CallFails \/ TimesOut \/ Return

Next ==
    \/ CycleStep \/ BrokerAnswers \/ Tick
    \/ \E g \in Groups : GroupComesOrGoes(g)
    \/ \E t \in Topics : TopicChanges(t)

Spec == Init /\ [][Next]_vars

-----------------------------------------------------------------------------
(* Properties.                                                             *)

Lists(S, ttl) == [age : 0..ttl, value : SUBSET S]

\* Every variable keeps its type, and a cycle works on what it was told of.
TypeOK ==
    /\ groups \in SUBSET Groups
    /\ policy \in [Topics -> Policies]
    /\ since \in [Groups \cup Topics -> 0..Horizon]
    /\ phase \in {"idle", "listing", "describing", "loading", "marking",
                  "fetching", "configs", "done"}
    /\ elapsed \in Nat /\ waited \in 0..KafkaTimeout
    /\ rosterCache \in Lists(Groups, GroupsTTL)
    /\ topicsCache \in Lists(Topics, MetadataTTL)
    /\ policyCache \in
          [Topics -> [age : 0..CompactedTTL, flag : BOOLEAN, known : BOOLEAN]]
    /\ roster \in SUBSET Groups /\ topics \in SUBSET Topics
    /\ toFetch \in SUBSET topics /\ compacted \in SUBSET topics

\* The blocking calls put off the timeout of the cycle by one of theirs, and
\* not by more: a cycle, ended or timed out, has taken no longer.
OverrunBounded == elapsed <= LongestCycle

RecentEnough(x, ttl) == since[x] < ttl + KafkaTimeout + elapsed

\* A snapshot is made from a list of groups and topics that was right less than
\* a time to live and a call before the cycle began: older groups and topics are
\* in it, older gaps are not.  (A group may still be missing from the snapshot
\* because the description gave it up.)
SnapshotIsRecent ==
    phase = "done" =>
        /\ \A g \in Groups : (g \in roster) # (g \in groups) => RecentEnough(g, GroupsTTL)
        /\ \A t \in Topics : (t \in topics) # (t \in Existing) => RecentEnough(t, MetadataTTL)

\* A topic passes for compacted, or for not compacted, wrongly only when its
\* policy changed within the time to live, or when it could not be read: the
\* cache, its refresh and the pruning do not mix up topics.
CompactionForAReason ==
    phase = "done" =>
        \A t \in topics \cap Existing :
            \/ (t \in compacted) = (policy[t] = "compact")
            \/ RecentEnough(t, CompactedTTL)
            \/ t \notin compacted /\ ~policyCache[t].known
=============================================================================
