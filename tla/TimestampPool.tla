---------------------------- MODULE TimestampPool ----------------------------
(***************************************************************************)
(* Message-mode sampling: the timestamps of the messages groups of one      *)
(* partition committed (src/collector/timestamp_sampler.rs), read with a    *)
(* pool of consumers (src/kafka/consumer.rs) that the manager recycles.     *)
(*                                                                          *)
(* As with the group fetches, a cycle that times out leaves its fetches     *)
(* behind: they share the pool and the cache of timestamps with those of    *)
(* the cycles that follow, each cycle with its own semaphore.  A timestamp  *)
(* is represented by the offset of the message it was read from.  Retention *)
(* and compaction delete messages meanwhile.  The TTL of the cache has no   *)
(* clock here: an entry may have expired whenever it is looked at.          *)
(***************************************************************************)
EXTENDS Naturals, FiniteSets

CONSTANTS
    Groups,         \* the groups that consume the partition
    Rounds,         \* bound: fan-outs whose fetches are under way at once
    MaxConcurrent,  \* max_concurrent_fetches
    SkipDataLoss,   \* skip_data_loss_partitions
    MaxOffset,      \* bound of the offsets
    Consumers,      \* bound: consumers that can exist at once
    None,           \* no consumer
    Nothing,        \* no timestamp
    Absent          \* no entry in the cache

ASSUME LimitsAssumption  == MaxConcurrent \in Nat \ {0} /\ MaxOffset \in Nat
ASSUME RoundsAssumption  == IsFiniteSet(Rounds)
ASSUME SkipAssumption    == SkipDataLoss \in BOOLEAN
ASSUME SpecialAssumption == None \notin Consumers /\ Nothing \notin 0..MaxOffset

VARIABLES
    low,        \* the first offset retention has left
    log,        \* the offsets whose message a consumer can still read
    place,      \* where the manager is
    round,      \* the fan-out it waits for, or waited for last
    out,        \* per group: what the cycle's fetch came back with
    fresh,      \* the consumers of the pool under construction
    pool,       \* the idle consumers
    cache,      \* per group: an offset and its timestamp, or Absent
    task,       \* per round and group: where the fetch is
    asked,      \* per round and group: the offset it reads, while it is under way
    consumer,   \* per round and group: the consumer it has
    found,      \* per round and group: the timestamp it has read, or Nothing
    permits     \* per round: free permits of its semaphore

partition   == <<low, log>>
managerVars == <<place, round, fresh>>
taskVars    == <<task, asked, consumer, found, permits>>
vars == <<partition, managerVars, out, pool, cache, taskVars>>

Offsets == 0..MaxOffset

Tasks == Rounds \X Groups

\* ClusterManager::new makes the pool as large as the semaphore.
PoolSize == MaxConcurrent

UnderWay == {"waiting", "acquiring", "reading", "releasing", "storing"}

Ended(t) == task[t] = "ended"

InUse == {consumer[t] : t \in Tasks} \ {None}

Alive == pool \cup fresh \cup InUse

Init ==
    /\ low = 0
    /\ log = Offsets
    /\ place = "elsewhere"
    /\ round \in Rounds
    /\ out = [g \in Groups |-> Absent]
    /\ fresh = {}
    /\ pool \in SUBSET Consumers /\ IsFiniteSet(pool) /\ Cardinality(pool) = PoolSize
    /\ cache = [g \in Groups |-> Absent]
    /\ task = [t \in Tasks |-> "ended"]
    /\ asked = [t \in Tasks |-> 0]
    /\ consumer = [t \in Tasks |-> None]
    /\ found = [t \in Tasks |-> Nothing]
    /\ permits = [r \in Rounds |-> 0]

-----------------------------------------------------------------------------
\* Retention deletes the first message of the partition.
Trim ==
    /\ low < MaxOffset
    /\ low' = low + 1
    /\ log' = log \ {low}
    /\ UNCHANGED <<managerVars, out, pool, cache, taskVars>>

\* The cleaner of a compacted topic deletes a message anywhere but at the end.
Compact ==
    /\ \E m \in log \ {MaxOffset} : log' = log \ {m}
    /\ UNCHANGED <<low, managerVars, out, pool, cache, taskVars>>

-----------------------------------------------------------------------------
(* The manager.                                                            *)

ManagerGoes(from, to) ==
    /\ place = from
    /\ place' = to

\* A cycle asks for groups that lag, with the offsets they have committed; which
\* these are is up to producers and consumers.  It skips a group that lost its
\* message if it is told to.
BeginSampling ==
    /\ ManagerGoes("elsewhere", "sampling")
    /\ \E r \in Rounds, lagging \in SUBSET Groups, committed \in [Groups -> Offsets] :
          LET requested(t) == /\ t[1] = r
                              /\ t[2] \in lagging
                              /\ ~(SkipDataLoss /\ committed[t[2]] < low)
          IN
          /\ \A g \in Groups : Ended(<<r, g>>)
          /\ round' = r
          /\ task' = [t \in Tasks |-> IF requested(t) THEN "waiting" ELSE task[t]]
          /\ asked' = [t \in Tasks |-> IF requested(t) THEN committed[t[2]]
                                       ELSE asked[t]]
          /\ permits' = [permits EXCEPT ![r] = MaxConcurrent]
    /\ UNCHANGED <<partition, out, fresh, pool, cache, consumer, found>>

\* join_all.
JoinAll ==
    /\ \A g \in Groups : Ended(<<round, g>>)
    /\ ManagerGoes("sampling", "sampled")
    /\ UNCHANGED <<partition, round, out, fresh, pool, cache, taskVars>>

\* The cycle stores its result, or times out and drops the handles of its fetches,
\* with the results that are there.
EndCycle ==
    /\ \/ ManagerGoes("sampling", "elsewhere")
       \/ ManagerGoes("sampled", "elsewhere")
    /\ out' = [g \in Groups |-> Absent]
    /\ UNCHANGED <<partition, round, fresh, pool, cache, taskVars>>

\* recycle_pool makes all new consumers before it touches the pool; when one
\* cannot be made, it drops them and leaves the pool alone.
BuildPool ==
    /\ ManagerGoes("elsewhere", "recycling")
    /\ fresh' \in SUBSET (Consumers \ Alive)
    /\ IsFiniteSet(fresh') /\ Cardinality(fresh') = PoolSize
    /\ UNCHANGED <<partition, round, out, pool, cache, taskVars>>

SwapPool ==
    /\ ManagerGoes("recycling", "elsewhere")
    /\ pool' = fresh
    /\ fresh' = {}
    /\ UNCHANGED <<partition, round, out, cache, taskVars>>

\* clear_stale_entries.
Sweep ==
    /\ place = "elsewhere"
    /\ \E expired \in SUBSET Groups :
          cache' = [g \in Groups |-> IF g \in expired THEN Absent ELSE cache[g]]
    /\ UNCHANGED <<partition, managerVars, out, pool, taskVars>>

ManagerStep ==
    BeginSampling \/ JoinAll \/ EndCycle \/ BuildPool \/ SwapPool \/ Sweep

-----------------------------------------------------------------------------
(* A fetch: get_timestamp on a blocking thread that carries the permit.     *)

TaskGoes(t, from, to) ==
    /\ task[t] = from
    /\ task' = [task EXCEPT ![t] = to]

TakePermit(t) ==
    /\ permits[t[1]] > 0
    /\ permits' = [permits EXCEPT ![t[1]] = @ - 1]

ReturnPermit(t) == permits' = [permits EXCEPT ![t[1]] = @ + 1]

\* The result is for the cycle that waits for the fetch, if one does.
Finish(t, result) ==
    /\ task' = [task EXCEPT ![t] = "ended"]
    /\ asked' = [asked EXCEPT ![t] = 0]
    /\ consumer' = [consumer EXCEPT ![t] = None]
    /\ found' = [found EXCEPT ![t] = Nothing]
    /\ out' = IF place = "sampling" /\ t[1] = round
              THEN [out EXCEPT ![t[2]] = result] ELSE out

Result(t, timestamp) == [offset |-> asked[t], timestamp |-> timestamp]

\* Faulty variant: a hit does not ask which offset the entry is for.
AnyHit(t) ==
    /\ permits[t[1]] > 0
    /\ cache[t[2]] # Absent
    /\ task[t] = "waiting"
    /\ Finish(t, Result(t, cache[t[2]].timestamp))
    /\ UNCHANGED <<permits, pool, cache>>

\* The cache knows the offset: the permit comes back at once.
Hit(t) ==
    /\ permits[t[1]] > 0
    /\ cache[t[2]] # Absent /\ cache[t[2]].offset = asked[t]
    /\ task[t] = "waiting"
    /\ Finish(t, Result(t, cache[t[2]].timestamp))
    /\ UNCHANGED <<permits, pool, cache>>

\* Faulty variant: the permit is not moved into the blocking closure.
MissWithoutPermit(t) ==
    /\ permits[t[1]] > 0
    /\ TaskGoes(t, "waiting", "acquiring")
    /\ UNCHANGED <<asked, consumer, found, permits, pool, cache, out>>

\* The entry is missing, for another offset, or expired.
Miss(t) ==
    /\ TakePermit(t)
    /\ TaskGoes(t, "waiting", "acquiring")
    /\ UNCHANGED <<asked, consumer, found, pool, cache, out>>

\* Faulty variant: the consumer stays in the pool while it is used.
AcquireShared(t) ==
    /\ TaskGoes(t, "acquiring", "reading")
    /\ \E c \in pool : consumer' = [consumer EXCEPT ![t] = c]
    /\ UNCHANGED <<asked, found, permits, pool, cache, out>>

AcquirePooled(t) ==
    /\ TaskGoes(t, "acquiring", "reading")
    /\ \E c \in pool :
          /\ pool' = pool \ {c}
          /\ consumer' = [consumer EXCEPT ![t] = c]
    /\ UNCHANGED <<asked, found, permits, cache, out>>

AcquireNew(t) ==
    /\ pool = {}
    /\ TaskGoes(t, "acquiring", "reading")
    /\ \E c \in Consumers \ Alive : consumer' = [consumer EXCEPT ![t] = c]
    /\ UNCHANGED <<asked, found, permits, pool, cache, out>>

\* The pool is empty and no consumer can be made.
AcquireFails(t) ==
    /\ pool = {}
    /\ task[t] = "acquiring"
    /\ Finish(t, Absent)
    /\ ReturnPermit(t)
    /\ UNCHANGED <<pool, cache>>

From(offset) == {m \in log : m >= offset}

\* The broker answers with the first message that is left at the offset or after it:
\* the offset's own, the next one compaction left, or, with auto.offset.reset at
\* earliest, the first of the log.  The code takes it without a look at its offset.
MessageAt(offset) == {m \in From(offset) : \A later \in From(offset) : m <= later}

\* assign and poll.  An error, or no message before the timeout, gives nothing.
Read(t) ==
    /\ TaskGoes(t, "reading", "releasing")
    /\ \/ \E m \in MessageAt(asked[t]) : found' = [found EXCEPT ![t] = m]
       \/ UNCHANGED found
    /\ UNCHANGED <<asked, consumer, permits, pool, cache, out>>

\* Without a timestamp there is nothing left to do.
AfterFetch(t) ==
    \/ /\ found[t] # Nothing
       /\ task' = [task EXCEPT ![t] = "storing"]
       /\ consumer' = [consumer EXCEPT ![t] = None]
       /\ UNCHANGED <<asked, found, permits, out>>
    \/ /\ found[t] = Nothing
       /\ Finish(t, Absent)
       /\ ReturnPermit(t)

\* Faulty variant: a consumer comes back into a pool that is full.
ReleaseAlways(t) ==
    /\ task[t] = "releasing"
    /\ pool' = pool \cup {consumer[t]}
    /\ AfterFetch(t)
    /\ UNCHANGED cache

\* The drop of PoolGuard: the consumer goes back unless the pool is full or it
\* cannot be unassigned.
Release(t) ==
    /\ task[t] = "releasing"
    /\ \/ Cardinality(pool) < PoolSize /\ pool' = pool \cup {consumer[t]}
       \/ UNCHANGED pool
    /\ AfterFetch(t)
    /\ UNCHANGED cache

\* A fetch nobody waits for stores its timestamp as well.
Store(t) ==
    /\ task[t] = "storing"
    /\ cache' = [cache EXCEPT ![t[2]] = Result(t, found[t])]
    /\ Finish(t, Result(t, found[t]))
    /\ ReturnPermit(t)
    /\ UNCHANGED pool

TaskStep(t) ==
    /\ \/ Hit(t) \/ Miss(t)
       \/ AcquirePooled(t) \/ AcquireNew(t) \/ AcquireFails(t)
       \/ Read(t) \/ Release(t) \/ Store(t)
    /\ UNCHANGED <<partition, managerVars>>

Next == Trim \/ Compact \/ ManagerStep \/ \E t \in Tasks : TaskStep(t)

Spec == Init /\ [][Next]_vars

-----------------------------------------------------------------------------
(* Properties.                                                             *)

Entries == {Absent} \cup [offset : Offsets, timestamp : Offsets]

\* Every variable keeps its type, and the pool its size.
TypeOK ==
    /\ low \in Offsets
    /\ log \in SUBSET Offsets
    /\ place \in {"elsewhere", "sampling", "sampled", "recycling"}
    /\ round \in Rounds
    /\ out \in [Groups -> Entries]
    /\ fresh \in SUBSET Consumers
    /\ pool \in SUBSET Consumers
    /\ IsFiniteSet(pool) /\ Cardinality(pool) <= PoolSize
    /\ cache \in [Groups -> Entries]
    /\ task \in [Tasks -> UnderWay \cup {"ended"}]
    /\ asked \in [Tasks -> Offsets]
    /\ consumer \in [Tasks -> Consumers \cup {None}]
    /\ found \in [Tasks -> Offsets \cup {Nothing}]
    /\ permits \in [Rounds -> Nat]

\* A fetch has its consumer to itself: no other fetch uses it, it is not idle in the
\* pool, and the recycling does not hand it out a second time.  BaseConsumer has
\* one assignment, so a shared one would read another partition's message.
ConsumersExclusive ==
    /\ \A t \in Tasks : consumer[t] \notin pool \cup fresh
    /\ \A t, u \in Tasks : consumer[t] = consumer[u] /\ consumer[t] # None => t = u
    /\ pool \cap fresh = {}

\* The timestamp a cycle publishes for a group is that of no message the group has
\* consumed, and of none behind one it has still to read: only messages that
\* retention or compaction deleted lie between the offset the cycle asked for and
\* the message whose timestamp it shows, wherever it comes from: a fetch, the
\* cache, or a fetch of an earlier cycle that answered late.
TimestampBelongs ==
    \A g \in Groups :
        out[g] # Absent =>
            /\ out[g].offset <= out[g].timestamp
            /\ \A m \in From(out[g].offset) : out[g].timestamp <= m

RoundsUnderWay == {r \in Rounds : \E g \in Groups : ~Ended(<<r, g>>)}

\* The consumers in existence, each of them a whole client, are no more than the
\* pool and one semaphore of each fan-out under way allow.  While the pool is
\* recycled a second one exists beside them.
ConsumersBounded ==
    Cardinality(pool \cup InUse)
        <= MaxConcurrent * (1 + Cardinality(RoundsUnderWay))
=============================================================================
