------------------------ MODULE TimestampPool_proofs ------------------------
(***************************************************************************)
(* Proofs about TimestampPool: types and the size of the pool, exclusive    *)
(* use of the consumers, their number, and the origin of the timestamps,    *)
(* for any groups, any number of fan-outs under way, any pool and any log.  *)
(***************************************************************************)
EXTENDS TimestampPool, FiniteSetTheorems, TLAPS

\* What a fetch has at the places it goes through.
FetchKnown ==
    \A t \in Tasks :
        /\ task[t] \in {"ended", "waiting", "acquiring", "reading"} => found[t] = Nothing
        /\ task[t] \in {"reading", "releasing"} => consumer[t] # None
        /\ task[t] = "storing" => found[t] # Nothing

\* The pool under construction is no larger than the pool it will replace.
FreshKnown ==
    place = "recycling" => IsFiniteSet(fresh) /\ Cardinality(fresh) <= PoolSize

\* A timestamp is of no message before the offset, and of none behind one that is left
\* after it.
Fits(offset, timestamp) ==
    offset <= timestamp /\ \A m \in From(offset) : timestamp <= m

TimestampsFit ==
    /\ \A g \in Groups : cache[g] # Absent => Fits(cache[g].offset, cache[g].timestamp)
    /\ \A g \in Groups : out[g] # Absent => Fits(out[g].offset, out[g].timestamp)
    /\ \A t \in Tasks : found[t] # Nothing => Fits(asked[t], found[t])

Inv == TypeOK /\ ConsumersExclusive /\ FetchKnown /\ FreshKnown /\ TimestampsFit

-----------------------------------------------------------------------------
LEMMA InvInit == Init => Inv
<1> SUFFICES ASSUME Init PROVE Inv
  OBVIOUS
<1> USE LimitsAssumption, SpecialAssumption
<1>1. TypeOK
  BY DEF Init, TypeOK, Offsets, Entries, PoolSize, Tasks
<1>2. ConsumersExclusive
  BY DEF Init, ConsumersExclusive
<1>3. FetchKnown /\ FreshKnown /\ TimestampsFit
  BY DEF Init, FetchKnown, FreshKnown, TimestampsFit
<1> QED
  BY <1>1, <1>2, <1>3 DEF Inv

\* Retention and compaction only leave fewer messages to compare with.
LEMMA DeletionKeepsInv ==
    ASSUME Inv, low' \in Offsets, log' \subseteq log,
           UNCHANGED <<managerVars, out, pool, cache, taskVars>>
    PROVE  Inv'
<1> USE DEF Inv, managerVars, taskVars
<1>1. TypeOK'
  BY DEF TypeOK
<1>2. ConsumersExclusive' /\ FetchKnown' /\ FreshKnown'
  BY DEF ConsumersExclusive, FetchKnown, FreshKnown
<1>3. \A o, m : Fits(o, m) => Fits(o, m)'
  BY DEF Fits, From
<1>4. TimestampsFit'
  <2>1. ASSUME NEW g \in Groups, cache[g] # Absent
        PROVE  Fits(cache[g].offset, cache[g].timestamp)'
    BY <1>3, <2>1 DEF TimestampsFit, Fits, From
  <2>2. ASSUME NEW g \in Groups, out[g] # Absent
        PROVE  Fits(out[g].offset, out[g].timestamp)'
    BY <1>3, <2>2 DEF TimestampsFit, Fits, From
  <2>3. ASSUME NEW t \in Tasks, found[t] # Nothing
        PROVE  Fits(asked[t], found[t])'
    BY <1>3, <2>3 DEF TimestampsFit, Fits, From
  <2> QED
    BY <2>1, <2>2, <2>3 DEF TimestampsFit
<1> QED
  BY <1>1, <1>2, <1>4

LEMMA LogKeepsInv == ASSUME Inv, Trim \/ Compact PROVE Inv'
<1>1. low' \in Offsets /\ log' \subseteq log
  BY LimitsAssumption DEF Trim, Compact, Inv, TypeOK, Offsets
<1>2. UNCHANGED <<managerVars, out, pool, cache, taskVars>>
  BY DEF Trim, Compact
<1> QED
  BY <1>1, <1>2, DeletionKeepsInv

-----------------------------------------------------------------------------
\* The manager's own steps.
LEMMA ManagerKeepsInv == ASSUME Inv, ManagerStep PROVE Inv'
<1> USE LimitsAssumption, SpecialAssumption DEF Inv
<1>1. CASE BeginSampling
  <2>1. PICK r \in Rounds, lagging \in SUBSET Groups,
             committed \in [Groups -> Offsets] :
           LET requested(t) == /\ t[1] = r
                               /\ t[2] \in lagging
                               /\ ~(SkipDataLoss /\ committed[t[2]] < low)
           IN
           /\ \A g \in Groups : Ended(<<r, g>>)
           /\ round' = r
           /\ task' = [t \in Tasks |-> IF requested(t) THEN "waiting" ELSE task[t]]
           /\ asked' = [t \in Tasks |-> IF requested(t) THEN committed[t[2]]
                                        ELSE asked[t]]
           /\ permits' = [permits EXCEPT ![r] = MaxConcurrent]
    BY <1>1 DEF BeginSampling
  <2>2. /\ place' = "sampling"
        /\ UNCHANGED <<partition, out, fresh, pool, cache, consumer, found>>
    BY <1>1 DEF BeginSampling, ManagerGoes
  <2>3. \A t \in Tasks : \/ task'[t] = task[t] /\ asked'[t] = asked[t]
                         \/ /\ task[t] = "ended" /\ task'[t] = "waiting"
                            /\ asked'[t] \in Offsets
    BY <2>1 DEF Tasks, Ended
  <2>4. TypeOK'
    <3>1. task' \in [Tasks -> UnderWay \cup {"ended"}]
      BY <2>1 DEF TypeOK, UnderWay
    <3>2. asked' \in [Tasks -> Offsets]
      BY <2>1, <2>3 DEF TypeOK
    <3>3. permits' \in [Rounds -> Nat] /\ round' \in Rounds
      BY <2>1 DEF TypeOK
    <3> QED
      BY <2>2, <3>1, <3>2, <3>3 DEF TypeOK, partition
  <2>5. ConsumersExclusive' /\ FreshKnown'
    BY <2>2 DEF ConsumersExclusive, FreshKnown
  <2>6. FetchKnown'
    BY <2>2, <2>3 DEF FetchKnown
  <2>7. TimestampsFit'
    BY <2>2, <2>3 DEF TimestampsFit, FetchKnown, Fits, From, partition
  <2> QED
    BY <2>4, <2>5, <2>6, <2>7
<1>2. CASE JoinAll
  BY <1>2 DEF JoinAll, ManagerGoes, taskVars, TypeOK, ConsumersExclusive,
              FetchKnown, FreshKnown, TimestampsFit, Fits, From, partition
<1>3. CASE EndCycle
  <2>1. TypeOK' /\ ConsumersExclusive' /\ FetchKnown' /\ FreshKnown'
    BY <1>3 DEF EndCycle, ManagerGoes, partition, taskVars, TypeOK, Entries,
                ConsumersExclusive, FetchKnown, FreshKnown
  <2>2. TimestampsFit'
    BY <1>3 DEF EndCycle, taskVars, TimestampsFit, Fits, From, partition
  <2> QED
    BY <2>1, <2>2
<1>4. CASE BuildPool
  <2>1. /\ fresh' \subseteq Consumers \ Alive
        /\ IsFiniteSet(fresh') /\ Cardinality(fresh') = PoolSize
        /\ UNCHANGED <<partition, round, out, pool, cache, taskVars>>
        /\ place' = "recycling"
    BY <1>4 DEF BuildPool, ManagerGoes
  <2>2. TypeOK' /\ FetchKnown' /\ FreshKnown' /\ TimestampsFit'
    BY <2>1 DEF taskVars, TypeOK, FetchKnown, FreshKnown, TimestampsFit, Fits,
                From, partition, PoolSize
  <2>3. ASSUME NEW t \in Tasks PROVE consumer[t] \notin fresh'
    BY <2>1 DEF Alive, InUse
  <2>4. ConsumersExclusive'
    BY <2>1, <2>3 DEF ConsumersExclusive, taskVars, Alive
  <2> QED
    BY <2>2, <2>4
<1>5. CASE SwapPool
  BY <1>5 DEF SwapPool, ManagerGoes, taskVars, TypeOK, ConsumersExclusive,
              FetchKnown, FreshKnown, TimestampsFit, Fits, From, partition
<1>6. CASE Sweep
  <2>1. PICK expired \in SUBSET Groups :
           cache' = [g \in Groups |-> IF g \in expired THEN Absent ELSE cache[g]]
    BY <1>6 DEF Sweep
  <2>2. UNCHANGED <<partition, managerVars, out, pool, taskVars>>
    BY <1>6 DEF Sweep
  <2>3. TypeOK' /\ TimestampsFit'
    BY <2>1, <2>2 DEF managerVars, taskVars, TypeOK, Entries, TimestampsFit,
                      Fits, From, partition
  <2>4. ConsumersExclusive' /\ FetchKnown' /\ FreshKnown'
    BY <2>2 DEF managerVars, taskVars, ConsumersExclusive, FetchKnown, FreshKnown
  <2> QED
    BY <2>3, <2>4
<1> QED
  BY <1>1, <1>2, <1>3, <1>4, <1>5, <1>6 DEF ManagerStep

-----------------------------------------------------------------------------
LEMMA PermitsTyped ==
    ASSUME TypeOK, NEW t \in Tasks,
           TakePermit(t) \/ ReturnPermit(t) \/ permits' = permits
    PROVE  permits' \in [Rounds -> Nat]
BY DEF TypeOK, TakePermit, ReturnPermit, Tasks

\* The end of a fetch, whatever became of its consumer.
LEMMA FinishKeepsInv ==
    ASSUME Inv, NEW t \in Tasks, NEW result \in Entries, Finish(t, result),
           result # Absent => Fits(result.offset, result.timestamp),
           TakePermit(t) \/ ReturnPermit(t) \/ permits' = permits,
           pool' \subseteq pool \cup ({consumer[t]} \ {None}),
           IsFiniteSet(pool') /\ Cardinality(pool') <= PoolSize,
           \/ cache' = cache
           \/ cache' = [cache EXCEPT ![t[2]] = result],
           UNCHANGED <<partition, managerVars>>
    PROVE  Inv'
<1> USE LimitsAssumption, SpecialAssumption DEF Inv
<1>1. /\ \A u \in Tasks : u # t => /\ task'[u] = task[u] /\ asked'[u] = asked[u]
                                  /\ consumer'[u] = consumer[u]
                                  /\ found'[u] = found[u]
      /\ task'[t] = "ended" /\ asked'[t] = 0
      /\ consumer'[t] = None /\ found'[t] = Nothing
  BY DEF Finish, TypeOK
<1>2. \A g \in Groups : /\ out'[g] \in {out[g], result}
                        /\ cache'[g] \in {cache[g], result}
  <2>1. out' = out \/ out' = [out EXCEPT ![t[2]] = result]
    BY DEF Finish
  <2>2. cache' = cache \/ cache' = [cache EXCEPT ![t[2]] = result]
    OBVIOUS
  <2>3. ASSUME NEW f \in [Groups -> Entries], NEW h,
               h = f \/ h = [f EXCEPT ![t[2]] = result]
        PROVE  \A g \in Groups : h[g] \in {f[g], result}
    BY <2>3
  <2> QED
    BY <2>1, <2>2, <2>3 DEF TypeOK
<1>3. TypeOK'
  <2>1. /\ task' \in [Tasks -> UnderWay \cup {"ended"}]
        /\ asked' \in [Tasks -> Offsets]
        /\ consumer' \in [Tasks -> Consumers \cup {None}]
        /\ found' \in [Tasks -> Offsets \cup {Nothing}]
    BY DEF Finish, TypeOK, Offsets
  <2>2. out' \in [Groups -> Entries]
    <3>1. out' = out \/ out' = [out EXCEPT ![t[2]] = result]
      BY DEF Finish
    <3> QED
      BY <3>1 DEF TypeOK
  <2>3. cache' \in [Groups -> Entries]
    BY DEF TypeOK
  <2>4. pool' \in SUBSET Consumers
    BY DEF TypeOK
  <2> QED
    BY <2>1, <2>2, <2>3, <2>4, PermitsTyped DEF TypeOK, partition, managerVars
<1>4. ConsumersExclusive'
  BY <1>1 DEF ConsumersExclusive, managerVars, TypeOK
<1>5. FetchKnown' /\ FreshKnown'
  BY <1>1 DEF FetchKnown, FreshKnown, managerVars
<1>6. TimestampsFit'
  <2>1. \A o, m : Fits(o, m)' <=> Fits(o, m)
    BY DEF Fits, From, partition
  <2>2. \A g \in Groups :
           /\ cache'[g] # Absent => Fits(cache'[g].offset, cache'[g].timestamp)
           /\ out'[g] # Absent => Fits(out'[g].offset, out'[g].timestamp)
    BY <1>2 DEF TimestampsFit
  <2>3. \A u \in Tasks : found'[u] # Nothing => Fits(asked'[u], found'[u])
    BY <1>1 DEF TimestampsFit
  <2> QED
    BY <2>2, <2>3 DEF TimestampsFit, Fits, From, partition
<1> QED
  BY <1>3, <1>4, <1>5, <1>6

\* A fetch on its way: its consumer is one nobody else has, and it remembers only
\* a timestamp that fits.
LEMMA MoveKeepsInv ==
    ASSUME Inv, NEW t \in Tasks, NEW to \in UnderWay,
           task' = [task EXCEPT ![t] = to],
           NEW c \in Consumers \cup {None}, consumer' = [consumer EXCEPT ![t] = c],
           c # None => /\ c \notin pool' \cup fresh
                       /\ \A u \in Tasks : u # t => consumer[u] # c,
           NEW m \in Offsets \cup {Nothing}, found' = [found EXCEPT ![t] = m],
           m # Nothing => Fits(asked[t], m),
           to \in {"waiting", "acquiring", "reading"} => m = Nothing,
           to \in {"reading", "releasing"} => c # None,
           to = "storing" => m # Nothing,
           TakePermit(t) \/ ReturnPermit(t) \/ permits' = permits,
           pool' \subseteq pool \cup ({consumer[t]} \ {None}),
           IsFiniteSet(pool') /\ Cardinality(pool') <= PoolSize,
           UNCHANGED <<partition, managerVars, asked, cache, out>>
    PROVE  Inv'
<1> USE LimitsAssumption, SpecialAssumption DEF Inv
<1>1. /\ \A u \in Tasks : u # t => /\ task'[u] = task[u]
                                  /\ consumer'[u] = consumer[u]
                                  /\ found'[u] = found[u]
      /\ task'[t] = to /\ consumer'[t] = c /\ found'[t] = m
  BY DEF TypeOK
<1>2. TypeOK'
  BY PermitsTyped DEF TypeOK, partition, managerVars
<1>3. ConsumersExclusive'
  BY <1>1 DEF ConsumersExclusive, managerVars, TypeOK
<1>4. FetchKnown' /\ FreshKnown'
  BY <1>1 DEF FetchKnown, FreshKnown, managerVars, UnderWay
<1>5. TimestampsFit'
  BY <1>1 DEF TimestampsFit, Fits, From, partition
<1> QED
  BY <1>2, <1>3, <1>4, <1>5

\* The same for a fetch that gets its consumer.
LEMMA ReadingKeepsInv ==
    ASSUME Inv, NEW t \in Tasks, task' = [task EXCEPT ![t] = "reading"],
           NEW c \in Consumers, consumer' = [consumer EXCEPT ![t] = c],
           c \notin pool' \cup fresh, \A u \in Tasks : consumer[u] # c,
           found[t] = Nothing, pool' \subseteq pool,
           IsFiniteSet(pool') /\ Cardinality(pool') <= PoolSize,
           UNCHANGED <<partition, managerVars, asked, found, permits, cache, out>>
    PROVE  Inv'
<1> USE SpecialAssumption DEF Inv, managerVars
<1>1. /\ \A u \in Tasks : u # t => /\ task'[u] = task[u]
                                  /\ consumer'[u] = consumer[u]
      /\ task'[t] = "reading" /\ consumer'[t] = c
  BY DEF TypeOK
<1>2. TypeOK'
  BY DEF TypeOK, UnderWay, partition
<1>3. ConsumersExclusive'
  BY <1>1 DEF ConsumersExclusive, TypeOK
<1>4. FetchKnown' /\ FreshKnown'
  BY <1>1 DEF FetchKnown, FreshKnown
<1>5. TimestampsFit'
  BY DEF TimestampsFit, Fits, From, partition
<1> QED
  BY <1>2, <1>3, <1>4, <1>5

-----------------------------------------------------------------------------
\* Each step of a fetch moves it or ends it.
LEMMA TaskKeepsInv == ASSUME Inv, NEW t \in Tasks, TaskStep(t) PROVE Inv'
<1> USE LimitsAssumption, SpecialAssumption DEF Inv
<1> t[2] \in Groups
  BY DEF Tasks
<1>0. UNCHANGED <<partition, managerVars>>
  BY DEF TaskStep
<1>1. /\ asked[t] \in Offsets /\ found[t] \in Offsets \cup {Nothing}
      /\ consumer[t] \in Consumers \cup {None}
      /\ cache[t[2]] \in Entries
      /\ consumer = [consumer EXCEPT ![t] = consumer[t]]
      /\ found = [found EXCEPT ![t] = found[t]]
  BY DEF TypeOK
<1>2. IsFiniteSet(pool) /\ Cardinality(pool) <= PoolSize
  BY DEF TypeOK
<1>3. consumer[t] # None => /\ consumer[t] \notin pool \cup fresh
                            /\ \A u \in Tasks : u # t => consumer[u] # consumer[t]
  BY DEF ConsumersExclusive
<1>4. found[t] # Nothing => /\ Fits(asked[t], found[t])
                            /\ Result(t, found[t]) \in Entries
                            /\ Result(t, found[t]).offset = asked[t]
                            /\ Result(t, found[t]).timestamp = found[t]
  BY <1>1 DEF TimestampsFit, Result, Entries
<1>5. Absent \in Entries
  BY DEF Entries
<1>6. CASE Hit(t)
  <2>1. /\ cache[t[2]] \in [offset : Offsets, timestamp : Offsets]
        /\ cache[t[2]].offset = asked[t]
    BY <1>1, <1>6 DEF Hit, Entries
  <2>2. Result(t, cache[t[2]].timestamp) = cache[t[2]]
    BY <2>1 DEF Result
  <2>3. Finish(t, cache[t[2]]) /\ UNCHANGED <<permits, pool, cache>>
    BY <1>6, <2>2 DEF Hit
  <2>4. cache[t[2]] # Absent => Fits(cache[t[2]].offset, cache[t[2]].timestamp)
    BY DEF TimestampsFit
  <2> QED
    BY <1>0, <1>1, <1>2, <2>3, <2>4, FinishKeepsInv
<1>7. CASE Miss(t)
  <2>1. found[t] = Nothing
    BY <1>7 DEF Miss, TaskGoes, FetchKnown
  <2> QED
    BY <1>0, <1>1, <1>2, <1>3, <1>7, <2>1, MoveKeepsInv DEF Miss, TaskGoes, UnderWay
<1>8. CASE AcquirePooled(t)
  <2>1. PICK c \in pool : /\ pool' = pool \ {c}
                          /\ consumer' = [consumer EXCEPT ![t] = c]
    BY <1>8 DEF AcquirePooled
  <2>2. c \in Consumers /\ c \notin pool' \cup fresh
    BY <2>1 DEF TypeOK, ConsumersExclusive
  <2>3. \A u \in Tasks : consumer[u] # c
    BY <2>1 DEF ConsumersExclusive
  <2>4. IsFiniteSet(pool') /\ Cardinality(pool') <= PoolSize
    <3>1. pool' \subseteq pool
      BY <2>1
    <3>2. IsFiniteSet(pool') /\ Cardinality(pool') <= Cardinality(pool)
      BY <1>2, <3>1, FS_Subset
    <3>3. Cardinality(pool') \in Nat /\ Cardinality(pool) \in Nat
      BY <1>2, <3>2, FS_CardinalityType
    <3> QED
      BY <1>2, <3>2, <3>3 DEF PoolSize
  <2>5. /\ task' = [task EXCEPT ![t] = "reading"] /\ found[t] = Nothing
        /\ UNCHANGED <<asked, found, permits, cache, out>>
    BY <1>8 DEF AcquirePooled, TaskGoes, FetchKnown
  <2> QED
    BY <1>0, <1>1, <2>1, <2>2, <2>3, <2>4, <2>5, ReadingKeepsInv
<1>9. CASE AcquireNew(t)
  <2>1. PICK c \in Consumers \ Alive : consumer' = [consumer EXCEPT ![t] = c]
    BY <1>9 DEF AcquireNew
  <2>2. c # None /\ c \notin pool \cup fresh /\ \A u \in Tasks : consumer[u] # c
    BY <2>1 DEF Alive, InUse
  <2>3. /\ task' = [task EXCEPT ![t] = "reading"] /\ found[t] = Nothing
        /\ UNCHANGED <<asked, found, permits, pool, cache, out>>
    BY <1>9 DEF AcquireNew, TaskGoes, FetchKnown
  <2> QED
    BY <1>0, <1>1, <1>2, <2>1, <2>2, <2>3, ReadingKeepsInv
<1>10. CASE AcquireFails(t)
  BY <1>0, <1>2, <1>5, <1>10, FinishKeepsInv DEF AcquireFails
<1>11. CASE Read(t)
  <2>1. PICK m \in MessageAt(asked[t]) \cup {Nothing} : found' = [found EXCEPT ![t] = m]
    <3>1. found[t] = Nothing
      BY <1>11 DEF Read, TaskGoes, FetchKnown
    <3> QED
      BY <1>1, <1>11, <3>1 DEF Read
  <2>2. m # Nothing => m \in Offsets /\ Fits(asked[t], m)
    BY <2>1 DEF MessageAt, Fits, From, TypeOK
  <2>3. /\ task' = [task EXCEPT ![t] = "releasing"] /\ consumer[t] # None
        /\ UNCHANGED <<asked, consumer, permits, pool, cache, out>>
    BY <1>11 DEF Read, TaskGoes, FetchKnown
  <2> QED
    BY <1>0, <1>1, <1>2, <1>3, <2>1, <2>2, <2>3, MoveKeepsInv DEF UnderWay
<1>12. CASE Release(t)
  <2>1. consumer[t] # None
    BY <1>12 DEF Release, FetchKnown
  <2>2. /\ pool' \subseteq pool \cup {consumer[t]}
        /\ IsFiniteSet(pool') /\ Cardinality(pool') <= PoolSize
    <3>1. CASE UNCHANGED pool
      BY <1>2, <3>1
    <3>2. CASE Cardinality(pool) < PoolSize /\ pool' = pool \cup {consumer[t]}
      <4>1. /\ IsFiniteSet(pool')
            /\ Cardinality(pool') \in {Cardinality(pool), Cardinality(pool) + 1}
        BY <1>2, <3>2, FS_AddElement
      <4>2. Cardinality(pool) \in Nat
        BY <1>2, FS_CardinalityType
      <4> QED
        BY <3>2, <4>1, <4>2 DEF PoolSize
    <3> QED
      BY <1>12, <3>1, <3>2 DEF Release
  <2>3. CASE found[t] # Nothing
    <3>1. /\ task' = [task EXCEPT ![t] = "storing"]
          /\ consumer' = [consumer EXCEPT ![t] = None]
          /\ UNCHANGED <<asked, found, permits, cache, out>>
      BY <1>12, <2>3 DEF Release, AfterFetch
    <3> QED
      BY <1>0, <1>1, <1>4, <2>1, <2>2, <2>3, <3>1, MoveKeepsInv DEF UnderWay
  <2>4. CASE found[t] = Nothing
    <3>1. Finish(t, Absent) /\ ReturnPermit(t) /\ UNCHANGED cache
      BY <1>12, <2>4 DEF Release, AfterFetch
    <3> QED
      BY <1>0, <1>5, <2>1, <2>2, <3>1, FinishKeepsInv
  <2> QED
    BY <2>3, <2>4
<1>13. CASE Store(t)
  <2>1. found[t] # Nothing
    BY <1>13 DEF Store, FetchKnown
  <2> QED
    BY <1>0, <1>2, <1>4, <1>13, <2>1, FinishKeepsInv DEF Store
<1> QED
  BY <1>6, <1>7, <1>8, <1>9, <1>10, <1>11, <1>12, <1>13 DEF TaskStep

LEMMA InvNext == Inv /\ [Next]_vars => Inv'
<1> SUFFICES ASSUME Inv, [Next]_vars PROVE Inv'
  OBVIOUS
<1>1. CASE UNCHANGED vars
  BY <1>1 DEF vars, managerVars, taskVars, Inv, TypeOK, ConsumersExclusive,
              FetchKnown, FreshKnown, TimestampsFit, Fits, From, partition
<1> QED
  BY <1>1, LogKeepsInv, ManagerKeepsInv, TaskKeepsInv DEF Next

LEMMA InvAlways == Spec => []Inv
BY InvInit, InvNext, PTL DEF Spec

-----------------------------------------------------------------------------
\* Every variable keeps its type, and the pool never grows beyond its size.
THEOREM TypeCorrect == Spec => []TypeOK
<1>1. Inv => TypeOK
  BY DEF Inv
<1> QED
  BY <1>1, InvAlways, PTL

\* No consumer is ever used by two fetches, or idle while it is used, however many
\* cycles timed out and however often the pool was recycled under their fetches.
THEOREM NeverShared == Spec => []ConsumersExclusive
<1>1. Inv => ConsumersExclusive
  BY DEF Inv
<1> QED
  BY <1>1, InvAlways, PTL

\* No cycle publishes the timestamp of a message the group has consumed, or of one
\* behind a message it still has to read, for any log, whatever retention and
\* compaction deleted since the timestamp was read.
THEOREM TimestampsAreRight == Spec => []TimestampBelongs
<1>1. Inv => TimestampBelongs
  BY DEF Inv, TimestampsFit, TimestampBelongs, Fits
<1> QED
  BY <1>1, InvAlways, PTL

-----------------------------------------------------------------------------
(* How many consumers there are: a consumer is used only by a fetch that     *)
(* holds a permit of its fan-out.                                            *)

Holds(t) == task[t] \in {"acquiring", "reading", "releasing", "storing"}

Holders(r) == {g \in Groups : Holds(<<r, g>>)}

\* The permits of a fan-out are with its fetches or free; some may be lost.
WithinPermits(r) ==
    IsFiniteSet(Holders(r)) /\ Cardinality(Holders(r)) + permits[r] <= MaxConcurrent

ConsumersHeld == \A t \in Tasks : consumer[t] # None => task[t] \in {"reading", "releasing"}

PermitsKnown == ConsumersHeld /\ \A r \in Rounds : WithinPermits(r)

LEMMA PermitsInit == Init => PermitsKnown
<1> SUFFICES ASSUME Init PROVE PermitsKnown
  OBVIOUS
<1>1. ConsumersHeld
  BY DEF Init, ConsumersHeld
<1>2. ASSUME NEW r \in Rounds PROVE Holders(r) = {} /\ permits[r] = 0
  BY DEF Init, Holders, Holds, Tasks
<1> QED
  BY <1>1, <1>2, FS_EmptySet, LimitsAssumption DEF PermitsKnown, WithinPermits

\* A fetch that holds no permit before or after its step, or one before and after
\* it, leaves the permits as they are; one that takes or gives one counts.
LEMMA HoldersChange ==
    ASSUME Inv, NEW t \in Tasks, NEW to \in UnderWay \cup {"ended"},
           \A r \in Rounds : WithinPermits(r),
           task' = [task EXCEPT ![t] = to],
           \/ permits' = permits /\ (Holds(t)' => Holds(t))
           \/ TakePermit(t)
           \/ ReturnPermit(t) /\ Holds(t) /\ ~Holds(t)'
    PROVE  \A r \in Rounds : WithinPermits(r)'
<1> USE LimitsAssumption
<1>1. t[1] \in Rounds /\ t[2] \in Groups /\ t = <<t[1], t[2]>>
  BY DEF Tasks
<1>2. \A u \in Tasks : u # t => task'[u] = task[u]
  BY DEF Inv, TypeOK
<1>3. permits \in [Rounds -> Nat]
  BY DEF Inv, TypeOK
<1> SUFFICES ASSUME NEW r \in Rounds PROVE WithinPermits(r)'
  OBVIOUS
<1>4. IsFiniteSet(Holders(r)) /\ Cardinality(Holders(r)) + permits[r] <= MaxConcurrent
  BY DEF WithinPermits
<1>5. Cardinality(Holders(r)) \in Nat
  BY <1>4, FS_CardinalityType
<1>6. CASE r # t[1]
  <2>1. \A g \in Groups : task'[<<r, g>>] = task[<<r, g>>]
    BY <1>1, <1>2, <1>6 DEF Tasks
  <2>2. Holders(r)' = Holders(r)
    BY <2>1 DEF Holders, Holds
  <2>3. permits'[r] = permits[r]
    BY <1>3, <1>6 DEF TakePermit, ReturnPermit
  <2> QED
    BY <1>4, <2>2, <2>3 DEF WithinPermits
<1>7. CASE r = t[1]
  <2>1. \A g \in Groups : g # t[2] => task'[<<r, g>>] = task[<<r, g>>]
    BY <1>1, <1>2, <1>7 DEF Tasks
  <2>2. Holds(<<r, t[2]>>)' <=> Holds(t)'
    BY <1>1, <1>7
  <2>3. Holds(<<r, t[2]>>) <=> Holds(t)
    BY <1>1, <1>7
  <2>4. CASE permits' = permits /\ (Holds(t)' => Holds(t))
    <3>1. Holders(r)' \subseteq Holders(r)
      BY <2>1, <2>2, <2>3, <2>4 DEF Holders, Holds
    <3>2. IsFiniteSet(Holders(r)') /\ Cardinality(Holders(r)') <= Cardinality(Holders(r))
      BY <1>4, <3>1, FS_Subset
    <3>3. Cardinality(Holders(r)') \in Nat
      BY <3>2, FS_CardinalityType
    <3> QED
      BY <1>3, <1>4, <1>5, <2>4, <3>2, <3>3 DEF WithinPermits
  <2>5. CASE TakePermit(t)
    <3>1. permits'[r] = permits[r] - 1 /\ permits[r] \in Nat
      BY <1>3, <1>7, <2>5 DEF TakePermit
    <3>2. Holders(r)' \subseteq Holders(r) \cup {t[2]}
      BY <2>1 DEF Holders, Holds
    <3>3. /\ IsFiniteSet(Holders(r) \cup {t[2]})
          /\ Cardinality(Holders(r) \cup {t[2]})
                \in {Cardinality(Holders(r)), Cardinality(Holders(r)) + 1}
      BY <1>4, FS_AddElement
    <3>4. /\ IsFiniteSet(Holders(r)')
          /\ Cardinality(Holders(r)') <= Cardinality(Holders(r) \cup {t[2]})
      BY <3>2, <3>3, FS_Subset
    <3>5. Cardinality(Holders(r)') \in Nat /\ Cardinality(Holders(r) \cup {t[2]}) \in Nat
      BY <3>3, <3>4, FS_CardinalityType
    <3> QED
      BY <1>4, <1>5, <3>1, <3>3, <3>4, <3>5 DEF WithinPermits
  <2>6. CASE ReturnPermit(t) /\ Holds(t) /\ ~Holds(t)'
    <3>1. permits'[r] = permits[r] + 1 /\ permits[r] \in Nat
      BY <1>3, <1>7, <2>6 DEF ReturnPermit
    <3>2. t[2] \in Holders(r)
      BY <1>1, <2>3, <2>6 DEF Holders
    <3>3. Holders(r)' = Holders(r) \ {t[2]}
      BY <2>1, <2>2, <2>6 DEF Holders, Holds
    <3>4. /\ IsFiniteSet(Holders(r)')
          /\ Cardinality(Holders(r)') = Cardinality(Holders(r)) - 1
      BY <1>4, <3>2, <3>3, FS_RemoveElement
    <3> QED
      BY <1>4, <1>5, <3>1, <3>4 DEF WithinPermits
  <2> QED
    BY <2>4, <2>5, <2>6
<1> QED
  BY <1>6, <1>7

\* The manager's steps: a fan-out starts with all its permits and no fetch that
\* holds one.
LEMMA ManagerKeepsPermits == ASSUME Inv, PermitsKnown, ManagerStep PROVE PermitsKnown'
<1>1. CASE BeginSampling
  <2>1. PICK r \in Rounds, lagging \in SUBSET Groups,
             committed \in [Groups -> Offsets] :
           LET requested(t) == /\ t[1] = r
                               /\ t[2] \in lagging
                               /\ ~(SkipDataLoss /\ committed[t[2]] < low)
           IN
           /\ \A g \in Groups : Ended(<<r, g>>)
           /\ round' = r
           /\ task' = [t \in Tasks |-> IF requested(t) THEN "waiting" ELSE task[t]]
           /\ asked' = [t \in Tasks |-> IF requested(t) THEN committed[t[2]]
                                        ELSE asked[t]]
           /\ permits' = [permits EXCEPT ![r] = MaxConcurrent]
    BY <1>1 DEF BeginSampling
  <2>0. consumer' = consumer
    BY <1>1 DEF BeginSampling
  <2>2. \A t \in Tasks : \/ task'[t] = task[t]
                         \/ t[1] = r /\ task[t] = "ended" /\ task'[t] = "waiting"
    <3> SUFFICES ASSUME NEW t \in Tasks, task'[t] # task[t]
                 PROVE  t[1] = r /\ task[t] = "ended" /\ task'[t] = "waiting"
      OBVIOUS
    <3>1. t[1] = r /\ task'[t] = "waiting"
      BY <2>1
    <3>2. Ended(<<r, t[2]>>) /\ t = <<r, t[2]>>
      BY <2>1, <3>1 DEF Tasks
    <3> QED
      BY <3>1, <3>2 DEF Ended
  <2>3. ConsumersHeld'
    BY <2>0, <2>2 DEF PermitsKnown, ConsumersHeld
  <2>4. ASSUME NEW s \in Rounds, s # r PROVE WithinPermits(s)'
    <3>1. \A g \in Groups : task'[<<s, g>>] = task[<<s, g>>]
      BY <2>2, <2>4 DEF Tasks
    <3>2. Holders(s)' = Holders(s)
      BY <3>1 DEF Holders, Holds
    <3>3. permits'[s] = permits[s]
      BY <2>1, <2>4 DEF Inv, TypeOK
    <3> QED
      BY <3>2, <3>3 DEF PermitsKnown, WithinPermits
  <2>5. WithinPermits(r)'
    <3>1. \A g \in Groups : task'[<<r, g>>] \in {"ended", "waiting"}
      BY <2>1, <2>2 DEF Tasks, Ended
    <3>2. Holders(r)' = {}
      BY <3>1 DEF Holders, Holds
    <3>3. permits'[r] = MaxConcurrent
      BY <2>1 DEF Inv, TypeOK
    <3> QED
      BY <3>2, <3>3, FS_EmptySet, LimitsAssumption DEF WithinPermits
  <2> QED
    BY <2>3, <2>4, <2>5 DEF PermitsKnown
<1>2. CASE UNCHANGED taskVars
  BY <1>2 DEF taskVars, PermitsKnown, ConsumersHeld, WithinPermits, Holders, Holds
<1> QED
  BY <1>1, <1>2 DEF ManagerStep, JoinAll, EndCycle, BuildPool, SwapPool, Sweep

\* The steps of a fetch.
LEMMA TaskKeepsPermits ==
    ASSUME Inv, PermitsKnown, NEW t \in Tasks, TaskStep(t) PROVE PermitsKnown'
<1>1. PICK to \in UnderWay \cup {"ended"} : task' = [task EXCEPT ![t] = to]
  BY DEF TaskStep, Hit, Miss, AcquirePooled, AcquireNew, AcquireFails, Read, Release,
         AfterFetch, Store, TaskGoes, Finish, UnderWay
<1>2. task'[t] = to /\ \A u \in Tasks : u # t => task'[u] = task[u]
  BY <1>1 DEF Inv, TypeOK
<1>3. PICK c : consumer' = [consumer EXCEPT ![t] = c]
  <2>1. consumer = [consumer EXCEPT ![t] = consumer[t]]
    BY DEF Inv, TypeOK
  <2> QED
    BY <2>1 DEF TaskStep, Hit, Miss, AcquirePooled, AcquireNew, AcquireFails, Read,
                Release, AfterFetch, Store, Finish
<1>4. consumer'[t] = c /\ \A u \in Tasks : u # t => consumer'[u] = consumer[u]
  BY <1>3 DEF Inv, TypeOK
<1>5. consumer'[t] # None => task'[t] \in {"reading", "releasing"}
  <2>1. task[t] \in {"waiting", "acquiring"} => consumer[t] = None
    BY DEF PermitsKnown, ConsumersHeld
  <2>2. CASE Hit(t) \/ AcquireFails(t) \/ Store(t) \/ Release(t)
    <3>1. consumer' = [consumer EXCEPT ![t] = None]
      BY <2>2 DEF Hit, AcquireFails, Store, Release, AfterFetch, Finish
    <3> QED
      BY <3>1 DEF Inv, TypeOK
  <2>3. CASE Miss(t)
    BY <2>1, <2>3 DEF Miss, TaskGoes
  <2>4. CASE AcquirePooled(t) \/ AcquireNew(t) \/ Read(t)
    <3>1. \/ task' = [task EXCEPT ![t] = "reading"]
          \/ task' = [task EXCEPT ![t] = "releasing"]
      BY <2>4 DEF AcquirePooled, AcquireNew, Read, TaskGoes
    <3> QED
      BY <3>1 DEF Inv, TypeOK
  <2> QED
    BY <2>2, <2>3, <2>4 DEF TaskStep
<1>6. ConsumersHeld'
  BY <1>2, <1>4, <1>5 DEF PermitsKnown, ConsumersHeld
<1>7. \/ permits' = permits /\ (Holds(t)' => Holds(t))
      \/ TakePermit(t)
      \/ ReturnPermit(t) /\ Holds(t) /\ ~Holds(t)'
  <2>1. CASE Hit(t)
    <3>1. permits' = permits /\ task' = [task EXCEPT ![t] = "ended"]
      BY <2>1 DEF Hit, Finish
    <3> QED
      BY <3>1 DEF Holds, Inv, TypeOK
  <2>2. CASE Miss(t)
    BY <2>2 DEF Miss
  <2>3. CASE AcquirePooled(t) \/ AcquireNew(t) \/ Read(t)
    BY <2>3 DEF AcquirePooled, AcquireNew, Read, TaskGoes, Holds
  <2>4. CASE AcquireFails(t) \/ Store(t)
    <3>1. ReturnPermit(t) /\ task' = [task EXCEPT ![t] = "ended"] /\ Holds(t)
      BY <2>4 DEF AcquireFails, Store, Finish, Holds
    <3> QED
      BY <3>1 DEF Holds, Inv, TypeOK
  <2>5. CASE Release(t)
    <3>1. Holds(t)
      BY <2>5 DEF Release, Holds
    <3>2. \/ permits' = permits
          \/ ReturnPermit(t) /\ task' = [task EXCEPT ![t] = "ended"]
      BY <2>5 DEF Release, AfterFetch, Finish
    <3> QED
      BY <3>1, <3>2 DEF Holds, Inv, TypeOK
  <2> QED
    BY <2>1, <2>2, <2>3, <2>4, <2>5 DEF TaskStep
<1>8. \A r \in Rounds : WithinPermits(r)'
  BY <1>1, <1>7, HoldersChange DEF PermitsKnown
<1> QED
  BY <1>6, <1>8 DEF PermitsKnown

LEMMA PermitsNext == Inv /\ PermitsKnown /\ [Next]_vars => PermitsKnown'
<1> SUFFICES ASSUME Inv, PermitsKnown, [Next]_vars PROVE PermitsKnown'
  OBVIOUS
<1>1. CASE UNCHANGED vars \/ Trim \/ Compact
  BY <1>1 DEF vars, Trim, Compact, taskVars, PermitsKnown, ConsumersHeld, WithinPermits,
              Holders, Holds
<1> QED
  BY <1>1, ManagerKeepsPermits, TaskKeepsPermits DEF Next

LEMMA PermitsAlways == Spec => []PermitsKnown
BY InvAlways, PermitsInit, PermitsNext, PTL DEF Spec

\* Each consumer in use is at one of the MaxConcurrent places of a fan-out.
LEMMA UsersCounted ==
    ASSUME Inv, PermitsKnown
    PROVE  /\ IsFiniteSet(InUse) /\ IsFiniteSet(RoundsUnderWay)
           /\ Cardinality(InUse) <= MaxConcurrent * Cardinality(RoundsUnderWay)
<1> USE LimitsAssumption
<1> DEFINE Places == RoundsUnderWay \X (1 .. MaxConcurrent)
           Number(r) == CHOOSE e : e \in Injection(Holders(r), 1 .. MaxConcurrent)
           User(c) == CHOOSE t \in Tasks : consumer[t] = c
           PlaceOf == [c \in InUse |-> <<User(c)[1], Number(User(c)[1])[User(c)[2]]>>]
<1>1. ASSUME NEW r \in Rounds
      PROVE  Number(r) \in Injection(Holders(r), 1 .. MaxConcurrent)
  <2>1. /\ IsFiniteSet(Holders(r))
        /\ Cardinality(Holders(r)) + permits[r] <= MaxConcurrent
        /\ permits[r] \in Nat
    BY DEF PermitsKnown, WithinPermits, Inv, TypeOK
  <2>2. Cardinality(Holders(r)) \in Nat
    BY <2>1, FS_CardinalityType
  <2>3. PICK b : b \in Bijection(1 .. Cardinality(Holders(r)), Holders(r))
    BY <2>1, FS_CardinalityType DEF ExistsBijection
  <2> DEFINE e == [g \in Holders(r) |-> CHOOSE i \in 1 .. Cardinality(Holders(r)) : b[i] = g]
  <2>4. \A g \in Holders(r) : e[g] \in 1 .. Cardinality(Holders(r)) /\ b[e[g]] = g
    BY <2>3 DEF Bijection, Surjection
  <2>5. 1 .. Cardinality(Holders(r)) \subseteq 1 .. MaxConcurrent
    BY <2>1, <2>2
  <2> HIDE DEF e
  <2>6. e \in [Holders(r) -> 1 .. MaxConcurrent]
    <3>1. e = [g \in Holders(r) |-> e[g]]
      BY DEF e
    <3> QED
      BY <2>4, <2>5, <3>1
  <2>7. e \in Injection(Holders(r), 1 .. MaxConcurrent)
    BY <2>4, <2>6 DEF Injection, IsInjective
  <2> QED
    BY <2>7
<1>2. ASSUME NEW c \in InUse
      PROVE  /\ User(c) \in Tasks /\ consumer[User(c)] = c
             /\ User(c)[1] \in RoundsUnderWay
             /\ User(c)[2] \in Holders(User(c)[1])
             /\ User(c) = <<User(c)[1], User(c)[2]>>
  <2>1. \E t \in Tasks : consumer[t] = c
    BY DEF InUse
  <2>2. User(c) \in Tasks /\ consumer[User(c)] = c
    BY <2>1
  <2> HIDE DEF User
  <2>3. /\ User(c)[1] \in Rounds /\ User(c)[2] \in Groups
        /\ User(c) = <<User(c)[1], User(c)[2]>>
    BY <2>2 DEF Tasks
  <2>4. task[User(c)] \in {"reading", "releasing"}
    BY <2>2 DEF PermitsKnown, ConsumersHeld, InUse
  <2>5. User(c)[1] \in RoundsUnderWay
    BY <2>3, <2>4 DEF RoundsUnderWay, Ended
  <2>6. User(c)[2] \in Holders(User(c)[1])
    BY <2>3, <2>4 DEF Holders, Holds
  <2> QED
    BY <2>2, <2>3, <2>5, <2>6
<1> HIDE DEF Number, User
<1>3. PlaceOf \in Injection(InUse, Places)
  <2>1. ASSUME NEW c \in InUse
        PROVE  /\ Number(User(c)[1]) \in Injection(Holders(User(c)[1]), 1 .. MaxConcurrent)
               /\ Number(User(c)[1])[User(c)[2]] \in 1 .. MaxConcurrent
    <3>1. User(c)[1] \in Rounds
      BY <1>2 DEF RoundsUnderWay
    <3>2. Number(User(c)[1]) \in Injection(Holders(User(c)[1]), 1 .. MaxConcurrent)
      BY <1>1, <3>1
    <3> QED
      BY <1>2, <3>2 DEF Injection
  <2>2. PlaceOf \in [InUse -> Places]
    BY <1>2, <2>1
  <2>3. ASSUME NEW c \in InUse, NEW d \in InUse, PlaceOf[c] = PlaceOf[d]
        PROVE  c = d
    <3>1. /\ User(c)[1] = User(d)[1]
          /\ Number(User(c)[1])[User(c)[2]] = Number(User(d)[1])[User(d)[2]]
      BY <2>3
    <3> DEFINE e == Number(User(c)[1])
    <3>2. e[User(c)[2]] = e[User(d)[2]]
      BY <3>1
    <3>3. /\ User(c)[2] \in Holders(User(c)[1])
          /\ User(d)[2] \in Holders(User(c)[1])
      BY <1>2, <3>1
    <3>4. e \in Injection(Holders(User(c)[1]), 1 .. MaxConcurrent)
      BY <2>1
    <3> HIDE DEF e
    <3>5. User(c)[2] = User(d)[2]
      BY <3>2, <3>3, <3>4 DEF Injection, IsInjective
    <3>6. User(c) = User(d)
      BY <1>2, <3>1, <3>5
    <3> QED
      BY <1>2, <3>6
  <2> QED
    BY <2>2, <2>3 DEF Injection, IsInjective
<1>4. IsFiniteSet(RoundsUnderWay) /\ Cardinality(RoundsUnderWay) \in Nat
  <2>1. RoundsUnderWay \subseteq Rounds
    BY DEF RoundsUnderWay
  <2> QED
    BY <2>1, RoundsAssumption, FS_Subset, FS_CardinalityType
<1>5. IsFiniteSet(1 .. MaxConcurrent) /\ Cardinality(1 .. MaxConcurrent) = MaxConcurrent
  BY FS_Interval
<1>6. /\ IsFiniteSet(Places)
      /\ Cardinality(Places) = Cardinality(RoundsUnderWay) * MaxConcurrent
  BY <1>4, <1>5, FS_Product
<1> HIDE DEF Places, PlaceOf
<1>7. IsFiniteSet(InUse) /\ Cardinality(InUse) <= Cardinality(Places)
  BY <1>3, <1>6, FS_Injection
<1>8. Cardinality(RoundsUnderWay) * MaxConcurrent = MaxConcurrent * Cardinality(RoundsUnderWay)
  BY <1>4
<1> QED
  BY <1>4, <1>6, <1>7, <1>8

\* The consumers in existence stay within the pool and one semaphore of each
\* fan-out under way, whatever is left behind by the cycles that timed out.
THEOREM ClientsAreBounded == Spec => []ConsumersBounded
<1>1. ASSUME Inv, PermitsKnown PROVE ConsumersBounded
  <2>1. /\ IsFiniteSet(InUse) /\ IsFiniteSet(RoundsUnderWay)
        /\ Cardinality(InUse) <= MaxConcurrent * Cardinality(RoundsUnderWay)
    BY <1>1, UsersCounted
  <2>2. IsFiniteSet(pool) /\ Cardinality(pool) <= MaxConcurrent
    BY <1>1 DEF Inv, TypeOK, PoolSize
  <2>3. /\ Cardinality(pool \cup InUse)
            = Cardinality(pool) + Cardinality(InUse) - Cardinality(pool \cap InUse)
        /\ IsFiniteSet(pool \cap InUse)
    BY <2>1, <2>2, FS_Union, FS_Intersection
  <2>4. /\ Cardinality(pool) \in Nat /\ Cardinality(InUse) \in Nat
        /\ Cardinality(pool \cap InUse) \in Nat /\ Cardinality(RoundsUnderWay) \in Nat
    BY <2>1, <2>2, <2>3, FS_CardinalityType
  <2>5. MaxConcurrent * (1 + Cardinality(RoundsUnderWay))
          = MaxConcurrent + MaxConcurrent * Cardinality(RoundsUnderWay)
    BY <2>4, LimitsAssumption
  <2>6. MaxConcurrent * Cardinality(RoundsUnderWay) \in Nat
    BY <2>4, LimitsAssumption
  <2> QED
    BY <2>1, <2>2, <2>3, <2>4, <2>5, <2>6, LimitsAssumption DEF ConsumersBounded
<1> QED
  BY <1>1, InvAlways, PermitsAlways, PTL
=============================================================================
