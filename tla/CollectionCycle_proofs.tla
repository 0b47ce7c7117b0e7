----------------------- MODULE CollectionCycle_proofs -----------------------
(***************************************************************************)
(* The cycle keeps its bounds for any groups and topics, any times to live  *)
(* and any timeouts.                                                        *)
(***************************************************************************)
EXTENDS CollectionCycle, TLAPS

(***************************************************************************)
(* The argument: whatever is kept, be it an answer, a cache entry or the    *)
(* work of a cycle, differs from what Kafka holds only if that changed      *)
(* after it was read.  Each of them is no older than it says: an answer     *)
(* than the call, a cache entry than its age and a call, the work of a      *)
(* cycle than a time to live, a call and the cycle.                         *)
(***************************************************************************)
Longest == Larger(CollectionTimeout, KafkaTimeout)

AnswerTyped ==
    answer # <<>> =>
        /\ phase = "listing" => answer[1] \in SUBSET Groups
        /\ phase = "loading" => answer[1] \in SUBSET Topics

Timing ==
    /\ elapsed <= LongestCycle
    /\ waited <= elapsed
    /\ phase = "idle" => elapsed = 0
    /\ phase = "listing" => elapsed = waited
    /\ phase = "describing" => elapsed <= Longest
    /\ phase = "loading" => elapsed <= waited + Longest

NotYet == phase \notin {"configs", "done"} => toFetch = {} /\ compacted = {}

GroupRight(g) ==
    /\ Fresh(rosterCache, GroupsTTL) /\ ~(g \in rosterCache.value <=> g \in groups)
          => since[g] <= rosterCache.age + KafkaTimeout
    /\ phase = "listing" /\ answer # <<>> /\ ~(g \in answer[1] <=> g \in groups)
          => since[g] <= waited
    /\ phase \notin {"idle", "listing"} /\ ~(g \in roster <=> g \in groups)
          => RecentEnough(g, GroupsTTL)

RosterRight == \A g \in Groups : GroupRight(g)

Loaded == phase \in {"marking", "fetching", "configs", "done"}

TopicRight(t) ==
    /\ Fresh(topicsCache, MetadataTTL) /\ ~(t \in topicsCache.value <=> t \in Existing)
          => since[t] <= topicsCache.age + KafkaTimeout
    /\ phase = "loading" /\ answer # <<>> /\ ~(t \in answer[1] <=> t \in Existing)
          => since[t] <= waited
    /\ Loaded /\ ~(t \in topics <=> t \in Existing) => RecentEnough(t, MetadataTTL)

TopicsRight == \A t \in Topics : TopicRight(t)

EntryRight(t) ==
    /\ ~Fresh(policyCache[t], CompactedTTL) => policyCache[t] = NoPolicy
    /\ ~policyCache[t].known => ~policyCache[t].flag
    /\ policyCache[t].known =>
          \/ policyCache[t].flag = (policy[t] = "compact")
          \/ since[t] <= policyCache[t].age + KafkaTimeout

MarkedForAReason(t) ==
    \/ (t \in compacted) = (policy[t] = "compact")
    \/ RecentEnough(t, CompactedTTL)
    \/ t \notin compacted /\ ~policyCache[t].known

PolicyRight ==
    \A t \in Topics :
        /\ EntryRight(t)
        /\ phase = "configs" /\ t \in toFetch =>
              /\ t \notin compacted /\ policyCache[t] = NoPolicy
              /\ answer # <<>> => answer[1][t] = policy[t] \/ since[t] <= waited
        /\ phase = "configs" /\ t \in topics \ toFetch => MarkedForAReason(t)
        /\ phase = "done" /\ t \in topics => MarkedForAReason(t)

IInv ==
    /\ TypeOK /\ AnswerTyped /\ Timing /\ NotYet
    /\ RosterRight /\ TopicsRight /\ PolicyRight

LEMMA TimesAreNat ==
    /\ {GroupsTTL, MetadataTTL, CompactedTTL, Calm} \subseteq Nat
    /\ CollectionTimeout \in Nat \ {0} /\ KafkaTimeout \in Nat \ {0}
    /\ Longest \in Nat /\ Longest >= CollectionTimeout /\ Longest >= KafkaTimeout
    /\ LongestCycle = KafkaTimeout + Longest
    /\ Horizon \in Nat
  BY TimesAssumption DEF Longest, LongestCycle, Horizon, Larger

-----------------------------------------------------------------------------
(* The steps, one after the other.                                         *)

LEMMA InitHolds == Init => IInv
<1> SUFFICES ASSUME Init PROVE IInv
  OBVIOUS
<1>1. TypeOK
  BY TimesAreNat DEF Init, TypeOK, Lists, NoList, NoPolicy
<1>2. AnswerTyped /\ Timing /\ NotYet
  BY TimesAreNat DEF Init, AnswerTyped, Timing, NotYet
<1>3. RosterRight /\ TopicsRight
  BY TimesAreNat
  DEF Init, RosterRight, GroupRight, TopicsRight, TopicRight, Loaded, Fresh, NoList
<1>4. PolicyRight
  BY TimesAreNat DEF Init, PolicyRight, EntryRight, Fresh, NoPolicy
<1>5. QED BY <1>1, <1>2, <1>3, <1>4 DEF IInv

\* A change in Kafka makes what is known of it wrong, but not for long.
LEMMA KafkaKeeps ==
    ASSUME IInv,
           \/ \E g \in Groups : GroupComesOrGoes(g)
           \/ \E t \in Topics : TopicChanges(t)
    PROVE  IInv'
<1>0. UNCHANGED <<phase, elapsed, waited, answer, rosterCache, topicsCache, policyCache,
                  roster, topics, toFetch, compacted>>
  BY DEF GroupComesOrGoes, TopicChanges, callVars, caches, workVars
<1>1. AnswerTyped' /\ Timing' /\ NotYet'
  BY <1>0 DEF IInv, AnswerTyped, Timing, NotYet
<1>2. TypeOK'
  <2>1. groups' \in SUBSET Groups /\ policy' \in [Topics -> Policies]
    BY DEF GroupComesOrGoes, TopicChanges, IInv, TypeOK
  <2>2. since' \in [Groups \cup Topics -> 0..Horizon]
    BY TimesAreNat DEF GroupComesOrGoes, TopicChanges, Changes, IInv, TypeOK
  <2>3. QED BY <1>0, <2>1, <2>2 DEF IInv, TypeOK
<1>3. \A x \in Groups \cup Topics : since'[x] = since[x] \/ since'[x] = 0
  BY DEF GroupComesOrGoes, TopicChanges, Changes, IInv, TypeOK
<1>4. \A g \in Groups : (g \in groups' <=> g \in groups) \/ since'[g] = 0
  BY DEF GroupComesOrGoes, TopicChanges, Changes, IInv, TypeOK
<1>5. \A t \in Topics : policy'[t] = policy[t] \/ since'[t] = 0
  BY DEF GroupComesOrGoes, TopicChanges, Changes, IInv, TypeOK
<1>ages. /\ rosterCache.age \in Nat /\ topicsCache.age \in Nat
         /\ \A t \in Topics : policyCache[t].age \in Nat
         /\ elapsed \in Nat /\ waited \in Nat
  BY TimesAreNat DEF IInv, TypeOK, Lists
<1>6. ASSUME NEW g \in Groups PROVE GroupRight(g)'
  <2>1. GroupRight(g)
    BY DEF IInv, RosterRight
  <2>2. CASE since'[g] = 0
    <3>1. /\ since'[g] <= rosterCache.age + KafkaTimeout
          /\ since'[g] <= waited
          /\ since'[g] < GroupsTTL + KafkaTimeout + elapsed
      BY <1>ages, <2>2, TimesAreNat
    <3>2. QED BY <1>0, <3>1 DEF GroupRight, RecentEnough, Fresh
  <2>3. CASE since'[g] = since[g] /\ (g \in groups' <=> g \in groups)
    BY <1>0, <2>1, <2>3 DEF GroupRight, RecentEnough, Fresh
  <2>4. QED BY <1>3, <1>4, <2>2, <2>3
<1>7. ASSUME NEW t \in Topics PROVE TopicRight(t)'
  <2>1. TopicRight(t)
    BY DEF IInv, TopicsRight
  <2>2. CASE since'[t] = 0
    <3>1. /\ since'[t] <= topicsCache.age + KafkaTimeout
          /\ since'[t] <= waited
          /\ since'[t] < MetadataTTL + KafkaTimeout + elapsed
      BY <1>ages, <2>2, TimesAreNat
    <3>2. QED BY <1>0, <3>1 DEF TopicRight, RecentEnough, Fresh
  <2>3. CASE since'[t] = since[t] /\ policy'[t] = policy[t]
    BY <1>0, <2>1, <2>3 DEF TopicRight, RecentEnough, Fresh, Loaded, Existing
  <2>4. QED BY <1>3, <1>5, <2>2, <2>3
<1>8. PolicyRight'
  <2> SUFFICES ASSUME NEW t \in Topics
               PROVE  /\ EntryRight(t)'
                      /\ phase = "configs" /\ t \in toFetch /\ answer # <<>> =>
                            answer[1][t] = policy'[t] \/ since'[t] <= waited
                      /\ MarkedForAReason(t) => MarkedForAReason(t)'
    BY <1>0 DEF IInv, PolicyRight
  <2>1. /\ EntryRight(t)
        /\ phase = "configs" /\ t \in toFetch /\ answer # <<>> =>
              answer[1][t] = policy[t] \/ since[t] <= waited
    BY DEF IInv, PolicyRight
  <2>2. CASE since'[t] = 0
    BY <1>0, <1>ages, <2>1, <2>2, TimesAreNat
    DEF EntryRight, MarkedForAReason, RecentEnough, Fresh
  <2>3. CASE since'[t] = since[t] /\ policy'[t] = policy[t]
    BY <1>0, <2>1, <2>3 DEF EntryRight, MarkedForAReason, RecentEnough, Fresh
  <2>4. QED BY <1>3, <1>5, <2>2, <2>3
<1>9. QED BY <1>1, <1>2, <1>6, <1>7, <1>8 DEF IInv, RosterRight, TopicsRight

\* An answer is right when it is given.
LEMMA AnswerKeeps == ASSUME IInv, BrokerAnswers PROVE IInv'
<1>0. /\ phase \in {"listing", "loading", "configs"}
      /\ answer' = <<Reply>> /\ answer'[1] = Reply
      /\ UNCHANGED <<groups, policy, since, phase, elapsed, waited, rosterCache,
                     topicsCache, policyCache, roster, topics, toFetch, compacted>>
  BY DEF BrokerAnswers, worldVars, caches, workVars
<1>1. /\ phase = "listing" => Reply = groups
      /\ phase = "loading" => Reply = Existing
      /\ phase = "configs" => Reply = [t \in toFetch |-> policy[t]]
  BY <1>0 DEF Reply
<1>2. TypeOK' /\ Timing' /\ NotYet'
  BY <1>0 DEF IInv, TypeOK, Timing, NotYet
<1>3. AnswerTyped'
  BY <1>0, <1>1 DEF IInv, TypeOK, AnswerTyped, Existing
<1>4. RosterRight'
  BY <1>0, <1>1 DEF IInv, RosterRight, GroupRight, RecentEnough, Fresh
<1>5. TopicsRight'
  BY <1>0, <1>1 DEF IInv, TopicsRight, TopicRight, RecentEnough, Fresh, Loaded, Existing
<1>6. PolicyRight'
  BY <1>0, <1>1
  DEF IInv, PolicyRight, EntryRight, MarkedForAReason, RecentEnough, Fresh
<1>7. QED BY <1>2, <1>3, <1>4, <1>5, <1>6 DEF IInv

\* Whatever ends a cycle leaves the caches as they are.
LEMMA EndKeeps == ASSUME IInv, End PROVE IInv'
<1>0. /\ phase' = "idle" /\ waited' = 0 /\ answer' = <<>> /\ elapsed' = 0
      /\ roster' = {} /\ topics' = {} /\ toFetch' = {} /\ compacted' = {}
      /\ UNCHANGED <<groups, policy, since, rosterCache, topicsCache, policyCache>>
  BY DEF End, GoTo, worldVars, caches
<1>1. TypeOK' /\ AnswerTyped' /\ Timing' /\ NotYet'
  BY <1>0, TimesAreNat DEF IInv, TypeOK, AnswerTyped, Timing, NotYet
<1>2. RosterRight' /\ TopicsRight' /\ PolicyRight'
  BY <1>0
  DEF IInv, RosterRight, GroupRight, TopicsRight, TopicRight, PolicyRight, EntryRight,
      Fresh, Loaded, Existing
<1>3. QED BY <1>1, <1>2 DEF IInv

\* The list of groups: from the cache, or the answer to the call.
LEMMA RosterKeeps == ASSUME IInv, Begin \/ GroupsListed PROVE IInv'
<1>0. /\ phase \in {"idle", "listing"} /\ phase' \in {"listing", "describing"}
      /\ waited' = 0 /\ answer' = <<>>
      /\ UNCHANGED <<groups, policy, since, elapsed, topicsCache, policyCache,
                     topics, toFetch, compacted>>
  BY DEF Begin, GroupsListed, GoTo, worldVars, caches
<1>1. \/ phase = "idle" /\ phase' = "listing" /\ UNCHANGED <<roster, rosterCache>>
      \/ /\ phase = "idle" /\ phase' = "describing" /\ UNCHANGED rosterCache
         /\ Fresh(rosterCache, GroupsTTL) /\ roster' = rosterCache.value
      \/ /\ phase = "listing" /\ phase' = "describing" /\ answer # <<>>
         /\ roster' = answer[1]
         /\ rosterCache' = IF GroupsTTL = 0 THEN rosterCache ELSE Stored(answer[1])
  BY DEF Begin, GroupsListed, GoTo, caches
<1>2. rosterCache' \in Lists(Groups, GroupsTTL) /\ roster' \in SUBSET Groups
  BY <1>0, <1>1, TimesAreNat DEF IInv, TypeOK, AnswerTyped, Lists, Stored
<1>3. TypeOK' /\ AnswerTyped' /\ NotYet'
  BY <1>0, <1>2, TimesAreNat DEF IInv, TypeOK, AnswerTyped, NotYet
<1>4. Timing'
  BY <1>0, <1>1, TimesAreNat DEF IInv, TypeOK, Timing
<1>5. ASSUME NEW g \in Groups PROVE GroupRight(g)'
  <2>0. /\ GroupRight(g) /\ since[g] \in Nat /\ elapsed \in Nat /\ waited \in Nat
        /\ rosterCache.age \in Nat /\ waited <= KafkaTimeout /\ waited <= elapsed
    BY TimesAreNat DEF IInv, RosterRight, TypeOK, Lists, Timing
  <2>1. CASE phase' = "listing"
    BY <1>0, <1>1, <2>0, <2>1 DEF GroupRight, RecentEnough, Fresh
  <2>2. CASE /\ phase' = "describing" /\ UNCHANGED rosterCache
             /\ Fresh(rosterCache, GroupsTTL) /\ roster' = rosterCache.value
    BY <1>0, <2>0, <2>2, TimesAreNat DEF GroupRight, RecentEnough, Fresh
  <2>3. CASE /\ phase = "listing" /\ phase' = "describing" /\ answer # <<>>
             /\ roster' = answer[1]
             /\ rosterCache' = IF GroupsTTL = 0 THEN rosterCache ELSE Stored(answer[1])
    <3>1. ~(g \in answer[1] <=> g \in groups) => since[g] <= waited
      BY <2>0, <2>3 DEF GroupRight
    <3>2. ~(g \in roster' <=> g \in groups) => RecentEnough(g, GroupsTTL)'
      BY <1>0, <2>0, <2>3, <3>1, TimesAreNat DEF RecentEnough
    <3>3. Fresh(rosterCache', GroupsTTL) => rosterCache' = Stored(answer[1])
      BY <2>0, <2>3, TimesAreNat DEF Fresh
    <3>4. Fresh(rosterCache', GroupsTTL) /\ ~(g \in rosterCache'.value <=> g \in groups)
             => since[g] <= rosterCache'.age + KafkaTimeout
      BY <2>0, <3>1, <3>3, TimesAreNat DEF Stored
    <3>5. QED BY <1>0, <2>3, <3>2, <3>4 DEF GroupRight
  <2>4. QED BY <1>1, <2>1, <2>2, <2>3
<1>6. TopicsRight' /\ PolicyRight'
  BY <1>0
  DEF IInv, TopicsRight, TopicRight, PolicyRight, EntryRight, Fresh, Loaded, Existing
<1>7. QED BY <1>3, <1>4, <1>5, <1>6 DEF IInv, RosterRight, TopicsRight

\* The set of topics: from the cache, or the answer to the call.
LEMMA TopicsKeep == ASSUME IInv, Described \/ TopicsLoaded PROVE IInv'
<1>0. /\ phase \in {"describing", "loading"} /\ phase' \in {"loading", "marking"}
      /\ waited' = 0 /\ answer' = <<>>
      /\ UNCHANGED <<groups, policy, since, elapsed, rosterCache, policyCache,
                     roster, toFetch, compacted>>
  BY DEF Described, TopicsLoaded, GoTo, worldVars, caches
<1>1. \/ phase = "describing" /\ phase' = "loading" /\ UNCHANGED <<topics, topicsCache>>
      \/ /\ phase = "describing" /\ phase' = "marking" /\ UNCHANGED topicsCache
         /\ Fresh(topicsCache, MetadataTTL) /\ topics' = topicsCache.value
      \/ /\ phase = "loading" /\ phase' = "marking" /\ answer # <<>>
         /\ topics' = answer[1]
         /\ topicsCache' = IF MetadataTTL = 0 THEN topicsCache ELSE Stored(answer[1])
  BY DEF Described, TopicsLoaded, GoTo, caches
<1>2. topicsCache' \in Lists(Topics, MetadataTTL) /\ topics' \in SUBSET Topics
  BY <1>0, <1>1, TimesAreNat DEF IInv, TypeOK, AnswerTyped, Lists, Stored
<1>3. TypeOK' /\ AnswerTyped' /\ NotYet'
  BY <1>0, <1>2, TimesAreNat DEF IInv, TypeOK, AnswerTyped, NotYet
<1>4. Timing'
  BY <1>0, <1>1, TimesAreNat DEF IInv, TypeOK, Timing
<1>5. ASSUME NEW t \in Topics PROVE TopicRight(t)'
  <2>0. /\ TopicRight(t) /\ since[t] \in Nat /\ elapsed \in Nat /\ waited \in Nat
        /\ topicsCache.age \in Nat /\ waited <= KafkaTimeout /\ waited <= elapsed
    BY TimesAreNat DEF IInv, TopicsRight, TypeOK, Lists, Timing
  <2>1. CASE phase' = "loading"
    BY <1>0, <1>1, <2>0, <2>1 DEF TopicRight, RecentEnough, Fresh, Loaded, Existing
  <2>2. CASE /\ phase' = "marking" /\ UNCHANGED topicsCache
             /\ Fresh(topicsCache, MetadataTTL) /\ topics' = topicsCache.value
    BY <1>0, <2>0, <2>2, TimesAreNat DEF TopicRight, RecentEnough, Fresh, Loaded, Existing
  <2>3. CASE /\ phase = "loading" /\ phase' = "marking" /\ answer # <<>>
             /\ topics' = answer[1]
             /\ topicsCache' = IF MetadataTTL = 0 THEN topicsCache ELSE Stored(answer[1])
    <3>1. ~(t \in answer[1] <=> t \in Existing) => since[t] <= waited
      BY <2>0, <2>3 DEF TopicRight
    <3>2. ~(t \in topics' <=> t \in Existing) => RecentEnough(t, MetadataTTL)'
      BY <1>0, <2>0, <2>3, <3>1, TimesAreNat DEF RecentEnough
    <3>3. Fresh(topicsCache', MetadataTTL) => topicsCache' = Stored(answer[1])
      BY <2>0, <2>3, TimesAreNat DEF Fresh
    <3>4. Fresh(topicsCache', MetadataTTL) /\ ~(t \in topicsCache'.value <=> t \in Existing)
             => since[t] <= topicsCache'.age + KafkaTimeout
      BY <2>0, <3>1, <3>3, TimesAreNat DEF Stored
    <3>5. QED BY <1>0, <2>3, <3>2, <3>4 DEF TopicRight, Loaded, Existing
  <2>4. QED BY <1>1, <2>1, <2>2, <2>3
<1>6. RosterRight' /\ PolicyRight'
  BY <1>0 DEF IInv, RosterRight, GroupRight, PolicyRight, EntryRight, RecentEnough, Fresh
<1>7. QED BY <1>3, <1>4, <1>5, <1>6 DEF IInv, RosterRight, TopicsRight

LEMMA MarkedKeeps == ASSUME IInv, Marked PROVE IInv'
<1>0. /\ phase = "marking" /\ phase' = "fetching" /\ waited' = 0 /\ answer' = <<>>
      /\ UNCHANGED <<groups, policy, since, elapsed, rosterCache, topicsCache,
                     policyCache, roster, topics, toFetch, compacted>>
  BY DEF Marked, GoTo, worldVars, caches, workVars
<1>1. TypeOK' /\ AnswerTyped' /\ NotYet' /\ Timing'
  BY <1>0, TimesAreNat DEF IInv, TypeOK, AnswerTyped, NotYet, Timing
<1>2. RosterRight' /\ TopicsRight' /\ PolicyRight'
  BY <1>0
  DEF IInv, RosterRight, GroupRight, TopicsRight, TopicRight, PolicyRight, EntryRight,
      RecentEnough, Fresh,
      Loaded, Existing
<1>3. QED BY <1>1, <1>2 DEF IInv

\* The pruning keeps the entries of the monitored topics, and of the others none.
LEMMA PrunedEntries ==
    ASSUME NEW cache, NEW t \in Topics
    PROVE  /\ t \in topics => Pruned(cache)[t] = cache[t]
           /\ t \notin topics => Pruned(cache)[t] = NoPolicy
  BY DEF Pruned

LEMMA NoPolicyIsRight ==
    /\ NoPolicy \in [age : 0..CompactedTTL, flag : BOOLEAN, known : BOOLEAN]
    /\ ~NoPolicy.known /\ ~NoPolicy.flag
  BY TimesAreNat DEF NoPolicy

LEMMA FieldsOfPolicy ==
    ASSUME NEW a, NEW f, NEW k
    PROVE  /\ [age |-> a, flag |-> f, known |-> k].age = a
           /\ [age |-> a, flag |-> f, known |-> k].flag = f
           /\ [age |-> a, flag |-> f, known |-> k].known = k
  OBVIOUS

\* The policies: what the cache still holds is taken over.
LEMMA FetchedKeeps == ASSUME IInv, Fetched PROVE IInv'
<1>0. /\ phase = "fetching" /\ waited' = 0 /\ answer' = <<>>
      /\ toFetch' = Missing /\ compacted' = {t \in topics \ Missing : policyCache[t].flag}
      /\ UNCHANGED <<groups, policy, since, elapsed, rosterCache, topicsCache,
                     roster, topics>>
      /\ \/ phase' = "done" /\ Missing = {} /\ policyCache' = Pruned(policyCache)
         \/ phase' = "configs" /\ policyCache' = policyCache
  BY DEF Fetched, GoTo, worldVars
<1>1. Missing \subseteq topics /\ topics \subseteq Topics
  BY DEF Missing, IInv, TypeOK
<1>2. policyCache' \in [Topics -> [age : 0..CompactedTTL, flag : BOOLEAN, known : BOOLEAN]]
  BY <1>0, NoPolicyIsRight DEF Pruned, IInv, TypeOK
<1>3. TypeOK' /\ AnswerTyped' /\ NotYet' /\ Timing'
  BY <1>0, <1>1, <1>2, TimesAreNat DEF IInv, TypeOK, AnswerTyped, NotYet, Timing
<1>4. RosterRight' /\ TopicsRight'
  BY <1>0
  DEF IInv, RosterRight, GroupRight, TopicsRight, TopicRight, RecentEnough, Fresh,
      Loaded, Existing
<1>5. \A t \in Topics : EntryRight(t)'
  BY <1>0, PrunedEntries, NoPolicyIsRight DEF IInv, PolicyRight, EntryRight, Fresh
<1>6. ASSUME NEW t \in topics \ Missing PROVE MarkedForAReason(t)'
  <2>1. /\ policyCache'[t] = policyCache[t]
        /\ (t \in compacted') = policyCache[t].flag
        /\ policyCache[t].age < CompactedTTL
        /\ policyCache[t] \in [age : 0..CompactedTTL, flag : BOOLEAN, known : BOOLEAN]
    BY <1>0, <1>1, <1>6, PrunedEntries DEF Missing, Fresh, IInv, TypeOK
  <2>2. EntryRight(t) /\ since[t] \in Nat /\ elapsed \in Nat /\ since' = since
        /\ elapsed' = elapsed /\ policy' = policy
    BY <1>0, <1>1, TimesAreNat DEF IInv, TypeOK, PolicyRight
  <2>3. QED BY <2>1, <2>2, TimesAreNat DEF EntryRight, MarkedForAReason, RecentEnough
<1>7. PolicyRight'
  BY <1>0, <1>1, <1>5, <1>6 DEF PolicyRight, Missing, IInv, EntryRight
<1>8. QED BY <1>3, <1>4, <1>7 DEF IInv

\* The policies: what was asked for is recorded and taken over.
LEMMA ConfigsReadKeeps == ASSUME IInv, ConfigsRead PROVE IInv'
<1>0. PICK known \in SUBSET {t \in toFetch : answer[1][t] # "absent"} :
         /\ phase = "configs" /\ answer # <<>>
         /\ policyCache' = Pruned(Updated(known))
         /\ compacted' = compacted \cup CompactedIn(known)
         /\ phase' = "done" /\ waited' = 0 /\ answer' = <<>>
         /\ UNCHANGED <<groups, policy, since, elapsed, rosterCache, topicsCache,
                        roster, topics, toFetch>>
  BY DEF ConfigsRead, GoTo, worldVars
<1>1. /\ known \subseteq toFetch /\ toFetch \subseteq topics /\ topics \subseteq Topics
      /\ CompactedIn(known) \subseteq known
      /\ since \in [Groups \cup Topics -> 0..Horizon]
      /\ elapsed \in Nat /\ waited \in 0..KafkaTimeout /\ waited <= elapsed
  BY DEF CompactedIn, IInv, TypeOK, Timing
<1>2. ASSUME NEW t \in Topics
      PROVE  /\ t \notin topics => policyCache'[t] = NoPolicy
             /\ t \in topics \ toFetch => policyCache'[t] = policyCache[t]
             /\ t \in toFetch =>
                   policyCache'[t] = PolicyRead(t \in CompactedIn(known), t \in known)
  BY <1>0, <1>1, PrunedEntries DEF Updated
<1>3. \A t : PolicyRead(t \in CompactedIn(known), t \in known)
                \in [age : 0..CompactedTTL, flag : BOOLEAN, known : BOOLEAN]
  BY NoPolicyIsRight, TimesAreNat DEF PolicyRead
<1>4. policyCache' \in [Topics -> [age : 0..CompactedTTL, flag : BOOLEAN, known : BOOLEAN]]
  <2>1. policyCache' = [t \in Topics |-> policyCache'[t]]
    BY <1>0 DEF Pruned
  <2>2. \A t \in Topics :
           policyCache'[t] \in [age : 0..CompactedTTL, flag : BOOLEAN, known : BOOLEAN]
    BY <1>2, <1>3, NoPolicyIsRight DEF IInv, TypeOK
  <2>3. QED BY <2>1, <2>2
<1>5. TypeOK' /\ AnswerTyped' /\ NotYet' /\ Timing'
  BY <1>0, <1>1, <1>4, TimesAreNat DEF IInv, TypeOK, AnswerTyped, NotYet, Timing
<1>6. RosterRight' /\ TopicsRight'
  BY <1>0
  DEF IInv, RosterRight, GroupRight, TopicsRight, TopicRight, RecentEnough, Fresh,
      Loaded, Existing
<1>7. \A t \in toFetch : answer[1][t] = policy[t] \/ since[t] <= waited
  BY <1>0, <1>1 DEF IInv, PolicyRight
<1>8. ASSUME NEW t \in toFetch
      PROVE  EntryRight(t)' /\ MarkedForAReason(t)'
  <2>0. t \in Topics /\ t \notin compacted /\ since[t] \in Nat
    BY <1>0, <1>1, TimesAreNat DEF IInv, PolicyRight
  <2>1. t \in compacted' <=> t \in known /\ answer[1][t] = "compact"
    BY <1>0, <2>0 DEF CompactedIn
  <2>2. policyCache'[t] = PolicyRead(t \in CompactedIn(known), t \in known)
    BY <1>0, <1>2, <2>0
  <2>2a. t \in CompactedIn(known) <=> t \in compacted'
    BY <2>1 DEF CompactedIn
  <2>3. /\ policyCache'[t].known => t \in known
        /\ policyCache'[t].known => (policyCache'[t].flag <=> t \in compacted')
        /\ ~policyCache'[t].known => ~policyCache'[t].flag
        /\ ~Fresh(policyCache'[t], CompactedTTL) => policyCache'[t] = NoPolicy
        /\ policyCache'[t].age \in Nat
    <3>1. CASE CompactedTTL = 0
      BY <2>2, <3>1, NoPolicyIsRight, TimesAreNat DEF PolicyRead, NoPolicy
    <3>2. CASE CompactedTTL # 0
      <4>1. policyCache'[t] = [age |-> 0, flag |-> t \in CompactedIn(known),
                               known |-> t \in known]
        BY <2>2, <3>2 DEF PolicyRead
      <4>2. t \notin known => t \notin CompactedIn(known)
        BY DEF CompactedIn
      <4>3. Fresh(policyCache'[t], CompactedTTL)
        BY <3>2, <4>1, TimesAreNat DEF Fresh
      <4>4. /\ policyCache'[t].flag = (t \in CompactedIn(known))
            /\ policyCache'[t].known = (t \in known)
            /\ policyCache'[t].age = 0
        BY <4>1, FieldsOfPolicy
      <4>5. policyCache'[t].age \in Nat
        BY <4>4
      <4>6. /\ policyCache'[t].known <=> t \in known
            /\ policyCache'[t].flag <=> t \in compacted'
        BY <2>2a, <4>4, Zenon
      <4>7. QED BY <2>2a, <4>2, <4>3, <4>5, <4>6, Zenon
    <3>3. QED BY <3>1, <3>2
  <2>4. CASE t \in known
    <3>1. CASE answer[1][t] = policy[t]
      <4>1. t \in compacted' <=> policy'[t] = "compact"
        BY <1>0, <2>1, <2>4, <3>1
      <4>2. policyCache'[t].known => (policyCache'[t].flag <=> policy'[t] = "compact")
        BY <2>3, <4>1
      <4>3. policyCache'[t].flag \in BOOLEAN
        BY <1>4, <2>0
      <4>4. QED BY <2>3, <4>1, <4>2, <4>3 DEF EntryRight, MarkedForAReason
    <3>2. CASE since[t] <= waited
      <4>1. since'[t] <= policyCache'[t].age + KafkaTimeout
        BY <1>0, <1>1, <2>0, <2>3, <3>2, TimesAreNat
      <4>2. RecentEnough(t, CompactedTTL)'
        BY <1>0, <1>1, <2>0, <3>2, TimesAreNat DEF RecentEnough
      <4>3. QED BY <2>3, <4>1, <4>2 DEF EntryRight, MarkedForAReason
    <3>3. QED BY <1>7, <3>1, <3>2
  <2>5. CASE t \notin known
    BY <2>1, <2>3, <2>5 DEF EntryRight, MarkedForAReason
  <2>6. QED BY <2>4, <2>5
<1>9. ASSUME NEW t \in topics \ toFetch
      PROVE  EntryRight(t)' /\ MarkedForAReason(t)'
  <2>1. /\ policyCache'[t] = policyCache[t] /\ (t \in compacted') = (t \in compacted)
        /\ EntryRight(t) /\ MarkedForAReason(t)
    BY <1>0, <1>1, <1>2 DEF IInv, PolicyRight
  <2>2. QED BY <1>0, <2>1 DEF EntryRight, MarkedForAReason, RecentEnough
<1>10. ASSUME NEW t \in Topics \ topics PROVE EntryRight(t)'
  BY <1>2, NoPolicyIsRight DEF EntryRight
<1>11. PolicyRight'
  BY <1>0, <1>8, <1>9, <1>10 DEF PolicyRight
<1>12. QED BY <1>5, <1>6, <1>11 DEF IInv

\* The call failed: what was asked for counts as not compacted.
LEMMA ConfigsFailKeeps == ASSUME IInv, ConfigsFail PROVE IInv'
<1>0. /\ phase = "configs" /\ phase' = "done" /\ waited' = 0 /\ answer' = <<>>
      /\ policyCache' = Pruned(policyCache)
      /\ UNCHANGED <<groups, policy, since, elapsed, rosterCache, topicsCache,
                     roster, topics, toFetch, compacted>>
  BY DEF ConfigsFail, GoTo, worldVars, workVars
<1>1. policyCache' \in [Topics -> [age : 0..CompactedTTL, flag : BOOLEAN, known : BOOLEAN]]
  BY <1>0, NoPolicyIsRight DEF Pruned, IInv, TypeOK
<1>2. TypeOK' /\ AnswerTyped' /\ NotYet' /\ Timing'
  BY <1>0, <1>1, TimesAreNat DEF IInv, TypeOK, AnswerTyped, NotYet, Timing
<1>3. RosterRight' /\ TopicsRight'
  BY <1>0
  DEF IInv, RosterRight, GroupRight, TopicsRight, TopicRight, RecentEnough, Fresh,
      Loaded, Existing
<1>4. \A t \in Topics : EntryRight(t)'
  BY <1>0, PrunedEntries, NoPolicyIsRight DEF IInv, PolicyRight, EntryRight, Fresh
<1>5. ASSUME NEW t \in topics PROVE MarkedForAReason(t)'
  <2>1. t \in Topics /\ policyCache'[t] = policyCache[t]
    BY <1>0, PrunedEntries DEF IInv, TypeOK
  <2>2. MarkedForAReason(t)
    BY <1>0, <2>1, NoPolicyIsRight DEF IInv, PolicyRight, MarkedForAReason
  <2>3. QED BY <1>0, <2>1, <2>2 DEF MarkedForAReason, RecentEnough
<1>6. PolicyRight'
  BY <1>0, <1>4, <1>5 DEF PolicyRight
<1>7. QED BY <1>2, <1>3, <1>6 DEF IInv

\* Time makes everything older at the same pace, and entries expire.
LEMMA TickKeeps == ASSUME IInv, Tick PROVE IInv'
<1>0. /\ MayTakeTime
      /\ since' = [x \in DOMAIN since |->
                      IF since[x] < Horizon THEN since[x] + 1 ELSE Horizon]
      /\ elapsed' = IF phase = "idle" THEN 0 ELSE elapsed + 1
      /\ waited' = IF phase \in {"listing", "loading", "configs"} THEN waited + 1
                                                                 ELSE waited
      /\ rosterCache' = OlderList(rosterCache, GroupsTTL)
      /\ topicsCache' = OlderList(topicsCache, MetadataTTL)
      /\ policyCache' = [t \in Topics |-> OlderPolicy(policyCache[t])]
      /\ UNCHANGED <<groups, policy, phase, answer, roster, topics, toFetch, compacted>>
  BY DEF Tick, worldVars, workVars
<1>1. /\ since \in [Groups \cup Topics -> 0..Horizon] /\ elapsed \in Nat
      /\ waited \in 0..KafkaTimeout
      /\ rosterCache \in Lists(Groups, GroupsTTL)
      /\ topicsCache \in Lists(Topics, MetadataTTL)
      /\ policyCache \in
            [Topics -> [age : 0..CompactedTTL, flag : BOOLEAN, known : BOOLEAN]]
  BY DEF IInv, TypeOK
<1>2. /\ since' \in [Groups \cup Topics -> 0..Horizon]
      /\ \A x \in Groups \cup Topics : since'[x] \in Nat /\ since'[x] <= since[x] + 1
  BY <1>0, <1>1, TimesAreNat
<1>3. /\ rosterCache' \in Lists(Groups, GroupsTTL)
      /\ Fresh(rosterCache', GroupsTTL) =>
            /\ Fresh(rosterCache, GroupsTTL) /\ rosterCache'.value = rosterCache.value
            /\ rosterCache'.age = rosterCache.age + 1
  BY <1>0, <1>1, TimesAreNat DEF Lists, OlderList, NoList, Fresh
<1>4. /\ topicsCache' \in Lists(Topics, MetadataTTL)
      /\ Fresh(topicsCache', MetadataTTL) =>
            /\ Fresh(topicsCache, MetadataTTL) /\ topicsCache'.value = topicsCache.value
            /\ topicsCache'.age = topicsCache.age + 1
  BY <1>0, <1>1, TimesAreNat DEF Lists, OlderList, NoList, Fresh
<1>5. ASSUME NEW t \in Topics
      PROVE  \/ policyCache'[t] = NoPolicy
             \/ /\ policyCache'[t] = [policyCache[t] EXCEPT !.age = @ + 1]
                /\ policyCache[t].age + 1 < CompactedTTL
  BY <1>0 DEF OlderPolicy
<1>6. policyCache' \in
          [Topics -> [age : 0..CompactedTTL, flag : BOOLEAN, known : BOOLEAN]]
  <2>1. \A t \in Topics :
           policyCache'[t] \in [age : 0..CompactedTTL, flag : BOOLEAN, known : BOOLEAN]
    <3> SUFFICES ASSUME NEW t \in Topics
                 PROVE  policyCache'[t] \in
                           [age : 0..CompactedTTL, flag : BOOLEAN, known : BOOLEAN]
      OBVIOUS
    <3>1. policyCache[t] \in [age : 0..CompactedTTL, flag : BOOLEAN, known : BOOLEAN]
      BY <1>1
    <3>2. CASE policyCache'[t] = NoPolicy
      BY <3>2, NoPolicyIsRight
    <3>3. CASE /\ policyCache'[t] = [policyCache[t] EXCEPT !.age = @ + 1]
               /\ policyCache[t].age + 1 < CompactedTTL
      BY <3>1, <3>3, TimesAreNat
    <3>4. QED BY <1>5, <3>2, <3>3
  <2>2. QED BY <1>0, <2>1
<1>7. Timing' /\ elapsed' \in Nat /\ waited' \in 0..KafkaTimeout
  BY <1>0, <1>1, TimesAreNat DEF IInv, TypeOK, Timing, MayTakeTime, Awaiting
<1>8. TypeOK' /\ AnswerTyped' /\ NotYet'
  BY <1>0, <1>2, <1>3, <1>4, <1>6, <1>7 DEF IInv, TypeOK, AnswerTyped, NotYet
<1>9. phase # "idle" => elapsed' = elapsed + 1
  BY <1>0
<1>10. ASSUME NEW g \in Groups PROVE GroupRight(g)'
  <2>1. /\ GroupRight(g) /\ since[g] \in Nat /\ since'[g] \in Nat
        /\ since'[g] <= since[g] + 1 /\ rosterCache.age \in Nat
    BY <1>1, <1>2, TimesAreNat DEF IInv, RosterRight, Lists
  <2>2. phase = "listing" => waited' = waited + 1
    BY <1>0
  <2>3. ASSUME Fresh(rosterCache', GroupsTTL), ~(g \in rosterCache'.value <=> g \in groups)
        PROVE  since'[g] <= rosterCache'.age + KafkaTimeout
    <3>1. /\ Fresh(rosterCache, GroupsTTL) /\ rosterCache'.value = rosterCache.value
          /\ rosterCache'.age = rosterCache.age + 1
      BY <1>3, <2>3
    <3>2. since[g] <= rosterCache.age + KafkaTimeout
      BY <2>1, <2>3, <3>1 DEF GroupRight
    <3>3. KafkaTimeout \in Nat
      BY TimesAreNat
    <3>4. QED BY <2>1, <3>1, <3>2, <3>3
  <2>4. phase = "listing" /\ answer # <<>> /\ ~(g \in answer[1] <=> g \in groups)
           => since'[g] <= waited'
    BY <1>1, <2>1, <2>2 DEF GroupRight
  <2>5. phase \notin {"idle", "listing"} /\ ~(g \in roster <=> g \in groups)
           => RecentEnough(g, GroupsTTL)'
    BY <1>1, <1>9, <2>1, TimesAreNat DEF GroupRight, RecentEnough
  <2>6. QED BY <1>0, <2>3, <2>4, <2>5 DEF GroupRight, Fresh
<1>11. ASSUME NEW t \in Topics PROVE TopicRight(t)'
  <2>1. /\ TopicRight(t) /\ since[t] \in Nat /\ since'[t] \in Nat
        /\ since'[t] <= since[t] + 1 /\ topicsCache.age \in Nat
        /\ Existing' = Existing
    BY <1>0, <1>1, <1>2, TimesAreNat DEF IInv, TopicsRight, Lists, Existing
  <2>2. /\ Loaded' = Loaded /\ (Loaded => phase # "idle")
        /\ (phase = "loading" => waited' = waited + 1)
    BY <1>0 DEF Loaded
  <2>3. ASSUME Fresh(topicsCache', MetadataTTL), ~(t \in topicsCache'.value <=> t \in Existing)
        PROVE  since'[t] <= topicsCache'.age + KafkaTimeout
    <3>1. /\ Fresh(topicsCache, MetadataTTL) /\ topicsCache'.value = topicsCache.value
          /\ topicsCache'.age = topicsCache.age + 1
      BY <1>4, <2>3
    <3>2. since[t] <= topicsCache.age + KafkaTimeout
      BY <2>1, <2>3, <3>1 DEF TopicRight
    <3>3. KafkaTimeout \in Nat
      BY TimesAreNat
    <3>4. QED BY <2>1, <3>1, <3>2, <3>3
  <2>4. phase = "loading" /\ answer # <<>> /\ ~(t \in answer[1] <=> t \in Existing)
           => since'[t] <= waited'
    BY <1>1, <2>1, <2>2 DEF TopicRight
  <2>5. Loaded /\ ~(t \in topics <=> t \in Existing) => RecentEnough(t, MetadataTTL)'
    BY <1>1, <1>9, <2>1, <2>2, TimesAreNat DEF TopicRight, RecentEnough
  <2>6. QED BY <1>0, <2>1, <2>2, <2>3, <2>4, <2>5 DEF TopicRight, Fresh
<1>12. ASSUME NEW t \in Topics
       PROVE  /\ EntryRight(t)'
              /\ ~policyCache[t].known => ~policyCache'[t].known
              /\ policyCache[t] = NoPolicy => policyCache'[t] = NoPolicy
  <2>1. /\ policyCache[t] \in [age : 0..CompactedTTL, flag : BOOLEAN, known : BOOLEAN]
        /\ since[t] \in Nat /\ EntryRight(t) /\ since'[t] <= since[t] + 1
        /\ since'[t] \in Nat
    BY <1>1, <1>2, TimesAreNat DEF IInv, PolicyRight
  <2>2. CASE policyCache'[t] = NoPolicy
    BY <2>2, NoPolicyIsRight DEF EntryRight
  <2>3. CASE /\ policyCache'[t] = [policyCache[t] EXCEPT !.age = @ + 1]
             /\ policyCache[t].age + 1 < CompactedTTL
    <3>1. /\ policyCache'[t].age = policyCache[t].age + 1
          /\ policyCache'[t].known = policyCache[t].known
          /\ policyCache'[t].flag = policyCache[t].flag
      BY <2>1, <2>3
    <3>2. EntryRight(t)'
      BY <1>0, <2>1, <2>3, <3>1, TimesAreNat DEF EntryRight, Fresh
    <3>3. policyCache[t] # NoPolicy
      BY <2>1, <2>3, TimesAreNat DEF NoPolicy
    <3>4. QED BY <3>1, <3>2, <3>3
  <2>4. QED BY <1>5, <2>2, <2>3
<1>13. ASSUME NEW t \in Topics, MarkedForAReason(t), phase # "idle"
       PROVE  MarkedForAReason(t)'
  <2>1. since[t] \in Nat /\ since'[t] \in Nat /\ since'[t] <= since[t] + 1
    BY <1>1, <1>2, TimesAreNat
  <2>2. QED
    BY <1>0, <1>1, <1>9, <1>12, <1>13, <2>1, TimesAreNat
    DEF MarkedForAReason, RecentEnough
<1>14. PolicyRight'
  <2> SUFFICES ASSUME NEW t \in Topics, phase = "configs", t \in toFetch, answer # <<>>
               PROVE  answer[1][t] = policy[t] \/ since'[t] <= waited'
    BY <1>0, <1>12, <1>13 DEF IInv, PolicyRight
  <2>1. answer[1][t] = policy[t] \/ since[t] <= waited
    BY DEF IInv, PolicyRight
  <2>2. waited' = waited + 1 /\ waited \in Nat
    BY <1>0, <1>1, TimesAreNat
  <2>3. since[t] \in Nat /\ since'[t] \in Nat /\ since'[t] <= since[t] + 1
    BY <1>1, <1>2, TimesAreNat
  <2>4. since[t] <= waited => since'[t] <= waited'
    BY <2>2, <2>3
  <2>5. QED BY <2>1, <2>4
<1>15. QED BY <1>7, <1>8, <1>10, <1>11, <1>14 DEF IInv, RosterRight, TopicsRight

LEMMA StepKeeps == IInv /\ [Next]_vars => IInv'
<1> SUFFICES ASSUME IInv, [Next]_vars PROVE IInv'
  OBVIOUS
<1>1. CASE Begin \/ GroupsListed
  BY <1>1, RosterKeeps
<1>2. CASE Described \/ TopicsLoaded
  BY <1>2, TopicsKeep
<1>3. CASE Marked
  BY <1>3, MarkedKeeps
<1>4. CASE Fetched
  BY <1>4, FetchedKeeps
<1>5. CASE ConfigsRead
  BY <1>5, ConfigsReadKeeps
<1>6. CASE ConfigsFail
  BY <1>6, ConfigsFailKeeps
<1>7. CASE CallFails \/ TimesOut \/ Return
  BY <1>7, EndKeeps DEF CallFails, TimesOut, Return
<1>8. CASE BrokerAnswers
  BY <1>8, AnswerKeeps
<1>9. CASE Tick
  BY <1>9, TickKeeps
<1>10. CASE \/ \E g \in Groups : GroupComesOrGoes(g)
            \/ \E t \in Topics : TopicChanges(t)
  BY <1>10, KafkaKeeps
<1>11. CASE UNCHANGED vars
  BY <1>11
  DEF vars, worldVars, callVars, caches, workVars, IInv, TypeOK, AnswerTyped, Timing,
      NotYet, RosterRight, GroupRight, TopicsRight, TopicRight, Loaded, Existing,
      PolicyRight, EntryRight,
      MarkedForAReason, RecentEnough, Fresh
<1>12. QED
  BY <1>1, <1>2, <1>3, <1>4, <1>5, <1>6, <1>7, <1>8, <1>9, <1>10, <1>11
  DEF Next, CycleStep

LEMMA Inductive == Spec => []IInv
  BY InitHolds, StepKeeps, PTL DEF Spec

-----------------------------------------------------------------------------

\* Every variable keeps its type.
THEOREM TypeCorrect == Spec => []TypeOK
<1>1. IInv => TypeOK
  BY DEF IInv
<1>2. QED BY <1>1, Inductive, PTL

\* The blocking calls put off the timeout by one of theirs at most.
THEOREM CycleIsBounded == Spec => []OverrunBounded
<1>1. IInv => OverrunBounded
  BY DEF IInv, Timing, OverrunBounded
<1>2. QED BY <1>1, Inductive, PTL

\* A snapshot is made from lists no older than a time to live, a call and the cycle.
THEOREM SnapshotsAreRecent == Spec => []SnapshotIsRecent
<1>1. IInv => SnapshotIsRecent
  BY DEF IInv, RosterRight, GroupRight, TopicsRight, TopicRight, Loaded, SnapshotIsRecent
<1>2. QED BY <1>1, Inductive, PTL

\* The cache of policies does not mix up topics.
THEOREM PoliciesAreKept == Spec => []CompactionForAReason
<1>1. IInv => CompactionForAReason
  BY DEF IInv, TypeOK, PolicyRight, MarkedForAReason, CompactionForAReason
<1>2. QED BY <1>1, Inductive, PTL
=============================================================================
