------------------------- MODULE GroupFetch_proofs -------------------------
(***************************************************************************)
(* Proofs about GroupFetch: its types, the accounting of the permits and    *)
(* the reasons for which a group may be missing, for every set of groups,   *)
(* any number of rounds under way and every limit.                          *)
(***************************************************************************)
EXTENDS GroupFetch, FiniteSetTheorems, TLAPS

\* How far the attempts have got in the states that depend on it.
AttemptsCounted ==
    \A t \in Tasks :
        /\ task[t] = "sleeping" => attempt[t] < MaxAttempts
        /\ task[t] = "exhausted" => attempt[t] = MaxAttempts
        /\ ~Ended(t) => attempt[t] >= 1

\* What the manager knows of the round it waits for or has joined.
RoundKnown ==
    /\ place \in {"fetching", "fetched"} =>
          \A g \in Groups : task[<<round, g>>] # "none"
    /\ place = "fetched" =>
          \A g \in Groups : /\ Ended(<<round, g>>)
                            /\ task[<<round, g>>] = "fetched" => g \in merged

Inv == TypeOK /\ PermitsAccounted /\ AttemptsCounted /\ RoundKnown

-----------------------------------------------------------------------------
\* The groups with a call in a round are a finite set.
LEMMA CallingFinite ==
    ASSUME NEW r \in Rounds
    PROVE  IsFiniteSet(Calling(r)) /\ Cardinality(Calling(r)) \in Nat
<1>1. Calling(r) \subseteq Groups
  BY DEF Calling
<1>2. IsFiniteSet(Groups)
  BY GroupsAssumption
<1>3. IsFiniteSet(Calling(r))
  BY <1>1, <1>2, FS_Subset
<1> QED
  BY <1>3, FS_CardinalityType

\* A task whose call is queued or under way holds a permit of its round.
LEMMA HolderHasPermit ==
    ASSUME TypeOK, PermitsAccounted, NEW r \in Rounds, NEW g \in Groups,
           task[<<r, g>>] \in {"queued", "calling"}
    PROVE  permits[r] + 1 \in 0..MaxConcurrent
<1>1. g \in Calling(r) /\ ~Ended(<<r, g>>)
  BY DEF Calling, Ended, EndedStates
<1>2. permits[r] + Cardinality(Calling(r)) = MaxConcurrent
  BY <1>1 DEF PermitsAccounted
<1>3. Cardinality(Calling(r)) # 0
  BY <1>1, CallingFinite, FS_EmptySet
<1>4. permits[r] \in Nat /\ MaxConcurrent \in Nat
  BY LimitsAssumption DEF TypeOK
<1> QED
  BY <1>2, <1>3, <1>4, CallingFinite

-----------------------------------------------------------------------------
LEMMA InvInit == Init => Inv
<1> SUFFICES ASSUME Init PROVE Inv
  OBVIOUS
<1>1. TypeOK
  BY LimitsAssumption
     DEF Init, TypeOK, TaskStates, EndedStates, MaxAttempts
<1>2. PermitsAccounted
  BY DEF Init, PermitsAccounted, Ended, EndedStates, Tasks
<1>3. AttemptsCounted /\ RoundKnown
  BY DEF Init, AttemptsCounted, RoundKnown, Ended, EndedStates
<1> QED
  BY <1>1, <1>2, <1>3 DEF Inv

\* The manager's own steps.
LEMMA ManagerKeepsInv == ASSUME Inv, ManagerStep PROVE Inv'
<1> USE DEF Inv
<1>1. CASE BeginRound
  <2>1. PICK r \in Rounds :
           /\ round' = r
           /\ \A g \in Groups : Ended(<<r, g>>)
           /\ task' = [t \in Tasks |-> IF t[1] = r THEN "waiting" ELSE task[t]]
           /\ attempt' = [t \in Tasks |-> IF t[1] = r THEN 1 ELSE attempt[t]]
           /\ permits' = [permits EXCEPT ![r] = MaxConcurrent]
    BY <1>1 DEF BeginRound
  <2>2. place' = "fetching" /\ merged' = merged
    BY <1>1 DEF BeginRound, ManagerGoes
  <2>3. TypeOK'
    BY <2>1, <2>2, LimitsAssumption
       DEF TypeOK, TaskStates, EndedStates, MaxAttempts
  <2>4. ASSUME NEW s \in Rounds, \E g \in Groups : ~Ended(<<s, g>>)'
        PROVE  permits'[s] + Cardinality(Calling(s)') = MaxConcurrent
    <3>1. CASE s = r
      <4>1. Calling(s)' = {}
        BY <2>1, <3>1 DEF Calling, Tasks
      <4>2. permits'[s] = MaxConcurrent
        BY <2>1, <3>1 DEF TypeOK
      <4> QED
        BY <4>1, <4>2, FS_EmptySet, LimitsAssumption
    <3>2. CASE s # r
      <4>1. \A g \in Groups : task'[<<s, g>>] = task[<<s, g>>]
        BY <2>1, <3>2 DEF Tasks
      <4>2. Calling(s)' = Calling(s) /\ permits'[s] = permits[s]
        BY <2>1, <3>2, <4>1 DEF Calling, TypeOK
      <4>3. \E g \in Groups : ~Ended(<<s, g>>)
        BY <2>4, <4>1 DEF Ended
      <4> QED
        BY <4>2, <4>3 DEF PermitsAccounted
    <3> QED
      BY <3>1, <3>2
  <2>5. PermitsAccounted'
    BY <2>4 DEF PermitsAccounted
  <2>6. AttemptsCounted'
    BY <2>1 DEF AttemptsCounted, Ended
  <2>7. RoundKnown'
    BY <2>1, <2>2 DEF RoundKnown, Tasks
  <2> QED
    BY <2>3, <2>5, <2>6, <2>7
<1>2. CASE JoinAll
  <2>1. TypeOK' /\ PermitsAccounted' /\ AttemptsCounted'
    BY <1>2 DEF JoinAll, ManagerGoes, fetchVars, TypeOK, PermitsAccounted,
                AttemptsCounted, Calling, Ended
  <2>2. RoundKnown'
    BY <1>2 DEF JoinAll, ManagerGoes, fetchVars, RoundKnown, Ended
  <2> QED
    BY <2>1, <2>2
<1>3. ASSUME place' \in {"elsewhere", "recycling", "replacing"},
             merged' = {} \/ merged' = merged,
             UNCHANGED <<round, fetchVars>>
      PROVE  Inv'
  <2>1. TypeOK' /\ PermitsAccounted' /\ AttemptsCounted'
    BY <1>3 DEF fetchVars, TypeOK, PermitsAccounted, AttemptsCounted,
                Calling, Ended
  <2>2. RoundKnown'
    BY <1>3 DEF RoundKnown
  <2> QED
    BY <2>1, <2>2
<1>4. CASE CycleSucceeds
  BY <1>3, <1>4 DEF CycleSucceeds, ManagerGoes
<1>5. CASE CycleTimesOut
  BY <1>3, <1>5 DEF CycleTimesOut, ManagerGoes
<1>6. CASE BeginReplacing
  BY <1>3, <1>6 DEF BeginReplacing, ManagerGoes
<1>7. CASE EndReplacing
  BY <1>3, <1>7 DEF EndReplacing, ManagerGoes
<1> QED
  BY <1>1, <1>2, <1>4, <1>5, <1>6, <1>7 DEF ManagerStep

-----------------------------------------------------------------------------
\* What a step of one task may do without disturbing the other invariants: it
\* leaves a state that is not an end, and keeps the books of its attempts.
LEMMA TaskKeepsRest ==
    ASSUME Inv, NEW t \in Tasks, ~Ended(t),
           NEW to \in TaskStates \ {"none"},
           task' = [task EXCEPT ![t] = to],
           \A u \in Tasks : u # t => attempt'[u] = attempt[u],
           to = "sleeping" => attempt'[t] < MaxAttempts,
           to = "exhausted" => attempt'[t] = MaxAttempts,
           attempt'[t] >= 1,
           UNCHANGED <<place, round, merged>>
    PROVE  AttemptsCounted' /\ RoundKnown'
<1> USE DEF Inv
<1>1. \A u \in Tasks : task'[u] = IF u = t THEN to ELSE task[u]
  BY DEF TypeOK
<1>2. AttemptsCounted'
  BY <1>1 DEF AttemptsCounted, Ended
<1>3. \A g \in Groups : round \in Rounds /\ <<round, g>> \in Tasks
  BY DEF TypeOK, Tasks
<1>4. ASSUME place \in {"fetching", "fetched"}, NEW g \in Groups
      PROVE  task'[<<round, g>>] # "none"
  BY <1>1, <1>3, <1>4 DEF RoundKnown
<1>5. ASSUME place = "fetched", NEW g \in Groups
      PROVE  <<round, g>> # t
  BY <1>5 DEF RoundKnown
<1>6. RoundKnown'
  BY <1>1, <1>3, <1>4, <1>5 DEF RoundKnown, Ended
<1> QED
  BY <1>2, <1>6

\* The books of the other rounds are not touched by a task.
LEMMA OtherRounds ==
    ASSUME Inv, NEW r \in Rounds, NEW g \in Groups, NEW to \in TaskStates,
           task' = [task EXCEPT ![<<r, g>>] = to],
           \A s \in Rounds : s # r => permits'[s] = permits[s],
           NEW s \in Rounds, s # r, \E h \in Groups : ~Ended(<<s, h>>)'
    PROVE  permits'[s] + Cardinality(Calling(s)') = MaxConcurrent
<1> USE DEF Inv
<1>1. \A h \in Groups : task'[<<s, h>>] = task[<<s, h>>]
  BY DEF TypeOK, Tasks
<1>2. Calling(s)' = Calling(s)
  BY <1>1 DEF Calling
<1>3. \E h \in Groups : ~Ended(<<s, h>>)
  BY <1>1 DEF Ended
<1> QED
  BY <1>2, <1>3 DEF PermitsAccounted

\* A task takes a permit when its call is queued.
LEMMA AcquireKeepsInv ==
    ASSUME Inv, NEW r \in Rounds, NEW g \in Groups, Acquire(<<r, g>>),
           UNCHANGED <<place, round, merged>>
    PROVE  Inv'
<1> USE DEF Inv
<1> DEFINE t == <<r, g>>
<1>1. /\ t \in Tasks /\ task[t] = "waiting" /\ permits[r] > 0
      /\ task' = [task EXCEPT ![t] = "queued"]
      /\ permits' = [permits EXCEPT ![r] = @ - 1]
      /\ attempt' = attempt
  BY DEF Acquire, TaskGoes, TakePermit, Tasks
<1>2. permits[r] \in 0..MaxConcurrent /\ MaxConcurrent \in Nat
  BY LimitsAssumption DEF TypeOK
<1>3. permits[r] - 1 \in 0..MaxConcurrent
  BY <1>1, <1>2
<1>4. TypeOK'
  BY <1>1, <1>3 DEF TypeOK, TaskStates
<1>5. ~Ended(t)
  BY <1>1 DEF Ended, EndedStates
<1>6. AttemptsCounted' /\ RoundKnown'
  <2>1. attempt'[t] >= 1
    BY <1>1, <1>5 DEF AttemptsCounted
  <2> QED
    BY <1>1, <1>5, <2>1, TaskKeepsRest DEF TaskStates
<1>7. Calling(r)' = Calling(r) \cup {g} /\ g \notin Calling(r)
  <2>1. \A h \in Groups : task'[<<r, h>>] = IF h = g THEN "queued"
                                            ELSE task[<<r, h>>]
    BY <1>1 DEF TypeOK, Tasks
  <2> QED
    BY <1>1, <2>1 DEF Calling
<1>8. Cardinality(Calling(r)') = Cardinality(Calling(r)) + 1
  BY <1>7, CallingFinite, FS_AddElement
<1>9. permits[r] + Cardinality(Calling(r)) = MaxConcurrent
  BY <1>5 DEF PermitsAccounted
<1>10. permits'[r] = permits[r] - 1
  BY <1>1 DEF TypeOK
<1>11. permits'[r] + Cardinality(Calling(r)') = MaxConcurrent
  BY <1>2, <1>8, <1>9, <1>10, CallingFinite
<1>12. \A s \in Rounds : s # r => permits'[s] = permits[s]
  BY <1>1 DEF TypeOK
<1>13. PermitsAccounted'
  BY <1>1, <1>11, <1>12, OtherRounds DEF PermitsAccounted, TaskStates
<1> QED
  BY <1>4, <1>6, <1>13

\* A task whose permit stays where it is: the call starts, or the backoff ends.
LEMMA KeepPermitKeepsInv ==
    ASSUME Inv, NEW r \in Rounds, NEW g \in Groups,
           StartCall(<<r, g>>) \/ WakeUp(<<r, g>>),
           UNCHANGED <<place, round, merged>>
    PROVE  Inv'
<1> USE DEF Inv
<1> DEFINE t == <<r, g>>
<1>1. /\ t \in Tasks /\ permits' = permits
      /\ \/ /\ task[t] = "queued"
            /\ task' = [task EXCEPT ![t] = "calling"]
            /\ attempt' = attempt
         \/ /\ task[t] = "sleeping"
            /\ task' = [task EXCEPT ![t] = "waiting"]
            /\ attempt' = [attempt EXCEPT ![t] = @ + 1]
  BY DEF StartCall, WakeUp, TaskGoes, Tasks
<1>2. PICK to \in {"calling", "waiting"} :
         /\ task' = [task EXCEPT ![t] = to]
         /\ to = "calling" <=> task[t] \in {"queued", "calling"}
  BY <1>1
<1>3. ~Ended(t)
  BY <1>1 DEF Ended, EndedStates
<1>4. task[t] = "sleeping" => attempt[t] + 1 \in 0..MaxAttempts
  BY <1>1, LimitsAssumption DEF TypeOK, AttemptsCounted, MaxAttempts
<1>5. TypeOK'
  BY <1>1, <1>4 DEF TypeOK, TaskStates
<1>6. \A u \in Tasks : u # t => attempt'[u] = attempt[u]
  BY <1>1 DEF TypeOK
<1>7. AttemptsCounted' /\ RoundKnown'
  <2>1. attempt[t] \in Nat /\ attempt[t] >= 1
    BY <1>1, <1>3, LimitsAssumption DEF TypeOK, AttemptsCounted, MaxAttempts
  <2>2. attempt'[t] >= 1
    BY <1>1, <2>1 DEF TypeOK
  <2> QED
    BY <1>1, <1>2, <1>3, <1>6, <2>2, TaskKeepsRest DEF TaskStates, EndedStates
<1>8. Calling(r)' = Calling(r)
  <2>1. \A h \in Groups : task'[<<r, h>>] = IF h = g THEN to ELSE task[<<r, h>>]
    BY <1>1, <1>2 DEF TypeOK, Tasks
  <2> QED
    BY <1>2, <2>1 DEF Calling
<1>9. permits'[r] + Cardinality(Calling(r)') = MaxConcurrent
  BY <1>1, <1>3, <1>8 DEF PermitsAccounted
<1>10. PermitsAccounted'
  BY <1>1, <1>2, <1>9, OtherRounds DEF PermitsAccounted, TaskStates
<1> QED
  BY <1>5, <1>7, <1>10

\* A call that ends, however it ends, gives its permit back.
LEMMA CallEndKeepsInv ==
    ASSUME Inv, NEW r \in Rounds, NEW g \in Groups,
           CallSucceeds(<<r, g>>) \/ CallRefused(<<r, g>>) \/ CallFails(<<r, g>>),
           UNCHANGED <<place, round, merged>>
    PROVE  Inv'
<1> USE DEF Inv
<1> DEFINE t == <<r, g>>
<1>1. /\ t \in Tasks /\ task[t] = "calling" /\ attempt' = attempt
      /\ permits' = [permits EXCEPT ![r] = @ + 1]
  BY DEF CallSucceeds, CallRefused, CallFails, TaskGoes, ReturnPermit, Tasks
<1>2. PICK to \in {"fetched", "refused", "exhausted", "sleeping"} :
         /\ task' = [task EXCEPT ![t] = to]
         /\ to = "exhausted" => attempt[t] = MaxAttempts
         /\ to = "sleeping" => attempt[t] # MaxAttempts
  BY DEF CallSucceeds, CallRefused, CallFails, TaskGoes
<1>3. ~Ended(t)
  BY <1>1 DEF Ended, EndedStates
<1>4. permits[r] + 1 \in 0..MaxConcurrent
  BY <1>1, HolderHasPermit
<1>5. TypeOK'
  BY <1>1, <1>2, <1>4 DEF TypeOK, TaskStates, EndedStates
<1>6. attempt[t] \in 0..MaxAttempts /\ MaxAttempts \in Nat
  BY <1>1, LimitsAssumption DEF TypeOK, MaxAttempts
<1>7. to = "sleeping" => attempt[t] < MaxAttempts
  BY <1>2, <1>6
<1>8. AttemptsCounted' /\ RoundKnown'
  <2>1. attempt'[t] >= 1
    BY <1>1, <1>3 DEF AttemptsCounted
  <2> QED
    BY <1>1, <1>2, <1>3, <1>7, <2>1, TaskKeepsRest DEF TaskStates, EndedStates
<1>9. Calling(r)' = Calling(r) \ {g} /\ g \in Calling(r)
  <2>1. \A h \in Groups : task'[<<r, h>>] = IF h = g THEN to ELSE task[<<r, h>>]
    BY <1>1, <1>2 DEF TypeOK, Tasks
  <2> QED
    BY <1>1, <2>1 DEF Calling
<1>10. Cardinality(Calling(r)') = Cardinality(Calling(r)) - 1
  BY <1>9, CallingFinite, FS_RemoveElement
<1>11. permits[r] + Cardinality(Calling(r)) = MaxConcurrent
  BY <1>3 DEF PermitsAccounted
<1>12. permits'[r] = permits[r] + 1 /\ permits[r] \in Nat
  BY <1>1, LimitsAssumption DEF TypeOK
<1>13. permits'[r] + Cardinality(Calling(r)') = MaxConcurrent
  BY <1>10, <1>11, <1>12, CallingFinite, LimitsAssumption
<1>14. \A s \in Rounds : s # r => permits'[s] = permits[s]
  BY <1>1 DEF TypeOK
<1>15. PermitsAccounted'
  BY <1>2, <1>13, <1>14, OtherRounds DEF PermitsAccounted, TaskStates, EndedStates
<1> QED
  BY <1>5, <1>8, <1>15

-----------------------------------------------------------------------------
LEMMA InvNext == Inv /\ [Next]_vars => Inv'
<1> SUFFICES ASSUME Inv, [Next]_vars PROVE Inv'
  OBVIOUS
<1>1. CASE ManagerStep
  BY <1>1, ManagerKeepsInv
<1>2. ASSUME NEW t \in Tasks, TaskStep(t) PROVE Inv'
  <2>1. PICK r \in Rounds, g \in Groups : t = <<r, g>>
    BY DEF Tasks
  <2>2. UNCHANGED <<place, round, merged>>
    BY <1>2 DEF TaskStep
  <2>3. CASE Acquire(t)
    BY <2>1, <2>2, <2>3, AcquireKeepsInv
  <2>4. CASE StartCall(t) \/ WakeUp(t)
    BY <2>1, <2>2, <2>4, KeepPermitKeepsInv
  <2>5. CASE CallSucceeds(t) \/ CallRefused(t) \/ CallFails(t)
    BY <2>1, <2>2, <2>5, CallEndKeepsInv
  <2> QED
    BY <1>2, <2>3, <2>4, <2>5 DEF TaskStep
<1>3. CASE UNCHANGED vars
  BY <1>3 DEF vars, fetchVars, Inv, TypeOK, PermitsAccounted, AttemptsCounted,
              RoundKnown, Calling, Ended
<1> QED
  BY <1>1, <1>2, <1>3 DEF Next

\* What the invariant says of the snapshot.
LEMMA InvMissing == Inv => MissingForAReason
BY DEF Inv, RoundKnown, AttemptsCounted, MissingForAReason, TypeOK, Tasks,
       Ended, EndedStates

LEMMA InvAlways == Spec => []Inv
BY InvInit, InvNext, PTL DEF Spec

-----------------------------------------------------------------------------
\* Every variable keeps its type; in particular no attempt beyond the last is
\* made and no semaphore ever has more permits than it was created with.
THEOREM TypeCorrect == Spec => []TypeOK
<1>1. Inv => TypeOK
  BY DEF Inv
<1> QED
  BY <1>1, InvAlways, PTL

\* No end of an attempt leaks or doubles a permit, in any number of rounds.
THEOREM PermitsNeverLeak == Spec => []PermitsAccounted
<1>1. Inv => PermitsAccounted
  BY DEF Inv
<1> QED
  BY <1>1, InvAlways, PTL

\* No group is cut short: it is missing only when trying again is no use or all
\* attempts were used.
THEOREM NoGroupCutShort == Spec => []MissingForAReason
BY InvMissing, InvAlways, PTL

-----------------------------------------------------------------------------
(* The end of a fetch.  Fairness is out of reach here, what it has to be     *)
(* about is not: every step of a task is one of few, and there is one to do. *)

\* The steps a task can still make.
StepsLeft(t) ==
    LET later == 4 * (MaxAttempts - attempt[t])
    IN  CASE task[t] = "waiting"  -> later + 3
          [] task[t] = "queued"   -> later + 2
          [] task[t] = "calling"  -> later + 1
          [] task[t] = "sleeping" -> later
          [] OTHER                -> 0

\* A task that goes on has fewer steps left, and the steps of others cost it none.
FetchesAreShort ==
    [][\A t \in Tasks :
          /\ StepsLeft(t)' \in 0..(4 * MaxAttempts - 1)
          /\ ~Ended(t) => \/ StepsLeft(t)' < StepsLeft(t)
                          \/ task'[t] = task[t] /\ StepsLeft(t)' = StepsLeft(t)]_vars

CanGoOn(t) ==
    \/ task[t] \in {"calling", "sleeping"}
    \/ task[t] = "queued" /\ ThreadFree
    \/ task[t] = "waiting" /\ permits[t[1]] > 0

\* While a round has a task under way, one of its tasks can go on or waits for a thread
\* only; and some task of some round can, unless the recycling is at work.
NoFetchIsStuck ==
    /\ \A r \in Rounds :
          (\E g \in Groups : ~Ended(<<r, g>>)) =>
              \E g \in Groups : CanGoOn(<<r, g>>) \/ task[<<r, g>>] = "queued"
    /\ (\E t \in Tasks : ~Ended(t)) =>
          place = "replacing" \/ \E t \in Tasks : CanGoOn(t)

\* The number is one, whatever the state.
StepsBounded == \A t \in Tasks : StepsLeft(t) \in 0..(4 * MaxAttempts - 1)

LEMMA StepsLeftBounded == Inv => StepsBounded
<1> SUFFICES ASSUME Inv, NEW t \in Tasks PROVE StepsLeft(t) \in 0..(4 * MaxAttempts - 1)
  BY DEF StepsBounded
<1>1. /\ task[t] \in TaskStates /\ attempt[t] \in 0..MaxAttempts
      /\ task[t] = "sleeping" => attempt[t] < MaxAttempts
  BY DEF Inv, TypeOK, AttemptsCounted
<1>2. MaxAttempts \in Nat \ {0}
  BY LimitsAssumption DEF MaxAttempts
<1>3. CASE Ended(t)
  <2>1. StepsLeft(t) = 0
    BY <1>3 DEF StepsLeft, Ended, EndedStates
  <2> QED
    BY <1>2, <2>1
<1>4. CASE ~Ended(t)
  <2> DEFINE a == attempt[t]
  <2>1. task[t] \in {"waiting", "queued", "calling", "sleeping"}
    BY <1>1, <1>4 DEF TaskStates, Ended
  <2>2. a \in Nat /\ a >= 1 /\ a <= MaxAttempts
    BY <1>1, <1>2, <1>4 DEF Inv, AttemptsCounted
  <2> DEFINE later == 4 * (MaxAttempts - a)
  <2>3. StepsLeft(t) \in {later + 3, later + 2, later + 1, later}
    BY <2>1 DEF StepsLeft
  <2> HIDE DEF a
  <2> QED
    BY <1>2, <2>2, <2>3
<1> QED
  BY <1>3, <1>4

\* A fetch is over after at most 4 * MaxAttempts - 1 steps of its own (retry_with_backoff
\* counts the attempts): nothing other tasks, rounds or the recycling do sets it back, and
\* its place is taken again only after its end.
THEOREM FetchesTakeFewSteps == Spec => FetchesAreShort
<1> DEFINE Short == \A t \in Tasks :
          /\ StepsLeft(t)' \in 0..(4 * MaxAttempts - 1)
          /\ ~Ended(t) => \/ StepsLeft(t)' < StepsLeft(t)
                          \/ task'[t] = task[t] /\ StepsLeft(t)' = StepsLeft(t)
<1>1. ASSUME Inv, StepsBounded', Next PROVE Short
  <2> SUFFICES ASSUME NEW t \in Tasks, ~Ended(t)
               PROVE  \/ StepsLeft(t)' < StepsLeft(t)
                      \/ task'[t] = task[t] /\ StepsLeft(t)' = StepsLeft(t)
    BY <1>1 DEF StepsBounded
  <2>1. MaxAttempts \in Nat /\ attempt[t] \in Nat /\ attempt[t] <= MaxAttempts
    BY <1>1, LimitsAssumption DEF Inv, TypeOK, MaxAttempts
  <2>2. CASE task'[t] = task[t] /\ attempt'[t] = attempt[t]
    BY <2>2 DEF StepsLeft
  <2>3. CASE BeginRound
    <3>1. PICK r \in Rounds :
             /\ \A g \in Groups : Ended(<<r, g>>)
             /\ task' = [u \in Tasks |-> IF u[1] = r THEN "waiting" ELSE task[u]]
             /\ attempt' = [u \in Tasks |-> IF u[1] = r THEN 1 ELSE attempt[u]]
      BY <2>3 DEF BeginRound
    <3>2. t[1] # r
      BY <3>1 DEF Tasks
    <3> QED
      BY <2>2, <3>1, <3>2
  <2>4. CASE ManagerStep /\ ~BeginRound
    BY <2>2, <2>4 DEF ManagerStep, JoinAll, CycleSucceeds, CycleTimesOut, BeginReplacing,
                      EndReplacing, fetchVars
  <2>5. ASSUME NEW u \in Tasks, TaskStep(u), u # t PROVE task'[t] = task[t] /\ attempt'[t] = attempt[t]
    BY <1>1, <2>5 DEF TaskStep, Acquire, StartCall, CallSucceeds, CallRefused, CallFails,
                      WakeUp, TaskGoes, Inv, TypeOK
  <2>6. CASE TaskStep(t)
    <3>1. /\ task \in [Tasks -> TaskStates] /\ attempt \in [Tasks -> 0..MaxAttempts]
      BY <1>1 DEF Inv, TypeOK
    <3>2. task[t] = "sleeping" => attempt[t] < MaxAttempts
      BY <1>1 DEF Inv, AttemptsCounted
    <3>3. CASE Acquire(t) \/ StartCall(t)
      BY <2>1, <3>1, <3>3 DEF Acquire, StartCall, TaskGoes, StepsLeft
    <3>4. CASE CallSucceeds(t) \/ CallRefused(t)
      BY <2>1, <3>1, <3>4 DEF CallSucceeds, CallRefused, TaskGoes, StepsLeft
    <3>5. CASE CallFails(t)
      BY <2>1, <3>1, <3>5 DEF CallFails, TaskGoes, StepsLeft
    <3>6. CASE WakeUp(t)
      BY <2>1, <3>1, <3>2, <3>6 DEF WakeUp, TaskGoes, StepsLeft
    <3> QED
      BY <2>6, <3>3, <3>4, <3>5, <3>6 DEF TaskStep
  <2> QED
    BY <1>1, <2>2, <2>3, <2>4, <2>5, <2>6 DEF Next
<1>2. Inv /\ StepsBounded' /\ [Next]_vars => [Short]_vars
  BY <1>1
<1> QED
  BY <1>2, InvAlways, StepsLeftBounded, PTL DEF Spec, FetchesAreShort

\* Permits are never the reason that nothing goes on: the free ones and the ones with a
\* call make the limit (PermitsAccounted), and a call needs only a thread.
THEOREM FetchesNeverWaitForEachOther == Spec => []NoFetchIsStuck
<1>1. ASSUME Inv PROVE NoFetchIsStuck
  <2>1. ASSUME NEW r \in Rounds, NEW h \in Groups, ~Ended(<<r, h>>)
        PROVE  \E g \in Groups : CanGoOn(<<r, g>>) \/ task[<<r, g>>] = "queued"
    <3>1. CASE \E g \in Groups : task[<<r, g>>] \in {"queued", "calling", "sleeping"}
      BY <3>1 DEF CanGoOn
    <3>2. CASE \A g \in Groups : task[<<r, g>>] \notin {"queued", "calling", "sleeping"}
      <4>1. Calling(r) = {}
        BY <3>2 DEF Calling
      <4>2. permits[r] + Cardinality(Calling(r)) = MaxConcurrent
        BY <1>1, <2>1 DEF Inv, PermitsAccounted
      <4>3. permits[r] > 0
        BY <1>1, <4>1, <4>2, FS_EmptySet, LimitsAssumption DEF Inv, TypeOK
      <4>4. <<r, h>> \in Tasks /\ task[<<r, h>>] \in TaskStates
        BY <1>1 DEF Tasks, Inv, TypeOK
      <4>5. task[<<r, h>>] = "waiting"
        BY <2>1, <3>2, <4>4 DEF TaskStates, Ended
      <4> QED
        BY <4>3, <4>5 DEF CanGoOn
    <3> QED
      BY <3>1, <3>2
  <2>2. ASSUME \A t \in Tasks : task[t] # "calling", place # "replacing" PROVE ThreadFree
    <3>1. {t \in Tasks : task[t] = "calling"} = {}
      BY <2>2
    <3> QED
      BY <2>2, <3>1, FS_EmptySet, LimitsAssumption DEF ThreadFree, BusyThreads
  <2>3. ASSUME NEW t \in Tasks, ~Ended(t), place # "replacing"
        PROVE  \E u \in Tasks : CanGoOn(u)
    <3>1. PICK r \in Rounds, h \in Groups : t = <<r, h>>
      BY DEF Tasks
    <3>2. PICK g \in Groups : CanGoOn(<<r, g>>) \/ task[<<r, g>>] = "queued"
      BY <2>1, <2>3, <3>1
    <3>3. <<r, g>> \in Tasks
      BY DEF Tasks
    <3>4. CASE \E u \in Tasks : task[u] = "calling"
      BY <3>4 DEF CanGoOn
    <3>5. CASE \A u \in Tasks : task[u] # "calling"
      BY <2>2, <2>3, <3>2, <3>3, <3>5 DEF CanGoOn
    <3> QED
      BY <3>4, <3>5
  <2> QED
    BY <2>1, <2>3 DEF NoFetchIsStuck
<1> QED
  BY <1>1, InvAlways, PTL
=============================================================================
