------------------------ MODULE DescribeGroups_proofs ------------------------
(***************************************************************************)
(* The chunked and retried description of groups keeps its promises for any *)
(* groups, chunk size, concurrency and number of retries.                   *)
(***************************************************************************)
EXTENDS DescribeGroups, FiniteSetTheorems, FunctionTheorems, TLAPS

(***************************************************************************)
(* The argument: while a round is under way, what was asked of a pending    *)
(* group and what was answered can be read off the call of its chunk; a     *)
(* group that is settled is not pending and is not touched again.           *)
(***************************************************************************)
Outcomes == {"described", "retry", "give_up"}

Settled == described \cup failed

RoundInStep ==
    /\ step = "idle" => pending = {}
    /\ step # "idle" => attempt >= 1
    /\ step = "sleeping" => attempt < MaxAttempts
    /\ pending \cap Settled = {}

AskedInRound ==
    step = "calling" => \A g \in pending :
        /\ call[chunk[g]] = "waiting" =>
              asked[g] = attempt - 1 /\ verdict[g] \in {"none", "retry"}
        /\ call[chunk[g]] = "calling" =>
              asked[g] = attempt /\ verdict[g] \in {"none", "retry"}
        /\ call[chunk[g]] = "ended" =>
              asked[g] = attempt /\ result[g] = verdict[g] /\ verdict[g] \in Outcomes

AskedBetweenRounds ==
    step = "sleeping" => \A g \in pending : asked[g] = attempt /\ verdict[g] = "retry"

IInv == TypeOK /\ RoundInStep /\ AskedInRound /\ AskedBetweenRounds /\ GivenUpForAReason

LEMMA AttemptsAreNat == MaxAttempts \in Nat /\ MaxAttempts >= 1
  BY LimitsAssumption DEF MaxAttempts

\* A response says one of three things of a group.
LEMMA OutcomesOfCalls ==
    /\ "described" \in GroupResults
    /\ \A x \in GroupResults : x \in Outcomes
    /\ CallErrors \subseteq GroupResults
<1>1. \A code, native : ResultOf(code, native) \in {"retry", "give_up"}
  BY DEF ResultOf
<1>2. \A x \in GroupResults : x \in Outcomes
  BY <1>1 DEF GroupResults, Outcomes
<1>3. CallErrors \subseteq GroupResults
  <2> SUFFICES ASSUME NEW code \in Codes PROVE ResultOf(code, FALSE) \in GroupResults
    BY DEF CallErrors
  <2>1. CASE code = "none"
    BY <2>1 DEF GroupResults
  <2>2. CASE code # "none"
    <3>1. <<code, FALSE>> \in (Codes \ {"none"}) \X BOOLEAN
      BY <2>2
    <3>2. ResultOf(<<code, FALSE>>[1], <<code, FALSE>>[2]) \in GroupResults
      BY <3>1 DEF GroupResults
    <3>3. QED BY <3>2
  <2>3. QED BY <2>1, <2>2
<1>4. QED BY <1>2, <1>3 DEF GroupResults

\* A new round, of groups that have all been asked the same number of times.
LEMMA RoundBegins ==
    ASSUME NEW S \in SUBSET Groups, BeginRound(S)
    PROVE  /\ pending' = S
           /\ chunk' \in [S -> 1..ChunkCount(S)]
           /\ call' = [k \in 1..ChunkCount(S) |-> "waiting"]
           /\ result' = [g \in S |-> "none"]
  BY DEF BeginRound, ChunksOf

LEMMA InitHolds == Init => IInv
  BY AttemptsAreNat
  DEF Init, IInv, TypeOK, RoundInStep, AskedInRound, AskedBetweenRounds,
      GivenUpForAReason, Settled

LEMMA RequestKeeps == ASSUME IInv, NEW S \in SUBSET Groups, Request(S) PROVE IInv'
<1> USE AttemptsAreNat
<1>1. /\ step' = "calling" /\ attempt' = 1 /\ described' = {} /\ failed' = {}
      /\ asked' = [g \in Groups |-> 0] /\ verdict' = [g \in Groups |-> "none"]
      /\ BeginRound(S)
  BY DEF Request
<1>2. /\ pending' = S
      /\ chunk' \in [S -> 1..ChunkCount(S)]
      /\ call' = [k \in 1..ChunkCount(S) |-> "waiting"]
      /\ result' = [g \in S |-> "none"]
  BY <1>1, RoundBegins
<1>3. TypeOK'
  BY <1>1, <1>2 DEF TypeOK
<1>4. RoundInStep' /\ GivenUpForAReason' /\ AskedBetweenRounds'
  BY <1>1, <1>2 DEF RoundInStep, Settled, GivenUpForAReason, AskedBetweenRounds
<1>5. AskedInRound'
  BY <1>1, <1>2 DEF AskedInRound
<1>6. QED BY <1>3, <1>4, <1>5 DEF IInv

LEMMA NextRoundKeeps == ASSUME IInv, NextRound PROVE IInv'
<1> USE AttemptsAreNat
<1>1. /\ step = "sleeping" /\ step' = "calling" /\ attempt' = attempt + 1
      /\ UNCHANGED <<described, failed, asked, verdict>>
      /\ BeginRound(pending) /\ pending \in SUBSET Groups
  BY DEF NextRound, outcomeVars, historyVars, IInv, TypeOK
<1>2. /\ pending' = pending
      /\ chunk' \in [pending -> 1..ChunkCount(pending)]
      /\ call' = [k \in 1..ChunkCount(pending) |-> "waiting"]
      /\ result' = [g \in pending |-> "none"]
  BY <1>1, RoundBegins
<1>3. attempt \in Nat /\ attempt < MaxAttempts
  BY <1>1 DEF IInv, TypeOK, RoundInStep
<1>4. TypeOK'
  BY <1>1, <1>2, <1>3 DEF IInv, TypeOK
<1>5. RoundInStep' /\ GivenUpForAReason' /\ AskedBetweenRounds'
  BY <1>1, <1>2, <1>3
  DEF IInv, RoundInStep, Settled, GivenUpForAReason, AskedBetweenRounds
<1>6. AskedInRound'
  BY <1>1, <1>2, <1>3 DEF IInv, AskedInRound, AskedBetweenRounds
<1>7. QED BY <1>4, <1>5, <1>6 DEF IInv

\* A call that was not made yet is about groups never asked in this round.
LEMMA StartCallKeeps == ASSUME IInv, NEW k, StartCall(k) PROVE IInv'
<1> USE AttemptsAreNat
<1>1. /\ step = "calling" /\ k \in DOMAIN call /\ call[k] = "waiting"
      /\ call' = [call EXCEPT ![k] = "calling"]
      /\ asked' = [g \in Groups |-> IF g \in In(k) THEN asked[g] + 1 ELSE asked[g]]
      /\ UNCHANGED <<step, attempt, pending, chunk, result, described, failed, verdict>>
  BY DEF StartCall, CallGoes, outcomeVars
<1>2. /\ attempt \in 1..MaxAttempts
      /\ In(k) \subseteq pending /\ pending \subseteq Groups
      /\ pending \cap failed = {}
      /\ \A g \in In(k) : chunk[g] = k /\ asked[g] = attempt - 1
                          /\ verdict[g] \in {"none", "retry"}
      /\ \A g \in pending \ In(k) : chunk[g] # k
  BY <1>1 DEF IInv, TypeOK, RoundInStep, Settled, AskedInRound, In
<1>3. call' \in [1..ChunkCount(pending) -> {"waiting", "calling", "ended"}]
  BY <1>1 DEF IInv, TypeOK
<1>4. asked' \in [Groups -> 0..MaxAttempts]
  BY <1>1, <1>2 DEF IInv, TypeOK
<1>5. TypeOK'
  BY <1>1, <1>3, <1>4 DEF IInv, TypeOK
<1>6. RoundInStep' /\ AskedBetweenRounds'
  BY <1>1 DEF IInv, RoundInStep, Settled, AskedBetweenRounds
<1>7. GivenUpForAReason'
  BY <1>1, <1>2 DEF IInv, TypeOK, GivenUpForAReason
<1>8. AskedInRound'
  <2> SUFFICES ASSUME NEW g \in pending
               PROVE  /\ call'[chunk[g]] = "waiting" =>
                           asked'[g] = attempt - 1 /\ verdict[g] \in {"none", "retry"}
                      /\ call'[chunk[g]] = "calling" =>
                           asked'[g] = attempt /\ verdict[g] \in {"none", "retry"}
                      /\ call'[chunk[g]] = "ended" =>
                           /\ asked'[g] = attempt /\ result[g] = verdict[g]
                           /\ verdict[g] \in Outcomes
    BY <1>1 DEF AskedInRound
  <2>1. CASE g \in In(k)
    BY <1>1, <1>2, <2>1 DEF IInv, TypeOK
  <2>2. CASE g \notin In(k)
    BY <1>1, <1>2, <2>2 DEF IInv, TypeOK, AskedInRound
  <2>3. QED BY <2>1, <2>2
<1>9. QED BY <1>5, <1>6, <1>7, <1>8 DEF IInv

\* An answer is recorded for the groups of its chunk, which are all still open.
LEMMA EndCallKeeps ==
    ASSUME IInv, step = "calling", NEW k, NEW answer \in [In(k) -> GroupResults],
           EndCall(k, answer)
    PROVE  IInv'
<1> USE AttemptsAreNat
<1>1. /\ k \in DOMAIN call /\ call[k] = "calling"
      /\ call' = [call EXCEPT ![k] = "ended"]
      /\ result' = [g \in pending |-> IF g \in In(k) THEN answer[g] ELSE result[g]]
      /\ verdict' = [g \in Groups |-> IF g \in In(k) THEN answer[g] ELSE verdict[g]]
      /\ UNCHANGED <<step, attempt, pending, chunk, described, failed, asked>>
  BY DEF EndCall, CallGoes, outcomeVars
<1>2. /\ In(k) \subseteq pending /\ pending \subseteq Groups
      /\ pending \cap failed = {}
      /\ \A g \in In(k) : chunk[g] = k /\ asked[g] = attempt
      /\ \A g \in pending \ In(k) : chunk[g] # k
      /\ \A g \in In(k) : answer[g] \in GroupResults /\ answer[g] \in Outcomes
  BY <1>1, OutcomesOfCalls DEF IInv, TypeOK, RoundInStep, Settled, AskedInRound, In
<1>3. call' \in [1..ChunkCount(pending) -> {"waiting", "calling", "ended"}]
  BY <1>1 DEF IInv, TypeOK
<1>4. /\ result' \in [pending -> GroupResults \cup {"none"}]
      /\ verdict' \in [Groups -> GroupResults \cup {"none"}]
  BY <1>1, <1>2 DEF IInv, TypeOK
<1>5. TypeOK'
  BY <1>1, <1>3, <1>4 DEF IInv, TypeOK
<1>6. RoundInStep' /\ AskedBetweenRounds'
  BY <1>1 DEF IInv, RoundInStep, Settled, AskedBetweenRounds
<1>7. GivenUpForAReason'
  BY <1>1, <1>2 DEF IInv, TypeOK, GivenUpForAReason
<1>8. AskedInRound'
  <2> SUFFICES ASSUME NEW g \in pending
               PROVE  /\ call'[chunk[g]] = "waiting" =>
                           asked[g] = attempt - 1 /\ verdict'[g] \in {"none", "retry"}
                      /\ call'[chunk[g]] = "calling" =>
                           asked[g] = attempt /\ verdict'[g] \in {"none", "retry"}
                      /\ call'[chunk[g]] = "ended" =>
                           /\ asked[g] = attempt /\ result'[g] = verdict'[g]
                           /\ verdict'[g] \in Outcomes
    BY <1>1 DEF AskedInRound
  <2>1. CASE g \in In(k)
    BY <1>1, <1>2, <2>1 DEF IInv, TypeOK
  <2>2. CASE g \notin In(k)
    BY <1>1, <1>2, <2>2 DEF IInv, TypeOK, AskedInRound
  <2>3. QED BY <2>1, <2>2
<1>9. QED BY <1>5, <1>6, <1>7, <1>8 DEF IInv

\* When all calls of a round have ended, every pending group has an outcome.
LEMMA RoundAnswered ==
    ASSUME IInv, step = "calling", Ended
    PROVE  \A g \in pending :
               /\ asked[g] = attempt
               /\ result[g] = verdict[g] /\ result[g] \in Outcomes
<1> SUFFICES ASSUME NEW g \in pending
             PROVE  call[chunk[g]] = "ended"
  BY DEF IInv, AskedInRound
<1>1. chunk[g] \in DOMAIN call
  BY DEF IInv, TypeOK
<1>2. QED BY <1>1 DEF Ended

\* What Join makes of the outcomes.
LEMMA JoinSplits ==
    ASSUME IInv, Join
    PROVE  /\ Retryable \subseteq pending /\ Terminal \subseteq pending
           /\ Terminal \cap With("described") = {}
           /\ Retryable = pending \ (With("described") \cup Terminal)
           /\ \A g \in Retryable : asked[g] = attempt /\ verdict[g] = "retry"
           /\ \A g \in Terminal :
                 \/ verdict[g] = "give_up"
                 \/ verdict[g] = "retry" /\ asked[g] = MaxAttempts
           /\ Retryable # {} => attempt < MaxAttempts
<1>1. \A g \in pending :
         asked[g] = attempt /\ result[g] = verdict[g] /\ result[g] \in Outcomes
  BY RoundAnswered DEF Join
<1>2. attempt \in 0..MaxAttempts
  BY DEF IInv, TypeOK
<1>3. CASE CanRetry
  BY <1>1, <1>2, <1>3, AttemptsAreNat
  DEF Retryable, Terminal, With, Outcomes, CanRetry
<1>4. CASE ~CanRetry
  <2>1. attempt = MaxAttempts
    BY <1>2, <1>4, AttemptsAreNat DEF CanRetry
  <2>2. Retryable = {}
    BY <1>4 DEF Retryable
  <2>3. QED
    BY <1>1, <2>1, <2>2 DEF Terminal, With, Outcomes
<1>5. QED BY <1>3, <1>4

LEMMA JoinKeeps == ASSUME IInv, Join PROVE IInv'
<1> USE AttemptsAreNat
<1>1. /\ step = "calling"
      /\ described' = described \cup With("described")
      /\ failed' = failed \cup Terminal
      /\ pending' = Retryable
      /\ step' = IF Retryable = {} THEN "idle" ELSE "sleeping"
      /\ UNCHANGED <<attempt, asked, verdict>>
  BY DEF Join, historyVars
<1>2. With("described") \subseteq pending
  BY DEF With
<1>3. TypeOK'
  BY <1>1, <1>2, JoinSplits DEF IInv, TypeOK
<1>4. RoundInStep'
  BY <1>1, <1>2, JoinSplits DEF IInv, TypeOK, RoundInStep, Settled
<1>5. AskedInRound' /\ AskedBetweenRounds'
  BY <1>1, JoinSplits DEF AskedInRound, AskedBetweenRounds
<1>6. GivenUpForAReason'
  BY <1>1, JoinSplits DEF IInv, GivenUpForAReason
<1>7. QED BY <1>3, <1>4, <1>5, <1>6 DEF IInv

LEMMA StepKeeps == IInv /\ [Next]_vars => IInv'
<1> SUFFICES ASSUME IInv, [Next]_vars PROVE IInv'
  OBVIOUS
<1>1. ASSUME NEW S \in SUBSET Groups, Request(S) PROVE IInv'
  BY <1>1, RequestKeeps
<1>2. ASSUME NEW k, StartCall(k) PROVE IInv'
  BY <1>2, StartCallKeeps
<1>3. ASSUME NEW k, CallAnswers(k) PROVE IInv'
  BY <1>3, EndCallKeeps DEF CallAnswers
<1>4. ASSUME NEW k, CallFails(k) PROVE IInv'
  <2>1. PICK error \in CallErrors : EndCall(k, [g \in In(k) |-> error])
    BY <1>4 DEF CallFails
  <2>2. [g \in In(k) |-> error] \in [In(k) -> GroupResults]
    BY OutcomesOfCalls
  <2>3. QED BY <1>4, <2>1, <2>2, EndCallKeeps DEF CallFails
<1>5. CASE Join
  BY <1>5, JoinKeeps
<1>6. CASE NextRound
  BY <1>6, NextRoundKeeps
<1>7. CASE UNCHANGED vars
  BY <1>7
  DEF vars, roundVars, outcomeVars, historyVars, IInv, TypeOK, RoundInStep, Settled,
      AskedInRound, AskedBetweenRounds, GivenUpForAReason
<1>8. QED
  BY <1>1, <1>2, <1>3, <1>4, <1>5, <1>6, <1>7 DEF Next, Progress, CallStep

LEMMA Inductive == Spec => []IInv
  BY InitHolds, StepKeeps, PTL DEF Spec

\* Every variable keeps its type: no attempt beyond the last is made.
THEOREM TypeCorrect == Spec => []TypeOK
<1>1. IInv => TypeOK
  BY DEF IInv
<1>2. QED BY <1>1, Inductive, PTL

\* A group is given up only for its own answer or for want of attempts.
THEOREM NoneGivenUpLightly == Spec => []GivenUpForAReason
<1>1. IInv => GivenUpForAReason
  BY DEF IInv
<1>2. QED BY <1>1, Inductive, PTL

\* No call asks for a group that is settled.
THEOREM SettledIsNotAsked == Spec => AskedWhileOpen
<1> DEFINE Open == \A g \in Groups :
                asked'[g] > asked[g] => verdict[g] \in {"none", "retry"}
<1>1. IInv /\ [Next]_vars => [Open]_vars
  <2> SUFFICES ASSUME IInv, Next PROVE Open
    OBVIOUS
  <2>0. asked \in [Groups -> Nat]
    BY AttemptsAreNat DEF IInv, TypeOK
  <2>1. ASSUME NEW S \in SUBSET Groups, Request(S) PROVE Open
    BY <2>0, <2>1 DEF Request
  <2>2. ASSUME NEW k, StartCall(k) PROVE Open
    BY <2>0, <2>2 DEF StartCall, CallGoes, IInv, AskedInRound, In
  <2>3. ASSUME asked' = asked PROVE Open
    BY <2>0, <2>3
  <2>4. QED
    BY <2>1, <2>2, <2>3
    DEF Next, Progress, CallStep, CallAnswers, CallFails, EndCall, Join, NextRound,
        historyVars
<1>2. QED BY <1>1, Inductive, PTL DEF Spec, AskedWhileOpen

\* Chunks, rounds and retries are steps of GroupRequests, or none.
THEOREM RequestsAreSettledOnce ==
    Spec => Requests!Init /\ [][Requests!Next]_(Requests!vars)
<1>1. Init => Requests!Init
  BY DEF Init, Requests!Init
<1>2. IInv /\ [Next]_vars => [Requests!Next]_(Requests!vars)
  <2> SUFFICES ASSUME IInv, [Next]_vars
               PROVE  Requests!Next \/ UNCHANGED <<pending, described, failed>>
    BY DEF Requests!vars
  <2>1. ASSUME NEW S \in SUBSET Groups, Request(S) PROVE Requests!Next
    <3>1. pending = {} /\ pending' = S /\ described' = {} /\ failed' = {}
      BY <2>1, RoundBegins DEF Request, IInv, RoundInStep
    <3>2. QED BY <3>1 DEF Requests!Next, Requests!Ask
  <2>2. CASE Join
    <3> DEFINE ok == With("described")
               bad == Terminal
    <3>1. ok \in SUBSET pending /\ bad \in SUBSET pending /\ ok \cap bad = {}
      BY <2>2, JoinSplits DEF With
    <3>2. /\ pending' = pending \ (ok \cup bad)
          /\ described' = described \cup ok
          /\ failed' = failed \cup bad
      BY <2>2, JoinSplits DEF Join
    <3>3. Requests!Settle
      BY <3>1, <3>2 DEF Requests!Settle
    <3>4. QED BY <3>3 DEF Requests!Next
  <2>3. ASSUME NEW k, CallStep(k) PROVE UNCHANGED <<pending, described, failed>>
    BY <2>3 DEF CallStep, StartCall, CallAnswers, CallFails, EndCall, outcomeVars
  <2>4. CASE NextRound
    BY <2>4, RoundBegins DEF NextRound, outcomeVars, IInv, TypeOK
  <2>5. CASE UNCHANGED vars
    BY <2>5 DEF vars, outcomeVars
  <2>6. QED BY <2>1, <2>2, <2>3, <2>4, <2>5 DEF Next, Progress
<1>3. QED BY <1>1, <1>2, Inductive, PTL DEF Spec

-----------------------------------------------------------------------------
(* The end of a request.  Fairness is out of reach here, what it has to be   *)
(* about is not: the steps of a request are numbered, and there is always    *)
(* one to do, because any number of groups can be cut into chunks.           *)

CallsIn(state) == {k \in DOMAIN call : call[k] = state}

\* The most steps a round takes: two of each call, the join and the backoff.
RoundSteps == 2 * Cardinality(Groups) + 2

\* The steps a request can still take.
StepsLeft ==
    LET later == RoundSteps * (MaxAttempts - attempt)
    IN  CASE step = "idle"     -> 0
          [] step = "sleeping" -> later
          [] step = "calling"  -> later + 1 + 2 * Cardinality(CallsIn("waiting"))
                                            + Cardinality(CallsIn("calling"))

\* Every step of a request leaves fewer for the rest of it.
RequestsAreShort ==
    [][/\ StepsLeft' \in 0..(RoundSteps * MaxAttempts)
       /\ step # "idle" => StepsLeft' < StepsLeft]_vars

\* There is a backoff to end, an answer to come, a permit for a call that waits, or all
\* calls have ended.
CanGoOn ==
    \/ step = "sleeping" /\ ChunksOf(pending) # {}
    \/ step = "calling" /\ Ended
    \/ step = "calling" /\ CallsIn("calling") # {}
    \/ step = "calling" /\ CallsIn("waiting") # {} /\ Cardinality(CallsIn("calling")) < Permits

NoRequestIsStuck == step # "idle" => CanGoOn

\* Division, with the remainder that is left.
LEMMA Quotient ==
    ASSUME NEW a \in Nat, NEW b \in Nat \ {0}
    PROVE  /\ a \div b \in Nat
           /\ b * (a \div b) \in Nat /\ b * (a \div b) <= a /\ a < b * (a \div b) + b
OBVIOUS

LEMMA TimesMonotone ==
    ASSUME NEW b \in Nat \ {0}, NEW x \in Nat, NEW y \in Nat, x < y
    PROVE  b * x \in Nat /\ b * y \in Nat /\ b * x + b <= b * y
<1>1. y - x - 1 \in Nat /\ b * (y - x - 1) \in Nat
  OBVIOUS
<1>2. b * y = b * x + b + b * (y - x - 1)
  OBVIOUS
<1>3. b * x \in Nat /\ b * y \in Nat
  OBVIOUS
<1> QED
  BY <1>1, <1>2, <1>3

LEMMA QuotientIs ==
    ASSUME NEW a \in Nat, NEW b \in Nat \ {0}, NEW q \in Nat, b * q <= a, a < b * q + b
    PROVE  a \div b = q
<1> DEFINE p == a \div b
<1>1. p \in Nat /\ b * p \in Nat /\ b * p <= a /\ a < b * p + b
  BY Quotient
<1> HIDE DEF p
<1>2. b * q \in Nat
  OBVIOUS
<1>3. ~ (p < q)
  BY <1>1, <1>2, TimesMonotone
<1>4. ~ (q < p)
  BY <1>1, <1>2, TimesMonotone
<1>5. p = q
  BY <1>1, <1>3, <1>4
<1> QED
  BY <1>5 DEF p

\* The chunks hold all groups, with less than a chunk to spare, and none is empty.
LEMMA ChunkCountIs ==
    ASSUME NEW S, IsFiniteSet(S)
    PROVE  /\ Chunk \in Nat \ {0} /\ Cardinality(S) \in Nat /\ ChunkCount(S) \in Nat
           /\ Chunk * ChunkCount(S) \in Nat
           /\ Cardinality(S) <= Chunk * ChunkCount(S)
           /\ Chunk * ChunkCount(S) < Cardinality(S) + Chunk
           /\ ChunkCount(S) <= Cardinality(S)
<1> DEFINE n == Cardinality(S)
           c == Chunk
           m == ChunkCount(S)
<1>1. c \in Nat \ {0} /\ n \in Nat
  BY LimitsAssumption, FS_CardinalityType DEF Chunk
<1>2. m = (n + c - 1) \div c
  BY DEF ChunkCount
<1> HIDE DEF n, c, m
<1>3. n + c - 1 \in Nat
  BY <1>1
<1>4. m \in Nat /\ c * m \in Nat /\ c * m <= n + c - 1 /\ n + c - 1 < c * m + c
  BY <1>1, <1>2, <1>3, Quotient
<1>5. ~ (n < m)
  <2>1. c * n \in Nat /\ n <= c * n
    <3>1. c - 1 \in Nat /\ (c - 1) * n \in Nat
      BY <1>1
    <3>2. c * n = n + (c - 1) * n
      BY <1>1
    <3> QED
      BY <1>1, <3>1, <3>2
  <2> QED
    BY <1>1, <1>4, <2>1, TimesMonotone
<1> QED
  BY <1>1, <1>4, <1>5 DEF n, c, m

\* Whatever the number of groups and the size of a chunk, there is a way to cut them.
LEMMA ChunksExist == ASSUME NEW S, IsFiniteSet(S) PROVE ChunksOf(S) # {}
<1> DEFINE n == Cardinality(S)
           c == Chunk
           m == ChunkCount(S)
<1>1. /\ c \in Nat \ {0} /\ n \in Nat /\ m \in Nat /\ c * m \in Nat
      /\ n <= c * m /\ c * m < n + c
  BY ChunkCountIs
<1>2. PICK f : f \in Bijection(S, 1..n)
  <2>1. PICK e : e \in Bijection(1..n, S)
    BY FS_CardinalityType DEF ExistsBijection
  <2> QED
    BY <2>1, Fun_BijInverse
<1>3. /\ f \in [S -> 1..n] /\ \A g, h \in S : f[g] = f[h] => g = h
      /\ \A i \in 1..n : \E g \in S : f[g] = i
  BY <1>2 DEF Bijection, Injection, Surjection, IsInjective
<1> HIDE DEF n, c, m
<1> DEFINE cut == [g \in S |-> ((f[g] - 1) \div c) + 1]
<1>4. ASSUME NEW g \in S
      PROVE  cut[g] \in 1..m /\ c * (cut[g] - 1) \in Nat
             /\ c * (cut[g] - 1) <= f[g] - 1 /\ f[g] - 1 < c * (cut[g] - 1) + c
  <2> DEFINE q == (f[g] - 1) \div c
  <2>1. f[g] - 1 \in Nat /\ f[g] - 1 < n
    BY <1>1, <1>3
  <2>2. q \in Nat /\ c * q \in Nat /\ c * q <= f[g] - 1 /\ f[g] - 1 < c * q + c
    BY <1>1, <2>1, Quotient
  <2>3. cut[g] = q + 1
    OBVIOUS
  <2> HIDE DEF q, cut
  <2>4. q < m
    <3>1. ~ (m < q)
      BY <1>1, <2>1, <2>2, TimesMonotone
    <3>2. q # m
      BY <1>1, <2>1, <2>2
    <3> QED
      BY <1>1, <2>2, <3>1, <3>2
  <2>5. cut[g] - 1 = q
    BY <2>2, <2>3
  <2> QED
    BY <1>1, <2>2, <2>3, <2>4, <2>5
<1>5. ASSUME NEW k \in 1..m
      PROVE  Cardinality({g \in S : cut[g] = k}) \in 1..c
  <2> DEFINE T == {g \in S : cut[g] = k}
             base == c * (k - 1)
  <2>1. base \in Nat /\ k - 1 \in Nat /\ base + c <= c * m
    <3>1. k - 1 \in Nat /\ m \in Nat /\ k - 1 < m
      BY <1>1
    <3> QED
      BY <1>1, <3>1, TimesMonotone
  <2> HIDE DEF base
  <2>2. T # {}
    <3>1. base + 1 \in 1..n
      BY <1>1, <2>1
    <3>2. PICK g \in S : f[g] = base + 1
      BY <1>3, <3>1
    <3>3. f[g] - 1 = c * (k - 1)
      BY <2>1, <3>2 DEF base
    <3>4. (f[g] - 1) \div c = k - 1
      <4>1. c * (k - 1) \in Nat
        BY <2>1 DEF base
      <4>2. f[g] - 1 \in Nat /\ c * (k - 1) <= f[g] - 1 /\ f[g] - 1 < c * (k - 1) + c
        BY <1>1, <3>3, <4>1
      <4> QED
        BY <1>1, <2>1, <4>2, QuotientIs
    <3>5. cut[g] = k
      BY <2>1, <3>4
    <3> QED
      BY <3>5
  <2>3. \A g \in T : cut[g] - 1 = k - 1
    OBVIOUS
  <2> DEFINE place == [g \in T |-> f[g] - base]
  <2>4. place \in Injection(T, 1..c)
    <3>1. ASSUME NEW g \in T PROVE f[g] - base \in 1..c
      <4>1. c * (cut[g] - 1) = base
        BY <2>3 DEF base
      <4>2. base <= f[g] - 1 /\ f[g] - 1 < base + c /\ f[g] \in Nat
        BY <1>3, <1>4, <4>1
      <4> QED
        BY <1>1, <2>1, <4>2
    <3>2. ASSUME NEW g \in T, NEW h \in T, f[g] - base = f[h] - base PROVE g = h
      <4>1. f[g] \in Int /\ f[h] \in Int
        BY <1>3
      <4>2. f[g] = f[h]
        BY <2>1, <3>2, <4>1
      <4> QED
        BY <1>3, <4>2
    <3>3. place \in [T -> 1..c]
      BY <3>1
    <3>4. \A g, h \in T : place[g] = place[h] => g = h
      BY <3>2
    <3> HIDE DEF place, T
    <3> QED
      BY <3>3, <3>4, Fun_IsInj
  <2>5. IsFiniteSet(1..c) /\ Cardinality(1..c) = c
    <3>1. 1 \in Int /\ c \in Int /\ ~ (1 > c) /\ c - 1 + 1 = c
      BY <1>1
    <3> QED
      BY <3>1, FS_Interval
  <2> HIDE DEF T, place
  <2>6. IsFiniteSet(T) /\ Cardinality(T) <= c
    BY <2>4, <2>5, FS_Injection
  <2>7. Cardinality(T) \in Nat /\ Cardinality(T) # 0
    BY <2>2, <2>6, FS_CardinalityType, FS_EmptySet
  <2>8. Cardinality(T) \in 1..c
    BY <1>1, <2>6, <2>7
  <2> QED
    BY <2>8 DEF T
<1>6. cut \in [S -> 1..m]
  BY <1>4
<1>7. cut \in ChunksOf(S)
  <2> HIDE DEF cut
  <2> QED
    BY <1>5, <1>6 DEF ChunksOf, m, c
<1> QED
  BY <1>7

\* The calls of a round, by state: what they can still cost.
LEMMA CallsCounted ==
    ASSUME IInv, step = "calling"
    PROVE  /\ \A state : IsFiniteSet(CallsIn(state)) /\ Cardinality(CallsIn(state)) \in Nat
           /\ 2 * Cardinality(CallsIn("waiting")) + Cardinality(CallsIn("calling"))
                  <= 2 * Cardinality(Groups)
<1> DEFINE waiting == CallsIn("waiting")
           calling == CallsIn("calling")
           all     == 1..ChunkCount(pending)
<1>1. IsFiniteSet(pending) /\ Cardinality(pending) <= Cardinality(Groups)
      /\ Cardinality(Groups) \in Nat
  BY GroupsAssumption, FS_Subset, FS_CardinalityType DEF IInv, TypeOK
<1>2. DOMAIN call = all
  BY DEF IInv, TypeOK
<1>3. /\ ChunkCount(pending) \in Nat /\ ChunkCount(pending) <= Cardinality(pending)
      /\ Cardinality(pending) \in Nat
  BY <1>1, ChunkCountIs
<1>4. IsFiniteSet(all) /\ Cardinality(all) = ChunkCount(pending)
  <2>1. 1 \in Int /\ ChunkCount(pending) \in Int
    BY <1>3
  <2>2. IsFiniteSet(all) /\ Cardinality(all) = IF 1 > ChunkCount(pending) THEN 0
                                               ELSE ChunkCount(pending) - 1 + 1
    BY <2>1, FS_Interval
  <2> QED
    BY <1>3, <2>2
<1> HIDE DEF all
<1>5. \A state : /\ CallsIn(state) \in SUBSET all
                 /\ IsFiniteSet(CallsIn(state)) /\ Cardinality(CallsIn(state)) \in Nat
  <2>1. \A state : CallsIn(state) \in SUBSET all
    BY <1>2 DEF CallsIn
  <2> QED
    BY <1>4, <2>1, FS_Subset, FS_CardinalityType
<1>6. waiting \cap calling = {}
  BY DEF CallsIn
<1> HIDE DEF waiting, calling
<1>7. Cardinality(waiting) + Cardinality(calling) <= ChunkCount(pending)
  <2>1. /\ IsFiniteSet(waiting) /\ Cardinality(waiting) \in Nat
        /\ IsFiniteSet(calling) /\ Cardinality(calling) \in Nat
        /\ waiting \cup calling \in SUBSET all
    BY <1>5 DEF waiting, calling
  <2>2. Cardinality(waiting \cup calling) = Cardinality(waiting) + Cardinality(calling)
    <3>1. Cardinality(waiting \cup calling)
            = Cardinality(waiting) + Cardinality(calling) - Cardinality(waiting \cap calling)
      BY <2>1, FS_Union
    <3>2. Cardinality(waiting \cap calling) = 0
      BY <1>6, FS_EmptySet
    <3> QED
      BY <2>1, <3>1, <3>2
  <2>3. Cardinality(waiting \cup calling) <= Cardinality(all)
    BY <1>4, <2>1, FS_Subset
  <2> QED
    BY <1>4, <2>1, <2>2, <2>3
<1>8. Cardinality(waiting) \in Nat /\ Cardinality(calling) \in Nat
  BY <1>5 DEF waiting, calling
<1>9. 2 * Cardinality(waiting) + Cardinality(calling) <= 2 * Cardinality(Groups)
  BY <1>1, <1>3, <1>7, <1>8
<1> QED
  BY <1>5, <1>9 DEF waiting, calling

\* The number of steps left is bounded by that of all rounds, and positive before the end.
StepsBounded ==
    /\ StepsLeft \in 0..(RoundSteps * MaxAttempts)
    /\ step # "idle" => StepsLeft > 0

LEMMA RoundStepsTyped == RoundSteps \in Nat /\ RoundSteps >= 2 /\ Cardinality(Groups) \in Nat
  BY GroupsAssumption, FS_CardinalityType DEF RoundSteps

LEMMA StepsLeftBounded == IInv => StepsBounded
<1> SUFFICES ASSUME IInv PROVE StepsBounded
  OBVIOUS
<1> DEFINE all   == RoundSteps * MaxAttempts
           later == RoundSteps * (MaxAttempts - attempt)
           now   == 2 * Cardinality(CallsIn("waiting")) + Cardinality(CallsIn("calling"))
<1>1. attempt \in Nat /\ attempt <= MaxAttempts /\ MaxAttempts - attempt \in Nat
  BY AttemptsAreNat DEF IInv, TypeOK
<1>2. all \in Nat /\ later \in Nat
  BY <1>1, AttemptsAreNat, RoundStepsTyped
<1>3. CASE step = "idle"
  <2>1. StepsLeft = 0
    BY <1>3 DEF StepsLeft
  <2> QED
    BY <1>2, <1>3, <2>1 DEF StepsBounded
<1>4. CASE step = "sleeping"
  <2>1. StepsLeft = later
    BY <1>4 DEF StepsLeft
  <2>2. later <= all
    <3>1. attempt = 0 \/ MaxAttempts - attempt < MaxAttempts
      BY <1>1, AttemptsAreNat
    <3> QED
      BY <1>1, <3>1, AttemptsAreNat, RoundStepsTyped, TimesMonotone
  <2>3. later > 0
    <3>1. 0 < MaxAttempts - attempt
      BY <1>1, <1>4, AttemptsAreNat DEF IInv, RoundInStep
    <3>2. RoundSteps * 0 + RoundSteps <= later
      BY <1>1, <3>1, RoundStepsTyped, TimesMonotone
    <3> QED
      BY <1>2, <3>2, RoundStepsTyped
  <2> HIDE DEF later, all
  <2> QED
    BY <1>2, <2>1, <2>2, <2>3 DEF StepsBounded, all
<1>5. CASE step = "calling"
  <2>1. now \in Nat /\ now <= RoundSteps - 2
    BY <1>5, CallsCounted, RoundStepsTyped DEF RoundSteps
  <2>2. StepsLeft = later + 1 + now
    <3>1. /\ Cardinality(CallsIn("waiting")) \in Nat /\ Cardinality(CallsIn("calling")) \in Nat
      BY <1>5, CallsCounted
    <3>2. StepsLeft = later + 1 + 2 * Cardinality(CallsIn("waiting")) + Cardinality(CallsIn("calling"))
      BY <1>5 DEF StepsLeft
    <3> QED
      BY <1>2, <3>1, <3>2
  <2>3. later + RoundSteps <= all
    <3>1. MaxAttempts - attempt < MaxAttempts
      BY <1>1, <1>5, AttemptsAreNat DEF IInv, RoundInStep
    <3> QED
      BY <1>1, <3>1, AttemptsAreNat, RoundStepsTyped, TimesMonotone
  <2> HIDE DEF later, all, now
  <2>4. StepsLeft \in 0..all /\ StepsLeft > 0
    BY <1>2, <2>1, <2>2, <2>3, RoundStepsTyped
  <2> QED
    BY <2>4 DEF StepsBounded, all
<1> QED
  BY <1>3, <1>4, <1>5 DEF IInv, TypeOK

\* A new round costs less than what the backoff before it was counted with.
LEMMA NewRoundCosts ==
    ASSUME IInv, NextRound PROVE StepsLeft' < StepsLeft
<1>1. /\ step = "sleeping" /\ step' = "calling" /\ attempt' = attempt + 1
      /\ BeginRound(pending) /\ pending \in SUBSET Groups
  BY DEF NextRound, IInv, TypeOK
<1>2. call' = [k \in 1..ChunkCount(pending) |-> "waiting"]
  BY <1>1, RoundBegins
<1>3. CallsIn("waiting")' = 1..ChunkCount(pending) /\ CallsIn("calling")' = {}
  BY <1>2 DEF CallsIn
<1>4. /\ ChunkCount(pending) \in Nat /\ ChunkCount(pending) <= Cardinality(Groups)
  <2>1. /\ IsFiniteSet(pending) /\ Cardinality(pending) \in Nat
        /\ Cardinality(pending) <= Cardinality(Groups)
    BY <1>1, GroupsAssumption, FS_Subset, FS_CardinalityType
  <2> QED
    BY <2>1, ChunkCountIs, RoundStepsTyped
<1>5. Cardinality(CallsIn("waiting")') = ChunkCount(pending) /\ Cardinality(CallsIn("calling")') = 0
  <2>1. 1 \in Int /\ ChunkCount(pending) \in Int
    BY <1>4
  <2>2. Cardinality(1..ChunkCount(pending)) = IF 1 > ChunkCount(pending) THEN 0
                                               ELSE ChunkCount(pending) - 1 + 1
    BY <2>1, FS_Interval
  <2> QED
    BY <1>3, <1>4, <2>2, FS_EmptySet
<1>6. /\ MaxAttempts - attempt \in Nat /\ MaxAttempts - (attempt + 1) \in Nat
      /\ MaxAttempts - (attempt + 1) < MaxAttempts - attempt
  BY <1>1, AttemptsAreNat DEF IInv, TypeOK, RoundInStep
<1> DEFINE later  == RoundSteps * (MaxAttempts - attempt)
           later2 == RoundSteps * (MaxAttempts - (attempt + 1))
           n      == ChunkCount(pending)
<1>7. later2 + RoundSteps <= later /\ later2 \in Nat /\ later \in Nat
  BY <1>6, RoundStepsTyped, TimesMonotone
<1>8. StepsLeft = later
  BY <1>1 DEF StepsLeft
<1>9. StepsLeft' = later2 + 1 + 2 * n + 0
  BY <1>1, <1>5 DEF StepsLeft, RoundSteps
<1>10. 2 * n + 2 <= RoundSteps /\ n \in Nat
  BY <1>4, RoundStepsTyped DEF RoundSteps
<1> HIDE DEF later, later2, n
<1> QED
  BY <1>7, <1>8, <1>9, <1>10, RoundStepsTyped

LEMMA CallCosts ==
    ASSUME IInv, step = "calling", UNCHANGED <<step, attempt>>, NEW k \in DOMAIN call,
           \/ call[k] = "waiting" /\ call' = [call EXCEPT ![k] = "calling"]
           \/ call[k] = "calling" /\ call' = [call EXCEPT ![k] = "ended"]
    PROVE  StepsLeft' < StepsLeft
<1> DEFINE w  == Cardinality(CallsIn("waiting"))
           c  == Cardinality(CallsIn("calling"))
           w2 == Cardinality(CallsIn("waiting")')
           c2 == Cardinality(CallsIn("calling")')
           later == RoundSteps * (MaxAttempts - attempt)
<1>1. /\ IsFiniteSet(CallsIn("waiting")) /\ IsFiniteSet(CallsIn("calling"))
      /\ w \in Nat /\ c \in Nat
  BY CallsCounted
<1>2. later \in Nat
  BY AttemptsAreNat, RoundStepsTyped DEF IInv, TypeOK
<1>3. StepsLeft = later + 1 + 2 * w + c /\ StepsLeft' = later + 1 + 2 * w2 + c2
  BY DEF StepsLeft, RoundSteps
<1>4. w2 \in Nat /\ c2 \in Nat /\ 2 * w2 + c2 < 2 * w + c
  <2>1. CASE call[k] = "waiting" /\ call' = [call EXCEPT ![k] = "calling"]
    <3>1. /\ CallsIn("waiting")' = CallsIn("waiting") \ {k} /\ k \in CallsIn("waiting")
          /\ CallsIn("calling")' = CallsIn("calling") \cup {k} /\ k \notin CallsIn("calling")
      BY <2>1 DEF CallsIn
    <3>2. w2 = w - 1 /\ c2 = c + 1
      BY <1>1, <3>1, FS_AddElement, FS_RemoveElement
    <3>3. w # 0
      BY <1>1, <3>1, FS_EmptySet
    <3> HIDE DEF w, c, w2, c2
    <3> QED
      BY <1>1, <3>2, <3>3
  <2>2. CASE call[k] = "calling" /\ call' = [call EXCEPT ![k] = "ended"]
    <3>1. /\ CallsIn("waiting")' = CallsIn("waiting")
          /\ CallsIn("calling")' = CallsIn("calling") \ {k} /\ k \in CallsIn("calling")
      BY <2>2 DEF CallsIn
    <3>2. w2 = w /\ c2 = c - 1
      BY <1>1, <3>1, FS_RemoveElement
    <3>3. c # 0
      BY <1>1, <3>1, FS_EmptySet
    <3> HIDE DEF w, c, w2, c2
    <3> QED
      BY <1>1, <3>2, <3>3
  <2> QED
    BY <2>1, <2>2
<1> HIDE DEF w, c, w2, c2, later
<1> QED
  BY <1>1, <1>2, <1>3, <1>4

\* A request ends after at most 2 * (groups + 1) steps in each of its rounds, whatever
\* its calls come back with: every step leaves fewer.
THEOREM RequestsTakeFewSteps == Spec => RequestsAreShort
<1> DEFINE Short == /\ StepsLeft' \in 0..(RoundSteps * MaxAttempts)
                    /\ step # "idle" => StepsLeft' < StepsLeft
<1>1. ASSUME IInv, StepsBounded, StepsBounded', Next PROVE Short
  <2>1. StepsLeft' \in 0..(RoundSteps * MaxAttempts)
    BY <1>1 DEF StepsBounded, RoundSteps
  <2> SUFFICES ASSUME step # "idle" PROVE StepsLeft' < StepsLeft
    BY <2>1
  <2>2. ASSUME NEW S \in SUBSET Groups, Request(S) PROVE FALSE
    BY <2>2 DEF Request
  <2>3. ASSUME NEW k, CallStep(k) PROVE StepsLeft' < StepsLeft
    <3>1. CASE StartCall(k)
      BY <1>1, <3>1, CallCosts DEF StartCall, CallGoes
    <3>2. CASE CallAnswers(k) \/ CallFails(k)
      BY <1>1, <3>2, CallCosts DEF CallAnswers, CallFails, EndCall, CallGoes
    <3> QED
      BY <2>3, <3>1, <3>2 DEF CallStep
  <2>4. CASE Join
    <3>1. step = "calling" /\ attempt' = attempt /\ step' \in {"idle", "sleeping"}
      BY <2>4 DEF Join
    <3> DEFINE later == RoundSteps * (MaxAttempts - attempt)
    <3>2. StepsLeft' = IF step' = "idle" THEN 0 ELSE later
      BY <3>1 DEF StepsLeft, RoundSteps
    <3>3. /\ Cardinality(CallsIn("waiting")) \in Nat /\ Cardinality(CallsIn("calling")) \in Nat
      BY <1>1, <3>1, CallsCounted
    <3>4. StepsLeft = later + 1 + 2 * Cardinality(CallsIn("waiting"))
                                + Cardinality(CallsIn("calling"))
      BY <3>1 DEF StepsLeft
    <3>5. later \in Nat
      BY <1>1, AttemptsAreNat, RoundStepsTyped DEF IInv, TypeOK
    <3> HIDE DEF later
    <3> QED
      BY <3>2, <3>3, <3>4, <3>5
  <2>5. CASE NextRound
    BY <1>1, <2>5, NewRoundCosts
  <2> QED
    BY <1>1, <2>2, <2>3, <2>4, <2>5 DEF Next, Progress
<1>2. IInv /\ StepsBounded /\ StepsBounded' /\ [Next]_vars => [Short]_vars
  BY <1>1
<1> QED
  BY <1>2, Inductive, StepsLeftBounded, PTL DEF Spec, RequestsAreShort

\* A request never waits for itself: a permit is free unless a call holds it, and any
\* groups that are left can be cut into chunks.
THEOREM RequestsGoOn == Spec => []NoRequestIsStuck
<1>1. ASSUME IInv, step # "idle" PROVE CanGoOn
  <2>1. CASE step = "sleeping"
    <3>1. IsFiniteSet(pending)
      BY <1>1, GroupsAssumption, FS_Subset DEF IInv, TypeOK
    <3> QED
      BY <2>1, <3>1, ChunksExist DEF CanGoOn
  <2>2. CASE step = "calling"
    <3>1. CASE CallsIn("calling") # {}
      BY <2>2, <3>1 DEF CanGoOn
    <3>2. CASE CallsIn("calling") = {} /\ CallsIn("waiting") # {}
      <4>1. Permits \in Nat /\ 0 < Permits
        BY LimitsAssumption DEF Permits
      <4> QED
        BY <2>2, <3>2, <4>1, FS_EmptySet DEF CanGoOn
    <3>3. CASE CallsIn("calling") = {} /\ CallsIn("waiting") = {}
      <4>1. Ended
        BY <1>1, <2>2, <3>3 DEF Ended, CallsIn, IInv, TypeOK
      <4> QED
        BY <2>2, <4>1 DEF CanGoOn
    <3> QED
      BY <3>1, <3>2, <3>3
  <2> QED
    BY <1>1, <2>1, <2>2 DEF IInv, TypeOK
<1> QED
  BY <1>1, Inductive, PTL DEF NoRequestIsStuck
=============================================================================
