--------------------------- MODULE DescribeGroups ---------------------------
(***************************************************************************)
(* The description of consumer groups (describe_consumer_groups_batched in  *)
(* src/kafka/admin.rs).  The groups are cut into chunks, a call per chunk   *)
(* runs on a blocking thread under a permit of the request's semaphore, and *)
(* the round ends when all calls have.  The groups that failed in a way     *)
(* another attempt may mend form the next round, after a backoff.           *)
(*                                                                          *)
(* The order of the groups in a chunk and of the chunks has no effect; a    *)
(* round cuts its groups in any way into as few chunks as their size allows. *)
(***************************************************************************)
EXTENDS Integers, FiniteSets

CONSTANTS
    Groups,          \* the groups of the cluster the filters let through
    ChunkSize,       \* chunk_size, which describe_consumer_groups sets to 100
    MaxConcurrent,   \* max_concurrent_chunks
    MaxRetries       \* group_fetch_retries

ASSUME GroupsAssumption == IsFiniteSet(Groups)
ASSUME LimitsAssumption == /\ ChunkSize \in Nat
                           /\ MaxConcurrent \in Nat
                           /\ MaxRetries \in Nat

VARIABLES
    step,       \* where the request is
    attempt,    \* number of the round
    pending,    \* groups of the round
    chunk,      \* per pending group: the chunk it is in
    call,       \* per chunk: the call for it
    result,     \* per pending group: what the response says of it
    described,  \* groups the request will return
    failed,     \* groups it has given up
    asked,      \* history: per group, the calls that asked for it
    verdict     \* history: per group, what the last of them said of it

roundVars   == <<chunk, call, result>>
outcomeVars == <<described, failed>>
historyVars == <<asked, verdict>>
vars == <<step, attempt, pending, roundVars, outcomeVars, historyVars>>

Permits     == IF MaxConcurrent > 1 THEN MaxConcurrent ELSE 1
Chunk       == IF ChunkSize > 1 THEN ChunkSize ELSE 1
MaxAttempts == MaxRetries + 1

-----------------------------------------------------------------------------
(* Errors.                                                                 *)

\* Classes of response codes; a failure of the client itself carries none.
TransientCodes == {"timed_out", "transport", "coordinator"}
Codes          == TransientCodes \cup {"refused", "none"}

\* An error of a single group keeps librdkafka's own flag next to its code.
IsRetriable(code, native) == code \in TransientCodes \/ native

ResultOf(code, native) == IF IsRetriable(code, native) THEN "retry" ELSE "give_up"

\* The call as a whole: no result in time, the wrong one, an error of the
\* request, a panic of the blocking task.
CallErrors == {ResultOf(code, FALSE) : code \in Codes}

\* One group in a response: described, in error, or not there at all, which is
\* taken for an error that carries no code.
GroupResults ==
    {"described", ResultOf("none", FALSE)}
        \cup {ResultOf(error[1], error[2]) : error \in (Codes \ {"none"}) \X BOOLEAN}

-----------------------------------------------------------------------------
(* Rounds.                                                                 *)

ChunkCount(S) == (Cardinality(S) + Chunk - 1) \div Chunk

ChunksOf(S) ==
    {cut \in [S -> 1..ChunkCount(S)] :
        \A k \in 1..ChunkCount(S) : Cardinality({g \in S : cut[g] = k}) \in 1..Chunk}

BeginRound(S) ==
    /\ pending' = S
    /\ chunk' \in ChunksOf(S)
    /\ call' = [k \in 1..ChunkCount(S) |-> "waiting"]
    /\ result' = [g \in S |-> "none"]

Init ==
    /\ step = "idle"
    /\ attempt = 0
    /\ pending = {}
    /\ chunk = <<>> /\ call = <<>> /\ result = <<>>
    /\ described = {}
    /\ failed = {}
    /\ asked = [g \in Groups |-> 0]
    /\ verdict = [g \in Groups |-> "none"]

\* A cycle asks for the groups the filters left; with none there is no request.
Request(S) ==
    /\ step = "idle"
    /\ S # {}
    /\ step' = "calling"
    /\ attempt' = 1
    /\ BeginRound(S)
    /\ described' = {}
    /\ failed' = {}
    /\ asked' = [g \in Groups |-> 0]
    /\ verdict' = [g \in Groups |-> "none"]

In(k) == {g \in pending : chunk[g] = k}

Ended == \A k \in DOMAIN call : call[k] = "ended"

CallGoes(k, from, to) ==
    /\ k \in DOMAIN call
    /\ call[k] = from
    /\ call' = [call EXCEPT ![k] = to]

\* A permit, and with it a blocking thread.
StartCall(k) ==
    /\ step = "calling"
    /\ Cardinality({j \in DOMAIN call : call[j] = "calling"}) < Permits
    /\ CallGoes(k, "waiting", "calling")
    /\ asked' = [g \in Groups |-> IF g \in In(k) THEN asked[g] + 1 ELSE asked[g]]
    /\ UNCHANGED <<step, attempt, pending, chunk, result, outcomeVars, verdict>>

EndCall(k, answer) ==
    /\ CallGoes(k, "calling", "ended")
    /\ result' = [g \in pending |-> IF g \in In(k) THEN answer[g] ELSE result[g]]
    /\ verdict' = [g \in Groups |-> IF g \in In(k) THEN answer[g] ELSE verdict[g]]
    /\ UNCHANGED <<step, attempt, pending, chunk, outcomeVars, asked>>

\* describe_consumer_groups_one_chunk returns a response.
CallAnswers(k) ==
    /\ step = "calling"
    /\ \E answer \in [In(k) -> GroupResults] : EndCall(k, answer)

\* It returns an error, which is put down to every group of the chunk.
CallFails(k) ==
    /\ step = "calling"
    /\ \E error \in CallErrors : EndCall(k, [g \in In(k) |-> error])

With(outcome) == {g \in pending : result[g] = outcome}

\* Faulty variant: one attempt too many.
CanRetryOnceMore == attempt <= MaxAttempts

\* partition_for_retry, on all responses of the round.
CanRetry  == attempt < MaxAttempts
Retryable == IF CanRetry THEN With("retry") ELSE {}

\* Faulty variant: a group with no hope takes the failures of its chunk along.
TerminalWithChunk ==
    {g \in pending \ With("described") :
        \/ g \notin Retryable
        \/ \E h \in With("give_up") : chunk[h] = chunk[g]}

Terminal == pending \ (With("described") \cup Retryable)

\* Faulty variant: a round that ends returns its groups as the next one.
JoinKeepingAll ==
    /\ step = "calling"
    /\ Ended
    /\ described' = described \cup With("described")
    /\ failed' = failed \cup Terminal
    /\ IF Retryable = {}
       THEN /\ step' = "idle" /\ pending' = {} /\ chunk' = <<>>
            /\ call' = <<>> /\ result' = <<>>
       ELSE step' = "sleeping" /\ UNCHANGED <<pending, roundVars>>
    /\ UNCHANGED <<attempt, historyVars>>

\* Faulty variant: the errors of the last round are not split off.
JoinDroppingLast ==
    /\ step = "calling"
    /\ Ended
    /\ described' = described \cup With("described")
    /\ failed' = failed \cup With("give_up")
    /\ pending' = Retryable
    /\ step' = IF Retryable = {} THEN "idle" ELSE "sleeping"
    /\ chunk' = <<>> /\ call' = <<>> /\ result' = <<>>
    /\ UNCHANGED <<attempt, historyVars>>

\* join_all: the responses are split, and the request returns or sleeps.
Join ==
    /\ step = "calling"
    /\ Ended
    /\ described' = described \cup With("described")
    /\ failed' = failed \cup Terminal
    /\ pending' = Retryable
    /\ step' = IF Retryable = {} THEN "idle" ELSE "sleeping"
    /\ chunk' = <<>> /\ call' = <<>> /\ result' = <<>>
    /\ UNCHANGED <<attempt, historyVars>>

\* The backoff is over.
NextRound ==
    /\ step = "sleeping"
    /\ step' = "calling"
    /\ attempt' = attempt + 1
    /\ BeginRound(pending)
    /\ UNCHANGED <<outcomeVars, historyVars>>

CallStep(k) == StartCall(k) \/ CallAnswers(k) \/ CallFails(k)

Progress ==
    \/ \E k \in 1..Cardinality(Groups) : CallStep(k)
    \/ Join \/ NextRound

Next == Progress \/ \E S \in SUBSET Groups : Request(S)

Spec == Init /\ [][Next]_vars

\* Calls end by their own timeout and the backoff by its timer.
FairSpec == Spec /\ WF_vars(Progress)

-----------------------------------------------------------------------------
(* Properties.                                                             *)

\* Every variable keeps its type.
TypeOK ==
    /\ step \in {"idle", "calling", "sleeping"}
    /\ attempt \in 0..MaxAttempts
    /\ pending \in SUBSET Groups
    /\ described \in SUBSET Groups
    /\ failed \in SUBSET Groups
    /\ asked \in [Groups -> 0..MaxAttempts]
    /\ verdict \in [Groups -> GroupResults \cup {"none"}]
    /\ step = "calling" =>
          /\ chunk \in [pending -> 1..ChunkCount(pending)]
          /\ call \in [1..ChunkCount(pending) -> {"waiting", "calling", "ended"}]
          /\ result \in [pending -> GroupResults \cup {"none"}]

\* A group is given up only because its last answer said that another attempt
\* is no use, or because all attempts were made: a chunk that failed as a whole
\* does not take groups down with it that an attempt was left for.
GivenUpForAReason ==
    \A g \in failed :
        \/ verdict[g] = "give_up"
        \/ verdict[g] = "retry" /\ asked[g] = MaxAttempts

\* No call asks for a group that is settled, be it described or given up, in
\* another chunk or an earlier round.
AskedWhileOpen ==
    [][\A g \in Groups :
          asked'[g] > asked[g] => verdict[g] \in {"none", "retry"}]_vars

\* Chunks, rounds, retries and backoffs amount to what GroupRequests promises:
\* every group is settled once, and the request ends.
Requests == INSTANCE GroupRequests WITH
    open <- pending, answered <- described, failed <- failed

Promise == Requests!Spec
=============================================================================
