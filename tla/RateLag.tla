------------------------------ MODULE RateLag ------------------------------
(***************************************************************************)
(* The time lag estimated from production rates (RateSampler in             *)
(* src/collector/rate_sampler.rs, compute_time_lags_rate in                 *)
(* timestamp_sampler.rs) and what LagCalculator::calculate makes of it, for *)
(* one partition, whose samples outlive the cycles, and a group that reads  *)
(* it.                                                                      *)
(*                                                                          *)
(* A cycle reads the watermark first and stamps it last, when the group     *)
(* fan-out is through: time passes in between, and producers write.         *)
(* Offsets only matter by their differences: a reading or a sample holds    *)
(* how far the end of the partition is ahead of its watermark by now.  Time *)
(* is discrete; rates are fractions, durations whole milliseconds.          *)
(***************************************************************************)
EXTENDS LagCalculator, Sequences, FiniteSets

CONSTANTS
    MaxSamples,     \* rate_history_samples
    MaxAge,         \* rate_history_max_age
    MinRate,        \* rate_min_msgs_per_sec
    MaxRate,        \* bound: messages produced per unit of time
    MaxShift,       \* bound: offsets a watermark jumps back, or falls short
    MaxDelay,       \* bound: time from the reading of a watermark to its stamp
    MaxLag,         \* bound: offsets a group lags
    UnitMillis,     \* milliseconds per unit of time
    OthersSeconds   \* what the other partitions of the group may come to

ASSUME SamplesAssumption == MaxSamples \in Nat /\ MaxSamples >= 2
ASSUME TimesAssumption   == {MaxAge, MinRate, MaxDelay} \subseteq Nat
ASSUME UnitAssumption    == UnitMillis \in Nat \ {0}
ASSUME BoundsAssumption  == {MaxRate, MaxShift, MaxLag} \subseteq Nat

VARIABLES
    history,    \* the samples of the partition, oldest first
    reading,    \* the watermark the cycle has read and not yet recorded
    published,  \* what this cycle reports of the partition and the group
    rate,       \* history: messages per unit of time, as produced now
    steadyFor,  \* history: how long at that rate
    calmFor,    \* history: recordings since the last disturbance
    quietFor,   \* history: time since it
    interval    \* history: time between the last two recordings

producerVars == <<rate, steadyFor>>
calmVars     == <<calmFor, quietFor>>
rateVars == <<history, reading, published, producerVars, calmVars, interval>>

NoTime  == -1
NoRate  == [num |-> 0, den |-> 0]
TooLong == MaxAge + 1
Longest == MaxAge + MaxDelay
AtMost(n, cap) == IF n < cap THEN n ELSE cap

ASSUME OthersAssumption ==
    \A others \in OthersSeconds : IsFiniteSet(others) /\ others \subseteq Nat \cup {NoTime}

NoReading == [age |-> 0, ahead |-> 0, clean |-> FALSE, done |-> TRUE]
Nothing   == [lag |-> 0, seconds |-> NoTime, group |-> NoTime, lossy |-> FALSE]

RateInit ==
    /\ history = <<>>
    /\ reading = NoReading
    /\ published = Nothing
    /\ rate = 0 /\ steadyFor = Longest
    /\ calmFor = MaxSamples /\ quietFor = TooLong
    /\ interval = TooLong

-----------------------------------------------------------------------------
(* The partition.                                                          *)

NewestAge == IF history = <<>> THEN TooLong ELSE history[Len(history)].age

\* A sample past MaxAge goes at the next recording whatever it holds.
Older(s, made) ==
    IF s.age + 1 > MaxAge THEN [age |-> TooLong, ahead |-> 0]
                          ELSE [age |-> s.age + 1, ahead |-> s.ahead + made]

\* Time passes while producers write.
Tick ==
    /\ ~reading.done => reading.age < MaxDelay
    /\ \E made \in 0..MaxRate :
          /\ history' = [i \in DOMAIN history |-> Older(history[i], made)]
          /\ reading' = IF reading.done THEN reading
                        ELSE [reading EXCEPT !.age = @ + 1, !.ahead = @ + made]
          /\ rate' = made
          /\ steadyFor' = IF made = rate THEN AtMost(steadyFor + 1, Longest)
                                         ELSE AtMost(1, Longest)
    /\ quietFor' = AtMost(quietFor + 1, TooLong)
    /\ published' = Nothing
    /\ UNCHANGED <<calmFor, interval>>

\* The topic is deleted and created again: its end jumps back.
Recreate ==
    /\ \E back \in 1..MaxShift :
          /\ \A i \in DOMAIN history : history[i].ahead - back >= -MaxShift
          /\ reading.ahead - back >= -MaxShift
          /\ history' = [i \in DOMAIN history |->
                            IF history[i].age > MaxAge THEN history[i]
                            ELSE [history[i] EXCEPT !.ahead = @ - back]]
          /\ reading' = IF reading.done THEN reading
                        ELSE [reading EXCEPT !.ahead = @ - back, !.clean = FALSE]
    /\ calmFor' = 0
    /\ quietFor' = 0
    /\ published' = Nothing
    /\ UNCHANGED <<producerVars, interval>>

-----------------------------------------------------------------------------
(* The sampler.                                                            *)

\* fetch_watermarks of a cycle: the high watermark is the end of the partition, or,
\* when only EARLIEST was answered, the low one, short of it.
ReadWatermarks ==
    /\ reading.done
    /\ \E short \in 0..MaxShift :
          reading' = [age |-> 0, ahead |-> short, clean |-> short = 0, done |-> FALSE]
    /\ published' = Nothing
    /\ UNCHANGED <<history, producerVars, calmVars, interval>>

\* The cycle fails or times out before it gets to the sampler.
DropCycle ==
    /\ ~reading.done
    /\ reading' = NoReading
    /\ UNCHANGED <<history, published, producerVars, calmVars, interval>>

Young(s) == s.age <= MaxAge

\* Samples leave at the front, up to the first that is young enough.
YoungOf(s) ==
    LET first == CHOOSE k \in 1..(Len(s) + 1) :
                    /\ \A j \in 1..(k - 1) : ~Young(s[j])
                    /\ k <= Len(s) => Young(s[k])
    IN  SubSeq(s, first, Len(s))

LastOf(s, n) == IF Len(s) > n THEN SubSeq(s, Len(s) - n + 1, Len(s)) ELSE s

\* Faulty variant: a full history keeps its oldest samples.
RecordedKeepingOldest(ahead) ==
    SubSeq(Append(YoungOf(history), [age |-> 0, ahead |-> ahead]), 1,
           AtMost(Len(YoungOf(history)) + 1, MaxSamples))

\* Faulty variant: the number of samples is not limited.
RecordedUnlimited(ahead) ==
    Append(YoungOf(history), [age |-> 0, ahead |-> ahead])

\* record_watermarks: the sample bears the time of the recording, not of the reading,
\* since when the end has gone ahead of its watermark.
Recorded(ahead) ==
    LastOf(Append(YoungOf(history), [age |-> 0, ahead |-> ahead]), MaxSamples)

\* compute_rate: messages per time, if that can be told.
Rate(samples) ==
    LET first == samples[1]
        last  == samples[Len(samples)]
        made  == first.ahead - last.ahead
        time  == first.age - last.age
    IN  IF Len(samples) >= 2 /\ time > 0 /\ made > 0 /\ made >= MinRate * time
        THEN [num |-> made, den |-> time]
        ELSE NoRate

\* lag / rate, cut off at the millisecond.  The rounding of floats is left out.
Seconds(lag, r) == (lag * UnitMillis * r.den) \div r.num

\* compute_time_lags_rate: no estimate is made for a group that has no lag.
Estimate(lag, samples) ==
    IF lag > 0 /\ Rate(samples) # NoRate THEN Seconds(lag, Rate(samples)) ELSE NoTime

-----------------------------------------------------------------------------
(* The lag calculator.                                                     *)

\* Faulty variant: a partition without an estimate counts as read to the end.
LagSecondsOrZero(lag, estimate, lossy) ==
    IF lag > 0 /\ estimate # NoTime THEN estimate ELSE 0

\* lag_seconds of a partition: lost messages make up for a missing estimate.
LagSeconds(lag, estimate, lossy) ==
    IF lag > 0
    THEN IF estimate = NoTime /\ lossy THEN 0 ELSE estimate
    ELSE 0

\* group_max_lag_seconds starts at 0: the largest of what there is, and 0 if there is
\* nothing.
GroupSeconds(values) ==
    LET known == (values \cup {0}) \ {NoTime}
    IN  CHOOSE v \in known : \A w \in known : w <= v

\* The samples are brought up to date, then the group is looked at.  `others` is what
\* the group's other partitions come to.
Publish(gap, samples, lossy, others) ==
    LET lag     == Lag(gap, 0)
        seconds == LagSeconds(lag, Estimate(lag, samples), lossy)
    IN  published' = [lag |-> lag, seconds |-> seconds,
                      group |-> GroupSeconds({seconds} \cup others), lossy |-> lossy]

\* The cycle gets to the sampler.  The group is `gap` behind the watermark, or, when it
\* has committed since that was read, ahead of it; only one that lags can have lost
\* messages.
Cycle ==
    /\ ~reading.done
    /\ \E gap \in -1..MaxLag, lossy \in BOOLEAN, others \in OthersSeconds :
          /\ lossy => gap > 0
          /\ Publish(gap, Recorded(reading.ahead), lossy, others)
    /\ history' = Recorded(reading.ahead)
    /\ reading' = NoReading
    /\ calmFor' = IF reading.clean THEN AtMost(calmFor + 1, MaxSamples) ELSE 0
    /\ quietFor' = IF reading.clean THEN quietFor ELSE 0
    /\ interval' = NewestAge
    /\ UNCHANGED producerVars

\* The partition is not among the watermarks: its samples are dropped, and a
\* group that reads it counts as having read it all.
CycleWithout ==
    /\ reading.done
    /\ history' = <<>>
    /\ \E others \in OthersSeconds :
          published' = [Nothing EXCEPT !.seconds = 0,
                                       !.group = GroupSeconds({0} \cup others)]
    /\ calmFor' = MaxSamples /\ quietFor' = TooLong /\ interval' = TooLong
    /\ UNCHANGED <<reading, producerVars>>

RateNext ==
    \/ Tick \/ Recreate
    \/ ReadWatermarks \/ DropCycle \/ Cycle \/ CycleWithout

RateSpec == RateInit /\ [][RateNext]_rateVars

-----------------------------------------------------------------------------
(* Properties.                                                             *)

Aheads == -MaxShift..(MaxShift + MaxRate * Longest)

Samples == [age : 0..TooLong, ahead : Aheads]

\* Every variable keeps its type; the history is bounded and ordered by age, and
\* what is published is no negative time.
RateTypeOK ==
    /\ history \in Seq(Samples) /\ Len(history) <= MaxSamples
    /\ \A i, j \in DOMAIN history : i < j => history[j].age <= history[i].age
    /\ reading \in [age : 0..MaxDelay, ahead : Aheads, clean : BOOLEAN, done : BOOLEAN]
    /\ published \in [lag : Nat, seconds : Nat \cup {NoTime}, group : Nat \cup {NoTime},
                      lossy : BOOLEAN]
    /\ rate \in 0..MaxRate /\ steadyFor \in 0..Longest
    /\ calmFor \in 0..MaxSamples /\ quietFor \in 0..TooLong
    /\ interval \in 0..TooLong

\* The last disturbance can no longer show: enough recordings lie behind it, or
\* enough time (a cycle without the partition forgets it at once).
Undisturbed == calmFor >= MaxSamples \/ quietFor > MaxAge

\* The time between the oldest sample and the newest, when a cycle has just recorded it.
Span == history[1].age

\* The time lag is the lag divided by the rate, cut off at the millisecond, as if the
\* window of the samples were longer or shorter by one delay at most.
IsClose ==
    LET exact == published.lag * UnitMillis * Span
    IN  /\ published.seconds * rate * (Span - MaxDelay) <= exact
        /\ (published.seconds + 1) * rate * (Span + MaxDelay) > exact

\* If the producers have been steady for MaxAge and the delay of a reading, and no
\* fallback watermark or recreated topic is recent, then the time lag of a group
\* that lags is close, unless it is unknown, or put at 0 since messages were lost.
\* And it is known, if the last two recordings lie within MaxAge and further apart
\* than a delay, and the rate keeps to its floor with one delay taken off.
SteadyRateIsClose ==
    published.lag > 0 /\ Undisturbed /\ steadyFor >= Longest =>
        /\ /\ rate > 0 /\ rate * (interval - MaxDelay) >= MinRate * interval
           /\ interval > MaxDelay /\ interval <= MaxAge
           => published.seconds # NoTime /\ IsClose
        /\ \/ published.seconds = NoTime
           \/ published.lossy /\ published.seconds = 0
           \/ IsClose

\* A group that lags by a message or more is reported as up to date in time only if it
\* lost messages, or if there is an estimate and producers can have written what the
\* group lags in less than a millisecond; never on account of a missing estimate.
\* The maximum of a group is 0 only if each of its partitions is at 0 or unknown:
\* unlike a partition's, it is 0 also when nothing is known at all.
NoTimeLagForAReason ==
    /\ published.lag > 0 /\ published.seconds = 0 /\ ~published.lossy =>
          /\ Len(history) >= 2 /\ Span > 0
          /\ published.lag * UnitMillis * Span
                < 2 * MaxShift + MaxRate * (Span + MaxDelay)
    /\ published.group = 0 => published.seconds \in {0, NoTime}
=============================================================================
