---------------------------- MODULE LagSnapshot ----------------------------
(***************************************************************************)
(* One collection cycle against a cluster that does not stand still         *)
(* (collect_parallel in src/collector/offset_collector.rs): the cycle asks  *)
(* for the EARLIEST offsets of all partitions, then for the LATEST ones,    *)
(* then for the group's committed offsets, while producers append, the      *)
(* broker deletes and the group commits.  An answer is about the moment the *)
(* broker gave it, and single partitions may come back without one.         *)
(*                                                                          *)
(* Groups do not influence each other's numbers: there is one group.        *)
(***************************************************************************)
EXTENDS LagCalculator

CONSTANTS
    Partitions,  \* the monitored partitions
    MaxOffset    \* bound of the offsets

ASSUME MaxOffsetAssumption == MaxOffset \in Nat

VARIABLES
    low, end, committed,       \* the cluster: log start, log end, committed offset
    step,                      \* the call the cycle is in
    todo,                      \* partitions the call has not answered for
    lowRead, highRead,         \* answers to EARLIEST and LATEST
    offsetRead,                \* answer to ListConsumerGroupOffsets
    lowAtStart, endAtStart,    \* history: the log when the cycle began
    lowAtRead, endAtRead       \* history: the log when the offsets were read

logVars     == <<low, end, committed>>
answerVars  == <<lowRead, highRead, offsetRead>>
historyVars == <<lowAtStart, endAtStart, lowAtRead, endAtRead>>
vars == <<logVars, step, todo, answerVars, historyVars>>

Answer == Nat \cup {Missing}

None == [p \in Partitions |-> Missing]

Init ==
    /\ low = [p \in Partitions |-> 0]
    /\ end = low
    /\ committed = None
    /\ step = "earliest"
    /\ todo = Partitions
    /\ lowRead = None /\ highRead = None /\ offsetRead = None
    /\ lowAtStart = low /\ endAtStart = end
    /\ lowAtRead = low /\ endAtRead = end

-----------------------------------------------------------------------------
(* The cluster (external).                                                 *)

Produce(p) ==
    /\ end[p] < MaxOffset
    /\ end' = [end EXCEPT ![p] = @ + 1]
    /\ UNCHANGED <<low, committed>>

Retention(p) ==
    /\ low[p] < end[p]
    /\ low' = [low EXCEPT ![p] = @ + 1]
    /\ UNCHANGED <<end, committed>>

\* The group commits, or its offsets are reset, to an offset in the log.
Commit(p) ==
    /\ \E offset \in low[p]..end[p] : committed' = [committed EXCEPT ![p] = offset]
    /\ UNCHANGED <<low, end>>

ClusterStep ==
    /\ \E p \in Partitions : Produce(p) \/ Retention(p) \/ Commit(p)
    /\ UNCHANGED <<step, todo, answerVars, historyVars>>

-----------------------------------------------------------------------------
(* The cycle.                                                              *)

\* The broker answers for a partition, or the partition comes back in error.
AskEarliest(p) ==
    /\ step = "earliest"
    /\ p \in todo
    /\ todo' = todo \ {p}
    /\ \E answer \in {low[p], Missing} : lowRead' = [lowRead EXCEPT ![p] = answer]
    /\ UNCHANGED <<logVars, step, highRead, offsetRead, historyVars>>

AskLatest(p) ==
    /\ step = "latest"
    /\ p \in todo
    /\ todo' = todo \ {p}
    /\ \E answer \in {end[p], Missing} : highRead' = [highRead EXCEPT ![p] = answer]
    /\ UNCHANGED <<logVars, step, lowRead, offsetRead, historyVars>>

NextCall ==
    /\ todo = {}
    /\ \/ step = "earliest" /\ step' = "latest" /\ todo' = Partitions
       \/ step = "latest" /\ step' = "offsets" /\ UNCHANGED todo
    /\ UNCHANGED <<logVars, answerVars, historyVars>>

\* Faulty variant: the committed offsets are asked for before the watermarks.
ReadOffsetsFirst ==
    \/ /\ step = "earliest" /\ todo = Partitions /\ offsetRead = None
       /\ offsetRead' = committed
       /\ lowAtRead' = low
       /\ endAtRead' = end
       /\ UNCHANGED <<logVars, step, todo, lowRead, highRead, lowAtStart, endAtStart>>
    \/ /\ step = "offsets"
       /\ step' = "calculated"
       /\ UNCHANGED <<logVars, todo, answerVars, historyVars>>

\* Faulty variant: the offset -1 of a partition without a commit is stored.
ReadNoOffset ==
    /\ step = "offsets"
    /\ step' = "calculated"
    /\ offsetRead' = [p \in Partitions |-> IF committed[p] = Missing THEN -1
                                          ELSE committed[p]]
    /\ lowAtRead' = low
    /\ endAtRead' = end
    /\ UNCHANGED <<logVars, todo, lowRead, highRead, lowAtStart, endAtStart>>

\* One answer of the group's coordinator for all its partitions; a group whose
\* fetch failed is taken as one without offsets.
ReadOffsets ==
    /\ step = "offsets"
    /\ step' = "calculated"
    /\ offsetRead' \in {committed, None}
    /\ lowAtRead' = low
    /\ endAtRead' = end
    /\ UNCHANGED <<logVars, todo, lowRead, highRead, lowAtStart, endAtStart>>

\* The next cycle; the last one was completed, or failed or timed out anywhere.
BeginCycle ==
    /\ step' = "earliest"
    /\ todo' = Partitions
    /\ lowRead' = None /\ highRead' = None /\ offsetRead' = None
    /\ lowAtStart' = low /\ endAtStart' = end
    /\ lowAtRead' = low /\ endAtRead' = end
    /\ UNCHANGED logVars

CycleStep ==
    \/ \E p \in Partitions : AskEarliest(p) \/ AskLatest(p)
    \/ NextCall \/ ReadOffsets \/ BeginCycle

Next == ClusterStep \/ CycleStep

Spec == Init /\ [][Next]_vars
-----------------------------------------------------------------------------
(* Properties.                                                             *)

\* Every variable keeps its type.
TypeOK ==
    /\ low \in [Partitions -> Nat]
    /\ end \in [Partitions -> Nat]
    /\ committed \in [Partitions -> Answer]
    /\ step \in {"earliest", "latest", "offsets", "calculated"}
    /\ todo \in SUBSET Partitions
    /\ lowRead \in [Partitions -> Answer]
    /\ highRead \in [Partitions -> Answer]
    /\ offsetRead \in [Partitions -> Answer]
    /\ lowAtStart \in [Partitions -> Nat]
    /\ endAtStart \in [Partitions -> Nat]
    /\ lowAtRead \in [Partitions -> Nat]
    /\ endAtRead \in [Partitions -> Nat]

\* The cycle ended with metrics for the partition.
Reported(p) == step = "calculated" /\ offsetRead[p] # Missing

Low(p)  == LowWatermark(lowRead[p], highRead[p])
High(p) == HighWatermark(lowRead[p], highRead[p], offsetRead[p])

\* A reported lag is the lag of the reported offset at some moment of the cycle:
\* never more than what the log held beyond the offset when it was read and,
\* if LATEST was answered, never less than what it held when the cycle began.
LagWithinCycle ==
    \A p \in Partitions : Reported(p) =>
        LET lag == Lag(High(p), offsetRead[p]) IN
        /\ lag <= AtLeastZero(endAtRead[p] - offsetRead[p])
        /\ highRead[p] # Missing => lag >= AtLeastZero(endAtStart[p] - offsetRead[p])

\* With EARLIEST answered, the same holds of the messages reported lost: a loss
\* that is older than the cycle is reported in full, and what is reported had
\* been deleted by the time the offset was read.
LossWithinCycle ==
    \A p \in Partitions : Reported(p) /\ lowRead[p] # Missing =>
        LET lost == MessagesLost(Low(p), offsetRead[p]) IN
        /\ lost <= AtLeastZero(lowAtRead[p] - offsetRead[p])
        /\ lost >= AtLeastZero(lowAtStart[p] - offsetRead[p])

\* A retention ratio above 100 means what README says it means, whichever calls
\* came back without an answer: messages the group had not read were deleted.
RatioAlarmIsTrue ==
    \A p \in Partitions :
        Reported(p) /\ RatioAboveHundred(Low(p), High(p), offsetRead[p])
            => offsetRead[p] < lowAtRead[p]

-----------------------------------------------------------------------------
(* Claims of the documentation.                                             *)

\* "This is conservative: it avoids a spurious data-loss alarm": data loss is
\* detected only where messages the group had not read were deleted.
LossAlarmIsTrue ==
    \A p \in Partitions :
        Reported(p) /\ DataLossDetected(Low(p), offsetRead[p])
            => offsetRead[p] < lowAtRead[p]
=============================================================================
