--------------------------- MODULE LagCalculator ---------------------------
(***************************************************************************)
(* The numbers LagCalculator::calculate derives for one partition of one    *)
(* group, and the watermarks it is given for the partition                  *)
(* (src/collector/lag_calculator.rs, src/kafka/client.rs).  The ratio is a  *)
(* float in the code; here it is only compared, so it stays a fraction.     *)
(***************************************************************************)
EXTENDS Integers

CONSTANT Missing   \* no answer for the partition in a response

ASSUME MissingAssumption == Missing \notin Int

AtLeastZero(n) == IF n > 0 THEN n ELSE 0

\* fetch_watermarks_for_partitions, the answers of the EARLIEST and the LATEST
\* call put together; with neither, the calculator's own default.
LowWatermark(low, high) ==
    IF low # Missing THEN low ELSE IF high # Missing THEN high ELSE 0

HighWatermark(low, high, committed) ==
    IF high # Missing THEN high ELSE IF low # Missing THEN low ELSE committed

Lag(high, committed) == AtLeastZero(high - committed)

DataLossDetected(low, committed) == committed < low

\* Faulty variant: the difference is not clamped.
MessagesLostUnclamped(low, committed) == low - committed

MessagesLost(low, committed) == AtLeastZero(low - committed)

RetentionWindow(low, high) == high - low

\* lag_retention_ratio against its mark; it is 0 for an empty window.
RatioAboveHundred(low, high, committed) ==
    /\ RetentionWindow(low, high) > 0
    /\ high - committed > RetentionWindow(low, high)
=============================================================================
