----------------------------- MODULE Lag_proofs -----------------------------
(***************************************************************************)
(* What a cycle reports of lag and loss is true, for any number of          *)
(* partitions and any offsets (LagSnapshot), and the time lag made of       *)
(* production rates is close when it can be, for any history, any rates,    *)
(* any delay between reading and recording, and any number of other         *)
(* partitions (RateLag).                                                    *)
(***************************************************************************)
EXTENDS LagSnapshot, RateLag, FiniteSetTheorems, SequenceTheorems,
        WellFoundedInduction, TLAPS

-----------------------------------------------------------------------------
(* The answers of a cycle (LagSnapshot).                                    *)

(***************************************************************************)
(* The argument: the log only moves forward, so an answer given during the  *)
(* cycle lies between what the log was when the cycle began and what it is  *)
(* now; reading the offsets freezes "now".                                  *)
(***************************************************************************)
LogInOrder ==
    \A p \in Partitions :
        /\ lowAtStart[p] <= low[p]
        /\ endAtStart[p] <= end[p]

AnswersInRange ==
    \A p \in Partitions :
        /\ lowRead[p] # Missing =>
             lowRead[p] >= lowAtStart[p] /\ lowRead[p] <= low[p]
        /\ highRead[p] # Missing =>
             highRead[p] >= endAtStart[p] /\ highRead[p] <= end[p]

AnswersBeforeOffsets ==
    step = "calculated" => \A p \in Partitions :
        /\ lowRead[p] # Missing => lowRead[p] <= lowAtRead[p]
        /\ highRead[p] # Missing => highRead[p] <= endAtRead[p]
        /\ lowAtRead[p] <= endAtRead[p]

IInv ==
    /\ TypeOK
    /\ \A p \in Partitions : low[p] <= end[p]
    /\ LogInOrder
    /\ AnswersInRange
    /\ AnswersBeforeOffsets

\* No step changes a type.
LEMMA TypeStep == TypeOK /\ [Next]_vars => TypeOK'
<1> USE MissingAssumption, MaxOffsetAssumption DEF TypeOK
<1> SUFFICES ASSUME TypeOK, [Next]_vars PROVE TypeOK'
  OBVIOUS
<1>1. CASE ClusterStep
  <2>1. ASSUME NEW p \in Partitions, Produce(p) PROVE TypeOK'
    BY <1>1, <2>1 DEF ClusterStep, Produce, answerVars, historyVars
  <2>2. ASSUME NEW p \in Partitions, Retention(p) PROVE TypeOK'
    BY <1>1, <2>2 DEF ClusterStep, Retention, answerVars, historyVars
  <2>3. ASSUME NEW p \in Partitions, Commit(p) PROVE TypeOK'
    BY <1>1, <2>3 DEF ClusterStep, Commit, Answer, answerVars, historyVars
  <2>4. QED
    BY <1>1, <2>1, <2>2, <2>3 DEF ClusterStep
<1>2. ASSUME NEW p \in Partitions, AskEarliest(p) PROVE TypeOK'
  BY <1>2 DEF AskEarliest, Answer, logVars, historyVars
<1>3. ASSUME NEW p \in Partitions, AskLatest(p) PROVE TypeOK'
  BY <1>3 DEF AskLatest, Answer, logVars, historyVars
<1>4. CASE NextCall
  BY <1>4 DEF NextCall, logVars, answerVars, historyVars
<1>5. CASE ReadOffsets
  BY <1>5 DEF ReadOffsets, None, Answer, logVars
<1>6. CASE BeginCycle
  BY <1>6 DEF BeginCycle, None, Answer, logVars
<1>7. CASE UNCHANGED vars
  BY <1>7 DEF vars, logVars, answerVars, historyVars
<1>8. QED
  BY <1>1, <1>2, <1>3, <1>4, <1>5, <1>6, <1>7 DEF Next, CycleStep

\* Every variable keeps its type.
THEOREM TypeCorrect == Spec => []TypeOK
<1>1. Init => TypeOK
  BY MissingAssumption DEF Init, TypeOK, None, Answer
<1>2. QED
  BY <1>1, TypeStep, PTL DEF Spec

\* The cluster moves the log forward only, so nothing already read becomes wrong.
LEMMA ClusterStepKeeps == IInv /\ ClusterStep => IInv'
<1> SUFFICES ASSUME IInv, ClusterStep, TypeOK' PROVE IInv'
  <2>1. IInv /\ ClusterStep => TypeOK'
    BY TypeStep DEF IInv, Next
  <2>2. QED BY <2>1
<1> USE MissingAssumption DEF TypeOK, Answer
<1>1. UNCHANGED <<step, todo, lowRead, highRead, offsetRead,
                  lowAtStart, endAtStart, lowAtRead, endAtRead>>
  BY DEF ClusterStep, answerVars, historyVars
<1> DEFINE Forward == \A p \in Partitions :
               low'[p] >= low[p] /\ end'[p] >= end[p] /\ low'[p] <= end'[p]
<1>2. Forward
  <2>1. ASSUME NEW q \in Partitions, Produce(q) PROVE Forward
    BY <2>1 DEF Produce, IInv
  <2>2. ASSUME NEW q \in Partitions, Retention(q) PROVE Forward
    BY <2>2 DEF Retention, IInv
  <2>3. ASSUME NEW q \in Partitions, Commit(q) PROVE Forward
    BY <2>3 DEF Commit, IInv
  <2>4. QED BY <2>1, <2>2, <2>3 DEF ClusterStep
<1>3. LogInOrder'
  BY <1>1, <1>2 DEF IInv, LogInOrder
<1>4. AnswersInRange'
  BY <1>1, <1>2 DEF IInv, AnswersInRange
<1>5. AnswersBeforeOffsets'
  BY <1>1 DEF IInv, AnswersBeforeOffsets
<1>6. QED BY <1>2, <1>3, <1>4, <1>5 DEF IInv

\* The strengthened invariant holds throughout.
LEMMA Inductive == Spec => []IInv
<1> USE MissingAssumption
<1>1. Init => IInv
  BY DEF Init, IInv, TypeOK, None, Answer, LogInOrder, AnswersInRange,
         AnswersBeforeOffsets
<1>2. IInv /\ [Next]_vars => IInv'
  <2> SUFFICES ASSUME IInv, [Next]_vars, TypeOK' PROVE IInv'
    BY TypeStep DEF IInv
  <2> USE DEF TypeOK, Answer, IInv, LogInOrder, AnswersInRange, AnswersBeforeOffsets
  <2>1. CASE ClusterStep
    BY <2>1, ClusterStepKeeps
  <2>2. ASSUME NEW p \in Partitions, AskEarliest(p) PROVE IInv'
    BY <2>2 DEF AskEarliest, logVars, historyVars
  <2>3. ASSUME NEW p \in Partitions, AskLatest(p) PROVE IInv'
    BY <2>3 DEF AskLatest, logVars, historyVars
  <2>4. CASE NextCall
    BY <2>4 DEF NextCall, logVars, answerVars, historyVars
  <2>5. CASE ReadOffsets
    BY <2>5 DEF ReadOffsets, logVars
  <2>6. CASE BeginCycle
    BY <2>6 DEF BeginCycle, None, logVars
  <2>7. CASE UNCHANGED vars
    BY <2>7 DEF vars, logVars, answerVars, historyVars
  <2>8. QED
    BY <2>1, <2>2, <2>3, <2>4, <2>5, <2>6, <2>7 DEF Next, CycleStep
<1>3. QED
  BY <1>1, <1>2, PTL DEF Spec

\* A lag the cycle reports was the group's lag at some moment of the cycle.
THEOREM LagIsTrue == Spec => []LagWithinCycle
<1>1. IInv => LagWithinCycle
  BY MissingAssumption
  DEF IInv, TypeOK, Answer, AnswersInRange, AnswersBeforeOffsets, LagWithinCycle,
      Reported, Low, High, Lag, LowWatermark, HighWatermark, AtLeastZero
<1>2. QED BY <1>1, Inductive, PTL

\* Messages the cycle reports as lost were deleted unread, and none that were
\* lost before the cycle began are left out.
THEOREM LossIsTrue == Spec => []LossWithinCycle
<1>1. IInv => LossWithinCycle
  BY MissingAssumption
  DEF IInv, TypeOK, Answer, AnswersInRange, AnswersBeforeOffsets, LossWithinCycle,
      Reported, Low, LowWatermark, MessagesLost, AtLeastZero
<1>2. QED BY <1>1, Inductive, PTL

\* A retention ratio above 100 is never a false alarm, missing answers included.
THEOREM RatioIsTrue == Spec => []RatioAlarmIsTrue
<1>1. IInv => RatioAlarmIsTrue
  BY MissingAssumption
  DEF IInv, TypeOK, Answer, AnswersInRange, AnswersBeforeOffsets, RatioAlarmIsTrue,
      Reported, Low, High, LowWatermark, HighWatermark, RatioAboveHundred,
      RetentionWindow
<1>2. QED BY <1>1, Inductive, PTL

-----------------------------------------------------------------------------
(* Lemmas: least and largest numbers, sequences of samples.                 *)

\* Every set of naturals with an element has a least one.
LEMMA LeastNatural ==
    ASSUME NEW T \in SUBSET Nat, T # {}
    PROVE  \E m \in T : \A n \in T : m <= n
<1> DEFINE R == OpToRel(<, Nat)
<1>1. IsWellFoundedOn(R, Nat)
  BY NatLessThanWellFounded
<1> HIDE DEF R
<1>2. PICK m \in T : \A n \in T : ~ (<<n, m>> \in R)
  BY <1>1, WFMin
<1>3. \A n \in T : <<n, m>> \in R <=> n < m
  BY DEF R, OpToRel
<1>4. \A n \in T : n \in Nat
  OBVIOUS
<1>5. \A n \in T : ~ (n < m)
  BY <1>2, <1>3
<1>6. \A n \in T : m <= n
  BY <1>4, <1>5
<1> QED
  BY <1>6

Ordered(s) == \A i, j \in DOMAIN s : i < j => s[j].age <= s[i].age

\* What leaves at the front are d samples, and the rest are young.
LEMMA YoungKept ==
    ASSUME NEW s \in Seq(Samples), Ordered(s)
    PROVE  \E d \in 0..Len(s) :
              /\ YoungOf(s) \in Seq(Samples) /\ Len(YoungOf(s)) = Len(s) - d
              /\ \A i \in 1..(Len(s) - d) : YoungOf(s)[i] = s[i + d] /\ Young(s[i + d])
              /\ Len(s) > 0 /\ Young(s[Len(s)]) => d < Len(s)
<1> DEFINE Kept(k) == /\ \A j \in 1..(k - 1) : ~Young(s[j])
                      /\ k <= Len(s) => Young(s[k])
           T == {k \in 1..(Len(s) + 1) : k = Len(s) + 1 \/ Young(s[k])}
           first == CHOOSE k \in 1..(Len(s) + 1) : Kept(k)
<1>1. Len(s) \in Nat /\ DOMAIN s = 1..Len(s) /\ \A i \in 1..Len(s) : s[i] \in Samples
  BY LenProperties, ElementOfSeq
<1>2. \E k \in 1..(Len(s) + 1) : Kept(k)
  <2>1. T \subseteq Nat /\ Len(s) + 1 \in T
    BY <1>1
  <2>2. PICK k \in T : \A n \in T : k <= n
    BY <2>1, LeastNatural
  <2>3. ASSUME NEW j \in 1..(k - 1) PROVE ~Young(s[j])
    <3>1. j \in 1..Len(s) /\ ~(k <= j)
      BY <1>1, <2>2, <2>3
    <3> QED
      BY <1>1, <2>2, <3>1
  <2>4. k <= Len(s) => Young(s[k])
    BY <1>1, <2>2
  <2> QED
    BY <2>2, <2>3, <2>4
<1>3. first \in 1..(Len(s) + 1) /\ Kept(first)
  BY <1>2
<1>4. YoungOf(s) = SubSeq(s, first, Len(s))
  BY DEF YoungOf
<1> HIDE DEF first
<1>5. /\ YoungOf(s) \in Seq(Samples) /\ Len(YoungOf(s)) = Len(s) - (first - 1)
      /\ \A i \in 1..(Len(s) - (first - 1)) : YoungOf(s)[i] = s[i + (first - 1)]
  <2>1. first \in Int /\ Len(s) \in Int /\ \A i \in first..Len(s) : s[i] \in Samples
    BY <1>1, <1>3
  <2>2. /\ SubSeq(s, first, Len(s)) \in Seq(Samples)
        /\ Len(SubSeq(s, first, Len(s))) = IF first <= Len(s) THEN Len(s) - first + 1 ELSE 0
        /\ \A i \in 1..(Len(s) - first + 1) : SubSeq(s, first, Len(s))[i] = s[first + i - 1]
    BY <2>1, SubSeqProperties
  <2>3. \A i \in 1..(Len(s) - first + 1) : first + i - 1 = i + (first - 1)
    BY <2>1
  <2>4. Len(s) - (first - 1) = Len(s) - first + 1
    BY <2>1
  <2> QED
    BY <1>1, <1>3, <1>4, <2>2, <2>3, <2>4
<1>6. ASSUME NEW i \in 1..(Len(s) - (first - 1)) PROVE Young(s[i + (first - 1)])
  <2>1. first \in DOMAIN s /\ i + (first - 1) \in DOMAIN s /\ Young(s[first])
    BY <1>1, <1>3
  <2>2. i + (first - 1) = first \/ s[i + (first - 1)].age <= s[first].age
    BY <1>1, <1>3, <2>1 DEF Ordered
  <2>3. s[first].age \in Nat /\ s[i + (first - 1)].age \in Nat
    <3>1. s[first] \in Samples /\ s[i + (first - 1)] \in Samples
      BY <1>1, <2>1
    <3>2. 0..TooLong \subseteq Nat
      BY TimesAssumption DEF TooLong
    <3> QED
      BY <3>1, <3>2 DEF Samples
  <2> QED
    BY <2>1, <2>2, <2>3, TimesAssumption DEF Young
<1>7. Len(s) > 0 /\ Young(s[Len(s)]) => first - 1 < Len(s)
  BY <1>1, <1>3
<1>8. first - 1 \in 0..Len(s)
  BY <1>1, <1>3
<1> QED
  BY <1>5, <1>6, <1>7, <1>8

\* The newest n samples.
LEMMA LastOfKeeps ==
    ASSUME NEW s \in Seq(Samples), NEW n \in Nat
    PROVE  \E d \in 0..Len(s) :
              /\ LastOf(s, n) \in Seq(Samples) /\ Len(LastOf(s, n)) = Len(s) - d
              /\ \A i \in 1..(Len(s) - d) : LastOf(s, n)[i] = s[i + d]
              /\ Len(LastOf(s, n)) = IF Len(s) > n THEN n ELSE Len(s)
<1>1. Len(s) \in Nat /\ DOMAIN s = 1..Len(s) /\ \A i \in 1..Len(s) : s[i] \in Samples
  BY LenProperties, ElementOfSeq
<1>2. CASE Len(s) > n
  <2> DEFINE m == Len(s) - n + 1
             t == SubSeq(s, m, Len(s))
  <2>1. m \in Int /\ Len(s) \in Int /\ \A i \in m..Len(s) : s[i] \in Samples
    BY <1>1, <1>2
  <2>2. /\ t \in Seq(Samples)
        /\ Len(t) = IF m <= Len(s) THEN Len(s) - m + 1 ELSE 0
        /\ \A i \in 1..(Len(s) - m + 1) : t[i] = s[m + i - 1]
    BY <2>1, SubSeqProperties
  <2>3. LastOf(s, n) = t
    BY <1>2 DEF LastOf
  <2>4. Len(t) = n /\ Len(s) - m + 1 = n
    BY <1>1, <1>2, <2>2
  <2> HIDE DEF t
  <2>5. \A i \in 1..n : t[i] = s[i + (Len(s) - n)]
    <3>1. \A i \in 1..n : m + i - 1 = i + (Len(s) - n)
      BY <1>1
    <3> QED
      BY <2>2, <2>4, <3>1
  <2>6. Len(s) - n \in 0..Len(s) /\ Len(s) - (Len(s) - n) = n
    BY <1>1, <1>2
  <2> QED
    BY <1>2, <2>2, <2>3, <2>4, <2>5, <2>6
<1>3. CASE ~(Len(s) > n)
  <2>1. LastOf(s, n) = s
    BY <1>3 DEF LastOf
  <2>2. 0 \in 0..Len(s) /\ Len(s) - 0 = Len(s) /\ \A i \in 1..(Len(s) - 0) : s[i] = s[i + 0]
    BY <1>1
  <2> QED
    BY <1>3, <2>1, <2>2
<1> QED
  BY <1>2, <1>3

SampleNow(ahead) == [age |-> 0, ahead |-> ahead]

LEMMA SampleNowTyped ==
    ASSUME NEW ahead \in Aheads PROVE SampleNow(ahead) \in Samples
BY TimesAssumption DEF SampleNow, Samples, TooLong

\* A recording drops d samples at the front, keeps only young ones, and adds one; the
\* newest sample of before stays if it is young.
LEMMA RecordedIs ==
    ASSUME NEW s \in Seq(Samples), s = history, Ordered(s), NEW ahead \in Aheads
    PROVE  \E d \in 0..Len(s) :
              /\ Recorded(ahead) \in Seq(Samples)
              /\ Len(Recorded(ahead)) = Len(s) - d + 1
              /\ Len(Recorded(ahead)) <= MaxSamples
              /\ \A i \in 1..(Len(s) - d) :
                    Recorded(ahead)[i] = s[i + d] /\ Young(s[i + d])
              /\ Recorded(ahead)[Len(s) - d + 1] = SampleNow(ahead)
              /\ Len(s) > 0 /\ Young(s[Len(s)]) => d < Len(s)
<1> DEFINE y == YoungOf(s)
           a == Append(y, SampleNow(ahead))
<1>1. PICK d \in 0..Len(s) :
         /\ y \in Seq(Samples) /\ Len(y) = Len(s) - d
         /\ \A i \in 1..(Len(s) - d) : y[i] = s[i + d] /\ Young(s[i + d])
         /\ Len(s) > 0 /\ Young(s[Len(s)]) => d < Len(s)
  BY YoungKept
<1>2. Recorded(ahead) = LastOf(a, MaxSamples)
  BY DEF Recorded, SampleNow
<1>3. Len(s) \in Nat /\ MaxSamples \in Nat /\ MaxSamples >= 2
  BY LenProperties, SamplesAssumption
<1> HIDE DEF y
<1>4. /\ a \in Seq(Samples) /\ Len(a) = Len(y) + 1
      /\ \A i \in 1..Len(y) : a[i] = y[i]
      /\ a[Len(y) + 1] = SampleNow(ahead)
  BY <1>1, SampleNowTyped, AppendProperties
<1> HIDE DEF a
<1>5. PICK e \in 0..Len(a) :
         /\ LastOf(a, MaxSamples) \in Seq(Samples)
         /\ Len(LastOf(a, MaxSamples)) = Len(a) - e
         /\ \A i \in 1..(Len(a) - e) : LastOf(a, MaxSamples)[i] = a[i + e]
         /\ Len(LastOf(a, MaxSamples)) = IF Len(a) > MaxSamples THEN MaxSamples ELSE Len(a)
  BY <1>3, <1>4, LastOfKeeps
<1> DEFINE n == Len(s) - (d + e)
<1>6. /\ d + e \in 0..Len(s)
      /\ Len(a) - e = n + 1 /\ Len(y) = n + e /\ n \in Nat /\ e \in Nat /\ d \in Nat
      /\ n + 1 <= MaxSamples
      /\ Len(s) > 0 /\ Young(s[Len(s)]) => d + e < Len(s)
  <2> DEFINE l == Len(s)
             k == Len(y)
             m == Len(a)
             r == Len(LastOf(a, MaxSamples))
  <2>1. /\ l \in Nat /\ d \in 0..l /\ k = l - d /\ m = k + 1
        /\ e \in 0..m /\ r = m - e /\ r = IF m > MaxSamples THEN MaxSamples ELSE m
        /\ l > 0 /\ Young(s[l]) => d < l
    BY <1>1, <1>3, <1>4, <1>5
  <2> HIDE DEF l, k, m, r
  <2>2. e \in Nat /\ d \in Nat /\ e <= k /\ r >= 1 /\ r <= MaxSamples
    BY <1>3, <2>1
  <2>3. l > 0 /\ Young(s[l]) => d + e < l
    <3>1. CASE m > MaxSamples
      BY <1>3, <2>1, <3>1
    <3>2. CASE ~(m > MaxSamples)
      <4>1. e = 0
        BY <2>1, <3>2
      <4> QED
        BY <2>1, <4>1
    <3> QED
      BY <3>1, <3>2
  <2>4. /\ d + e \in 0..l /\ m - e = (l - (d + e)) + 1 /\ k = (l - (d + e)) + e
        /\ l - (d + e) \in Nat /\ (l - (d + e)) + 1 <= MaxSamples
    BY <1>3, <2>1, <2>2
  <2> QED
    BY <2>2, <2>3, <2>4 DEF l, k, m
<1> HIDE DEF n
<1>7. ASSUME NEW i \in 1..n
      PROVE  Recorded(ahead)[i] = s[i + (d + e)] /\ Young(s[i + (d + e)])
  <2>1. i \in 1..(Len(a) - e) /\ i + e \in 1..Len(y) /\ i + e \in 1..(Len(s) - d)
    BY <1>1, <1>6
  <2>2. Recorded(ahead)[i] = a[i + e]
    BY <1>2, <1>5, <2>1
  <2>3. a[i + e] = y[i + e]
    BY <1>4, <2>1
  <2>4. y[i + e] = s[(i + e) + d] /\ Young(s[(i + e) + d])
    BY <1>1, <2>1
  <2>5. (i + e) + d = i + (d + e)
    BY <1>6
  <2> QED
    BY <2>2, <2>3, <2>4, <2>5
<1>8. Recorded(ahead)[n + 1] = SampleNow(ahead)
  <2>1. n + 1 \in 1..(Len(a) - e) /\ (n + 1) + e = Len(y) + 1
    BY <1>6
  <2> QED
    BY <1>2, <1>4, <1>5, <2>1
<1>9. Recorded(ahead) \in Seq(Samples) /\ Len(Recorded(ahead)) = n + 1
  BY <1>2, <1>5, <1>6
<1> QED
  <2>1. n = Len(s) - (d + e)
    BY DEF n
  <2> QED
    BY <1>6, <1>7, <1>8, <1>9, <2>1

\* A number no smaller than any other of its set.
Largest(v, S) == v \in S /\ \A w \in S : w <= v

\* Of finitely many naturals one is the largest.
LEMMA LargestExists ==
    ASSUME NEW S \in SUBSET Nat, IsFiniteSet(S), S # {}
    PROVE  \E v : Largest(v, S)
<1> DEFINE Bad(n) == \E R \in SUBSET Nat : /\ IsFiniteSet(R) /\ R # {}
                                           /\ Cardinality(R) = n
                                           /\ ~ \E v : Largest(v, R)
           T == {n \in Nat : Bad(n)}
<1>1. T = {}
  <2> SUFFICES ASSUME T # {} PROVE FALSE
    OBVIOUS
  <2>1. PICK m \in T : \A n \in T : m <= n
    BY LeastNatural
  <2>2. PICK R \in SUBSET Nat : /\ IsFiniteSet(R) /\ R # {} /\ Cardinality(R) = m
                                /\ ~ \E v : Largest(v, R)
    BY <2>1
  <2>3. PICK x : x \in R
    BY <2>2
  <2> DEFINE Q == R \ {x}
  <2>4. IsFiniteSet(Q) /\ Cardinality(Q) = m - 1 /\ Q \in SUBSET Nat
    BY <2>2, <2>3, FS_RemoveElement
  <2>5. m \in Nat /\ m - 1 \in Nat
    BY <2>1, <2>4, FS_CardinalityType
  <2>6. m - 1 \notin T
    BY <2>1, <2>5
  <2>7. Q = {} \/ \E v : Largest(v, Q)
    BY <2>4, <2>5, <2>6
  <2>8. x \in Nat
    BY <2>2, <2>3
  <2>9. CASE Q = {}
    <3>1. R = {x}
      BY <2>3, <2>9
    <3> QED
      BY <2>2, <2>8, <3>1 DEF Largest
  <2>10. ASSUME NEW v, Largest(v, Q) PROVE FALSE
    <3>1. v \in Nat /\ v \in R /\ \A w \in R : w = x \/ w <= v
      BY <2>4, <2>10 DEF Largest
    <3>2. CASE x <= v
      BY <2>2, <3>1, <3>2 DEF Largest
    <3>3. CASE v <= x
      <4>1. \A w \in R : w <= x
        BY <2>2, <2>8, <3>1, <3>3
      <4> QED
        BY <2>2, <2>3, <4>1 DEF Largest
    <3> QED
      BY <2>8, <3>1, <3>2, <3>3
  <2> QED
    BY <2>7, <2>9, <2>10
<1>2. Cardinality(S) \in Nat
  BY FS_CardinalityType
<1> QED
  BY <1>1, <1>2

\* The time of a group is known, and no known one of its partitions exceeds it.
LEMMA GroupSecondsIs ==
    ASSUME NEW values \in SUBSET (Nat \cup {NoTime}), IsFiniteSet(values)
    PROVE  /\ GroupSeconds(values) \in Nat
           /\ \A w \in values \ {NoTime} : w <= GroupSeconds(values)
<1> DEFINE known == (values \cup {0}) \ {NoTime}
<1>1. 0 \in Nat /\ 0 # NoTime
  BY DEF NoTime
<1>2. known \in SUBSET Nat /\ known # {}
  BY <1>1
<1>3. IsFiniteSet(known)
  BY FS_AddElement, FS_RemoveElement
<1>4. \E v \in known : \A w \in known : w <= v
  BY <1>2, <1>3, LargestExists DEF Largest
<1>5. GroupSeconds(values) \in known /\ \A w \in known : w <= GroupSeconds(values)
  BY <1>4 DEF GroupSeconds
<1> QED
  BY <1>2, <1>5

LEMMA Times ==
    ASSUME NEW x \in Nat, NEW y \in Nat, x <= y, NEW z \in Nat
    PROVE  /\ z * x \in Nat /\ z * y \in Nat /\ z * x <= z * y
           /\ z * (x + 1) = z * x + z
<1>1. y - x \in Nat /\ z * (y - x) \in Nat
  OBVIOUS
<1>2. z * y = z * x + z * (y - x)
  OBVIOUS
<1>3. z * x \in Nat /\ z * y \in Nat /\ z * (x + 1) = z * x + z
  OBVIOUS
<1> QED
  BY <1>1, <1>2, <1>3

\* A quotient is the last number whose product does not exceed the dividend.
LEMMA QuotientIs ==
    ASSUME NEW a \in Nat, NEW b \in Nat \ {0}
    PROVE  /\ a \div b \in Nat
           /\ (a \div b) * b <= a
           /\ ((a \div b) + 1) * b > a
OBVIOUS

\* Products keep the order of their second factors, whatever the signs of those.
LEMMA TimesInt ==
    ASSUME NEW z \in Nat, NEW x \in Int, NEW y \in Int, x <= y
    PROVE  z * x \in Int /\ z * y \in Int /\ z * x <= z * y
<1>1. y - x \in Nat /\ z * (y - x) \in Nat
  OBVIOUS
<1>2. z * y = z * x + z * (y - x)
  OBVIOUS
<1>3. z * x \in Int /\ z * y \in Int
  OBVIOUS
<1> QED
  BY <1>1, <1>2, <1>3

\* A quotient by a divisor that is known within bounds only.
LEMMA QuotientWithin ==
    ASSUME NEW a \in Nat, NEW b \in Nat \ {0},
           NEW least \in Int, NEW most \in Int, least <= b, b <= most
    PROVE  /\ (a \div b) * least <= a
           /\ ((a \div b) + 1) * most > a
<1> DEFINE q == a \div b
<1>1. q \in Nat /\ q * b <= a /\ (q + 1) * b > a
  BY QuotientIs
<1> HIDE DEF q
<1>2. q * least \in Int /\ q * b \in Int /\ q * least <= q * b
  BY <1>1, TimesInt
<1>3. (q + 1) * b \in Int /\ (q + 1) * most \in Int /\ (q + 1) * b <= (q + 1) * most
  <2>1. q + 1 \in Nat /\ b \in Int
    BY <1>1
  <2> QED
    BY <2>1, TimesInt
<1>4. q * least <= a /\ (q + 1) * most > a
  BY <1>1, <1>2, <1>3
<1> QED
  BY <1>4 DEF q

-----------------------------------------------------------------------------
(* The rate mode (RateLag): what the samples of the history stand for.       *)

\* A sample or a reading is as far behind the end as producers, fallbacks and
\* re-creations allow; producers had a delay more for a sample than its age.
AheadBounded ==
    /\ \A i \in DOMAIN history :
          history[i].age <= MaxAge =>
              history[i].ahead <= MaxShift + MaxRate * (history[i].age + MaxDelay)
    /\ ~reading.done => reading.ahead <= MaxShift + MaxRate * reading.age

\* What was produced since a watermark was read that no disturbance touched was
\* produced at the present rate, if the rate is that old.
ReadingExact ==
    ~reading.done /\ reading.clean /\ reading.age <= steadyFor =>
        reading.ahead = rate * reading.age

\* The sample was read after the last disturbance, by count or by time.
Settled(i) ==
    /\ history[i].age <= MaxAge
    /\ Len(history) - i < calmFor \/ history[i].age < quietFor

\* The same of a sample, whose watermark was read up to a delay before.
SettledSamplesClose ==
    \A i \in DOMAIN history :
        Settled(i) /\ history[i].age + MaxDelay <= steadyFor =>
            /\ history[i].ahead >= rate * history[i].age
            /\ history[i].ahead <= rate * (history[i].age + MaxDelay)

\* The time of a group is known and no less than that of its partition.
GroupTimeIsLargest ==
    published.seconds # NoTime =>
        published.group # NoTime /\ published.seconds <= published.group

\* What is published came from the samples that are there, the newest of them this
\* cycle's.
PublishedFromSamples ==
    published.lag > 0 =>
        /\ Len(history) >= 1
        /\ \A i \in DOMAIN history : history[i].age <= MaxAge
        /\ history[Len(history)].age = 0
        /\ interval <= MaxAge => Len(history) >= 2 /\ history[1].age >= interval
        /\ published.seconds = LagSeconds(published.lag, Estimate(published.lag, history),
                                          published.lossy)

RateInv ==
    /\ RateTypeOK
    /\ AheadBounded
    /\ ReadingExact
    /\ SettledSamplesClose
    /\ PublishedFromSamples
    /\ GroupTimeIsLargest

\* What the constants are, in numbers.
LEMMA Parameters ==
    /\ MaxAge \in Nat /\ MaxDelay \in Nat /\ Longest \in Nat /\ Longest = MaxAge + MaxDelay
    /\ MaxRate \in Nat /\ MinRate \in Nat /\ MaxShift \in Nat /\ MaxLag \in Nat
    /\ MaxSamples \in Nat /\ MaxSamples >= 2 /\ TooLong = MaxAge + 1
<1>1. /\ MaxAge \in Nat /\ MaxDelay \in Nat /\ MaxRate \in Nat /\ MinRate \in Nat
      /\ MaxShift \in Nat /\ MaxLag \in Nat
  BY TimesAssumption, BoundsAssumption
<1>2. Longest \in Nat /\ Longest = MaxAge + MaxDelay /\ TooLong = MaxAge + 1
  BY <1>1 DEF Longest, TooLong
<1> QED
  BY <1>1, <1>2, SamplesAssumption

\* The most that producers make while a sample is young.
LEMMA MostMade == MaxRate * Longest \in Nat
BY Parameters

\* What a sample holds, in numbers, and which numbers make one.
LEMMA SampleFields ==
    ASSUME NEW s \in Samples
    PROVE  /\ s.age \in Nat /\ s.age <= TooLong
           /\ s.ahead \in Int /\ s.ahead >= -MaxShift
           /\ s.ahead <= MaxShift + MaxRate * Longest
           /\ s = [age |-> s.age, ahead |-> s.ahead]
BY Parameters, MostMade DEF Samples, Aheads

LEMMA SampleOf ==
    ASSUME NEW a \in Nat, a <= MaxAge, NEW d \in Int, d >= -MaxShift,
           d <= MaxShift + MaxRate * Longest
    PROVE  [age |-> a, ahead |-> d] \in Samples
<1>1. a \in 0..TooLong /\ d \in Aheads
  BY Parameters, MostMade DEF Aheads
<1> QED
  BY <1>1 DEF Samples

LEMMA OldSample == [age |-> TooLong, ahead |-> 0] \in Samples
<1>1. TooLong \in 0..TooLong /\ 0 \in Aheads
  BY Parameters, MostMade DEF Aheads
<1> QED
  BY <1>1 DEF Samples

\* What an estimate is made of: messages made between the first sample and the last.
Made(s) == s[1].ahead - s[Len(s)].ahead
Time(s) == s[1].age - s[Len(s)].age

Tellable(s) ==
    Len(s) >= 2 /\ Time(s) > 0 /\ Made(s) > 0 /\ Made(s) >= MinRate * Time(s)

LEMMA EstimateIs ==
    ASSUME NEW s \in Seq(Samples), NEW lag \in Nat \ {0}, Tellable(s)
    PROVE  /\ Made(s) \in Nat \ {0} /\ Time(s) \in Nat \ {0}
           /\ lag * UnitMillis * Time(s) \in Nat
           /\ Estimate(lag, s) = (lag * UnitMillis * Time(s)) \div Made(s)
<1>1. Len(s) \in Nat /\ s[1] \in Samples /\ s[Len(s)] \in Samples
  BY LenProperties, ElementOfSeq DEF Tellable
<1>2. /\ s[1].age \in Nat /\ s[1].ahead \in Int
      /\ s[Len(s)].age \in Nat /\ s[Len(s)].ahead \in Int
  BY <1>1, SampleFields
<1>3. Made(s) \in Nat \ {0} /\ Time(s) \in Nat \ {0}
  <2>1. Made(s) \in Int /\ Time(s) \in Int
    BY <1>2 DEF Made, Time
  <2> QED
    BY <2>1 DEF Tellable
<1>4. Rate(s) = [num |-> Made(s), den |-> Time(s)]
  BY DEF Rate, Tellable, Made, Time
<1>5. Rate(s) # NoRate
  BY <1>3, <1>4 DEF NoRate
<1>6. Estimate(lag, s) = (lag * UnitMillis * Time(s)) \div Made(s)
  BY <1>4, <1>5 DEF Estimate, Seconds
<1>7. lag * UnitMillis * Time(s) \in Nat
  BY <1>3, UnitAssumption
<1> QED
  BY <1>3, <1>6, <1>7

LEMMA EstimateIsNot ==
    ASSUME NEW s, NEW lag, ~(lag > 0 /\ Tellable(s))
    PROVE  Estimate(lag, s) = NoTime
BY DEF Estimate, Rate, NoRate, Tellable, Made, Time

LEMMA EstimateTyped ==
    ASSUME NEW s \in Seq(Samples), NEW lag \in Nat
    PROVE  Estimate(lag, s) \in Nat \cup {NoTime}
<1>1. CASE lag > 0 /\ Tellable(s)
  <2>1. lag \in Nat \ {0}
    BY <1>1
  <2> DEFINE a == lag * UnitMillis * Time(s)
             b == Made(s)
  <2>2. a \in Nat /\ b \in Nat \ {0} /\ Estimate(lag, s) = a \div b
    BY <1>1, <2>1, EstimateIs
  <2> HIDE DEF a, b
  <2>3. a \div b \in Nat
    BY <2>2, QuotientIs
  <2> QED
    BY <2>2, <2>3
<1> QED
  BY <1>1, EstimateIsNot

\* What the types of the state say, in numbers.
Numbers ==
    /\ Len(history) \in Nat /\ DOMAIN history = 1..Len(history)
    /\ \A i \in DOMAIN history :
          /\ history[i] \in Samples
          /\ history[i].age \in Nat /\ history[i].ahead \in Int
    /\ reading.age \in Nat /\ reading.age <= MaxDelay
    /\ reading.ahead \in Int /\ reading.ahead >= -MaxShift
    /\ reading.clean \in BOOLEAN /\ reading.done \in BOOLEAN
    /\ rate \in Nat /\ rate <= MaxRate /\ steadyFor \in Nat /\ steadyFor <= Longest
    /\ calmFor \in Nat /\ quietFor \in Nat /\ interval \in Nat

LEMMA RateNumbers == ASSUME RateTypeOK PROVE Numbers
<1>1. /\ Len(history) \in Nat /\ DOMAIN history = 1..Len(history)
      /\ \A i \in 1..Len(history) : history[i] \in Samples
  BY LenProperties, ElementOfSeq DEF RateTypeOK
<1>2. \A i \in DOMAIN history : history[i].age \in Nat /\ history[i].ahead \in Int
  BY <1>1, SampleFields
<1>3. /\ reading.age \in Nat /\ reading.age <= MaxDelay
      /\ reading.ahead \in Int /\ reading.ahead >= -MaxShift
      /\ reading.clean \in BOOLEAN /\ reading.done \in BOOLEAN
  BY Parameters, MostMade DEF RateTypeOK, Aheads
<1>4. /\ rate \in Nat /\ rate <= MaxRate /\ steadyFor \in Nat /\ steadyFor <= Longest
      /\ calmFor \in Nat /\ quietFor \in Nat /\ interval \in Nat
  BY Parameters DEF RateTypeOK
<1> QED
  BY <1>1, <1>2, <1>3, <1>4 DEF Numbers

ReadingType == [age : 0..MaxDelay, ahead : Aheads, clean : BOOLEAN, done : BOOLEAN]

PublishedType == [lag : Nat, seconds : Nat \cup {NoTime}, group : Nat \cup {NoTime},
                  lossy : BOOLEAN]

LEMMA NothingTyped ==
    NoReading \in ReadingType /\ Nothing \in PublishedType /\ Nothing.lag = 0
    /\ Nothing.seconds = NoTime /\ NoReading.done
<1>1. 0 \in Aheads /\ 0 \in 0..MaxDelay
  BY Parameters, MostMade DEF Aheads
<1> QED
  BY <1>1 DEF NoReading, Nothing, ReadingType, PublishedType

LEMMA RateInvInit == RateInit => RateInv
<1> SUFFICES ASSUME RateInit PROVE RateInv
  OBVIOUS
<1>1. history \in Seq(Samples) /\ Len(history) = 0 /\ DOMAIN history = {}
  BY EmptySeq, LenProperties DEF RateInit
<1>2. RateTypeOK
  BY <1>1, Parameters, NothingTyped DEF RateInit, RateTypeOK, ReadingType, PublishedType
<1>3. AheadBounded /\ ReadingExact /\ SettledSamplesClose
  BY <1>1, NothingTyped DEF RateInit, AheadBounded, ReadingExact, SettledSamplesClose
<1>4. PublishedFromSamples /\ GroupTimeIsLargest
  BY NothingTyped DEF RateInit, PublishedFromSamples, GroupTimeIsLargest
<1> QED
  BY <1>2, <1>3, <1>4 DEF RateInv

\* Samples that are changed one by one keep their places.
LEMMA ChangedSamples ==
    ASSUME NEW s \in Seq(Samples), NEW t, t = [i \in DOMAIN s |-> t[i]],
           \A i \in DOMAIN s : t[i] \in Samples
    PROVE  t \in Seq(Samples) /\ Len(t) = Len(s) /\ DOMAIN t = DOMAIN s
<1>1. Len(s) \in Nat /\ DOMAIN s = 1..Len(s)
  BY LenProperties
<1>2. t \in [1..Len(s) -> Samples]
  BY <1>1
<1>3. t \in Seq(Samples)
  BY <1>1, <1>2, SeqDef
<1>4. DOMAIN t = 1..Len(t) /\ Len(t) \in Nat
  BY <1>3, LenProperties
<1>5. Len(t) = Len(s)
  BY <1>1, <1>2, <1>4
<1> QED
  BY <1>3, <1>5, <1>2, <1>1

\* One unit of time further on, with what producers may have made in it.
LEMMA OneTickOn ==
    ASSUME NEW a \in Nat, NEW d \in Int, NEW made \in Nat, made <= MaxRate,
           d <= MaxShift + MaxRate * a
    PROVE  /\ d + made <= MaxShift + MaxRate * (a + 1)
           /\ a + 1 <= Longest => d + made <= MaxShift + MaxRate * Longest
<1>1. MaxRate * a \in Nat /\ MaxRate * (a + 1) = MaxRate * a + MaxRate
  BY Parameters, Times
<1>2. d + made <= MaxShift + MaxRate * (a + 1)
  BY <1>1, Parameters
<1>3. ASSUME a + 1 <= Longest PROVE MaxRate * (a + 1) <= MaxRate * Longest
  <2>1. a + 1 \in Nat
    OBVIOUS
  <2> QED
    BY <1>3, <2>1, Parameters, Times
<1>4. MaxRate * (a + 1) \in Nat
  BY <1>1, Parameters
<1> QED
  BY <1>2, <1>3, <1>4, Parameters, MostMade

\* Time passes: every age and every distance grows.
LEMMA TickKeepsRateInv == ASSUME RateInv, Tick PROVE RateInv'
<1>0. Numbers
  BY RateNumbers DEF RateInv
<1> USE Parameters, <1>0 DEF RateInv, Numbers
<1>1. PICK made \in 0..MaxRate :
         /\ history' = [i \in DOMAIN history |-> Older(history[i], made)]
         /\ reading' = IF reading.done THEN reading
                       ELSE [reading EXCEPT !.age = @ + 1, !.ahead = @ + made]
         /\ rate' = made
         /\ steadyFor' = IF made = rate THEN AtMost(steadyFor + 1, Longest)
                                        ELSE AtMost(1, Longest)
  BY DEF Tick
<1>2. /\ ~reading.done => reading.age < MaxDelay
      /\ quietFor' = AtMost(quietFor + 1, TooLong) /\ published' = Nothing
      /\ UNCHANGED <<calmFor, interval>>
  BY DEF Tick
<1>3. made \in Nat /\ made <= MaxRate
  OBVIOUS
<1>4. ASSUME NEW i \in DOMAIN history
      PROVE  /\ history'[i] \in Samples
             /\ history[i].age <= MaxAge - 1 =>
                   /\ history'[i].age = history[i].age + 1
                   /\ history'[i].ahead = history[i].ahead + made
                   /\ history'[i].ahead <= MaxShift + MaxRate * (history'[i].age + MaxDelay)
             /\ history[i].age > MaxAge - 1 => history'[i].age = TooLong
  <2> DEFINE a == history[i].age
             d == history[i].ahead
  <2>1. history'[i] = Older(history[i], made)
    BY <1>1
  <2>2. a \in Nat /\ d \in Int /\ d >= -MaxShift
    BY SampleFields
  <2>3. CASE a <= MaxAge - 1
    <3>1. history'[i] = [age |-> a + 1, ahead |-> d + made]
      BY <2>1, <2>2, <2>3 DEF Older
    <3>2. d <= MaxShift + MaxRate * (a + MaxDelay)
      BY <2>2, <2>3 DEF AheadBounded
    <3> HIDE <1>0 DEF a, d
    <3> DEFINE b == a + MaxDelay
    <3>3. b \in Nat /\ b + 1 <= Longest /\ b + 1 = a + 1 + MaxDelay /\ a + 1 \in Nat
          /\ a + 1 <= MaxAge
      BY <2>2, <2>3
    <3>4. d <= MaxShift + MaxRate * b
      BY <3>2
    <3> HIDE DEF b
    <3>5. /\ d + made <= MaxShift + MaxRate * (b + 1)
          /\ d + made <= MaxShift + MaxRate * Longest
      BY <1>3, <2>2, <3>3, <3>4, OneTickOn
    <3>6. d + made \in Int /\ d + made >= -MaxShift
      BY <1>3, <2>2
    <3>7. history'[i] \in Samples
      BY <3>1, <3>3, <3>5, <3>6, SampleOf
    <3>8. d + made <= MaxShift + MaxRate * (a + 1 + MaxDelay)
      BY <3>3, <3>5
    <3> QED
      BY <2>2, <2>3, <3>1, <3>7, <3>8 DEF a, d
  <2>4. CASE a > MaxAge - 1
    <3>1. history'[i] = [age |-> TooLong, ahead |-> 0]
      BY <2>1, <2>2, <2>4 DEF Older
    <3>2. [age |-> TooLong, ahead |-> 0] \in Samples
      BY OldSample
    <3> HIDE <1>0 DEF a, d
    <3>3. history'[i] \in Samples /\ history'[i].age = TooLong /\ ~(a <= MaxAge - 1)
      BY <2>2, <2>4, <3>1, <3>2
    <3> QED
      BY <2>2, <2>4, <3>3 DEF a
  <2> QED
    BY <2>2, <2>3, <2>4
<1>5. history' \in Seq(Samples) /\ Len(history') = Len(history) /\ DOMAIN history' = DOMAIN history
  <2>1. history' = [i \in DOMAIN history |-> history'[i]]
    BY <1>1
  <2> QED
    BY <1>4, <2>1, ChangedSamples DEF RateTypeOK
<1>6. Ordered(history')
  <2> SUFFICES ASSUME NEW i \in DOMAIN history, NEW j \in DOMAIN history, i < j
               PROVE  history'[j].age <= history'[i].age
    BY <1>5 DEF Ordered
  <2>1. history[j].age <= history[i].age
    BY DEF RateTypeOK
  <2>2. history[i].age \in Nat /\ history[j].age \in Nat
    OBVIOUS
  <2>3. history'[j].age \in Nat /\ history'[j].age <= TooLong
    BY <1>4, SampleFields
  <2>4. CASE history[i].age > MaxAge - 1
    BY <1>4, <2>3, <2>4
  <2>5. CASE history[i].age <= MaxAge - 1
    <3>1. history[j].age <= MaxAge - 1
      BY <2>1, <2>2, <2>5
    <3> QED
      BY <1>4, <2>1, <2>2, <2>5, <3>1
  <2> QED
    BY <2>2, <2>4, <2>5
<1>7. reading.done => reading' = reading
  BY <1>1
<1>8. ASSUME ~reading.done
      PROVE  /\ reading'.age = reading.age + 1 /\ reading'.ahead = reading.ahead + made
             /\ reading'.clean = reading.clean /\ ~reading'.done
             /\ reading' \in ReadingType
             /\ reading'.ahead <= MaxShift + MaxRate * reading'.age
  <2> DEFINE a == reading.age
             d == reading.ahead
  <2>1. /\ reading = [age |-> a, ahead |-> d, clean |-> reading.clean, done |-> reading.done]
        /\ a \in Nat /\ a < MaxDelay /\ d \in Int /\ d >= -MaxShift
        /\ reading.clean \in BOOLEAN /\ reading.done \in BOOLEAN
    BY <1>2, <1>8 DEF RateTypeOK
  <2>2. d <= MaxShift + MaxRate * a
    BY <1>8 DEF AheadBounded
  <2>3. reading' = [reading EXCEPT !.age = a + 1, !.ahead = d + made]
    BY <1>1, <1>8
  <2> HIDE <1>0 DEF a, d
  <2>4. a + 1 <= Longest /\ a + 1 \in 0..MaxDelay
    BY <2>1
  <2>5. /\ d + made <= MaxShift + MaxRate * (a + 1)
        /\ d + made <= MaxShift + MaxRate * Longest
    BY <1>3, <2>1, <2>2, <2>4, OneTickOn
  <2>6. d + made \in Aheads
    BY <1>3, <2>1, <2>5, MostMade DEF Aheads
  <2>7. reading' = [age |-> a + 1, ahead |-> d + made, clean |-> reading.clean,
                    done |-> reading.done]
    BY <2>1, <2>3
  <2>8. reading' \in ReadingType
    BY <2>1, <2>4, <2>6, <2>7 DEF ReadingType
  <2> QED
    BY <1>8, <2>5, <2>7, <2>8 DEF a, d
<1>9. reading' \in ReadingType
  BY <1>7, <1>8, <1>1 DEF RateTypeOK, ReadingType
<1>10. RateTypeOK'
  <2>1. rate' \in 0..MaxRate
    BY <1>1
  <2>2. steadyFor' \in 0..Longest
    <3>1. steadyFor' = AtMost(steadyFor + 1, Longest) \/ steadyFor' = AtMost(1, Longest)
      BY <1>1
    <3>2. steadyFor \in Nat
      OBVIOUS
    <3> HIDE <1>0
    <3> QED
      BY <3>1, <3>2 DEF AtMost
  <2>3. quietFor' \in 0..TooLong
    <3>1. quietFor \in Nat
      OBVIOUS
    <3> HIDE <1>0
    <3> QED
      BY <1>2, <3>1 DEF AtMost
  <2> QED
    BY <1>2, <1>5, <1>6, <1>9, <2>1, <2>2, <2>3, NothingTyped
    DEF RateTypeOK, Ordered, ReadingType, PublishedType
<1>11. AheadBounded'
  <2>1. ASSUME NEW i \in DOMAIN history, history'[i].age <= MaxAge
        PROVE  history'[i].ahead <= MaxShift + MaxRate * (history'[i].age + MaxDelay)
    <3>1. history[i].age > MaxAge - 1 => history'[i].age = MaxAge + 1
      BY <1>4
    <3>2. history[i].age <= MaxAge - 1
      BY <2>1, <3>1
    <3> QED
      BY <1>4, <3>2
  <2>2. ~reading'.done => ~reading.done
    BY <1>1
  <2> QED
    BY <1>5, <1>8, <2>1, <2>2 DEF AheadBounded
<1>12. ASSUME NEW a \in Nat, a + 1 <= Longest, a + 1 <= steadyFor', made = rate
       PROVE  a <= steadyFor
  <2>1. steadyFor' = AtMost(steadyFor + 1, Longest) /\ steadyFor \in Nat
    BY <1>1, <1>12
  <2> HIDE <1>0
  <2> QED
    BY <1>12, <2>1 DEF AtMost
<1>13. made # rate => steadyFor' <= 1 /\ steadyFor' \in Nat
  <2> SUFFICES ASSUME made # rate PROVE steadyFor' <= 1 /\ steadyFor' \in Nat
    OBVIOUS
  <2>1. steadyFor' = AtMost(1, Longest)
    BY <1>1
  <2> HIDE <1>0
  <2> QED
    BY <2>1 DEF AtMost
<1>14. ReadingExact'
  <2> SUFFICES ASSUME ~reading'.done, reading'.clean, reading'.age <= steadyFor'
               PROVE  reading'.ahead = rate' * reading'.age
    BY DEF ReadingExact
  <2>1. ~reading.done
    BY <1>1
  <2>2. /\ reading'.age = reading.age + 1 /\ reading'.ahead = reading.ahead + made
        /\ reading.clean
    BY <1>8, <2>1
  <2>3. reading.age + 1 <= Longest
    BY <1>2, <2>1
  <2>4. CASE made = rate
    <3>1. reading.age <= steadyFor
      BY <1>12, <2>2, <2>3, <2>4
    <3>2. reading.ahead = rate * reading.age
      BY <2>1, <2>2, <3>1 DEF ReadingExact
    <3>3. rate * (reading.age + 1) = rate * reading.age + rate
      BY Times
    <3> QED
      BY <1>1, <2>2, <2>4, <3>2, <3>3
  <2>5. CASE made # rate
    <3>1. reading.age = 0
      BY <1>13, <2>2, <2>5
    <3>2. reading.ahead = rate * 0 /\ rate \in Nat
      BY <2>1, <2>2, <3>1 DEF ReadingExact
    <3> HIDE <1>0
    <3>3. reading'.age = 1 /\ reading'.ahead = made
      BY <1>3, <2>2, <3>1, <3>2
    <3> QED
      BY <1>1, <1>3, <3>3
  <2> QED
    BY <2>4, <2>5
<1>15. SettledSamplesClose'
  <2> SUFFICES ASSUME NEW i \in DOMAIN history, Settled(i)',
                      history'[i].age + MaxDelay <= steadyFor'
               PROVE  /\ history'[i].ahead >= rate' * history'[i].age
                      /\ history'[i].ahead <= rate' * (history'[i].age + MaxDelay)
    BY <1>5 DEF SettledSamplesClose
  <2>1. history[i].age <= MaxAge - 1
    <3>1. history'[i].age <= MaxAge
      BY DEF Settled
    <3>2. history[i].age > MaxAge - 1 => history'[i].age = MaxAge + 1
      BY <1>4
    <3>3. history[i].age \in Nat
      OBVIOUS
    <3> HIDE <1>0
    <3> QED
      BY <3>1, <3>2, <3>3
  <2>2. /\ history'[i].age = history[i].age + 1
        /\ history'[i].ahead = history[i].ahead + made
    BY <1>4, <2>1
  <2>3. Settled(i)
    <3>1. /\ history[i].age \in Nat /\ quietFor \in Nat /\ calmFor' = calmFor
          /\ Len(history') = Len(history)
          /\ Len(history') - i < calmFor' \/ history'[i].age < quietFor'
      BY <1>2, <1>5 DEF Settled
    <3>2. quietFor' = AtMost(quietFor + 1, TooLong)
      BY <1>2
    <3> HIDE <1>0
    <3>3. history'[i].age < quietFor' => history[i].age < quietFor
      BY <2>2, <3>1, <3>2 DEF AtMost
    <3>4. history[i].age <= MaxAge
      BY <2>1, <3>1
    <3> QED
      BY <3>1, <3>3, <3>4 DEF Settled
  <2> DEFINE a == history[i].age
             d == history[i].ahead
             b == a + MaxDelay
  <2>4. a \in Nat /\ d \in Int /\ b \in Nat /\ b + 1 <= Longest /\ b + 1 <= steadyFor'
        /\ b = a + MaxDelay /\ a <= MaxAge - 1
    <3>1. a \in Nat /\ d \in Int /\ a <= MaxAge - 1 /\ a + 1 + MaxDelay <= steadyFor'
      BY <2>1, <2>2
    <3> HIDE <1>0 DEF a, d
    <3> QED
      BY <3>1
  <2>5. b <= steadyFor => d >= rate * a /\ d <= rate * b
    BY <2>3 DEF SettledSamplesClose
  <2>6. rate \in Nat
    OBVIOUS
  <2> HIDE <1>0 DEF a, d, b
  <2>7. d + made >= made * (a + 1) /\ d + made <= made * (b + 1)
    <3>1. CASE made = rate
      <4>1. b <= steadyFor
        BY <1>12, <2>4, <3>1
      <4>2. made * (a + 1) = made * a + made /\ made * (b + 1) = made * b + made
            /\ made * a \in Nat /\ made * b \in Nat
        BY <1>3, <2>4, Times
      <4> QED
        BY <1>3, <2>4, <2>5, <3>1, <4>1, <4>2
    <3>2. CASE made # rate
      <4>1. a = 0 /\ b = 0
        BY <1>13, <2>4, <3>2
      <4>2. b <= steadyFor
        BY <1>0, <4>1 DEF Numbers
      <4>3. d = 0
        BY <2>4, <2>5, <2>6, <4>1, <4>2
      <4> QED
        BY <1>3, <4>1, <4>3
    <3> QED
      BY <3>1, <3>2
  <2>8. b + 1 = (a + 1) + MaxDelay
    BY <2>4
  <2> QED
    BY <1>1, <2>2, <2>7, <2>8 DEF a, d
<1>16. PublishedFromSamples' /\ GroupTimeIsLargest'
  BY <1>2, NothingTyped DEF PublishedFromSamples, GroupTimeIsLargest
<1> QED
  BY <1>10, <1>11, <1>14, <1>15, <1>16

\* A re-creation is a disturbance: no sample is settled after it, and the reading is
\* not clean.
LEMMA RecreateKeepsRateInv == ASSUME RateInv, Recreate PROVE RateInv'
<1>0. Numbers
  BY RateNumbers DEF RateInv
<1> USE Parameters, <1>0 DEF RateInv, Numbers
<1>1. PICK back \in 1..MaxShift :
         /\ \A i \in DOMAIN history : history[i].ahead - back >= -MaxShift
         /\ reading.ahead - back >= -MaxShift
         /\ history' = [i \in DOMAIN history |->
                            IF history[i].age > MaxAge THEN history[i]
                            ELSE [history[i] EXCEPT !.ahead = @ - back]]
         /\ reading' = IF reading.done THEN reading
                       ELSE [reading EXCEPT !.ahead = @ - back, !.clean = FALSE]
  BY DEF Recreate
<1>2. /\ calmFor' = 0 /\ quietFor' = 0 /\ published' = Nothing
      /\ UNCHANGED <<producerVars, interval>>
  BY DEF Recreate
<1>3. back \in Nat
  OBVIOUS
<1>4. ASSUME NEW i \in DOMAIN history
      PROVE  /\ history'[i] \in Samples
             /\ history'[i].age = history[i].age
             /\ history'[i].ahead <= history[i].ahead
  <2> DEFINE a == history[i].age
             d == history[i].ahead
  <2>1. /\ history[i] = [age |-> a, ahead |-> d] /\ history[i] \in Samples
        /\ a \in Nat /\ d \in Int /\ d <= MaxShift + MaxRate * Longest
    BY SampleFields
  <2>2. d - back >= -MaxShift
    BY <1>1
  <2>3. CASE a > MaxAge
    <3>1. history'[i] = history[i]
      BY <1>1, <2>3
    <3> QED
      BY <2>1, <3>1
  <2>4. CASE ~(a > MaxAge)
    <3>1. history'[i] = [history[i] EXCEPT !.ahead = d - back]
      BY <1>1, <2>4
    <3> HIDE DEF a, d
    <3>2. history'[i] = [age |-> a, ahead |-> d - back]
      BY <2>1, <3>1
    <3>3. d - back \in Int /\ d - back <= d /\ d - back <= MaxShift + MaxRate * Longest /\ a <= MaxAge
      BY <1>3, <2>1, <2>4, MostMade
    <3>4. history'[i] \in Samples
      BY <2>1, <2>2, <3>2, <3>3, SampleOf
    <3> QED
      BY <2>1, <3>2, <3>3, <3>4
  <2> QED
    BY <2>3, <2>4
<1>5. history' \in Seq(Samples) /\ Len(history') = Len(history) /\ DOMAIN history' = DOMAIN history
  <2>1. history' = [i \in DOMAIN history |-> history'[i]]
    BY <1>1
  <2> QED
    BY <1>4, <2>1, ChangedSamples DEF RateTypeOK
<1>6. /\ reading' \in ReadingType
      /\ reading'.age = reading.age
      /\ reading'.done <=> reading.done
      /\ ~reading.done => reading'.ahead <= reading.ahead /\ ~reading'.clean
  <2>1. reading \in ReadingType
    BY DEF RateTypeOK, ReadingType
  <2>2. CASE reading.done
    <3>1. reading' = reading
      BY <1>1, <2>2
    <3> QED
      BY <2>1, <2>2, <3>1
  <2>3. CASE ~reading.done
    <3> DEFINE x == reading.ahead - back
    <3>1. reading' = [reading EXCEPT !.ahead = x, !.clean = FALSE]
      BY <1>1, <2>3
    <3>2. x \in Aheads /\ x <= reading.ahead
      <4>1. reading.ahead \in Aheads /\ x >= -MaxShift
        BY <1>1, <2>1 DEF ReadingType
      <4> HIDE <1>0
      <4> QED
        BY <1>3, <4>1, MostMade DEF Aheads
    <3> HIDE <1>0 DEF x
    <3>3. /\ reading' \in ReadingType /\ reading'.age = reading.age
          /\ reading'.ahead = x /\ ~reading'.clean
          /\ reading'.done <=> reading.done
      BY <2>1, <3>1, <3>2 DEF ReadingType
    <3> QED
      BY <3>2, <3>3
  <2> QED
    BY <2>2, <2>3
<1>7. RateTypeOK'
  <2>1. Ordered(history')
    BY <1>4, <1>5 DEF RateTypeOK, Ordered
  <2>2. /\ rate' = rate /\ steadyFor' = steadyFor /\ interval' = interval
        /\ calmFor' \in 0..MaxSamples /\ quietFor' \in 0..TooLong
    BY <1>2 DEF producerVars
  <2> QED
    BY <1>2, <1>5, <1>6, <2>1, <2>2, NothingTyped
    DEF RateTypeOK, Ordered, ReadingType, PublishedType
<1>8. ASSUME NEW x \in Int, NEW y \in Int, NEW z \in Int, x <= y, y <= z PROVE x <= z
  BY <1>8
<1>9. AheadBounded'
  <2>1. ASSUME NEW i \in DOMAIN history, history'[i].age <= MaxAge
        PROVE  history'[i].ahead <= MaxShift + MaxRate * (history'[i].age + MaxDelay)
    <3> DEFINE z == MaxShift + MaxRate * (history[i].age + MaxDelay)
    <3>1. history[i].ahead <= z
      BY <1>4, <2>1 DEF AheadBounded
    <3>2. z \in Int
      <4> DEFINE w == history[i].age + MaxDelay
      <4>0. history[i].age \in Nat
        OBVIOUS
      <4> HIDE <1>0
      <4>1. w \in Nat
        BY <4>0
      <4> HIDE DEF w
      <4>2. MaxRate * w \in Nat
        BY <4>1, Times
      <4> QED
        BY <4>2 DEF w
    <3>3. history'[i].ahead \in Int /\ history[i].ahead \in Int
      BY <1>4, SampleFields
    <3>4. history'[i].age = history[i].age /\ history'[i].ahead <= history[i].ahead
      BY <1>4
    <3>5. z = MaxShift + MaxRate * (history'[i].age + MaxDelay)
      BY <3>4
    <3> HIDE DEF z
    <3> QED
      BY <1>8, <3>1, <3>2, <3>3, <3>4, <3>5
  <2>2. ASSUME ~reading'.done
        PROVE  reading'.ahead <= MaxShift + MaxRate * reading'.age
    <3> DEFINE z == MaxShift + MaxRate * reading.age
    <3>1. reading.ahead <= z /\ ~reading.done
      BY <1>6, <2>2 DEF AheadBounded
    <3>2. z \in Int
      BY Times
    <3>3. reading'.ahead \in Int /\ reading.ahead \in Int /\ reading'.ahead <= reading.ahead
      BY <1>6, <3>1, MostMade DEF ReadingType, Aheads
    <3>4. z = MaxShift + MaxRate * reading'.age
      BY <1>6
    <3> HIDE DEF z
    <3> QED
      BY <1>8, <3>1, <3>2, <3>3, <3>4
  <2> QED
    BY <1>5, <2>1, <2>2 DEF AheadBounded
<1>10. ReadingExact'
  BY <1>6 DEF ReadingExact
<1>11. SettledSamplesClose'
  <2> SUFFICES ASSUME NEW i \in DOMAIN history PROVE ~Settled(i)'
    BY <1>5 DEF SettledSamplesClose
  <2>1. Len(history') - i >= 0 /\ history'[i].age >= 0
    BY <1>4, <1>5
  <2>2. Len(history') - i \in Int /\ history'[i].age \in Int
    BY <1>4, <1>5
  <2> QED
    BY <1>2, <2>1, <2>2 DEF Settled
<1>12. PublishedFromSamples' /\ GroupTimeIsLargest'
  BY <1>2, NothingTyped DEF PublishedFromSamples, GroupTimeIsLargest
<1> QED
  BY <1>7, <1>9, <1>10, <1>11, <1>12

\* A new reading is as far behind as it fell short; a dropped one is forgotten.
LEMMA ReadingKeepsRateInv == ASSUME RateInv, ReadWatermarks \/ DropCycle PROVE RateInv'
<1>0. Numbers
  BY RateNumbers DEF RateInv
<1> USE Parameters DEF RateInv
<1>1. UNCHANGED <<history, producerVars, calmVars, interval>>
  BY DEF ReadWatermarks, DropCycle
<1>2. published' = published \/ published' = Nothing
  BY DEF ReadWatermarks, DropCycle
<1>3. /\ reading' \in ReadingType
      /\ \/ reading'.done
         \/ /\ reading'.age = 0 /\ reading'.ahead \in 0..MaxShift
            /\ reading'.clean => reading'.ahead = 0
  <2>1. CASE ReadWatermarks
    <3>1. PICK short \in 0..MaxShift :
             reading' = [age |-> 0, ahead |-> short, clean |-> short = 0, done |-> FALSE]
      BY <2>1 DEF ReadWatermarks
    <3>2. short \in Aheads /\ 0 \in 0..MaxDelay
      BY MostMade DEF Aheads
    <3> QED
      BY <3>1, <3>2 DEF ReadingType
  <2>2. CASE DropCycle
    BY <2>2, NothingTyped DEF DropCycle
  <2> QED
    BY <2>1, <2>2
<1>4. RateTypeOK'
  BY <1>1, <1>2, <1>3, NothingTyped
  DEF producerVars, calmVars, RateTypeOK, ReadingType, PublishedType
<1>5. AheadBounded' /\ ReadingExact'
  <2>1. MaxRate * 0 = 0 /\ rate * 0 = 0
    BY <1>0 DEF Numbers
  <2>2. ~reading'.done => reading'.ahead <= MaxShift + MaxRate * reading'.age
    BY <1>3, <2>1
  <2>3. ~reading'.done /\ reading'.clean => reading'.ahead = rate' * reading'.age
    BY <1>1, <1>3, <2>1 DEF producerVars
  <2> QED
    BY <1>1, <2>2, <2>3 DEF AheadBounded, ReadingExact
<1>6. SettledSamplesClose'
  BY <1>1 DEF producerVars, calmVars, SettledSamplesClose, Settled
<1>7. PublishedFromSamples' /\ GroupTimeIsLargest'
  BY <1>1, <1>2, NothingTyped DEF PublishedFromSamples, GroupTimeIsLargest
<1> QED
  BY <1>4, <1>5, <1>6, <1>7

\* The record a cycle publishes, from samples and other partitions as they come.
LEMMA PublishIs ==
    ASSUME NEW gap \in Int, NEW lossy \in BOOLEAN,
           NEW s \in Seq(Samples), NEW others \in OthersSeconds,
           Publish(gap, s, lossy, others)
    PROVE  /\ published' \in PublishedType
           /\ published'.seconds = LagSeconds(published'.lag, Estimate(published'.lag, s),
                                              published'.lossy)
           /\ GroupTimeIsLargest'
<1> DEFINE lag     == Lag(gap, 0)
           seconds == LagSeconds(lag, Estimate(lag, s), lossy)
           group   == GroupSeconds({seconds} \cup others)
<1>1. published' = [lag |-> lag, seconds |-> seconds, group |-> group, lossy |-> lossy]
  BY DEF Publish
<1>2. lag \in Nat
  BY DEF Lag, AtLeastZero
<1> HIDE DEF lag
<1>3. seconds \in Nat \cup {NoTime}
  BY <1>2, EstimateTyped DEF LagSeconds
<1>4. published'.seconds = LagSeconds(published'.lag, Estimate(published'.lag, s),
                                      published'.lossy)
  BY <1>1
<1> HIDE DEF seconds
<1>5. group \in Nat /\ (seconds # NoTime => seconds <= group)
  <2>1. IsFiniteSet(others) /\ others \subseteq Nat \cup {NoTime}
    BY OthersAssumption
  <2>2. IsFiniteSet({seconds} \cup others)
    <3>1. {seconds} \cup others = others \cup {seconds}
      OBVIOUS
    <3> QED
      BY <2>1, <3>1, FS_AddElement
  <2> QED
    BY <1>3, <2>1, <2>2, GroupSecondsIs
<1> HIDE DEF group
<1>6. group # NoTime
  BY <1>5 DEF NoTime
<1>7. published' \in PublishedType
  BY <1>1, <1>2, <1>3, <1>5 DEF PublishedType
<1>8. GroupTimeIsLargest'
  BY <1>1, <1>5, <1>6 DEF GroupTimeIsLargest
<1> QED
  BY <1>4, <1>7, <1>8

\* A recording keeps the samples in place at the newer end, and what is published comes
\* from them.
LEMMA CycleKeepsRateInv == ASSUME RateInv, Cycle PROVE RateInv'
<1>0. Numbers
  BY RateNumbers DEF RateInv
<1> USE Parameters, <1>0 DEF RateInv, Numbers
<1>1. PICK gap \in -1..MaxLag, lossy \in BOOLEAN, others \in OthersSeconds :
         Publish(gap, Recorded(reading.ahead), lossy, others)
  BY DEF Cycle
<1>2. /\ ~reading.done
      /\ history' = Recorded(reading.ahead)
      /\ reading' = NoReading
      /\ calmFor' = IF reading.clean THEN AtMost(calmFor + 1, MaxSamples) ELSE 0
      /\ quietFor' = IF reading.clean THEN quietFor ELSE 0
      /\ interval' = NewestAge
      /\ rate' = rate /\ steadyFor' = steadyFor
  BY DEF Cycle, producerVars
<1>3. history \in Seq(Samples) /\ Ordered(history) /\ reading.ahead \in Aheads
  BY DEF RateTypeOK, Ordered
<1>4. PICK d \in 0..Len(history) :
         /\ history' \in Seq(Samples)
         /\ Len(history') = Len(history) - d + 1
         /\ Len(history') <= MaxSamples
         /\ \A i \in 1..(Len(history) - d) :
               history'[i] = history[i + d] /\ Young(history[i + d])
         /\ history'[Len(history) - d + 1] = SampleNow(reading.ahead)
         /\ Len(history) > 0 /\ Young(history[Len(history)]) => d < Len(history)
  BY <1>2, <1>3, RecordedIs
<1> DEFINE n == Len(history) - d
<1>5. /\ n \in Nat /\ d \in Nat /\ n + d = Len(history)
      /\ Len(history') = n + 1 /\ DOMAIN history' = 1..(n + 1)
  <2>1. Len(history) \in Nat /\ d \in 0..Len(history)
    OBVIOUS
  <2>2. n \in Nat /\ d \in Nat /\ n + d = Len(history)
    BY <2>1
  <2>3. Len(history') = n + 1
    BY <1>4
  <2>4. DOMAIN history' = 1..Len(history')
    BY <1>4, LenProperties
  <2> QED
    BY <2>2, <2>3, <2>4
<1>6. /\ \A i \in 1..n : i + d \in DOMAIN history /\ history'[i] = history[i + d]
                         /\ history[i + d].age <= MaxAge
      /\ history'[n + 1].age = 0 /\ history'[n + 1].ahead = reading.ahead
  <2>1. ASSUME NEW i \in 1..n
        PROVE  i + d \in DOMAIN history /\ history'[i] = history[i + d]
               /\ history[i + d].age <= MaxAge
    <3>1. history'[i] = history[i + d] /\ Young(history[i + d])
      BY <1>4
    <3>2. DOMAIN history = 1..Len(history)
      OBVIOUS
    <3> HIDE <1>0 DEF n
    <3>3. i + d \in 1..Len(history)
      BY <1>5
    <3> QED
      BY <3>1, <3>2, <3>3 DEF Young
  <2>2. history'[n + 1] = SampleNow(reading.ahead)
    BY <1>4
  <2> HIDE DEF n
  <2> QED
    BY <2>1, <2>2 DEF SampleNow
<1>7. Len(history) > 0 /\ history[Len(history)].age <= MaxAge => n > 0
  BY <1>4, <1>5 DEF Young
<1> HIDE DEF n
<1>8. Ordered(history')
  <2> SUFFICES ASSUME NEW i \in 1..(n + 1), NEW j \in 1..(n + 1), i < j
               PROVE  history'[j].age <= history'[i].age
    BY <1>5 DEF Ordered
  <2>1. i \in 1..n /\ i + d < j + d
    BY <1>5
  <2>2. history'[i].age \in Nat
    BY <1>6, <2>1
  <2>3. CASE j = n + 1
    BY <1>6, <2>2, <2>3
  <2>4. CASE j \in 1..n
    BY <1>3, <1>6, <2>1, <2>4 DEF Ordered
  <2> QED
    BY <1>5, <2>3, <2>4
<1>9. /\ published' \in PublishedType
      /\ published'.seconds = LagSeconds(published'.lag, Estimate(published'.lag, history'),
                                         published'.lossy)
      /\ GroupTimeIsLargest'
  <2> DEFINE samples == Recorded(reading.ahead)
  <2>1. samples \in Seq(Samples) /\ samples = history' /\ Publish(gap, samples, lossy, others)
    BY <1>1, <1>2, <1>4
  <2> HIDE DEF samples
  <2>2. gap \in Int
    OBVIOUS
  <2>3. /\ published' \in PublishedType
        /\ published'.seconds = LagSeconds(published'.lag, Estimate(published'.lag, samples),
                                           published'.lossy)
        /\ GroupTimeIsLargest'
    BY <2>1, <2>2, PublishIs
  <2> QED
    BY <2>1, <2>3
<1>10. RateTypeOK'
  <2>1. /\ rate' = rate /\ steadyFor' = steadyFor /\ quietFor' \in 0..TooLong
        /\ reading' \in ReadingType
    <3>1. quietFor \in 0..TooLong
      BY DEF RateTypeOK
    <3> QED
      BY <1>2, <3>1, NothingTyped
  <2>2. calmFor' \in 0..MaxSamples
    <3>1. calmFor' = 0 \/ calmFor' = AtMost(calmFor + 1, MaxSamples)
      BY <1>2
    <3>2. calmFor \in Nat
      OBVIOUS
    <3> HIDE <1>0
    <3> QED
      BY <3>1, <3>2 DEF AtMost
  <2>3. interval' \in 0..TooLong
    <3>1. CASE history = <<>>
      BY <1>2, <3>1 DEF NewestAge
    <3>2. CASE history # <<>>
      <4>1. Len(history) \in DOMAIN history
        BY <1>3, <3>2, EmptySeq, LenProperties
      <4>2. history[Len(history)].age \in Nat /\ history[Len(history)].age <= TooLong
        BY <4>1, SampleFields
      <4> QED
        BY <1>2, <3>2, <4>2 DEF NewestAge
    <3> QED
      BY <3>1, <3>2
  <2> QED
    BY <1>4, <1>8, <1>9, <2>1, <2>2, <2>3
    DEF RateTypeOK, Ordered, ReadingType, PublishedType
<1>11. AheadBounded'
  <2>1. ASSUME NEW i \in 1..(n + 1)
        PROVE  history'[i].ahead <= MaxShift + MaxRate * (history'[i].age + MaxDelay)
    <3>1. CASE i = n + 1
      <4>1. reading.ahead <= MaxShift + MaxRate * reading.age
        BY <1>2 DEF AheadBounded
      <4>2. /\ MaxRate * reading.age \in Nat /\ MaxRate * MaxDelay \in Nat
            /\ MaxRate * reading.age <= MaxRate * MaxDelay
        BY Times
      <4>3. reading.ahead <= MaxShift + MaxRate * MaxDelay
        <5> DEFINE x == MaxRate * reading.age
                   y == MaxRate * MaxDelay
        <5>1. /\ reading.ahead \in Int /\ MaxShift \in Nat /\ x \in Nat /\ y \in Nat
              /\ x <= y /\ reading.ahead <= MaxShift + x
          BY <4>1, <4>2
        <5> HIDE <1>0 DEF x, y
        <5>2. reading.ahead <= MaxShift + y
          BY <5>1
        <5> QED
          BY <5>2 DEF y
      <4> QED
        BY <1>6, <3>1, <4>3
    <3>2. CASE i \in 1..n
      BY <1>6, <3>2 DEF AheadBounded
    <3> QED
      BY <1>5, <3>1, <3>2
  <2>2. reading'.done
    BY <1>2, NothingTyped
  <2> QED
    BY <1>5, <2>1, <2>2 DEF AheadBounded
<1>12. ReadingExact'
  BY <1>2, NothingTyped DEF ReadingExact
<1>13. SettledSamplesClose'
  <2> SUFFICES ASSUME NEW i \in 1..(n + 1), Settled(i)',
                      history'[i].age + MaxDelay <= steadyFor
               PROVE  /\ history'[i].ahead >= rate * history'[i].age
                      /\ history'[i].ahead <= rate * (history'[i].age + MaxDelay)
    BY <1>2, <1>5 DEF SettledSamplesClose
  <2>1. history'[i].age \in Nat /\ Len(history') - i \in Nat
    <3>1. history'[i] \in Samples
      <4>1. history' \in Seq(Samples) /\ i \in 1..Len(history')
        BY <1>4, <1>5
      <4> QED
        BY <4>1, ElementOfSeq, Zenon
    <3>2. history'[i].age \in Nat
      BY <3>1, SampleFields
    <3> HIDE <1>0
    <3>3. Len(history') - i \in Nat
      BY <1>5
    <3> QED
      BY <3>2, <3>3
  <2>2. reading.clean
    <3>1. ~reading.clean => calmFor' = 0 /\ quietFor' = 0
      BY <1>2
    <3>2. Len(history') - i < calmFor' \/ history'[i].age < quietFor'
      BY DEF Settled
    <3> HIDE <1>0
    <3> QED
      BY <2>1, <3>1, <3>2
  <2>3. CASE i = n + 1
    <3>1. MaxDelay <= steadyFor
      BY <1>6, <2>3
    <3>2. reading.age <= steadyFor
      BY <3>1
    <3>3. reading.ahead = rate * reading.age
      BY <1>2, <2>2, <3>2 DEF ReadingExact
    <3>4. /\ rate * reading.age \in Nat /\ rate * MaxDelay \in Nat
          /\ rate * reading.age <= rate * MaxDelay /\ rate * 0 = 0
      <4>1. reading.age \in Nat /\ reading.age <= MaxDelay /\ rate \in Nat
        OBVIOUS
      <4> HIDE <1>0
      <4> QED
        BY <4>1, Times
    <3> QED
      BY <1>6, <2>3, <3>3, <3>4
  <2>4. CASE i \in 1..n
    <3>1. /\ i + d \in DOMAIN history /\ history'[i] = history[i + d]
          /\ history[i + d].age <= MaxAge
      BY <1>6, <2>4
    <3>2. Len(history) - (i + d) < calmFor \/ history[i + d].age < quietFor
      <4>1. Len(history') - i < calmFor' \/ history'[i].age < quietFor'
        BY DEF Settled
      <4>2. calmFor' <= calmFor + 1 /\ calmFor' \in Int /\ quietFor' = quietFor
        BY <1>2, <2>2 DEF AtMost
      <4> HIDE <1>0
      <4>3. Len(history') - i = (Len(history) - (i + d)) + 1
        <5>1. /\ n \in Nat /\ d \in Nat /\ Len(history) = n + d /\ Len(history') = n + 1
              /\ i \in Nat
          BY <1>5, <2>4
        <5> QED
          BY <5>1
      <4>4. Len(history) - (i + d) \in Int
        BY <1>5, <2>4
      <4>5. calmFor \in Nat
        BY <1>0
      <4>6. Len(history') - i < calmFor' => Len(history) - (i + d) < calmFor
        <5> DEFINE k == Len(history) - (i + d)
                   m == Len(history') - i
        <5>1. k \in Int /\ m = k + 1
          BY <4>3, <4>4
        <5> HIDE DEF k, m
        <5>2. m < calmFor' => k < calmFor
          BY <4>2, <4>5, <5>1
        <5> QED
          BY <5>2 DEF k, m
      <4> QED
        BY <3>1, <4>1, <4>2, <4>6
    <3>3. Settled(i + d)
      BY <3>1, <3>2 DEF Settled
    <3> QED
      BY <3>1, <3>3 DEF SettledSamplesClose
  <2>5. i = n + 1 \/ i \in 1..n
    <3> HIDE <1>0
    <3> QED
      BY <1>5
  <2> QED
    BY <2>3, <2>4, <2>5, Zenon
<1>14. PublishedFromSamples'
  <2>1. ASSUME NEW i \in DOMAIN history' PROVE history'[i].age <= MaxAge
    <3>1. CASE i = n + 1
      BY <1>6, <3>1
    <3>2. CASE i \in 1..n
      BY <1>6, <3>2
    <3> QED
      BY <1>5, <3>1, <3>2
  <2>2. ASSUME interval' <= MaxAge
        PROVE  Len(history') >= 2 /\ history'[1].age >= interval'
    <3>1. history # <<>> /\ interval' = history[Len(history)].age
      BY <1>2, <2>2 DEF NewestAge
    <3>2. n > 0
      BY <1>3, <1>7, <2>2, <3>1, EmptySeq
    <3>3. history'[n] = history[Len(history)] /\ history'[n].age \in Nat
      <4> HIDE <1>0
      <4>1. n \in 1..n /\ n + d = Len(history)
        BY <1>5, <3>2
      <4>2. n + d \in DOMAIN history /\ history'[n] = history[n + d]
        BY <1>6, <4>1
      <4>3. history[n + d].age \in Nat
        BY <1>0, <4>2
      <4> QED
        BY <4>1, <4>2, <4>3
    <3>4. 1 = n \/ history'[n].age <= history'[1].age
      <4>1. 1 \in DOMAIN history' /\ n \in DOMAIN history' /\ (1 = n \/ 1 < n)
        BY <1>5, <3>2
      <4> QED
        BY <1>8, <4>1, Zenon DEF Ordered
    <3> QED
      BY <1>5, <3>1, <3>2, <3>3, <3>4
  <2>3. Len(history') >= 1 /\ history'[Len(history')].age = 0
    BY <1>5, <1>6
  <2> HIDE <1>0
  <2> QED
    BY <1>9, <2>1, <2>2, <2>3 DEF PublishedFromSamples
<1> QED
  BY <1>9, <1>10, <1>11, <1>12, <1>13, <1>14

LEMMA CycleWithoutKeepsRateInv == ASSUME RateInv, CycleWithout PROVE RateInv'
<1> USE Parameters
<1>1. history' \in Seq(Samples) /\ Len(history') = 0 /\ DOMAIN history' = {}
  BY EmptySeq, LenProperties DEF CycleWithout
<1>2. PICK others \in OthersSeconds :
         published' = [Nothing EXCEPT !.seconds = 0, !.group = GroupSeconds({0} \cup others)]
  BY DEF CycleWithout
<1> DEFINE group == GroupSeconds({0} \cup others)
<1>3. group \in Nat /\ 0 <= group
  <2>1. IsFiniteSet(others) /\ others \subseteq Nat \cup {NoTime}
    BY OthersAssumption
  <2>2. IsFiniteSet({0} \cup others)
    <3>1. {0} \cup others = others \cup {0}
      OBVIOUS
    <3> QED
      BY <2>1, <3>1, FS_AddElement
  <2> QED
    BY <2>1, <2>2, GroupSecondsIs
<1>4. published' = [lag |-> 0, seconds |-> 0, group |-> group, lossy |-> FALSE]
  BY <1>2 DEF Nothing
<1> HIDE DEF group
<1>5. RateTypeOK'
  <2>1. published' \in PublishedType
    BY <1>3, <1>4 DEF PublishedType
  <2>2. /\ reading \in ReadingType /\ rate \in 0..MaxRate /\ steadyFor \in 0..Longest
        /\ reading' = reading /\ rate' = rate /\ steadyFor' = steadyFor
    BY DEF CycleWithout, RateInv, RateTypeOK, producerVars, ReadingType
  <2>3. calmFor' \in 0..MaxSamples /\ quietFor' \in 0..TooLong /\ interval' \in 0..TooLong
    BY DEF CycleWithout, TooLong
  <2>4. Len(history') <= MaxSamples
    BY <1>1
  <2>5. reading' \in ReadingType /\ rate' \in 0..MaxRate /\ steadyFor' \in 0..Longest
    BY <2>2
  <2> QED
    BY <1>1, <2>1, <2>3, <2>4, <2>5 DEF RateTypeOK, PublishedType, ReadingType
<1>6. GroupTimeIsLargest'
  <2>1. group # NoTime
    BY <1>3 DEF NoTime
  <2> QED
    BY <1>3, <1>4, <2>1 DEF GroupTimeIsLargest
<1>7. reading' = reading /\ rate' = rate /\ steadyFor' = steadyFor
  BY DEF CycleWithout, producerVars
<1>8. AheadBounded'
  BY <1>1, <1>7 DEF RateInv, AheadBounded
<1>9. ReadingExact'
  BY <1>7 DEF RateInv, ReadingExact
<1>10. SettledSamplesClose'
  BY <1>1 DEF SettledSamplesClose
<1>11. PublishedFromSamples'
  <2>1. ~(published'.lag > 0)
    BY <1>4
  <2> QED
    BY <2>1 DEF PublishedFromSamples
<1> QED
  BY <1>5, <1>6, <1>8, <1>9, <1>10, <1>11 DEF RateInv

LEMMA RateInvNext == RateInv /\ [RateNext]_rateVars => RateInv'
<1> SUFFICES ASSUME RateInv, [RateNext]_rateVars PROVE RateInv'
  OBVIOUS
<1>1. CASE UNCHANGED rateVars
  BY <1>1 DEF rateVars, producerVars, calmVars, RateInv, RateTypeOK, AheadBounded,
              ReadingExact, SettledSamplesClose, Settled, PublishedFromSamples,
              GroupTimeIsLargest
<1> QED
  BY <1>1, TickKeepsRateInv, RecreateKeepsRateInv, ReadingKeepsRateInv, CycleKeepsRateInv,
     CycleWithoutKeepsRateInv DEF RateNext

LEMMA RateInvAlways == RateSpec => []RateInv
BY RateInvInit, RateInvNext, PTL DEF RateSpec

\* The history of a partition is bounded by MaxSamples and ordered by age, whatever the
\* producers, fallback watermarks, re-creations and delays do, and no published time is
\* negative.
THEOREM RateTypeCorrect == RateSpec => []RateTypeOK
<1>1. RateInv => RateTypeOK
  BY DEF RateInv
<1> QED
  BY <1>1, RateInvAlways, PTL

\* A rate that keeps to its floor over the last interval, with a delay taken off, keeps
\* to it over any longer time.
LEMMA FloorKept ==
    ASSUME NEW r \in Nat, NEW f \in Nat, NEW d \in Nat, NEW i \in Nat, NEW t \in Nat,
           d < i, i <= t, r > 0, r * (i - d) >= f * i
    PROVE  r * (t - d) > 0 /\ r * (t - d) >= f * t
<1>1. f <= r
  <2> SUFFICES ASSUME r + 1 <= f PROVE FALSE
    OBVIOUS
  <2>1. i * (r + 1) <= i * f /\ i * (r + 1) = i * r + i /\ i * r \in Nat /\ i * f \in Nat
    <3>1. r + 1 \in Nat
      OBVIOUS
    <3> QED
      BY <3>1, Times
  <2>2. r * (i - d) <= r * i
    <3>1. i - d \in Nat /\ i - d <= i
      OBVIOUS
    <3> QED
      BY <3>1, Times
  <2>3. r * i = i * r /\ f * i = i * f /\ r * (i - d) \in Int
    OBVIOUS
  <2>4. r * (i - d) >= f * i
    OBVIOUS
  <2> DEFINE x == r * (i - d)
             y == i * r
             z == i * f
  <2>5. x \in Int /\ y \in Nat /\ z \in Nat /\ y + i <= z /\ x <= y /\ x >= z /\ i > 0
    BY <2>1, <2>2, <2>3, <2>4
  <2> HIDE DEF x, y, z
  <2> QED
    BY <2>5
<1>2. (t - i) * f <= (t - i) * r
  <2>1. t - i \in Nat
    OBVIOUS
  <2> QED
    BY <1>1, <2>1, Times
<1>3. /\ r * (t - d) = r * (i - d) + (t - i) * r
      /\ f * t = f * i + (t - i) * f
  OBVIOUS
<1>4. r * (t - d) >= f * t
  <2> DEFINE a == r * (i - d)
             b == f * i
             x == (t - i) * r
             y == (t - i) * f
  <2>1. a \in Int /\ b \in Int /\ x \in Int /\ y \in Int /\ a >= b /\ x >= y
    BY <1>2
  <2> HIDE DEF a, b, x, y
  <2>2. a + x >= b + y
    BY <2>1
  <2> QED
    BY <1>3, <2>2 DEF a, b, x, y
<1>5. r * (t - d) > 0
  <2>1. 1 <= t - d /\ t - d \in Nat
    OBVIOUS
  <2>2. r * 1 <= r * (t - d) /\ r * 1 = r
    BY <2>1, Times
  <2> QED
    BY <2>2
<1> QED
  BY <1>4, <1>5

\* Undisturbed, the oldest sample and the newest hold what was produced at the present
\* rate since their watermarks were read.
LEMMA WindowOfSteadyRate ==
    ASSUME RateInv, published.lag > 0, Undisturbed, steadyFor >= Longest
    PROVE  /\ history \in Seq(Samples) /\ Len(history) \in Nat /\ Len(history) >= 1
           /\ Span \in Nat /\ Time(history) = Span /\ rate \in Nat
           /\ Made(history) \in Int
           /\ rate * (Span - MaxDelay) <= Made(history)
           /\ Made(history) <= rate * (Span + MaxDelay)
<1> USE Parameters
<1>0. Numbers
  BY RateNumbers DEF RateInv
<1>1. /\ history \in Seq(Samples) /\ Len(history) \in Nat /\ Len(history) <= MaxSamples
      /\ DOMAIN history = 1..Len(history) /\ rate \in Nat /\ calmFor \in Nat
      /\ quietFor \in Nat /\ steadyFor \in Nat
  BY <1>0 DEF RateInv, RateTypeOK, Numbers
<1>2. /\ Len(history) >= 1
      /\ \A i \in DOMAIN history : history[i].age <= MaxAge
      /\ history[Len(history)].age = 0
  BY DEF RateInv, PublishedFromSamples
<1>3. ASSUME NEW i \in DOMAIN history
      PROVE  /\ history[i].age \in Nat /\ history[i].ahead \in Int
             /\ history[i].ahead >= rate * history[i].age
             /\ history[i].ahead <= rate * (history[i].age + MaxDelay)
  <2>1. history[i].age \in Nat /\ history[i].ahead \in Int /\ history[i].age <= MaxAge
    BY <1>0, <1>2 DEF Numbers
  <2>2. i \in Int /\ i >= 1
    BY <1>1
  <2>3. Settled(i)
    BY <1>1, <2>1, <2>2 DEF Settled, Undisturbed
  <2>4. history[i].age + MaxDelay <= steadyFor
    BY <1>1, <2>1
  <2> QED
    BY <2>1, <2>3, <2>4 DEF RateInv, SettledSamplesClose
<1> DEFINE L    == Len(history)
           t    == history[1].age
           made == history[1].ahead
           left == history[L].ahead
<1>4. 1 \in DOMAIN history /\ L \in DOMAIN history
  BY <1>1, <1>2
<1>5. /\ t \in Nat /\ made \in Int /\ left \in Int
      /\ made >= rate * t /\ made <= rate * (t + MaxDelay)
      /\ left >= rate * 0 /\ left <= rate * (0 + MaxDelay)
  BY <1>2, <1>3, <1>4
<1>6. Time(history) = t - 0 /\ Made(history) = made - left /\ Span = t
  BY <1>2 DEF Time, Made, Span
<1> HIDE DEF t, made, left
<1>7. /\ rate * (t - MaxDelay) = rate * t - rate * MaxDelay
      /\ rate * t \in Nat /\ rate * MaxDelay \in Nat /\ rate * 0 = 0
      /\ rate * (0 + MaxDelay) = rate * MaxDelay /\ rate * (t + MaxDelay) \in Nat
  BY <1>1, <1>5
<1>8. made - left \in Int /\ rate * (t - MaxDelay) <= made - left
      /\ made - left <= rate * (t + MaxDelay)
  <2> DEFINE x == rate * t
             y == rate * MaxDelay
             z == rate * (t + MaxDelay)
  <2>1. /\ x \in Nat /\ y \in Nat /\ z \in Nat /\ made \in Int /\ left \in Int
        /\ made >= x /\ made <= z /\ left >= 0 /\ left <= y
        /\ rate * (t - MaxDelay) = x - y
    BY <1>5, <1>7
  <2> HIDE DEF x, y, z
  <2>2. made - left \in Int /\ x - y <= made - left /\ made - left <= z
    BY <2>1
  <2> QED
    BY <2>1, <2>2 DEF z
<1> QED
  BY <1>1, <1>2, <1>5, <1>6, <1>8

\* With steady producers and no disturbance, the time lag that is published is the lag
\* divided by the true rate, cut off at the millisecond, as if the window of the samples
\* were off by no more than one delay between the reading of a watermark and its stamp
\* (offset_collector.rs:350, rate_sampler.rs:82); and it is known whenever two recordings
\* lie further apart than that delay and within the maximum age, and the rate keeps to
\* its floor.
THEOREM SteadyRatesAreClose == RateSpec => []SteadyRateIsClose
<1>1. ASSUME RateInv PROVE SteadyRateIsClose
  <2> SUFFICES ASSUME published.lag > 0, Undisturbed, steadyFor >= Longest
               PROVE  /\ /\ rate > 0 /\ rate * (interval - MaxDelay) >= MinRate * interval
                         /\ interval > MaxDelay /\ interval <= MaxAge
                         => published.seconds # NoTime /\ IsClose
                      /\ \/ published.seconds = NoTime
                         \/ published.lossy /\ published.seconds = 0
                         \/ IsClose
    BY DEF SteadyRateIsClose
  <2> DEFINE lag  == published.lag
             made == Made(history)
  <2>1. /\ history \in Seq(Samples) /\ Len(history) \in Nat /\ Len(history) >= 1
        /\ Span \in Nat /\ Time(history) = Span /\ rate \in Nat /\ made \in Int
        /\ rate * (Span - MaxDelay) <= made /\ made <= rate * (Span + MaxDelay)
    BY <1>1, WindowOfSteadyRate
  <2>2. /\ lag \in Nat \ {0} /\ interval \in Nat
    BY <1>1 DEF RateInv, RateTypeOK
  <2>3. /\ interval <= MaxAge => Len(history) >= 2 /\ Span >= interval
        /\ published.seconds = LagSeconds(lag, Estimate(lag, history), published.lossy)
    BY <1>1 DEF RateInv, PublishedFromSamples, Span
  <2>4. ASSUME Tellable(history)
        PROVE  published.seconds # NoTime /\ IsClose
    <3> DEFINE a == lag * UnitMillis * Span
               q == a \div made
               least == rate * (Span - MaxDelay)
               most  == rate * (Span + MaxDelay)
    <3>1. made \in Nat \ {0} /\ a \in Nat /\ Estimate(lag, history) = q
      BY <2>1, <2>2, <2>4, EstimateIs
    <3>2. least \in Int /\ most \in Int /\ least <= made /\ made <= most
      BY <2>1, Parameters
    <3> HIDE DEF a, made, least, most
    <3>3. q \in Nat /\ q * least <= a /\ (q + 1) * most > a
      BY <3>1, <3>2, QuotientIs, QuotientWithin
    <3> HIDE DEF q
    <3>4. published.seconds = q /\ q # NoTime
      BY <2>2, <2>3, <3>1, <3>3 DEF LagSeconds, NoTime
    <3>5. q * rate * (Span - MaxDelay) = q * least
          /\ (q + 1) * rate * (Span + MaxDelay) = (q + 1) * most
      BY <2>1, <3>3, Parameters DEF least, most
    <3> QED
      BY <3>3, <3>4, <3>5 DEF IsClose, a
  <2>5. ASSUME rate > 0, rate * (interval - MaxDelay) >= MinRate * interval,
               interval > MaxDelay, interval <= MaxAge
        PROVE  Tellable(history)
    <3>1. rate * (Span - MaxDelay) > 0 /\ rate * (Span - MaxDelay) >= MinRate * Span
      BY <2>1, <2>2, <2>3, <2>5, Parameters, FloorKept
    <3>2. Len(history) >= 2 /\ Span > 0
      BY <2>1, <2>2, <2>3, <2>5, Parameters
    <3>3. /\ rate * (Span - MaxDelay) \in Int /\ MinRate * Span \in Int
      BY <2>1, Parameters
    <3> DEFINE least == rate * (Span - MaxDelay)
               floor == MinRate * Span
    <3> HIDE DEF least, floor, made
    <3>4. made > 0 /\ made >= floor
      <4>1. least > 0 /\ least >= floor /\ least \in Int /\ floor \in Int /\ made \in Int
            /\ least <= made
        BY <2>1, <3>1, <3>3 DEF least, floor
      <4> QED
        BY <4>1
    <3> QED
      BY <2>1, <3>2, <3>4 DEF Tellable, floor, made
  <2>6. CASE Tellable(history)
    BY <2>4, <2>6
  <2>7. CASE ~Tellable(history)
    <3>1. Estimate(lag, history) = NoTime
      BY <2>7, EstimateIsNot
    <3>2. published.seconds = NoTime \/ (published.lossy /\ published.seconds = 0)
      BY <2>2, <2>3, <3>1 DEF LagSeconds
    <3> QED
      BY <2>5, <2>7, <3>2
  <2> QED
    BY <2>6, <2>7
<1> QED
  BY <1>1, RateInvAlways, PTL

\* A partition with a lag of a message or more is at 0 only if the group lost messages,
\* or if there is an estimate by which producers wrote what it lags in less than a
\* millisecond (timestamp_sampler.rs:223); the group's maximum is 0 only if every
\* partition is at 0 or unknown, not only if every one is at 0 (lag_calculator.rs:132).
THEOREM TimeLagIsExplained == RateSpec => []NoTimeLagForAReason
<1>1. ASSUME RateInv PROVE NoTimeLagForAReason
  <2>1. /\ published.lag \in Nat /\ published.seconds \in Nat \cup {NoTime}
        /\ published.group \in Nat \cup {NoTime}
    BY <1>1 DEF RateInv, RateTypeOK
  <2>2. ASSUME published.lag > 0, published.seconds = 0, ~published.lossy
        PROVE  /\ Len(history) >= 2 /\ Span > 0
               /\ published.lag * UnitMillis * Span
                     < 2 * MaxShift + MaxRate * (Span + MaxDelay)
    <3> DEFINE lag  == published.lag
               made == Made(history)
               a    == lag * UnitMillis * Span
               most == MaxRate * (Span + MaxDelay)
    <3>1. /\ lag \in Nat \ {0} /\ history \in Seq(Samples)
      BY <1>1, <2>1, <2>2 DEF RateInv, RateTypeOK
    <3>2. /\ Len(history) >= 1 /\ history[Len(history)].age = 0
          /\ \A i \in DOMAIN history : history[i].age <= MaxAge
          /\ 0 = LagSeconds(lag, Estimate(lag, history), published.lossy)
      BY <1>1, <2>2 DEF RateInv, PublishedFromSamples
    <3>3. Tellable(history) /\ Estimate(lag, history) = 0
      <4>1. Estimate(lag, history) = 0
        BY <2>2, <3>1, <3>2 DEF LagSeconds, NoTime
      <4> QED
        BY <4>1, EstimateIsNot DEF NoTime
    <3>4. Numbers
      BY <1>1, RateNumbers DEF RateInv
    <3>5. 1 \in DOMAIN history /\ Len(history) \in DOMAIN history
      BY <3>2, <3>4 DEF Numbers
    <3>6. /\ history[1].age \in Nat /\ history[1].ahead \in Int
          /\ history[Len(history)].ahead \in Int
          /\ history[Len(history)].ahead >= -MaxShift
          /\ history[1].ahead <= MaxShift + MaxRate * (history[1].age + MaxDelay)
      <4>1. history[1] \in Samples /\ history[Len(history)] \in Samples
        BY <3>4, <3>5 DEF Numbers
      <4>2. history[1].ahead <= MaxShift + MaxRate * (history[1].age + MaxDelay)
        BY <1>1, <3>2, <3>5 DEF RateInv, AheadBounded
      <4> QED
        BY <4>1, <4>2, SampleFields
    <3>7. Span \in Nat /\ Time(history) = Span /\ Span > 0 /\ Len(history) >= 2
      BY <3>2, <3>3, <3>6 DEF Time, Span, Tellable
    <3>8. most \in Nat /\ made \in Int /\ made <= 2 * MaxShift + most
      <4> DEFINE x == history[1].ahead
                 y == history[Len(history)].ahead
      <4>1. x <= MaxShift + most /\ y >= -MaxShift /\ x \in Int /\ y \in Int
        BY <3>6 DEF Span
      <4>2. made = x - y
        BY DEF Made
      <4>3. most \in Nat /\ MaxShift \in Nat
        <5>1. Span + MaxDelay \in Nat /\ MaxRate \in Nat /\ MaxShift \in Nat
          BY <3>7, Parameters
        <5> DEFINE w == Span + MaxDelay
        <5> HIDE DEF w
        <5>2. MaxRate * w \in Nat
          BY <5>1 DEF w
        <5> QED
          BY <5>1, <5>2 DEF w
      <4> HIDE DEF x, y, most, made
      <4> QED
        BY <4>1, <4>2, <4>3
    <3>9. /\ made \in Nat \ {0} /\ a \in Nat /\ a \div made = 0
      BY <3>1, <3>3, <3>7, EstimateIs
    <3> HIDE DEF a, made, most
    <3>10. a < made
      BY <3>9, QuotientIs
    <3>11. a < 2 * MaxShift + most
      BY <3>8, <3>9, <3>10, Parameters
    <3> QED
      BY <3>7, <3>11 DEF a, most
  <2>3. ASSUME published.group = 0 PROVE published.seconds \in {0, NoTime}
    BY <1>1, <2>1, <2>3 DEF RateInv, GroupTimeIsLargest
  <2> QED
    BY <2>2, <2>3 DEF NoTimeLagForAReason
<1> QED
  BY <1>1, RateInvAlways, PTL

\* The slowest partition decides the time lag of a group: none of its known times gets
\* lost in the maximum, whatever others are unknown.
THEOREM SlowestPartitionCounts == RateSpec => []GroupTimeIsLargest
<1>1. RateInv => GroupTimeIsLargest
  BY DEF RateInv
<1> QED
  BY <1>1, RateInvAlways, PTL
=============================================================================
