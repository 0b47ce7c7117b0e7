----------------------- MODULE LeaderElection_proofs -----------------------
(***************************************************************************)
(* No instance goes on believing that it leads without being about to      *)
(* notice, for any number of instances and any number of faults.           *)
(***************************************************************************)
EXTENDS LeaderElection, TLAPS

(***************************************************************************)
(* The argument: a lease task that runs and says "held" holds the lease; a *)
(* value stored by an election task that has seen the last notification is *)
(* the value in the channel; and where no lease task can change the        *)
(* channel any more, the flag is down or the election task is about to end.*)
(***************************************************************************)
LeaseTaskIsRight(i) == held[i] /\ task[i] = "running" => holder = i

SeenIsCurrent(i) ==
    /\ election[i] = "setting" /\ ~unseen[i] => (isLeader[i] <=> held[i])
    /\ election[i] = "waiting" /\ ~unseen[i] => (flag[i] <=> held[i])

FlagDownOutsideElection(i) == election[i] \in {"starting", "done"} => ~flag[i]

LeaseTaskOfElection(i) ==
    /\ task[i] = "absent" => ~held[i] /\ election[i] \in {"starting", "done"}
    /\ election[i] = "starting" => task[i] = "absent"
    /\ election[i] = "done" => task[i] # "running"

ElectionInv(i) ==
    /\ LeaseTaskIsRight(i)
    /\ SeenIsCurrent(i)
    /\ FlagDownOutsideElection(i)
    /\ LeaseTaskOfElection(i)

IInv == TypeOK /\ \A i \in Instances : ElectionInv(i)

\* No step changes a type.
LEMMA TypeStep == TypeOK /\ [Next]_vars => TypeOK'
<1> SUFFICES ASSUME TypeOK, [Next]_vars PROVE TypeOK'
  OBVIOUS
<1> USE FaultsAssumption
    DEF TypeOK, leaseVars, electionVars, NoFault, Fault, Goes
<1>1. ASSUME NEW i \in Instances, ElectionStep(i) PROVE TypeOK'
  <2>1. CASE StartWatching(i) \/ Changed(i) \/ LeaveLoop(i)
    BY <2>1 DEF StartWatching, Changed, LeaveLoop
  <2>2. CASE ReadChannel(i)
    BY <2>2 DEF ReadChannel
  <2>3. CASE SetState(i) \/ JoinLeaseTask(i)
    BY <2>3 DEF SetState, JoinLeaseTask
  <2>4. QED
    BY <1>1, <2>1, <2>2, <2>3 DEF ElectionStep
<1>2. ASSUME NEW i \in Instances, LeaseStep(i) PROVE TypeOK'
  <2>1. CASE Acquire(i)
    BY <2>1 DEF Acquire
  <2>2. CASE Release(i) \/ Expire(i)
    BY <2>2 DEF Release, Expire
  <2>3. QED
    BY <1>2, <2>1, <2>2 DEF LeaseStep
<1>3. ASSUME NEW i \in Instances, Stop(i) PROVE TypeOK'
  BY <1>3 DEF Stop
<1>4. ASSUME NEW i \in Instances, Exit(i) PROVE TypeOK'
  BY <1>4 DEF Exit, ProcessGone
<1>5. ASSUME NEW i \in Instances, Disturbance(i) PROVE TypeOK'
  <2>1. CASE LoseLease(i)
    BY <2>1 DEF LoseLease
  <2>2. CASE TaskDies(i)
    BY <2>2 DEF TaskDies
  <2>3. CASE Restart(i)
    BY <2>3 DEF Restart
  <2>4. CASE StartFails(i)
    BY <2>4 DEF StartFails
  <2>5. CASE Crash(i)
    BY <2>5 DEF Crash, ProcessGone
  <2>6. QED
    BY <1>5, <2>1, <2>2, <2>3, <2>4, <2>5 DEF Disturbance
<1>6. CASE UNCHANGED vars
  BY <1>6 DEF vars
<1>7. QED
  BY <1>1, <1>2, <1>3, <1>4, <1>5, <1>6 DEF Next

\* Every variable keeps its type, and the faults their bound.
THEOREM TypeCorrect == Spec => []TypeOK
<1>1. Init => TypeOK
  BY FaultsAssumption DEF Init, TypeOK
<1>2. QED
  BY <1>1, TypeStep, PTL DEF Spec

\* An instance changes nothing of another one; it takes the lease only when the
\* other one does not hold it.
LEMMA OthersKeep ==
    ASSUME TypeOK, NEW i \in Instances,
           \A j \in Instances : ElectionInv(j),
           \/ ElectionStep(i) \/ LeaseStep(i) \/ Stop(i) \/ Exit(i)
           \/ Disturbance(i)
    PROVE  \A j \in Instances \ {i} : ElectionInv(j)'
<1> SUFFICES ASSUME NEW j \in Instances, j # i PROVE ElectionInv(j)'
  OBVIOUS
<1> USE NobodyAssumption DEF TypeOK, leaseVars, electionVars, Goes
<1>1. /\ task'[j] = task[j] /\ held'[j] = held[j] /\ unseen'[j] = unseen[j]
      /\ election'[j] = election[j] /\ isLeader'[j] = isLeader[j]
      /\ flag'[j] = flag[j]
  <2>1. CASE ElectionStep(i)
    BY <2>1 DEF ElectionStep, StartWatching, ReadChannel, SetState, Changed,
                LeaveLoop, JoinLeaseTask
  <2>2. CASE LeaseStep(i) \/ Stop(i)
    BY <2>2 DEF LeaseStep, Acquire, Release, Expire, Stop
  <2>3. CASE Exit(i)
    BY <2>3 DEF Exit, ProcessGone
  <2>4. CASE Disturbance(i)
    BY <2>4 DEF Disturbance, LoseLease, TaskDies, Crash, ProcessGone, Restart,
                StartFails
  <2>5. QED BY <2>1, <2>2, <2>3, <2>4
<1>2. holder = j => holder' = j
  <2>1. CASE ElectionStep(i)
    BY <2>1 DEF ElectionStep, StartWatching, ReadChannel, SetState, Changed,
                LeaveLoop, JoinLeaseTask
  <2>2. CASE LeaseStep(i) \/ Stop(i)
    BY <2>2 DEF LeaseStep, Acquire, Release, Expire, Stop
  <2>3. CASE Exit(i)
    BY <2>3 DEF Exit, ProcessGone
  <2>4. CASE Disturbance(i)
    BY <2>4 DEF Disturbance, LoseLease, TaskDies, Crash, ProcessGone, Restart,
                StartFails
  <2>5. QED BY <2>1, <2>2, <2>3, <2>4
<1>3. QED
  BY <1>1, <1>2
  DEF ElectionInv, LeaseTaskIsRight, SeenIsCurrent, FlagDownOutsideElection,
      LeaseTaskOfElection

\* A step of an instance keeps its own part of the invariant.
LEMMA OwnKeeps ==
    ASSUME TypeOK, NEW i \in Instances, ElectionInv(i),
           \/ ElectionStep(i) \/ LeaseStep(i) \/ Stop(i) \/ Exit(i)
           \/ Disturbance(i)
    PROVE  ElectionInv(i)'
<1> USE DEF TypeOK, leaseVars, electionVars, Goes, ElectionInv,
            LeaseTaskIsRight, SeenIsCurrent, FlagDownOutsideElection,
            LeaseTaskOfElection
<1>1. CASE ElectionStep(i)
  <2>1. CASE StartWatching(i)
    BY <2>1 DEF StartWatching
  <2>2. CASE ReadChannel(i)
    BY <2>2 DEF ReadChannel
  <2>3. CASE SetState(i)
    BY <2>3 DEF SetState
  <2>4. CASE Changed(i) \/ LeaveLoop(i)
    BY <2>4 DEF Changed, LeaveLoop
  <2>5. CASE JoinLeaseTask(i)
    BY <2>5 DEF JoinLeaseTask
  <2>6. QED
    BY <1>1, <2>1, <2>2, <2>3, <2>4, <2>5 DEF ElectionStep
<1>2. CASE LeaseStep(i)
  <2>1. CASE Acquire(i)
    BY <2>1 DEF Acquire
  <2>2. CASE Release(i)
    BY <2>2 DEF Release
  <2>3. CASE Expire(i)
    BY <2>3 DEF Expire
  <2>4. QED
    BY <1>2, <2>1, <2>2, <2>3 DEF LeaseStep
<1>3. CASE Stop(i)
  BY <1>3 DEF Stop
<1>4. CASE Exit(i) \/ Crash(i)
  BY <1>4 DEF Exit, Crash, ProcessGone
<1>5. CASE Disturbance(i)
  <2>1. CASE LoseLease(i)
    BY <2>1 DEF LoseLease
  <2>2. CASE TaskDies(i)
    BY <2>2 DEF TaskDies
  <2>3. CASE Restart(i)
    BY <2>3 DEF Restart
  <2>4. CASE StartFails(i)
    BY <2>4 DEF StartFails
  <2>5. QED
    BY <1>4, <1>5, <2>1, <2>2, <2>3, <2>4 DEF Disturbance
<1>6. QED
  BY <1>1, <1>2, <1>3, <1>4, <1>5

\* The strengthened invariant holds throughout.
LEMMA Inductive == Spec => []IInv
<1>1. Init => IInv
  <2>1. Init => TypeOK
    BY FaultsAssumption DEF Init, TypeOK
  <2>2. ASSUME Init, NEW i \in Instances PROVE ElectionInv(i)
    BY <2>2 DEF Init, ElectionInv, LeaseTaskIsRight, SeenIsCurrent,
                FlagDownOutsideElection, LeaseTaskOfElection
  <2>3. QED BY <2>1, <2>2 DEF IInv
<1>2. IInv /\ [Next]_vars => IInv'
  <2> SUFFICES ASSUME IInv, [Next]_vars PROVE IInv'
    OBVIOUS
  <2>1. TypeOK'
    BY TypeStep DEF IInv
  <2>2. CASE Next
    BY <2>1, <2>2, OthersKeep, OwnKeeps DEF Next, IInv
  <2>3. CASE UNCHANGED vars
    BY <2>1, <2>3 DEF vars, leaseVars, electionVars, IInv, ElectionInv,
                      LeaseTaskIsRight, SeenIsCurrent, FlagDownOutsideElection,
                      LeaseTaskOfElection
  <2>4. QED BY <2>2, <2>3
<1>3. QED
  BY <1>1, <1>2, PTL DEF Spec

\* An instance that believes it leads without holding the lease has a pending
\* reason to lower its flag: no notification is lost on the way to it.
THEOREM NoLostNotification == Spec => []StaleFlagIsTransient
<1>1. IInv => StaleFlagIsTransient
  BY DEF IInv, TypeOK, ElectionInv, LeaseTaskIsRight, SeenIsCurrent,
         FlagDownOutsideElection, LeaseTaskOfElection, StaleFlagIsTransient,
         AboutToLower
<1>2. QED
  BY <1>1, Inductive, PTL

\* Of two instances that act as leader at once, so that both collect, one is about to
\* stop.
OneSettledLeader ==
    \A i, j \in Instances :
        i # j /\ flag[i] /\ flag[j] => AboutToLower(i) \/ AboutToLower(j)

\* The lease makes for one settled leader, since no notification about it gets lost
\* (LeadershipStatus is written by the election task only).
THEOREM LeadersDoNotSettle == Spec => []OneSettledLeader
<1>1. StaleFlagIsTransient => OneSettledLeader
  BY DEF StaleFlagIsTransient, OneSettledLeader
<1>2. QED
  BY <1>1, NoLostNotification, PTL
=============================================================================
