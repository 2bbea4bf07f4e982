------------------------- MODULE RunLifecycleProofs -------------------------
(***************************************************************************)
(* Proofs about RunLifecycle for every set of runs, targets and            *)
(* invocations, every length of the timers and every budget.               *)
(***************************************************************************)
EXTENDS RunLifecycle, TLAPS

(* Outcomes are known where the code uses them: the relay has one once the  *)
(* container is done, the backstop once it has decided to write.            *)
OutcomesKnown ==
    /\ \A c \in Consumer : pc[c] \in {"rfinish", "record"} => out[c] \in Outcome
    /\ \A r \in Run : cont[r] = "done" => result[r] \in Outcome
    /\ \A r \in Run : phase[r] = "finish" => verdict[r] \in Outcome

TypeInv == TypeOK /\ OutcomesKnown

-----------------------------------------------------------------------------
(* What the three outcomes write into a row. *)
LEMMA OutcomeFields ==
    /\ \A o \in Outcome : o.state \in {"succeeded", "failed"} /\ o.exit \in {"none", "zero", "nonzero"}
    /\ FailedNoExit \in Outcome
    /\ NoOutcome \notin Outcome
  BY DEF Outcome, Succeeded, DeployFailed, FailedNoExit, NoOutcome

LEMMA TargetTyped == \A r \in Run : TargetOf[r] \in Target /\ r # NoRun
  BY TargetAssumption, NoRunAssumption

(* Each statement on the runs table keeps it well typed. *)
LEMMA TableTyped ==
    ASSUME TableTypeOK, NEW r \in Run
    PROVE  /\ CreateRun(r) => TableTypeOK'
           /\ MarkRunStarted(r) => TableTypeOK'
           /\ \A o \in Outcome : MarkRunFinished(r, o) => TableTypeOK'
           /\ SweepStaleRuns => TableTypeOK'
           /\ \A gone \in SUBSET Run : DeleteRuns(gone) => TableTypeOK'
           /\ AgeTick => TableTypeOK'
           /\ UNCHANGED tableVars => TableTypeOK'
  <1>1. CreateRun(r) => TableTypeOK'
    BY StaleAgeAssumption DEF TableTypeOK, CreateRun
  <1>2. MarkRunStarted(r) => TableTypeOK'
    BY StaleAgeAssumption DEF TableTypeOK, MarkRunStarted, tableVars
  <1>3. ASSUME NEW o \in Outcome, MarkRunFinished(r, o) PROVE TableTypeOK'
    BY <1>3, StaleAgeAssumption, OutcomeFields DEF TableTypeOK, MarkRunFinished, tableVars
  <1>4. SweepStaleRuns => TableTypeOK'
    BY StaleAgeAssumption DEF TableTypeOK, SweepStaleRuns
  <1>5. ASSUME NEW gone \in SUBSET Run, DeleteRuns(gone) PROVE TableTypeOK'
    BY <1>5, StaleAgeAssumption DEF TableTypeOK, DeleteRuns
  <1>6. AgeTick => TableTypeOK'
    BY StaleAgeAssumption DEF TableTypeOK, AgeTick, Up
  <1>7. UNCHANGED tableVars => TableTypeOK'
    BY DEF TableTypeOK, tableVars
  <1>8. QED
    BY <1>1, <1>2, <1>3, <1>4, <1>5, <1>6, <1>7

(* Each operation of the lock keeps it well typed. *)
LEMMA LockTyped ==
    ASSUME LockTypeOK, NEW t \in Target, NEW r \in Run
    PROVE  /\ Acquire(t, r) => LockTypeOK'
           /\ Release(t, r) => LockTypeOK'
           /\ LeaseTick => LockTypeOK'
           /\ UNCHANGED lockVars => LockTypeOK'
  BY LockTTLAssumption DEF LockTypeOK, Acquire, Release, LeaseTick, Down, lockVars

(* Each operation of the container and of its backstop keeps them typed. *)
LEMMA ContainerTyped ==
    ASSUME ContainerTypeOK, NEW r \in Run
    PROVE  /\ BootContainer(r) => ContainerTypeOK'
           /\ AcceptRun(r) => ContainerTypeOK'
           /\ RunnerFinish(r) => ContainerTypeOK'
           /\ ContainerStops(r) => ContainerTypeOK'
           /\ ArmBackstop(r) => ContainerTypeOK'
           /\ BackstopCheck(r) => ContainerTypeOK'
           /\ BackstopFinish(r) => ContainerTypeOK'
           /\ BackstopLost(r) => ContainerTypeOK'
           /\ ContainerMayTick /\ ContainerTick => ContainerTypeOK'
           /\ UNCHANGED containerVars => ContainerTypeOK'
  <1> USE ContainerAssumption DEF ContainerTypeOK, containerVars, runnerVars, backstopVars
  <1>1. BootContainer(r) => ContainerTypeOK'
    BY DEF BootContainer
  <1>2. AcceptRun(r) => ContainerTypeOK'
    BY DEF AcceptRun
  <1>3. RunnerFinish(r) => ContainerTypeOK'
    BY DEF RunnerFinish
  <1>4. ContainerStops(r) => ContainerTypeOK'
    BY DEF ContainerStops
  <1>5. ArmBackstop(r) => ContainerTypeOK'
    BY DEF ArmBackstop
  <1>6. ASSUME BackstopCheck(r) PROVE ContainerTypeOK'
    <2>1. Decided(r) \in Outcome \cup {NoOutcome}
      BY OutcomeFields DEF Decided
    <2>2. QED
      BY <1>6, <2>1 DEF BackstopCheck
  <1>7. BackstopFinish(r) => ContainerTypeOK'
    BY DEF BackstopFinish
  <1>8. BackstopLost(r) => ContainerTypeOK'
    BY DEF BackstopLost
  <1>9. ContainerMayTick /\ ContainerTick => ContainerTypeOK'
    BY DEF ContainerMayTick, ContainerTick, Down
  <1>10. UNCHANGED containerVars => ContainerTypeOK'
    OBVIOUS
  <1>11. QED
    BY <1>1, <1>2, <1>3, <1>4, <1>5, <1>6, <1>7, <1>8, <1>9, <1>10

(* How an invocation moves: to a label, back to idle, or back into the queue. *)
InvocationTypeOK ==
    /\ pc \in [Consumer -> PC]
    /\ job \in [Consumer -> Run \cup {NoRun}]
    /\ tries \in [Consumer -> 0 .. MaxRetries]
    /\ held \in [Consumer -> 0 .. MaxInvocation]
    /\ out \in [Consumer -> Outcome \cup {NoOutcome}]
    /\ \A c \in Consumer : (pc[c] # "idle") => job[c] \in Run

LEMMA InvocationTyped ==
    ASSUME InvocationTypeOK, NEW c \in Consumer
    PROVE  /\ \A l \in PC : pc[c] # "idle" /\ Goto(c, l) => InvocationTypeOK'
           /\ Idle(c) => InvocationTypeOK'
           /\ UNCHANGED invocationVars => InvocationTypeOK'
  <1> USE ConsumerAssumption DEF InvocationTypeOK
  <1>1. ASSUME NEW l \in PC, pc[c] # "idle", Goto(c, l) PROVE InvocationTypeOK'
    BY <1>1 DEF Goto
  <1>2. Idle(c) => InvocationTypeOK'
    BY DEF Idle, PC
  <1>3. UNCHANGED invocationVars => InvocationTypeOK'
    BY DEF invocationVars
  <1>4. QED
    BY <1>1, <1>2, <1>3

LEMMA RedeliverTyped ==
    ASSUME InvocationTypeOK, queue \subseteq Message, NEW c \in Consumer,
           pc[c] # "idle", Redeliver(c)
    PROVE  InvocationTypeOK' /\ queue' \subseteq Message
  <1>1. InvocationTypeOK'
    BY InvocationTyped DEF Redeliver
  <1>2. job[c] \in Run /\ tries[c] \in 0 .. MaxRetries
    BY DEF InvocationTypeOK
  <1>3. tries[c] < MaxRetries => [run |-> job[c], tries |-> tries[c] + 1] \in Message
    BY <1>2, ConsumerAssumption DEF Message
  <1>4. QED
    BY <1>1, <1>3 DEF Redeliver

LEMMA StrikeTyped ==
    ASSUME faults \in [Disturbance -> Nat], NEW k \in Disturbance, Strike(k)
    PROVE  faults' \in [Disturbance -> Nat]
  BY DEF Strike

(* TypeOK, by the components it is made of. *)
LEMMA TypeOKParts ==
    /\ TypeOK <=> /\ TableTypeOK /\ LockTypeOK /\ ContainerTypeOK /\ InvocationTypeOK
                  /\ queue \subseteq Message /\ unsent \subseteq Run
                  /\ faults \in [Disturbance -> Nat]
                  /\ apps \subseteq App /\ registered \subseteq Target /\ abandoned \subseteq Run
    /\ TypeOK' <=> /\ TableTypeOK' /\ LockTypeOK' /\ ContainerTypeOK' /\ InvocationTypeOK'
                   /\ queue' \subseteq Message /\ unsent' \subseteq Run
                   /\ faults' \in [Disturbance -> Nat]
                   /\ apps' \subseteq App /\ registered' \subseteq Target /\ abandoned' \subseteq Run
  BY DEF TypeOK, InvocationTypeOK

LEMMA InitType == Init => TypeInv
  <1> SUFFICES ASSUME Init PROVE TypeInv
    OBVIOUS
  <1> USE StaleAgeAssumption, LockTTLAssumption, ContainerAssumption, ConsumerAssumption
  <1>1. TableTypeOK /\ LockTypeOK /\ ContainerTypeOK
    BY DEF Init, TableInit, TableTypeOK, LockInit, LockTypeOK, ContainerInit, ContainerTypeOK
  <1>2. InvocationTypeOK
    BY DEF Init, InvocationTypeOK, PC
  <1>3. OutcomesKnown
    BY DEF Init, ContainerInit, OutcomesKnown
  <1>4. QED
    BY <1>1, <1>2, <1>3, TypeOKParts DEF Init, TypeInv


(* A step of an invocation keeps everything typed. *)
LEMMA ConsumeType ==
    ASSUME TypeInv, NEW c \in Consumer, Consume(c)
    PROVE  TypeOK'
  <1>1. /\ TableTypeOK /\ LockTypeOK /\ ContainerTypeOK /\ InvocationTypeOK
        /\ queue \subseteq Message /\ unsent \subseteq Run
        /\ faults \in [Disturbance -> Nat]
        /\ apps \subseteq App /\ registered \subseteq Target /\ abandoned \subseteq Run
    BY TypeOKParts DEF TypeInv
  <1>2. pc[c] # "idle" => job[c] \in Run /\ Key(c) \in Target
    BY <1>1, TargetTyped DEF InvocationTypeOK, Key
  <1>3. SUFFICES /\ TableTypeOK' /\ LockTypeOK' /\ ContainerTypeOK' /\ InvocationTypeOK'
                 /\ queue' \subseteq Message /\ unsent' \subseteq Run
                 /\ faults' \in [Disturbance -> Nat]
                 /\ apps' \subseteq App /\ registered' \subseteq Target /\ abandoned' \subseteq Run
    BY TypeOKParts
  <1> USE <1>1, <1>2, TableTyped, LockTyped, ContainerTyped, InvocationTyped, StrikeTyped,
          RedeliverTyped, OutcomeFields
      DEF registryVars, PC, Holding, Early, InRunner, Disturbance
  <1>4. CASE Deliver(c)
    <2>1. PICK m \in queue :
             /\ \/ queue' = queue \ {m} /\ UNCHANGED faults
                \/ queue' = queue /\ Strike("duplicate")
             /\ pc' = [pc EXCEPT ![c] = "read"]
             /\ job' = [job EXCEPT ![c] = m.run]
             /\ tries' = [tries EXCEPT ![c] = m.tries]
      BY <1>4 DEF Deliver
    <2>2. m.run \in Run /\ m.tries \in 0 .. MaxRetries
      BY DEF Message
    <2>3. InvocationTypeOK'
      BY <1>4, <2>1, <2>2 DEF Deliver, InvocationTypeOK
    <2>4. TargetOf[m.run] \in Target
      BY <2>2, TargetTyped
    <2>5. QED
      BY <1>4, <2>1, <2>2, <2>3, <2>4 DEF Deliver
  <1>5. CASE Read(c)
    BY <1>5 DEF Read
  <1>6. CASE TakeLock(c)
    BY <1>6 DEF TakeLock
  <1>7. CASE Defer(c)
    BY <1>7 DEF Defer
  <1>8. CASE Requeue(c)
    BY <1>8, ConsumerAssumption DEF Requeue, Message
  <1>9. CASE Ack(c)
    BY <1>9 DEF Ack
  <1>10. CASE EarlyThrow(c)
    BY <1>10 DEF EarlyThrow
  <1>11. CASE Start(c)
    BY <1>11 DEF Start
  <1>12. CASE LoadGone(c)
    BY <1>12 DEF LoadGone
  <1>13. CASE LoadJob(c)
    BY <1>13 DEF LoadJob
  <1>14. CASE Boot(c)
    BY <1>14 DEF Boot
  <1>15. CASE Arm(c)
    BY <1>15 DEF Arm
  <1>16. CASE Post(c)
    BY <1>16 DEF Post
  <1>17. CASE Relayed(c)
    BY <1>17 DEF Relayed, InvocationTypeOK, ContainerTypeOK
  <1>18. CASE RunnerRecords(c)
    BY <1>18 DEF RunnerRecords, TypeInv, OutcomesKnown
  <1>19. CASE Record(c)
    BY <1>19 DEF Record, TypeInv, OutcomesKnown
  <1>20. CASE CallRejects(c)
    BY <1>20 DEF CallRejects
  <1>21. CASE RelayThrows(c)
    BY <1>21 DEF RelayThrows
  <1>22. CASE BodyThrow(c)
    BY <1>22 DEF BodyThrow
  <1>23. CASE Fail(c)
    BY <1>23 DEF Fail
  <1>24. CASE Unlock(c)
    BY <1>24 DEF Unlock
  <1>25. CASE UnlockThrows(c)
    BY <1>25 DEF UnlockThrows
  <1>26. CASE Dies(c)
    BY <1>26 DEF Dies
  <1>27. QED
    BY <1>4, <1>5, <1>6, <1>7, <1>8, <1>9, <1>10, <1>11, <1>12, <1>13, <1>14, <1>15, <1>16, <1>17, <1>18, <1>19, <1>20, <1>21, <1>22, <1>23, <1>24, <1>25, <1>26 DEF Consume

(* So does every other step. *)
LEMMA OtherStepType ==
    ASSUME TypeInv,
           \/ \E r \in Run : RunStep(r)
           \/ Sweep \/ Registry \/ Tick
           \/ UNCHANGED vars
    PROVE  TypeOK'
  <1>1. /\ TableTypeOK /\ LockTypeOK /\ ContainerTypeOK /\ InvocationTypeOK
        /\ queue \subseteq Message /\ unsent \subseteq Run
        /\ faults \in [Disturbance -> Nat]
        /\ apps \subseteq App /\ registered \subseteq Target /\ abandoned \subseteq Run
    BY TypeOKParts DEF TypeInv
  <1>2. SUFFICES /\ TableTypeOK' /\ LockTypeOK' /\ ContainerTypeOK' /\ InvocationTypeOK'
                 /\ queue' \subseteq Message /\ unsent' \subseteq Run
                 /\ faults' \in [Disturbance -> Nat]
                 /\ apps' \subseteq App /\ registered' \subseteq Target /\ abandoned' \subseteq Run
    BY TypeOKParts
  <1>3. /\ UNCHANGED tableVars => TableTypeOK'
        /\ UNCHANGED lockVars => LockTypeOK'
        /\ UNCHANGED containerVars => ContainerTypeOK'
        /\ UNCHANGED invocationVars => InvocationTypeOK'
        /\ UNCHANGED registryVars => apps' \subseteq App /\ registered' \subseteq Target
    BY <1>1 DEF tableVars, TableTypeOK, lockVars, LockTypeOK, containerVars, runnerVars,
                backstopVars, ContainerTypeOK, invocationVars, InvocationTypeOK, registryVars
  <1> USE <1>1, <1>3
  <1>4. ASSUME NEW r \in Run, RunStep(r) PROVE TypeOK'
    <2> USE TypeOKParts, TableTyped, ContainerTyped, StrikeTyped DEF Disturbance
    <2>1. CASE Trigger(r)
      BY <2>1 DEF Trigger
    <2>2. CASE Send(r)
      BY <2>2, ConsumerAssumption DEF Send, Message
    <2>3. CASE ProducerDies(r)
      BY <2>3 DEF ProducerDies
    <2>4. CASE RunnerStep(r)
      BY <2>4 DEF RunnerStep, RunnerFinish, ContainerStops
    <2>5. CASE Backstop(r) /\ BackstopCheck(r)
      BY <2>5 DEF Backstop, BackstopCheck
    <2>6. CASE Backstop(r) /\ BackstopFinish(r)
      BY <2>6 DEF Backstop, BackstopFinish, TypeInv, OutcomesKnown
    <2>7. CASE BackstopFails(r)
      BY <2>7 DEF BackstopFails, BackstopLost
    <2>8. QED
      BY <1>4, <2>1, <2>2, <2>3, <2>4, <2>5, <2>6, <2>7 DEF RunStep, Backstop
  <1>5. CASE Sweep
    BY <1>5, TableTyped DEF Sweep
  <1>6. CASE Registry
    <2>1. ASSUME NEW t \in Target, RemoveEnv(t) \/ RegisterEnv(t) PROVE TypeOK'
      BY <2>1, TypeOKParts, StrikeTyped DEF RemoveEnv, RegisterEnv, registryVars, Disturbance
    <2>2. ASSUME NEW a \in App, RemoveApp(a) PROVE TypeOK'
      <3>1. TableTypeOK'
        BY <2>2, StaleAgeAssumption DEF RemoveApp, DeleteRuns, TableTypeOK
      <3>2. QED
        BY <2>2, <3>1, TypeOKParts, StrikeTyped DEF RemoveApp, Disturbance
    <2>3. ASSUME NEW a \in App, RegisterApp(a) PROVE TypeOK'
      BY <2>3, TypeOKParts DEF RegisterApp
    <2>4. QED
      BY <1>6, <2>1, <2>2, <2>3, TypeOKParts DEF Registry
  <1>7. CASE Tick
    <2>1. TableTypeOK'
      BY <1>7, StaleAgeAssumption DEF Tick, AgeTick, Up, TableTypeOK
    <2>2. LockTypeOK'
      BY <1>7, LockTTLAssumption DEF Tick, LeaseTick, Down, LockTypeOK
    <2>3. ContainerTypeOK'
      BY <1>7, ContainerAssumption
         DEF Tick, ContainerMayTick, ContainerTick, Down, ContainerTypeOK
    <2>4. InvocationTypeOK'
      BY <1>7, ConsumerAssumption DEF Tick, InvocationTypeOK
    <2>5. QED
      BY <1>7, <2>1, <2>2, <2>3, <2>4 DEF Tick, registryVars
  <1>8. CASE UNCHANGED vars
    BY <1>8 DEF vars
  <1>9. QED
    BY <1>4, <1>5, <1>6, <1>7, <1>8, TypeOKParts

(* Nobody uses an outcome before there is one. *)
LEMMA OutcomesStep ==
    ASSUME TypeInv, [Next]_vars
    PROVE  OutcomesKnown'
  <1>1. ContainerTypeOK /\ InvocationTypeOK /\ OutcomesKnown
    BY TypeOKParts DEF TypeInv
  <1>2. UNCHANGED containerVars /\ UNCHANGED invocationVars => OutcomesKnown'
    BY <1>1 DEF OutcomesKnown, containerVars, runnerVars, backstopVars, invocationVars
  <1> USE <1>1, <1>2
  <1>3. ASSUME NEW c \in Consumer, UNCHANGED containerVars,
               \/ \E l \in PC \ {"rfinish", "record"} : Goto(c, l)
               \/ Idle(c)
               \/ pc[c] = "rfinish" /\ Goto(c, "record")
        PROVE  OutcomesKnown'
    BY <1>3 DEF OutcomesKnown, Goto, Idle, InvocationTypeOK, containerVars, runnerVars, backstopVars
  <1>4. ASSUME NEW c \in Consumer, Consume(c) PROVE OutcomesKnown'
    <2> USE DEF PC, Holding, Early, InRunner
    <2>1. CASE Deliver(c)
      BY <2>1 DEF Deliver, OutcomesKnown, InvocationTypeOK, containerVars, runnerVars, backstopVars
    <2>2. CASE Read(c) \/ TakeLock(c) \/ Defer(c) \/ Requeue(c)
      BY <2>2, <1>3 DEF Read, TakeLock, Defer, Requeue
    <2>3. CASE Ack(c) \/ EarlyThrow(c) \/ UnlockThrows(c) \/ Dies(c)
      BY <2>3, <1>3 DEF Ack, EarlyThrow, UnlockThrows, Dies, Redeliver
    <2>4. CASE Start(c) \/ LoadGone(c) \/ LoadJob(c)
      BY <2>4, <1>3 DEF Start, LoadGone, LoadJob
    <2>5. CASE Boot(c)
      BY <2>5 DEF Boot, BootContainer, Goto, OutcomesKnown, ContainerTypeOK, InvocationTypeOK,
                  backstopVars
    <2>6. CASE Arm(c)
      BY <2>6 DEF Arm, ArmBackstop, Goto, OutcomesKnown, ContainerTypeOK, InvocationTypeOK,
                  runnerVars
    <2>7. CASE Post(c)
      BY <2>7 DEF Post, AcceptRun, Goto, OutcomesKnown, ContainerTypeOK, InvocationTypeOK,
                  backstopVars
    <2>8. CASE Relayed(c)
      <3>1. result[job[c]] \in Outcome
        BY <2>8 DEF Relayed, OutcomesKnown, InvocationTypeOK
      <3>2. QED
        BY <2>8, <3>1 DEF Relayed, OutcomesKnown, InvocationTypeOK, containerVars, runnerVars,
                          backstopVars
    <2>9. CASE RunnerRecords(c) \/ Record(c)
      BY <2>9, <1>3 DEF RunnerRecords, Record
    <2>10. CASE CallRejects(c) \/ RelayThrows(c) \/ BodyThrow(c) \/ Fail(c)
      BY <2>10, <1>3 DEF CallRejects, RelayThrows, BodyThrow, Fail
    <2>11. CASE Unlock(c)
      BY <2>11, <1>3 DEF Unlock, Redeliver
    <2>12. QED
      BY <1>4, <2>1, <2>2, <2>3, <2>4, <2>5, <2>6, <2>7, <2>8, <2>9, <2>10, <2>11 DEF Consume
  <1>5. ASSUME NEW r \in Run, RunStep(r) PROVE OutcomesKnown'
    <2> USE DEF OutcomesKnown, ContainerTypeOK, invocationVars, runnerVars
    <2>1. CASE Trigger(r) \/ Send(r) \/ ProducerDies(r)
      BY <2>1 DEF Trigger, Send, ProducerDies
    <2>2. CASE RunnerStep(r)
      BY <2>2 DEF RunnerStep, RunnerFinish, ContainerStops, backstopVars
    <2>3. CASE Backstop(r) /\ BackstopCheck(r)
      <3>1. Decided(r) # NoOutcome => Decided(r) \in Outcome
        BY OutcomeFields DEF Decided
      <3>2. QED
        BY <2>3, <3>1 DEF Backstop, BackstopCheck
    <2>4. CASE Backstop(r) /\ BackstopFinish(r)
      BY <2>4 DEF Backstop, BackstopFinish
    <2>5. CASE BackstopFails(r)
      BY <2>5 DEF BackstopFails, BackstopLost
    <2>6. QED
      BY <1>5, <2>1, <2>2, <2>3, <2>4, <2>5 DEF RunStep, Backstop
  <1>6. CASE Sweep \/ Registry
    BY <1>6 DEF Sweep, Registry, RemoveEnv, RegisterEnv, RemoveApp, RegisterApp
  <1>7. CASE Tick
    BY <1>7 DEF Tick, ContainerTick, OutcomesKnown
  <1>8. CASE UNCHANGED vars
    BY <1>8 DEF vars
  <1>9. QED
    BY <1>4, <1>5, <1>6, <1>7, <1>8 DEF Next

LEMMA TypeInvStep == TypeInv /\ [Next]_vars => TypeInv'
  <1> SUFFICES ASSUME TypeInv, [Next]_vars PROVE TypeInv'
    OBVIOUS
  <1>1. TypeOK'
    BY ConsumeType, OtherStepType DEF Next
  <1>2. QED
    BY <1>1, OutcomesStep DEF TypeInv

LEMMA TypeInvariant == Spec => []TypeInv
  BY InitType, TypeInvStep, PTL DEF Spec

(* In every reachable state every variable has its type; no writer ever    *)
(* puts an outcome into a row that is not one of the three a deploy ends    *)
(* with (run-lifecycle.ts, worker.ts, finish-run.ts).                       *)
THEOREM TypeCorrect == Spec => []TypeOK
  <1>1. TypeInv => TypeOK
    BY DEF TypeInv
  <1>2. QED
    BY <1>1, TypeInvariant, PTL

-----------------------------------------------------------------------------
(* The rows implement the abstract lifecycle of RunStatus.  It needs one    *)
(* fact of the past: a row that is not settled carries no exit code, so a   *)
(* sweep or a deletion cannot pair an old exit code with a new status.      *)
NoExitUntilSettled == \A r \in Run : ~IsFinished(r) => exit[r] = "none"

(* Each statement on the table is a step of the lifecycle for every row it  *)
(* touches and a stutter for the others.                                    *)
LEMMA StatementsFollowLifecycle ==
    ASSUME TableTypeOK, NoExitUntilSettled, NEW r \in Run
    PROVE  /\ CreateRun(r) => Row!Next /\ NoExitUntilSettled'
           /\ MarkRunStarted(r) => Row!Next /\ NoExitUntilSettled'
           /\ \A o \in Outcome : MarkRunFinished(r, o) => Row!Next /\ NoExitUntilSettled'
           /\ SweepStaleRuns => Row!Next /\ NoExitUntilSettled'
           /\ \A gone \in SUBSET Run : DeleteRuns(gone) => Row!Next /\ NoExitUntilSettled'
           /\ UNCHANGED <<status, exit>> => Row!Next /\ NoExitUntilSettled'
  <1> USE DEF TableTypeOK, NoExitUntilSettled, IsOpen, IsFinished, tableVars, Row!Next,
              Row!RowStep, Row!Stays, Row!Open
  <1>1. CreateRun(r) => Row!Next /\ NoExitUntilSettled'
    BY DEF CreateRun, Row!Created
  <1>2. MarkRunStarted(r) => Row!Next /\ NoExitUntilSettled'
    BY DEF MarkRunStarted, Row!Started
  <1>3. ASSUME NEW o \in Outcome, MarkRunFinished(r, o)
        PROVE  Row!Next /\ NoExitUntilSettled'
    BY <1>3 DEF MarkRunFinished, Row!Finished, Outcome, Succeeded, DeployFailed, FailedNoExit
  <1>4. SweepStaleRuns => Row!Next /\ NoExitUntilSettled'
    BY DEF SweepStaleRuns, Stale, Row!Finished
  <1>5. ASSUME NEW gone \in SUBSET Run, DeleteRuns(gone)
        PROVE  Row!Next /\ NoExitUntilSettled'
    BY <1>5 DEF DeleteRuns, Row!Removed
  <1>6. UNCHANGED <<status, exit>> => Row!Next /\ NoExitUntilSettled'
    OBVIOUS
  <1>7. QED
    BY <1>1, <1>2, <1>3, <1>4, <1>5, <1>6

(* Every step of the system issues at most one of those statements. *)
LEMMA StepFollowsLifecycle ==
    ASSUME TypeInv, NoExitUntilSettled, [Next]_vars
    PROVE  Row!Next /\ NoExitUntilSettled'
  <1>1. TableTypeOK /\ InvocationTypeOK /\ OutcomesKnown
    BY TypeOKParts DEF TypeInv
  <1> USE <1>1, StatementsFollowLifecycle DEF tableVars
  <1>2. UNCHANGED <<status, exit>> => Row!Next /\ NoExitUntilSettled'
    BY DEF NoExitUntilSettled, IsFinished, Row!Next, Row!RowStep, Row!Stays
  <1>3. ASSUME NEW c \in Consumer, Consume(c) PROVE Row!Next /\ NoExitUntilSettled'
    <2>1. pc[c] # "idle" => job[c] \in Run
      BY DEF InvocationTypeOK
    <2>2. CASE Deliver(c) \/ Read(c) \/ TakeLock(c) \/ Defer(c) \/ Requeue(c) \/ Ack(c) \/ EarlyThrow(c)
      BY <1>2, <2>2 DEF Deliver, Read, TakeLock, Defer, Requeue, Ack, EarlyThrow
    <2>3. CASE Start(c)
      BY <2>1, <2>3 DEF Start
    <2>4. CASE LoadGone(c)
      BY <2>1, <2>4, OutcomeFields DEF LoadGone
    <2>5. CASE LoadJob(c) \/ Relayed(c) \/ CallRejects(c) \/ RelayThrows(c) \/ BodyThrow(c)
      BY <1>2, <2>5 DEF LoadJob, Relayed, CallRejects, RelayThrows, BodyThrow
    <2>6. CASE Boot(c) \/ Arm(c) \/ Post(c)
      BY <1>2, <2>6 DEF Boot, Arm, Post
    <2>7. CASE RunnerRecords(c)
      BY <1>2, <2>1, <2>7 DEF RunnerRecords, OutcomesKnown
    <2>8. CASE Record(c)
      BY <2>1, <2>8 DEF Record, OutcomesKnown
    <2>9. CASE Fail(c)
      BY <1>2, <2>1, <2>9, OutcomeFields DEF Fail
    <2>10. CASE Unlock(c) \/ UnlockThrows(c) \/ Dies(c)
      BY <1>2, <2>10 DEF Unlock, UnlockThrows, Dies
    <2>11. QED
      BY <1>3, <2>2, <2>3, <2>4, <2>5, <2>6, <2>7, <2>8, <2>9, <2>10 DEF Consume
  <1>4. ASSUME NEW r \in Run, RunStep(r) PROVE Row!Next /\ NoExitUntilSettled'
    <2>1. CASE Trigger(r)
      BY <2>1 DEF Trigger
    <2>2. CASE Send(r) \/ ProducerDies(r)
      BY <1>2, <2>2 DEF Send, ProducerDies
    <2>3. CASE RunnerStep(r)
      BY <1>2, <2>3 DEF RunnerStep, RunnerFinish, ContainerStops
    <2>4. CASE Backstop(r) /\ BackstopCheck(r)
      BY <1>2, <2>4 DEF Backstop, BackstopCheck
    <2>5. CASE Backstop(r) /\ BackstopFinish(r)
      BY <2>5 DEF Backstop, BackstopFinish, OutcomesKnown
    <2>6. CASE BackstopFails(r)
      BY <1>2, <2>6 DEF BackstopFails, BackstopLost
    <2>7. QED
      BY <1>4, <2>1, <2>2, <2>3, <2>4, <2>5, <2>6 DEF RunStep, Backstop
  <1>5. CASE Sweep
    BY <1>5 DEF Sweep
  <1>6. CASE Registry
    <2>1. ASSUME NEW a \in App, RemoveApp(a) PROVE Row!Next /\ NoExitUntilSettled'
      <3>1. CASE Run = {}
        BY <3>1 DEF Row!Next, NoExitUntilSettled
      <3>2. CASE Run # {}
        BY <2>1, <3>2 DEF RemoveApp
      <3>3. QED
        BY <3>1, <3>2
    <2>2. QED
      BY <1>2, <1>6, <2>1 DEF Registry, RemoveEnv, RegisterEnv, RegisterApp
  <1>7. CASE Tick
    BY <1>2, <1>7 DEF Tick, AgeTick
  <1>8. CASE UNCHANGED vars
    BY <1>2, <1>8 DEF vars
  <1>9. QED
    BY <1>3, <1>4, <1>5, <1>6, <1>7, <1>8 DEF Next

(* Whoever settles, reaps, restarts or deletes it, a row only ever moves as *)
(* the abstract lifecycle allows: settled once, its exit code with it, and  *)
(* never re-opened (db.ts, run-lifecycle.ts, finish-run.ts).                *)
THEOREM RowsImplementLifecycle == Spec => Row!Spec
  <1>1. Init => Row!Init /\ NoExitUntilSettled
    BY DEF Init, TableInit, Row!Init, NoExitUntilSettled
  <1>2. TypeInv /\ NoExitUntilSettled /\ [Next]_vars
            => [Row!Next]_<<status, exit>> /\ NoExitUntilSettled'
    BY StepFollowsLifecycle
  <1>3. QED
    BY <1>1, <1>2, TypeInvariant, PTL DEF Spec, Row!Spec
-----------------------------------------------------------------------------
(* Per-target exclusion, proved from the arithmetic of the lease.  The      *)
(* invariant needs no more than that an invocation cannot outlive the lease *)
(* it took; how far the lease covers the container besides follows from the *)
(* container's hard kill.                                                   *)

(* The timers of DeployLock.ts and RunnerContainer.ts and the platform's    *)
(* invocation limit: what the lock needs, and what a deploy needs of its    *)
(* lease until the platform kills it.  Deployed, the sum is exact.          *)
InvocationFits == MaxInvocation < LockTTL
TimersFit      == MaxInvocation + HardKill <= LockTTL

(* What typing says of the numbers and keys the lease invariant speaks of. *)
LEMMA LeaseFacts ==
    ASSUME TypeOK
    PROVE  /\ LockTTL \in Nat /\ MaxInvocation \in Nat /\ HardKill \in Nat
           /\ \A t \in Target : left[t] \in Nat
           /\ \A r \in Run : life[r] \in Nat /\ TargetOf[r] \in Target
           /\ \A c \in Consumer :
                 /\ held[c] \in Nat /\ held[c] <= MaxInvocation
                 /\ pc[c] \in Holding => job[c] \in Run /\ Key(c) \in Target
  BY LockTTLAssumption, ConsumerAssumption, ContainerAssumption, TargetTyped
     DEF TypeOK, LockTypeOK, ContainerTypeOK, Holding, InRunner, Key

LEMMA InitLease == Init => LeaseInv
  BY DEF Init, ContainerInit, LeaseInv, HolderHasLease, OneHolder, OnlyTailDeploys,
         LeaseSpansDeploy, Deploying, Holding, InRunner

(* What the invariant says of a container that cannot have outlasted the    *)
(* lease it was started under.                                              *)
LEMMA LeaseInvSuffices ==
    ASSUME TypeOK, LeaseInv, NEW r \in Run, Deploying(r), r \notin abandoned, ~Outlasts(r)
    PROVE  holder[TargetOf[r]] = r /\ Live(TargetOf[r])
  <1>1. /\ holder[TargetOf[r]] = r
        /\ left[TargetOf[r]] + life[r] + MaxInvocation >= LockTTL
    BY DEF LeaseInv, LeaseSpansDeploy
  <1>2. ~(life[r] + MaxInvocation >= LockTTL)
    BY DEF Outlasts
  <1>3. left[TargetOf[r]] > 0
    BY <1>1, <1>2, LeaseFacts
  <1>4. QED
    BY <1>1, <1>3 DEF Live

(* A step that only moves an invocation that is past acquire() to another   *)
(* label past it, its run not deploying, abandoned or very old.             *)
LEMMA MoveKeepsLease ==
    ASSUME TypeOK, LeaseInv, NEW c \in Consumer, pc[c] \in Holding,
           NEW l \in Holding, Goto(c, l),
           UNCHANGED <<lockVars, cont, life>>,
           abandoned \subseteq abandoned',
           ~Deploying(job[c]) \/ job[c] \in abandoned' \/ Outlasts(job[c])
    PROVE  LeaseInv'
  BY LeaseFacts DEF LeaseInv, HolderHasLease, OneHolder, OnlyTailDeploys, LeaseSpansDeploy,
         Deploying, Outlasts, Goto, Key, lockVars, TypeOK

(* A step after which the invocation holds nothing, the lock untouched. *)
LEMMA LeavingKeepsLease ==
    ASSUME TypeOK, LeaseInv, NEW c \in Consumer,
           Idle(c) \/ (\E l \in {"acquire", "requeue", "ack"} : Goto(c, l)),
           UNCHANGED <<lockVars, cont, life, abandoned>>
    PROVE  LeaseInv'
  BY LeaseFacts DEF LeaseInv, HolderHasLease, OneHolder, OnlyTailDeploys, LeaseSpansDeploy,
         Deploying, Outlasts, Idle, Goto, Key, lockVars, TypeOK, Holding, InRunner

(* A step on a run's container that leaves none deploying that was not. *)
LEMMA QuietContainerKeepsLease ==
    ASSUME TypeOK, LeaseInv,
           UNCHANGED <<lockVars, pc, job, held, abandoned>>,
           \A r \in Run : Deploying(r)' => Deploying(r) /\ life'[r] = life[r]
    PROVE  LeaseInv'
  <1>1. HolderHasLease' /\ OneHolder'
    BY DEF LeaseInv, HolderHasLease, OneHolder, Key, lockVars
  <1>2. OnlyTailDeploys'
    BY LeaseFacts DEF LeaseInv, OnlyTailDeploys, Outlasts
  <1>3. LeaseSpansDeploy'
    BY LeaseFacts DEF LeaseInv, LeaseSpansDeploy, Outlasts, lockVars
  <1>4. QED
    BY <1>1, <1>2, <1>3 DEF LeaseInv

(* Granting the lease: it was not live, so nobody else is past acquire() for *)
(* the target and no deploy of it is covered.                               *)
LEMMA AcquireKeepsLease ==
    ASSUME TypeOK, LeaseInv, InvocationFits, NEW c \in Consumer, pc[c] = "acquire",
           Acquire(Key(c), job[c]),
           UNCHANGED <<cont, life, abandoned>>,
           Goto(c, "start") \/ Idle(c)
    PROVE  LeaseInv'
  <1> DEFINE t == Key(c)
  <1>1. job[c] \in Run /\ t \in Target /\ left[t] = 0
    BY LeaseFacts, TargetTyped DEF TypeOK, Acquire, Live, Key
  <1>2. \A d \in Consumer : pc[d] \in Holding => Key(d) # t
    <2>1. ASSUME NEW d \in Consumer, pc[d] \in Holding, Key(d) = t PROVE FALSE
      <3>1. left[t] + held[d] >= LockTTL /\ held[d] <= MaxInvocation
        BY <2>1, LeaseFacts DEF LeaseInv, HolderHasLease
      <3>2. QED
        BY <1>1, <3>1, LeaseFacts DEF InvocationFits
    <2>2. QED
      BY <2>1
  <1>3. \A r \in Run : Deploying(r) /\ TargetOf[r] = t => r \in abandoned \/ Outlasts(r)
    BY <1>1, LeaseInvSuffices DEF Live
  <1>4. /\ holder' = [holder EXCEPT ![t] = job[c]]
        /\ left' = [left EXCEPT ![t] = LockTTL]
        /\ holder \in [Target -> Run \cup {NoRun}] /\ left \in [Target -> 0 .. LockTTL]
        /\ pc \in [Consumer -> PC]
    BY DEF Acquire, TypeOK, LockTypeOK
  <1>5. \A d \in Consumer :
           pc'[d] \in Holding => (d = c /\ Goto(c, "start")) \/ (d # c /\ pc[d] \in Holding)
    BY <1>4 DEF Goto, Idle, Holding, InRunner
  <1>6. \A d \in Consumer : pc'[d] \in Holding =>
           job'[d] = job[d] /\ held'[d] = held[d] /\ Key(d)' = Key(d) /\ Key(d) \in Target
    BY <1>1, <1>4, <1>5, LeaseFacts DEF Goto, Idle, Key, TypeOK
  <1>7. HolderHasLease'
    BY <1>1, <1>2, <1>4, <1>5, <1>6, LeaseFacts DEF LeaseInv, HolderHasLease
  <1>8. OneHolder'
    BY <1>2, <1>5, <1>6 DEF LeaseInv, OneHolder
  <1>9. OnlyTailDeploys'
    <2>1. ~Deploying(job[c]) \/ job[c] \in abandoned \/ Outlasts(job[c])
      BY <1>1, <1>3 DEF Key
    <2>2. \A d \in Consumer : pc'[d] \in Holding => d = c \/ pc'[d] = pc[d]
      BY <1>4 DEF Goto, Idle
    <2>3. QED
      BY <1>5, <1>6, <2>1, <2>2 DEF LeaseInv, OnlyTailDeploys, Deploying, Outlasts
  <1>10. LeaseSpansDeploy'
    <2>1. ASSUME NEW r \in Run, Deploying(r), r \notin abandoned, ~Outlasts(r)
          PROVE  holder'[TargetOf[r]] = holder[TargetOf[r]] /\ left'[TargetOf[r]] = left[TargetOf[r]]
      BY <1>3, <1>4, <2>1, LeaseFacts
    <2>2. QED
      BY <2>1 DEF LeaseInv, LeaseSpansDeploy, Deploying, Outlasts
  <1>11. QED
    BY <1>7, <1>8, <1>9, <1>10 DEF LeaseInv

(* Releasing it in `finally': the run's own deploy is over or abandoned, and *)
(* the lease was this run's, so no other deploy loses its cover.            *)
LEMMA ReleaseKeepsLease ==
    ASSUME TypeOK, LeaseInv, NEW c \in Consumer, pc[c] \in {"release", "rerelease"},
           Release(Key(c), job[c]),
           UNCHANGED <<cont, life, abandoned>>,
           Goto(c, "ack") \/ Idle(c)
    PROVE  LeaseInv'
  <1> DEFINE t == Key(c)
  <1>1. /\ pc[c] \in Holding /\ job[c] \in Run /\ t \in Target /\ holder[t] = job[c]
        /\ ~Deploying(job[c]) \/ job[c] \in abandoned \/ Outlasts(job[c])
    BY LeaseFacts DEF LeaseInv, HolderHasLease, OnlyTailDeploys, Holding
  <1>2. \A u \in Target : u # t => holder'[u] = holder[u] /\ left'[u] = left[u]
    BY <1>1 DEF Release, TypeOK, LockTypeOK, lockVars
  <1>3. \A r \in Run : Deploying(r) /\ r \notin abandoned /\ ~Outlasts(r) =>
           TargetOf[r] # t /\ TargetOf[r] \in Target
    BY <1>1, LeaseFacts DEF LeaseInv, LeaseSpansDeploy
  <1>4. \A d \in Consumer : pc'[d] \in Holding => d # c /\ pc[d] \in Holding
    BY DEF Goto, Idle, Holding, InRunner, TypeOK
  <1>5. \A d \in Consumer : d # c =>
           pc'[d] = pc[d] /\ job'[d] = job[d] /\ held'[d] = held[d] /\ Key(d)' = Key(d)
    BY DEF Goto, Idle, Key, TypeOK
  <1>6. \A d \in Consumer : pc'[d] \in Holding => Key(d) # t /\ Key(d) \in Target
    BY <1>1, <1>4, LeaseFacts DEF LeaseInv, OneHolder
  <1>7. HolderHasLease'
    BY <1>2, <1>4, <1>5, <1>6 DEF LeaseInv, HolderHasLease
  <1>8. OneHolder' /\ OnlyTailDeploys'
    BY <1>4, <1>5 DEF LeaseInv, OneHolder, OnlyTailDeploys, Deploying, Outlasts
  <1>9. LeaseSpansDeploy'
    BY <1>2, <1>3 DEF LeaseInv, LeaseSpansDeploy, Deploying, Outlasts
  <1>10. QED
    BY <1>7, <1>8, <1>9 DEF LeaseInv

(* The container accepts the run: its lease is at most MaxInvocation old.   *)
LEMMA PostKeepsLease ==
    ASSUME TypeOK, LeaseInv, InvocationFits, NEW c \in Consumer, Post(c)
    PROVE  LeaseInv'
  <1> DEFINE t == Key(c)
  <1>1. /\ pc[c] \in Holding /\ job[c] \in Run /\ t \in Target /\ holder[t] = job[c]
        /\ left[t] + held[c] >= LockTTL /\ held[c] <= MaxInvocation
    BY LeaseFacts DEF LeaseInv, HolderHasLease, Holding, InRunner, Post
  <1>2. /\ cont' = [cont EXCEPT ![job[c]] = "active"]
        /\ life' = [life EXCEPT ![job[c]] = 0]
        /\ pc' = [pc EXCEPT ![c] = "tail"]
        /\ UNCHANGED <<lockVars, job, held, abandoned>>
        /\ cont \in [Run -> {"off", "booted", "active", "done", "dead"}]
        /\ life \in [Run -> 0 .. HardKill] /\ pc \in [Consumer -> PC]
    BY DEF Post, AcceptRun, Goto, TypeOK, ContainerTypeOK
  <1>3. \A d \in Consumer : /\ pc'[d] \in Holding => pc[d] \in Holding
                            /\ Key(d)' = Key(d)
    BY <1>1, <1>2 DEF Key
  <1>4. HolderHasLease' /\ OneHolder'
    BY <1>2, <1>3 DEF LeaseInv, HolderHasLease, OneHolder, lockVars
  <1>5. OnlyTailDeploys'
    <2>1. \A d \in Consumer : pc[d] \in Holding /\ job[d] = job[c] => d = c
      BY <1>1 DEF LeaseInv, OneHolder, Key
    <2>2. QED
      BY <1>2, <1>3, <2>1 DEF LeaseInv, OnlyTailDeploys, Deploying, Outlasts
  <1>6. LeaseSpansDeploy'
    <2>1. left[t] + 0 + MaxInvocation >= LockTTL
      BY <1>1, LeaseFacts
    <2>2. QED
      BY <1>1, <1>2, <2>1 DEF LeaseInv, LeaseSpansDeploy, Deploying, Outlasts, Key, lockVars
  <1>7. QED
    BY <1>4, <1>5, <1>6 DEF LeaseInv

(* Time passes: the lease and the timer it must outlive move together, for  *)
(* neither an invocation nor a container goes past its limit.               *)
LEMMA TickKeepsLease ==
    ASSUME TypeOK, LeaseInv, InvocationFits, Tick
    PROVE  LeaseInv'
  <1>1. /\ left' = [t \in Target |-> Down(left[t])]
        /\ life' = [r \in Run |-> IF cont[r] = "active" THEN life[r] + 1 ELSE life[r]]
        /\ held' = [c \in Consumer |-> IF pc[c] = "idle" THEN held[c] ELSE held[c] + 1]
        /\ UNCHANGED <<holder, cont, pc, job, abandoned>>
        /\ \A r \in Run : cont[r] = "active" => life[r] < HardKill
    BY DEF Tick, LeaseTick, ContainerTick, ContainerMayTick
  <1>2. ASSUME NEW c \in Consumer, pc[c] \in Holding
        PROVE  left'[Key(c)] + held'[c] >= LockTTL
    <2>1. left[Key(c)] + held[c] >= LockTTL /\ Key(c) \in Target /\ pc[c] # "idle"
      BY <1>2, LeaseFacts DEF LeaseInv, HolderHasLease, Holding, InRunner
    <2>2. left'[Key(c)] = left[Key(c)] - 1 /\ held'[c] = held[c] + 1
      BY <1>1, <2>1, LeaseFacts DEF InvocationFits, Down
    <2>3. QED
      BY <2>1, <2>2, LeaseFacts
  <1>3. ASSUME NEW r \in Run, Deploying(r)
        PROVE  life'[r] = life[r] + 1 /\ (Outlasts(r) => Outlasts(r)')
    <2>1. life'[r] = life[r] + 1
      BY <1>1, <1>3 DEF Deploying
    <2>2. QED
      BY <2>1, LeaseFacts DEF Outlasts
  <1>4. ASSUME NEW r \in Run, Deploying(r), r \notin abandoned, ~Outlasts(r)
        PROVE  /\ holder[TargetOf[r]] = r
               /\ left'[TargetOf[r]] + life'[r] + MaxInvocation >= LockTTL
    <2>1. /\ holder[TargetOf[r]] = r /\ TargetOf[r] \in Target
          /\ left[TargetOf[r]] + life[r] + MaxInvocation >= LockTTL
      BY <1>4, LeaseFacts DEF LeaseInv, LeaseSpansDeploy
    <2>2. left'[TargetOf[r]] = left[TargetOf[r]] - 1
      BY <1>1, <1>4, <2>1, LeaseInvSuffices DEF Live, Down
    <2>3. QED
      BY <1>3, <1>4, <2>1, <2>2, LeaseFacts
  <1>5. HolderHasLease' /\ OneHolder'
    BY <1>1, <1>2 DEF LeaseInv, HolderHasLease, OneHolder, Key
  <1>6. OnlyTailDeploys'
    BY <1>1, <1>3, LeaseFacts DEF LeaseInv, OnlyTailDeploys, Deploying
  <1>7. LeaseSpansDeploy'
    BY <1>1, <1>3, <1>4 DEF LeaseSpansDeploy, Deploying
  <1>8. QED
    BY <1>5, <1>6, <1>7 DEF LeaseInv

LEMMA ConsumeKeepsLease ==
    ASSUME TypeOK, LeaseInv, InvocationFits, NEW c \in Consumer, Consume(c)
    PROVE  LeaseInv'
  <1> USE DEF Holding, InRunner, Early, containerVars, runnerVars, backstopVars
  <1>1. pc[c] \in Holding \ {"tail"} => ~Deploying(job[c]) \/ job[c] \in abandoned \/ Outlasts(job[c])
    BY DEF LeaseInv, OnlyTailDeploys
  <1>2. ASSUME pc[c] \in Holding \ {"tail"}, NEW l \in Holding, Goto(c, l),
               UNCHANGED <<lockVars, cont, life, abandoned>>
        PROVE  LeaseInv'
    BY <1>1, <1>2, MoveKeepsLease
  <1>3. CASE Deliver(c)
    BY <1>3, LeaseFacts
       DEF Deliver, LeaseInv, HolderHasLease, OneHolder, OnlyTailDeploys, LeaseSpansDeploy,
           Deploying, Outlasts, Key, lockVars, TypeOK
  <1>4. CASE Read(c) \/ Defer(c) \/ Requeue(c) \/ Ack(c) \/ UnlockThrows(c) \/ Dies(c)
    BY <1>4, LeavingKeepsLease DEF Read, Defer, Requeue, Ack, UnlockThrows, Dies, Redeliver
  <1>5. CASE TakeLock(c)
    BY <1>5, AcquireKeepsLease DEF TakeLock
  <1>6. CASE EarlyThrow(c)
    BY <1>6, AcquireKeepsLease, LeavingKeepsLease DEF EarlyThrow, Redeliver
  <1>7. CASE Start(c) \/ LoadGone(c) \/ LoadJob(c)
    BY <1>7, <1>2 DEF Start, LoadGone, LoadJob
  <1>8. CASE RunnerRecords(c) \/ Record(c) \/ BodyThrow(c) \/ Fail(c)
    BY <1>8, <1>2 DEF RunnerRecords, Record, BodyThrow, Fail
  <1>9. CASE Boot(c)
    BY <1>9, LeaseFacts
       DEF Boot, BootContainer, Goto, LeaseInv, HolderHasLease, OneHolder, OnlyTailDeploys,
           LeaseSpansDeploy, Deploying, Outlasts, Key, lockVars, TypeOK, ContainerTypeOK
  <1>10. CASE Arm(c)
    BY <1>10, <1>2 DEF Arm, ArmBackstop
  <1>11. CASE Post(c)
    BY <1>11, PostKeepsLease
  <1>12. CASE Relayed(c)
    BY <1>12, LeaseFacts
       DEF Relayed, LeaseInv, HolderHasLease, OneHolder, OnlyTailDeploys, LeaseSpansDeploy,
           Deploying, Outlasts, Key, lockVars, TypeOK
  <1>13. CASE CallRejects(c)
    <2>1. /\ pc[c] \in Holding /\ Goto(c, "fail") /\ UNCHANGED <<lockVars, cont, life>>
          /\ abandoned \subseteq abandoned'
          /\ ~Deploying(job[c]) \/ job[c] \in abandoned' \/ Outlasts(job[c])
      BY <1>13 DEF CallRejects, Deploying
    <2>2. QED
      BY <2>1, MoveKeepsLease
  <1>14. CASE RelayThrows(c)
    <2>1. /\ pc[c] \in Holding /\ Goto(c, "fail") /\ UNCHANGED <<lockVars, cont, life, abandoned>>
          /\ ~Deploying(job[c]) \/ job[c] \in abandoned \/ Outlasts(job[c])
      BY <1>1, <1>14 DEF RelayThrows, Deploying
    <2>2. QED
      BY <2>1, MoveKeepsLease
  <1>15. CASE Unlock(c)
    BY <1>15, ReleaseKeepsLease DEF Unlock, Redeliver
  <1>16. QED
    BY <1>3, <1>4, <1>5, <1>6, <1>7, <1>8, <1>9, <1>10, <1>11, <1>12, <1>13, <1>14, <1>15
       DEF Consume

LEMMA StepKeepsLease ==
    ASSUME TypeOK, LeaseInv, InvocationFits, [Next]_vars
    PROVE  LeaseInv'
  <1> USE DEF containerVars, runnerVars, backstopVars, invocationVars
  <1>1. ASSUME NEW c \in Consumer, Consume(c) PROVE LeaseInv'
    BY <1>1, ConsumeKeepsLease
  <1>2. ASSUME NEW r \in Run, RunStep(r) PROVE LeaseInv'
    <2>1. CASE Trigger(r) \/ Send(r) \/ ProducerDies(r)
      BY <2>1, QuietContainerKeepsLease DEF Trigger, Send, ProducerDies, Deploying
    <2>2. CASE RunnerStep(r)
      BY <2>2, QuietContainerKeepsLease
         DEF RunnerStep, RunnerFinish, ContainerStops, Deploying, TypeOK, ContainerTypeOK
    <2>3. CASE Backstop(r) \/ BackstopFails(r)
      BY <2>3, QuietContainerKeepsLease
         DEF Backstop, BackstopFails, BackstopCheck, BackstopFinish, BackstopLost, Deploying
    <2>4. QED
      BY <1>2, <2>1, <2>2, <2>3 DEF RunStep
  <1>3. CASE Sweep \/ Registry
    BY <1>3, QuietContainerKeepsLease
       DEF Sweep, Registry, RemoveEnv, RegisterEnv, RemoveApp, RegisterApp, Deploying
  <1>4. CASE Tick
    BY <1>4, TickKeepsLease
  <1>5. CASE UNCHANGED vars
    BY <1>5, QuietContainerKeepsLease DEF vars, Deploying
  <1>6. QED
    BY <1>1, <1>2, <1>3, <1>4, <1>5 DEF Next

(* From acquire() on an invocation has its target's lease, alone, and the    *)
(* lease spans what is left of the container that far (DeployLock.ts,        *)
(* run-lifecycle.ts).                                                        *)
THEOREM LeaseInvariant ==
    ASSUME InvocationFits
    PROVE  Spec => []LeaseInv
  <1>1. TypeInv /\ LeaseInv /\ [Next]_vars => LeaseInv'
    BY StepKeepsLease DEF TypeInv
  <1>2. QED
    BY <1>1, InitLease, TypeInvariant, PTL DEF Spec

(* The lock is a mutex for the consumer: of the invocations between          *)
(* acquire() and release() for one (app, env) there is never a second.       *)
THEOREM LockIsMutex ==
    ASSUME InvocationFits
    PROVE  Spec => []OneHolder
  <1>1. LeaseInv => OneHolder
    BY DEF LeaseInv
  <1>2. QED
    BY <1>1, LeaseInvariant, PTL

(* A container that still works for a run its invocation has not given up    *)
(* is under a live lease of that run for the first TTL minus limit of its    *)
(* life (DeployLock.ts), whatever dies or is redelivered and however long    *)
(* containers may live, if an invocation cannot outlive a lease.             *)
THEOREM LeaseCovers ==
    ASSUME InvocationFits
    PROVE  Spec => []LeaseCoversDeploy
  <1>1. TypeInv /\ LeaseInv => LeaseCoversDeploy
    BY LeaseInvSuffices DEF TypeInv, LeaseCoversDeploy
  <1>2. QED
    BY <1>1, LeaseInvariant, TypeInvariant, PTL

(* Hence per-target exclusion with the timers as deployed, which add up to   *)
(* exactly the TTL: two such containers work on one target at most at the    *)
(* moment at which the platform kills one of them.                           *)
THEOREM Exclusion ==
    ASSUME InvocationFits, TimersFit
    PROVE  Spec => []ExclusiveDeploy
  <1>1. ASSUME TypeInv, NEW r \in Run, life[r] < HardKill PROVE ~Outlasts(r)
    BY <1>1, LeaseFacts DEF TypeInv, TimersFit, Outlasts
  <1>2. TypeInv /\ LeaseCoversDeploy => ExclusiveDeploy
    BY <1>1 DEF LeaseCoversDeploy, ExclusiveDeploy, AtWork
  <1>3. QED
    BY <1>2, LeaseCovers, TypeInvariant, PTL

(* Only a call that rejects under a live deploy gives a run up: until one    *)
(* has, the lock keeps what DeployLock.ts:4 promises, up to the hard kill.   *)
ExclusiveUntilLostCall ==
    faults["rpc"] = Budget["rpc"] =>
        \A r1, r2 \in Run :
            /\ Deploying(r1) /\ life[r1] < HardKill
            /\ Deploying(r2) /\ life[r2] < HardKill
            /\ TargetOf[r1] = TargetOf[r2]
            => r1 = r2

LossesCounted ==
    /\ faults["rpc"] \in Nat /\ faults["rpc"] <= Budget["rpc"]
    /\ abandoned # {} => faults["rpc"] < Budget["rpc"]

LEMMA LossesCountedStep ==
    ASSUME TypeInv, TypeInv', LossesCounted, [Next]_vars
    PROVE  LossesCounted'
  <1>1. /\ faults \in [Disturbance -> Nat] /\ faults' \in [Disturbance -> Nat]
        /\ "rpc" \in Disturbance /\ Budget["rpc"] \in Nat
    BY ConsumerAssumption DEF TypeInv, TypeOK, Disturbance
  <1>2. ASSUME NEW k, Strike(k) PROVE faults'["rpc"] <= faults["rpc"]
    BY <1>1, <1>2 DEF Strike
  <1>3. ASSUME NEW c \in Consumer, CallRejects(c) PROVE LossesCounted'
    <2>1. faults["rpc"] > 0 /\ faults'["rpc"] = faults["rpc"] - 1
      BY <1>1, <1>3 DEF CallRejects, Strike
    <2>2. QED
      BY <1>1, <2>1 DEF LossesCounted
  <1>4. ASSUME abandoned' = abandoned, UNCHANGED faults \/ \E k \in Disturbance : Strike(k)
        PROVE  LossesCounted'
    <2>1. faults'["rpc"] <= faults["rpc"]
      BY <1>1, <1>2, <1>4
    <2>2. QED
      BY <1>1, <1>4, <2>1 DEF LossesCounted
  <1>5. ASSUME NEW c \in Consumer, Consume(c), ~CallRejects(c)
        PROVE  abandoned' = abandoned /\ (UNCHANGED faults \/ \E k \in Disturbance : Strike(k))
    <2>1. CASE Deliver(c) \/ Read(c) \/ TakeLock(c) \/ Defer(c) \/ Requeue(c) \/ Ack(c) \/ EarlyThrow(c)
      BY <2>1 DEF Deliver, Read, TakeLock, Defer, Requeue, Ack, EarlyThrow, Disturbance
    <2>2. CASE Start(c) \/ LoadGone(c) \/ LoadJob(c) \/ Boot(c) \/ Arm(c) \/ Post(c)
      BY <2>2 DEF Start, LoadGone, LoadJob, Boot, Arm, Post
    <2>3. CASE Relayed(c) \/ RunnerRecords(c) \/ Record(c) \/ RelayThrows(c) \/ BodyThrow(c)
      BY <2>3 DEF Relayed, RunnerRecords, Record, RelayThrows, BodyThrow, Disturbance
    <2>4. CASE Fail(c) \/ Unlock(c) \/ UnlockThrows(c) \/ Dies(c)
      BY <2>4 DEF Fail, Unlock, UnlockThrows, Dies, Disturbance
    <2>5. QED
      BY <1>5, <2>1, <2>2, <2>3, <2>4 DEF Consume
  <1>6. ASSUME NEW r \in Run, RunStep(r)
        PROVE  abandoned' = abandoned /\ (UNCHANGED faults \/ \E k \in Disturbance : Strike(k))
    BY <1>6 DEF RunStep, Trigger, Send, ProducerDies, RunnerStep, Backstop, BackstopFails, Disturbance
  <1>7. ASSUME Sweep \/ Registry \/ Tick \/ UNCHANGED vars
        PROVE  abandoned' = abandoned /\ (UNCHANGED faults \/ \E k \in Disturbance : Strike(k))
    BY <1>7 DEF Sweep, Registry, RemoveEnv, RemoveApp, RegisterEnv, RegisterApp, Tick, vars, Disturbance
  <1>8. QED
    BY <1>3, <1>4, <1>5, <1>6, <1>7 DEF Next

(* While no startRun has rejected (run-lifecycle.ts, catch and finally), no *)
(* two containers are at work on one target, but for one at its hard kill.  *)
THEOREM ExclusionUntilLostCall ==
    ASSUME InvocationFits, TimersFit
    PROVE  Spec => []ExclusiveUntilLostCall
  <1>1. Init => LossesCounted
    BY ConsumerAssumption DEF Init, LossesCounted, Disturbance
  <1>2. LossesCounted /\ ExclusiveDeploy => ExclusiveUntilLostCall
    BY DEF LossesCounted, ExclusiveDeploy, AtWork, ExclusiveUntilLostCall
  <1>3. QED
    BY <1>1, <1>2, LossesCountedStep, Exclusion, TypeInvariant, PTL DEF Spec

-----------------------------------------------------------------------------
(* What a run has been through, told from where its invocations stand.  A   *)
(* row leaves `pending' through one invocation only, the one whose guarded  *)
(* UPDATE moved it: until that one has posted it, the run's container has   *)
(* not accepted it.  None of this rests on the lock or on its timers.       *)
Launching == {"load", "boot", "arm", "post"}
PastStart == Launching \cup {"tail", "rfinish", "record", "release"}

KnownRuns ==
    /\ \A m \in queue : status[m.run] # "absent"
    /\ \A r \in unsent : status[r] # "absent"
    /\ \A c \in Consumer : pc[c] # "idle" => status[job[c]] # "absent"
StartedRuns == \A c \in Consumer : pc[c] \in PastStart => status[job[c]] # "pending"
NothingBeforeStart ==
    \A r \in Run : status[r] \in {"absent", "pending"} => cont[r] = "off" /\ phase[r] = "off"
NotAcceptedYet ==
    \A c \in Consumer : pc[c] \in Launching => cont[job[c]] \in {"off", "booted"}
OneLauncher ==
    \A c, d \in Consumer : pc[c] \in Launching /\ pc[d] \in Launching /\ job[c] = job[d] => c = d
ExecInv == KnownRuns /\ StartedRuns /\ NothingBeforeStart /\ NotAcceptedYet /\ OneLauncher

(* A row never returns to `absent' or `pending', and leaves `absent' only    *)
(* when it is created.                                                       *)
LEMMA RowsAdvance ==
    ASSUME TypeInv, NoExitUntilSettled, [Next]_vars, NEW r \in Run
    PROVE  /\ status[r] # "absent" => status'[r] # "absent"
           /\ status[r] \notin {"absent", "pending"} => status'[r] \notin {"absent", "pending"}
  <1>1. Row!RowStep(r)
    BY StepFollowsLifecycle DEF Row!Next
  <1>2. QED
    BY <1>1 DEF Row!RowStep, Row!Stays, Row!Created, Row!Started, Row!Finished, Row!Removed

LEMMA KnownRunsStep ==
    ASSUME TypeInv, NoExitUntilSettled, KnownRuns, [Next]_vars
    PROVE  KnownRuns'
  <1>1. \A r \in Run : status[r] # "absent" => status'[r] # "absent"
    BY RowsAdvance
  <1>2. /\ queue \subseteq Message /\ unsent \subseteq Run /\ InvocationTypeOK /\ TableTypeOK
        /\ \A m \in queue : m.run \in Run
    BY TypeOKParts DEF TypeInv, Message
  <1>3. ASSUME queue' \subseteq queue, unsent' \subseteq unsent,
               \A c \in Consumer : pc'[c] # "idle" => pc[c] # "idle" /\ job'[c] = job[c]
        PROVE  KnownRuns'
    BY <1>1, <1>2, <1>3 DEF KnownRuns, InvocationTypeOK
  <1>4. ASSUME NEW c \in Consumer, Consume(c) PROVE KnownRuns'
    <2>1. CASE Deliver(c)
      <3>1. PICK m \in queue :
               /\ queue' \subseteq queue
               /\ pc' = [pc EXCEPT ![c] = "read"]
               /\ job' = [job EXCEPT ![c] = m.run]
        BY <2>1 DEF Deliver
      <3>2. unsent' = unsent /\ status' = status
        BY <2>1 DEF Deliver, tableVars
      <3>3. QED
        BY <1>2, <3>1, <3>2 DEF KnownRuns, InvocationTypeOK
    <2>2. ASSUME UNCHANGED unsent,
                 \/ \E l \in PC : pc[c] # "idle" /\ Goto(c, l) /\ UNCHANGED queue
                 \/ pc[c] # "idle" /\ Redeliver(c)
                 \/ Idle(c) /\ UNCHANGED queue
                 \/ /\ pc[c] # "idle" /\ Goto(c, "ack")
                    /\ queue' = queue \cup {[run |-> job[c], tries |-> 0]}
          PROVE  KnownRuns'
      <3>1. \A d \in Consumer : pc'[d] # "idle" => pc[d] # "idle" /\ job'[d] = job[d]
        BY <1>2, <2>2 DEF Goto, Redeliver, Idle, InvocationTypeOK
      <3>2. \A m \in queue' : m \in queue \/ (m.run = job[c] /\ pc[c] # "idle")
        BY <2>2 DEF Redeliver
      <3>3. QED
        BY <1>1, <1>2, <2>2, <3>1, <3>2 DEF KnownRuns, InvocationTypeOK
    <2> USE <2>2 DEF PC, Holding, Early, InRunner
    <2>3. CASE Read(c) \/ TakeLock(c) \/ Defer(c) \/ Requeue(c) \/ Ack(c) \/ EarlyThrow(c)
      BY <2>3 DEF Read, TakeLock, Defer, Requeue, Ack, EarlyThrow
    <2>4. CASE Start(c) \/ LoadGone(c) \/ LoadJob(c) \/ Boot(c) \/ Arm(c) \/ Post(c)
      BY <2>4 DEF Start, LoadGone, LoadJob, Boot, Arm, Post
    <2>5. CASE Relayed(c)
      BY <1>2, <1>3, <2>5 DEF Relayed, InvocationTypeOK
    <2>6. CASE RunnerRecords(c) \/ Record(c) \/ CallRejects(c) \/ RelayThrows(c) \/ BodyThrow(c)
      BY <2>6 DEF RunnerRecords, Record, CallRejects, RelayThrows, BodyThrow
    <2>7. CASE Fail(c) \/ Unlock(c) \/ UnlockThrows(c) \/ Dies(c)
      BY <2>7 DEF Fail, Unlock, UnlockThrows, Dies
    <2>8. QED
      BY <1>4, <2>1, <2>3, <2>4, <2>5, <2>6, <2>7 DEF Consume
  <1>5. ASSUME NEW r \in Run, RunStep(r) PROVE KnownRuns'
    <2> USE <1>2, <1>3 DEF invocationVars
    <2>1. CASE Trigger(r)
      BY <1>1, <2>1 DEF Trigger, CreateRun, KnownRuns, TableTypeOK, InvocationTypeOK
    <2>2. CASE Send(r)
      BY <2>2 DEF Send, KnownRuns, tableVars
    <2>3. CASE ProducerDies(r) \/ RunnerStep(r) \/ Backstop(r) \/ BackstopFails(r)
      BY <2>3 DEF ProducerDies, RunnerStep, Backstop, BackstopFails
    <2>4. QED
      BY <1>5, <2>1, <2>2, <2>3 DEF RunStep
  <1>6. CASE Sweep \/ Registry \/ Tick
    BY <1>3, <1>6 DEF Sweep, Registry, RemoveEnv, RegisterEnv, RemoveApp, RegisterApp, Tick,
                      invocationVars
  <1>7. CASE UNCHANGED vars
    BY <1>3, <1>7 DEF vars, invocationVars
  <1>8. QED
    BY <1>4, <1>5, <1>6, <1>7 DEF Next

LEMMA StartedRunsStep ==
    ASSUME TypeInv, NoExitUntilSettled, KnownRuns, StartedRuns, [Next]_vars
    PROVE  StartedRuns'
  <1>1. \A r \in Run : status[r] \notin {"absent", "pending"} => status'[r] \notin {"absent", "pending"}
    BY RowsAdvance
  <1>2. InvocationTypeOK /\ TableTypeOK
    BY TypeOKParts DEF TypeInv
  <1> USE <1>2 DEF InvocationTypeOK, PastStart, Launching
  <1>3. ASSUME \A c \in Consumer : pc'[c] \in PastStart =>
                  job'[c] = job[c] /\ (pc[c] \in PastStart \/ status'[job[c]] # "pending")
        PROVE  StartedRuns'
    BY <1>1, <1>3 DEF StartedRuns, KnownRuns
  <1>4. UNCHANGED <<pc, job>> => StartedRuns'
    BY <1>3
  <1>5. ASSUME NEW c \in Consumer, Consume(c) PROVE StartedRuns'
    <2>1. ASSUME \/ \E l \in PC \ PastStart : Goto(c, l)
                 \/ pc[c] \in PastStart /\ \E l \in PC : Goto(c, l)
                 \/ Idle(c)
          PROVE  StartedRuns'
      BY <1>3, <2>1 DEF Goto, Idle
    <2> USE <2>1 DEF PC, Holding, Early, InRunner
    <2>2. CASE Deliver(c)
      <3>1. pc' = [pc EXCEPT ![c] = "read"] /\ \A d \in Consumer \ {c} : job'[d] = job[d]
        BY <2>2 DEF Deliver
      <3>2. QED
        BY <1>3, <3>1
    <2>3. CASE Read(c) \/ TakeLock(c) \/ Defer(c) \/ Requeue(c) \/ Ack(c) \/ EarlyThrow(c)
      BY <2>3 DEF Read, TakeLock, Defer, Requeue, Ack, EarlyThrow, Redeliver
    <2>4. CASE Start(c)
      <3>1. status'[job[c]] # "pending"
        BY <2>4 DEF Start, MarkRunStarted, TableTypeOK, tableVars
      <3>2. QED
        BY <1>3, <2>4, <3>1 DEF Start, Goto
    <2>5. CASE LoadGone(c) \/ LoadJob(c) \/ Boot(c) \/ Arm(c) \/ Post(c)
      BY <2>5 DEF LoadGone, LoadJob, Boot, Arm, Post
    <2>6. CASE Relayed(c)
      BY <1>3, <2>6 DEF Relayed
    <2>7. CASE RunnerRecords(c) \/ Record(c) \/ CallRejects(c) \/ RelayThrows(c) \/ BodyThrow(c)
      BY <2>7 DEF RunnerRecords, Record, CallRejects, RelayThrows, BodyThrow
    <2>8. CASE Fail(c)
      <3>1. MarkRunFinished(job[c], FailedNoExit) => status'[job[c]] # "pending"
        BY <2>8 DEF Fail, MarkRunFinished, TableTypeOK, tableVars, IsOpen, FailedNoExit
      <3>2. QED
        BY <1>3, <2>8, <3>1 DEF Fail, Goto
    <2>9. CASE Unlock(c) \/ UnlockThrows(c) \/ Dies(c)
      BY <2>9 DEF Unlock, UnlockThrows, Dies, Redeliver
    <2>10. QED
      BY <1>5, <2>2, <2>3, <2>4, <2>5, <2>6, <2>7, <2>8, <2>9 DEF Consume
  <1>6. ASSUME NEW r \in Run, RunStep(r) PROVE StartedRuns'
    BY <1>4, <1>6 DEF RunStep, Trigger, Send, ProducerDies, RunnerStep, Backstop, BackstopFails,
                      invocationVars
  <1>7. CASE Sweep \/ Registry \/ Tick
    BY <1>4, <1>7 DEF Sweep, Registry, RemoveEnv, RegisterEnv, RemoveApp, RegisterApp, Tick,
                      invocationVars
  <1>8. CASE UNCHANGED vars
    BY <1>4, <1>8 DEF vars, invocationVars
  <1>9. QED
    BY <1>5, <1>6, <1>7, <1>8 DEF Next

(* Nothing but Boot, Arm and Post wakes a container or its backstop, and an  *)
(* invocation at those steps has moved the row out of `pending'.             *)
LEMMA NothingBeforeStartStep ==
    ASSUME TypeInv, NoExitUntilSettled, KnownRuns, StartedRuns, NothingBeforeStart, [Next]_vars
    PROVE  NothingBeforeStart'
  <1>1. \A r \in Run : status[r] \notin {"absent", "pending"} => status'[r] \notin {"absent", "pending"}
    BY RowsAdvance
  <1>2. InvocationTypeOK /\ ContainerTypeOK
    BY TypeOKParts DEF TypeInv
  <1> USE <1>2 DEF InvocationTypeOK, ContainerTypeOK, PastStart, Launching, containerVars,
                   runnerVars, backstopVars
  <1>3. ASSUME \A r \in Run : cont[r] = "off" /\ phase[r] = "off" =>
                  cont'[r] = "off" /\ phase'[r] = "off"
        PROVE  NothingBeforeStart'
    BY <1>1, <1>3 DEF NothingBeforeStart
  <1>4. UNCHANGED <<cont, phase>> => NothingBeforeStart'
    BY <1>3
  <1>5. ASSUME NEW c \in Consumer, Consume(c) PROVE NothingBeforeStart'
    <2>1. CASE Boot(c) \/ Arm(c) \/ Post(c)
      <3>1. job[c] \in Run /\ status[job[c]] \notin {"absent", "pending"}
        BY <2>1 DEF Boot, Arm, Post, KnownRuns, StartedRuns
      <3>2. \A r \in Run \ {job[c]} : cont'[r] = cont[r] /\ phase'[r] = phase[r]
        BY <2>1 DEF Boot, BootContainer, Arm, ArmBackstop, Post, AcceptRun
      <3>3. QED
        BY <1>1, <3>1, <3>2 DEF NothingBeforeStart
    <2>2. CASE Deliver(c) \/ Read(c) \/ TakeLock(c) \/ Defer(c) \/ Requeue(c) \/ Ack(c) \/ EarlyThrow(c)
      BY <1>4, <2>2 DEF Deliver, Read, TakeLock, Defer, Requeue, Ack, EarlyThrow
    <2>3. CASE Start(c) \/ LoadGone(c) \/ LoadJob(c) \/ Relayed(c) \/ RunnerRecords(c) \/ Record(c)
      BY <1>4, <2>3 DEF Start, LoadGone, LoadJob, Relayed, RunnerRecords, Record
    <2>4. CASE CallRejects(c) \/ RelayThrows(c) \/ BodyThrow(c) \/ Fail(c) \/ Unlock(c) \/ UnlockThrows(c)
             \/ Dies(c)
      BY <1>4, <2>4 DEF CallRejects, RelayThrows, BodyThrow, Fail, Unlock, UnlockThrows, Dies
    <2>5. QED
      BY <1>5, <2>1, <2>2, <2>3, <2>4 DEF Consume
  <1>6. ASSUME NEW r \in Run, RunStep(r) PROVE NothingBeforeStart'
    <2>1. CASE Trigger(r) \/ Send(r) \/ ProducerDies(r)
      BY <1>4, <2>1 DEF Trigger, Send, ProducerDies
    <2>2. CASE RunnerStep(r)
      BY <1>3, <2>2 DEF RunnerStep, RunnerFinish, ContainerStops
    <2>3. CASE Backstop(r) \/ BackstopFails(r)
      BY <1>3, <2>3 DEF Backstop, BackstopFails, BackstopCheck, BackstopFinish, BackstopLost
    <2>4. QED
      BY <1>6, <2>1, <2>2, <2>3 DEF RunStep
  <1>7. CASE Sweep \/ Registry \/ Tick
    BY <1>4, <1>7 DEF Sweep, Registry, RemoveEnv, RegisterEnv, RemoveApp, RegisterApp, Tick,
                      ContainerTick
  <1>8. CASE UNCHANGED vars
    BY <1>4, <1>8 DEF vars
  <1>9. QED
    BY <1>5, <1>6, <1>7, <1>8 DEF Next

(* While an invocation is about to launch a run, nobody else is at work on   *)
(* the run's container.                                                      *)
LEMMA NotAcceptedYetStep ==
    ASSUME TypeInv, OneLauncher, KnownRuns, NothingBeforeStart, NotAcceptedYet, [Next]_vars
    PROVE  NotAcceptedYet'
  <1>1. InvocationTypeOK /\ ContainerTypeOK
    BY TypeOKParts DEF TypeInv
  <1> USE <1>1 DEF InvocationTypeOK, ContainerTypeOK, Launching, containerVars, runnerVars
  <1>2. ASSUME \A c \in Consumer : pc'[c] \in Launching => pc[c] \in Launching /\ job'[c] = job[c],
               \A r \in Run : cont[r] \in {"off", "booted"} => cont'[r] \in {"off", "booted"}
        PROVE  NotAcceptedYet'
    BY <1>2 DEF NotAcceptedYet
  <1>3. ASSUME UNCHANGED <<cont, pc, job>> PROVE NotAcceptedYet'
    BY <1>2, <1>3
  <1>4. ASSUME NEW c \in Consumer, Consume(c) PROVE NotAcceptedYet'
    <2>1. ASSUME UNCHANGED cont,
                 \/ \E l \in PC \ Launching : Goto(c, l)
                 \/ pc[c] \in Launching /\ \E l \in PC : Goto(c, l)
                 \/ Idle(c)
          PROVE  NotAcceptedYet'
      BY <1>2, <2>1 DEF Goto, Idle
    <2> USE <2>1 DEF PC, Holding, Early, InRunner
    <2>2. CASE Deliver(c)
      <3>1. /\ pc' = [pc EXCEPT ![c] = "read"] /\ cont' = cont
            /\ \A d \in Consumer \ {c} : job'[d] = job[d]
        BY <2>2 DEF Deliver
      <3>2. QED
        BY <1>2, <3>1
    <2>3. CASE Read(c) \/ TakeLock(c) \/ Defer(c) \/ Requeue(c) \/ Ack(c) \/ EarlyThrow(c)
      BY <2>3 DEF Read, TakeLock, Defer, Requeue, Ack, EarlyThrow, Redeliver
    <2>4. CASE Start(c)
      BY <2>4 DEF Start, Goto, NotAcceptedYet, NothingBeforeStart
    <2>5. CASE LoadGone(c) \/ LoadJob(c) \/ Arm(c)
      BY <2>5 DEF LoadGone, LoadJob, Arm, ArmBackstop
    <2>6. CASE Boot(c)
      BY <1>2, <2>6 DEF Boot, BootContainer, Goto
    <2>7. CASE Post(c)
      <3>1. \A d \in Consumer : pc'[d] \in Launching => d # c /\ pc[d] \in Launching /\ job'[d] = job[d]
        BY <2>7 DEF Post, Goto
      <3>2. \A d \in Consumer : pc'[d] \in Launching => job[d] # job[c]
        BY <2>7, <3>1 DEF OneLauncher, Post
      <3>3. \A r \in Run \ {job[c]} : cont'[r] = cont[r]
        BY <2>7 DEF Post, AcceptRun
      <3>4. QED
        BY <3>1, <3>2, <3>3 DEF NotAcceptedYet
    <2>8. CASE Relayed(c)
      BY <1>2, <2>8 DEF Relayed
    <2>9. CASE RunnerRecords(c) \/ Record(c) \/ CallRejects(c) \/ RelayThrows(c) \/ BodyThrow(c)
      BY <2>9 DEF RunnerRecords, Record, CallRejects, RelayThrows, BodyThrow
    <2>10. CASE Fail(c) \/ Unlock(c) \/ UnlockThrows(c) \/ Dies(c)
      BY <2>10 DEF Fail, Unlock, UnlockThrows, Dies, Redeliver
    <2>11. QED
      BY <1>4, <2>2, <2>3, <2>4, <2>5, <2>6, <2>7, <2>8, <2>9, <2>10 DEF Consume
  <1>5. ASSUME NEW r \in Run, RunStep(r) PROVE NotAcceptedYet'
    <2>1. CASE Trigger(r) \/ Send(r) \/ ProducerDies(r)
      BY <1>3, <2>1 DEF Trigger, Send, ProducerDies, invocationVars
    <2>2. CASE RunnerStep(r)
      BY <1>2, <2>2 DEF RunnerStep, RunnerFinish, ContainerStops, invocationVars
    <2>3. CASE Backstop(r) \/ BackstopFails(r)
      BY <1>3, <2>3 DEF Backstop, BackstopFails, BackstopCheck, BackstopFinish, BackstopLost,
                        invocationVars
    <2>4. QED
      BY <1>5, <2>1, <2>2, <2>3 DEF RunStep
  <1>6. CASE Sweep \/ Registry \/ Tick
    BY <1>3, <1>6 DEF Sweep, Registry, RemoveEnv, RegisterEnv, RemoveApp, RegisterApp, Tick,
                      ContainerTick, invocationVars
  <1>7. CASE UNCHANGED vars
    BY <1>3, <1>7 DEF vars, invocationVars
  <1>8. QED
    BY <1>4, <1>5, <1>6, <1>7 DEF Next

(* The UPDATE that starts a run finds it pending, so nobody else is already  *)
(* launching it; two invocations of one run may both be past acquire().      *)
LEMMA OneLauncherStep ==
    ASSUME TypeInv, StartedRuns, OneLauncher, [Next]_vars
    PROVE  OneLauncher'
  <1>1. InvocationTypeOK
    BY TypeOKParts DEF TypeInv
  <1> USE <1>1 DEF InvocationTypeOK, Launching
  <1>2. ASSUME \A c \in Consumer : pc'[c] \in Launching => pc[c] \in Launching /\ job'[c] = job[c]
        PROVE  OneLauncher'
    BY <1>2 DEF OneLauncher
  <1>3. UNCHANGED <<pc, job>> => OneLauncher'
    BY <1>2
  <1>4. ASSUME NEW c \in Consumer, Consume(c) PROVE OneLauncher'
    <2>1. ASSUME \/ \E l \in PC \ Launching : Goto(c, l)
                 \/ pc[c] \in Launching /\ \E l \in PC : Goto(c, l)
                 \/ Idle(c)
          PROVE  OneLauncher'
      BY <1>2, <2>1 DEF Goto, Idle
    <2> USE <2>1 DEF PC, Holding, Early, InRunner
    <2>2. CASE Deliver(c)
      <3>1. /\ pc' = [pc EXCEPT ![c] = "read"]
            /\ \A d \in Consumer \ {c} : job'[d] = job[d]
        BY <2>2 DEF Deliver
      <3>2. QED
        BY <1>2, <3>1
    <2>3. CASE Read(c) \/ TakeLock(c) \/ Defer(c) \/ Requeue(c) \/ Ack(c) \/ EarlyThrow(c)
      BY <2>3 DEF Read, TakeLock, Defer, Requeue, Ack, EarlyThrow, Redeliver
    <2>4. CASE Start(c)
      <3>1. \A d \in Consumer : pc[d] \in Launching => status[job[d]] # "pending"
        BY DEF StartedRuns, PastStart
      <3>2. /\ job' = job /\ \A d \in Consumer \ {c} : pc'[d] = pc[d]
            /\ pc'[c] \in Launching => status[job[c]] = "pending"
        BY <2>4 DEF Start, Goto
      <3>3. QED
        BY <3>1, <3>2 DEF OneLauncher
    <2>5. CASE LoadGone(c) \/ LoadJob(c) \/ Boot(c) \/ Arm(c) \/ Post(c)
      BY <2>5 DEF LoadGone, LoadJob, Boot, Arm, Post
    <2>6. CASE Relayed(c)
      BY <1>2, <2>6 DEF Relayed
    <2>7. CASE RunnerRecords(c) \/ Record(c) \/ CallRejects(c) \/ RelayThrows(c) \/ BodyThrow(c)
      BY <2>7 DEF RunnerRecords, Record, CallRejects, RelayThrows, BodyThrow
    <2>8. CASE Fail(c) \/ Unlock(c) \/ UnlockThrows(c) \/ Dies(c)
      BY <2>8 DEF Fail, Unlock, UnlockThrows, Dies, Redeliver
    <2>9. QED
      BY <1>4, <2>2, <2>3, <2>4, <2>5, <2>6, <2>7, <2>8 DEF Consume
  <1>5. ASSUME NEW r \in Run, RunStep(r) PROVE OneLauncher'
    BY <1>3, <1>5 DEF RunStep, Trigger, Send, ProducerDies, RunnerStep, Backstop, BackstopFails,
                      invocationVars
  <1>6. CASE Sweep \/ Registry \/ Tick
    BY <1>3, <1>6 DEF Sweep, Registry, RemoveEnv, RegisterEnv, RemoveApp, RegisterApp, Tick,
                      invocationVars
  <1>7. CASE UNCHANGED vars
    BY <1>3, <1>7 DEF vars, invocationVars
  <1>8. QED
    BY <1>4, <1>5, <1>6, <1>7 DEF Next

(* The invariant of the whole lifecycle so far. *)
RunInv == TypeInv /\ NoExitUntilSettled /\ ExecInv

LEMMA RunInvariant == Spec => []RunInv
  <1>1. Init => RunInv
    <2>1. Init => TypeInv
      BY InitType
    <2>2. Init => NoExitUntilSettled /\ ExecInv
      BY DEF Init, TableInit, ContainerInit, NoExitUntilSettled, ExecInv, KnownRuns, StartedRuns,
             NothingBeforeStart, NotAcceptedYet, OneLauncher, PastStart, Launching
    <2>3. QED
      BY <2>1, <2>2 DEF RunInv
  <1>2. ASSUME RunInv, [Next]_vars PROVE RunInv'
    <2>1. TypeInv' /\ NoExitUntilSettled'
      BY <1>2, TypeInvStep, StepFollowsLifecycle DEF RunInv
    <2>2. KnownRuns /\ StartedRuns /\ NothingBeforeStart /\ NotAcceptedYet /\ OneLauncher
      BY <1>2 DEF RunInv, ExecInv
    <2>3. KnownRuns' /\ StartedRuns' /\ NothingBeforeStart' /\ NotAcceptedYet' /\ OneLauncher'
      BY <1>2, <2>2, KnownRunsStep, StartedRunsStep, NothingBeforeStartStep, NotAcceptedYetStep,
         OneLauncherStep DEF RunInv
    <2>4. QED
      BY <2>1, <2>3 DEF RunInv, ExecInv
  <1>3. QED
    BY <1>1, <1>2, PTL DEF Spec

(* Only Boot and Post wake a container, and they find one that has not run. *)
LEMMA AcceptedOnce ==
    ASSUME RunInv, [Next]_vars, NEW r \in Run, cont[r] \in {"active", "done", "dead"}
    PROVE  /\ cont'[r] \in {"active", "done", "dead"}
           /\ cont'[r] = "active" => cont[r] = "active"
           /\ cont[r] # "active" => result'[r] = result[r]
  <1>1. InvocationTypeOK /\ ContainerTypeOK
    BY TypeOKParts DEF RunInv, TypeInv
  <1> USE <1>1 DEF InvocationTypeOK, ContainerTypeOK, Launching, containerVars, runnerVars
  <1>2. ASSUME NEW c \in Consumer, Consume(c), UNCHANGED <<cont, result>> \/ Boot(c) \/ Post(c)
        PROVE  /\ cont'[r] \in {"active", "done", "dead"}
               /\ cont'[r] = "active" => cont[r] = "active"
               /\ cont[r] # "active" => result'[r] = result[r]
    <2>1. CASE Boot(c) \/ Post(c)
      <3>1. job[c] # r
        BY <2>1 DEF RunInv, ExecInv, NotAcceptedYet, Boot, Post
      <3>2. QED
        BY <2>1, <3>1 DEF Boot, BootContainer, Post, AcceptRun
    <2>2. QED
      BY <1>2, <2>1
  <1>3. ASSUME NEW c \in Consumer, Consume(c) PROVE UNCHANGED <<cont, result>> \/ Boot(c) \/ Post(c)
    <2>1. CASE Deliver(c) \/ Read(c) \/ TakeLock(c) \/ Defer(c) \/ Requeue(c) \/ Ack(c) \/ EarlyThrow(c)
      BY <2>1 DEF Deliver, Read, TakeLock, Defer, Requeue, Ack, EarlyThrow
    <2>2. CASE Start(c) \/ LoadGone(c) \/ LoadJob(c) \/ Arm(c) \/ Relayed(c) \/ RunnerRecords(c) \/ Record(c)
      BY <2>2 DEF Start, LoadGone, LoadJob, Arm, ArmBackstop, Relayed, RunnerRecords, Record
    <2>3. CASE CallRejects(c) \/ RelayThrows(c) \/ BodyThrow(c) \/ Fail(c) \/ Unlock(c) \/ UnlockThrows(c)
             \/ Dies(c)
      BY <2>3 DEF CallRejects, RelayThrows, BodyThrow, Fail, Unlock, UnlockThrows, Dies
    <2>4. QED
      BY <1>3, <2>1, <2>2, <2>3 DEF Consume
  <1>4. ASSUME NEW s \in Run, RunStep(s)
        PROVE  /\ cont'[r] \in {"active", "done", "dead"}
               /\ cont'[r] = "active" => cont[r] = "active"
               /\ cont[r] # "active" => result'[r] = result[r]
    <2>1. CASE Trigger(s) \/ Send(s) \/ ProducerDies(s)
      BY <2>1 DEF Trigger, Send, ProducerDies
    <2>2. CASE RunnerStep(s)
      BY <2>2 DEF RunnerStep, RunnerFinish, ContainerStops
    <2>3. CASE Backstop(s) \/ BackstopFails(s)
      BY <2>3 DEF Backstop, BackstopFails, BackstopCheck, BackstopFinish, BackstopLost
    <2>4. QED
      BY <1>4, <2>1, <2>2, <2>3 DEF RunStep
  <1>5. Sweep \/ Registry \/ Tick => UNCHANGED <<cont, result>>
    BY DEF Sweep, Registry, RemoveEnv, RegisterEnv, RemoveApp, RegisterApp, Tick, ContainerTick
  <1>6. UNCHANGED vars => UNCHANGED <<cont, result>>
    BY DEF vars
  <1>7. QED
    BY <1>2, <1>3, <1>4, <1>5, <1>6 DEF Next

(* At most one execution per run, whatever is redelivered or dies, however   *)
(* often the invocation that launched it is replaced, and however long any   *)
(* of them lives: it is the guarded UPDATE that ensures it, not the lock.    *)
THEOREM ExecutedOnce == Spec => AtMostOneExecution
  <1>1. RunInv /\ [Next]_vars =>
          [\A r \in Run :
              cont[r] \in {"active", "done", "dead"} =>
                  /\ cont'[r] # "booted"
                  /\ cont'[r] = "active" => cont[r] = "active"]_vars
    BY AcceptedOnce
  <1>2. QED
    BY <1>1, RunInvariant, PTL DEF Spec, AtMostOneExecution

-----------------------------------------------------------------------------
(* Four writers may settle a row.  Each writes either `failed' without an    *)
(* exit code, or what it read from a container that was over and, accepting  *)
(* no second run, still stands for that outcome.                             *)
Ran(r) == cont[r] \in {"done", "dead"}
Says(r, o) == o = FailedNoExit \/ (Ran(r) /\ o = result[r])

ReportsReal == \A c \in Consumer : pc[c] \in {"rfinish", "record"} => Says(job[c], out[c])
VerdictsReal == \A r \in Run : phase[r] = "finish" => Says(r, verdict[r])
RowsReal ==
    \A r \in Run :
        \/ status[r] # "succeeded" /\ exit[r] = "none"
        \/ Ran(r) /\ exit[r] = result[r].exit /\ (status[r] = "succeeded" => result[r] = Succeeded)
RealInv == ReportsReal /\ VerdictsReal /\ RowsReal

(* What was said of a run stays true of it. *)
LEMMA SayingsStand ==
    ASSUME RunInv, [Next]_vars, NEW r \in Run
    PROVE  /\ Ran(r) => Ran(r)' /\ result'[r] = result[r]
           /\ \A o \in Outcome : Says(r, o) => Says(r, o)'
  <1>1. Ran(r) => Ran(r)' /\ result'[r] = result[r]
    BY AcceptedOnce DEF Ran
  <1>2. QED
    BY <1>1 DEF Says

LEMMA ReportsRealStep ==
    ASSUME RunInv, ReportsReal, [Next]_vars
    PROVE  ReportsReal'
  <1>1. InvocationTypeOK /\ OutcomesKnown
    BY TypeOKParts DEF RunInv, TypeInv
  <1> USE <1>1 DEF InvocationTypeOK
  <1>2. ASSUME \A c \in Consumer : pc'[c] \in {"rfinish", "record"} =>
                  pc[c] \in {"rfinish", "record"} /\ job'[c] = job[c] /\ out'[c] = out[c]
        PROVE  ReportsReal'
    <2>1. ASSUME NEW c \in Consumer, pc'[c] \in {"rfinish", "record"} PROVE Says(job[c], out[c])'
      <3>1. job[c] \in Run /\ out[c] \in Outcome /\ Says(job[c], out[c])
        BY <1>2, <2>1 DEF ReportsReal, OutcomesKnown
      <3>2. QED
        BY <1>2, <2>1, <3>1, SayingsStand DEF Says, Ran
    <2>2. QED
      BY <2>1 DEF ReportsReal
  <1>3. UNCHANGED <<pc, job, out>> => ReportsReal'
    BY <1>2
  <1>4. ASSUME NEW c \in Consumer, Consume(c) PROVE ReportsReal'
    <2>1. ASSUME \/ \E l \in PC \ {"rfinish", "record"} : Goto(c, l)
                 \/ pc[c] = "rfinish" /\ Goto(c, "record")
                 \/ Idle(c)
          PROVE  ReportsReal'
      BY <1>2, <2>1 DEF Goto, Idle
    <2> USE <2>1 DEF PC, Holding, Early, InRunner
    <2>2. CASE Deliver(c)
      <3>1. /\ pc' = [pc EXCEPT ![c] = "read"] /\ out' = out
            /\ \A d \in Consumer \ {c} : job'[d] = job[d]
        BY <2>2 DEF Deliver
      <3>2. QED
        BY <1>2, <3>1
    <2>3. CASE Read(c) \/ TakeLock(c) \/ Defer(c) \/ Requeue(c) \/ Ack(c) \/ EarlyThrow(c)
      BY <2>3 DEF Read, TakeLock, Defer, Requeue, Ack, EarlyThrow, Redeliver
    <2>4. CASE Start(c) \/ LoadGone(c) \/ LoadJob(c) \/ Boot(c) \/ Arm(c) \/ Post(c)
      BY <2>4 DEF Start, LoadGone, LoadJob, Boot, Arm, Post
    <2>5. CASE Relayed(c)
      <3>1. /\ job' = job /\ UNCHANGED <<cont, result>>
            /\ pc' = [pc EXCEPT ![c] = "rfinish"] /\ out' = [out EXCEPT ![c] = result[job[c]]]
            /\ Ran(job[c])
        BY <2>5 DEF Relayed, Ran, containerVars, runnerVars
      <3>2. QED
        BY <3>1 DEF ReportsReal, Says, Ran
    <2>6. CASE RunnerRecords(c) \/ Record(c) \/ CallRejects(c) \/ RelayThrows(c) \/ BodyThrow(c)
      BY <2>6 DEF RunnerRecords, Record, CallRejects, RelayThrows, BodyThrow
    <2>7. CASE Fail(c) \/ Unlock(c) \/ UnlockThrows(c) \/ Dies(c)
      BY <2>7 DEF Fail, Unlock, UnlockThrows, Dies, Redeliver
    <2>8. QED
      BY <1>4, <2>2, <2>3, <2>4, <2>5, <2>6, <2>7 DEF Consume
  <1>5. ASSUME NEW r \in Run, RunStep(r) PROVE ReportsReal'
    BY <1>3, <1>5 DEF RunStep, Trigger, Send, ProducerDies, RunnerStep, Backstop, BackstopFails,
                      invocationVars
  <1>6. CASE Sweep \/ Registry \/ Tick
    BY <1>3, <1>6 DEF Sweep, Registry, RemoveEnv, RegisterEnv, RemoveApp, RegisterApp, Tick,
                      invocationVars
  <1>7. CASE UNCHANGED vars
    BY <1>3, <1>7 DEF vars, invocationVars
  <1>8. QED
    BY <1>4, <1>5, <1>6, <1>7 DEF Next

LEMMA VerdictsRealStep ==
    ASSUME RunInv, VerdictsReal, [Next]_vars
    PROVE  VerdictsReal'
  <1>1. ContainerTypeOK /\ OutcomesKnown
    BY TypeOKParts DEF RunInv, TypeInv
  <1> USE <1>1 DEF ContainerTypeOK, containerVars, backstopVars
  <1>2. ASSUME \A r \in Run : phase'[r] = "finish" => phase[r] = "finish" /\ verdict'[r] = verdict[r]
        PROVE  VerdictsReal'
    <2>1. ASSUME NEW r \in Run, phase'[r] = "finish" PROVE Says(r, verdict[r])'
      BY <1>2, <2>1, SayingsStand DEF VerdictsReal, OutcomesKnown, Says, Ran
    <2>2. QED
      BY <2>1 DEF VerdictsReal
  <1>3. UNCHANGED backstopVars => VerdictsReal'
    BY <1>2
  <1>4. ASSUME NEW c \in Consumer, Consume(c) PROVE VerdictsReal'
    <2>1. CASE Arm(c)
      BY <1>2, <2>1 DEF Arm, ArmBackstop
    <2>2. CASE Boot(c) \/ Post(c)
      BY <1>3, <2>2 DEF Boot, BootContainer, Post, AcceptRun
    <2>3. CASE Deliver(c) \/ Read(c) \/ TakeLock(c) \/ Defer(c) \/ Requeue(c) \/ Ack(c) \/ EarlyThrow(c)
      BY <1>3, <2>3 DEF Deliver, Read, TakeLock, Defer, Requeue, Ack, EarlyThrow
    <2>4. CASE Start(c) \/ LoadGone(c) \/ LoadJob(c) \/ Relayed(c) \/ RunnerRecords(c) \/ Record(c)
      BY <1>3, <2>4 DEF Start, LoadGone, LoadJob, Relayed, RunnerRecords, Record
    <2>5. CASE CallRejects(c) \/ RelayThrows(c) \/ BodyThrow(c) \/ Fail(c) \/ Unlock(c) \/ UnlockThrows(c)
             \/ Dies(c)
      BY <1>3, <2>5 DEF CallRejects, RelayThrows, BodyThrow, Fail, Unlock, UnlockThrows, Dies
    <2>6. QED
      BY <1>4, <2>1, <2>2, <2>3, <2>4, <2>5 DEF Consume
  <1>5. ASSUME NEW r \in Run, RunStep(r) PROVE VerdictsReal'
    <2>1. CASE Trigger(r) \/ Send(r) \/ ProducerDies(r)
      BY <1>3, <2>1 DEF Trigger, Send, ProducerDies
    <2>2. CASE RunnerStep(r)
      BY <1>3, <2>2 DEF RunnerStep, RunnerFinish, ContainerStops
    <2>3. CASE Backstop(r) /\ BackstopCheck(r)
      <3>1. Decided(r) # NoOutcome => Says(r, Decided(r))
        BY DEF Decided, Says, Ran
      <3>2. UNCHANGED <<cont, result>>
        BY <2>3 DEF BackstopCheck, runnerVars
      <3>3. \A s \in Run : phase'[s] = "finish" =>
               \/ s = r /\ Decided(r) # NoOutcome /\ verdict'[s] = Decided(r)
               \/ phase[s] = "finish" /\ verdict'[s] = verdict[s]
        BY <2>3 DEF BackstopCheck
      <3>4. QED
        BY <3>1, <3>2, <3>3 DEF VerdictsReal, Says, Ran
    <2>4. CASE (Backstop(r) /\ BackstopFinish(r)) \/ BackstopFails(r)
      BY <1>2, <2>4 DEF BackstopFails, BackstopFinish, BackstopLost
    <2>5. QED
      BY <1>5, <2>1, <2>2, <2>3, <2>4 DEF RunStep, Backstop
  <1>6. CASE Sweep \/ Registry \/ Tick
    BY <1>2, <1>6 DEF Sweep, Registry, RemoveEnv, RegisterEnv, RemoveApp, RegisterApp, Tick,
                      ContainerTick
  <1>7. CASE UNCHANGED vars
    BY <1>3, <1>7 DEF vars
  <1>8. QED
    BY <1>4, <1>5, <1>6, <1>7 DEF Next

(* Each statement on the table leaves the rows real if its outcome is.       *)
LEMMA StatementsReal ==
    ASSUME TableTypeOK, NoExitUntilSettled, RowsReal, UNCHANGED <<cont, result>>, NEW r \in Run
    PROVE  /\ CreateRun(r) => RowsReal'
           /\ MarkRunStarted(r) => RowsReal'
           /\ \A o \in Outcome : Says(r, o) /\ MarkRunFinished(r, o) => RowsReal'
           /\ SweepStaleRuns => RowsReal'
           /\ \A gone \in SUBSET Run : DeleteRuns(gone) => RowsReal'
           /\ UNCHANGED <<status, exit>> => RowsReal'
  <1> USE DEF TableTypeOK, NoExitUntilSettled, RowsReal, Ran, IsOpen, IsFinished, tableVars
  <1>1. CreateRun(r) => RowsReal'
    BY DEF CreateRun
  <1>2. MarkRunStarted(r) => RowsReal'
    BY DEF MarkRunStarted
  <1>3. ASSUME NEW o \in Outcome, Says(r, o), MarkRunFinished(r, o) PROVE RowsReal'
    BY <1>3 DEF MarkRunFinished, Says, Outcome, Succeeded, DeployFailed, FailedNoExit
  <1>4. SweepStaleRuns => RowsReal'
    BY DEF SweepStaleRuns, Stale
  <1>5. ASSUME NEW gone \in SUBSET Run, DeleteRuns(gone) PROVE RowsReal'
    BY <1>5 DEF DeleteRuns
  <1>6. UNCHANGED <<status, exit>> => RowsReal'
    OBVIOUS
  <1>7. QED
    BY <1>1, <1>2, <1>3, <1>4, <1>5, <1>6

LEMMA RowsRealStep ==
    ASSUME RunInv, RealInv, [Next]_vars
    PROVE  RowsReal'
  <1>1. /\ TableTypeOK /\ InvocationTypeOK /\ OutcomesKnown /\ NoExitUntilSettled
        /\ ReportsReal /\ VerdictsReal /\ RowsReal
    BY TypeOKParts DEF RunInv, TypeInv, RealInv
  <1>2. ASSUME UNCHANGED <<status, exit>> PROVE RowsReal'
    <2>1. ASSUME NEW r \in Run
          PROVE  \/ status[r] # "succeeded" /\ exit[r] = "none"
                 \/ /\ Ran(r)' /\ exit[r] = result'[r].exit
                    /\ status[r] = "succeeded" => result'[r] = Succeeded
      BY <1>1, SayingsStand DEF RowsReal
    <2>2. QED
      BY <1>2, <2>1 DEF RowsReal, Ran
  <1> USE <1>1, StatementsReal DEF InvocationTypeOK, tableVars, containerVars, runnerVars
  <1>3. ASSUME NEW c \in Consumer, Consume(c) PROVE RowsReal'
    <2>1. CASE Deliver(c) \/ Read(c) \/ TakeLock(c) \/ Defer(c) \/ Requeue(c) \/ Ack(c) \/ EarlyThrow(c)
      BY <1>2, <2>1 DEF Deliver, Read, TakeLock, Defer, Requeue, Ack, EarlyThrow
    <2>2. CASE Start(c)
      BY <2>2 DEF Start
    <2>3. CASE LoadGone(c) \/ Fail(c)
      BY <2>3, OutcomeFields DEF LoadGone, Fail, Says
    <2>4. CASE LoadJob(c) \/ Boot(c) \/ Arm(c) \/ Post(c) \/ Relayed(c)
      BY <1>2, <2>4 DEF LoadJob, Boot, Arm, Post, Relayed
    <2>5. CASE RunnerRecords(c) \/ Record(c)
      BY <2>5 DEF RunnerRecords, Record, ReportsReal, OutcomesKnown
    <2>6. CASE CallRejects(c) \/ RelayThrows(c) \/ BodyThrow(c) \/ Unlock(c) \/ UnlockThrows(c) \/ Dies(c)
      BY <1>2, <2>6 DEF CallRejects, RelayThrows, BodyThrow, Unlock, UnlockThrows, Dies
    <2>7. QED
      BY <1>3, <2>1, <2>2, <2>3, <2>4, <2>5, <2>6 DEF Consume
  <1>4. ASSUME NEW r \in Run, RunStep(r) PROVE RowsReal'
    <2>1. CASE Trigger(r)
      BY <2>1 DEF Trigger
    <2>2. CASE Send(r) \/ ProducerDies(r)
      BY <1>2, <2>2 DEF Send, ProducerDies
    <2>3. CASE RunnerStep(r)
      BY <1>2, <2>3 DEF RunnerStep, RunnerFinish, ContainerStops
    <2>4. CASE Backstop(r) /\ BackstopCheck(r)
      BY <1>2, <2>4 DEF BackstopCheck
    <2>5. CASE Backstop(r) /\ BackstopFinish(r)
      BY <2>5 DEF BackstopFinish, VerdictsReal, OutcomesKnown
    <2>6. CASE BackstopFails(r)
      BY <1>2, <2>6 DEF BackstopFails, BackstopLost
    <2>7. QED
      BY <1>4, <2>1, <2>2, <2>3, <2>4, <2>5, <2>6 DEF RunStep, Backstop
  <1>5. CASE Sweep
    <2>1. UNCHANGED <<cont, result>> /\ SweepStaleRuns /\ \E r \in Run : TRUE
      BY <1>5 DEF Sweep
    <2>2. QED
      BY <2>1
  <1>6. CASE Registry
    <2>1. ASSUME NEW a \in App, RemoveApp(a) PROVE RowsReal'
      <3>1. CASE Run = {}
        BY <3>1 DEF RowsReal
      <3>2. CASE Run # {}
        BY <2>1, <3>2 DEF RemoveApp
      <3>3. QED
        BY <3>1, <3>2
    <2>2. QED
      BY <1>2, <1>6, <2>1 DEF Registry, RemoveEnv, RegisterEnv, RegisterApp
  <1>7. CASE Tick \/ UNCHANGED vars
    BY <1>2, <1>7 DEF Tick, AgeTick, vars
  <1>8. QED
    BY <1>3, <1>4, <1>5, <1>6, <1>7 DEF Next

LEMMA RealInvariant == Spec => []RealInv
  <1>1. Init => RealInv
    BY DEF Init, TableInit, ContainerInit, RealInv, ReportsReal, VerdictsReal, RowsReal
  <1>2. RunInv /\ RealInv /\ [Next]_vars => RealInv'
    BY ReportsRealStep, VerdictsRealStep, RowsRealStep DEF RealInv
  <1>3. QED
    BY <1>1, <1>2, RunInvariant, PTL DEF Spec

(* What a terminal row says is what the run's container did, whichever of    *)
(* the consumer, vozka-runner, the backstop and the sweep wrote it first,    *)
(* and nothing that happens later makes it untrue; no timer is assumed.      *)
THEOREM RecordedIsReal == Spec => []RecordedOutcomeIsReal
  <1>1. RealInv => RecordedOutcomeIsReal
    BY DEF RealInv, RowsReal, RecordedOutcomeIsReal
  <1>2. QED
    BY <1>1, RealInvariant, PTL

-----------------------------------------------------------------------------
(* Ages.  An invocation stamps the row when it starts the run, so the row is *)
(* never older than the invocation, and a working container adds at most its *)
(* own life to that.                                                         *)
Working == Launching \cup {"tail"}

YoungerThanInvocation ==
    \A c \in Consumer : pc[c] \in Working /\ IsOpen(job[c]) => age[job[c]] <= held[c]
YoungerThanDeploy ==
    \A r \in Run : Deploying(r) /\ IsOpen(r) => age[r] <= MaxInvocation + life[r]
AgeInv == YoungerThanInvocation /\ YoungerThanDeploy

(* The sweep's limit against the two timers: an invocation that takes its    *)
(* whole time to launch a deploy which takes its whole time.                 *)
SweepIsLate == MaxInvocation + HardKill <= StaleAge

\* An open row has either just been stamped, or keeps its stamp.
RowAges(r) ==
    /\ age'[r] = 0 \/ (IsOpen(r) /\ age'[r] = age[r])
    /\ IsOpen(r) => \/ status'[r] = status[r] /\ age'[r] = age[r]
                    \/ status[r] = "pending" /\ status'[r] = "running"

(* The only statement that makes an open row of an open one stamps it.       *)
LEMMA OpenRows ==
    ASSUME TableTypeOK, NEW r \in Run, NEW s \in Run,
           \/ CreateRun(s) \/ MarkRunStarted(s) \/ (\E o \in Outcome : MarkRunFinished(s, o))
           \/ SweepStaleRuns \/ (\E gone \in SUBSET Run : DeleteRuns(gone)) \/ UNCHANGED tableVars,
           IsOpen(r)'
    PROVE  RowAges(r)
  <1> USE DEF TableTypeOK, IsOpen, tableVars, RowAges
  <1>1. CASE CreateRun(s) \/ MarkRunStarted(s) \/ UNCHANGED tableVars
    BY <1>1 DEF CreateRun, MarkRunStarted
  <1>2. ASSUME NEW o \in Outcome, MarkRunFinished(s, o)
        PROVE  RowAges(r)
    BY <1>2 DEF MarkRunFinished, Outcome, Succeeded, DeployFailed, FailedNoExit
  <1>3. CASE SweepStaleRuns
    BY <1>3 DEF SweepStaleRuns, Stale
  <1>4. ASSUME NEW gone \in SUBSET Run, DeleteRuns(gone)
        PROVE  RowAges(r)
    BY <1>4 DEF DeleteRuns
  <1>5. QED
    BY <1>1, <1>2, <1>3, <1>4

(* What a step other than a tick does to a row that is open after it ...     *)
LEMMA StepOnRows ==
    ASSUME TypeInv, Next, ~Tick, NEW r \in Run, IsOpen(r)'
    PROVE  RowAges(r)
  <1>1. TableTypeOK /\ InvocationTypeOK /\ OutcomesKnown
    BY TypeOKParts DEF TypeInv
  <1> USE <1>1, OpenRows DEF InvocationTypeOK
  <1>2. ASSUME NEW c \in Consumer, Consume(c)
        PROVE  RowAges(r)
    <2>1. CASE Deliver(c) \/ Read(c) \/ TakeLock(c) \/ Defer(c) \/ Requeue(c) \/ Ack(c) \/ EarlyThrow(c)
      BY <2>1 DEF Deliver, Read, TakeLock, Defer, Requeue, Ack, EarlyThrow
    <2>2. CASE Start(c)
      BY <2>2 DEF Start
    <2>3. CASE LoadGone(c) \/ Fail(c)
      BY <2>3, OutcomeFields DEF LoadGone, Fail
    <2>4. CASE LoadJob(c) \/ Boot(c) \/ Arm(c) \/ Post(c) \/ Relayed(c)
      BY <2>4 DEF LoadJob, Boot, Arm, Post, Relayed
    <2>5. CASE RunnerRecords(c) \/ Record(c)
      BY <2>5 DEF RunnerRecords, Record, OutcomesKnown
    <2>6. CASE CallRejects(c) \/ RelayThrows(c) \/ BodyThrow(c) \/ Unlock(c) \/ UnlockThrows(c) \/ Dies(c)
      BY <2>6 DEF CallRejects, RelayThrows, BodyThrow, Unlock, UnlockThrows, Dies
    <2>7. QED
      BY <1>2, <2>1, <2>2, <2>3, <2>4, <2>5, <2>6 DEF Consume
  <1>3. ASSUME NEW s \in Run, RunStep(s)
        PROVE  RowAges(r)
    <2>1. CASE Trigger(s) \/ Send(s) \/ ProducerDies(s)
      BY <2>1 DEF Trigger, Send, ProducerDies
    <2>2. CASE RunnerStep(s)
      BY <2>2 DEF RunnerStep, RunnerFinish, ContainerStops
    <2>3. CASE Backstop(s) /\ BackstopCheck(s)
      BY <2>3 DEF BackstopCheck
    <2>4. CASE Backstop(s) /\ BackstopFinish(s)
      BY <2>4 DEF BackstopFinish, OutcomesKnown
    <2>5. CASE BackstopFails(s)
      BY <2>5 DEF BackstopFails, BackstopLost
    <2>6. QED
      BY <1>3, <2>1, <2>2, <2>3, <2>4, <2>5 DEF RunStep, Backstop
  <1>4. CASE Sweep
    BY <1>4 DEF Sweep
  <1>5. CASE Registry
    BY <1>5 DEF Registry, RemoveEnv, RegisterEnv, RegisterApp, RemoveApp
  <1>6. QED
    BY <1>2, <1>3, <1>4, <1>5 DEF Next

(* ... to a container that is working after it ...                           *)
LEMMA StepOnContainers ==
    ASSUME TypeInv, Next, ~Tick, NEW r \in Run, Deploying(r)'
    PROVE  \/ Deploying(r) /\ life'[r] = life[r]
           \/ life'[r] = 0 /\ \E c \in Consumer : Post(c) /\ job[c] = r
  <1>1. ContainerTypeOK /\ InvocationTypeOK
    BY TypeOKParts DEF TypeInv
  <1> USE <1>1 DEF InvocationTypeOK, ContainerTypeOK, Deploying, containerVars, runnerVars
  <1>2. ASSUME NEW c \in Consumer, Consume(c)
        PROVE  \/ Deploying(r) /\ life'[r] = life[r]
               \/ life'[r] = 0 /\ Post(c) /\ job[c] = r
    <2>1. CASE Deliver(c) \/ Read(c) \/ TakeLock(c) \/ Defer(c) \/ Requeue(c) \/ Ack(c) \/ EarlyThrow(c)
      BY <2>1 DEF Deliver, Read, TakeLock, Defer, Requeue, Ack, EarlyThrow
    <2>2. CASE Start(c) \/ LoadGone(c) \/ LoadJob(c) \/ Relayed(c) \/ RunnerRecords(c) \/ Record(c)
      BY <2>2 DEF Start, LoadGone, LoadJob, Relayed, RunnerRecords, Record
    <2>3. CASE Boot(c) \/ Arm(c)
      BY <2>3 DEF Boot, BootContainer, Arm, ArmBackstop
    <2>4. CASE Post(c)
      BY <2>4 DEF Post, AcceptRun
    <2>5. CASE CallRejects(c) \/ RelayThrows(c) \/ BodyThrow(c) \/ Fail(c) \/ Unlock(c) \/ UnlockThrows(c)
             \/ Dies(c)
      BY <2>5 DEF CallRejects, RelayThrows, BodyThrow, Fail, Unlock, UnlockThrows, Dies
    <2>6. QED
      BY <1>2, <2>1, <2>2, <2>3, <2>4, <2>5 DEF Consume
  <1>3. ASSUME NEW s \in Run, RunStep(s)
        PROVE  Deploying(r) /\ life'[r] = life[r]
    <2>1. CASE Trigger(s) \/ Send(s) \/ ProducerDies(s)
      BY <2>1 DEF Trigger, Send, ProducerDies
    <2>2. CASE RunnerStep(s)
      BY <2>2 DEF RunnerStep, RunnerFinish, ContainerStops
    <2>3. CASE Backstop(s) \/ BackstopFails(s)
      BY <2>3 DEF Backstop, BackstopFails, BackstopCheck, BackstopFinish, BackstopLost
    <2>4. QED
      BY <1>3, <2>1, <2>2, <2>3 DEF RunStep
  <1>4. CASE Sweep \/ Registry
    BY <1>4 DEF Sweep, Registry, RemoveEnv, RegisterEnv, RegisterApp, RemoveApp
  <1>5. QED
    BY <1>2, <1>3, <1>4 DEF Next

(* ... and to an invocation that is launching or awaiting a run after it.    *)
LEMMA StepOnInvocations ==
    ASSUME TypeInv, Next, ~Tick, NEW c \in Consumer, pc'[c] \in Working
    PROVE  /\ job'[c] = job[c] /\ held'[c] = held[c]
           /\ \/ pc[c] \in Launching /\ (pc[c] = "load" => pc'[c] # "load")
              \/ pc'[c] = pc[c]
              \/ Start(c) /\ status[job[c]] = "pending" /\ pc'[c] = "load"
           /\ pc'[c] \in Launching /\ ~Start(c) => pc[c] \in Launching
  <1>1. InvocationTypeOK
    BY TypeOKParts DEF TypeInv
  <1> USE <1>1 DEF InvocationTypeOK, Working, Launching
  <1>2. ASSUME NEW d \in Consumer, Consume(d), d # c
        PROVE  pc'[c] = pc[c] /\ job'[c] = job[c] /\ held'[c] = held[c]
    <2>1. ASSUME \/ \E l \in PC : Goto(d, l)
                 \/ Idle(d)
          PROVE  pc'[c] = pc[c] /\ job'[c] = job[c] /\ held'[c] = held[c]
      BY <1>2, <2>1 DEF Goto, Idle
    <2> USE <2>1 DEF PC, Holding, Early, InRunner
    <2>2. CASE Deliver(d) \/ Relayed(d)
      BY <1>2, <2>2 DEF Deliver, Relayed
    <2>3. CASE Read(d) \/ TakeLock(d) \/ Defer(d) \/ Requeue(d) \/ Ack(d) \/ EarlyThrow(d)
      BY <2>3 DEF Read, TakeLock, Defer, Requeue, Ack, EarlyThrow, Redeliver
    <2>4. CASE Start(d) \/ LoadGone(d) \/ LoadJob(d) \/ Boot(d) \/ Arm(d) \/ Post(d)
      BY <2>4 DEF Start, LoadGone, LoadJob, Boot, Arm, Post
    <2>5. CASE RunnerRecords(d) \/ Record(d) \/ CallRejects(d) \/ RelayThrows(d) \/ BodyThrow(d)
      BY <2>5 DEF RunnerRecords, Record, CallRejects, RelayThrows, BodyThrow
    <2>6. CASE Fail(d) \/ Unlock(d) \/ UnlockThrows(d) \/ Dies(d)
      BY <2>6 DEF Fail, Unlock, UnlockThrows, Dies, Redeliver
    <2>7. QED
      BY <1>2, <2>2, <2>3, <2>4, <2>5, <2>6 DEF Consume
  <1>3. ASSUME Consume(c)
        PROVE  /\ job'[c] = job[c] /\ held'[c] = held[c]
               /\ \/ pc[c] \in Launching /\ (pc[c] = "load" => pc'[c] # "load")
                  \/ Start(c) /\ status[job[c]] = "pending" /\ pc'[c] = "load"
    <2>1. CASE Deliver(c) \/ Read(c) \/ TakeLock(c) \/ Defer(c) \/ Requeue(c) \/ Ack(c) \/ EarlyThrow(c)
      BY <2>1 DEF Deliver, Read, TakeLock, Defer, Requeue, Ack, EarlyThrow, Redeliver, Goto, Idle
    <2>2. CASE Start(c)
      BY <2>2 DEF Start, Goto
    <2>3. CASE LoadGone(c) \/ LoadJob(c) \/ Boot(c) \/ Arm(c) \/ Post(c)
      BY <2>3 DEF LoadGone, LoadJob, Boot, Arm, Post, Goto
    <2>4. CASE Relayed(c) \/ RunnerRecords(c) \/ Record(c)
      BY <2>4 DEF Relayed, RunnerRecords, Record, Goto
    <2>5. CASE CallRejects(c) \/ RelayThrows(c) \/ BodyThrow(c)
      BY <2>5 DEF CallRejects, RelayThrows, BodyThrow, Goto
    <2>6. CASE Fail(c) \/ Unlock(c) \/ UnlockThrows(c) \/ Dies(c)
      BY <2>6 DEF Fail, Unlock, UnlockThrows, Dies, Redeliver, Goto, Idle
    <2>7. QED
      BY <1>3, <2>1, <2>2, <2>3, <2>4, <2>5, <2>6 DEF Consume
  <1>4. ASSUME NEW s \in Run, RunStep(s) PROVE UNCHANGED invocationVars
    BY <1>4 DEF RunStep, Trigger, Send, ProducerDies, RunnerStep, Backstop, BackstopFails
  <1>5. ASSUME Sweep \/ Registry PROVE UNCHANGED invocationVars
    BY <1>5 DEF Sweep, Registry, RemoveEnv, RegisterEnv, RegisterApp, RemoveApp
  <1>6. QED
    BY <1>2, <1>3, <1>4, <1>5 DEF Next, invocationVars

LEMMA AgeInvStep ==
    ASSUME TypeInv, AgeInv, [Next]_vars
    PROVE  AgeInv'
  <1>1. TableTypeOK /\ InvocationTypeOK /\ ContainerTypeOK
    BY TypeOKParts DEF TypeInv
  <1>2. /\ \A r \in Run : age[r] \in Nat /\ life[r] \in Nat
        /\ \A c \in Consumer : held[c] \in Nat /\ held[c] <= MaxInvocation
        /\ \A c \in Consumer : pc[c] # "idle" => job[c] \in Run
        /\ MaxInvocation \in Nat
    BY <1>1, StaleAgeAssumption, ConsumerAssumption, ContainerAssumption
       DEF TableTypeOK, InvocationTypeOK, ContainerTypeOK
  <1>3. CASE Next /\ ~Tick
    <2>1. YoungerThanInvocation'
      <3>1. ASSUME NEW c \in Consumer, pc'[c] \in Working, IsOpen(job[c])', job'[c] = job[c]
            PROVE  age'[job[c]] <= held'[c]
        <4>1. held'[c] = held[c] /\ job[c] \in Run
              /\ (pc[c] \in Working \/ (Start(c) /\ status[job[c]] = "pending"))
          BY <1>2, <1>3, <3>1, StepOnInvocations DEF Working, Launching, Start
        <4>2. Start(c) /\ status[job[c]] = "pending" => age'[job[c]] = 0
          BY <1>1, <4>1 DEF Start, MarkRunStarted, TableTypeOK
        <4>3. age'[job[c]] = 0 \/ (IsOpen(job[c]) /\ age'[job[c]] = age[job[c]])
          BY <1>3, <3>1, <4>1, StepOnRows DEF IsOpen, RowAges
        <4>4. QED
          BY <1>2, <4>1, <4>2, <4>3 DEF AgeInv, YoungerThanInvocation
      <3>2. \A c \in Consumer : pc'[c] \in Working => job'[c] = job[c]
        BY <1>3, StepOnInvocations
      <3>3. QED
        BY <3>1, <3>2 DEF YoungerThanInvocation, IsOpen
    <2>2. YoungerThanDeploy'
      <3>1. ASSUME NEW r \in Run, Deploying(r)', IsOpen(r)'
            PROVE  age'[r] <= MaxInvocation + life'[r]
        <4>1. age'[r] = 0 \/ (IsOpen(r) /\ age'[r] = age[r])
          BY <1>3, <3>1, StepOnRows DEF RowAges
        <4>2. CASE Deploying(r) /\ life'[r] = life[r]
          BY <1>2, <4>1, <4>2 DEF AgeInv, YoungerThanDeploy
        <4>3. ASSUME NEW c \in Consumer, Post(c), job[c] = r, life'[r] = 0
              PROVE  age'[r] <= MaxInvocation + life'[r]
          <5>1. IsOpen(r) => age[r] <= held[c]
            BY <4>3 DEF AgeInv, YoungerThanInvocation, Post, Working, Launching
          <5>2. QED
            BY <1>2, <4>1, <4>3, <5>1
        <4>4. QED
          BY <1>3, <3>1, <4>2, <4>3, StepOnContainers
      <3>2. QED
        BY <3>1 DEF YoungerThanDeploy
    <2>3. QED
      BY <2>1, <2>2 DEF AgeInv
  <1>4. CASE Tick
    <2>1. /\ UNCHANGED <<status, pc, job, cont>>
          /\ \A r \in Run : IsOpen(r) => age'[r] <= age[r] + 1
          /\ \A r \in Run : Deploying(r) => life'[r] = life[r] + 1
          /\ \A c \in Consumer : pc[c] # "idle" => held'[c] = held[c] + 1
      BY <1>2, <1>4, StaleAgeAssumption DEF Tick, AgeTick, Up, ContainerTick, Deploying
    <2>2. \A r \in Run : age'[r] \in Nat
      BY <1>1, <1>2, <1>4, StaleAgeAssumption DEF Tick, AgeTick, Up
    <2>3. YoungerThanInvocation'
      BY <1>2, <2>1, <2>2 DEF AgeInv, YoungerThanInvocation, IsOpen, Working, Launching
    <2>4. YoungerThanDeploy'
      BY <1>2, <2>1, <2>2 DEF AgeInv, YoungerThanDeploy, IsOpen, Deploying
    <2>5. QED
      BY <2>3, <2>4 DEF AgeInv
  <1>5. CASE UNCHANGED vars
    BY <1>5 DEF vars, tableVars, invocationVars, containerVars, runnerVars, AgeInv,
                YoungerThanInvocation, YoungerThanDeploy, IsOpen, Deploying
  <1>6. QED
    BY <1>3, <1>4, <1>5

LEMMA AgeInvariant == Spec => []AgeInv
  <1>1. Init => AgeInv
    BY DEF Init, TableInit, ContainerInit, AgeInv, YoungerThanInvocation, YoungerThanDeploy,
           Deploying, Working, Launching
  <1>2. QED
    BY <1>1, AgeInvStep, TypeInvariant, PTL DEF Spec

(* A deploy that is still at work is never reaped by the cron sweep, however *)
(* late in its invocation it was launched and whatever happened to that      *)
(* invocation since.                                                         *)
THEOREM SweepSpares ==
    ASSUME SweepIsLate
    PROVE  Spec => []SweepSparesLiveDeploys
  <1>1. TypeInv /\ AgeInv => SweepSparesLiveDeploys
    <2>1. ASSUME TypeInv, AgeInv, NEW r \in Run, Deploying(r), IsOpen(r) PROVE age[r] <= StaleAge
      <3>1. /\ age[r] \in Nat /\ life[r] \in Nat /\ life[r] <= HardKill
            /\ MaxInvocation \in Nat /\ StaleAge \in Nat /\ HardKill \in Nat
        BY <2>1, TypeOKParts, StaleAgeAssumption, ConsumerAssumption, ContainerAssumption
           DEF TypeInv, TableTypeOK, ContainerTypeOK
      <3>2. age[r] <= MaxInvocation + life[r]
        BY <2>1 DEF AgeInv, YoungerThanDeploy
      <3>3. QED
        BY <3>1, <3>2 DEF SweepIsLate
    <2>2. ASSUME TypeInv, AgeInv, NEW r \in Run, Deploying(r) PROVE ~Stale(r)
      <3>1. IsOpen(r) => age[r] \in Nat /\ StaleAge \in Nat /\ age[r] <= StaleAge
        BY <2>1, <2>2, TypeOKParts, StaleAgeAssumption DEF TypeInv, TableTypeOK
      <3>2. QED
        BY <3>1 DEF Stale
    <2>3. QED
      BY <2>2 DEF SweepSparesLiveDeploys
  <1>2. QED
    BY <1>1, AgeInvariant, TypeInvariant, PTL

-----------------------------------------------------------------------------
(* What EveryRunSettles rests on, apart from fairness: the most ticks that   *)
(* an open row can still be away from the sweep.  It is re-stamped once, by   *)
(* the start of its run; nothing that invocations, containers, lost calls or *)
(* the registry do takes it back.                                            *)

TimeLeft(r) ==
    (StaleAge + 1 - age[r]) + (IF status[r] = "pending" THEN StaleAge + 2 ELSE 0)

SettlementNears ==
    [][\A r \in Run : IsOpen(r) /\ IsOpen(r)' =>
          /\ TimeLeft(r)' <= TimeLeft(r)
          /\ Tick /\ ~Stale(r) => TimeLeft(r)' < TimeLeft(r)
          /\ ~(Sweep /\ Stale(r))]_vars

LEMMA TimeLeftFalls ==
    ASSUME TypeInv, Next, NEW r \in Run, IsOpen(r), IsOpen(r)'
    PROVE  /\ ~Tick => TimeLeft(r)' <= TimeLeft(r)
           /\ Tick => TimeLeft(r)' <= TimeLeft(r)
           /\ Tick /\ ~Stale(r) => TimeLeft(r)' < TimeLeft(r)
           /\ ~(Sweep /\ Stale(r))
  <1>1. TableTypeOK /\ age[r] \in 0 .. StaleAge + 1 /\ StaleAge \in Nat
    BY TypeOKParts, StaleAgeAssumption DEF TypeInv, TableTypeOK
  <1>2. ASSUME ~Tick PROVE TimeLeft(r)' <= TimeLeft(r)
    <2>1. CASE status'[r] = status[r] /\ age'[r] = age[r]
      BY <1>1, <2>1 DEF TimeLeft
    <2>2. CASE status[r] = "pending" /\ status'[r] = "running"
      <3>1. age'[r] = 0 \/ age'[r] = age[r]
        BY <1>2, StepOnRows DEF RowAges
      <3>2. QED
        BY <1>1, <2>2, <3>1 DEF TimeLeft
    <2>3. QED
      BY <1>2, <2>1, <2>2, StepOnRows DEF RowAges
  <1>3. ASSUME Tick
        PROVE  status'[r] = status[r] /\ age'[r] = Up(age[r], StaleAge + 1)
    BY <1>1, <1>3 DEF Tick, AgeTick, TableTypeOK
  <1>4. Tick => TimeLeft(r)' <= TimeLeft(r)
    BY <1>1, <1>3 DEF TimeLeft, Up
  <1>5. Tick /\ ~Stale(r) => TimeLeft(r)' < TimeLeft(r)
    BY <1>1, <1>3 DEF TimeLeft, Up, Stale
  <1>6. ~(Sweep /\ Stale(r))
    BY <1>1 DEF Sweep, SweepStaleRuns, IsOpen, TableTypeOK
  <1>7. QED
    BY <1>2, <1>4, <1>5, <1>6

(* No step takes an open row further from the sweep, a tick brings it nearer *)
(* until it is stale, and a sweep leaves no stale row open (db.ts, index.ts). *)
THEOREM OpenRunsNearSettlement == Spec => SettlementNears
  <1>1. TypeInv /\ [Next]_vars =>
          [\A r \in Run : IsOpen(r) /\ IsOpen(r)' =>
              /\ TimeLeft(r)' <= TimeLeft(r)
              /\ Tick /\ ~Stale(r) => TimeLeft(r)' < TimeLeft(r)
              /\ ~(Sweep /\ Stale(r))]_vars
    BY TimeLeftFalls
  <1>2. QED
    BY <1>1, TypeInvariant, PTL DEF Spec, SettlementNears

-----------------------------------------------------------------------------
(* While an invocation launches a run, the row stays `running' (or is        *)
(* deleted): the sweep finds it too young, and the backstop it armed itself  *)
(* finds a container that is not over and a deadline that is not past.       *)
StillRunning ==
    \A c \in Consumer : pc[c] \in Launching => status[job[c]] \in {"running", "deleted"}
BackstopWaits ==
    \A c \in Consumer : pc[c] \in Launching =>
        /\ phase[job[c]] # "finish"
        /\ phase[job[c]] = "armed" => deadline[job[c]] + held[c] >= BackstopMax
LaunchInv == StillRunning /\ BackstopWaits

(* The limit on an invocation against the sweep's and the backstop's.        *)
LaunchIsQuick == MaxInvocation <= StaleAge /\ MaxInvocation < BackstopMax

(* Who can settle or create a row, and when.                                 *)
LEMMA StepOnOpenRow ==
    ASSUME RunInv, Next, NEW r \in Run, status[r] \in {"running", "deleted"},
           status'[r] \notin {"running", "deleted"}
    PROVE  \/ \E c \in Consumer : job[c] = r /\ pc[c] \in Holding /\ pc'[c] \notin Launching
           \/ Stale(r)
           \/ phase[r] = "finish"
  <1>1. TableTypeOK /\ InvocationTypeOK
    BY TypeOKParts DEF RunInv, TypeInv
  <1> USE <1>1 DEF TableTypeOK, InvocationTypeOK, tableVars, IsOpen
  <1>2. ASSUME NEW s \in Run, CreateRun(s) \/ MarkRunStarted(s) PROVE FALSE
    BY <1>2 DEF CreateRun, MarkRunStarted
  <1>3. ASSUME NEW s \in Run, NEW o \in Outcome, MarkRunFinished(s, o) PROVE s = r
    BY <1>3 DEF MarkRunFinished
  <1>4. status' # status
    OBVIOUS
  <1>5. ASSUME NEW c \in Consumer, Consume(c)
        PROVE  job[c] = r /\ pc[c] \in Holding /\ pc'[c] \notin Launching
    <2> USE <1>4 DEF Holding, InRunner, Launching
    <2>1. CASE Deliver(c) \/ Read(c) \/ TakeLock(c) \/ Defer(c) \/ Requeue(c) \/ Ack(c) \/ EarlyThrow(c)
      BY <2>1 DEF Deliver, Read, TakeLock, Defer, Requeue, Ack, EarlyThrow
    <2>2. CASE Start(c)
      BY <1>2, <2>2 DEF Start
    <2>3. CASE LoadGone(c) \/ Fail(c)
      BY <1>3, <2>3, OutcomeFields DEF LoadGone, Fail, Goto
    <2>4. CASE LoadJob(c) \/ Boot(c) \/ Arm(c) \/ Post(c) \/ Relayed(c)
      BY <2>4 DEF LoadJob, Boot, Arm, Post, Relayed
    <2>5. CASE RunnerRecords(c) \/ Record(c)
      <3>1. out[c] \in Outcome
        BY <2>5 DEF RunnerRecords, Record, RunInv, TypeInv, OutcomesKnown
      <3>2. QED
        BY <1>3, <2>5, <3>1 DEF RunnerRecords, Record, Goto
    <2>6. CASE CallRejects(c) \/ RelayThrows(c) \/ BodyThrow(c) \/ Unlock(c) \/ UnlockThrows(c) \/ Dies(c)
      BY <2>6 DEF CallRejects, RelayThrows, BodyThrow, Unlock, UnlockThrows, Dies
    <2>7. QED
      BY <1>5, <2>1, <2>2, <2>3, <2>4, <2>5, <2>6 DEF Consume
  <1>6. ASSUME NEW s \in Run, RunStep(s) PROVE phase[r] = "finish"
    <2>1. CASE Trigger(s)
      BY <1>2, <2>1 DEF Trigger
    <2>2. CASE Send(s) \/ ProducerDies(s)
      BY <1>4, <2>2 DEF Send, ProducerDies
    <2>3. CASE RunnerStep(s)
      BY <1>4, <2>3 DEF RunnerStep, RunnerFinish, ContainerStops
    <2>4. CASE Backstop(s) /\ BackstopCheck(s)
      BY <1>4, <2>4 DEF BackstopCheck
    <2>5. CASE Backstop(s) /\ BackstopFinish(s)
      <3>1. verdict[s] \in Outcome
        BY <2>5 DEF BackstopFinish, RunInv, TypeInv, OutcomesKnown
      <3>2. QED
        BY <1>3, <2>5, <3>1 DEF BackstopFinish
    <2>6. CASE BackstopFails(s)
      BY <1>4, <2>6 DEF BackstopFails, BackstopLost
    <2>7. QED
      BY <1>6, <2>1, <2>2, <2>3, <2>4, <2>5, <2>6 DEF RunStep, Backstop
  <1>7. CASE Sweep
    BY <1>7 DEF Sweep, SweepStaleRuns
  <1>8. ASSUME Registry PROVE FALSE
    BY <1>4, <1>8 DEF Registry, RemoveEnv, RegisterEnv, RegisterApp, RemoveApp, DeleteRuns
  <1>9. ASSUME Tick PROVE FALSE
    BY <1>4, <1>9 DEF Tick, AgeTick
  <1>10. QED
    BY <1>5, <1>6, <1>7, <1>8, <1>9 DEF Next

(* What a step other than a tick does to a backstop.                         *)
LEMMA StepOnBackstop ==
    ASSUME RunInv, Next, ~Tick, NEW r \in Run
    PROVE  \/ phase'[r] = phase[r] /\ deadline'[r] = deadline[r]
           \/ phase'[r] = "off"
           \/ \E c \in Consumer : Arm(c) /\ job[c] = r /\ phase'[r] = "armed"
                                  /\ deadline'[r] = BackstopMax
           \/ phase[r] = "armed" /\ Decided(r) # NoOutcome
  <1>1. ContainerTypeOK /\ InvocationTypeOK
    BY TypeOKParts DEF RunInv, TypeInv
  <1> USE <1>1 DEF ContainerTypeOK, InvocationTypeOK, containerVars, backstopVars
  <1>2. ASSUME NEW c \in Consumer, Consume(c)
        PROVE  \/ phase'[r] = phase[r] /\ deadline'[r] = deadline[r]
               \/ Arm(c) /\ job[c] = r /\ phase'[r] = "armed" /\ deadline'[r] = BackstopMax
    <2>1. CASE Deliver(c) \/ Read(c) \/ TakeLock(c) \/ Defer(c) \/ Requeue(c) \/ Ack(c) \/ EarlyThrow(c)
      BY <2>1 DEF Deliver, Read, TakeLock, Defer, Requeue, Ack, EarlyThrow
    <2>2. CASE Start(c) \/ LoadGone(c) \/ LoadJob(c) \/ Relayed(c) \/ RunnerRecords(c) \/ Record(c)
      BY <2>2 DEF Start, LoadGone, LoadJob, Relayed, RunnerRecords, Record
    <2>3. CASE Boot(c) \/ Post(c)
      BY <2>3 DEF Boot, BootContainer, Post, AcceptRun
    <2>4. CASE Arm(c)
      BY <2>4 DEF Arm, ArmBackstop
    <2>5. CASE CallRejects(c) \/ RelayThrows(c) \/ BodyThrow(c) \/ Fail(c) \/ Unlock(c) \/ UnlockThrows(c)
             \/ Dies(c)
      BY <2>5 DEF CallRejects, RelayThrows, BodyThrow, Fail, Unlock, UnlockThrows, Dies
    <2>6. QED
      BY <1>2, <2>1, <2>2, <2>3, <2>4, <2>5 DEF Consume
  <1>3. ASSUME NEW s \in Run, RunStep(s)
        PROVE  \/ phase'[r] = phase[r] /\ deadline'[r] = deadline[r]
               \/ phase'[r] = "off"
               \/ phase[r] = "armed" /\ Decided(r) # NoOutcome
    <2>1. CASE Trigger(s) \/ Send(s) \/ ProducerDies(s)
      BY <2>1 DEF Trigger, Send, ProducerDies
    <2>2. CASE RunnerStep(s)
      BY <2>2 DEF RunnerStep, RunnerFinish, ContainerStops
    <2>3. CASE Backstop(s) /\ BackstopCheck(s)
      BY <2>3 DEF BackstopCheck
    <2>4. CASE (Backstop(s) /\ BackstopFinish(s)) \/ BackstopFails(s)
      BY <2>4 DEF BackstopFinish, BackstopFails, BackstopLost
    <2>5. QED
      BY <1>3, <2>1, <2>2, <2>3, <2>4 DEF RunStep, Backstop
  <1>4. CASE Sweep \/ Registry
    BY <1>4 DEF Sweep, Registry, RemoveEnv, RegisterEnv, RegisterApp, RemoveApp
  <1>5. QED
    BY <1>2, <1>3, <1>4 DEF Next

(* A run has one invocation between acquire() and release(). *)
LEMMA OneInvocation ==
    ASSUME OneHolder, NEW c \in Consumer, NEW d \in Consumer,
           pc[c] \in Holding, pc[d] \in Holding, job[c] = job[d]
    PROVE  c = d
  BY DEF OneHolder, Key

LEMMA LaunchInvStep ==
    ASSUME RunInv, LeaseInv, AgeInv, LaunchInv, LaunchIsQuick, [Next]_vars
    PROVE  LaunchInv'
  <1>1. /\ TypeInv /\ TableTypeOK /\ InvocationTypeOK /\ ContainerTypeOK
        /\ OneHolder /\ NotAcceptedYet /\ NothingBeforeStart
    BY TypeOKParts DEF RunInv, TypeInv, LeaseInv, ExecInv
  <1>2. /\ \A r \in Run : age[r] \in Nat /\ deadline[r] \in Nat
        /\ \A c \in Consumer : held[c] \in Nat /\ held[c] <= MaxInvocation
        /\ \A c \in Consumer : pc[c] # "idle" => job[c] \in Run
        /\ MaxInvocation \in Nat /\ StaleAge \in Nat /\ BackstopMax \in Nat
    BY <1>1, StaleAgeAssumption, ConsumerAssumption, ContainerAssumption
       DEF TableTypeOK, InvocationTypeOK, ContainerTypeOK
  <1>3. ASSUME NEW c \in Consumer, pc[c] \in Launching
        PROVE  /\ job[c] \in Run /\ ~Stale(job[c]) /\ phase[job[c]] # "finish"
               /\ phase[job[c]] = "armed" => Decided(job[c]) = NoOutcome
    <2>1. job[c] \in Run
      BY <1>2, <1>3 DEF Launching
    <2>2. ~Stale(job[c])
      <3>1. IsOpen(job[c]) => age[job[c]] <= held[c]
        BY <1>3 DEF AgeInv, YoungerThanInvocation, Working
      <3>2. IsOpen(job[c]) => age[job[c]] <= StaleAge
        BY <1>2, <2>1, <3>1 DEF LaunchIsQuick
      <3>3. QED
        BY <1>2, <2>1, <3>2 DEF Stale
    <2>3. phase[job[c]] # "finish"
      BY <1>3 DEF LaunchInv, BackstopWaits
    <2>4. phase[job[c]] = "armed" => deadline[job[c]] # 0
      BY <1>2, <1>3, <2>1 DEF LaunchInv, BackstopWaits, LaunchIsQuick
    <2>5. cont[job[c]] # "done"
      BY <1>1, <1>3 DEF NotAcceptedYet
    <2>6. QED
      BY <2>1, <2>2, <2>3, <2>4, <2>5 DEF Decided
  <1>4. CASE Next /\ ~Tick
    <2>1. ASSUME NEW c \in Consumer, pc'[c] \in Launching, ~Start(c)
          PROVE  /\ job'[c] = job[c] /\ held'[c] = held[c] /\ pc[c] \in Launching
                 /\ status'[job[c]] \in {"running", "deleted"}
                 /\ phase'[job[c]] # "finish"
                 /\ phase'[job[c]] = "armed" => deadline'[job[c]] + held[c] >= BackstopMax
      <3>1. job'[c] = job[c] /\ held'[c] = held[c] /\ pc[c] \in Launching /\ job[c] \in Run
        BY <1>1, <1>3, <1>4, <2>1, StepOnInvocations DEF Working
      <3>2. status[job[c]] \in {"running", "deleted"}
        BY <3>1 DEF LaunchInv, StillRunning
      <3>3. \A d \in Consumer : job[d] = job[c] /\ pc[d] \in Holding => d = c
        BY <1>1, <3>1, OneInvocation DEF Holding, InRunner, Launching
      <3>4. status'[job[c]] \in {"running", "deleted"}
        BY <1>3, <1>4, <2>1, <3>1, <3>2, <3>3, StepOnOpenRow
      <3>5. /\ phase'[job[c]] # "finish"
            /\ phase'[job[c]] = "armed" => deadline'[job[c]] + held[c] >= BackstopMax
        <4>1. CASE phase'[job[c]] = phase[job[c]] /\ deadline'[job[c]] = deadline[job[c]]
          BY <3>1, <4>1 DEF LaunchInv, BackstopWaits
        <4>2. CASE phase'[job[c]] = "off"
          BY <4>2
        <4>3. CASE phase'[job[c]] = "armed" /\ deadline'[job[c]] = BackstopMax
          BY <1>2, <4>3
        <4>4. QED
          BY <1>3, <1>4, <3>1, <4>1, <4>2, <4>3, StepOnBackstop
      <3>6. QED
        BY <3>1, <3>4, <3>5
    <2>2. ASSUME NEW c \in Consumer, pc'[c] \in Launching, Start(c)
          PROVE  /\ job'[c] = job[c] /\ held'[c] = held[c]
                 /\ status'[job[c]] = "running" /\ phase'[job[c]] = "off"
      <3>1. job'[c] = job[c] /\ held'[c] = held[c] /\ status[job[c]] = "pending" /\ job[c] \in Run
        BY <1>1, <2>2 DEF Start, Goto, Launching, InvocationTypeOK
      <3>2. QED
        BY <1>1, <2>2, <3>1 DEF Start, MarkRunStarted, TableTypeOK, NothingBeforeStart,
                                containerVars, backstopVars
    <2>3. QED
      BY <2>1, <2>2 DEF LaunchInv, StillRunning, BackstopWaits
  <1>5. CASE Tick
    <2>1. /\ UNCHANGED <<status, pc, job, phase>>
          /\ \A r \in Run : deadline'[r] \in Nat /\ deadline'[r] + 1 >= deadline[r]
          /\ \A c \in Consumer : pc[c] # "idle" => held'[c] = held[c] + 1
      BY <1>2, <1>5 DEF Tick, AgeTick, ContainerTick, Down
    <2>2. QED
      BY <1>2, <2>1 DEF LaunchInv, StillRunning, BackstopWaits, Launching
  <1>6. CASE UNCHANGED vars
    BY <1>6 DEF vars, tableVars, invocationVars, containerVars, backstopVars, LaunchInv,
                StillRunning, BackstopWaits
  <1>7. QED
    BY <1>4, <1>5, <1>6

LEMMA LaunchInvariant ==
    ASSUME InvocationFits, LaunchIsQuick
    PROVE  Spec => []LaunchInv
  <1>1. Init => LaunchInv
    BY DEF Init, LaunchInv, StillRunning, BackstopWaits, Launching
  <1>2. RunInv /\ LeaseInv /\ AgeInv /\ LaunchInv /\ [Next]_vars => LaunchInv'
    BY LaunchInvStep
  <1>3. QED
    BY <1>1, <1>2, RunInvariant, LeaseInvariant, AgeInvariant, PTL DEF Spec

LEMMA LaunchesRunning ==
    ASSUME RunInv, LaunchInv, [Next]_vars, NEW r \in Run, ~Deploying(r), Deploying(r)'
    PROVE  status[r] \in {"running", "deleted"}
  <1>1. Next /\ ~Tick
    BY DEF vars, containerVars, runnerVars, Tick, ContainerTick, Deploying
  <1>2. PICK c \in Consumer : Post(c) /\ job[c] = r
    BY <1>1, StepOnContainers DEF RunInv
  <1>3. QED
    BY <1>2 DEF LaunchInv, StillRunning, Post, Launching

(* A deploy begins only for a run the table has as running (or has deleted): *)
(* nobody fails a run whose container is about to start.  Here the lock is   *)
(* needed: it keeps a second invocation of the run, which is in its catch    *)
(* block, from failing the row under the first.                              *)
THEOREM LaunchedWhileRunning ==
    ASSUME InvocationFits, LaunchIsQuick
    PROVE  Spec => NoDeployOfSettledRun
  <1>1. RunInv /\ LaunchInv /\ [Next]_vars =>
          [\A r \in Run :
              ~Deploying(r) /\ Deploying(r)' => status[r] \in {"running", "deleted"}]_vars
    BY LaunchesRunning
  <1>2. QED
    BY <1>1, RunInvariant, LaunchInvariant, PTL DEF Spec, NoDeployOfSettledRun

-----------------------------------------------------------------------------
(* The lifecycle implements DeployPromise, the abstract work of a run being  *)
(* its container's.                                                          *)

(* No step both writes a row and moves a container ...                       *)
LEMMA RowOrContainer ==
    ASSUME [Next]_vars
    PROVE  UNCHANGED <<status, exit>> \/ UNCHANGED <<cont, result>>
  <1> USE DEF containerVars, runnerVars, tableVars
  <1>1. ASSUME NEW c \in Consumer, Consume(c)
        PROVE  UNCHANGED <<status, exit>> \/ UNCHANGED <<cont, result>>
    <2>1. CASE Deliver(c) \/ Read(c) \/ TakeLock(c) \/ Defer(c) \/ Requeue(c) \/ Ack(c) \/ EarlyThrow(c)
      BY <2>1 DEF Deliver, Read, TakeLock, Defer, Requeue, Ack, EarlyThrow
    <2>2. CASE Start(c) \/ LoadGone(c) \/ LoadJob(c) \/ Boot(c) \/ Arm(c) \/ Post(c)
      BY <2>2 DEF Start, LoadGone, LoadJob, Boot, Arm, Post
    <2>3. CASE Relayed(c) \/ RunnerRecords(c) \/ Record(c) \/ CallRejects(c) \/ RelayThrows(c)
      BY <2>3 DEF Relayed, RunnerRecords, Record, CallRejects, RelayThrows
    <2>4. CASE BodyThrow(c) \/ Fail(c) \/ Unlock(c) \/ UnlockThrows(c) \/ Dies(c)
      BY <2>4 DEF BodyThrow, Fail, Unlock, UnlockThrows, Dies
    <2>5. QED
      BY <1>1, <2>1, <2>2, <2>3, <2>4 DEF Consume
  <1>2. ASSUME NEW r \in Run, RunStep(r)
        PROVE  UNCHANGED <<status, exit>> \/ UNCHANGED <<cont, result>>
    <2>1. CASE Trigger(r) \/ Send(r) \/ ProducerDies(r)
      BY <2>1 DEF Trigger, Send, ProducerDies
    <2>2. CASE RunnerStep(r)
      BY <2>2 DEF RunnerStep, RunnerFinish, ContainerStops
    <2>3. CASE Backstop(r) \/ BackstopFails(r)
      BY <2>3 DEF Backstop, BackstopFails, BackstopCheck, BackstopFinish, BackstopLost
    <2>4. QED
      BY <1>2, <2>1, <2>2, <2>3 DEF RunStep
  <1>3. CASE Sweep \/ Registry \/ Tick
    BY <1>3 DEF Sweep, Registry, RemoveEnv, RegisterEnv, RemoveApp, RegisterApp, Tick, AgeTick
  <1>4. CASE UNCHANGED vars
    BY <1>4 DEF vars
  <1>5. QED
    BY <1>1, <1>2, <1>3, <1>4 DEF Next

(* ... and a container that has not worked yet is not over after one step.   *)
LEMMA WorksFirst ==
    ASSUME TypeInv, [Next]_vars, NEW r \in Run, cont[r] \in {"off", "booted"}
    PROVE  cont'[r] \in {"off", "booted", "active"}
  <1>1. ContainerTypeOK
    BY TypeOKParts DEF TypeInv
  <1> USE <1>1 DEF ContainerTypeOK, containerVars, runnerVars
  <1>2. ASSUME NEW c \in Consumer, Consume(c) PROVE cont'[r] \in {"off", "booted", "active"}
    <2>1. CASE Boot(c) \/ Post(c)
      BY <2>1 DEF Boot, BootContainer, Post, AcceptRun
    <2>2. CASE Deliver(c) \/ Read(c) \/ TakeLock(c) \/ Defer(c) \/ Requeue(c) \/ Ack(c) \/ EarlyThrow(c)
      BY <2>2 DEF Deliver, Read, TakeLock, Defer, Requeue, Ack, EarlyThrow
    <2>3. CASE Start(c) \/ LoadGone(c) \/ LoadJob(c) \/ Arm(c) \/ Relayed(c) \/ RunnerRecords(c) \/ Record(c)
      BY <2>3 DEF Start, LoadGone, LoadJob, Arm, ArmBackstop, Relayed, RunnerRecords, Record
    <2>4. CASE CallRejects(c) \/ RelayThrows(c) \/ BodyThrow(c) \/ Fail(c) \/ Unlock(c) \/ UnlockThrows(c)
             \/ Dies(c)
      BY <2>4 DEF CallRejects, RelayThrows, BodyThrow, Fail, Unlock, UnlockThrows, Dies
    <2>5. QED
      BY <1>2, <2>1, <2>2, <2>3, <2>4 DEF Consume
  <1>3. ASSUME NEW s \in Run, RunStep(s) PROVE cont'[r] \in {"off", "booted", "active"}
    <2>1. CASE Trigger(s) \/ Send(s) \/ ProducerDies(s)
      BY <2>1 DEF Trigger, Send, ProducerDies
    <2>2. CASE RunnerStep(s)
      BY <2>2 DEF RunnerStep, RunnerFinish, ContainerStops
    <2>3. CASE Backstop(s) \/ BackstopFails(s)
      BY <2>3 DEF Backstop, BackstopFails, BackstopCheck, BackstopFinish, BackstopLost
    <2>4. QED
      BY <1>3, <2>1, <2>2, <2>3 DEF RunStep
  <1>4. Sweep \/ Registry \/ Tick \/ UNCHANGED vars => UNCHANGED cont
    BY DEF Sweep, Registry, RemoveEnv, RegisterEnv, RemoveApp, RegisterApp, Tick, ContainerTick, vars
  <1>5. QED
    BY <1>2, <1>3, <1>4 DEF Next

(* The promise speaks of the same outcomes and of the same rows.             *)
LEMMA SameVocabulary ==
    /\ Promise!Outcome = Outcome
    /\ Promise!NoOutcome = NoOutcome
    /\ Promise!FailedNoExit = FailedNoExit
  BY DEF Promise!Outcome, Promise!NoOutcome, Promise!FailedNoExit, Promise!Succeeded,
         Promise!DeployFailed, Outcome, NoOutcome, FailedNoExit, Succeeded, DeployFailed

LEMMA SameRows ==
    ASSUME NEW r \in Run
    PROVE  /\ Row!Stays(r) <=> Promise!Row!Stays(r)
           /\ Row!Created(r) <=> Promise!Row!Created(r)
           /\ Row!Started(r) <=> Promise!Row!Started(r)
           /\ Row!Finished(r) <=> Promise!Row!Finished(r)
           /\ Row!Removed(r) <=> Promise!Row!Removed(r)
  BY DEF Row!Stays, Row!Created, Row!Started, Row!Finished, Row!Removed, Row!Open,
         Promise!Row!Stays, Promise!Row!Created, Promise!Row!Started, Promise!Row!Finished,
         Promise!Row!Removed, Promise!Row!Open

(* A step that writes rows settles them with what is known of their work.    *)
LEMMA RowsKeepPromise ==
    ASSUME RunInv, RealInv', [Next]_vars, UNCHANGED <<cont, result>>, NEW r \in Run
    PROVE  Promise!RunStep(r)
  <1>1. Work' = Work /\ Ended' = Ended
    BY DEF Work, Ended
  <1>2. Promise!WorkStays(r)
    BY <1>1 DEF Promise!WorkStays
  <1>3. Row!RowStep(r)
    BY StepFollowsLifecycle DEF RunInv, Row!Next
  <1>4. CASE Row!Finished(r)
    <2>1. \/ status'[r] = "succeeded" /\ exit'[r] = "zero"
          \/ status'[r] = "failed" /\ exit'[r] \in {"none", "nonzero"}
      BY <1>4 DEF Row!Finished
    <2>2. \/ status'[r] # "succeeded" /\ exit'[r] = "none"
          \/ /\ cont[r] \in {"done", "dead"} /\ exit'[r] = result[r].exit
             /\ status'[r] = "succeeded" => result[r] = Succeeded
      BY DEF RealInv, RowsReal, Ran
    <2>3. result[r] \in Outcome \cup {NoOutcome}
      BY TypeOKParts DEF RunInv, TypeInv, ContainerTypeOK
    <2>4. cont[r] \in {"done", "dead"} => Work[r] = "over" /\ Ended[r] = result[r]
      BY DEF Work, Ended
    <2>5. CASE status'[r] = "failed" /\ exit'[r] = "none"
      <3>1. FailedNoExit \in Promise!Known(r)
        BY SameVocabulary DEF Promise!Known
      <3>2. QED
        BY <1>2, <1>4, <2>5, <3>1, SameRows DEF Promise!RunStep, Promise!Settled, FailedNoExit
    <2>6. CASE ~(status'[r] = "failed" /\ exit'[r] = "none")
      <3>1. /\ cont[r] \in {"done", "dead"} /\ result[r] \in Outcome
            /\ status'[r] = result[r].state /\ exit'[r] = result[r].exit
        BY <2>1, <2>2, <2>3, <2>6 DEF Outcome, NoOutcome, Succeeded, DeployFailed, FailedNoExit
      <3>2. result[r] \in Promise!Known(r)
        BY <2>4, <3>1, SameVocabulary DEF Promise!Known
      <3>3. QED
        BY <1>2, <1>4, <3>1, <3>2, SameRows DEF Promise!RunStep, Promise!Settled
    <2>7. QED
      BY <2>5, <2>6
  <1>5. CASE Row!Created(r) \/ Row!Started(r) \/ Row!Removed(r) \/ Row!Stays(r)
    BY <1>2, <1>5, SameRows DEF Promise!RunStep, Promise!RowMoves
  <1>6. QED
    BY <1>3, <1>4, <1>5 DEF Row!RowStep

(* A step that moves containers launches a run's work once, while its row is *)
(* running or gone, and ends it once.                                        *)
LEMMA ContainersKeepPromise ==
    ASSUME RunInv, RunInv', LaunchInv, [Next]_vars, UNCHANGED <<status, exit>>, NEW r \in Run
    PROVE  Promise!RunStep(r)
  <1>1. Promise!Row!Stays(r)
    BY DEF Promise!Row!Stays
  <1>2. /\ cont[r] \in {"off", "booted", "active", "done", "dead"}
        /\ cont'[r] \in {"off", "booted", "active", "done", "dead"}
        /\ result'[r] \in Outcome \cup {NoOutcome}
    BY TypeOKParts DEF RunInv, TypeInv, ContainerTypeOK, TypeOK
  <1>3. /\ Work[r] = IF cont[r] \in {"off", "booted"} THEN "none"
                     ELSE IF cont[r] = "active" THEN "active" ELSE "over"
        /\ Work'[r] = IF cont'[r] \in {"off", "booted"} THEN "none"
                      ELSE IF cont'[r] = "active" THEN "active" ELSE "over"
        /\ Ended[r] = IF cont[r] \in {"done", "dead"} THEN result[r] ELSE NoOutcome
        /\ Ended'[r] = IF cont'[r] \in {"done", "dead"} THEN result'[r] ELSE NoOutcome
    BY DEF Work, Ended
  <1>4. CASE cont[r] \in {"off", "booted"} /\ cont'[r] \in {"off", "booted"}
    BY <1>1, <1>3, <1>4 DEF Promise!RunStep, Promise!WorkStays
  <1>5. CASE cont[r] \in {"off", "booted"} /\ cont'[r] = "active"
    <2>1. status[r] \in {"running", "deleted"}
      BY <1>5, LaunchesRunning DEF Deploying
    <2>2. QED
      BY <1>1, <1>3, <1>5, <2>1 DEF Promise!RunStep, Promise!Launched
  <1>6. CASE cont[r] = "active" /\ cont'[r] = "active"
    BY <1>1, <1>3, <1>6 DEF Promise!RunStep, Promise!WorkStays
  <1>7. CASE cont[r] = "active" /\ cont'[r] \in {"done", "dead"}
    BY <1>1, <1>2, <1>3, <1>7, SameVocabulary DEF Promise!RunStep, Promise!Ended
  <1>8. CASE cont[r] \in {"done", "dead"} /\ cont'[r] \in {"done", "dead"} /\ result'[r] = result[r]
    BY <1>1, <1>3, <1>8 DEF Promise!RunStep, Promise!WorkStays
  <1>9. QED
    BY <1>2, <1>4, <1>5, <1>6, <1>7, <1>8, WorksFirst, AcceptedOnce DEF RunInv

(* The lifecycle, with its queue, lock, containers, backstops and sweep,     *)
(* implements the promise of a deploy: settled once, executed once, begun    *)
(* only while running, and recorded as what it was.                          *)
THEOREM LifecycleKeepsPromise ==
    ASSUME InvocationFits, LaunchIsQuick
    PROVE  Spec => PromiseKept
  <1>1. Init => Promise!Init
    BY SameVocabulary
       DEF Init, TableInit, ContainerInit, Promise!Init, Promise!Row!Init, Work, Ended
  <1>2. ASSUME RunInv, RunInv', RealInv', LaunchInv, [Next]_vars PROVE Promise!Next
    BY <1>2, RowOrContainer, RowsKeepPromise, ContainersKeepPromise DEF Promise!Next
  <1>3. QED
    BY <1>1, <1>2, RunInvariant, RealInvariant, LaunchInvariant, PTL
       DEF Spec, PromiseKept, Promise!Spec

-----------------------------------------------------------------------------
(* Who carries a pending run: its producer, a message, or an invocation that *)
(* is not done with it.  An idle invocation carries none.                    *)
IdleHasNoRun == \A c \in Consumer : pc[c] = "idle" => job[c] = NoRun

LEMMA IdleHasNoRunStep ==
    ASSUME TypeInv, IdleHasNoRun, [Next]_vars
    PROVE  IdleHasNoRun'
  <1>1. InvocationTypeOK
    BY TypeOKParts DEF TypeInv
  <1> USE <1>1 DEF InvocationTypeOK, IdleHasNoRun
  <1>2. ASSUME NEW c \in Consumer, Consume(c) PROVE IdleHasNoRun'
    <2>1. ASSUME (\E l \in PC \ {"idle"} : Goto(c, l)) \/ Idle(c) PROVE IdleHasNoRun'
      BY <2>1 DEF Goto, Idle
    <2> USE <2>1 DEF PC, Holding, Early, InRunner
    <2>2. CASE Deliver(c) \/ Relayed(c)
      BY <2>2 DEF Deliver, Relayed
    <2>3. CASE Read(c) \/ TakeLock(c) \/ Defer(c) \/ Requeue(c) \/ Ack(c) \/ EarlyThrow(c)
      BY <2>3 DEF Read, TakeLock, Defer, Requeue, Ack, EarlyThrow, Redeliver
    <2>4. CASE Start(c) \/ LoadGone(c) \/ LoadJob(c) \/ Boot(c) \/ Arm(c) \/ Post(c)
      BY <2>4 DEF Start, LoadGone, LoadJob, Boot, Arm, Post
    <2>5. CASE RunnerRecords(c) \/ Record(c) \/ CallRejects(c) \/ RelayThrows(c) \/ BodyThrow(c)
      BY <2>5 DEF RunnerRecords, Record, CallRejects, RelayThrows, BodyThrow
    <2>6. CASE Fail(c) \/ Unlock(c) \/ UnlockThrows(c) \/ Dies(c)
      BY <2>6 DEF Fail, Unlock, UnlockThrows, Dies, Redeliver
    <2>7. QED
      BY <1>2, <2>2, <2>3, <2>4, <2>5, <2>6 DEF Consume
  <1>3. ASSUME NEW r \in Run, RunStep(r) PROVE UNCHANGED <<pc, job>>
    BY <1>3 DEF RunStep, Trigger, Send, ProducerDies, RunnerStep, Backstop, BackstopFails,
                invocationVars
  <1>4. ASSUME Sweep \/ Registry \/ Tick \/ UNCHANGED vars PROVE UNCHANGED <<pc, job>>
    BY <1>4 DEF Sweep, Registry, RemoveEnv, RegisterEnv, RegisterApp, RemoveApp, Tick, vars,
                invocationVars
  <1>5. QED
    BY <1>2, <1>3, <1>4 DEF Next

CarryInv == KnownRuns /\ StartedRuns /\ IdleHasNoRun

(* How a message is lost on its last delivery.                               *)
LastTryFails(c) ==
    /\ tries[c] = MaxRetries
    /\ faults' # faults \/ held[c] = MaxInvocation \/ pc[c] = "rerelease"

LEMMA StrikeChanges ==
    ASSUME faults \in [Disturbance -> Nat], NEW k \in Disturbance, Strike(k)
    PROVE  faults' # faults
  BY DEF Strike

(* An invocation lets go of a pending run only into the queue, or because    *)
(* its last try failed.                                                      *)
LEMMA LetGo ==
    ASSUME TypeInv, CarryInv, NEW c \in Consumer, Consume(c), pc[c] # "ack", job[c] \in Run,
           status[job[c]] = "pending"
    PROVE  \/ job'[c] = job[c] /\ pc'[c] # "ack"
           \/ \E m \in queue' : m.run = job[c]
           \/ LastTryFails(c)
  <1>1. /\ InvocationTypeOK /\ pc[c] # "idle" /\ tries[c] \in 0 .. MaxRetries
        /\ faults \in [Disturbance -> Nat] /\ MaxRetries \in Nat
    BY TypeOKParts, NoRunAssumption, ConsumerAssumption
       DEF TypeInv, InvocationTypeOK, CarryInv, IdleHasNoRun
  <1> USE <1>1, StrikeChanges DEF InvocationTypeOK, Disturbance
  <1>2. ASSUME NEW l \in PC \ {"ack"}, Goto(c, l) PROVE job'[c] = job[c] /\ pc'[c] # "ack"
    BY <1>2 DEF Goto
  <1>3. ASSUME Redeliver(c), faults' # faults \/ held[c] = MaxInvocation \/ pc[c] = "rerelease"
        PROVE  (\E m \in queue' : m.run = job[c]) \/ LastTryFails(c)
    <2>1. CASE tries[c] < MaxRetries
      <3>1. [run |-> job[c], tries |-> tries[c] + 1] \in queue'
        BY <1>3, <2>1 DEF Redeliver
      <3>2. QED
        BY <3>1
    <2>2. CASE tries[c] = MaxRetries
      BY <1>3, <2>2 DEF LastTryFails
    <2>3. QED
      BY <2>1, <2>2
  <1>4. pc[c] # "release"
    BY DEF CarryInv, StartedRuns, PastStart
  <1> USE <1>2, <1>3, <1>4 DEF PC, Holding, Early, InRunner
  <1>5. CASE Read(c) \/ TakeLock(c) \/ Defer(c) \/ Ack(c) \/ Deliver(c)
    BY <1>5 DEF Read, TakeLock, Defer, Ack, Deliver
  <1>6. CASE Requeue(c)
    <2>1. [run |-> job[c], tries |-> 0] \in queue'
      BY <1>6 DEF Requeue
    <2>2. QED
      BY <2>1
  <1>7. CASE EarlyThrow(c)
    BY <1>7 DEF EarlyThrow
  <1>8. CASE Start(c) \/ LoadGone(c) \/ LoadJob(c) \/ Boot(c) \/ Arm(c) \/ Post(c)
    BY <1>8 DEF Start, LoadGone, LoadJob, Boot, Arm, Post
  <1>9. CASE Relayed(c)
    BY <1>9 DEF Relayed
  <1>10. CASE RunnerRecords(c) \/ Record(c) \/ CallRejects(c) \/ RelayThrows(c) \/ BodyThrow(c)
    BY <1>10 DEF RunnerRecords, Record, CallRejects, RelayThrows, BodyThrow
  <1>11. CASE Fail(c)
    BY <1>11 DEF Fail
  <1>12. CASE Unlock(c)
    BY <1>12 DEF Unlock
  <1>13. CASE UnlockThrows(c)
    BY <1>13 DEF UnlockThrows
  <1>14. CASE Dies(c)
    BY <1>14 DEF Dies
  <1>15. QED
    BY <1>5, <1>6, <1>7, <1>8, <1>9, <1>10, <1>11, <1>12, <1>13, <1>14 DEF Consume

(* A step of an invocation takes nothing from the others, and from the queue *)
(* only the message it is delivered.                                         *)
LEMMA OthersKeep ==
    ASSUME TypeInv, NEW c \in Consumer, Consume(c)
    PROVE  /\ unsent' = unsent
           /\ \A d \in Consumer \ {c} : pc'[d] = pc[d] /\ job'[d] = job[d]
           /\ \A m \in queue : m \in queue' \/ (pc'[c] = "read" /\ job'[c] = m.run)
  <1>1. InvocationTypeOK
    BY TypeOKParts DEF TypeInv
  <1> USE <1>1 DEF InvocationTypeOK
  <1>2. ASSUME (\E l \in PC : Goto(c, l)) \/ Idle(c)
        PROVE  \A d \in Consumer \ {c} : pc'[d] = pc[d] /\ job'[d] = job[d]
    BY <1>2 DEF Goto, Idle
  <1>3. Redeliver(c) => queue \subseteq queue' /\ Idle(c)
    BY DEF Redeliver
  <1> USE <1>2, <1>3 DEF PC, Holding, Early, InRunner
  <1>4. CASE Deliver(c)
    BY <1>4 DEF Deliver
  <1>5. CASE Relayed(c)
    BY <1>5 DEF Relayed
  <1>6. CASE Read(c) \/ TakeLock(c) \/ Defer(c) \/ Requeue(c) \/ Ack(c) \/ EarlyThrow(c)
    BY <1>6 DEF Read, TakeLock, Defer, Requeue, Ack, EarlyThrow
  <1>7. CASE Start(c) \/ LoadGone(c) \/ LoadJob(c) \/ Boot(c) \/ Arm(c) \/ Post(c)
    BY <1>7 DEF Start, LoadGone, LoadJob, Boot, Arm, Post
  <1>8. CASE RunnerRecords(c) \/ Record(c) \/ CallRejects(c) \/ RelayThrows(c) \/ BodyThrow(c)
    BY <1>8 DEF RunnerRecords, Record, CallRejects, RelayThrows, BodyThrow
  <1>9. CASE Fail(c) \/ Unlock(c) \/ UnlockThrows(c) \/ Dies(c)
    BY <1>9 DEF Fail, Unlock, UnlockThrows, Dies
  <1>10. QED
    BY <1>4, <1>5, <1>6, <1>7, <1>8, <1>9 DEF Consume

LEMMA DroppedByFailure ==
    ASSUME TypeInv, CarryInv, Next, NEW r \in Run,
           Carried(r), ~Carried(r)', status[r] = "pending"
    PROVE  r \in unsent \/ \E c \in Consumer : job[c] = r /\ LastTryFails(c)
  <1>1. ASSUME NEW c \in Consumer, Consume(c), r \notin unsent
        PROVE  \E d \in Consumer : job[d] = r /\ LastTryFails(d)
    <2>1. \A m \in queue : m.run # r
      BY <1>1, OthersKeep DEF Carried
    <2>2. PICK d \in Consumer : job[d] = r /\ pc[d] # "ack"
      BY <1>1, <2>1 DEF Carried
    <2>3. d = c
      BY <1>1, <2>2, OthersKeep DEF Carried
    <2>4. QED
      BY <1>1, <2>2, <2>3, LetGo DEF Carried
  <1>2. ASSUME NEW s \in Run, RunStep(s), r \notin unsent PROVE FALSE
    <2>1. queue \subseteq queue' /\ UNCHANGED <<pc, job>>
      BY <1>2 DEF RunStep, Trigger, Send, ProducerDies, RunnerStep, Backstop, BackstopFails,
                  invocationVars
    <2>2. QED
      BY <1>2, <2>1 DEF Carried
  <1>3. ASSUME Sweep \/ Registry \/ Tick PROVE FALSE
    <2>1. UNCHANGED <<queue, unsent, pc, job>>
      BY <1>3 DEF Sweep, Registry, RemoveEnv, RegisterEnv, RegisterApp, RemoveApp, Tick,
                  invocationVars
    <2>2. QED
      BY <2>1 DEF Carried
  <1>4. QED
    BY <1>1, <1>2, <1>3 DEF Next

(* No pending run is dropped but by a failure: not by waiting for a lock     *)
(* (run-lifecycle.ts), not by losing a race, not by being delivered twice.   *)
THEOREM DroppedOnlyByFailure == Spec => OnlyFailuresDropRuns
  <1>1. Init => NoExitUntilSettled /\ CarryInv
    BY DEF Init, TableInit, NoExitUntilSettled, CarryInv, KnownRuns, StartedRuns, IdleHasNoRun,
           PastStart, Launching
  <1>2. TypeInv /\ NoExitUntilSettled /\ CarryInv /\ [Next]_vars => NoExitUntilSettled' /\ CarryInv'
    BY StepFollowsLifecycle, KnownRunsStep, StartedRunsStep, IdleHasNoRunStep DEF CarryInv
  <1>3. TypeInv /\ CarryInv /\ [Next]_vars =>
          [\A r \in Run :
              Carried(r) /\ ~Carried(r)' /\ status[r] = "pending" /\ status'[r] = "pending" =>
                  \/ r \in unsent
                  \/ \E c \in Consumer :
                        /\ job[c] = r /\ tries[c] = MaxRetries
                        /\ \/ faults' # faults
                           \/ held[c] = MaxInvocation
                           \/ pc[c] = "rerelease"]_vars
    BY DroppedByFailure DEF LastTryFails
  <1>4. QED
    BY <1>1, <1>2, <1>3, TypeInvariant, PTL DEF Spec, OnlyFailuresDropRuns
=============================================================================
