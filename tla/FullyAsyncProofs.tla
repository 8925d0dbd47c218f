--------------------------- MODULE FullyAsyncProofs ---------------------------
(***************************************************************************)
(* Type correctness of the fully asynchronous recipe, for every value of   *)
(* the constants, and the facts about its helpers that the other proof     *)
(* modules use.                                                            *)
(***************************************************************************)
EXTENDS FullyAsync, SequenceTheorems, TLAPS

\* What ConstAssumption says, in the form the arithmetic below needs.
LEMMA ConstFacts ==
  /\ Total \in Nat /\ Total >= 1 /\ Required \in Nat /\ Required >= 1
  /\ Trigger \in Nat /\ Trigger >= 1 /\ PendingMax \in Nat /\ PendingMax >= 1
  /\ MaxRequired \in Nat /\ MaxRequired >= 1
  /\ MaxConcurrent \in Nat /\ MaxConcurrent >= 1
  /\ TestFreq \in Nat /\ TestFreq >= 1 /\ MaxFaults \in Nat
  /\ Partial \in BOOLEAN
<1>1. \A m, n \in Nat \ {0} : m * n >= 1
  OBVIOUS
<1> QED
  BY <1>1, ConstAssumption DEF ConstAssumption

\* The three facts about sequences that the proofs use.
LEMMA SeqEmpty == \A S : <<>> \in Seq(S)
OBVIOUS

\* Taking the head of a sequence that has one.
LEMMA SeqShorter ==
  ASSUME NEW S, NEW s \in Seq(S), s # <<>>
  PROVE  Head(s) \in S /\ Tail(s) \in Seq(S) /\ Len(Tail(s)) = Len(s) - 1
BY HeadTailProperties

\* Appending an element of its set to a sequence.
LEMMA SeqLonger ==
  ASSUME NEW S, NEW s \in Seq(S), NEW e \in S
  PROVE  Append(s, e) \in Seq(S) /\ Len(Append(s, e)) = Len(s) + 1
BY AppendProperties

\* notify_all leaves the processor at one of its points.
LEMMA NotifyType ==
  ASSUME ppc \in ProcessorPCs, NotifyAll
  PROVE  ppc' \in ProcessorPCs
BY DEF NotifyAll, ProcessorPCs

\* The look at running keeps the monitor and the waiters of the lock typed.
LEMMA CheckType ==
  ASSUME NEW waiters \in Seq(Coroutines), CheckRunning(waiters)
  PROVE  lockq' \in Seq(Coroutines) /\ mpc' \in {"check", "sleep", "exit"}
BY SeqLonger DEF CheckRunning, Coroutines

\* Reading a validation report keeps val_queue and logged typed.
LEMMA LogType ==
  ASSUME QueueTypeOK, logged \in Nat, LogValidation
  PROVE  valq' \in Seq(Reports) /\ logged' \in Nat
<1>1. CASE valq = <<>>
  BY <1>1 DEF LogValidation, QueueTypeOK
<1>2. CASE valq # <<>>
  <2>1. Head(valq) \in Reports /\ Tail(valq) \in Seq(Reports)
    BY <1>2, SeqShorter DEF QueueTypeOK
  <2> QED
    BY <1>2, <2>1 DEF LogValidation, Reports
<1> QED
  BY <1>1, <1>2

\* A coroutine that takes the lock leaves a queue of coroutines behind.
LEMMA LeaveType ==
  ASSUME lockq \in Seq(Coroutines), LeaveQueue
  PROVE  lockq' \in Seq(Coroutines)
BY SeqShorter DEF LeaveQueue

\* put_sample leaves a queue of stamps behind.
LEMMA PutType ==
  ASSUME QueueTypeOK, NEW entry \in Nat \cup {Terminator}, PutSample(entry)
  PROVE  QueueTypeOK'
<1> DEFINE kept == IF Len(queue) >= MaxQueue THEN Tail(queue) ELSE queue
<1>1. kept \in Seq(Nat \cup {Terminator})
  BY SeqShorter, ConstFacts DEF QueueTypeOK, MaxQueue
<1>2. queue' \in Seq(Nat \cup {Terminator})
  BY <1>1, SeqLonger DEF PutSample
<1> QED
  BY <1>2 DEF PutSample, QueueTypeOK

\* The state main leaves behind has the right types.
LEMMA TypeCorrectInit == Init => TypeOK
<1> USE ConstFacts
    DEF WaitLoops, TypeOK, RolloutTypeOK, ControlTypeOK, QueueTypeOK,
        TrainerTypeOK, ProcessorPCs, TrainerPCs, SyncPCs, procVars, taskVars,
        inputVars, flagVars, verVars, lockVars, loopVars, mqVars, trainVars,
        syncVars
<1> SUFFICES ASSUME Init PROVE TypeOK
  OBVIOUS
<1>1. RolloutTypeOK
  <2>1. fed \in 0..Total + 1 /\ taken \in 0..fed
    BY DEF Init
  <2>2. fails \in 0..MaxFaults
    BY DEF Init
  <2>3. ppc \in ProcessorPCs /\ hand \in {"none", "sample", "end"}
        /\ bound \in BOOLEAN
    BY DEF Init
  <2>4. gen \in Nat /\ sent \in Nat /\ finished \in Nat /\ broken \in Nat
        /\ cancelq \in Nat
    BY DEF Init
  <2> QED
    BY <2>1, <2>2, <2>3, <2>4
<1>2. ControlTypeOK
  BY SeqEmpty DEF Init
<1>3. QueueTypeOK
  <2>1. [version |-> 0, metrics |-> FALSE] \in Reports
    BY DEF Reports
  <2> QED
    BY <2>1, SeqEmpty DEF Init
<1>4. TrainerTypeOK
  BY DEF Init
<1> QED
  BY <1>1, <1>2, <1>3, <1>4

\* No coroutine, handler or remote call spoils a type.
LEMMA TypeCorrectStep ==
  ASSUME TypeOK, [Next]_vars
  PROVE  TypeOK'
<1> USE ConstFacts
    DEF WaitLoops, TypeOK, RolloutTypeOK, ControlTypeOK, QueueTypeOK,
        TrainerTypeOK, ProcessorPCs, TrainerPCs, SyncPCs, procVars, taskVars,
        inputVars, flagVars, verVars, lockVars, loopVars, mqVars, trainVars,
        syncVars
<1>1. CASE FeedSamples
  BY <1>1 DEF FeedSamples, FedNext
<1>2. CASE CheckPause
  BY <1>2 DEF CheckPause
<1>3. CASE ReceivePause
  BY <1>3, LeaveType DEF ReceivePause, PassLock
<1>4. CASE AwaitResume
  BY <1>4, LeaveType DEF AwaitResume, PassLock
<1>5. CASE TakeCancelled
  BY <1>5 DEF TakeCancelled
<1>6. CASE TakePending
  BY <1>6 DEF TakePending
<1>7. CASE SubmitSample
  BY <1>7, LeaveType DEF SubmitSample, PassLock
<1>8. ASSUME NEW c \in WaitLoops, LeaveLoop(c)
      PROVE  TypeOK'
  BY <1>8 DEF LeaveLoop, AfterLoop, Active
<1>9. ASSUME NEW c \in WaitLoops, EnterWait(c)
      PROVE  TypeOK'
  <2>1. RolloutTypeOK'
    BY <1>9, LeaveType DEF EnterWait, Active, TakeLock, Waiting, PassLock,
        Coroutines
  <2>2. ControlTypeOK'
    BY <1>9, LeaveType DEF EnterWait, Active, TakeLock, Waiting, PassLock,
        Coroutines
  <2>3. QueueTypeOK'
    BY <1>9, LeaveType DEF EnterWait, Active, TakeLock, Waiting, PassLock,
        Coroutines
  <2>4. TrainerTypeOK'
    BY <1>9, LeaveType DEF EnterWait, Active, TakeLock, Waiting, PassLock,
        Coroutines
  <2> QED
    BY <2>1, <2>2, <2>3, <2>4
<1>10. ASSUME NEW c \in WaitLoops, Harvest(c)
      PROVE  TypeOK'
  BY <1>10 DEF Harvest, Waiting, ReleaseLock
<1>11. CASE FinishSample
  BY <1>11, PutType DEF FinishSample
<1>12. CASE ReturnTask
  BY <1>12 DEF ReturnTask
<1>13. CASE CancelTask
  BY <1>13 DEF CancelTask
<1>14. CASE FailTask
  BY <1>14 DEF FailTask
<1>15. CASE MonitorTick
  <2>1. RolloutTypeOK'
    BY <1>15, NotifyType, CheckType, SeqLonger DEF MonitorTick, Coroutines
  <2>2. ControlTypeOK'
    BY <1>15, NotifyType, CheckType, SeqLonger DEF MonitorTick, Coroutines
  <2>3. QueueTypeOK'
    BY <1>15, NotifyType, CheckType, SeqLonger DEF MonitorTick, Coroutines
  <2>4. TrainerTypeOK'
    BY <1>15, NotifyType, CheckType, SeqLonger DEF MonitorTick, Coroutines
  <2> QED
    BY <2>1, <2>2, <2>3, <2>4
<1>16. CASE MonitorSkip
  BY <1>16, CheckType DEF MonitorSkip
<1>17. CASE MonitorUnpause
  <2>1. lockq # <<>>
    BY <1>17 DEF MonitorUnpause, Queued
  <2>2. lockq' \in Seq(Coroutines) /\ mpc' \in {"check", "sleep", "exit"}
    BY <1>17, <2>1, SeqShorter, CheckType DEF MonitorUnpause
  <2>3. ppc' \in ProcessorPCs
    BY <1>17, NotifyType DEF MonitorUnpause
  <2>4. RolloutTypeOK' /\ QueueTypeOK'
    BY <1>17, <2>3 DEF MonitorUnpause
  <2>5. ControlTypeOK'
    BY <1>17, <2>2 DEF MonitorUnpause
  <2>6. TrainerTypeOK'
    BY <1>17 DEF MonitorUnpause
  <2> QED
    BY <2>4, <2>5, <2>6
<1>18. CASE MonitorCheck
  BY <1>18, LeaveType DEF MonitorCheck, PassLock
<1>19. CASE SendTerminator
  BY <1>19, PutType DEF SendTerminator, Terminator
<1>20. CASE StopRunning
  <2>1. RolloutTypeOK'
    BY <1>20, LeaveType DEF StopRunning, PassLock
  <2>2. ControlTypeOK'
    BY <1>20, LeaveType DEF StopRunning, PassLock
  <2>3. QueueTypeOK'
    BY <1>20, LeaveType DEF StopRunning, PassLock
  <2>4. TrainerTypeOK'
    BY <1>20, LeaveType DEF StopRunning, PassLock
  <2> QED
    BY <2>1, <2>2, <2>3, <2>4
<1>21. ASSUME NEW c \in {"processor", "main", "sync"}, WaitForLock(c)
      PROVE  TypeOK'
  BY <1>21, SeqLonger DEF WaitForLock, Coroutines
<1>22. CASE Pause
  BY <1>22, LeaveType DEF Pause, TakeLock, Coroutines
<1>23. CASE Gathered
  <2>1. RolloutTypeOK'
    BY <1>23 DEF Gathered, ReleaseLock
  <2>2. ControlTypeOK'
    BY <1>23 DEF Gathered, ReleaseLock
  <2>3. QueueTypeOK'
    BY <1>23 DEF Gathered, ReleaseLock
  <2>4. TrainerTypeOK'
    BY <1>23 DEF Gathered, ReleaseLock
  <2> QED
    BY <2>1, <2>2, <2>3, <2>4
<1>24. CASE SyncWeights
  BY <1>24 DEF SyncWeights
<1>25. CASE UpdateVersion
  BY <1>25, LeaveType DEF UpdateVersion, TakeLock, Active, Coroutines
<1>26. CASE CountStaleness
  BY <1>26 DEF CountStaleness
<1>27. CASE ReportValidation
  <2>1. valq' \in Seq(Reports)
    <3>1. [version |-> sv, metrics |-> \/ sv % TestFreq = 0 /\ sv > 0
                                    \/ tpc = "final"] \in Reports
      BY DEF Reports
    <3> QED
      BY <1>27, <3>1, SeqLonger DEF ReportValidation
  <2> QED
    BY <1>27, <2>1 DEF ReportValidation, ReleaseLock
<1>28. CASE Resume
  <2>1. RolloutTypeOK'
    BY <1>28, LeaveType, NotifyType DEF Resume, PassLock
  <2>2. ControlTypeOK'
    BY <1>28, LeaveType, NotifyType DEF Resume, PassLock
  <2>3. QueueTypeOK'
    BY <1>28, LeaveType, NotifyType DEF Resume, PassLock
  <2>4. TrainerTypeOK'
    BY <1>28, LeaveType, NotifyType DEF Resume, PassLock
  <2> QED
    BY <2>1, <2>2, <2>3, <2>4
<1>29. CASE LogInitial
  BY <1>29, LogType DEF LogInitial
<1>30. CASE GetSample
  BY <1>30, SeqShorter DEF GetSample, Terminator
<1>31. CASE TrainStep
  BY <1>31 DEF TrainStep
<1>32. CASE StartSync
  BY <1>32 DEF StartSync
<1>33. CASE SyncReturns
  BY <1>33 DEF SyncReturns
<1>34. CASE LogStep
  BY <1>34, LogType DEF LogStep
<1>35. CASE FinishLoop
  BY <1>35, LogType DEF FinishLoop
<1>36. CASE LogFinal
  BY <1>36, LogType DEF LogFinal
<1>37. CASE UNCHANGED vars
  BY <1>37 DEF vars
<1> QED
  BY <1>1, <1>2, <1>3, <1>4, <1>5, <1>6, <1>7, <1>8, <1>9, <1>10, <1>11,
      <1>12, <1>13, <1>14, <1>15, <1>16, <1>17, <1>18, <1>19, <1>20, <1>21,
      <1>22, <1>23, <1>24, <1>25, <1>26, <1>27, <1>28, <1>29, <1>30, <1>31,
      <1>32, <1>33, <1>34, <1>35, <1>36, <1>37 DEF Next, Stop, Processor,
      Tasks, Monitor, GenerationMain, Synchronizer, TrainerNext

\* The variables have their types in every reachable state (TypeOK).
THEOREM TypeCorrect == Spec => []TypeOK
<1>1. TypeOK /\ [Next]_vars => TypeOK'
  BY TypeCorrectStep
<1> QED
  BY <1>1, TypeCorrectInit, PTL DEF Spec
-------------------------------------------------------------------------------
\* The message queue as its own module specifies it, with version stamps and the
\* final None as the entries.
Lossy == INSTANCE LossyQueue WITH Entry   <- Nat \cup {Terminator},
                                  MaxSize <- MaxQueue

\* A put of the recipe is a put of the lossy queue.
LEMMA PutIsLossy ==
  ASSUME QueueTypeOK, NEW entry \in Nat \cup {Terminator}, PutSample(entry)
  PROVE  Lossy!Next
<1>1. Len(queue) \in Nat /\ MaxQueue \in Nat
  BY ConstFacts DEF QueueTypeOK, MaxQueue
<1>2. Lossy!Put(entry)
  BY <1>1 DEF PutSample, Lossy!Put
<1> QED
  BY <1>2 DEF Lossy!Next

\* Only a task, the end of the generation main and the trainer use the queue.
LEMMA LossyStep ==
  ASSUME TypeOK, [Next]_vars
  PROVE  [Lossy!Next]_<<queue, consumed, dropped>>
<1> USE DEF mqVars
<1>1. CASE FeedSamples
  BY <1>1 DEF FeedSamples
<1>2. CASE Processor
  BY <1>2 DEF Processor, CheckPause, ReceivePause, AwaitResume, TakeCancelled,
     TakePending, SubmitSample, LeaveLoop, EnterWait, Harvest
<1>3. CASE FinishSample
  BY <1>3, PutIsLossy DEF FinishSample, TypeOK, ControlTypeOK
<1>4. CASE ReturnTask \/ CancelTask \/ FailTask
  BY <1>4 DEF ReturnTask, CancelTask, FailTask
<1>5. CASE Monitor
  BY <1>5 DEF Monitor, MonitorTick, MonitorSkip, MonitorUnpause, MonitorCheck
<1>6. CASE SendTerminator
  BY <1>6, PutIsLossy DEF SendTerminator, TypeOK
<1>7. CASE StopRunning
  BY <1>7 DEF StopRunning
<1>8. ASSUME NEW c \in {"processor", "main", "sync"}, WaitForLock(c)
      PROVE  UNCHANGED <<queue, consumed, dropped>>
  BY <1>8 DEF WaitForLock
<1>9. CASE Synchronizer
  BY <1>9 DEF Synchronizer, Pause, Gathered, SyncWeights, UpdateVersion,
     CountStaleness, ReportValidation, Resume
<1>10. CASE GetSample
  BY <1>10 DEF GetSample, Lossy!Next, Lossy!Get
<1>11. CASE LogInitial \/ TrainStep \/ StartSync \/ SyncReturns
            \/ LogStep \/ FinishLoop \/ LogFinal
  BY <1>11 DEF LogInitial, TrainStep, StartSync, SyncReturns, LogStep,
     FinishLoop, LogFinal
<1>12. CASE UNCHANGED vars
  BY <1>12 DEF vars
<1> QED
  BY <1>1, <1>2, <1>3, <1>4, <1>5, <1>6, <1>7, <1>8, <1>9, <1>10, <1>11, <1>12
     DEF Next, Stop, Tasks, GenerationMain, TrainerNext

\* The recipe uses its message queue as LossyQueue, which MessageQueue, the actor
\* with its suspended consumers, implements: the two models meet there.
THEOREM UsesLossyQueue == Spec => Lossy!Spec
<1>1. Init => Lossy!Init
  BY DEF Init, Lossy!Init
<1>2. TypeOK /\ [Next]_vars => [Lossy!Next]_<<queue, consumed, dropped>>
  BY LossyStep
<1> QED
  BY <1>1, <1>2, TypeCorrect, PTL DEF Spec, Lossy!Spec
===============================================================================
