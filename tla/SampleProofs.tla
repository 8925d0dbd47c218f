----------------------------- MODULE SampleProofs -----------------------------
(***************************************************************************)
(* No sample vanishes (Conservation), no validation report is left behind  *)
(* (ValidationDrained), and the processor reads no unassigned variable     *)
(* (ProcessorSurvives), whatever the sizes, the staleness, partial rollout *)
(* or not, and however many tasks raise; without partial rollout no sample *)
(* stays behind in the rollouter (NothingStranded).                        *)
(***************************************************************************)
EXTENDS FullyAsyncProofs

(***************************************************************************)
(* Conservation.  To be inductive it needs to know when the processor has  *)
(* a sample in its hand: from the take to the submission, and for ever     *)
(* when it raised in between.                                              *)
(***************************************************************************)
Dispatching == {"full", "fullWait", "submit", "submitWait"}

HandOK ==
  /\ ppc \in Dispatching => hand = "sample"
  /\ hand = "sample" => ppc \in Dispatching \cup {"crashed"}

ConservationInv == HandOK /\ Conservation

\* put_sample makes one more entry to account for, wherever it goes.
LEMMA PutCounts ==
  ASSUME QueueTypeOK, NEW entry \in Nat \cup {Terminator}, PutSample(entry)
  PROVE  /\ Len(queue') + dropped' = Len(queue) + dropped + 1
         /\ consumed' = consumed
<1>1. CASE Len(queue) >= MaxQueue
  <2>1. queue # <<>>
    BY <1>1, ConstFacts DEF MaxQueue
  <2>2. /\ Tail(queue) \in Seq(Nat \cup {Terminator})
        /\ Len(Tail(queue)) = Len(queue) - 1
    BY <2>1, SeqShorter DEF QueueTypeOK
  <2>3. Len(queue') = Len(queue)
    BY <1>1, <2>2, SeqLonger, LenProperties DEF PutSample, QueueTypeOK
  <2>4. dropped' = dropped + 1 /\ consumed' = consumed /\ dropped \in Nat
    BY <1>1 DEF PutSample, QueueTypeOK
  <2>5. Len(queue) \in Nat
    BY LenProperties DEF QueueTypeOK
  <2> QED
    BY <2>3, <2>4, <2>5
<1>2. CASE ~(Len(queue) >= MaxQueue)
  BY <1>2, SeqLonger, LenProperties DEF PutSample, QueueTypeOK
<1> QED
  BY <1>1, <1>2

\* The processor holds a sample only between taking it and submitting it.
LEMMA HandStep ==
  ASSUME TypeOK, HandOK, [Next]_vars
  PROVE  HandOK'
<1> USE DEF HandOK, Dispatching, procVars
<1>1. CASE UNCHANGED <<ppc, hand>>
  BY <1>1
<1>2. CASE \/ CheckPause \/ ReceivePause \/ AwaitResume \/ TakeCancelled
           \/ TakePending \/ SubmitSample
  BY <1>2 DEF CheckPause, ReceivePause, AwaitResume, TakeCancelled,
     TakePending, SubmitSample
<1>3. ASSUME NEW c \in WaitLoops, LeaveLoop(c) \/ EnterWait(c) \/ Harvest(c)
      PROVE  HandOK'
  BY <1>3 DEF LeaveLoop, EnterWait, Harvest, AfterLoop, Waiting, WaitLoops
<1>4. CASE MonitorTick \/ MonitorUnpause \/ Resume
  BY <1>4 DEF MonitorTick, MonitorUnpause, Resume, NotifyAll
<1>5. CASE \/ FeedSamples \/ Tasks \/ MonitorSkip \/ MonitorCheck
           \/ GenerationMain
           \/ \E c \in {"processor", "main", "sync"} : WaitForLock(c)
  BY <1>1, <1>5 DEF FeedSamples, Tasks, FinishSample, ReturnTask, CancelTask,
     FailTask, MonitorSkip, MonitorCheck, GenerationMain, SendTerminator,
     StopRunning, WaitForLock
<1>6. CASE \/ Pause \/ Gathered \/ SyncWeights \/ UpdateVersion
           \/ CountStaleness \/ ReportValidation \/ TrainerNext
  BY <1>1, <1>6 DEF Pause, Gathered, SyncWeights, UpdateVersion,
     CountStaleness, ReportValidation, TrainerNext, LogInitial, GetSample,
     TrainStep, StartSync, SyncReturns, LogStep, FinishLoop, LogFinal
<1>7. CASE UNCHANGED vars
  BY <1>1, <1>7 DEF vars
<1> QED
  BY <1>2, <1>3, <1>4, <1>5, <1>6, <1>7
     DEF Next, Stop, Processor, Monitor, Synchronizer

\* Each step moves an entry from one of its places to the next, or none.
LEMMA ConservationStep ==
  ASSUME TypeOK, HandOK, Conservation, [Next]_vars
  PROVE  Conservation'
<1> USE DEF procVars, taskVars, inputVars, flagVars, verVars, lockVars,
            loopVars, mqVars, trainVars, syncVars
<1>0. /\ SamplesTaken \in Nat /\ NonesSent \in Nat /\ InHand \in Nat
      /\ WithTasks \in Nat /\ WithQueue \in Nat
      /\ Len(queue) \in Nat /\ fails \in Nat /\ gen \in Nat
      /\ cancelq \in Nat /\ consumed \in Nat /\ dropped \in Nat
  BY LenProperties, ConstFacts
     DEF SamplesTaken, NonesSent, InHand, WithTasks, WithQueue, TypeOK,
         RolloutTypeOK, QueueTypeOK
<1>1. ASSUME UNCHANGED <<hand, taken, gen, cancelq, queue, consumed, dropped,
                         fails>>,
             NonesSent' = NonesSent
      PROVE  Conservation'
  BY <1>1 DEF Conservation, SamplesTaken, InHand, WithTasks, WithQueue
<1>2. CASE \/ CheckPause \/ ReceivePause \/ AwaitResume
           \/ \E c \in WaitLoops : LeaveLoop(c) \/ EnterWait(c) \/ Harvest(c)
  BY <1>1, <1>2 DEF CheckPause, ReceivePause, AwaitResume, LeaveLoop, EnterWait,
     Harvest, NonesSent
<1>3. CASE TakeCancelled
  <2>1. /\ InHand = 0 /\ InHand' = 1
        /\ cancelq' = cancelq - 1 /\ UNCHANGED <<gen, fails>>
    BY <1>3 DEF TakeCancelled, InHand, HandOK, Dispatching
  <2>2. WithTasks' = WithTasks - 1
    BY <1>0, <2>1 DEF WithTasks
  <2>3. /\ SamplesTaken' = SamplesTaken /\ NonesSent' = NonesSent
        /\ WithQueue' = WithQueue
    BY <1>3 DEF TakeCancelled, SamplesTaken, NonesSent, WithQueue
  <2> QED
    BY <1>0, <2>1, <2>2, <2>3 DEF Conservation
<1>4. CASE TakePending
  <2>1. InHand = 0 /\ SamplesTaken' = SamplesTaken + InHand'
    BY <1>4, ConstFacts
       DEF TakePending, SamplesTaken, InHand, HandOK, Dispatching, TypeOK,
           RolloutTypeOK
  <2>2. InHand' \in Nat /\ SamplesTaken' \in Nat
    BY <1>4, ConstFacts
       DEF TakePending, SamplesTaken, InHand, TypeOK, RolloutTypeOK
  <2>3. /\ NonesSent' = NonesSent /\ WithTasks' = WithTasks
        /\ WithQueue' = WithQueue
    BY <1>4 DEF TakePending, NonesSent, WithTasks, WithQueue
  <2>4. SamplesTaken + NonesSent = WithTasks + WithQueue
    BY <1>0, <2>1 DEF Conservation
  <2>5. SamplesTaken' + NonesSent' = InHand' + (WithTasks + WithQueue)
    BY <1>0, <2>1, <2>2, <2>3, <2>4
  <2>6. SamplesTaken' + NonesSent' = InHand' + WithTasks + WithQueue
    BY <1>0, <2>2, <2>5
  <2> QED
    BY <2>3, <2>6 DEF Conservation
<1>5. CASE SubmitSample
  <2>1. CASE paused
    BY <1>1, <1>5, <2>1 DEF SubmitSample, NonesSent
  <2>2. CASE ~paused
    <3>1. /\ InHand = 1 /\ InHand' = 0
          /\ gen' = gen + 1 /\ UNCHANGED <<cancelq, fails>>
      BY <1>5, <2>2 DEF SubmitSample, InHand, HandOK, Dispatching
    <3>2. WithTasks' = WithTasks + 1
      BY <1>0, <3>1 DEF WithTasks
    <3>3. /\ SamplesTaken' = SamplesTaken /\ NonesSent' = NonesSent
          /\ WithQueue' = WithQueue
      BY <1>5 DEF SubmitSample, SamplesTaken, NonesSent, WithQueue
    <3> QED
      BY <1>0, <3>1, <3>2, <3>3 DEF Conservation
  <2> QED
    BY <2>1, <2>2
<1>6. ASSUME NEW e, PutSample(e), e \in Nat \cup {Terminator}
      PROVE  WithQueue' = WithQueue + 1
  <2>1. /\ Len(queue') + dropped' = Len(queue) + dropped + 1
        /\ consumed' = consumed
    BY <1>6, PutCounts DEF TypeOK
  <2>2. Len(queue') \in Nat /\ dropped' \in Nat
    BY <1>6, PutType, LenProperties DEF TypeOK, QueueTypeOK
  <2> QED
    BY <1>0, <2>1, <2>2 DEF WithQueue
<1>7. CASE FinishSample
  <2>1. WithQueue' = WithQueue + 1
    BY <1>6, <1>7 DEF FinishSample, TypeOK, ControlTypeOK
  <2>2. gen' = gen - 1 /\ UNCHANGED <<cancelq, fails>>
    BY <1>7 DEF FinishSample
  <2>3. WithTasks' = WithTasks - 1
    BY <1>0, <2>2 DEF WithTasks
  <2>4. /\ SamplesTaken' = SamplesTaken /\ NonesSent' = NonesSent
        /\ InHand' = InHand
    BY <1>7 DEF FinishSample, SamplesTaken, NonesSent, InHand
  <2> QED
    BY <1>0, <2>1, <2>3, <2>4 DEF Conservation
<1>8. CASE CancelTask \/ FailTask
  <2>1. \/ gen' = gen - 1 /\ cancelq' = cancelq + 1 /\ fails' = fails
        \/ gen' = gen - 1 /\ cancelq' = cancelq /\ fails' = fails + 1
    BY <1>8 DEF CancelTask, FailTask
  <2>2. WithTasks' = WithTasks
    BY <1>0, <2>1 DEF WithTasks
  <2>3. /\ SamplesTaken' = SamplesTaken /\ NonesSent' = NonesSent
        /\ InHand' = InHand /\ WithQueue' = WithQueue
    BY <1>8 DEF CancelTask, FailTask, SamplesTaken, NonesSent, InHand, WithQueue
  <2> QED
    BY <2>2, <2>3 DEF Conservation
<1>9. CASE SendTerminator \/ GetSample
  <2>1. CASE SendTerminator
    <3>1. WithQueue' = WithQueue + 1
      BY <1>6, <2>1 DEF SendTerminator
    <3>2. /\ SamplesTaken' = SamplesTaken /\ NonesSent = 0 /\ NonesSent' = 1
          /\ InHand' = InHand /\ WithTasks' = WithTasks
      BY <2>1 DEF SendTerminator, SamplesTaken, NonesSent, InHand, WithTasks
    <3> QED
      BY <1>0, <3>1, <3>2 DEF Conservation
  <2>2. CASE GetSample
    <3>1. /\ Len(queue') = Len(queue) - 1 /\ consumed' = consumed + 1
          /\ dropped' = dropped
      BY <2>2, SeqShorter DEF GetSample, TypeOK, QueueTypeOK
    <3>2. WithQueue' = WithQueue
      BY <1>0, <3>1 DEF WithQueue
    <3>3. /\ SamplesTaken' = SamplesTaken /\ NonesSent' = NonesSent
          /\ InHand' = InHand /\ WithTasks' = WithTasks
      BY <2>2 DEF GetSample, SamplesTaken, NonesSent, InHand, WithTasks
    <3> QED
      BY <3>2, <3>3 DEF Conservation
  <2> QED
    BY <1>9, <2>1, <2>2
<1>10. CASE \/ FeedSamples \/ ReturnTask \/ Monitor \/ StopRunning
            \/ \E c \in {"processor", "main", "sync"} : WaitForLock(c)
  BY <1>1, <1>10 DEF FeedSamples, ReturnTask, Monitor, MonitorTick, MonitorSkip,
     MonitorUnpause, MonitorCheck, StopRunning, WaitForLock, NonesSent
<1>11. CASE Synchronizer
  BY <1>1, <1>11 DEF Synchronizer, Pause, Gathered, SyncWeights, UpdateVersion,
     CountStaleness, ReportValidation, Resume, NonesSent
<1>12. CASE \/ LogInitial \/ TrainStep \/ StartSync \/ SyncReturns
            \/ LogStep \/ FinishLoop \/ LogFinal
  BY <1>1, <1>12 DEF LogInitial, TrainStep, StartSync, SyncReturns, LogStep,
     FinishLoop, LogFinal, NonesSent
<1>13. CASE UNCHANGED vars
  BY <1>1, <1>13 DEF vars, NonesSent
<1> QED
  BY <1>2, <1>3, <1>4, <1>5, <1>6, <1>7, <1>8, <1>9, <1>10, <1>11, <1>12, <1>13
     DEF Next, Stop, Processor, Tasks, GenerationMain, TrainerNext

\* Every entry ever made is in one place only (Conservation), for all sizes.
THEOREM NothingVanishes == Spec => []Conservation
<1>1. Init => ConservationInv
  BY ConstFacts DEF Init, ConservationInv, HandOK, Conservation, SamplesTaken,
     NonesSent, InHand, WithTasks, WithQueue, Dispatching
<1>2. TypeOK /\ ConservationInv /\ [Next]_vars => ConservationInv'
  BY HandStep, ConservationStep DEF ConservationInv
<1>3. ConservationInv => Conservation
  BY DEF ConservationInv
<1> QED
  BY <1>1, <1>2, <1>3, TypeCorrect, PTL DEF Spec
-------------------------------------------------------------------------------
(***************************************************************************)
(* ValidationDrained.  _log_validation_data reads at most one report, and  *)
(* only sync_weights makes one: the reports in val_queue and the one the   *)
(* running synchronization has still to make are bounded by where the      *)
(* trainer is.                                                             *)
(***************************************************************************)
ReportsToCome ==
  IF spc \in {"pause", "gather", "weights", "update", "count", "report"}
  THEN 1 ELSE 0

MaxReports == IF tpc \in {"syncing", "log"} THEN 2
              ELSE IF tpc = "done" THEN 0 ELSE 1

ReportInv == Len(valq) + ReportsToCome <= MaxReports

\* _log_validation_data takes at most one report.
LEMMA LogDrains ==
  ASSUME TypeOK, LogValidation
  PROVE  /\ Len(valq) \in Nat /\ Len(valq') \in Nat
         /\ Len(valq') = IF Len(valq) = 0 THEN 0 ELSE Len(valq) - 1
<1> USE DEF TypeOK, QueueTypeOK
<1>1. CASE valq = <<>>
  BY <1>1, EmptySeq DEF LogValidation
<1>2. CASE valq # <<>>
  <2>1. Len(valq) \in Nat /\ Len(valq) # 0
    BY <1>2, EmptySeq, LenProperties
  <2>2. Len(Tail(valq)) = Len(valq) - 1
    BY <1>2, SeqShorter
  <2>3. valq' = Tail(valq)
    BY <1>2 DEF LogValidation
  <2> QED
    BY <2>1, <2>2, <2>3
<1> QED
  BY <1>1, <1>2

\* Reports come one per synchronization, and each is read before the next.
LEMMA ReportStep ==
  ASSUME TypeOK, ReportInv, [Next]_vars
  PROVE  ReportInv'
<1> USE DEF ReportInv, ReportsToCome, MaxReports, procVars, taskVars, inputVars,
            flagVars, verVars, lockVars, loopVars, mqVars, trainVars, syncVars
<1>0. Len(valq) \in Nat
  BY LenProperties DEF TypeOK, QueueTypeOK
<1>1. CASE UNCHANGED <<valq, spc, tpc>>
  BY <1>1
<1>2. CASE \/ FeedSamples \/ Processor \/ Tasks \/ Monitor \/ GenerationMain
           \/ \E c \in {"processor", "main", "sync"} : WaitForLock(c)
  BY <1>1, <1>2 DEF FeedSamples, Processor, CheckPause, ReceivePause,
     AwaitResume, TakeCancelled, TakePending, SubmitSample, LeaveLoop,
     EnterWait, Harvest, Tasks, FinishSample, ReturnTask, CancelTask, FailTask,
     PutSample, Monitor, MonitorTick, MonitorSkip, MonitorUnpause, MonitorCheck,
     GenerationMain, SendTerminator, StopRunning, WaitForLock
<1>3. CASE \/ Pause \/ Gathered \/ SyncWeights \/ UpdateVersion
           \/ CountStaleness \/ Resume
  BY <1>3 DEF Pause, Gathered, SyncWeights, UpdateVersion, CountStaleness,
     Resume
<1>4. CASE ReportValidation
  <2>1. Len(valq') = Len(valq) + 1
    BY <1>4, LenProperties DEF ReportValidation, TypeOK, QueueTypeOK
  <2> QED
    BY <1>0, <1>4, <2>1 DEF ReportValidation
<1>5. CASE LogInitial \/ LogStep
  BY <1>5, LogDrains DEF LogInitial, LogStep
<1>6. CASE GetSample \/ TrainStep \/ StartSync \/ SyncReturns
  BY <1>0, <1>6 DEF GetSample, TrainStep, StartSync, SyncReturns
<1>7. CASE FinishLoop \/ LogFinal
  BY <1>7, LogDrains DEF FinishLoop, LogFinal
<1>8. CASE UNCHANGED vars
  BY <1>1, <1>8 DEF vars
<1> QED
  BY <1>2, <1>3, <1>4, <1>5, <1>6, <1>7, <1>8
     DEF Next, Stop, Synchronizer, TrainerNext

\* No validation report is left when the trainer returns (ValidationDrained).
THEOREM ReportsAreRead == Spec => []ValidationDrained
<1>1. Init => ReportInv
  BY DEF Init, ReportInv, ReportsToCome, MaxReports
<1>2. TypeOK /\ ReportInv /\ [Next]_vars => ReportInv'
  BY ReportStep
<1>3. TypeOK /\ ReportInv => ValidationDrained
  BY EmptySeq DEF ReportInv, ReportsToCome, MaxReports, ValidationDrained,
     TypeOK, QueueTypeOK
<1> QED
  BY <1>1, <1>2, <1>3, TypeCorrect, PTL DEF Spec
-------------------------------------------------------------------------------
(***************************************************************************)
(* ProcessorSurvives.  The processor reads done_tasks in an iteration of a *)
(* wait loop that found no task after it had to wait for the lock.  Until  *)
(* done_tasks is assigned for the first time this cannot happen: up to its *)
(* first wait for tasks the processor has never been suspended (the lock   *)
(* was free and nobody waited for it), and every task it created is still  *)
(* active.                                                                 *)
(***************************************************************************)
FirstRun ==
  /\ ppc \in {"loop", "take", "pause", "submit"} \cup WaitLoops
  /\ lock = "free" /\ lockq = <<>> /\ (paused => ppc = "drain")
  /\ queue = <<>> /\ cancelq = 0 /\ staleness = taken
  /\ sent = 0 /\ finished = 0 /\ broken = 0
  /\ mpc = "sleep" /\ spc = "idle" /\ gpc = "await"
  /\ tpc \in {"start", "collect"}
  /\ taken = gen + (IF hand = "none" THEN 0 ELSE 1)
  /\ hand = "none"   <=> ppc \in {"loop", "take", "pause", "drain"}
  /\ hand = "sample" <=> ppc \in {"full", "submit"}
  /\ ppc = "fin" => taken = Total + 1
  /\ ppc \in {"pause", "drain"} => gen >= MaxRequired

FirstWait ==
  /\ ppc \in {"drainWait", "finWait", "fullWait"}
  /\ Active > 0

\* Who holds the lock is suspended at an await inside "async with lock".
LockOK ==
  /\ ppc \in {"drainWait", "finWait", "fullWait"} <=> lock = "processor"
  /\ spc \in {"gather", "count", "report"} <=> lock = "sync"

FaultOK == (broken > 0 => fails > 0) /\ ProcessorSurvives

SurvivalInv == LockOK /\ FaultOK /\ (~bound => FirstRun \/ FirstWait)

\* The lock is held by the coroutine that is suspended with it.
LEMMA LockStep ==
  ASSUME TypeOK, LockOK, [Next]_vars
  PROVE  LockOK'
<1> USE DEF LockOK, procVars, syncVars, lockVars
<1>1. CASE UNCHANGED <<ppc, spc, lock>>
  BY <1>1
<1>2. CASE \/ CheckPause \/ ReceivePause \/ AwaitResume \/ TakeCancelled
           \/ TakePending \/ SubmitSample
  BY <1>2 DEF CheckPause, ReceivePause, AwaitResume, TakeCancelled,
     TakePending, SubmitSample, PassLock
<1>3. ASSUME NEW c \in WaitLoops, LeaveLoop(c)
      PROVE  LockOK'
  BY <1>3 DEF LeaveLoop, AfterLoop, WaitLoops
<1>4. ASSUME NEW c \in WaitLoops, EnterWait(c)
      PROVE  LockOK'
  BY <1>4 DEF EnterWait, TakeLock, PassLock, HasTurn, Waiting, WaitLoops
<1>5. ASSUME NEW c \in WaitLoops, Harvest(c)
      PROVE  LockOK'
  BY <1>5 DEF Harvest, ReleaseLock, Waiting, WaitLoops
<1>6. CASE MonitorTick \/ MonitorUnpause \/ Resume
  BY <1>6 DEF MonitorTick, MonitorUnpause, Resume, NotifyAll, PassLock
<1>7. CASE \/ FeedSamples \/ Tasks \/ MonitorSkip \/ MonitorCheck
           \/ GenerationMain
           \/ \E c \in {"processor", "main", "sync"} : WaitForLock(c)
  BY <1>1, <1>7 DEF FeedSamples, Tasks, FinishSample, ReturnTask, CancelTask,
     FailTask, MonitorSkip, MonitorCheck, GenerationMain, SendTerminator,
     StopRunning, WaitForLock, PassLock
<1>8. CASE Pause \/ Gathered \/ SyncWeights
  BY <1>8 DEF Pause, Gathered, SyncWeights, TakeLock, ReleaseLock, HasTurn
<1>9. CASE UpdateVersion \/ CountStaleness \/ ReportValidation
  BY <1>9 DEF UpdateVersion, CountStaleness, ReportValidation, TakeLock,
     ReleaseLock, HasTurn
<1>10. CASE TrainerNext
  BY <1>1, <1>10 DEF TrainerNext, LogInitial, GetSample, TrainStep, StartSync,
     SyncReturns, LogStep, FinishLoop, LogFinal
<1>11. CASE UNCHANGED vars
  BY <1>1, <1>11 DEF vars
<1> QED
  BY <1>2, <1>3, <1>4, <1>5, <1>6, <1>7, <1>8, <1>9, <1>10, <1>11
     DEF Next, Stop, Processor, Monitor, Synchronizer

\* In its first run nobody but the processor, the feeder and the trainer that
\* reads the report of the initial synchronization takes a step.
LEMMA FirstRunExcludes ==
  ASSUME TypeOK, FirstRun
  PROVE  /\ ~LoopFree
         /\ \A c \in Coroutines : HasTurn(c)
         /\ ~Queued("processor")
BY EmptySeq DEF FirstRun, LoopFree, Running, Queued, HasTurn, Coroutines,
   WaitLoops

\* The first time the processor waits for all its tasks, one is active.
LEMMA FirstLoopWaits ==
  ASSUME TypeOK, FirstRun, ppc \in WaitLoops \ {"full"}
  PROVE  Active >= 1 /\ LoopTest(ppc)
<1>1. gen \in Nat /\ Active = gen
  BY DEF TypeOK, RolloutTypeOK, FirstRun, Active
<1>2. CASE ppc = "drain"
  BY <1>1, <1>2, ConstFacts DEF FirstRun, LoopTest
<1>3. CASE ppc = "fin"
  BY <1>1, <1>3, ConstFacts DEF FirstRun, LoopTest
<1> QED
  BY <1>1, <1>2, <1>3 DEF WaitLoops

\* A broken task implies one that has raised.
LEMMA FaultStep ==
  ASSUME TypeOK, SurvivalInv, [Next]_vars
  PROVE  FaultOK'
<1> USE DEF SurvivalInv, FaultOK, ProcessorSurvives, procVars, taskVars
<1>0. fails \in Nat /\ broken \in Nat
  BY ConstFacts DEF TypeOK, RolloutTypeOK
<1>1. CASE UNCHANGED <<ppc, broken, fails>>
  BY <1>1
<1>2. CASE \/ CheckPause \/ ReceivePause \/ AwaitResume \/ TakeCancelled
           \/ TakePending \/ SubmitSample
  BY <1>2 DEF CheckPause, ReceivePause, AwaitResume, TakeCancelled,
     TakePending, SubmitSample
<1>3. ASSUME NEW c \in WaitLoops, LeaveLoop(c)
      PROVE  FaultOK'
  BY <1>3 DEF LeaveLoop, AfterLoop, WaitLoops
<1>4. ASSUME NEW c \in WaitLoops, EnterWait(c)
      PROVE  FaultOK'
  <2>1. ppc' # "crashed"
    <3>1. CASE bound
      BY <1>4, <3>1 DEF EnterWait, Waiting, WaitLoops
    <3>2. CASE ~bound
      <4>1. FirstRun
        BY <1>4, <3>2 DEF FirstWait, EnterWait, WaitLoops
      <4>2. ~Queued("processor")
        BY <4>1, FirstRunExcludes
      <4>3. Active > 0
        BY <1>4, <4>2, ConstFacts DEF EnterWait, LoopTest, WaitLoops, TypeOK,
           RolloutTypeOK, Active
      <4> QED
        BY <1>4, <4>3 DEF EnterWait, Waiting, WaitLoops
    <3> QED
      BY <3>1, <3>2
  <2> QED
    BY <1>4, <2>1 DEF EnterWait
<1>5. ASSUME NEW c \in WaitLoops, Harvest(c)
      PROVE  FaultOK'
  BY <1>0, <1>5 DEF Harvest, WaitLoops
<1>6. CASE FailTask
  BY <1>0, <1>6 DEF FailTask
<1>7. CASE MonitorTick \/ MonitorUnpause \/ Resume
  BY <1>7 DEF MonitorTick, MonitorUnpause, Resume, NotifyAll
<1>8. CASE \/ FeedSamples \/ FinishSample \/ ReturnTask \/ CancelTask
           \/ MonitorSkip \/ MonitorCheck \/ GenerationMain
           \/ \E c \in {"processor", "main", "sync"} : WaitForLock(c)
  BY <1>1, <1>8 DEF FeedSamples, FinishSample, ReturnTask, CancelTask,
     MonitorSkip, MonitorCheck, GenerationMain, SendTerminator, StopRunning,
     WaitForLock
<1>9. CASE Gathered
  BY <1>9 DEF Gathered
<1>10. CASE \/ Pause \/ SyncWeights \/ UpdateVersion \/ CountStaleness
            \/ ReportValidation \/ TrainerNext
  BY <1>1, <1>10 DEF Pause, SyncWeights, UpdateVersion, CountStaleness,
     ReportValidation, TrainerNext, LogInitial, GetSample, TrainStep, StartSync,
     SyncReturns, LogStep, FinishLoop, LogFinal
<1>11. CASE UNCHANGED vars
  BY <1>1, <1>11 DEF vars
<1> QED
  BY <1>2, <1>3, <1>4, <1>5, <1>6, <1>7, <1>8, <1>9, <1>10, <1>11
     DEF Next, Stop, Processor, Tasks, Monitor, Synchronizer

\* The first run goes on, or ends in the first wait.
LEMMA FirstRunStep ==
  ASSUME TypeOK, FirstRun, [Next]_vars
  PROVE  FirstRun' \/ FirstWait'
<1> USE DEF procVars, taskVars, inputVars, flagVars, verVars, lockVars,
            loopVars, mqVars, trainVars, syncVars
<1>0. /\ ~LoopFree /\ \A c \in Coroutines : HasTurn(c)
      /\ ~Queued("processor")
  BY FirstRunExcludes
<1>1. CASE CheckPause
  <2>1. ~paused /\ Len(queue) = 0 /\ gen = staleness /\ hand = "none"
    BY <1>1, EmptySeq DEF CheckPause, FirstRun, TypeOK, RolloutTypeOK
  <2>2. ShouldPause => gen >= MaxRequired
    BY <2>1, ConstFacts DEF ShouldPause, MaxQueue
  <2> QED
    BY <1>1, <2>1, <2>2 DEF CheckPause, FirstRun
<1>2. CASE ReceivePause
  BY <1>2 DEF ReceivePause, PassLock, LeaveQueue, FirstRun, WaitLoops
<1>3. CASE TakePending
  BY <1>3, ConstFacts DEF TakePending, FirstRun, WaitLoops, TypeOK,
     RolloutTypeOK
<1>4. CASE SubmitSample
  BY <1>4 DEF SubmitSample, PassLock, LeaveQueue, FirstRun, WaitLoops, TypeOK,
     RolloutTypeOK
<1>5. ASSUME NEW c \in WaitLoops, LeaveLoop(c)
      PROVE  FirstRun'
  BY <1>5, FirstLoopWaits DEF LeaveLoop, AfterLoop, FirstRun, WaitLoops
<1>6. ASSUME NEW c \in WaitLoops, EnterWait(c)
      PROVE  FirstWait'
  <2>1. Active >= 1 /\ Active \in Nat
    <3>1. Active \in Nat
      BY DEF TypeOK, RolloutTypeOK, Active
    <3>2. LoopTest(c)
      BY <1>0, <1>6 DEF EnterWait
    <3> QED
      BY <3>1, <3>2, ConstFacts DEF LoopTest, WaitLoops
  <2>2. Active' = Active
    BY <1>6 DEF EnterWait, Active
  <2> QED
    BY <1>6, <2>1, <2>2 DEF EnterWait, Waiting, FirstWait, WaitLoops
<1>7. CASE FeedSamples
  BY <1>7 DEF FeedSamples, FirstRun
<1>8. CASE LogInitial
  BY <1>8 DEF LogInitial, LogValidation, FirstRun
<1>9. CASE UNCHANGED vars
  BY <1>9 DEF vars, FirstRun
<1>10. ~TakeCancelled /\ ~AwaitResume /\ \A c \in WaitLoops : ~Harvest(c)
  BY DEF TakeCancelled, AwaitResume, Harvest, Waiting, WaitLoops, FirstRun
<1>11. ~Tasks /\ ~Monitor /\ ~GenerationMain
  BY <1>0 DEF Tasks, FinishSample, ReturnTask, CancelTask, FailTask, Monitor,
     MonitorTick, MonitorSkip, MonitorUnpause, MonitorCheck, GenerationMain,
     SendTerminator, StopRunning
<1>12. \A c \in {"processor", "main", "sync"} : ~WaitForLock(c)
  BY <1>0 DEF WaitForLock, Coroutines
<1>13. ~Synchronizer
  BY DEF FirstRun, Synchronizer, Pause, Gathered, SyncWeights, UpdateVersion,
     CountStaleness, ReportValidation, Resume
<1>14. TrainerNext => LogInitial
  BY DEF FirstRun, TrainerNext, GetSample, TrainStep, StartSync, SyncReturns,
     LogStep, FinishLoop, LogFinal
<1> QED
  BY <1>1, <1>2, <1>3, <1>4, <1>5, <1>6, <1>7, <1>8, <1>9, <1>10, <1>11, <1>12,
     <1>13, <1>14 DEF Next, Stop, Processor

\* What the other processes do while the processor waits for the first time.
LEMMA FirstWaitStep ==
  ASSUME TypeOK, LockOK, FirstWait, [Next]_vars, ~bound'
  PROVE  FirstWait'
<1> USE DEF procVars, taskVars
<1>0. Active \in Nat /\ lock = "processor" /\ spc # "gather"
  BY DEF TypeOK, RolloutTypeOK, Active, LockOK, FirstWait
<1>1. CASE UNCHANGED <<ppc, gen, sent, finished, broken>>
  BY <1>1 DEF FirstWait, Active
<1>2. CASE Tasks
  <2>1. Active' = Active /\ ppc' = ppc
    BY <1>2 DEF Tasks, FinishSample, ReturnTask, CancelTask, FailTask, Active,
       TypeOK, RolloutTypeOK
  <2> QED
    BY <2>1 DEF FirstWait
<1>3. CASE \/ FeedSamples \/ MonitorSkip \/ MonitorCheck \/ GenerationMain
           \/ \E c \in {"processor", "main", "sync"} : WaitForLock(c)
  BY <1>1, <1>3 DEF FeedSamples, MonitorSkip, MonitorCheck, GenerationMain,
     SendTerminator, StopRunning, WaitForLock
<1>4. CASE MonitorTick \/ MonitorUnpause \/ Resume
  BY <1>1, <1>4 DEF MonitorTick, MonitorUnpause, Resume, NotifyAll, FirstWait
<1>5. CASE \/ Pause \/ SyncWeights \/ UpdateVersion \/ CountStaleness
           \/ ReportValidation \/ TrainerNext
  BY <1>1, <1>5 DEF Pause, SyncWeights, UpdateVersion, CountStaleness,
     ReportValidation, TrainerNext, LogInitial, GetSample, TrainStep, StartSync,
     SyncReturns, LogStep, FinishLoop, LogFinal
<1>6. CASE UNCHANGED vars
  BY <1>1, <1>6 DEF vars
<1>7. ~Gathered
  BY <1>0 DEF Gathered
<1>8. \A c \in WaitLoops : ~LeaveLoop(c) /\ ~EnterWait(c) /\ ~Harvest(c)
  BY DEF LeaveLoop, EnterWait, Harvest, FirstWait, WaitLoops
<1>9. /\ ~CheckPause /\ ~ReceivePause /\ ~AwaitResume /\ ~TakeCancelled
      /\ ~TakePending /\ ~SubmitSample
  BY DEF FirstWait, CheckPause, ReceivePause, AwaitResume, TakeCancelled,
     TakePending, SubmitSample
<1> QED
  BY <1>2, <1>3, <1>4, <1>5, <1>6, <1>7, <1>8, <1>9
     DEF Next, Stop, Processor, Monitor, Synchronizer

\* done_tasks stays assigned, or the processor is still before its first wait.
LEMMA SurvivalStep ==
  ASSUME TypeOK, SurvivalInv, [Next]_vars
  PROVE  SurvivalInv'
<1>1. LockOK' /\ FaultOK'
  BY LockStep, FaultStep DEF SurvivalInv
<1>2. bound => bound'
  BY DEF Next, vars, Stop, FeedSamples, Processor, CheckPause, ReceivePause,
     AwaitResume, TakeCancelled, TakePending, SubmitSample, LeaveLoop,
     EnterWait, Harvest, Tasks, FinishSample, ReturnTask, CancelTask, FailTask,
     Monitor, MonitorTick, MonitorSkip, MonitorUnpause, MonitorCheck,
     GenerationMain, SendTerminator, StopRunning, WaitForLock, Synchronizer,
     Pause, Gathered, SyncWeights, UpdateVersion, CountStaleness,
     ReportValidation, Resume, TrainerNext, LogInitial, GetSample, TrainStep,
     StartSync, SyncReturns, LogStep, FinishLoop, LogFinal, procVars
<1>3. ~bound' => FirstRun' \/ FirstWait'
  BY <1>2, FirstRunStep, FirstWaitStep DEF SurvivalInv
<1> QED
  BY <1>1, <1>3 DEF SurvivalInv

\* At first the processor is in its first run.
LEMMA SurvivalInit == Init => SurvivalInv
BY ConstFacts DEF Init, SurvivalInv, LockOK, FaultOK, ProcessorSurvives,
   FirstRun, WaitLoops

\* done_tasks is never read before it is assigned (ProcessorSurvives): the
\* processor worker raises only when a task has raised.
THEOREM ProcessorNeverUnbound == Spec => []ProcessorSurvives
<1>1. Init => SurvivalInv
  BY SurvivalInit
<1>2. TypeOK /\ SurvivalInv /\ [Next]_vars => SurvivalInv'
  BY SurvivalStep
<1>3. SurvivalInv => ProcessorSurvives
  BY DEF SurvivalInv, FaultOK
<1> QED
  BY <1>1, <1>2, <1>3, TypeCorrect, PTL DEF Spec
-------------------------------------------------------------------------------
(***************************************************************************)
(* NothingStranded, without partial rollout.  No task is ever cancelled;   *)
(* the processor returns only when no task is active, and starts none      *)
(* after that.                                                             *)
(***************************************************************************)
StrandInv ==
  /\ ~srvPaused /\ cancelq = 0
  /\ gpc # "await" => ppc \in {"exit", "crashed"}
  /\ ppc = "exit" => gen = 0

\* Without interruption cancel_queue is empty and the processor leaves no task.
LEMMA StrandStep ==
  ASSUME TypeOK, StrandInv, ~Partial, [Next]_vars
  PROVE  StrandInv'
<1> USE DEF StrandInv, procVars, taskVars, inputVars, verVars, loopVars
<1>0. gen \in Nat
  BY DEF TypeOK, RolloutTypeOK
<1>1. CASE UNCHANGED <<srvPaused, cancelq, gpc, ppc, gen>>
  BY <1>1
<1>2. CASE \/ CheckPause \/ ReceivePause \/ AwaitResume \/ TakeCancelled
           \/ TakePending \/ SubmitSample
  BY <1>2 DEF CheckPause, ReceivePause, AwaitResume, TakeCancelled,
     TakePending, SubmitSample
<1>3. ASSUME NEW c \in WaitLoops, LeaveLoop(c)
      PROVE  StrandInv'
  <2>1. c = "fin" => gen = 0
    BY <1>3 DEF LeaveLoop, LoopTest, Active, TypeOK, RolloutTypeOK
  <2> QED
    BY <1>3, <2>1 DEF LeaveLoop, AfterLoop, WaitLoops
<1>4. ASSUME NEW c \in WaitLoops, EnterWait(c) \/ Harvest(c)
      PROVE  StrandInv'
  BY <1>4 DEF EnterWait, Harvest, Waiting, WaitLoops
<1>5. CASE Tasks
  BY <1>0, <1>5 DEF Tasks, FinishSample, ReturnTask, CancelTask, FailTask
<1>6. CASE MonitorTick \/ MonitorUnpause
  BY <1>6 DEF MonitorTick, MonitorUnpause, NotifyAll
<1>7. CASE Resume
  BY <1>7 DEF Resume, NotifyAll
<1>8. CASE GenerationMain
  BY <1>8 DEF GenerationMain, SendTerminator, StopRunning
<1>9. CASE Pause
  BY <1>9 DEF Pause
<1>10. CASE \/ FeedSamples \/ MonitorSkip \/ MonitorCheck
            \/ \E c \in {"processor", "main", "sync"} : WaitForLock(c)
  BY <1>1, <1>10 DEF FeedSamples, MonitorSkip, MonitorCheck, WaitForLock
<1>11. CASE \/ Gathered \/ SyncWeights \/ UpdateVersion \/ CountStaleness
            \/ ReportValidation \/ TrainerNext
  BY <1>1, <1>11 DEF Gathered, SyncWeights, UpdateVersion, CountStaleness,
     ReportValidation, TrainerNext, LogInitial, GetSample, TrainStep, StartSync,
     SyncReturns, LogStep, FinishLoop, LogFinal
<1>12. CASE UNCHANGED vars
  BY <1>1, <1>12 DEF vars
<1> QED
  BY <1>2, <1>3, <1>4, <1>5, <1>6, <1>7, <1>8, <1>9, <1>10, <1>11, <1>12
     DEF Next, Stop, Processor, Monitor, Synchronizer

\* Without partial rollout every sample reaches the message queue before the
\* final None, unless a task raised (NothingStranded).
THEOREM NothingLeftBehind == ~Partial => (Spec => []NothingStranded)
<1> SUFFICES ASSUME ~Partial PROVE Spec => []NothingStranded
  OBVIOUS
<1> DEFINE Inv == TypeOK /\ HandOK /\ SurvivalInv /\ StrandInv
<1>1. Init => Inv
  <2> SUFFICES ASSUME Init PROVE Inv
    OBVIOUS
  <2>1. TypeOK
    BY TypeCorrectInit
  <2>2. HandOK /\ StrandInv
    BY DEF Init, HandOK, Dispatching, StrandInv
  <2>3. SurvivalInv
    BY SurvivalInit
  <2> QED
    BY <2>1, <2>2, <2>3
<1>2. Inv /\ [Next]_vars => Inv'
  BY TypeCorrectStep, HandStep, SurvivalStep, StrandStep
<1>3. Inv => NothingStranded
  BY DEF StrandInv, SurvivalInv, FaultOK, ProcessorSurvives, HandOK,
     Dispatching, NothingStranded, InHand
<1> QED
  BY <1>1, <1>2, <1>3, PTL DEF Spec
===============================================================================
