------------------------------- MODULE Rollouter ------------------------------
(***************************************************************************)
(* FullyAsyncRollouter: one actor, one event loop.  A coroutine runs from  *)
(* one suspension to the next without interleaving with the others of its  *)
(* loop, but the message queue and the trainer run beside it.  The long    *)
(* runs of the processor are cut into steps where it reads the queue or    *)
(* the lock; while it is between two such steps (Running) no other         *)
(* coroutine of the rollouter takes one.                                   *)
(***************************************************************************)
EXTENDS AsyncState

(***************************************************************************)
(* The processor has three loops that wait for tasks with the lock held.   *)
(*   drain : after a pause signal, until no task is active                 *)
(*   fin   : after "DONE", until no task is active                         *)
(*   full  : before a submission, while the concurrency limit is reached   *)
(***************************************************************************)
WaitLoops == {"drain", "fin", "full"}

\* Bug: the tasks still active at "DONE" are not waited for.
LoopTestSkipsFinal(c) == CASE c = "full" -> Active >= MaxConcurrent
                           [] c = "fin"  -> FALSE
                           [] OTHER      -> Active > 0

LoopTest(c)  == IF c = "full" THEN Active >= MaxConcurrent ELSE Active > 0
Waiting(c)   == CASE c = "drain" -> "drainWait"
                  [] c = "fin"   -> "finWait"
                  [] c = "full"  -> "fullWait"
AfterLoop(c) == CASE c = "drain" -> "idle"
                  [] c = "fin"   -> "exit"
                  [] c = "full"  -> "submit"

\* The coroutine c is about to acquire self.lock.
WantsLock(c) ==
  CASE c = "processor" -> \/ ppc \in {"pause", "idle", "submit"}
                          \/ ppc \in WaitLoops /\ LoopTest(ppc)
    [] c = "main"      -> gpc = "stop"
    [] c = "sync"      -> spc \in {"pause", "update", "resume"}

\* Bug: the statistics of the queue are awaited, so others run meanwhile.
RunningYields ==
  /\ ~Queued("processor")
  /\ ppc \in {"loop", "idle", "submit"} \cup WaitLoops

\* The processor is in the middle of a run: no other coroutine moves.
Running ==
  /\ ~Queued("processor")
  /\ ppc \in {"loop", "take", "pause", "idle", "submit"} \cup WaitLoops

\* The event loop is free to run a coroutine other than the processor.
LoopFree == ~Running

\* The lock is not free for c: c joins the waiters and is suspended.
WaitForLock(c) ==
  /\ WantsLock(c) /\ (c # "processor" => LoopFree)
  /\ ~Queued(c) /\ ~HasTurn(c)
  /\ lockq' = Append(lockq, c)
  /\ UNCHANGED <<procVars, taskVars, inputVars, flagVars, verVars, lock,
                 loopVars, mqVars, trainVars, syncVars>>

\* condition.notify_all(): only the processor ever waits on the condition.  It
\* is ready at once, ahead of whatever reaches the loop later, and acquires the
\* lock again.
\* (Bug: a processor that waits with a sample in hand is not woken.)
NotifyIdleOnly == ppc' = IF ppc = "idleWait" THEN "idle" ELSE ppc

NotifyAll == ppc' = CASE ppc = "idleWait"   -> "idle"
                      [] ppc = "submitWait" -> "submit"
                      [] OTHER -> ppc

-------------------------------------------------------------------------------
(***************************************************************************)
(* _feed_samples: fills pending_queue without suspending until it is full  *)
(* or "DONE" is in it.  It is ready since the processor took the first     *)
(* entry: when the processor finds pending_queue empty, the feeder has the *)
(* next turn of the loop and the processor the one after it.  These turns  *)
(* are not told apart from the run of the processor they interrupt.        *)
(***************************************************************************)
FedNext == IF taken + PendingMax > Total THEN Total + 1 ELSE taken + PendingMax

FeedSamples ==
  /\ fed < FedNext
  /\ fed' = FedNext
  /\ UNCHANGED <<procVars, taskVars, taken, cancelq, flagVars, verVars,
                 lockVars, loopVars, mqVars, trainVars, syncVars>>

-------------------------------------------------------------------------------
(***************************************************************************)
(* _processor_worker.                                                      *)
(***************************************************************************)
\* Top of the loop: stop for a pause signal, or take the next sample.
CheckPause ==
  /\ ppc = "loop"
  /\ ppc' = IF paused \/ ShouldPause THEN "pause" ELSE "take"
  /\ UNCHANGED <<hand, bound, taskVars, inputVars, flagVars, verVars,
                 lockVars, loopVars, mqVars, trainVars, syncVars>>

\* async with lock: paused = True
ReceivePause ==
  /\ ppc = "pause"
  /\ PassLock("processor")
  /\ paused' = TRUE
  /\ ppc' = "drain"
  /\ UNCHANGED <<hand, bound, taskVars, inputVars, trigger, running,
                 verVars, loopVars, mqVars, trainVars, syncVars>>

\* async with lock: while paused: await condition.wait(); then continue
AwaitResume ==
  /\ ppc = "idle"
  /\ PassLock("processor")
  /\ ppc' = IF paused THEN "idleWait" ELSE "loop"
  /\ UNCHANGED <<hand, bound, taskVars, inputVars, flagVars, verVars,
                 loopVars, mqVars, trainVars, syncVars>>

\* cancel_queue first; what comes from it is not counted as stale again.
TakeCancelled ==
  /\ ppc = "take" /\ cancelq > 0
  /\ cancelq' = cancelq - 1
  /\ hand' = "sample"
  /\ ppc' = "full"
  /\ UNCHANGED <<bound, taskVars, fed, taken, flagVars, verVars, lockVars,
                 loopVars, mqVars, trainVars, syncVars>>

\* Bug: staleness_samples is not incremented.
TakePendingUncounted ==
  /\ ppc = "take" /\ cancelq = 0 /\ taken < fed
  /\ taken' = taken + 1
  /\ IF taken < Total
     THEN hand' = "sample" /\ ppc' = "full"
     ELSE hand' = "end" /\ ppc' = "fin"
  /\ UNCHANGED <<bound, taskVars, fed, cancelq, flagVars, verVars, lockVars,
                 loopVars, mqVars, trainVars, syncVars>>

TakePending ==
  /\ ppc = "take" /\ cancelq = 0 /\ taken < fed
  /\ taken' = taken + 1
  /\ staleness' = staleness + 1
  /\ IF taken < Total
     THEN hand' = "sample" /\ ppc' = "full"
     ELSE hand' = "end" /\ ppc' = "fin"
  /\ UNCHANGED <<bound, taskVars, fed, cancelq, flagVars, curVersion,
                 srvPaused, lockVars, loopVars, mqVars, trainVars, syncVars>>

LeaveLoop(c) ==
  /\ ppc = c
  /\ ~Queued("processor") /\ ~LoopTest(c)
  /\ ppc' = AfterLoop(c)
  /\ UNCHANGED <<hand, bound, taskVars, inputVars, flagVars, verVars,
                 lockVars, loopVars, mqVars, trainVars, syncVars>>

\* asyncio.wait(active_tasks) with the lock held.  When the tasks went away
\* while the processor waited for the lock, it only looks at done_tasks again.
EnterWait(c) ==
  /\ ppc = c
  /\ Queued("processor") \/ LoopTest(c)
  /\ IF Active > 0
     THEN TakeLock("processor") /\ ppc' = Waiting(c)
     ELSE PassLock("processor") /\ ppc' = IF bound THEN c ELSE "crashed"
  /\ UNCHANGED <<hand, bound, taskVars, inputVars, flagVars, verVars,
                 loopVars, mqVars, trainVars, syncVars>>

\* At least one task is done: all that are leave active_tasks; one that raised
\* raises again in the processor.
Harvest(c) ==
  /\ ppc = Waiting(c)
  /\ finished + broken > 0
  /\ finished' = 0 /\ broken' = 0
  /\ bound' = TRUE
  /\ ppc' = IF broken > 0 THEN "crashed" ELSE c
  /\ ReleaseLock
  /\ UNCHANGED <<hand, gen, sent, fails, inputVars, flagVars, verVars,
                 loopVars, mqVars, trainVars, syncVars>>

\* async with lock: while paused: wait; create_task, active_tasks.add
SubmitSample ==
  /\ ppc = "submit"
  /\ PassLock("processor")
  /\ IF paused
     THEN ppc' = "submitWait" /\ UNCHANGED <<hand, gen>>
     ELSE ppc' = "loop" /\ hand' = "none" /\ gen' = gen + 1
  /\ UNCHANGED <<bound, sent, finished, broken, fails, inputVars,
                 flagVars, verVars, loopVars, mqVars, trainVars, syncVars>>

Processor ==
  \/ CheckPause \/ ReceivePause \/ AwaitResume
  \/ TakeCancelled \/ TakePending \/ SubmitSample
  \/ \E c \in WaitLoops : LeaveLoop(c) \/ EnterWait(c) \/ Harvest(c)

-------------------------------------------------------------------------------
(***************************************************************************)
(* _process_single_sample_streaming.                                       *)
(***************************************************************************)
\* Generation is complete: stamp the version, put the sample in the queue.
FinishSample ==
  /\ gen > 0 /\ LoopFree
  /\ gen' = gen - 1 /\ sent' = sent + 1
  /\ PutSample(curVersion)
  /\ UNCHANGED <<procVars, finished, broken, fails, inputVars, flagVars,
                 verVars, lockVars, loopVars, trainVars, syncVars>>

\* put_sample has returned, the task ends.
ReturnTask ==
  /\ sent > 0 /\ LoopFree
  /\ sent' = sent - 1 /\ finished' = finished + 1
  /\ UNCHANGED <<procVars, gen, broken, fails, inputVars, flagVars, verVars,
                 lockVars, loopVars, mqVars, trainVars, syncVars>>

\* Bug: the cancelled sample is not put in cancel_queue.
CancelTaskForgets ==
  /\ gen > 0 /\ srvPaused /\ LoopFree
  /\ gen' = gen - 1 /\ finished' = finished + 1
  /\ UNCHANGED <<procVars, sent, broken, fails, inputVars, flagVars, verVars,
                 lockVars, loopVars, mqVars, trainVars, syncVars>>

\* is_cancel: what was generated so far waits in cancel_queue.
CancelTask ==
  /\ gen > 0 /\ srvPaused /\ LoopFree
  /\ gen' = gen - 1 /\ finished' = finished + 1
  /\ cancelq' = cancelq + 1
  /\ UNCHANGED <<procVars, sent, broken, fails, fed, taken, flagVars, verVars,
                 lockVars, loopVars, mqVars, trainVars, syncVars>>

\* generate_single_sample_async raises.
FailTask ==
  /\ gen > 0 /\ fails < MaxFaults /\ LoopFree
  /\ gen' = gen - 1 /\ broken' = broken + 1
  /\ fails' = fails + 1
  /\ UNCHANGED <<procVars, sent, finished, inputVars, flagVars, verVars,
                 lockVars, loopVars, mqVars, trainVars, syncVars>>

Tasks == FinishSample \/ ReturnTask \/ CancelTask \/ FailTask

-------------------------------------------------------------------------------
(***************************************************************************)
(* _async_monitor_loop.  It sleeps ten seconds, then decides, and only     *)
(* then asks for the lock: the decision can be old when it has the lock.   *)
(* It needs the lock again to look at running, at the top of the loop.     *)
(***************************************************************************)
\* async with lock: if not running: break; with these waiters before it.
CheckRunning(waiters) ==
  IF lock = "free" /\ waiters = <<>>
  THEN /\ mpc' = IF running THEN "sleep" ELSE "exit"
       /\ lockq' = waiters
  ELSE /\ mpc' = "check"
       /\ lockq' = Append(waiters, "monitor")

MonitorTick ==
  /\ mpc = "sleep" /\ LoopFree
  /\ trigger /\ ~ShouldPause
  /\ IF HasTurn("monitor")
     THEN paused' = FALSE /\ NotifyAll /\ CheckRunning(lockq)
     ELSE /\ mpc' = "unpause" /\ lockq' = Append(lockq, "monitor")
          /\ UNCHANGED <<paused, ppc>>
  /\ UNCHANGED <<hand, bound, taskVars, inputVars, trigger, running,
                 verVars, lock, gpc, mqVars, trainVars, syncVars>>

\* Nothing to recover.  (When it can look at running at once and goes back to
\* sleep, nothing changes.)
MonitorSkip ==
  /\ mpc = "sleep" /\ LoopFree
  /\ ~trigger \/ ShouldPause
  /\ ~running \/ lock # "free" \/ lockq # <<>>
  /\ CheckRunning(lockq)
  /\ UNCHANGED <<procVars, taskVars, inputVars, flagVars, verVars, lock, gpc,
                 mqVars, trainVars, syncVars>>

MonitorUnpause ==
  /\ mpc = "unpause" /\ LoopFree
  /\ Queued("monitor") /\ HasTurn("monitor")
  /\ paused' = FALSE
  /\ NotifyAll
  /\ CheckRunning(Tail(lockq))
  /\ UNCHANGED <<hand, bound, taskVars, inputVars, trigger, running,
                 verVars, lock, gpc, mqVars, trainVars, syncVars>>

MonitorCheck ==
  /\ mpc = "check" /\ LoopFree
  /\ PassLock("monitor")
  /\ mpc' = IF running THEN "sleep" ELSE "exit"
  /\ UNCHANGED <<procVars, taskVars, inputVars, flagVars, verVars, gpc,
                 mqVars, trainVars, syncVars>>

(***************************************************************************)
(* _streaming_generation_main: when the processor is over, whether it      *)
(* returned or raised, send None; then running = False.                    *)
(***************************************************************************)
SendTerminator ==
  /\ gpc = "await" /\ ppc \in {"exit", "crashed"} /\ LoopFree
  /\ PutSample(Terminator)
  /\ gpc' = "stop"
  /\ UNCHANGED <<procVars, taskVars, inputVars, flagVars, verVars, lockVars,
                 mpc, trainVars, syncVars>>

StopRunning ==
  /\ gpc = "stop" /\ LoopFree
  /\ PassLock("main")
  /\ running' = FALSE
  /\ gpc' = "end"
  /\ UNCHANGED <<procVars, taskVars, inputVars, paused, trigger, verVars, mpc,
                 mqVars, trainVars, syncVars>>

Monitor == MonitorTick \/ MonitorSkip \/ MonitorUnpause \/ MonitorCheck
GenerationMain == SendTerminator \/ StopRunning
===============================================================================
