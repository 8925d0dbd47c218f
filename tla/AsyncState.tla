------------------------------ MODULE AsyncState ------------------------------
(***************************************************************************)
(* The state shared by the modules of the fully asynchronous PPO recipe    *)
(* (recipe/fully_async_policy), and the two primitives every component     *)
(* uses: the asyncio lock of the rollouter and the put of the message      *)
(* queue.                                                                  *)
(*                                                                         *)
(* Four processes run: the rollouter actor (one asyncio event loop, whose  *)
(* coroutines are the processor worker, the generation tasks, the monitor, *)
(* the generation main and the handlers pause / update_param_version /     *)
(* resume), the message queue actor, the parameter synchronizer and the    *)
(* trainer.  Samples are counted, not named: a place that holds samples is *)
(* the number of them it holds.                                            *)
(***************************************************************************)
EXTENDS Integers, Sequences

CONSTANTS
  Total,          \* total_rollout_steps: samples the feeder produces
  Required,       \* required_samples: samples in one training step
  Trigger,        \* trigger_parameter_sync_step: training steps per sync
  MaxRequired,    \* max_required_samples = int(Required*(1+staleness)*Trigger)
  MaxConcurrent,  \* max_concurrent_samples = min(16*servers, MaxRequired)
  PendingMax,     \* maxsize of pending_queue (128 in the code)
  TestFreq,       \* rollout.test_freq: validate every so many versions
  Partial,        \* async_training.partial_rollout
  MaxFaults       \* bound of the model: generation tasks that may raise

ASSUME ConstAssumption ==
  /\ Total \in Nat \ {0} /\ Required \in Nat \ {0} /\ Trigger \in Nat \ {0}
  /\ MaxConcurrent \in Nat \ {0} /\ PendingMax \in Nat \ {0}
  /\ TestFreq \in Nat \ {0}
  /\ MaxRequired \in Nat /\ MaxRequired >= Required * Trigger
  /\ MaxConcurrent <= MaxRequired
  /\ Partial \in BOOLEAN
  /\ MaxFaults \in Nat

VARIABLES
  \* the processor worker of the rollouter
  ppc,         \* where it is suspended, or which line it is about to run
  hand,        \* what it took and has not dispatched: "none", "sample", "end"
  bound,       \* has the local variable done_tasks been assigned?
  \* the tasks in active_tasks, by how far they are
  gen,         \* generating
  sent,        \* their sample is in the message queue, the reply is not back
  finished,    \* returned, not yet removed from active_tasks
  broken,      \* raised, not yet removed from active_tasks
  fails,       \* tasks that ever raised
  \* the two input queues of the processor
  fed,         \* entries put in pending_queue so far (Total + 1: with "DONE")
  taken,       \* entries taken from pending_queue so far
  cancelq,     \* samples in cancel_queue
  \* the attributes of the rollouter its coroutines share
  paused, trigger, running, staleness, curVersion,
  srvPaused,   \* are the inference servers refusing to generate (partial)?
  lock,        \* holder of self.lock, or "free"
  lockq,       \* coroutines waiting for self.lock, first in first out
  mpc, gpc,    \* the monitor loop and the generation main
  \* the message queue actor
  queue,       \* version stamps of the samples in it; Terminator ends it
  valq,        \* val_queue: validation reports
  mqVersion, consumed, dropped,
  \* the trainer
  tpc, got, lts, version,
  logged,      \* newest version whose validation metrics were logged
  \* the parameter synchronizer
  spc, sv, snap

procVars  == <<ppc, hand, bound>>
taskVars  == <<gen, sent, finished, broken, fails>>
inputVars == <<fed, taken, cancelq>>
flagVars  == <<paused, trigger, running>>
verVars   == <<staleness, curVersion, srvPaused>>
lockVars  == <<lock, lockq>>
loopVars  == <<mpc, gpc>>
mqVars    == <<queue, valq, mqVersion, consumed, dropped>>
trainVars == <<tpc, got, lts, version, logged>>
syncVars  == <<spc, sv, snap>>

vars == <<procVars, taskVars, inputVars, flagVars, verVars, lockVars,
          loopVars, mqVars, trainVars, syncVars>>

\* The None the generation main sends when it ends; versions are naturals.
Terminator == -1

-------------------------------------------------------------------------------
(***************************************************************************)
(* self.lock, an asyncio.Lock.  It is first in first out: release wakes    *)
(* the head of the waiters, and an acquire takes the lock without waiting  *)
(* only when it is free and nobody waits.                                  *)
(***************************************************************************)
Coroutines == {"processor", "monitor", "main", "sync"}

Queued(c) == \E i \in 1..Len(lockq) : lockq[i] = c

\* c may have the lock now: by the fast path, or as the waiter just woken.
HasTurn(c) == lock = "free" /\ (lockq # <<>> => Head(lockq) = c)

\* The head (c itself, when HasTurn(c)) leaves the waiters.
LeaveQueue == lockq' = IF lockq = <<>> THEN lockq ELSE Tail(lockq)

\* c takes the lock and is suspended while it holds it.
TakeLock(c) == HasTurn(c) /\ lock' = c /\ LeaveQueue

\* c takes the lock, runs the body without suspending, and releases it.
PassLock(c) == HasTurn(c) /\ LeaveQueue /\ UNCHANGED lock

ReleaseLock == lock' = "free" /\ UNCHANGED lockq

-------------------------------------------------------------------------------
(***************************************************************************)
(* message_queue.put_sample: a full queue loses its oldest entry.          *)
(***************************************************************************)
MaxQueue == MaxRequired

PutSample(entry) ==
  /\ queue' = Append(IF Len(queue) >= MaxQueue THEN Tail(queue) ELSE queue,
                     entry)
  /\ dropped' = IF Len(queue) >= MaxQueue THEN dropped + 1 ELSE dropped
  /\ UNCHANGED <<valq, mqVersion, consumed>>

\* len(self.active_tasks)
Active == gen + sent + finished + broken

\* Bug: the limits are passed by one sample before generation stops.
ShouldPauseTooLate == Len(queue) > MaxQueue \/ staleness > MaxRequired

\* self._should_pause_generation()
ShouldPause == Len(queue) >= MaxQueue \/ staleness >= MaxRequired
===============================================================================
