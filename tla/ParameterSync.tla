----------------------------- MODULE ParameterSync ----------------------------
(***************************************************************************)
(* ParameterSynchronizer.sync_weights and the handlers of the rollouter it *)
(* calls: pause, then (without waiting for them) update_param_version and  *)
(* resume, which Ray starts only when the update has returned.             *)
(***************************************************************************)
EXTENDS Rollouter

\* pause: from here to Gathered the lock is held.  With partial rollout the
\* servers are told to refuse generation and to end what they are generating.
Pause ==
  /\ spc = "pause" /\ LoopFree
  /\ TakeLock("sync")
  /\ paused' = TRUE
  /\ srvPaused' = Partial
  /\ spc' = "gather"
  /\ UNCHANGED <<procVars, taskVars, inputVars, trigger, running, staleness,
                 curVersion, loopVars, mqVars, trainVars, sv, snap>>

\* pause: asyncio.gather(..., return_exceptions=True), active_tasks.clear()
Gathered ==
  /\ spc = "gather" /\ LoopFree
  /\ gen + sent = 0
  /\ finished' = 0 /\ broken' = 0
  /\ trigger' = FALSE
  /\ ReleaseLock
  /\ spc' = "weights"
  /\ UNCHANGED <<procVars, gen, sent, fails, inputVars, paused, running,
                 verVars, loopVars, mqVars, trainVars, sv, snap>>

\* The queue learns the version, the weights move, sync_weights returns.
SyncWeights ==
  /\ spc = "weights"
  /\ mqVersion' = sv
  /\ spc' = "update"
  /\ UNCHANGED <<procVars, taskVars, inputVars, flagVars, verVars, lockVars,
                 loopVars, queue, valq, consumed, dropped, trainVars, sv, snap>>

\* Bug: the rollouter does not learn the version.
UpdateVersionForgets ==
  /\ spc = "update" /\ LoopFree
  /\ TakeLock("sync")
  /\ snap' = Active + cancelq
  /\ spc' = "count"
  /\ UNCHANGED <<procVars, taskVars, inputVars, flagVars, verVars,
                 loopVars, mqVars, trainVars, sv>>

\* update_param_version: the two local summands are read before the await.
UpdateVersion ==
  /\ spc = "update" /\ LoopFree
  /\ TakeLock("sync")
  /\ curVersion' = sv
  /\ snap' = Active + cancelq
  /\ spc' = "count"
  /\ UNCHANGED <<procVars, taskVars, inputVars, flagVars, staleness, srvPaused,
                 loopVars, mqVars, trainVars, sv>>

\* Bug: the samples of the last versions stay counted.
CountStalenessAdds ==
  /\ spc = "count" /\ LoopFree
  /\ staleness' = staleness + snap + Len(queue)
  /\ spc' = "report"
  /\ UNCHANGED <<procVars, taskVars, inputVars, flagVars, curVersion, srvPaused,
                 lockVars, loopVars, mqVars, trainVars, sv, snap>>

\* update_param_version: the queue has answered get_queue_size.
CountStaleness ==
  /\ spc = "count" /\ LoopFree
  /\ staleness' = snap + Len(queue)
  /\ spc' = "report"
  /\ UNCHANGED <<procVars, taskVars, inputVars, flagVars, curVersion, srvPaused,
                 lockVars, loopVars, mqVars, trainVars, sv, snap>>

\* update_param_version: validate when it is due, report to val_queue.
ReportValidation ==
  /\ spc = "report" /\ LoopFree
  /\ valq' = Append(valq, [version |-> sv,
                           metrics |-> \/ sv % TestFreq = 0 /\ sv > 0
                                       \/ tpc = "final"])
  /\ ReleaseLock
  /\ spc' = "resume"
  /\ UNCHANGED <<procVars, taskVars, inputVars, flagVars, verVars, loopVars,
                 queue, mqVersion, consumed, dropped, trainVars, sv, snap>>

\* resume, with async_rollout_manager.resume() under partial rollout.
Resume ==
  /\ spc = "resume" /\ LoopFree
  /\ PassLock("sync")
  /\ srvPaused' = FALSE
  /\ paused' = FALSE /\ trigger' = TRUE
  /\ NotifyAll
  /\ spc' = "idle"
  /\ UNCHANGED <<hand, bound, taskVars, inputVars, running, staleness,
                 curVersion, loopVars, mqVars, trainVars, sv, snap>>

Synchronizer ==
  \/ Pause \/ Gathered \/ SyncWeights \/ UpdateVersion
  \/ CountStaleness \/ ReportValidation \/ Resume
===============================================================================
