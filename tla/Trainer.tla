-------------------------------- MODULE Trainer -------------------------------
(***************************************************************************)
(* FullyAsyncTrainer.fit: a synchronous actor.  Its calls of the message   *)
(* queue and of the synchronizer block it.                                 *)
(***************************************************************************)
EXTENDS AsyncState

\* _log_validation_data: at most one report, if there is one.
LogValidation ==
  IF valq = <<>>
  THEN UNCHANGED <<valq, logged>>
  ELSE /\ valq' = Tail(valq)
       /\ logged' = IF Head(valq).metrics THEN Head(valq).version ELSE logged

\* The report of the initial synchronization, before training.
LogInitial ==
  /\ tpc = "start"
  /\ LogValidation
  /\ tpc' = "collect"
  /\ UNCHANGED <<procVars, taskVars, inputVars, flagVars, verVars, lockVars,
                 loopVars, queue, mqVersion, consumed, dropped, got, lts,
                 version, syncVars>>

\* _get_samples_from_queue: one get_sample; None gives up the partial batch.
GetSample ==
  /\ tpc = "collect" /\ queue # <<>>
  /\ queue' = Tail(queue)
  /\ consumed' = consumed + 1
  /\ IF Head(queue) = Terminator
     THEN tpc' = "end" /\ UNCHANGED got
     ELSE IF got + 1 < Required
          THEN got' = got + 1 /\ UNCHANGED tpc
          ELSE got' = 0 /\ tpc' = "train"
  /\ UNCHANGED <<procVars, taskVars, inputVars, flagVars, verVars, lockVars,
                 loopVars, valq, mqVersion, dropped, lts, version, logged,
                 syncVars>>

\* Bug: local_trigger_step is not reset by a synchronization.
TrainStepNoReset ==
  /\ tpc = "train"
  /\ lts' = lts + 1
  /\ IF lts < Trigger
     THEN tpc' = "log" /\ UNCHANGED version
     ELSE tpc' = "waitvalid" /\ version' = version + 1
  /\ UNCHANGED <<procVars, taskVars, inputVars, flagVars, verVars, lockVars,
                 loopVars, mqVars, got, logged, syncVars>>

\* One training step and the first part of _trigger_parameter_sync_after_step.
TrainStep ==
  /\ tpc = "train"
  /\ IF lts < Trigger
     THEN lts' = lts + 1 /\ tpc' = "log" /\ UNCHANGED version
     ELSE lts' = 1 /\ tpc' = "waitvalid" /\ version' = version + 1
  /\ UNCHANGED <<procVars, taskVars, inputVars, flagVars, verVars, lockVars,
                 loopVars, mqVars, got, logged, syncVars>>

\* wait_last_valid has returned: call sync_weights.
StartSync ==
  /\ tpc = "waitvalid" /\ spc = "idle"
  /\ spc' = "pause" /\ sv' = version
  /\ tpc' = "syncing"
  /\ UNCHANGED <<procVars, taskVars, inputVars, flagVars, verVars, lockVars,
                 loopVars, mqVars, got, lts, version, logged, snap>>

\* sync_weights returns when the weights are there; update and resume go on.
SyncReturns ==
  /\ tpc = "syncing" /\ spc \notin {"pause", "gather", "weights"}
  /\ tpc' = "log"
  /\ UNCHANGED <<procVars, taskVars, inputVars, flagVars, verVars, lockVars,
                 loopVars, mqVars, got, lts, version, logged, syncVars>>

\* Bug: the report of the last synchronization is not read after a step.
LogStepForgets ==
  /\ tpc = "log"
  /\ tpc' = "collect"
  /\ UNCHANGED <<procVars, taskVars, inputVars, flagVars, verVars, lockVars,
                 loopVars, mqVars, got, lts, version, logged, syncVars>>

LogStep ==
  /\ tpc = "log"
  /\ LogValidation
  /\ tpc' = "collect"
  /\ UNCHANGED <<procVars, taskVars, inputVars, flagVars, verVars, lockVars,
                 loopVars, queue, mqVersion, consumed, dropped, got, lts,
                 version, syncVars>>

\* After the loop: wait_last_valid, log, and a last synchronization with
\* validation unless the newest weights were validated already.
FinishLoop ==
  /\ tpc = "end" /\ spc = "idle"
  /\ LogValidation
  /\ IF version % TestFreq # 0 \/ lts > 1
     THEN /\ version' = version + 1 /\ lts' = 1
          /\ spc' = "pause" /\ sv' = version'
          /\ tpc' = "final"
     ELSE tpc' = "done" /\ UNCHANGED <<version, lts, spc, sv>>
  /\ UNCHANGED <<procVars, taskVars, inputVars, flagVars, verVars, lockVars,
                 loopVars, queue, mqVersion, consumed, dropped, got, snap>>

\* Bug: the last validation is not waited for.
LogFinalAtOnce ==
  /\ tpc = "final"
  /\ LogValidation
  /\ tpc' = "done"
  /\ UNCHANGED <<procVars, taskVars, inputVars, flagVars, verVars, lockVars,
                 loopVars, queue, mqVersion, consumed, dropped, got, lts,
                 version, syncVars>>

LogFinal ==
  /\ tpc = "final" /\ spc = "idle"
  /\ LogValidation
  /\ tpc' = "done"
  /\ UNCHANGED <<procVars, taskVars, inputVars, flagVars, verVars, lockVars,
                 loopVars, queue, mqVersion, consumed, dropped, got, lts,
                 version, syncVars>>

TrainerNext ==
  \/ LogInitial \/ GetSample \/ TrainStep \/ StartSync \/ SyncReturns
  \/ LogStep \/ FinishLoop \/ LogFinal
===============================================================================
