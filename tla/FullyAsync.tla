------------------------------ MODULE FullyAsync ------------------------------
(***************************************************************************)
(* The fully asynchronous recipe: rollouter, message queue, synchronizer   *)
(* and trainer together, from the moment main starts rollouter.fit and     *)
(* trainer.fit (the initial synchronization is over) to their return.      *)
(***************************************************************************)
EXTENDS ParameterSync, Trainer

Init ==
  /\ ppc = "loop" /\ hand = "none" /\ bound = FALSE
  /\ gen = 0 /\ sent = 0 /\ finished = 0 /\ broken = 0 /\ fails = 0
  /\ fed = IF PendingMax > Total THEN Total + 1 ELSE PendingMax
  /\ taken = 0 /\ cancelq = 0
  /\ paused = FALSE /\ trigger = TRUE /\ running = TRUE
  /\ staleness = 0 /\ curVersion = 0 /\ srvPaused = FALSE
  /\ lock = "free" /\ lockq = <<>>
  /\ mpc = "sleep" /\ gpc = "await"
  /\ queue = <<>> /\ valq = <<[version |-> 0, metrics |-> FALSE]>>
  /\ mqVersion = 0 /\ consumed = 0 /\ dropped = 0
  /\ tpc = "start" /\ got = 0 /\ lts = 1 /\ version = 0 /\ logged = 0
  /\ spc = "idle" /\ sv = 0 /\ snap = 0

AllDone == tpc = "done" /\ gpc = "end" /\ mpc = "exit" /\ Active = finished

\* main returns when both fit methods have.
Stop == AllDone /\ UNCHANGED vars

Next ==
  \/ FeedSamples \/ Processor \/ Tasks \/ Monitor \/ GenerationMain
  \/ \E c \in {"processor", "main", "sync"} : WaitForLock(c)
  \/ Synchronizer \/ TrainerNext
  \/ Stop

(***************************************************************************)
(* The event loop runs its ready coroutines first in first out, so one     *)
(* that is ready again and again is run (SF where a run of the processor   *)
(* makes it wait); every generation ends, every remote call returns, and   *)
(* the monitor wakes every ten seconds.  Nothing is assumed of a failure.  *)
(***************************************************************************)
Fairness ==
  /\ WF_vars(FeedSamples) /\ WF_vars(Processor)
  /\ SF_vars(FinishSample \/ CancelTask) /\ SF_vars(ReturnTask)
  /\ SF_vars(MonitorTick) /\ SF_vars(MonitorSkip)
  /\ SF_vars(MonitorUnpause \/ MonitorCheck)
  /\ SF_vars(GenerationMain)
  /\ \A c \in {"main", "sync"} : SF_vars(WaitForLock(c))
  /\ WF_vars(WaitForLock("processor"))
  /\ SF_vars(Synchronizer) /\ WF_vars(TrainerNext)

Spec == Init /\ [][Next]_vars
FairSpec == Spec /\ Fairness
-------------------------------------------------------------------------------
ProcessorPCs ==
  {"loop", "take", "pause", "idle", "submit", "idleWait", "submitWait",
   "drain", "fin", "full", "drainWait", "finWait", "fullWait",
   "exit", "crashed"}
TrainerPCs == {"start", "collect", "train", "waitvalid", "syncing", "log",
               "end", "final", "done"}
SyncPCs == {"idle", "pause", "gather", "weights", "update", "count",
            "report", "resume"}

RolloutTypeOK ==
  /\ ppc \in ProcessorPCs /\ hand \in {"none", "sample", "end"}
  /\ bound \in BOOLEAN
  /\ gen \in Nat /\ sent \in Nat /\ finished \in Nat /\ broken \in Nat
  /\ fails \in 0..MaxFaults
  /\ fed \in 0..Total + 1 /\ taken \in 0..fed /\ cancelq \in Nat

ControlTypeOK ==
  /\ paused \in BOOLEAN /\ trigger \in BOOLEAN /\ running \in BOOLEAN
  /\ staleness \in Nat /\ curVersion \in Nat /\ srvPaused \in BOOLEAN
  /\ lock \in Coroutines \cup {"free"} /\ lockq \in Seq(Coroutines)
  /\ mpc \in {"check", "sleep", "unpause", "exit"}
  /\ gpc \in {"await", "stop", "end"}

Reports == [version : Nat, metrics : BOOLEAN]

QueueTypeOK ==
  /\ queue \in Seq(Nat \cup {Terminator})
  /\ valq \in Seq(Reports)
  /\ mqVersion \in Nat /\ consumed \in Nat /\ dropped \in Nat

TrainerTypeOK ==
  /\ tpc \in TrainerPCs /\ got \in 0..Required - 1 /\ lts \in 1..Trigger
  /\ version \in Nat /\ logged \in Nat
  /\ spc \in SyncPCs /\ sv \in Nat /\ snap \in Nat

\* The variables have their types: entries taken never exceed those fed, and
\* local_trigger_step never passes trigger_parameter_sync_step
\* (_trigger_parameter_sync_after_step resets it).
TypeOK == RolloutTypeOK /\ ControlTypeOK /\ QueueTypeOK /\ TrainerTypeOK

-------------------------------------------------------------------------------
SamplesTaken == IF taken > Total THEN Total ELSE taken
NonesSent == IF gpc = "await" THEN 0 ELSE 1
InHand == IF hand = "sample" THEN 1 ELSE 0
WithTasks == gen + cancelq + fails
WithQueue == Len(queue) + consumed + dropped

\* The entries of a message queue but the None, which is sent once.
HasNone(q) == \E i \in 1..Len(q) : q[i] = Terminator
NoneAt(q) == CHOOSE i \in 1..Len(q) : q[i] = Terminator
SamplesOf(q) ==
  IF HasNone(q)
  THEN [i \in 1..Len(q) - 1 |-> q[IF i < NoneAt(q) THEN i ELSE i + 1]]
  ELSE q
QueuedSamples == SamplesOf(queue)

\* No sample vanishes between the coroutines: every entry ever made (a sample
\* the processor took from pending_queue, the None of
\* _streaming_generation_main) is in one place only: in the processor's hand,
\* in a task, in cancel_queue, in the message queue, or consumed, dropped by
\* the full queue, or lost with a task that raised.
Conservation ==
  SamplesTaken + NonesSent = InHand + WithTasks + WithQueue

\* The processor worker raises only what a task raised: the three loops that
\* look at done_tasks (lines 437, 464, 475) never meet it unassigned.
ProcessorSurvives == fails = 0 => ppc # "crashed"

\* When the generation main sends the final None, no sample is still held by
\* the processor, generating or waiting in cancel_queue.
NothingStranded == fails = 0 /\ gpc # "await" => InHand + gen + cancelq = 0

\* Nothing generates while the weights are being overwritten: pause() lets
\* every task end, and none starts before resume().
QuietSync == spc = "weights" => gen = 0

\* Samples made for the next parameter versions and not trained on.
Outstanding == gen + cancelq + Len(QueuedSamples)

\* README, "rollout_num": the samples started and not consumed are at most
\* (1 + staleness_threshold) * required_samples * trigger_parameter_sync_step,
\* and one: that which the processor has in its hand when update_param_version
\* counts.
OvershootByOne == Outstanding <= MaxRequired + 1

\* When fit() of the trainer returns, no validation report of the rollouter is
\* left unread in val_queue.
ValidationDrained == tpc = "done" => valq = <<>>

\* When fit() returns the newest weights have been validated and logged.
FinalValidated == tpc = "done" /\ version > 0 => logged = version

\* The oldest weights a consumed sample may come from, in versions.
MaxLag == IF MaxRequired = Required * Trigger
          THEN 0
          ELSE MaxRequired \div (Required * Trigger) + 1

\* The trainer never consumes a sample more than MaxLag versions old; without
\* staleness every sample was finished under the weights it trains.
BoundedLag ==
  [][consumed' > consumed /\ Head(queue) # Terminator
       => version - Head(queue) <= MaxLag]_vars

\* The trainer waits for a sample, the processor for a resume, and the monitor
\* sees max_required_samples or a full queue: nothing will ever wake them.
Starved ==
  /\ tpc = "collect" /\ queue = <<>> /\ spc = "idle"
  /\ ppc = "idleWait" /\ Active = 0 /\ ShouldPause

\* README: "Since it's a streaming system, rollout continues to generate and
\* trainer continues to consume."  They do not if update_param_version counts
\* samples twice, that are in the queue when it answers and whose tasks were in
\* active_tasks before: up to MaxConcurrent of the less than Required * Trigger
\* that the trainer waits with.
StreamContinues == ~Starved

\* README: the interrupted samples will continue to be generated after the
\* synchronization.  No interrupted sample is stuck in cancel_queue.
InterruptedContinue == Starved => cancelq = 0

\* Both fit() methods return: the rollouter ends after its last sample, the
\* trainer after the None.  With staleness only where what update_param_version
\* counts twice does not reach MaxRequired (see StreamContinues), and not with
\* partial rollout (see InterruptedContinue).
Terminates == <>AllDone

-------------------------------------------------------------------------------
(***************************************************************************)
(* What the recipe promises without staleness: rounds of synchronous,      *)
(* on-policy training (OnPolicyRounds).  The None is left out, and so is   *)
(* the last synchronization, which only serves validation.                 *)
(***************************************************************************)
SamplesUsed == consumed - (IF tpc \in {"end", "final", "done"} THEN 1 ELSE 0)
PerRound == Required * Trigger
CurrentRound == IF SamplesUsed < version * PerRound THEN version - 1 ELSE version

Rounds == INSTANCE OnPolicyRounds
            WITH round  <- CurrentRound,
                 used   <- SamplesUsed - CurrentRound * PerRound,
                 buffer <- QueuedSamples

\* With staleness_threshold = 0 the four asynchronous processes are
\* indistinguishable from on-policy rounds: the samples of a round are all
\* finished under its weights, and the next round starts when all were used.
OnPolicy == Rounds!Spec
===============================================================================
