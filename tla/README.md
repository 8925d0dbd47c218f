# Verification of verl's fully asynchronous PPO recipe

TLA+ models, TLC configurations and TLAPS proofs for the part of this
repository whose correctness is a matter of concurrency and of crashes: the recipe
`src/Verl/recipe/fully_async_policy`, in which generation and training run side
by side in separate Ray actors, with its checkpoints, the engine that transfers
the weights, and the reward loop it scores samples with. Paths below are relative to that directory
unless they start with `src/`.

## 1. The system

| Part | State | Operations | Talks to |
|---|---|---|---|
| `FullyAsyncRollouter` (`fully_async_rollouter.py`), one asyncio event loop | `pending_queue`, `cancel_queue`, `active_tasks`, `paused`, `running`, `monitor_loop_trigger`, `staleness_samples`, `current_param_version`, `lock`/`condition` | coroutines `_feed_samples`, `_processor_worker`, one task per sample, `_async_monitor_loop`, `_streaming_generation_main`; handlers `pause`, `update_param_version`, `resume`, `save_checkpoint` | puts samples and validation reports in the message queue; asks it for its size |
| `MessageQueue` (`message_queue.py`), one asyncio event loop | `queue` (bounded deque), `val_queue`, `running`, counters, `_lock`/`_consumer_condition` | `put_sample`, `get_sample` (blocks), `put_validate`, `get_validate`, `update_param_version`, `get_statistics`, `clear_queue`, `shutdown` | called by all others |
| `FullyAsyncTrainer` (`fully_async_trainer.py`), synchronous | `local_trigger_step`, `current_param_version`, `global_steps`, `last_ckpt_version` | `fit`: collect, train, `_trigger_parameter_sync_after_step`, `_log_validation_data`, `_check_save_checkpoint` | blocks on the queue and on the synchronizer |
| `ParameterSynchronizer` (`param_sync.py`) | `wait_last_update`, `wait_last_resume` | `sync_weights` = pause, queue version, transfer, then *without waiting* update and resume; `wait_last_valid` | calls the rollouter, the queue, the worker groups |
| Task runner (`fully_async_main.py`) | the actors | builds them, performs the initial synchronization, starts both `fit` | all |
| Partial-rollout server (`vllm_rollout/vllm_async_server.py`) | `paused`, `cancel_event`, `req_output` per request, `lock` | `generate_for_partial`, `cancel`, `resume` | called by the agent loops and by pause/resume of the rollouter |
| Agent loops (`agent_loop/`) | partial output of each sample | `run` from scratch or from an interrupted output | server |
| Checkpoint engine (`checkpoint_engine.py`), one per rank, two threads | `global_buckets`, `memory_buffers`, `h2d_buffer`, the two halves of `broadcast_load_buffer`, a pair of sockets | `register_checkpoint`, `update_checkpoint` | the engines of all ranks, by broadcasts and barriers; called by `fsdp_workers.py` |
| FSDP checkpoint manager (`src/Verl/verl/utils/checkpoint`), one per rank and role | `previous_saved_paths`; on the disk shards, `data.pt`, the tracker file | `save_checkpoint`, `load_checkpoint`, `find_latest_ckpt_path` | called by trainer and rollouter |
| Reward loop worker (`src/Verl/verl/experimental/reward_loop`) | token buckets, semaphore, executor | `compute_score_batch`, `run_single`, `_post_request` | the reward function, the router |
| `NaiveRouter` (same directory) | `request_counts` | `_make_async_request` | the servers of the reward model |

Around the recipe: `src/Verl/verl` (PPO trainer, workers, single controller,
agent loop, reward loop, checkpoint managers, tools), the other recipes, and the
vendored `src/MindSpeed` and `src/Megatron-LM`. They are sequential, numerical
or thin wrappers of Ray with exceptions listed in section 8.

What makes the recipe hard:

* Six kinds of coroutine share the rollouter's attributes. Between two awaits
  they are atomic; across an await everything may have changed. The processor
  keeps `self.lock` *while it waits for a task*, so that pause, update, resume,
  the monitor and the end of generation line up behind it and run in FIFO order
  long after they decided to.
* The queue and the trainer run in other processes. The trainer consumes while
  the rollouter counts.
* `sync_weights` returns before `update_param_version` and `resume` have run.
* Interrupted samples (`partial_rollout`) travel backwards, into `cancel_queue`.
* A task may raise, in the middle of anything.
* The job may die between any two writes of a checkpoint, and starts again from
  what is on the disk.
* The engine's main thread fills one half of a buffer while its second thread
  reads the other, and all ranks have to make the same collective calls.
* The reward loop races timeouts against answers, and retries at two levels.

What has to be right, whatever the interleaving: samples do not vanish and are
not dropped by a full queue (without staleness one missing sample starves the
trainer); not more samples than `max_required_samples` are outstanding; what the
trainer consumes is not older than the staleness allows; nothing generates while
weights move; the rollouter's loops survive; everyone returns; no validation
report is lost; a restart finds a checkpoint it can load, trains on no sample
twice and loses a bounded number; every parameter arrives in every rollout rank
once per synchronization; rates hold and every reward request is answered or
fails. `PROJECT.json` lists the hazards line by line.

## 2. Modules

    AsyncState ── Rollouter ── ParameterSync ─┐
        └──────── Trainer ────────────────────┴─ FullyAsync ── OnPolicyRounds (abstract)
                                                     └─ proofs: FullyAsyncProofs ─ SampleProofs ─ RoundProofs
    MessageQueue ── LossyQueue (abstract)
        └─ MCMessageQueue, QueueProofs
    PartialRollout ── Generation (abstract)
        └─ MCPartialRollout, PartialProofs
    Checkpoint ─ MCCheckpoint, CheckpointProofs
    WeightTransfer ─ MCWeightTransfer, TransferProofs
    RewardLoop ─ MCRewardLoop, RewardProofs

`AsyncState` declares the shared state, the asyncio lock (a FIFO of waiters; an
acquire takes a free lock only if nobody waits) and the put of the queue.
`Rollouter`, `ParameterSync` and `Trainer` hold the actions, `FullyAsync` the
initial state, the next-state relation, the fairness and the properties.
`PartialRollout` looks into what is one step of `FullyAsync`, the cancelling of
a task: one sample, its agent loops, their requests and the servers, with the
synchronization as `FullyAsync` orders it, in which a sample can be submitted
although a pause is on (disagreement 1 of section 6). `WeightTransfer` looks into
another single step, the transfer of the weights. `Checkpoint` has a coarser
trainer and rollouter of its own, with the disk and the restarts that the other
modules do without. `RewardLoop` stands beside the recipe: scoring is part of the
generation of a sample.

| Code | Model |
|---|---|
| `_processor_worker` | `ppc` is where it is suspended or about to run. `CheckPause`, `TakeCancelled`, `TakePending`, `SubmitSample`, and for each of its three loops that wait for tasks (`drain`, `fin`, `full`) `LeaveLoop`, `EnterWait`, `Harvest` |
| `_process_single_sample_streaming` | counters `gen`, `sent`, `finished`, `broken`: `FinishSample`, `ReturnTask`, `CancelTask`, `FailTask` |
| `_async_monitor_loop` | `MonitorTick` (the decision), `MonitorUnpause` (its effect, when it had to wait for the lock), `MonitorSkip`, `MonitorCheck` |
| `_streaming_generation_main` | `SendTerminator`, `StopRunning` |
| `pause` | `Pause` (lock held), `Gathered` |
| `update_param_version` | `UpdateVersion` (the local summands are read), `CountStaleness` (the queue has answered), `ReportValidation` |
| `resume` | `Resume` |
| `sync_weights` | `StartSync`, `Pause` ... `SyncWeights`, `SyncReturns` |
| `fit` of the trainer | `LogInitial`, `GetSample`, `TrainStep`, `StartSync`, `SyncReturns`, `LogStep`, `FinishLoop`, `LogFinal` |
| asyncio.Lock | `WaitForLock(c)`, `HasTurn`, `TakeLock`, `PassLock`, `ReleaseLock` |
| `MessageQueue.get_sample` | `GetSample(c)` with the call's state `called`, `waiting`, `woken`, `sample`, `closed` |
| `AgentLoopManager.cancel`, `resume` | `Cancel`, `Resume` send to the servers and the worker (`todo`), `CancelServer`, `ResumeServer`, `TellWorker` are the arrivals in any order, `Gathered` and `Resumed` the end |
| `generate_single_sample_async`, `generate_sequences_no_post`, `_partial_run_agent_loop` | `Submit` (which loops run, which `param_version_start` they have), `SampleReturns`, or `SampleFails` when a loop raised (`Raise`) |
| `generate_for_partial` of the server | a request goes from `sent` through `waiting` to `replied`: `Arrive` (refused or registered), `Generate` (the engine), `WaitOver` (what finished first, the tokens, the entries removed) |
| `PartialSingleTurnAgentLoop.run` | `Send`, `SingleTurnReply` |
| `_check_save_checkpoint`, `_save_checkpoint` | `CheckSave`; `pc` goes through `save`, `data`, `dataopen`, `track`, `trackopen`: `OpenData`, `CloseData`, `OpenTracker`, `WriteTracker` |
| `FSDPCheckpointManager.save_checkpoint` of the ranks of a role | `rpc`: `RemoveShard` (`rmtree` by rank 0, file by file), `RankReady` (the barrier), `OpenShard`, `CloseShard`, `RoleSaved` |
| `load_checkpoint` of both, `find_latest_ckpt_path` | `Restart`, which fails (`LoadFails`), starts from scratch, or restores version, weights, position and `global_steps` (`LoadFrom`) |
| `register_checkpoint` | `Plan` (the buckets, equal in all ranks, filled by `Put`, closed when `Full`), `Register` (the copy to pinned memory, up to the barrier) |
| `update_checkpoint`, main thread | `Turns` (its two loops, made of one `Iteration` after the other); `Start`, `Broadcast`, `Receive`, `Acknowledged`, `SendMetas`, `LoadInline`, `LastTurn`, `SendStop`, `Join`, `Finish` |
| `update_weights_from_ipc_`, second thread | `Greet`, `TakePayload`, `LoadPayload`, `FailPayload`, `Stop` |
| `collective.broadcast`, `barrier` | `Enter` records the calls in `calls`; `Entered`, `AllEntered` say when they may return |
| `AsyncTokenBucket.acquire` | `Acquire`, `Wait`, `Reserve`, `Redeem` |
| `RateLimitedRewardManager.run_single` | `Decode`, the two buckets, `Compute`, `Run`, `Result` or `Expire` |
| `_post_request`, and `compute_score_disrm` which reads its answer | `Post`, `Answer` |
| `NaiveRouter._make_async_request` | `Forward`, `Respond` (an answer with a score or without), `Retry`, `Resend`, `GiveUp` |
| `AsyncPartialToolAgentLoop._run_state_machine` | `apc` = `top` is the head of its loop: `Prepare`, `Send`, `ToolReply`, `CallTools`, or `Interrupted` if the worker is stopped |

**Granularity.** A coroutine that does not await is one step. The processor's
runs are cut where it reads the message queue (the trainer may have consumed in
between) and at its lock operations; between two cuts `Running` keeps all other
coroutines of the event loop still. `_should_pause_generation` blocks the loop
(`get_statistics_sync`), so it is part of the step that decides.

**Abstractions.** Samples are counted, not named: no property tells two samples
in the same place apart, except by the version stamped on them, which the queue
keeps. A put and its arrival in the queue are one step; the reply is another.
The turn the feeder takes when `pending_queue` ran empty is not told apart from
the processor's run that it interrupts (`pending_queue` is full when the
processor starts, because the feeder's task is created first). The monitor's ten
seconds are "some time". Training and the transfer of the weights are one step
each. The initial synchronization is over in the initial state; it left a report
in `val_queue`. Its metrics are left out (`val_before_train` FALSE); the report
is consumed in any case. In `PartialRollout` a token is its place (turn, position
in the turn, weights it was made with) and the model continues what its prompt
ends with; the whole of a turn is a tool call, so that an interruption within a
turn is one within a call; the answer of a tool is one token; `max_assistant_turns`
is unset. One worker stands for all: the sample is at one worker at a time, and
all are told; but a resubmitted sample may be at another one, with a choice of
servers of its own. A loop may raise before a request or at a reply. The first one
that does ends the task of its sample (`asyncio.gather` in `agent_loop.py:137`);
the other loops of the sample go on unattended, and so do their requests. What
`_postprocess` raises after the last loop has ended leaves nobody behind and is
left out. `ToolRollouts` says which rollouts of the sample run the tool loop. In
the code all rollouts of a sample run the same kind; they meet only at the servers
and at the worker, so putting both kinds into one instance hides nothing and
covers both. Cancellation of a `fit` after the other raised is not modelled.

In `Checkpoint` a sample is its place in the dataset (one epoch), and weights are
the set of samples they have learned from, which is what tells a shard of one save
from a shard of another. A file is absent, torn or whole. The model, optimizer and
extra files of a rank are one shard. Writing `data.pt` blocks the event loop of the
rollouter, so nothing is fed meanwhile. The folder of a version is never removed,
only those of the roles in it. Three variables are history: `crashes`, `patched`
(versions with files of two saves, the second unfinished, which an operator brings
about who resumes from an older version) and `excused` (such a version, or one
without `data.pt`, was resumed from). The properties say what holds apart from
those.

In `WeightTransfer` a parameter is its place in `weights_info` with an aligned
size, a value the number of the synchronization it belongs to. Offsets inside a
bucket are left out; `Fits` says that they stay inside. A broadcast returns at its
source at any time and elsewhere once the source has called it; a barrier when all
have. Actors' weights at the n-th synchronization are version n, because calls to
a worker run one after the other. `global_buckets` is built once.

In `RewardLoop` time passes in ticks. A timer that is due fires before the next
tick (an event loop that is never late); `elapsed` stops counting when the bucket
is full. A client repeats a request whose answer it cannot read as it does a
failed one, and fails for good if the answer has no score. `run_single` without a
custom function does not use the router and is not
told apart.

## 3. Properties and runs

Bounds: `Total` samples, `Required` per step, `Trigger` steps per
synchronization, `MaxRequired` = int(Required*(1+staleness)*Trigger),
`MaxConcurrent`, `PendingMax`, `TestFreq`, `MaxFaults`. The state space is
finite because `Total` is. The sizes are chosen so that: the limit is reached
several times (several versions), the concurrency limit binds
(`MaxConcurrent < MaxRequired`), the feeder refills, the last batch is
incomplete, and a synchronization can meet the end of generation.

| Run | Instance | Shows |
|---|---|---|
| `onpolicy` | staleness 0, partial rollout on, one task may raise; 9 samples, 2 x 2 per round | the recipe refines `OnPolicyRounds` (`OnPolicy`): synchronous on-policy training, even if a task fails: nothing dropped, no more than a round outstanding; `QuietSync`, `FinalValidated`; `Terminates` |
| `stale` | staleness 0.5; 8 samples, 2 per step, limit 3 | `OvershootByOne`, `BoundedLag`, `ProcessorSurvives`, `NothingStranded`, `ValidationDrained` |
| `stale_live` | staleness 0.5; 8 samples, 3 per step, limit 4, one task at a time, which may raise once | `Terminates` |
| `partial` | staleness 0.5, partial rollout; 6 samples | `Conservation` |
| `queue` | 2 producers x 2 samples, 2 consumers, room for 2 | `Accounted`, `NoLostWakeup`, `ReleasedByShutdown`, `ImplementsLossy` |
| `agent_loops` | a tool loop of 3 turns (the answer of its first tool leaves room for more, that of its second does not) and a single-turn loop that reaches `response_length`, which is 6; 1 server, 2 synchronizations, 1 loop that raises | `QuietServers`, `StartCovers`, `WholeSingle`, `Uninterrupted`, `CancelEnds`, `Finishes` |
| `weights`, `starved` | as `stale` and `partial` | disagreements 1 and 2 of section 6 |
| `double_count` | as `stale_live`, but two tasks at a time | disagreement 3 of section 6 |
| `checkpoint` | actor (keeps 2) and critic (keeps 1) of 2 ranks, 4 samples, a version every 2 steps and at the end, every second version saved in any case and any other if the instance expires; 2 crashes, all resume modes | `TrackedComplete`, `TrackedUniform`, `NoneTwice`, `BoundedLoss`, `DiskBound`, `Drift` |
| `transfer` | 2 actor and 2 rollout ranks, with and without overlap, 3 sets of parameters (2 buckets and 1; 2 each; an actor without any), 2 synchronizations, 1 failing load | `Fits`, `HalvesApart`, `Alternates`, `CallsMatch`, `Delivered`, `Together`, `Finishes` |
| `reward` | 3 requests, 2 servers; a custom function (coroutine or blocking) or none; one permit, 2 threads; of one bucket a request takes more than it holds | `BurstBounded`, `CountsKept`, `ParallelBounded`, `RewardStands`, `Answered` |

Deadlock is checked in `onpolicy`, `stale` and `stale_live` (after both
`fit` methods returned the model stutters by `Stop`), and in `checkpoint` (`Done`). It
is not checked in `partial` and `double_count`, where the system can stop: those are
disagreements 2 and 3; nor in `queue`, where producers run out of samples; nor in
`agent_loops` and `reward`, which follow one batch until it is finished; nor in
`transfer`, where a failing load stops the system for good and synchronizations are
bounded. There `Finishes` and `Answered` show that nothing stops before that.

Why the bounds are enough. Two synchronizations let a rollout be interrupted,
resumed and interrupted again, and a message of the first meet the second. With
one server the order of server and worker is still free; the theorems about
`PartialRollout` hold for any number. Two crashes let a restart be followed by
another one before the first new checkpoint, and a folder be written over. Three
broadcasts or more bring the halves of the buffer round again, a second
synchronization meets what the first has left. Three requests for one permit and
two threads let two abandoned threads block the third. `MaxVersion`, `MaxCrashes`,
`MaxRounds`, `MaxFailures`, `MaxSyncs` and `MaxRaises` bound the models and nothing in
the code.

With staleness the bounds also decide what holds. `update_param_version` counts a
task and its sample both, up to `MaxConcurrent` times, and never more than
`Required*Trigger - 1` times to the harm of the trainer, who waits only while fewer
samples than that are there. If the smaller of the two is at most `MaxRequired -
Required*Trigger`, the limit leaves room for all that the trainer waits for; if not,
it may not, and `double_count` shows that. So `Terminates` is claimed without partial
rollout and under this condition only. `stale_live` (one task at a time, `4 - 3`) and
`stale` (the step needs 2, `3 - 2`) meet it with equality. The condition is an
argument and not a theorem; TLC agreed for (`Required`, `MaxRequired`, `MaxConcurrent`)
= (3, 5, 3) and (4, 6, 2) too, and found the trainer starved for (4, 5, 2) and
(4, 6, 4), each with `Trigger` 1. With `staleness_threshold` 1 it is always met; below
1, which `README.md:145` recommends, it need not be, since the code allows 16 tasks
per server.

Partial rollout matters with staleness only (`README.md:149`); without it no task
is active when a synchronization starts, which `onpolicy` confirms.

**Fairness** (`FullyAsync!Fairness`). The event loop runs ready coroutines first
in first out, so a coroutine that is ready again and again is run: strong
fairness for those a run of the processor or a taken lock can make wait, weak
fairness otherwise. Every generation ends (`SF(FinishSample \/ CancelTask)`,
without choosing which), remote calls return, the monitor wakes up. A failure is
never forced. In `MessageQueue` handlers that are ready run; nobody is forced to
put, get or shut down. In `PartialRollout` messages arrive, the engine produces
tokens and the loops run (weak fairness, per server and rollout); only the
decision to synchronize is free, and nothing is assumed of a loop that raises. In
`WeightTransfer` each thread that can go on does (the operating system schedules
threads, the collective library completes matching calls), a load is never forced to fail. In `RewardLoop` time passes, tasks
that can go on do, and a server of the reward model answers or fails in the end
(weak fairness of `Routed`, without choosing which). `Checkpoint` states safety only.

## 4. Abstract specifications

* `OnPolicyRounds`: rounds of synchronous training. `FullyAsync` with
  `MaxRequired = Required*Trigger` implements it (run `onpolicy`, theorem
  `OnPolicyTraining`).
  The mapping takes `round` from the trainer's version and the number of samples
  consumed, `used` from the samples consumed of this round, `buffer` from the
  queue without the final None.
* `LossyQueue`: a bounded FIFO with atomic put and get that loses its oldest
  entry. `MessageQueue` implements it (run `queue`, theorem `QueueIsLossy`), and
  so does the composed recipe (theorem `UsesLossyQueue`): the abstraction of the
  actor in `FullyAsync` is the one the actor provides.
* `Generation`: token by token, with the weights of the moment, until complete.
  `PartialRollout` implements it (run `agent_loops`, theorem
  `InterruptionsInvisible`): a response is what the loop has saved followed by
  what its request has produced, cut at `response_length`.

## 5. Proofs

All for every value of the constants that satisfies the assumption of the module:
`ConstAssumption`, `QueueAssumption`, `PartialAssumption`, `CheckpointAssumption`,
`TransferAssumption`, `RewardAssumption` (sizes positive, `MaxRequired >= Required*Trigger`,
`MaxConcurrent <= MaxRequired`, as the code computes them).

* `TypeCorrect` (`FullyAsyncProofs`): `TypeOK` is inductive.
* `NothingVanishes` (`SampleProofs`): `Conservation` needs `HandOK`, which ties
  the processor's hand to its program counter: a sample is in hand from the take
  to the submission, and for ever if the processor raised in between.
* `ReportsAreRead` (`SampleProofs`): `ReportInv` bounds the reports in
  `val_queue` plus the one the running synchronization has still to make, by
  where the trainer is.
* `ProcessorNeverUnbound` (`SampleProofs`): `done_tasks` is assigned inside
  `if self.active_tasks` and read after it. It could be read unassigned only if
  tasks vanished while the processor waited for the lock for the first time.
  `FirstRun` says that up to its first wait the processor has not been suspended,
  so nobody else moved, and `FirstWait` that then a task is active; afterwards
  the variable is bound. `LockOK` ties the lock to who is suspended holding it.
* `NothingLeftBehind` (`SampleProofs`): without partial rollout nothing is
  ever interrupted, and the processor leaves only when no task is active.
* `NearlyBounded` (`RoundProofs`): what is started and not used is at most
  `staleness_samples` and one, and at most `max_required_samples` and one
  (`CountInv`). `update_param_version` counts in two steps; what it has counted
  locally is still there when the queue answers, or has moved into the queue and is
  counted again, so what it misses is only the sample in the processor's hand.
  `WaiterInv` says where the processor is when it waits for the lock, and that it
  waits once.
* `LagIsBounded`: `LagInv` bounds the samples used and in flight by what the
  rollouter's version allows, and `Aged` does it for each entry of the queue with the
  version stamped on it, so the bound is there when an entry is taken, however many
  versions have passed. Without staleness the sharper bound comes from `QuietInv`.
* `SyncIsQuiet`, `OnPolicyTraining` (for `MaxRequired = Required*Trigger`): `QuietInv`
  says that a round never starts more samples than it trains on (`BudgetInv`), that all
  of them are used when its synchronization starts (`SyncInv`), and that the processor
  stays paused meanwhile (`PauseInv`). The one danger is the monitor, which clears
  `paused` after it has waited for the lock (disagreement 1 of section 6); by
  `MonitorInv` no synchronization runs while it waits, because then the round still
  lacks a sample that the processor, behind it in the queue of the lock, has in
  its hand, or may start. The refinement follows step by step: the stamps of the
  samples are the round (`StampInv`).
* `NewestIsValidated`: `ValidInv` says of a version that is due for validation that its
  report is still to come, is the last in `val_queue`, or has been logged.
* `QueueTyped`, `BooksBalance`, `NoConsumerSleepsThrough`, `QueueIsLossy` (`QueueProofs`):
  `QueueInv` adds that a put under way carries a sample of its producer; the
  invariant `Len(queue) <= MaxQueueSize` shows that the deque's own `maxlen` never
  removes anything.
* `UsesLossyQueue` (`FullyAsyncProofs`).
* `ServersStayQuiet` (`PartialProofs`, under `PartialAssumption`, with any number of
  loops raising and any of them `Unbuilt`): when `pause` returns the task of the sample
  has returned or raised. If it returned, no loop awaits a reply (`LoopsOwnRequests`),
  and every server refuses until `resume` (`Refusals`); a sample submitted in between
  meets a refusal wherever its request arrives. If it raised, requests of the other
  loops may be left at a server; that is the exception the property states, and
  such a request has been told to end (`Told`).
* `StartsCoverTokens`: `StartInv` adds that a rollout takes its start while it
  has no token (`NothingYet`) and from a version not newer than the weights.
* `InterruptionsInvisible`: step by step, with `CompleteRests` (a complete
  rollout has no loop). A token beyond `response_length` maps to a stutter, a
  reply to `Complete` or a stutter, since it only moves tokens.
* `PartialTyped`: besides the types, an incomplete response has room for a token
  (`RoomLeft`), and the weights lag the synchronizations by what the phase says.
* `SingleTurnsAreWhole`: `SingleInv` says that an incomplete response of the single-turn
  loop stands before the end of its only turn unless its request has ended, and that
  a request counts as cancelled exactly if it has not.
* `CheckpointTyped`, `TrackerNamesComplete` (`CheckpointProofs`). While a version
  is being saved its files come in an order, so the invariant says for every place
  `pc` can be at which files are whole; `previous_saved_paths` has no entry twice
  and never the version that is being saved; and the tracked version is, for a role
  that keeps more than one checkpoint, not among those that are too many. That is
  why keeping one is different: there the only complete version is removed first.
* `TrainedOnce`, `TrackerNamesOneSave` (`CheckpointProofs`). `LearnInv`: all ranks
  have learned the same set, which lies behind the dataloader's position and is
  disjoint from what is in flight; the whole shards of a version are of one save and
  lie behind the position in its `data.pt` (`OneSave`), because `data.pt` is written
  after every shard, and a version whose shards are overwritten is marked as patched.
* `LossIsBounded`, `DriftIsBounded`: the bounds grow with the number of crashes, so a
  file has to carry the bound of the run it was saved in (`KeptFile`): a restart takes
  over what the file says and adds the share of its own run (`InStep`). Restarts from
  the same file, or one that fails, add nothing to it.
* `FoldersAreBounded`: folders are those a run has listed or is writing (`Mine`), of
  which there are at most `max_ckpt_to_keep`, since no rank writes before rank 0 has
  removed the old ones (`Gate`, `Room`), and the `Leftovers` of runs before.
* `HalvesNeverMeet`, `SocketsAlternate` (`TransferProofs`): `HandInv` follows a
  message round. Where the main thread is says who holds the one request, and that
  a payload under way is of the turn before, so of the other half.
* `CallsAgree`, `TransferTyped`: all ranks make the same number of calls (`Span`)
  in a synchronization, so the number a rank has made is a multiple of it plus its
  place in the loop (`Counted`). A number has one quotient and one remainder
  (`OnePlace`), so two ranks at the same number make the same call, although one
  may be a whole synchronization ahead in time.
* `BucketsFit`: the plan of the buckets and the order of their broadcasts are recursive
  functions, one for each loop of the code. `Dealt` and `Rounds` are the invariants of
  the loops: the first n parameters are each in one bucket, no bucket too large; every
  bucket has one turn. They are shown for every length of the loop by the
  argument of the least counterexample (`Least`, `Induction`, from the
  well-foundedness of the naturals), which needs no operator as a parameter.
* `WeightsDelivered`, `LoadedTogether`: `DataInv` says where a bucket of the right
  version is at every point of its way: in the buffers of its actor (`Filled`), in the
  call of the group once the source has made it (`DataDue`), in the half of a rank
  that has received it (`Halves`), in the model when it was loaded (`LoadedUpTo`).
  Which turns are loaded follows from `gidx` and from whether a payload is under way
  (`Loaded`); a payload under way is safe in its half by `HandInv`. A call is matched
  with its turn by `CallsInv`. `Passed` says that nobody is through before all have
  made the calls of the synchronization, the last of which a rollout rank makes only
  when it has loaded everything.
* `RewardTyped`, `RatesHold`, `PermitsComeBack`, `RouterCounts`,
  `FunctionsBounded`, `RewardsAreFinal` (`RewardProofs`): `InStep` ties where a
  request is to its job, its reward and its place in the router. `Level` is the
  argument for the rate: a bucket that is brought up to date only when somebody asks
  holds, once brought up to date, exactly what one refilled with every tick holds,
  so the second never goes below zero. `RatesHold` is about the buckets whose requests
  fit (`Need <= Cap`): one that needs more than the capacity takes it in advance
  (`limited.py:124`), and no burst bound holds for its bucket.

Each inductive invariant was first checked by TLC on the instances of section 3.

Every invariant, action property and refinement that a passing run checks is also
proved, three of them for the constants they are about: `SyncIsQuiet` and
`OnPolicyTraining` for `MaxRequired = Required*Trigger`, `NothingLeftBehind` without
partial rollout. Only model-checked is liveness (`Terminates`, `ReleasedByShutdown`,
`CancelEnds`, `Finishes`, `Answered`), which is out of the prover's reach: it
rests on fairness, hence on ENABLED. The disagreements of section 6 are shown by
TLC's counterexamples.

Only proved: the type invariants of all modules but `FullyAsync` (whose run checks
it too), and `PermitsReturned`.

## 6. Where code and documentation disagree

With a run that shows it:

1. `weights`: `README.md:228` says that during a synchronization no new tasks are
   added. The monitor (`fully_async_rollouter.py:641`) decides before it has the
   lock, and may clear the `paused` flag of a pause that came in between.
2. `starved`: `README.md:237` says interrupted samples are continued. Tasks started
   through 1 in a partial-rollout synchronization are cancelled at once and counted
   twice (line 217) until they are harvested. The processor tests the limit (line 426)
   before it looks into `cancel_queue` (line 449): at the limit, it stays paused for
   ever with interrupted samples there, and the trainer waits.
3. `double_count`: `README.md:142` says that rollout "continues to generate and trainer
   continues to consume". Without partial rollout too, the tasks started through 1 are
   counted in `active_tasks` and, when the queue answers after their puts, again in the
   queue. The limit is then reached with fewer samples than the trainer waits for.
   Section 3 says for which sizes.

Visible in the models, without a run of their own:

4. `README.md:137` promises at most `rollout_num` samples between two updates.
   `update_param_version` (line 216) does not count the sample the processor holds
   while it waits to submit it. With staleness one sample more can be outstanding,
   never two: `OvershootByOne` (run `stale`, theorem `NearlyBounded`); without
   staleness none (run `onpolicy`).
5. `README.md:237` again: with partial rollout, samples interrupted during the last
   wait (line 460) stay in `cancel_queue`, which nobody reads any more. No property
   covers that: `NothingStranded` is about runs without partial rollout (run `stale`),
   and for `Conservation` such a sample is where it should be.
6. `limited.py:182` says that `max_concurrent` bounds simultaneous requests. A
   blocking reward function outlives its timeout and still sends its request;
   `ParallelBounded` states what does bound them, the threads of the executor. Those
   are also needed to decode responses (line 414).
7. `limited.py:195` calls the limiters shared by all workers; every
   `RewardLoopWorker` is a process with limiters of its own.
8. `reward_loop.py:136` says that 4xx errors are not retried. The router
   (`naive_router.py:162`) raises, which its client sees as a 500, and retries.
9. A request that fails leaves `request_counts` one too high for good
   (`naive_router.py:162-173`): `CountsKept` says by exactly how much.
10. A tracker file that was being written when the job died is empty. `int('')` then
   fails in mode `auto` and, although the path is given, in `resume_path`
   (`checkpoint_manager.py:190`); only `disable` starts. In the model that is
   `LoadFails`.
11. At this commit no agent loop of the recipe can be built. `agent_loop/agent_loop.py:183`
   does not pass `dataset_cls` and `dataset_config`, which the base class requires
   (`src/Verl/verl/experimental/agent_loop/agent_loop.py:195`; its own worker passes
   them at line 506), and `partial_tool_agent_loop.py:107` builds `AgentData` without
   `video_data` (`tool_agent_loop.py:58`). Every sample raises `TypeError` before
   its first request; the configuration of a loop can supply the first two arguments,
   not the third, so the tool loop raises in any case.
   `Unbuilt` is the set of rollouts this happens to: at this commit all of
   them, and the theorems about `PartialRollout` hold for any. The run `agent_loops`
   has `Unbuilt = {}`: it is about the recipe with the arguments supplied.
12. A loop that raises leaves its siblings running (`agent_loop.py:137`). `pause` then
   returns while a request of theirs is still at a server, which goes on until the
   server has been told to end it and has looked. `QuietServers` excepts the requests
   of a failed sample.
13. `README.md:490` says a tool loop resumes "from the saved state". The tokens are
   saved, but after the resumption tool calls are looked for in the last reply only
   (`partial_tool_agent_loop.py:218`), so that a call which the interruption split
   would not be found (`CallsTool`). This is a reading of the code; because of 11 it
   cannot be met at this commit.

## 7. Not modelled

Interactions, multi-modal data and sampling parameters of the agent loops; metrics,
batching, PPO numerics, dispatch of remote calls, the numerical side of the workers.
A crash of an actor ends the run (the task runner raises), so within a run there is
no recovery to model; between runs it is `Checkpoint`.

The Megatron checkpoint manager: its synchronous save has the order of the FSDP one.
Its asynchronous save waits for `async_calls_finalize_fn_exec`, which the fully
asynchronous trainer never calls (other trainers of the repository do), and whose
writer is external; it is listed as a hazard without a property.
`sync_rollout_weights`, the transfer without the engine, is one loop of broadcasts.
The agent loop's server manager only chooses a server, and `PartialRollout` allows
every choice that a request can be sent to.

The models cover the coordination code of the recipe nearly completely, and
a small share of the repository: almost all of its lines are the vendored
`src/Megatron-LM` and `src/MindSpeed`, model definitions, kernels, data preparation
and numerical code (`src/Verl/verl/workers`, `verl/models`, `verl/utils`, recipes).
They are tensor computations and configuration, without state shared between
processes; a model of them would restate arithmetic that TLC cannot evaluate at a
meaningful size.

## 8. Plan

Done: the core of the recipe and the message queue; partial rollout, servers and
agent loops; checkpoints with crashes and restarts; the checkpoint engine; the
reward loop; theorems about each.

Left, in order of worth: the Megatron manager's asynchronous save, which needs a
model of the external writer; the balancing of
`src/Verl/verl/utils/seqlen_balancing.py` against a reference definition.
