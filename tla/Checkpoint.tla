------------------------------- MODULE Checkpoint ------------------------------
(***************************************************************************)
(* Checkpoints of the fully asynchronous recipe, crashes and restarts.     *)
(* FullyAsyncTrainer saves the weights of its worker groups, one role      *)
(* after the other, every rank its shard; then the rollouter saves the     *)
(* position of its dataloader; then the tracker file names the version.    *)
(* A restart reads the tracker and loads.                                  *)
(*                                                                         *)
(* A sample is its place in the dataset; weights are the set of samples    *)
(* they have learned from.  A file that is being written is Torn.          *)
(***************************************************************************)
EXTENDS Naturals, Sequences, FiniteSets

CONSTANTS
  UseCritic,   \* use_critic
  Ranks,       \* of the worker group of a role
  First,       \* rank 0
  Keep,        \* max_actor_ckpt_to_keep, max_critic_ckpt_to_keep; 0 for None
  SaveFreq,    \* trainer.save_freq, in versions
  TestFreq,    \* rollout.test_freq
  Trigger,     \* trigger_parameter_sync_step
  Required,    \* required_samples of a training step
  Total,       \* total_rollout_steps
  Items,       \* samples of the dataset, read in one epoch
  Ahead,       \* samples fed and not trained on: pending, running, queued
  Modes,       \* values of resume_mode the operator restarts with
  MaxVersion,  \* bound of the model: versions
  MaxCrashes,  \* bound of the model: crashes
  Absent, Torn \* there is no such file; it is not complete

Samples  == 1..Items
Versions == 0..MaxVersion
Roles    == IF UseCritic THEN {"actor", "critic"} ELSE {"actor"}

ASSUME CheckpointAssumption ==
  /\ UseCritic \in BOOLEAN
  /\ First \in Ranks
  /\ Keep \in [Roles -> Nat]
  /\ SaveFreq \in Nat
  /\ {TestFreq, Trigger, Required, Total, Items, Ahead} \subseteq Nat \ {0}
  /\ Modes \subseteq {"auto", "disable", "resume_path"}
  /\ {MaxVersion, MaxCrashes} \subseteq Nat
  /\ Absent # Torn
  /\ \A f \in {Absent, Torn} :
       f \notin Nat /\ \A w \in SUBSET Samples : f # w

VARIABLES
  \* the disk
  shards,     \* of a role, version and rank: model, optimizer and extra state
  data,       \* data.pt of a version: a position of the dataloader
  tracker,    \* latest_checkpointed_iteration.txt
  \* the trainer
  pc,         \* where it is, or "down" (crashed), "failed" (cannot load)
  ending,     \* fit has left its loop
  weights,    \* of a role and rank
  version,    \* current_param_version
  lts,        \* local_trigger_step
  lastCkpt,   \* last_ckpt_version
  prev,       \* previous_saved_paths of a role
  role,       \* whose weights are being saved
  rpc,        \* where a rank is in save_checkpoint
  \* the rollouter
  pos,        \* position of the dataloader
  steps,      \* its global_steps
  fed,        \* _feed_samples has ended
  inflight,   \* samples fed and not trained on
  \* the environment
  crashes,
  patched,    \* versions with files of two saves, the second unfinished
  excused     \* such a version, or one without data.pt, was resumed from

diskVars  == <<shards, data, tracker>>
trainVars == <<ending, weights, version, lts, lastCkpt>>
saveVars  == <<prev, role, rpc>>
rollVars  == <<pos, steps, fed, inflight>>
envVars   == <<crashes, patched, excused>>
vars == <<diskVars, pc, trainVars, saveVars, rollVars, envVars>>

Init ==
  /\ shards = [r \in Roles |-> [v \in Versions |-> [k \in Ranks |-> Absent]]]
  /\ data = [v \in Versions |-> Absent]
  /\ tracker = Absent
  /\ pc = "train"
  /\ ending = FALSE /\ version = 0 /\ lts = 1 /\ lastCkpt = 0
  /\ weights = [r \in Roles |-> [k \in Ranks |-> {}]]
  /\ prev = [r \in Roles |-> <<>>] /\ role = "actor"
  /\ rpc = [k \in Ranks |-> "idle"]
  /\ pos = 0 /\ steps = 1 /\ fed = FALSE /\ inflight = {}
  /\ crashes = 0 /\ patched = {} /\ excused = FALSE
-------------------------------------------------------------------------------
(***************************************************************************)
(* The rollouter.  Writing data.pt blocks its event loop.                  *)
(***************************************************************************)
Up == pc \notin {"down", "failed", "done"}

\* _feed_samples: the next sample, unless it was the last.
Feed ==
  /\ Up /\ pc # "dataopen"
  /\ ~fed /\ pos < Items /\ Cardinality(inflight) < Ahead
  /\ pos' = pos + 1
  /\ inflight' = inflight \cup {pos + 1}
  /\ IF steps >= Total THEN fed' = TRUE /\ UNCHANGED steps
                       ELSE steps' = steps + 1 /\ UNCHANGED fed
  /\ UNCHANGED <<diskVars, pc, trainVars, saveVars, envVars>>

\* _feed_samples: the dataset is exhausted.
FeedEnds ==
  /\ Up /\ pc # "dataopen"
  /\ ~fed /\ pos = Items
  /\ fed' = TRUE
  /\ UNCHANGED <<diskVars, pc, trainVars, saveVars, pos, steps, inflight,
                 envVars>>
-------------------------------------------------------------------------------
(***************************************************************************)
(* The loop of the trainer.                                                *)
(***************************************************************************)
\* A training step and, when it is due, a synchronization.
Train ==
  /\ pc = "train"
  /\ \E batch \in SUBSET inflight :
       /\ Cardinality(batch) = Required
       /\ inflight' = inflight \ batch
       /\ weights' = [r \in Roles |-> [k \in Ranks |-> weights[r][k] \cup batch]]
  /\ IF lts < Trigger
     THEN lts' = lts + 1 /\ UNCHANGED version
     ELSE lts' = 1 /\ version' = version + 1 /\ version < MaxVersion
  /\ pc' = "check"
  /\ UNCHANGED <<diskVars, ending, lastCkpt, saveVars, pos, steps, fed, envVars>>

\* The loop ends with the terminator; a last synchronization.
TrainEnds ==
  /\ pc = "train" /\ fed /\ Cardinality(inflight) < Required
  /\ ending' = TRUE
  /\ IF version % TestFreq # 0 \/ lts > 1
     THEN lts' = 1 /\ version' = version + 1 /\ version < MaxVersion
     ELSE UNCHANGED <<lts, version>>
  /\ pc' = "check"
  /\ UNCHANGED <<diskVars, weights, lastCkpt, saveVars, rollVars, envVars>>

AfterCheck == IF ending THEN "done" ELSE "train"

\* _check_save_checkpoint; expiring is what should_save_ckpt_esi says.
Due(expiring) ==
  /\ version # lastCkpt
  /\ SaveFreq > 0 /\ (version % SaveFreq = 0 \/ expiring)

HasFiles(v) ==
  data[v] # Absent \/ \E r \in Roles, k \in Ranks : shards[r][v][k] # Absent

CheckSave ==
  /\ pc = "check"
  /\ \E expiring \in BOOLEAN :
       IF Due(expiring)
       THEN /\ pc' = "save" /\ role' = "actor"
            /\ rpc' = [k \in Ranks |-> "called"]
            /\ patched' = IF HasFiles(version) THEN patched \cup {version}
                                             ELSE patched
       ELSE pc' = AfterCheck /\ UNCHANGED <<role, rpc, patched>>
  /\ UNCHANGED <<diskVars, trainVars, prev, rollVars, crashes, excused>>
-------------------------------------------------------------------------------
(***************************************************************************)
(* FSDPCheckpointManager.save_checkpoint of the ranks of one role.         *)
(***************************************************************************)
\* Bug: all checkpoints are removed; and: one too few.
ExcessAll(r) ==
  IF Keep[r] > 0 /\ Len(prev[r]) >= Keep[r] THEN Len(prev[r]) ELSE 0

ExcessLess(r) ==
  IF Keep[r] > 0 /\ Len(prev[r]) >= Keep[r] THEN Len(prev[r]) - Keep[r] ELSE 0

\* Checkpoints too many for one more: the oldest ones of previous_saved_paths.
Excess(r) ==
  IF Keep[r] > 0 /\ Len(prev[r]) >= Keep[r] THEN Len(prev[r]) - Keep[r] + 1
                                            ELSE 0

Doomed(r) == {prev[r][i] : i \in 1..Excess(r)}

\* rmtree by rank 0, file by file.
RemoveShard ==
  /\ pc = "save" /\ rpc[First] = "called"
  /\ \E v \in Doomed(role), k \in Ranks :
       /\ shards[role][v][k] # Absent
       /\ shards' = [shards EXCEPT ![role][v][k] = Absent]
  /\ UNCHANGED <<data, tracker, pc, trainVars, saveVars, rollVars, envVars>>

\* A rank comes to the barrier before the shards are written.
RankReady(k) ==
  /\ pc = "save" /\ rpc[k] = "called"
  /\ IF k = First
     THEN /\ \A v \in Doomed(role), j \in Ranks : shards[role][v][j] = Absent
          /\ prev' = [prev EXCEPT ![role] =
                        SubSeq(@, Excess(role) + 1, Len(@))]
     ELSE UNCHANGED prev
  /\ rpc' = [rpc EXCEPT ![k] = "ready"]
  /\ UNCHANGED <<diskVars, pc, trainVars, role, rollVars, envVars>>

\* Bug: a shard that is there already is not written again.
OpenShardOnce(k) ==
  /\ pc = "save" /\ rpc[k] = "ready"
  /\ \A j \in Ranks : rpc[j] # "called"
  /\ IF shards[role][version][k] \in {Absent, Torn}
     THEN /\ shards' = [shards EXCEPT ![role][version][k] = Torn]
          /\ rpc' = [rpc EXCEPT ![k] = "open"]
     ELSE rpc' = [rpc EXCEPT ![k] = "saved"] /\ UNCHANGED shards
  /\ UNCHANGED <<data, tracker, pc, trainVars, prev, role, rollVars, envVars>>

OpenShard(k) ==
  /\ pc = "save" /\ rpc[k] = "ready"
  /\ \A j \in Ranks : rpc[j] # "called"
  /\ shards' = [shards EXCEPT ![role][version][k] = Torn]
  /\ rpc' = [rpc EXCEPT ![k] = "open"]
  /\ UNCHANGED <<data, tracker, pc, trainVars, prev, role, rollVars, envVars>>

CloseShard(k) ==
  /\ pc = "save" /\ rpc[k] = "open"
  /\ shards' = [shards EXCEPT ![role][version][k] = weights[role][k]]
  /\ rpc' = [rpc EXCEPT ![k] = "saved"]
  /\ UNCHANGED <<data, tracker, pc, trainVars, prev, role, rollVars, envVars>>

\* All ranks have passed the last barrier and returned: the next role.
RoleSaved ==
  /\ pc = "save" /\ \A k \in Ranks : rpc[k] = "saved"
  /\ prev' = [prev EXCEPT ![role] = Append(@, version)]
  /\ IF role = "actor" /\ UseCritic
     THEN /\ role' = "critic" /\ rpc' = [k \in Ranks |-> "called"]
          /\ UNCHANGED pc
     ELSE /\ pc' = "data" /\ rpc' = [k \in Ranks |-> "idle"]
          /\ UNCHANGED role
  /\ UNCHANGED <<diskVars, trainVars, rollVars, envVars>>
-------------------------------------------------------------------------------
\* FullyAsyncRollouter.save_checkpoint: torch.save of the dataloader's state.
OpenData ==
  /\ pc = "data"
  /\ data' = [data EXCEPT ![version] = Torn]
  /\ pc' = "dataopen"
  /\ UNCHANGED <<shards, tracker, trainVars, saveVars, rollVars, envVars>>

CloseDataAt(p) ==
  /\ pc = "dataopen"
  /\ data' = [data EXCEPT ![version] = p]
  /\ patched' = patched \ {version}
  /\ pc' = "track"
  /\ UNCHANGED <<shards, tracker, trainVars, saveVars, rollVars, crashes, excused>>

\* Bug: the position saved is that of the trained samples.
CloseDataTrained == CloseDataAt(version * Required * Trigger)

CloseData == CloseDataAt(pos)

\* _save_checkpoint: open(..., "w") leaves the tracker empty.
OpenTracker ==
  /\ pc = "track"
  /\ tracker' = Torn
  /\ pc' = "trackopen"
  /\ UNCHANGED <<shards, data, trainVars, saveVars, rollVars, envVars>>

WriteTracker ==
  /\ pc = "trackopen"
  /\ tracker' = version
  /\ lastCkpt' = version
  /\ pc' = AfterCheck
  /\ UNCHANGED <<shards, data, ending, weights, version, lts, saveVars, rollVars,
                 envVars>>
-------------------------------------------------------------------------------
(***************************************************************************)
(* Crash and restart: both load_checkpoint, then the first synchronization.*)
(***************************************************************************)
\* The job dies, or is run once more after its end.
Crash ==
  /\ pc \notin {"down", "failed"} /\ crashes < MaxCrashes
  /\ crashes' = crashes + 1
  /\ pc' = "down"
  /\ ending' = FALSE /\ version' = 0 /\ lts' = 1 /\ lastCkpt' = 0
  /\ weights' = [r \in Roles |-> [k \in Ranks |-> {}]]
  /\ prev' = [r \in Roles |-> <<>>] /\ role' = "actor"
  /\ rpc' = [k \in Ranks |-> "idle"]
  /\ pos' = 0 /\ steps' = 1 /\ fed' = FALSE /\ inflight' = {}
  /\ UNCHANGED <<diskVars, patched, excused>>

Whole(f) == f \notin {Absent, Torn}

\* Every rank finds its shard; a missing data.pt is only warned about.
Loadable(v) ==
  /\ \A r \in Roles, k \in Ranks : Whole(shards[r][v][k])
  /\ data[v] # Torn

LoadFails ==
  /\ pc' = "failed"
  /\ UNCHANGED <<diskVars, trainVars, saveVars, rollVars, envVars>>

FromScratch ==
  /\ pc' = "train"
  /\ UNCHANGED <<diskVars, trainVars, saveVars, rollVars, envVars>>

\* Bug: current_param_version is not restored.
LoadFromUnversioned(v) ==
  /\ pc' = "train" /\ lastCkpt' = v
  /\ weights' = [r \in Roles |-> shards[r][v]]
  /\ steps' = v * Required * Trigger + 1
  /\ IF data[v] = Absent THEN UNCHANGED pos ELSE pos' = data[v]
  /\ excused' = (excused \/ v \in patched \/ data[v] = Absent)
  /\ UNCHANGED <<diskVars, ending, version, lts, saveVars, fed, inflight, crashes,
                 patched>>

\* Bug: the shard of the model is not among the contents to load.
LoadFromModelless(v) ==
  /\ pc' = "train"
  /\ version' = v /\ lastCkpt' = v
  /\ steps' = v * Required * Trigger + 1
  /\ IF data[v] = Absent THEN UNCHANGED pos ELSE pos' = data[v]
  /\ excused' = (excused \/ v \in patched \/ data[v] = Absent)
  /\ UNCHANGED <<diskVars, ending, weights, lts, saveVars, fed, inflight, crashes,
                 patched>>

LoadFrom(v) ==
  /\ pc' = "train"
  /\ version' = v /\ lastCkpt' = v
  /\ weights' = [r \in Roles |-> shards[r][v]]
  /\ steps' = v * Required * Trigger + 1
  /\ IF data[v] = Absent THEN UNCHANGED pos ELSE pos' = data[v]
  /\ excused' = (excused \/ v \in patched \/ data[v] = Absent)
  /\ UNCHANGED <<diskVars, ending, lts, saveVars, fed, inflight, crashes, patched>>

Load(v) == IF Loadable(v) THEN LoadFrom(v) ELSE LoadFails

\* find_latest_ckpt_path parses the tracker in every mode but "disable".
Restart ==
  /\ pc \in {"down", "failed"}
  /\ \E mode \in Modes :
       IF mode = "disable" \/ (mode = "auto" /\ tracker = Absent)
       THEN FromScratch
       ELSE IF tracker = Torn THEN LoadFails
       ELSE IF mode = "auto" THEN Load(tracker)
       ELSE \E v \in Versions : Load(v)

Done == pc = "done" /\ UNCHANGED vars

Rank(k) == RankReady(k) \/ OpenShard(k) \/ CloseShard(k)

Saving == \/ RemoveShard \/ (\E k \in Ranks : Rank(k)) \/ RoleSaved
          \/ OpenData \/ CloseData \/ OpenTracker \/ WriteTracker

Next == Feed \/ FeedEnds \/ Train \/ TrainEnds \/ CheckSave \/ Saving
        \/ Crash \/ Restart \/ Done

Spec == Init /\ [][Next]_vars
-------------------------------------------------------------------------------
TypeOK ==
  /\ shards \in [Roles -> [Versions -> [Ranks -> {Absent, Torn} \cup SUBSET Samples]]]
  /\ data \in [Versions -> {Absent, Torn} \cup 0..Items]
  /\ tracker \in {Absent, Torn} \cup Versions
  /\ pc \in {"train", "check", "save", "data", "dataopen", "track", "trackopen",
             "done", "down", "failed"}
  /\ ending \in BOOLEAN
  /\ weights \in [Roles -> [Ranks -> SUBSET Samples]]
  /\ version \in Versions /\ lts \in 1..Trigger /\ lastCkpt \in Versions
  /\ prev \in [Roles -> Seq(Versions)] /\ role \in Roles
  /\ rpc \in [Ranks -> {"idle", "called", "ready", "open", "saved"}]
  /\ pos \in 0..Items /\ steps \in Nat \ {0} /\ fed \in BOOLEAN
  /\ inflight \in SUBSET Samples
  /\ crashes \in 0..MaxCrashes /\ patched \subseteq Versions
  /\ excused \in BOOLEAN

\* A tracker that can be parsed names a version of which every rank has its
\* whole shard, and the position of the dataloader: except for roles that keep
\* one checkpoint (deleted before its successor exists) and while the tracked
\* version is overwritten, after an operator's resume.
Protected == {r \in Roles : Keep[r] # 1}

TrackedComplete ==
  tracker \in Versions \ patched =>
    /\ Whole(data[tracker])
    /\ \A r \in Protected, k \in Ranks : Whole(shards[r][tracker][k])

\* ... and the shards are those of one save.
TrackedUniform ==
  tracker \in Versions \ patched /\ ~excused =>
    \E w \in SUBSET Samples :
      \A r \in Protected, k \in Ranks : shards[r][tracker][k] = w

\* No sample is trained on twice: what the weights have learned is behind the
\* dataloader and not in flight, also after restarts.
NoneTwice ==
  ~excused => \A r \in Roles, k \in Ranks :
                /\ weights[r][k] \subseteq 1..pos
                /\ weights[r][k] \cap inflight = {}

\* Each crash loses at most the samples in flight when the last checkpoint was
\* made ("in-flight samples", save_checkpoint of the rollouter).
BoundedLoss ==
  ~excused => \A r \in Roles, k \in Ranks :
    Cardinality(1..pos \ (weights[r][k] \cup inflight)) <= Ahead * crashes

\* max_ckpt_to_keep bounds what one run of the job leaves on the disk.
Folders(r) == {v \in Versions : \E k \in Ranks : shards[r][v][k] # Absent}

DiskBound ==
  \A r \in Roles :
    Keep[r] > 0 => Cardinality(Folders(r)) <= Keep[r] * (crashes + 1)

\* Steps the weights have made, against the version that is claimed for them:
\* each resume can shift them by less than a round, back and forth.
StepsOf(w) == Cardinality(w) \div Required

Drift ==
  ~excused /\ Up /\ ~ending =>
    \A r \in Roles, k \in Ranks :
      LET made == StepsOf(weights[r][k])
          claimed == version * Trigger + lts - 1
      IN  made <= claimed + (Trigger - 1) * crashes /\ claimed <= made + Trigger * crashes
===============================================================================
