---------------------------- MODULE CheckpointProofs ---------------------------
(***************************************************************************)
(* What the tracker names is complete on the disk, whatever was crashed,   *)
(* restarted or overwritten, for any number of ranks, versions and crashes.*)
(*                                                                         *)
(* The argument: while a role is saved, the checkpoints rank 0 removes are *)
(* older than the one the tracker names (removing leaves the newest of     *)
(* previous_saved_paths, which is the tracked one); files of the version   *)
(* that is being saved belong to no tracked checkpoint, or to one marked   *)
(* as patched; and when the tracker is written every file is whole.        *)
(* The second half adds what the files say: they are of one save, which    *)
(* the position saved after them has passed, so nothing is trained twice.  *)
(* The third counts: what a crash loses, how far the version and the       *)
(* weights can drift apart, and what is left on the disk.                  *)
(***************************************************************************)
EXTENDS Checkpoint, FiniteSetTheorems, TLAPS

Files == {Absent, Torn} \cup SUBSET Samples

\* The shards of role r of the version that is being saved.
Saved(r) == \A k \in Ranks : Whole(shards[r][version][k])

\* How far the save is.
Progress ==
  /\ pc = "save" /\ role = "critic" => Saved("actor")
  /\ pc = "save" => \A k \in Ranks : rpc[k] = "saved" => Whole(shards[role][version][k])
  /\ pc \in {"data", "dataopen", "track", "trackopen"} =>
       \A r \in Roles : Saved(r)
  /\ pc \in {"track", "trackopen"} => Whole(data[version])

\* Roles whose weights this save has finished.
Finished(r) ==
  \/ pc \in {"data", "dataopen", "track", "trackopen"}
  \/ pc = "save" /\ r = "actor" /\ role = "critic"

Writing == pc \in {"save", "data", "dataopen"}

\* The newest path of a role is the last checkpoint, which the tracker names.
Newest ==
  /\ lastCkpt <= version
  /\ Writing \/ pc \in {"track", "trackopen"} => lastCkpt < version
  /\ \A r \in Roles :
       prev[r] # <<>> =>
         /\ pc \notin {"down", "failed"}
         /\ \A i \in 1..Len(prev[r]) :
              i < Len(prev[r]) => prev[r][i] < prev[r][Len(prev[r])]
         /\ Finished(r) => prev[r][Len(prev[r])] = version
         /\ ~Finished(r) => /\ prev[r][Len(prev[r])] = lastCkpt
                            /\ tracker = lastCkpt

\* The tracked version is written only where it is marked.
Marked == Writing /\ tracker = version => version \in patched

DiskInv == TypeOK /\ Progress /\ Newest /\ Marked /\ TrackedComplete
-------------------------------------------------------------------------------
LEMMA Sizes ==
  /\ Trigger \in Nat \ {0} /\ Required \in Nat \ {0} /\ Items \in Nat \ {0}
  /\ MaxVersion \in Nat /\ MaxCrashes \in Nat
  BY CheckpointAssumption

LEMMA WholeSets ==
  /\ \A w \in SUBSET Samples : Whole(w)
  /\ \A p \in 0..Items : Whole(p)
  BY CheckpointAssumption DEF Whole

\* One file is written or removed: the others are what they were.
Put(r, v, k, f) == [shards EXCEPT ![r][v][k] = f]

LEMMA OneShard ==
  ASSUME TypeOK, NEW r \in Roles, NEW v \in Versions, NEW k \in Ranks,
         NEW f \in Files,
         shards' = Put(r, v, k, f)
  PROVE  /\ shards' \in [Roles -> [Versions -> [Ranks -> Files]]]
         /\ shards'[r][v][k] = f
         /\ \A q \in Roles, u \in Versions, j \in Ranks :
              q # r \/ u # v \/ j # k => shards'[q][u][j] = shards[q][u][j]
<1> DEFINE F == Files
<1>1. shards \in [Roles -> [Versions -> [Ranks -> F]]]
  BY DEF TypeOK, Files
<1> DEFINE byRank == [shards[r][v] EXCEPT ![k] = f]
           byVersion == [shards[r] EXCEPT ![v] = byRank]
<1>2. byRank \in [Ranks -> F]
      /\ \A j \in Ranks : byRank[j] = IF j = k THEN f ELSE shards[r][v][j]
  BY <1>1
<1> HIDE DEF byRank
<1>3. byVersion \in [Versions -> [Ranks -> F]]
      /\ \A u \in Versions : byVersion[u] = IF u = v THEN byRank ELSE shards[r][u]
  BY <1>1, <1>2
<1>4. shards' = [shards EXCEPT ![r] = byVersion]
  BY DEF byRank, Put
<1> HIDE DEF byVersion
<1>5. shards' \in [Roles -> [Versions -> [Ranks -> F]]]
      /\ \A q \in Roles : shards'[q] = IF q = r THEN byVersion ELSE shards[q]
  BY <1>1, <1>3, <1>4
<1> QED
  BY <1>2, <1>3, <1>5

LEMMA TypeInit == Init => TypeOK
<1> SUFFICES ASSUME Init PROVE TypeOK
  OBVIOUS
<1>1. shards \in [Roles -> [Versions -> [Ranks -> Files]]]
  BY DEF Init, Files
<1>2. /\ data \in [Versions -> {Absent, Torn} \cup 0..Items]
      /\ tracker \in {Absent, Torn} \cup Versions
  BY DEF Init
<1>3. /\ weights \in [Roles -> [Ranks -> SUBSET Samples]]
      /\ prev \in [Roles -> Seq(Versions)] /\ role \in Roles
      /\ rpc \in [Ranks -> {"idle", "called", "ready", "open", "saved"}]
  BY DEF Init, Roles
<1>4. /\ version \in Versions /\ lts \in 1..Trigger /\ lastCkpt \in Versions
      /\ pos \in 0..Items /\ steps \in Nat \ {0}
      /\ inflight \in SUBSET Samples
      /\ crashes \in 0..MaxCrashes /\ patched \subseteq Versions
  BY Sizes DEF Init, Versions
<1>5. fed \in BOOLEAN /\ ending \in BOOLEAN /\ excused \in BOOLEAN
  BY DEF Init
<1> QED
  BY <1>1, <1>2, <1>3, <1>4, <1>5 DEF Init, TypeOK, Files

\* The rollouter and the trainer's loop keep the types.
LEMMA TypeLoop ==
  ASSUME TypeOK, Feed \/ FeedEnds \/ Train \/ TrainEnds \/ CheckSave
  PROVE  TypeOK'
<1>1. CASE Feed
  <2>1. pos + 1 \in Samples
    BY <1>1, Sizes DEF Feed, TypeOK, Samples
  <2>2. pos' \in 0..Items /\ steps' \in Nat \ {0}
    BY <1>1, Sizes DEF Feed, TypeOK
  <2>4. fed' \in BOOLEAN
    BY <1>1 DEF Feed, TypeOK
  <2>3. inflight' \in SUBSET Samples
    BY <1>1, <2>1 DEF Feed, TypeOK
  <2> QED
    BY <1>1, <2>2, <2>3, <2>4 DEF Feed, TypeOK, diskVars, trainVars, saveVars, envVars
<1>2. CASE FeedEnds
  BY <1>2 DEF FeedEnds, TypeOK, diskVars, trainVars, saveVars, envVars
<1>3. CASE Train
  <2>1. weights' \in [Roles -> [Ranks -> SUBSET Samples]]
    BY <1>3 DEF Train, TypeOK
  <2>2. version' \in Versions /\ lts' \in 1..Trigger
    BY <1>3, Sizes DEF Train, TypeOK, Versions
  <2>3. inflight' \in SUBSET Samples
    BY <1>3 DEF Train, TypeOK
  <2> QED
    BY <1>3, <2>1, <2>2, <2>3 DEF Train, TypeOK, diskVars, saveVars, envVars
<1>4. CASE TrainEnds
  <2>1. version' \in Versions /\ lts' \in 1..Trigger
    BY <1>4, Sizes DEF TrainEnds, TypeOK, Versions
  <2> QED
    BY <1>4, <2>1 DEF TrainEnds, TypeOK, diskVars, saveVars, rollVars, envVars
<1>5. CASE CheckSave
  <2>1. /\ role' \in Roles /\ patched' \subseteq Versions
        /\ rpc' \in [Ranks -> {"idle", "called", "ready", "open", "saved"}]
        /\ pc' \in {"save", "done", "train"}
    BY <1>5 DEF CheckSave, TypeOK, AfterCheck, Roles
  <2> QED
    BY <1>5, <2>1 DEF CheckSave, TypeOK, diskVars, trainVars, rollVars
<1> QED
  BY <1>1, <1>2, <1>3, <1>4, <1>5

LEMMA DoomedVersions ==
  ASSUME TypeOK, NEW r \in Roles
  PROVE  /\ prev[r] \in Seq(Versions) /\ Len(prev[r]) \in Nat
         /\ Excess(r) \in 0..Len(prev[r])
         /\ Doomed(r) \subseteq Versions
<1>1. prev[r] \in Seq(Versions) /\ Len(prev[r]) \in Nat /\ Keep[r] \in Nat
  BY CheckpointAssumption DEF TypeOK
<1>2. Excess(r) \in 0..Len(prev[r])
  BY <1>1 DEF Excess
<1> QED
  BY <1>1, <1>2 DEF Doomed

\* So do the steps of a save.
LEMMA TypeSaving ==
  ASSUME TypeOK, Saving
  PROVE  TypeOK'
<1>1. CASE RemoveShard
  <2>1. shards' \in [Roles -> [Versions -> [Ranks -> Files]]]
    <3>1. PICK v \in Doomed(role), k \in Ranks :
                 shards' = Put(role, v, k, Absent)
      BY <1>1 DEF RemoveShard, Put
    <3>2. v \in Versions /\ role \in Roles
      BY DoomedVersions DEF TypeOK
    <3>3. Absent \in Files
      BY DEF Files
    <3> QED
      BY <3>1, <3>2, <3>3, OneShard
  <2> QED
    BY <1>1, <2>1 DEF RemoveShard, TypeOK, Files, trainVars, saveVars, rollVars,
                      envVars
<1>2. ASSUME NEW k \in Ranks, RankReady(k) PROVE TypeOK'
  <2>1. prev' \in [Roles -> Seq(Versions)]
    <3>1. CASE k = First
      <4>1. prev[role] \in Seq(Versions) /\ Keep[role] \in Nat
        BY CheckpointAssumption DEF TypeOK
      <4>2. Excess(role) + 1 \in 1..Len(prev[role]) + 1
        BY <4>1 DEF Excess
      <4>3. SubSeq(prev[role], Excess(role) + 1, Len(prev[role])) \in Seq(Versions)
        BY <4>1, <4>2
      <4> QED
        BY <1>2, <3>1, <4>3 DEF RankReady, TypeOK
    <3>2. CASE k # First
      BY <1>2, <3>2 DEF RankReady, TypeOK
    <3> QED
      BY <3>1, <3>2
  <2>2. rpc' \in [Ranks -> {"idle", "called", "ready", "open", "saved"}]
    BY <1>2 DEF RankReady, TypeOK
  <2> QED
    BY <1>2, <2>1, <2>2 DEF RankReady, TypeOK, diskVars, trainVars, rollVars, envVars
<1>3. ASSUME NEW k \in Ranks, OpenShard(k) \/ CloseShard(k) PROVE TypeOK'
  <2>1. shards' \in [Roles -> [Versions -> [Ranks -> Files]]]
    <3>1. weights[role][k] \in SUBSET Samples
      BY DEF TypeOK
    <3>2. PICK f \in Files :
                 shards' = Put(role, version, k, f)
      BY <1>3, <3>1 DEF OpenShard, CloseShard, Files, Put
    <3> QED
      BY <3>2, OneShard DEF TypeOK
  <2>2. rpc' \in [Ranks -> {"idle", "called", "ready", "open", "saved"}]
    BY <1>3 DEF OpenShard, CloseShard, TypeOK
  <2> QED
    BY <1>3, <2>1, <2>2 DEF OpenShard, CloseShard, TypeOK, Files, trainVars,
                            rollVars, envVars
<1>4. CASE RoleSaved
  <2>1. prev' \in [Roles -> Seq(Versions)]
    <3>1. Append(prev[role], version) \in Seq(Versions)
      BY DEF TypeOK
    <3> QED
      BY <1>4, <3>1 DEF RoleSaved, TypeOK
  <2>2. /\ role' \in Roles /\ pc' \in {"save", "data"}
        /\ rpc' \in [Ranks -> {"idle", "called", "ready", "open", "saved"}]
    BY <1>4 DEF RoleSaved, TypeOK, Roles
  <2> QED
    BY <1>4, <2>1, <2>2 DEF RoleSaved, TypeOK, diskVars, trainVars, rollVars, envVars
<1>5. CASE OpenData \/ CloseData
  <2>1. data' \in [Versions -> {Absent, Torn} \cup 0..Items]
    BY <1>5 DEF OpenData, CloseData, CloseDataAt, TypeOK
  <2>2. patched' \subseteq Versions /\ pc' \in {"dataopen", "track"}
    BY <1>5 DEF OpenData, CloseData, CloseDataAt, TypeOK, envVars
  <2> QED
    BY <1>5, <2>1, <2>2
       DEF OpenData, CloseData, CloseDataAt, TypeOK, trainVars, saveVars, rollVars, envVars
<1>6. CASE OpenTracker \/ WriteTracker
  BY <1>6 DEF OpenTracker, WriteTracker, AfterCheck, TypeOK, trainVars, saveVars,
              rollVars, envVars
<1> QED
  BY <1>1, <1>2, <1>3, <1>4, <1>5, <1>6 DEF Saving, Rank

\* And crashes and restarts.
LEMMA TypeRestart ==
  ASSUME TypeOK, Crash \/ Restart
  PROVE  TypeOK'
<1>1. CASE Crash
  <2>1. /\ weights' \in [Roles -> [Ranks -> SUBSET Samples]]
        /\ prev' \in [Roles -> Seq(Versions)] /\ role' \in Roles
        /\ rpc' \in [Ranks -> {"idle", "called", "ready", "open", "saved"}]
    BY <1>1 DEF Crash, Roles
  <2>2. /\ version' \in Versions /\ lts' \in 1..Trigger /\ lastCkpt' \in Versions
        /\ pos' \in 0..Items /\ steps' \in Nat \ {0}
        /\ inflight' \in SUBSET Samples
        /\ crashes' \in 0..MaxCrashes
    BY <1>1, Sizes DEF Crash, Versions, TypeOK
  <2>3. ending' \in BOOLEAN /\ fed' \in BOOLEAN
    BY <1>1 DEF Crash
  <2> QED
    BY <1>1, <2>1, <2>2, <2>3 DEF Crash, TypeOK, diskVars
<1>2. CASE FromScratch \/ LoadFails
  BY <1>2 DEF FromScratch, LoadFails, TypeOK, diskVars, trainVars, saveVars,
              rollVars, envVars
<1>3. ASSUME NEW v \in Versions, Loadable(v), LoadFrom(v) PROVE TypeOK'
  <2>1. weights' \in [Roles -> [Ranks -> SUBSET Samples]]
    BY <1>3 DEF LoadFrom, Loadable, Whole, TypeOK
  <2>2. pos' \in 0..Items
    BY <1>3 DEF LoadFrom, Loadable, TypeOK
  <2>3. steps' \in Nat \ {0}
    BY <1>3, Sizes DEF LoadFrom, Versions
  <2>4. excused' \in BOOLEAN
    BY <1>3 DEF LoadFrom, TypeOK
  <2> QED
    BY <1>3, <2>1, <2>2, <2>3, <2>4 DEF LoadFrom, TypeOK, diskVars, saveVars
<1>4. CASE Restart
  <2>1. tracker \in Versions \/ tracker \in {Absent, Torn}
    BY DEF TypeOK
  <2>2. \/ FromScratch \/ LoadFails
        \/ \E v \in Versions : Loadable(v) /\ LoadFrom(v)
    BY <1>4, <2>1, CheckpointAssumption DEF Restart, Load
  <2> QED
    BY <1>2, <1>3, <2>2
<1> QED
  BY <1>1, <1>4

\* Every variable keeps its type.
LEMMA TypeStep == TypeOK /\ [Next]_vars => TypeOK'
<1> SUFFICES ASSUME TypeOK, [Next]_vars PROVE TypeOK'
  OBVIOUS
<1>1. CASE UNCHANGED vars
  BY <1>1 DEF TypeOK, vars, diskVars, trainVars, saveVars, rollVars, envVars
<1>2. CASE Next
  BY <1>1, <1>2, TypeLoop, TypeSaving, TypeRestart DEF Next, Done
<1> QED
  BY <1>1, <1>2

\* Every variable has its type, in every reachable state.
THEOREM CheckpointTyped == Spec => []TypeOK
  BY TypeInit, TypeStep, PTL DEF Spec
-------------------------------------------------------------------------------
DiskRest == Progress /\ Newest /\ Marked /\ TrackedComplete

\* Steps that leave the disk, the lists of paths and the save alone.
LEMMA DiskLoop ==
  ASSUME DiskInv, Feed \/ FeedEnds \/ Train \/ TrainEnds
  PROVE  DiskRest'
<1> USE DEF DiskInv, DiskRest
<1>1. UNCHANGED <<diskVars, saveVars, patched, lastCkpt>>
  BY DEF Feed, FeedEnds, Train, TrainEnds, envVars, trainVars
<1>2. \/ /\ UNCHANGED <<pc, version>>
      \/ /\ pc = "train" /\ pc' = "check" /\ version' \in {version, version + 1}
  BY DEF Feed, FeedEnds, Train, TrainEnds, trainVars
<1>3. version \in Nat /\ lastCkpt \in Nat
  BY Sizes DEF TypeOK, Versions
<1>4. Progress' /\ Marked' /\ TrackedComplete'
  BY <1>1, <1>2 DEF Progress, Saved, Marked, Writing, TrackedComplete, diskVars, saveVars
<1>5. Newest'
  BY <1>1, <1>2, <1>3 DEF Newest, Writing, Finished, diskVars, saveVars
<1> QED
  BY <1>4, <1>5

\* The start of a save marks the version if there is anything of it.
LEMMA DiskCheck ==
  ASSUME DiskInv, CheckSave
  PROVE  DiskRest'
<1> USE DEF DiskInv, DiskRest
<1>1. /\ UNCHANGED <<diskVars, trainVars, prev>> /\ pc = "check"
      /\ patched \subseteq patched'
      /\ \/ /\ pc' = "save" /\ role' = "actor" /\ version # lastCkpt
            /\ rpc' = [k \in Ranks |-> "called"]
            /\ HasFiles(version) => version \in patched'
         \/ pc' \in {"train", "done"}
  BY DEF CheckSave, Due, AfterCheck
<1>2. version \in Nat /\ lastCkpt \in Nat
  BY Sizes DEF TypeOK, Versions
<1>3. TrackedComplete'
  BY <1>1 DEF TrackedComplete, diskVars
<1>4. Progress'
  BY <1>1 DEF Progress, Saved, diskVars, trainVars
<1>5. Newest'
  BY <1>1, <1>2 DEF Newest, Writing, Finished, diskVars, trainVars
<1>6. ASSUME tracker = version, pc' = "save" PROVE version \in patched'
  <2>1. CASE version \in patched
    BY <2>1, <1>1
  <2>2. CASE version \notin patched
    <3>1. data[version] # Absent
      BY <1>6, <2>2 DEF TrackedComplete, Whole, TypeOK
    <3> QED
      BY <1>1, <1>6, <3>1 DEF HasFiles
  <2> QED
    BY <2>1, <2>2
<1> QED
  BY <1>1, <1>3, <1>4, <1>5, <1>6 DEF Marked, Writing, diskVars, trainVars

\* What rank 0 removes is not what the tracker names.
LEMMA DoomedOld ==
  ASSUME DiskInv, pc = "save", NEW v \in Doomed(role), role \in Protected
  PROVE  v # tracker
<1> USE DEF DiskInv
<1>1. /\ prev[role] \in Seq(Versions) /\ Len(prev[role]) \in Nat
      /\ Keep[role] \in Nat /\ Keep[role] # 1
  BY DoomedVersions, CheckpointAssumption DEF TypeOK, Protected
<1>2. PICK i \in 1..Excess(role) : v = prev[role][i]
  BY DEF Doomed
<1>3. Keep[role] > 0 /\ Len(prev[role]) >= Keep[role]
      /\ Excess(role) = Len(prev[role]) - Keep[role] + 1
  BY <1>1, <1>2 DEF Excess
<1>4. i \in 1..Len(prev[role]) /\ i < Len(prev[role]) /\ prev[role] # <<>>
  BY <1>1, <1>2, <1>3
<1>5. prev[role][i] < prev[role][Len(prev[role])]
  BY <1>4 DEF Newest, TypeOK
<1>6. ~Finished(role) => tracker = prev[role][Len(prev[role])]
  BY <1>4 DEF Newest, TypeOK
<1>7. ~Finished(role)
  BY DEF Finished
<1>8. prev[role][i] \in Nat /\ prev[role][Len(prev[role])] \in Nat
  BY <1>1, <1>4, Sizes DEF Versions
<1> QED
  BY <1>2, <1>5, <1>6, <1>7, <1>8

\* ... and older than the version that is saved.
LEMMA DoomedBefore ==
  ASSUME DiskInv, pc = "save", NEW v \in Doomed(role)
  PROVE  v < version /\ v # version
<1> USE DEF DiskInv
<1>1. role \in Roles /\ lastCkpt < version /\ version \in Nat /\ lastCkpt \in Nat
  BY Sizes DEF TypeOK, Newest, Writing, Versions
<1>2. /\ prev[role] \in Seq(Versions) /\ Len(prev[role]) \in Nat
      /\ Excess(role) \in 0..Len(prev[role])
  BY <1>1, DoomedVersions
<1>3. PICK i \in 1..Excess(role) : v = prev[role][i]
  BY DEF Doomed
<1>4. i \in 1..Len(prev[role]) /\ prev[role] # <<>>
  BY <1>2
<1>5. prev[role][Len(prev[role])] = lastCkpt
  <2>1. ~Finished(role)
    BY DEF Finished
  <2> QED
    BY <1>1, <1>4, <2>1 DEF Newest
<1>6. i < Len(prev[role]) => prev[role][i] < prev[role][Len(prev[role])]
  BY <1>1, <1>4 DEF Newest
<1>7. prev[role][i] \in Nat
  BY <1>2, <1>4, Sizes DEF Versions
<1> QED
  BY <1>1, <1>2, <1>3, <1>4, <1>5, <1>6, <1>7

\* A step of a rank: of the disk, only shards of the role being saved change.
LEMMA DiskRanks ==
  ASSUME DiskInv, RemoveShard \/ \E k \in Ranks : Rank(k)
  PROVE  DiskRest'
<1> USE DEF DiskInv, DiskRest
<1>1. /\ pc = "save" /\ UNCHANGED <<data, tracker, pc, trainVars, role, envVars>>
  BY DEF RemoveShard, Rank, RankReady, OpenShard, CloseShard, diskVars, saveVars
<1>2. role \in Roles /\ version \in Versions /\ lastCkpt < version
      /\ version \in Nat /\ lastCkpt \in Nat
  BY <1>1, Sizes DEF TypeOK, Newest, Writing, Versions
<1>3. CASE RemoveShard
  <2>1. PICK v \in Doomed(role), k \in Ranks :
               shards' = Put(role, v, k, Absent)
    BY <1>3 DEF RemoveShard, Put
  <2>2. /\ v \in Versions
        /\ \A q \in Roles, u \in Versions, j \in Ranks :
             q # role \/ u # v => shards'[q][u][j] = shards[q][u][j]
    <3>1. TypeOK /\ v \in Versions /\ Absent \in Files
      BY <1>2, DoomedVersions DEF Files
    <3> HIDE DEF DiskInv
    <3> QED
      BY <1>2, <2>1, <3>1, OneShard
  <2>3. UNCHANGED <<prev, rpc>> /\ rpc[First] = "called"
    BY <1>3 DEF RemoveShard, saveVars
  <2>4. v < version
    BY <1>1, <2>1, DoomedBefore
  <2>5. Progress'
    <3>1. \A q \in Roles, j \in Ranks : shards'[q][version][j] = shards[q][version][j]
      BY <1>2, <2>2, <2>4 DEF Versions
    <3> QED
      BY <1>1, <1>2, <2>3, <3>1 DEF Progress, Saved, trainVars, Roles
  <2>6. Newest' /\ Marked'
    BY <1>1, <2>3 DEF Newest, Marked, Finished, Writing, trainVars, envVars
  <2>7. TrackedComplete'
    <3>1. ASSUME NEW r \in Protected, NEW j \in Ranks, tracker \in Versions \ patched
          PROVE  Whole(shards'[r][tracker][j])
      <4>1. r = role => tracker # v
        BY <1>1, <2>1, <3>1, DoomedOld
      <4>2. Whole(shards[r][tracker][j]) /\ r \in Roles
        BY <3>1 DEF TrackedComplete, Protected
      <4> QED
        BY <2>2, <3>1, <4>1, <4>2
    <3> QED
      BY <1>1, <3>1 DEF TrackedComplete, envVars
  <2> QED
    BY <2>5, <2>6, <2>7
<1>4. ASSUME NEW k \in Ranks, RankReady(k) PROVE DiskRest'
  <2>1. /\ UNCHANGED shards /\ rpc' = [rpc EXCEPT ![k] = "ready"]
        /\ \A q \in Roles : q # role => prev'[q] = prev[q]
    BY <1>2, <1>4 DEF RankReady, diskVars, TypeOK
  <2>2. Progress' /\ Marked' /\ TrackedComplete'
    BY <1>1, <2>1 DEF Progress, Saved, Marked, Writing, TrackedComplete, TypeOK,
                      trainVars, envVars
  <2>3. Newest'
    <3>1. ASSUME prev'[role] # <<>>
          PROVE  /\ prev[role] # <<>>
                 /\ prev'[role][Len(prev'[role])] = prev[role][Len(prev[role])]
                 /\ \A i \in 1..Len(prev'[role]) :
                      i < Len(prev'[role]) =>
                        prev'[role][i] < prev'[role][Len(prev'[role])]
      <4>1. /\ prev[role] \in Seq(Versions) /\ Len(prev[role]) \in Nat
            /\ Excess(role) \in 0..Len(prev[role])
        BY <1>2, DoomedVersions
      <4>2. CASE prev'[role] = prev[role]
        BY <1>1, <1>2, <3>1, <4>2 DEF Newest
      <4>3. CASE prev'[role] = SubSeq(prev[role], Excess(role) + 1, Len(prev[role]))
        <5> DEFINE e == Excess(role)
                   n == Len(prev[role])
        <5>1. /\ Len(prev'[role]) = n - e
              /\ \A i \in 1..(n - e) : prev'[role][i] = prev[role][i + e]
          BY <4>1, <4>3
        <5>2. e < n
          BY <3>1, <4>1, <4>3
        <5>3. prev[role] # <<>>
          BY <4>1, <5>2
        <5>4. \A i \in 1..n : i < n => prev[role][i] < prev[role][n]
          BY <1>1, <1>2, <5>3 DEF Newest
        <5> HIDE DEF e, n
        <5>5. e \in Nat /\ n \in Nat
          BY <4>1 DEF e, n
        <5> QED
          BY <5>1, <5>2, <5>3, <5>4, <5>5 DEF n
      <4> QED
        BY <1>2, <1>4, <4>2, <4>3 DEF RankReady, TypeOK
    <3> QED
      BY <1>1, <2>1, <3>1 DEF Newest, Finished, Writing, trainVars
  <2> QED
    BY <2>2, <2>3
<1>5. ASSUME NEW k \in Ranks, NEW f,
             shards'[role][version][k] = f,
             \A q \in Roles, u \in Versions, j \in Ranks :
               q # role \/ u # version \/ j # k => shards'[q][u][j] = shards[q][u][j],
             UNCHANGED prev,
             \A j \in Ranks : rpc'[j] = "saved" =>
               (rpc[j] = "saved" /\ j # k) \/ (j = k /\ Whole(f))
      PROVE  DiskRest'
  <2>2. Progress'
    <3>1. role = "critic" => \A j \in Ranks : Whole(shards'["actor"][version][j])
      BY <1>1, <1>2, <1>5 DEF Progress, Saved, Roles
    <3>2. ASSUME NEW j \in Ranks, rpc'[j] = "saved"
          PROVE  Whole(shards'[role][version][j])
      BY <1>1, <1>2, <1>5, <3>2 DEF Progress
    <3> QED
      BY <1>1, <3>1, <3>2 DEF Progress, Saved, trainVars
  <2>3. Newest' /\ Marked'
    BY <1>1, <1>5 DEF Newest, Marked, Finished, Writing, trainVars, envVars
  <2>4. TrackedComplete'
    <3>1. tracker \in Versions \ patched => tracker # version
      BY <1>1 DEF Marked, Writing
    <3> QED
      BY <1>1, <1>5, <3>1 DEF TrackedComplete, Protected, envVars
  <2> QED
    BY <2>2, <2>3, <2>4
<1>6. ASSUME NEW k \in Ranks, NEW f \in Files,
             shards' = Put(role, version, k, f)
      PROVE  /\ shards'[role][version][k] = f
             /\ \A q \in Roles, u \in Versions, j \in Ranks :
                  q # role \/ u # version \/ j # k => shards'[q][u][j] = shards[q][u][j]
  BY <1>2, <1>6, OneShard
<1>7. ASSUME NEW k \in Ranks, OpenShard(k) PROVE DiskRest'
  <2>1. /\ shards' = Put(role, version, k, Torn)
        /\ UNCHANGED prev
        /\ \A j \in Ranks : rpc'[j] = "saved" =>
             (rpc[j] = "saved" /\ j # k) \/ (j = k /\ Whole(Torn))
    BY <1>7 DEF OpenShard, TypeOK, Put
  <2>2. Torn \in Files
    BY DEF Files
  <2> HIDE DEF DiskRest, DiskInv
  <2> QED
    BY <1>5, <1>6, <2>1, <2>2
<1>8. ASSUME NEW k \in Ranks, CloseShard(k) PROVE DiskRest'
  <2>1. weights[role][k] \in SUBSET Samples
    BY <1>2 DEF TypeOK
  <2>2. Whole(weights[role][k]) /\ weights[role][k] \in Files
    BY <2>1, WholeSets DEF Files
  <2>3. /\ shards' = Put(role, version, k, weights[role][k])
        /\ UNCHANGED prev
        /\ \A j \in Ranks : rpc'[j] = "saved" =>
             (rpc[j] = "saved" /\ j # k) \/ (j = k /\ Whole(weights[role][k]))
    BY <1>8, <2>2 DEF CloseShard, TypeOK, Put
  <2> HIDE DEF DiskRest, DiskInv
  <2> QED
    BY <1>5, <1>6, <2>2, <2>3
<1> QED
  BY <1>3, <1>4, <1>7, <1>8 DEF Rank

\* A role is saved: its shards are whole, its newest path is the version.
LEMMA DiskRoleSaved ==
  ASSUME DiskInv, RoleSaved
  PROVE  DiskRest'
<1> USE DEF DiskInv, DiskRest
<1>1. /\ pc = "save" /\ UNCHANGED <<diskVars, trainVars, patched>>
      /\ \A q \in Roles : q # role => prev'[q] = prev[q]
      /\ prev'[role] = Append(prev[role], version)
      /\ \/ /\ role = "actor" /\ role' = "critic" /\ pc' = "save"
            /\ rpc' = [k \in Ranks |-> "called"]
         \/ /\ pc' = "data" /\ role' = role
            /\ (role = "critic" \/ ~UseCritic)
  BY DEF RoleSaved, TypeOK, envVars, Roles
<1>2. /\ role \in Roles /\ prev[role] \in Seq(Versions)
      /\ version \in Versions /\ version \in Nat /\ lastCkpt \in Nat
      /\ lastCkpt < version
  BY <1>1, Sizes DEF TypeOK, Newest, Writing, Versions
<1>3. Saved(role)
  BY <1>1 DEF RoleSaved, Progress, Saved
<1>4. Progress'
  BY <1>1, <1>2, <1>3 DEF Progress, Saved, Roles, diskVars, trainVars
<1>5. Marked' /\ TrackedComplete'
  BY <1>1 DEF Marked, Writing, TrackedComplete, diskVars, trainVars
<1>6. Newest'
  <2>1. /\ Len(prev'[role]) = Len(prev[role]) + 1 /\ prev'[role] # <<>>
        /\ prev'[role][Len(prev'[role])] = version
        /\ \A i \in 1..Len(prev[role]) : prev'[role][i] = prev[role][i]
    BY <1>1, <1>2
  <2>2. \A i \in 1..Len(prev[role]) : prev[role][i] < version
    <3>1. ~Finished(role)
      BY <1>1 DEF Finished
    <3>2. SUFFICES ASSUME NEW i \in 1..Len(prev[role]) PROVE prev[role][i] < version
      OBVIOUS
    <3>3. prev[role] # <<>> /\ prev[role][i] \in Nat /\ Len(prev[role]) \in Nat
      BY <1>2, <3>2, Sizes DEF Versions
    <3>4. prev[role][Len(prev[role])] = lastCkpt
      BY <1>1, <1>2, <3>1, <3>3 DEF Newest
    <3>5. i < Len(prev[role]) => prev[role][i] < prev[role][Len(prev[role])]
      BY <1>1, <1>2, <3>3 DEF Newest
    <3> QED
      BY <1>2, <3>2, <3>3, <3>4, <3>5
  <2>3. \A i \in 1..Len(prev'[role]) :
          i < Len(prev'[role]) => prev'[role][i] < prev'[role][Len(prev'[role])]
    BY <1>2, <2>1, <2>2
  <2>4. ASSUME NEW q \in Roles, q = role PROVE Finished(q)'
    BY <1>1, <1>2, <2>4 DEF Finished, Roles
  <2>5. ASSUME NEW q \in Roles, q # role PROVE Finished(q)' <=> Finished(q)
    BY <1>1, <1>2, <2>5 DEF Finished, Roles
  <2>6. lastCkpt' = lastCkpt /\ version' = version
        /\ pc' \notin {"down", "failed"}
    BY <1>1 DEF trainVars
  <2>7. ASSUME NEW q \in Roles, prev'[q] # <<>>
        PROVE  /\ \A i \in 1..Len(prev'[q]) :
                    i < Len(prev'[q]) => prev'[q][i] < prev'[q][Len(prev'[q])]
               /\ Finished(q)' => prev'[q][Len(prev'[q])] = version
               /\ ~Finished(q)' => /\ prev'[q][Len(prev'[q])] = lastCkpt
                                   /\ tracker' = lastCkpt
    <3>1. CASE q = role
      BY <2>1, <2>3, <2>4, <3>1
    <3>2. CASE q # role
      BY <1>1, <2>5, <2>7, <3>2 DEF Newest, diskVars
    <3> QED
      BY <3>1, <3>2
  <2> QED
    BY <1>2, <2>6, <2>7 DEF Newest, Writing
<1> QED
  BY <1>4, <1>5, <1>6

\* The position of the dataloader and the tracker.
LEMMA DiskEnd ==
  ASSUME DiskInv, OpenData \/ CloseData \/ OpenTracker \/ WriteTracker
  PROVE  DiskRest'
<1> USE DEF DiskInv, DiskRest
<1>1. /\ UNCHANGED <<shards, prev, role, version>>
      /\ version \in Nat /\ lastCkpt \in Nat /\ version \in Versions
      /\ pc \in {"data", "dataopen", "track", "trackopen"}
  BY Sizes DEF OpenData, CloseData, CloseDataAt, OpenTracker, WriteTracker, saveVars,
               trainVars, TypeOK, Versions
<1>2. CASE OpenData
  <2>1. /\ pc = "data" /\ pc' = "dataopen" /\ UNCHANGED <<tracker, patched, lastCkpt>>
        /\ \A v \in Versions : v # version => data'[v] = data[v]
    BY <1>2 DEF OpenData, TypeOK, envVars, trainVars
  <2>2. tracker \in Versions \ patched => tracker # version
    BY <2>1 DEF Marked, Writing
  <2>3. TrackedComplete'
    BY <1>1, <2>1, <2>2 DEF TrackedComplete
  <2> QED
    BY <1>1, <2>1, <2>3 DEF Progress, Saved, Newest, Finished, Marked, Writing
<1>3. CASE CloseData
  <2>1. /\ pc = "dataopen" /\ pc' = "track" /\ UNCHANGED <<tracker, lastCkpt>>
        /\ patched' = patched \ {version}
        /\ data'[version] = pos
        /\ \A v \in Versions : v # version => data'[v] = data[v]
    BY <1>3 DEF CloseData, CloseDataAt, TypeOK, trainVars
  <2>2. Whole(data'[version])
    BY <2>1, WholeSets DEF TypeOK
  <2>3. \A r \in Roles : Saved(r)
    BY <2>1 DEF Progress
  <2>4. TrackedComplete'
    <3>1. CASE tracker = version
      BY <1>1, <2>1, <2>2, <2>3, <3>1 DEF TrackedComplete, Saved, Protected
    <3>2. CASE tracker # version
      BY <1>1, <2>1, <3>2 DEF TrackedComplete
    <3> QED
      BY <3>1, <3>2
  <2>5. Progress'
    BY <1>1, <2>1, <2>2, <2>3 DEF Progress, Saved
  <2> QED
    BY <1>1, <2>1, <2>4, <2>5 DEF Newest, Finished, Marked, Writing
<1>4. CASE OpenTracker
  <2>1. /\ pc = "track" /\ pc' = "trackopen" /\ UNCHANGED <<data, patched, lastCkpt>>
        /\ tracker' = Torn
    BY <1>4 DEF OpenTracker, envVars, trainVars
  <2>2. Torn \notin Versions
    BY CheckpointAssumption DEF Versions
  <2> QED
    BY <1>1, <2>1, <2>2
       DEF TrackedComplete, Progress, Saved, Newest, Finished, Marked, Writing
<1>5. CASE WriteTracker
  <2>1. /\ pc = "trackopen" /\ pc' \in {"train", "done"} /\ UNCHANGED <<data, patched>>
        /\ tracker' = version /\ lastCkpt' = version
    BY <1>5 DEF WriteTracker, AfterCheck, envVars
  <2>2. Whole(data[version]) /\ \A r \in Roles : Saved(r)
    BY <2>1 DEF Progress
  <2>3. TrackedComplete'
    BY <1>1, <2>1, <2>2 DEF TrackedComplete, Saved, Protected
  <2>4. Newest'
    BY <1>1, <2>1 DEF Newest, Finished, Writing
  <2> QED
    BY <1>1, <2>1, <2>3, <2>4 DEF Progress, Marked, Writing
<1> QED
  BY <1>2, <1>3, <1>4, <1>5

\* A crash forgets the lists of paths; a restart touches no file.
LEMMA DiskRestart ==
  ASSUME DiskInv, Crash \/ Restart
  PROVE  DiskRest'
<1> USE DEF DiskInv, DiskRest
<1>1. CASE Crash
  <2>1. /\ UNCHANGED <<diskVars, patched>> /\ pc' = "down"
    BY <1>1 DEF Crash
  <2>2. lastCkpt' = 0 /\ version' = 0 /\ \A r \in Roles : prev'[r] = <<>>
    BY <1>1 DEF Crash
  <2> QED
    BY <2>1, <2>2 DEF Progress, Newest, Marked, Writing, TrackedComplete, diskVars
<1>2. CASE Restart
  <2>1. /\ UNCHANGED <<diskVars, patched, prev>> /\ pc \in {"down", "failed"}
        /\ \/ pc' = "failed" /\ UNCHANGED <<lastCkpt, version>>
           \/ pc' = "train" /\ lastCkpt' = version'
           \/ pc' = "train" /\ UNCHANGED <<lastCkpt, version>>
    BY <1>2 DEF Restart, FromScratch, LoadFails, Load, LoadFrom, saveVars, envVars, trainVars
  <2>2. version' \in Nat
    BY TypeRestart, Sizes DEF TypeOK, Versions
  <2> QED
    BY <2>1, <2>2 DEF Progress, Newest, Marked, Writing, TrackedComplete, diskVars
<1> QED
  BY <1>1, <1>2
-------------------------------------------------------------------------------
LEMMA DiskInit == Init => DiskInv
<1> SUFFICES ASSUME Init PROVE DiskInv
  OBVIOUS
<1>1. tracker \notin Versions
  BY CheckpointAssumption DEF Init, Versions
<1>2. prev = [r \in Roles |-> <<>>] /\ lastCkpt = 0 /\ version = 0 /\ pc = "train"
  BY DEF Init
<1> QED
  BY <1>1, <1>2, TypeInit
     DEF DiskInv, Progress, Newest, Marked, Writing, TrackedComplete

LEMMA DiskStep == DiskInv /\ [Next]_vars => DiskInv'
<1> SUFFICES ASSUME DiskInv, [Next]_vars PROVE DiskInv'
  OBVIOUS
<1>1. TypeOK'
  BY TypeStep DEF DiskInv
<1>2. CASE UNCHANGED vars
  <2>1. UNCHANGED <<diskVars, pc, trainVars, saveVars, patched>>
    BY <1>2 DEF vars, envVars
  <2>2. DiskRest'
    BY <2>1 DEF DiskInv, DiskRest, Progress, Saved, Newest, Finished, Marked, Writing,
                TrackedComplete, diskVars, trainVars, saveVars
  <2> QED
    BY <1>1, <2>2 DEF DiskInv, DiskRest
<1>3. CASE Next
  <2>1. DiskRest' \/ UNCHANGED vars
    BY <1>3, DiskLoop, DiskCheck, DiskRanks, DiskRoleSaved, DiskEnd, DiskRestart
       DEF Next, Saving, Done
  <2> QED
    BY <1>1, <1>2, <2>1 DEF DiskInv, DiskRest
<1> QED
  BY <1>2, <1>3

\* What a tracker that can be parsed names is complete, for roles that keep more
\* than one checkpoint, unless it is just being overwritten; whatever crashes,
\* restarts and resumes there were.
THEOREM TrackerNamesComplete == Spec => []TrackedComplete
<1>1. DiskInv => TrackedComplete
  BY DEF DiskInv
<1> QED
  BY <1>1, DiskInit, DiskStep, PTL DEF Spec

-------------------------------------------------------------------------------
(***************************************************************************)
(* What the weights have learned.  All ranks have learned from the same    *)
(* samples, which the dataloader has passed and which are not in flight;   *)
(* and so it is with the files of a version: of one save, and before the   *)
(* position that was saved with them.                                      *)
(***************************************************************************)
Common ==
  \E w \in SUBSET (1..pos) :
    /\ w \cap inflight = {}
    /\ \A r \in Roles, k \in Ranks : weights[r][k] = w

\* The whole shards of version v are of one save, as data.pt is.
OneSave(v) ==
  Whole(data[v]) =>
    \E w \in SUBSET (1..data[v]) :
      \A r \in Roles, k \in Ranks : Whole(shards[r][v][k]) => shards[r][v][k] = w

Learned == ~excused => Common /\ \A v \in Versions \ patched : OneSave(v)

\* What the save under way has written is the trainer's.
Own ==
  /\ pc = "save" => \A k \in Ranks : rpc[k] = "saved" =>
                      shards[role][version][k] = weights[role][k]
  /\ pc = "save" /\ role = "critic" =>
       \A k \in Ranks : shards["actor"][version][k] = weights["actor"][k]
  /\ pc \in {"data", "dataopen"} =>
       \A r \in Roles, k \in Ranks : shards[r][version][k] = weights[r][k]

\* Until it has written its data.pt there is none, unless the version is marked.
Fresh == Writing /\ version \notin patched => ~Whole(data[version])

InFlight ==
  /\ inflight \subseteq 1..pos
  /\ pc \in {"down", "failed"} => inflight = {}

LearnInv == Learned /\ Own /\ Fresh /\ InFlight

LEMMA LearnInit == Init => LearnInv
<1> SUFFICES ASSUME Init PROVE LearnInv
  OBVIOUS
<1>1. Common
  <2>1. {} \in SUBSET (1..pos) /\ \A r \in Roles, k \in Ranks : weights[r][k] = {}
    BY DEF Init
  <2> QED
    BY <2>1 DEF Init, Common
<1>2. \A v \in Versions : OneSave(v)
  BY DEF Init, OneSave, Whole
<1> QED
  BY <1>1, <1>2 DEF Init, LearnInv, Learned, Own, Fresh, Writing, InFlight

\* Feeding and training leave the disk alone.
LEMMA LearnLoop ==
  ASSUME DiskInv, LearnInv, Feed \/ FeedEnds \/ Train \/ TrainEnds
  PROVE  LearnInv'
<1>1. UNCHANGED <<shards, data, role, rpc, patched, excused>>
  BY DEF Feed, FeedEnds, Train, TrainEnds, diskVars, saveVars, envVars
<1>2. /\ TypeOK /\ pos \in Nat
      /\ \A r \in Roles, k \in Ranks : weights[r][k] \in SUBSET Samples
  BY DEF DiskInv, TypeOK
<1>3. \A v \in Versions : OneSave(v)' <=> OneSave(v)
  BY <1>1 DEF OneSave
<1>4. CASE Feed
  <2>1. /\ pos' = pos + 1 /\ inflight' = inflight \cup {pos + 1}
        /\ UNCHANGED <<pc, weights, version>> /\ pc \notin {"down", "failed"}
    BY <1>4 DEF Feed, Up, trainVars
  <2>2. InFlight'
    BY <1>2, <2>1 DEF LearnInv, InFlight
  <2>3. ASSUME Common PROVE Common'
    <3>1. PICK w \in SUBSET (1..pos) :
            w \cap inflight = {} /\ \A r \in Roles, k \in Ranks : weights[r][k] = w
      BY <2>3 DEF Common
    <3>2. w \in SUBSET (1..(pos + 1)) /\ pos + 1 \notin w
      BY <1>2, <3>1
    <3>3. w \cap inflight' = {}
      BY <2>1, <3>1, <3>2
    <3> QED
      BY <2>1, <3>1, <3>2, <3>3 DEF Common
  <2> QED
    BY <1>1, <1>3, <2>1, <2>2, <2>3 DEF LearnInv, Learned, Own, Fresh, Writing
<1>5. CASE FeedEnds
  BY <1>1, <1>3, <1>5 DEF FeedEnds, LearnInv, Learned, Common, Own, Fresh, Writing,
                          InFlight, trainVars
<1>6. CASE Train
  <2>1. PICK batch \in SUBSET inflight :
          /\ inflight' = inflight \ batch
          /\ weights' = [r \in Roles |-> [k \in Ranks |-> weights[r][k] \cup batch]]
    BY <1>6 DEF Train
  <2>2. pc' = "check" /\ pos' = pos
    BY <1>6 DEF Train
  <2>3. InFlight'
    BY <2>1, <2>2 DEF LearnInv, InFlight
  <2>4. ASSUME Common PROVE Common'
    <3>1. PICK w \in SUBSET (1..pos) :
            w \cap inflight = {} /\ \A r \in Roles, k \in Ranks : weights[r][k] = w
      BY <2>4 DEF Common
    <3>2. w \cup batch \in SUBSET (1..pos)
      BY <3>1 DEF LearnInv, InFlight
    <3>3. (w \cup batch) \cap inflight' = {}
      BY <2>1, <3>1
    <3>4. \A r \in Roles, k \in Ranks : weights'[r][k] = w \cup batch
      BY <2>1, <3>1
    <3> QED
      BY <2>2, <3>2, <3>3, <3>4 DEF Common
  <2> QED
    BY <1>1, <1>3, <2>2, <2>3, <2>4 DEF LearnInv, Learned, Own, Fresh, Writing
<1>7. CASE TrainEnds
  <2>1. pc' = "check" /\ UNCHANGED <<weights, pos, inflight>>
    BY <1>7 DEF TrainEnds, rollVars
  <2> QED
    BY <1>1, <1>3, <2>1 DEF LearnInv, Learned, Common, Own, Fresh, Writing, InFlight
<1> QED
  BY <1>4, <1>5, <1>6, <1>7

\* The start of a save.
LEMMA LearnCheck ==
  ASSUME DiskInv, LearnInv, CheckSave
  PROVE  LearnInv'
<1>1. /\ UNCHANGED <<shards, data, weights, version, pos, inflight, excused>>
      /\ patched \subseteq patched'
      /\ \/ /\ pc' = "save" /\ role' = "actor"
            /\ rpc' = [k \in Ranks |-> "called"]
            /\ HasFiles(version) => version \in patched'
         \/ pc' \in {"train", "done"}
  BY DEF CheckSave, AfterCheck, diskVars, trainVars, rollVars
<1>2. Learned' /\ InFlight'
  BY <1>1 DEF LearnInv, Learned, Common, OneSave, InFlight
<1>3. Own'
  BY <1>1 DEF Own
<1>4. Fresh'
  BY <1>1 DEF Fresh, Writing, HasFiles, Whole
<1> QED
  BY <1>2, <1>3, <1>4 DEF LearnInv

\* Shards of other versions are only removed, those of this version are not compared yet.
LEMMA LearnShard ==
  ASSUME LearnInv, pc = "save",
         NEW v \in Versions, \A u \in Versions \ {v}, r \in Roles, k \in Ranks :
                               shards'[r][u][k] = shards[r][u][k],
         v # version => \A r \in Roles, k \in Ranks :
                          shards'[r][v][k] \in {Absent, shards[r][v][k]},
         UNCHANGED <<data, pc, weights, version, pos, inflight, patched, excused>>
  PROVE  Learned' /\ Fresh' /\ InFlight'
<1>1. Fresh' /\ InFlight'
  BY DEF LearnInv, Fresh, Writing, InFlight
<1>2. ASSUME NEW u \in Versions \ patched, OneSave(u) PROVE OneSave(u)'
  <2>1. CASE u # v
    BY <1>2, <2>1 DEF OneSave
  <2>2. CASE u = v /\ v # version
    BY <1>2, <2>2 DEF OneSave, Whole
  <2>3. CASE u = version
    BY <2>3 DEF OneSave, LearnInv, Fresh, Writing
  <2> QED
    BY <2>1, <2>2, <2>3
<1>3. Learned'
  BY <1>2 DEF LearnInv, Learned, Common
<1> QED
  BY <1>1, <1>3

LEMMA LearnRanks ==
  ASSUME DiskInv, LearnInv, RemoveShard \/ \E k \in Ranks : Rank(k)
  PROVE  LearnInv'
<1>1. /\ pc = "save"
      /\ UNCHANGED <<data, pc, weights, version, role, pos, inflight, patched, excused>>
  BY DEF RemoveShard, Rank, RankReady, OpenShard, CloseShard, diskVars, trainVars, saveVars,
         rollVars, envVars
<1>2. TypeOK /\ role \in Roles /\ version \in Versions
  BY DEF DiskInv, TypeOK
<1>3. CASE RemoveShard
  <2>1. PICK v \in Doomed(role), k \in Ranks :
               shards' = Put(role, v, k, Absent)
    BY <1>3 DEF RemoveShard, Put
  <2>2. v \in Versions /\ Absent \in Files
    BY <1>2, DoomedVersions DEF Files
  <2>3. /\ shards'[role][v][k] = Absent
        /\ \A q \in Roles, u \in Versions, j \in Ranks :
             q # role \/ u # v \/ j # k => shards'[q][u][j] = shards[q][u][j]
    BY <1>2, <2>1, <2>2, OneShard
  <2>4. UNCHANGED rpc
    BY <1>3 DEF RemoveShard, saveVars
  <2>5. v # version
    BY <1>1, <2>1, DoomedBefore
  <2>6. Learned' /\ Fresh' /\ InFlight'
    BY <1>1, <2>2, <2>3, LearnShard
  <2>7. Own'
    BY <1>1, <1>2, <2>3, <2>4, <2>5 DEF LearnInv, Own, Roles
  <2> QED
    BY <2>6, <2>7 DEF LearnInv
<1>4. ASSUME NEW k \in Ranks, RankReady(k) PROVE LearnInv'
  <2>1. UNCHANGED shards /\ rpc' = [rpc EXCEPT ![k] = "ready"]
    BY <1>4 DEF RankReady, diskVars
  <2>2. Learned' /\ Fresh' /\ InFlight'
    BY <1>1, <1>2, <2>1, LearnShard
  <2>3. Own'
    BY <1>1, <1>2, <2>1 DEF LearnInv, Own, TypeOK
  <2> QED
    BY <2>2, <2>3 DEF LearnInv
<1>5. ASSUME NEW k \in Ranks, NEW f \in Files, shards' = Put(role, version, k, f),
             \A j \in Ranks : rpc'[j] = "saved" =>
               (rpc[j] = "saved" /\ j # k) \/ (j = k /\ f = weights[role][k])
      PROVE  LearnInv'
  <2>1. /\ shards'[role][version][k] = f
        /\ \A q \in Roles, u \in Versions, j \in Ranks :
             q # role \/ u # version \/ j # k => shards'[q][u][j] = shards[q][u][j]
    BY <1>2, <1>5, OneShard
  <2>2. Learned' /\ Fresh' /\ InFlight'
    BY <1>1, <1>2, <2>1, LearnShard
  <2>3. Own'
    BY <1>1, <1>2, <1>5, <2>1 DEF LearnInv, Own, Roles
  <2> QED
    BY <2>2, <2>3 DEF LearnInv
<1>6. ASSUME NEW k \in Ranks, OpenShard(k) PROVE LearnInv'
  <2>1. shards' = Put(role, version, k, Torn) /\ rpc' = [rpc EXCEPT ![k] = "open"]
    BY <1>6 DEF OpenShard, Put
  <2>2. Torn \in Files
    BY DEF Files
  <2>3. \A j \in Ranks : rpc'[j] = "saved" => rpc[j] = "saved" /\ j # k
    BY <1>2, <2>1 DEF TypeOK
  <2> QED
    BY <1>5, <2>1, <2>2, <2>3
<1>7. ASSUME NEW k \in Ranks, CloseShard(k) PROVE LearnInv'
  <2>1. /\ shards' = Put(role, version, k, weights[role][k])
        /\ rpc' = [rpc EXCEPT ![k] = "saved"]
    BY <1>7 DEF CloseShard, Put
  <2>2. weights[role][k] \in Files
    BY <1>2 DEF TypeOK, Files
  <2>3. \A j \in Ranks : rpc'[j] = "saved" => rpc[j] = "saved" \/ j = k
    BY <1>2, <2>1 DEF TypeOK
  <2> QED
    BY <1>5, <2>1, <2>2, <2>3
<1> QED
  BY <1>3, <1>4, <1>6, <1>7 DEF Rank

\* The save goes on and ends.
LEMMA LearnSaved ==
  ASSUME DiskInv, LearnInv,
         RoleSaved \/ OpenData \/ CloseData \/ OpenTracker \/ WriteTracker
  PROVE  LearnInv'
<1>1. /\ UNCHANGED <<shards, weights, version, pos, inflight, excused>>
      /\ TypeOK /\ version \in Versions /\ role \in Roles
  BY DEF RoleSaved, OpenData, CloseData, CloseDataAt, OpenTracker, WriteTracker, diskVars,
         trainVars, rollVars, envVars, DiskInv, TypeOK
<1>2. CASE RoleSaved
  <2>1. /\ pc = "save" /\ UNCHANGED <<data, patched>> /\ \A k \in Ranks : rpc[k] = "saved"
        /\ \/ /\ pc' = "save" /\ role = "actor" /\ role' = "critic"
              /\ rpc' = [k \in Ranks |-> "called"]
           \/ /\ pc' = "data" /\ (role = "critic" \/ ~UseCritic)
    BY <1>1, <1>2 DEF RoleSaved, diskVars, envVars, Roles
  <2>2. \A k \in Ranks : shards[role][version][k] = weights[role][k]
    BY <2>1 DEF LearnInv, Own
  <2>3. Own'
    BY <1>1, <2>1, <2>2 DEF LearnInv, Own, Roles
  <2> QED
    BY <1>1, <2>1, <2>3 DEF LearnInv, Learned, Common, OneSave, Fresh, Writing, InFlight
<1>3. CASE OpenData
  <2>1. /\ pc = "data" /\ pc' = "dataopen" /\ UNCHANGED patched
        /\ data'[version] = Torn
        /\ \A v \in Versions : v # version => data'[v] = data[v]
    BY <1>1, <1>3 DEF OpenData, TypeOK, envVars
  <2>2. Own' /\ Fresh' /\ InFlight'
    BY <1>1, <2>1 DEF LearnInv, Own, Fresh, InFlight, Whole
  <2>3. ASSUME NEW v \in Versions, OneSave(v) PROVE OneSave(v)'
    BY <1>1, <2>1, <2>3 DEF OneSave, Whole
  <2> QED
    BY <1>1, <2>1, <2>2, <2>3 DEF LearnInv, Learned, Common
<1>4. CASE CloseData
  <2>1. /\ pc = "dataopen" /\ pc' = "track" /\ patched' = patched \ {version}
        /\ data'[version] = pos
        /\ \A v \in Versions : v # version => data'[v] = data[v]
    BY <1>1, <1>4 DEF CloseData, CloseDataAt, TypeOK
  <2>2. Own' /\ Fresh' /\ InFlight'
    BY <1>1, <2>1 DEF LearnInv, Own, Fresh, Writing, InFlight
  <2>3. ASSUME Common PROVE OneSave(version)'
    <3>1. PICK w \in SUBSET (1..pos) : \A r \in Roles, k \in Ranks : weights[r][k] = w
      BY <2>3 DEF Common
    <3>2. \A r \in Roles, k \in Ranks : shards[r][version][k] = w
      BY <2>1, <3>1 DEF LearnInv, Own
    <3> QED
      BY <1>1, <2>1, <3>2 DEF OneSave
  <2>4. ASSUME NEW v \in Versions \ {version}, OneSave(v) PROVE OneSave(v)'
    BY <1>1, <2>1, <2>4 DEF OneSave
  <2>5. Learned'
    BY <1>1, <2>1, <2>3, <2>4 DEF LearnInv, Learned, Common
  <2> QED
    BY <2>2, <2>5 DEF LearnInv
<1>5. CASE OpenTracker \/ WriteTracker
  <2>1. UNCHANGED <<data, patched>> /\ pc' \in {"trackopen", "train", "done"}
    BY <1>5 DEF OpenTracker, WriteTracker, AfterCheck, envVars
  <2> QED
    BY <1>1, <2>1 DEF LearnInv, Learned, Common, OneSave, Own, Fresh, Writing, InFlight
<1> QED
  BY <1>2, <1>3, <1>4, <1>5

\* A restart from an unmarked version takes over what it had learned, and its position.
LEMMA LearnRestart ==
  ASSUME DiskInv, LearnInv, Crash \/ Restart
  PROVE  LearnInv'
<1>1. UNCHANGED <<shards, data, patched>>
  BY DEF Crash, Restart, FromScratch, LoadFails, Load, LoadFrom, diskVars, envVars
<1>2. \A v \in Versions : OneSave(v)' <=> OneSave(v)
  BY <1>1 DEF OneSave
<1>3. CASE Crash
  <2>1. /\ pc' = "down" /\ pos' = 0 /\ inflight' = {} /\ UNCHANGED excused
        /\ \A r \in Roles, k \in Ranks : weights'[r][k] = {}
    BY <1>3 DEF Crash
  <2>2. Common'
    BY <2>1 DEF Common
  <2> QED
    BY <1>1, <1>2, <2>1, <2>2 DEF LearnInv, Learned, Own, Fresh, Writing, InFlight
<1>4. ASSUME FromScratch \/ LoadFails, pc \in {"down", "failed"} PROVE LearnInv'
  <2>1. /\ pc' \in {"train", "failed"}
        /\ UNCHANGED <<weights, pos, inflight, excused>>
    BY <1>4 DEF FromScratch, LoadFails, trainVars, rollVars, envVars
  <2>2. Learned'
    BY <1>1, <1>2, <2>1 DEF LearnInv, Learned, Common
  <2>3. Own' /\ Fresh'
    BY <2>1 DEF Own, Fresh, Writing
  <2>4. InFlight'
    BY <1>4, <2>1 DEF LearnInv, InFlight
  <2> QED
    BY <2>2, <2>3, <2>4 DEF LearnInv
<1>5. ASSUME NEW v \in Versions, Loadable(v), LoadFrom(v), Restart PROVE LearnInv'
  <2>1. /\ pc \in {"down", "failed"} /\ pc' = "train" /\ UNCHANGED inflight
        /\ \A r \in Roles, k \in Ranks : weights'[r][k] = shards[r][v][k]
    BY <1>5 DEF Restart, LoadFrom
  <2>2. inflight = {}
    BY <2>1 DEF LearnInv, InFlight
  <2>3. ASSUME ~excused' PROVE Common'
    <3>1. ~excused /\ v \notin patched /\ data[v] # Absent /\ pos' = data[v]
      BY <1>5, <2>3 DEF LoadFrom
    <3>2. Whole(data[v]) /\ \A r \in Roles, k \in Ranks : Whole(shards[r][v][k])
      BY <1>5, <3>1 DEF Loadable, Whole
    <3>3. PICK w \in SUBSET (1..data[v]) :
            \A r \in Roles, k \in Ranks : Whole(shards[r][v][k]) => shards[r][v][k] = w
      BY <3>1, <3>2 DEF LearnInv, Learned, OneSave
    <3>4. \A r \in Roles, k \in Ranks : weights'[r][k] = w
      BY <2>1, <3>2, <3>3
    <3>5. w \in SUBSET (1..pos') /\ w \cap inflight' = {}
      BY <2>1, <2>2, <3>1
    <3> QED
      BY <3>4, <3>5 DEF Common
  <2>4. ~excused' => ~excused
    BY <1>5 DEF LoadFrom
  <2> QED
    BY <1>1, <1>2, <2>1, <2>2, <2>3, <2>4
       DEF LearnInv, Learned, Own, Fresh, Writing, InFlight
<1>6. CASE Restart
  <2>1. \/ FromScratch \/ LoadFails
        \/ \E v \in Versions : Loadable(v) /\ LoadFrom(v)
    <3>1. tracker # Torn /\ tracker # Absent => tracker \in Versions
      BY DEF DiskInv, TypeOK
    <3> QED
      BY <1>6, <3>1 DEF Restart, Load
  <2>2. pc \in {"down", "failed"}
    BY <1>6 DEF Restart
  <2> QED
    BY <1>4, <1>5, <1>6, <2>1, <2>2
<1> QED
  BY <1>3, <1>6

LEMMA LearnStep == DiskInv /\ LearnInv /\ [Next]_vars => LearnInv'
<1> SUFFICES ASSUME DiskInv, LearnInv, [Next]_vars PROVE LearnInv'
  OBVIOUS
<1>1. CASE UNCHANGED vars
  BY <1>1 DEF LearnInv, Learned, Common, OneSave, Own, Fresh, Writing, InFlight, vars,
              diskVars, trainVars, saveVars, rollVars, envVars
<1> QED
  BY <1>1, LearnLoop, LearnCheck, LearnRanks, LearnSaved, LearnRestart
     DEF Next, Saving, Done

\* No sample is trained on twice, whatever crashes and restarts there were: the position
\* saved after the shards is never behind what they have learned.
THEOREM TrainedOnce == Spec => []NoneTwice
<1>1. LearnInv => NoneTwice
  BY DEF LearnInv, Learned, Common, NoneTwice
<1> QED
  BY <1>1, DiskInit, DiskStep, LearnInit, LearnStep, PTL DEF Spec

\* The shards that the tracker names are those of one save.
THEOREM TrackerNamesOneSave == Spec => []TrackedUniform
<1>1. DiskInv /\ LearnInv => TrackedUniform
  <2> SUFFICES ASSUME DiskInv, LearnInv, tracker \in Versions \ patched, ~excused
               PROVE  \E w \in SUBSET Samples :
                        \A r \in Protected, k \in Ranks : shards[r][tracker][k] = w
    BY DEF TrackedUniform
  <2>1. /\ Whole(data[tracker])
        /\ \A r \in Protected, k \in Ranks : Whole(shards[r][tracker][k])
    BY DEF DiskInv, TrackedComplete
  <2>2. PICK w \in SUBSET (1..data[tracker]) :
          \A r \in Roles, k \in Ranks :
            Whole(shards[r][tracker][k]) => shards[r][tracker][k] = w
    BY <2>1 DEF LearnInv, Learned, OneSave
  <2>3. w \in SUBSET Samples
    <3>1. data[tracker] \in 0..Items
      BY <2>1 DEF DiskInv, TypeOK, Whole
    <3> QED
      BY <2>2, <3>1, Sizes DEF Samples
  <2> QED
    BY <2>1, <2>2, <2>3 DEF Protected
<1> QED
  BY <1>1, DiskInit, DiskStep, LearnInit, LearnStep, PTL DEF Spec
-------------------------------------------------------------------------------
(***************************************************************************)
(* What crashes cost.  Each run of the job adds its share, once: the       *)
(* samples in flight when the last checkpoint was made, and the training   *)
(* steps of the round it was made in.  The share is added to a file, when  *)
(* it is saved; a restart takes over what the file has.                    *)
(***************************************************************************)
\* What rank 0 has learned; the others are as it is (Common).
Learnt == weights["actor"][First]

\* Training steps the counters of the trainer claim.
Claimed == version * Trigger + lts - 1

\* Runs of the job so far, the one under way included.
Runs == IF pc \in {"down", "failed"} THEN crashes ELSE crashes + 1

\* A shard w saved with position p as version v, by the n-th run or before.
KeptFile(w, p, v, n) ==
  /\ Cardinality((1..p) \ w) <= Ahead * n
  /\ Cardinality(w) = Required * StepsOf(w)
  /\ StepsOf(w) <= v * Trigger + (Trigger - 1) * n
  /\ v * Trigger <= StepsOf(w) + Trigger * n

Kept(v) ==
  Whole(data[v]) =>
    \A r \in Roles, k \in Ranks :
      Whole(shards[r][v][k]) => KeptFile(shards[r][v][k], data[v], v, Runs)

\* The weights, after the crashes there were.
InStep ==
  /\ Cardinality((1..pos) \ (Learnt \cup inflight)) <= Ahead * crashes
  /\ Cardinality(Learnt) = Required * StepsOf(Learnt)
  /\ StepsOf(Learnt) <= Claimed + (Trigger - 1) * crashes
  /\ Claimed <= StepsOf(Learnt) + Trigger * (IF ending THEN crashes + 1 ELSE crashes)

\* A run starts with the counters of a round's beginning and nothing in flight.
Started ==
  /\ Cardinality(inflight) <= Ahead
  /\ pc \in {"down", "failed"} => lts = 1 /\ ~ending
  /\ pc = "train" => ~ending

Costs == ~excused => InStep /\ \A v \in Versions \ patched : Kept(v)

LossInv == Started /\ Costs

\* Shares of n runs and of one more.
LEMMA Shares ==
  /\ Ahead \in Nat \ {0} /\ Trigger - 1 \in Nat
  /\ \A n \in Nat : /\ Ahead * n \in Nat /\ Ahead * (n + 1) = Ahead * n + Ahead
                    /\ Trigger * n \in Nat /\ Trigger * (n + 1) = Trigger * n + Trigger
                    /\ (Trigger - 1) * n \in Nat
                    /\ (Trigger - 1) * (n + 1) = (Trigger - 1) * n + (Trigger - 1)
                    /\ n * Trigger \in Nat /\ (n + 1) * Trigger = n * Trigger + Trigger
<1>1. Ahead \in Nat \ {0} /\ Trigger \in Nat \ {0}
  BY CheckpointAssumption
<1>2. \A a, n \in Nat : /\ a * n \in Nat /\ a * (n + 1) = a * n + a
                        /\ (n + 1) * a = n * a + a
  OBVIOUS
<1>3. Trigger - 1 \in Nat
  BY <1>1
<1> QED
  BY <1>1, <1>2, <1>3

\* Sets of samples are finite.
LEMMA Counted ==
  ASSUME NEW p \in 0..Items, NEW s, s \subseteq 1..p
  PROVE  IsFiniteSet(s) /\ Cardinality(s) \in Nat /\ Cardinality(s) <= p
<1>1. p \in Nat
  BY Sizes
<1>2. IsFiniteSet(1..p) /\ Cardinality(1..p) = p
  BY <1>1, FS_Interval
<1>3. IsFiniteSet(s) /\ Cardinality(s) <= Cardinality(1..p)
  BY <1>2, FS_Subset
<1> QED
  BY <1>2, <1>3, FS_CardinalityType

\* The quotient of a product.
LEMMA DivOf ==
  ASSUME NEW p \in Nat, p >= 1, NEW n \in Nat, NEW m \in Nat, m = p * n
  PROVE  m \div p = n
<1> DEFINE d == m \div p  r == m % p
<1>1. d \in Int /\ r \in Int /\ m = p * d + r /\ 0 <= r /\ r < p
  OBVIOUS
<1> HIDE DEF d, r
<1>2. \A a, b \in Int : a >= b => p * a >= p * b
  OBVIOUS
<1>3. p * (d + 1) = p * d + p /\ p * (n + 1) = p * n + p /\ p * d \in Int /\ p * n \in Int
  BY <1>1
<1>4. ~(d >= n + 1)
  <2> SUFFICES ASSUME d >= n + 1 PROVE FALSE
    OBVIOUS
  <2>1. p * d >= p * (n + 1)
    BY <1>1, <1>2
  <2> QED
    BY <1>1, <1>3, <2>1
<1>5. ~(n >= d + 1)
  <2> SUFFICES ASSUME n >= d + 1 PROVE FALSE
    OBVIOUS
  <2>1. p * n >= p * (d + 1)
    BY <1>1, <1>2
  <2> QED
    BY <1>1, <1>3, <2>1
<1>6. d = n
  BY <1>1, <1>4, <1>5
<1> QED
  BY <1>6 DEF d

\* As many samples as n training steps take.
LEMMA StepsAre ==
  ASSUME NEW w, NEW n \in Nat, Cardinality(w) = Required * n
  PROVE  StepsOf(w) = n
<1>1. Required \in Nat /\ Required >= 1
  BY Sizes
<1>2. \A b, c \in Nat : b * c \in Nat
  OBVIOUS
<1> QED
  BY <1>1, <1>2, DivOf DEF StepsOf

\* One training step more.
LEMMA OneStepMore ==
  ASSUME NEW w, NEW b, IsFiniteSet(w), IsFiniteSet(b), w \cap b = {},
         Cardinality(b) = Required, StepsOf(w) \in Nat,
         Cardinality(w) = Required * StepsOf(w)
  PROVE  /\ StepsOf(w \cup b) = StepsOf(w) + 1
         /\ Cardinality(w \cup b) = Required * StepsOf(w \cup b)
<1> DEFINE n == StepsOf(w)
<1>1. Required \in Nat \ {0} /\ n \in Nat
  BY Sizes
<1>2. Cardinality(w \cup b) = Cardinality(w) + Cardinality(b)
  <2>1. Cardinality(w \cup b) = Cardinality(w) + Cardinality(b) - Cardinality(w \cap b)
    BY FS_Union
  <2>2. Cardinality(w) \in Nat /\ Cardinality(b) \in Nat /\ Cardinality(w \cap b) = 0
    BY FS_CardinalityType, FS_EmptySet
  <2> QED
    BY <2>1, <2>2
<1>3. \A x, y \in Nat : x * (y + 1) = x * y + x
  OBVIOUS
<1>4. Cardinality(w \cup b) = Required * (n + 1) /\ n + 1 \in Nat
  BY <1>1, <1>2, <1>3
<1>5. StepsOf(w \cup b) = n + 1
  BY <1>4, StepsAre
<1> QED
  BY <1>4, <1>5

\* The shares only grow with the runs.
LEMMA KeptLonger ==
  ASSUME NEW w, NEW p \in 0..Items, NEW v \in Nat, NEW n \in Nat, w \subseteq 1..p,
         KeptFile(w, p, v, n)
  PROVE  KeptFile(w, p, v, n + 1)
<1>1. /\ Cardinality((1..p) \ w) \in Nat /\ Cardinality(w) \in Nat
  BY Counted
<1>2. StepsOf(w) \in Nat
  BY <1>1, Sizes DEF StepsOf
<1>3. Trigger \in Nat \ {0}
  BY Sizes
<1> DEFINE c == Cardinality((1..p) \ w)  s == StepsOf(w)  t == Trigger - 1
           l == v * Trigger
           A == Ahead * n  B == t * n  D == Trigger * n
           A1 == Ahead * (n + 1)  B1 == t * (n + 1)  D1 == Trigger * (n + 1)
<1>4. /\ c \in Nat /\ s \in Nat /\ l \in Nat /\ A \in Nat /\ B \in Nat /\ D \in Nat
      /\ A <= A1 /\ B <= B1 /\ D <= D1 /\ A1 \in Nat /\ B1 \in Nat /\ D1 \in Nat
  <2>1. A1 = A + Ahead /\ B1 = B + t /\ D1 = D + Trigger
    BY Shares
  <2>2. Ahead \in Nat /\ t \in Nat /\ A \in Nat /\ B \in Nat /\ D \in Nat /\ l \in Nat
    BY Shares
  <2> HIDE DEF A, B, D, A1, B1, D1, t
  <2> QED
    BY <1>1, <1>2, <1>3, <2>1, <2>2
<1>5. c <= A /\ s <= l + B /\ l <= s + D
  BY DEF KeptFile
<1> HIDE DEF c, s, l, A, B, D, A1, B1, D1
<1>6. c <= A1 /\ s <= l + B1 /\ l <= s + D1
  BY <1>4, <1>5
<1> QED
  BY <1>6 DEF KeptFile, c, s, l, A1, B1, D1

LEMMA LearntIs ==
  ASSUME TypeOK, Common
  PROVE  /\ Learnt \subseteq 1..pos /\ Learnt \cap inflight = {}
         /\ \A r \in Roles, k \in Ranks : weights[r][k] = Learnt
<1>1. "actor" \in Roles /\ First \in Ranks
  BY CheckpointAssumption DEF Roles
<1>2. PICK w \in SUBSET (1..pos) :
        w \cap inflight = {} /\ \A r \in Roles, k \in Ranks : weights[r][k] = w
  BY DEF Common
<1>3. Learnt = w
  BY <1>1, <1>2 DEF Learnt
<1> QED
  BY <1>2, <1>3

LEMMA Numbers ==
  ASSUME TypeOK
  PROVE  /\ pos \in Nat /\ pos \in 0..Items /\ crashes \in Nat /\ version \in Nat
         /\ lts \in Nat /\ lts >= 1 /\ lts <= Trigger /\ Trigger \in Nat
         /\ version * Trigger \in Nat /\ Claimed \in Nat
<1>1. /\ pos \in Nat /\ pos \in 0..Items /\ crashes \in Nat /\ version \in Nat
      /\ lts \in Nat /\ lts >= 1 /\ lts <= Trigger /\ Trigger \in Nat
  BY Sizes DEF TypeOK, Versions
<1>2. version * Trigger \in Nat
  BY <1>1, Shares
<1>3. Claimed \in Nat
  BY <1>1, <1>2 DEF Claimed
<1> QED
  BY <1>1, <1>2, <1>3

LEMMA LossInit == Init => LossInv
<1> SUFFICES ASSUME Init PROVE LossInv
  OBVIOUS
<1>1. /\ "actor" \in Roles /\ First \in Ranks
      /\ Required \in Nat /\ Trigger \in Nat
  BY CheckpointAssumption DEF Roles
<1>2. Learnt = {} /\ inflight = {} /\ pos = 0 /\ pc = "train" /\ ending = FALSE
      /\ Claimed = 0 /\ crashes = 0
  BY <1>1 DEF Init, Learnt, Claimed
<1>3. Cardinality({}) = 0 /\ (1..pos) \ (Learnt \cup inflight) = {}
  BY <1>2, FS_EmptySet
<1>4. Required * 0 = 0 /\ Ahead * 0 = 0 /\ Trigger * 0 = 0 /\ (Trigger - 1) * 0 = 0
      /\ Ahead \in Nat
  BY <1>1, Shares
<1>5. StepsOf({}) = 0
  BY <1>3, <1>4, StepsAre
<1>6. InStep
  BY <1>2, <1>3, <1>4, <1>5 DEF InStep
<1>7. \A v \in Versions : Kept(v)
  BY DEF Init, Kept, Whole
<1> QED
  BY <1>2, <1>3, <1>4, <1>6, <1>7 DEF LossInv, Started, Costs

\* A sample that is fed is in flight; one that is trained on is learned.
LEMMA LossLoop ==
  ASSUME DiskInv, LearnInv, LossInv, Feed \/ FeedEnds \/ Train \/ TrainEnds
  PROVE  LossInv'
<1>1. /\ UNCHANGED <<shards, data, patched, excused, crashes>> /\ Runs' = Runs
      /\ pc' \in {pc, "check"} /\ pc \notin {"down", "failed"}
  BY DEF Feed, FeedEnds, Train, TrainEnds, Up, diskVars, envVars, Runs
<1>2. /\ TypeOK /\ TypeOK'
      /\ ~excused => Common
  BY TypeLoop DEF DiskInv, LearnInv, Learned
<1>3. \A v \in Versions : Kept(v) => Kept(v)'
  BY <1>1 DEF Kept
<1>4. inflight \subseteq 1..pos /\ IsFiniteSet(inflight) /\ Cardinality(inflight) \in Nat
  BY <1>2, Counted, Numbers DEF LearnInv, InFlight
<1>5. \A n \in Nat : Trigger * n \in Nat /\ (Trigger - 1) * n \in Nat
  BY Shares
<1>6. CASE Feed
  <2>1. /\ pos' = pos + 1 /\ inflight' = inflight \cup {pos + 1}
        /\ UNCHANGED <<pc, weights, version, lts, ending>> /\ Cardinality(inflight) < Ahead
    BY <1>6 DEF Feed, trainVars
  <2>2. Cardinality(inflight') <= Ahead
    <3>1. Cardinality(inflight') = Cardinality(inflight)
          \/ Cardinality(inflight') = Cardinality(inflight) + 1
      BY <1>4, <2>1, FS_AddElement
    <3> QED
      <4>1. Ahead \in Nat
        BY Shares
      <4>2. \A a, b \in Nat : a < b => a <= b /\ a + 1 <= b
        OBVIOUS
      <4> QED
        BY <1>4, <2>1, <3>1, <4>1, <4>2
  <2>3. ASSUME ~excused PROVE (1..pos') \ (Learnt \cup inflight)' = (1..pos) \ (Learnt \cup inflight)
    <3>1. 1..pos' = (1..pos) \cup {pos + 1} /\ Learnt' = Learnt
      <4>1. \A p \in Nat : 1..(p + 1) = (1..p) \cup {p + 1}
        OBVIOUS
      <4> QED
        BY <1>2, <2>1, <4>1, Numbers DEF Learnt
    <3>2. pos + 1 \notin 1..pos
      BY <1>2, Numbers
    <3> QED
      BY <2>1, <3>1, <3>2
  <2>4. InStep /\ ~excused => InStep'
    BY <1>1, <2>1, <2>3 DEF InStep, Learnt, Claimed
  <2> QED
    BY <1>1, <1>3, <2>1, <2>2, <2>4 DEF LossInv, Started, Costs
<1>7. CASE FeedEnds
  BY <1>1, <1>3, <1>7 DEF FeedEnds, LossInv, Started, Costs, InStep, Learnt, Claimed, trainVars
<1>8. CASE Train
  <2>1. PICK batch \in SUBSET inflight :
          /\ Cardinality(batch) = Required
          /\ inflight' = inflight \ batch
          /\ weights' = [r \in Roles |-> [k \in Ranks |-> weights[r][k] \cup batch]]
    BY <1>8 DEF Train
  <2>2. pc' = "check" /\ pos' = pos /\ UNCHANGED ending /\ ~ending
    BY <1>8 DEF Train, LossInv, Started
  <2>3. Cardinality(inflight') <= Ahead
    <3>1. Cardinality(inflight') \in Nat /\ Cardinality(inflight') <= Cardinality(inflight)
      BY <1>4, <2>1, FS_Subset, FS_CardinalityType
    <3> QED
      BY <1>4, <3>1, Shares DEF LossInv, Started
  <2>4. Claimed' = Claimed + 1
    <3>1. CASE lts < Trigger
      BY <1>2, <1>8, <3>1, Numbers DEF Train, Claimed
    <3>2. CASE ~(lts < Trigger)
      <4>1. lts = Trigger /\ lts' = 1 /\ version' = version + 1
        BY <1>2, <1>8, <3>2, Numbers DEF Train
      <4>2. version' * Trigger = version * Trigger + Trigger
        BY <1>2, <4>1, Numbers, Shares
      <4> QED
        BY <1>2, <4>1, <4>2, Numbers DEF Claimed
    <3> QED
      BY <3>1, <3>2
  <2>5. ASSUME ~excused, InStep PROVE InStep'
    <3>1. Learnt \subseteq 1..pos /\ Learnt \cap inflight = {}
      BY <1>2, <2>5, LearntIs
    <3>2. Learnt' = Learnt \cup batch
      BY <2>1, CheckpointAssumption DEF Learnt, Roles
    <3>3. (1..pos') \ (Learnt \cup inflight)' = (1..pos) \ (Learnt \cup inflight)
      BY <2>1, <2>2, <3>2
    <3>4. IsFiniteSet(Learnt) /\ Cardinality(Learnt) \in Nat
      BY <1>2, <3>1, Numbers, Counted
    <3>5. IsFiniteSet(batch) /\ Learnt \cap batch = {}
      BY <1>4, <2>1, <3>1, FS_Subset
    <3>6. StepsOf(Learnt) \in Nat
      BY <3>4, Sizes DEF StepsOf
    <3>7. /\ StepsOf(Learnt') = StepsOf(Learnt) + 1
          /\ Cardinality(Learnt') = Required * StepsOf(Learnt')
      BY <2>1, <2>5, <3>2, <3>4, <3>5, <3>6, OneStepMore DEF InStep
    <3>8. /\ StepsOf(Learnt) <= Claimed + (Trigger - 1) * crashes
          /\ Claimed <= StepsOf(Learnt) + Trigger * crashes
      BY <2>2, <2>5 DEF InStep
    <3>9. /\ StepsOf(Learnt') <= Claimed' + (Trigger - 1) * crashes
          /\ Claimed' <= StepsOf(Learnt') + Trigger * crashes
      <4> DEFINE a == StepsOf(Learnt)  b == Claimed
                 x == (Trigger - 1) * crashes  y == Trigger * crashes
      <4>1. a \in Nat /\ b \in Nat /\ x \in Nat /\ y \in Nat
        BY <1>2, <1>5, <3>6, Numbers
      <4>2. a <= b + x /\ b <= a + y
        BY <3>8
      <4>3. StepsOf(Learnt') = a + 1 /\ Claimed' = b + 1
        BY <2>4, <3>7
      <4> HIDE DEF a, b, x, y
      <4>4. a + 1 <= b + 1 + x /\ b + 1 <= a + 1 + y
        BY <4>1, <4>2
      <4> QED
        BY <4>3, <4>4 DEF x, y
    <3> QED
      BY <1>1, <2>2, <2>5, <3>3, <3>7, <3>9 DEF InStep
  <2> QED
    BY <1>1, <1>3, <2>2, <2>3, <2>5 DEF LossInv, Started, Costs
<1>9. CASE TrainEnds
  <2>1. pc' = "check" /\ ~ending /\ ending' = TRUE /\ UNCHANGED <<weights, pos, inflight>>
    BY <1>9 DEF TrainEnds, rollVars, LossInv, Started
  <2>2. Claimed <= Claimed' /\ Claimed' <= Claimed + Trigger
    <3>1. CASE UNCHANGED <<lts, version>>
      BY <1>2, <3>1, Numbers DEF Claimed
    <3>2. CASE lts' = 1 /\ version' = version + 1
      <4>2. version' * Trigger = version * Trigger + Trigger
        BY <1>2, <3>2, Numbers, Shares
      <4> QED
        BY <1>2, <3>2, <4>2, Numbers DEF Claimed
    <3> QED
      BY <1>9, <3>1, <3>2 DEF TrainEnds
  <2>3. ASSUME ~excused, InStep PROVE InStep'
    <3>1. Learnt' = Learnt
      BY <2>1 DEF Learnt
    <3>2. Learnt \subseteq 1..pos
      BY <1>2, <2>3, LearntIs
    <3>3. StepsOf(Learnt) \in Nat
      <4>1. Cardinality(Learnt) \in Nat
        BY <1>2, <3>2, Numbers, Counted
      <4> QED
        BY <4>1, Sizes DEF StepsOf
    <3>4. /\ StepsOf(Learnt) <= Claimed + (Trigger - 1) * crashes
          /\ Claimed <= StepsOf(Learnt) + Trigger * crashes
      BY <2>1, <2>3 DEF InStep
    <3>5. /\ StepsOf(Learnt) <= Claimed' + (Trigger - 1) * crashes
          /\ Claimed' <= StepsOf(Learnt) + Trigger * (crashes + 1)
      <4> DEFINE a == StepsOf(Learnt)  b == Claimed  c == Claimed'
                 x == (Trigger - 1) * crashes  y == Trigger * crashes
                 z == Trigger * (crashes + 1)
      <4>0. Claimed' \in Nat
        <5>1. version' \in Nat /\ lts' \in Nat /\ lts' >= 1 /\ Trigger \in Nat
          BY <1>2, Sizes DEF TypeOK, Versions
        <5>2. version' * Trigger \in Nat
          BY <5>1, Shares
        <5> QED
          <6>1. \A m, l \in Nat : l >= 1 => m + l - 1 \in Nat
            OBVIOUS
          <6> QED
            BY <5>1, <5>2, <6>1 DEF Claimed
      <4>1. a \in Nat /\ b \in Nat /\ c \in Nat /\ x \in Nat /\ y \in Nat /\ z = y + Trigger
            /\ Trigger \in Nat
        BY <1>2, <1>5, <3>3, <4>0, Numbers, Shares
      <4>2. a <= b + x /\ b <= a + y /\ b <= c /\ c <= b + Trigger
        BY <2>2, <3>4
      <4> HIDE DEF a, b, c, x, y, z
      <4>3. a <= c + x /\ c <= a + z
        BY <4>1, <4>2
      <4> QED
        BY <4>3 DEF a, c, x, z
    <3>6. /\ Cardinality((1..pos) \ (Learnt \cup inflight)) <= Ahead * crashes
          /\ Cardinality(Learnt) = Required * StepsOf(Learnt)
      BY <2>3 DEF InStep
    <3> QED
      BY <1>1, <2>1, <3>1, <3>5, <3>6 DEF InStep
  <2> QED
    BY <1>1, <1>3, <2>1, <2>3 DEF LossInv, Started, Costs
<1> QED
  BY <1>6, <1>7, <1>8, <1>9

\* The weights, the position and what is in flight stay; so do whole files, and Runs.
LEMMA LossKeeps ==
  ASSUME LossInv, UNCHANGED <<weights, version, lts, ending, pos, inflight, crashes, excused>>,
         pc \notin {"down", "failed"}, pc' \notin {"down", "failed"},
         pc' = "train" => ~ending,
         \A v \in Versions \ patched' :
           \/ v \in Versions \ patched /\ (Kept(v) => Kept(v)')
           \/ ~excused => Kept(v)'
  PROVE  LossInv'
<1>1. Started'
  BY DEF LossInv, Started
<1>2. ~excused => InStep'
  BY DEF LossInv, Costs, InStep, Learnt, Claimed
<1> QED
  BY <1>1, <1>2 DEF LossInv, Costs

LEMMA LossCheck ==
  ASSUME DiskInv, LossInv, CheckSave
  PROVE  LossInv'
<1>1. /\ UNCHANGED <<shards, data, weights, version, lts, ending, pos, inflight, crashes,
                     excused>>
      /\ pc = "check" /\ patched \subseteq patched'
      /\ pc' \in {"save", "train", "done"} /\ (pc' = "train" => ~ending)
  BY DEF CheckSave, AfterCheck, diskVars, trainVars, rollVars
<1>2. Runs' = Runs
  BY <1>1 DEF Runs
<1>3. \A v \in Versions : Kept(v) => Kept(v)'
  BY <1>1, <1>2 DEF Kept
<1> QED
  BY <1>1, <1>3, LossKeeps

\* Shards are written for a version without data.pt, or one that is marked.
LEMMA LossRanks ==
  ASSUME DiskInv, LearnInv, LossInv, RemoveShard \/ \E k \in Ranks : Rank(k)
  PROVE  LossInv'
<1>1. /\ pc = "save" /\ pc' = "save"
      /\ UNCHANGED <<data, weights, version, lts, ending, role, pos, inflight, crashes, patched,
                     excused>>
  BY DEF RemoveShard, Rank, RankReady, OpenShard, CloseShard, diskVars, trainVars, saveVars,
         rollVars, envVars
<1>2. TypeOK /\ role \in Roles /\ version \in Versions
  BY DEF DiskInv, TypeOK
<1>3. Runs' = Runs
  BY <1>1 DEF Runs
<1>4. ASSUME NEW v \in Versions \ patched,
             \A r \in Roles, k \in Ranks :
               \/ shards'[r][v][k] \in {Absent, shards[r][v][k]}
               \/ v = version
      PROVE  Kept(v) => Kept(v)'
  <2>1. CASE v = version
    <3>1. ~Whole(data[v])
      BY <1>1, <1>4, <2>1 DEF LearnInv, Fresh, Writing
    <3> QED
      BY <1>1, <3>1 DEF Kept
  <2>2. CASE v # version
    BY <1>1, <1>3, <1>4, <2>2 DEF Kept, Whole
  <2> QED
    BY <2>1, <2>2
<1>5. ASSUME NEW v \in Versions, NEW k \in Ranks, NEW f \in Files,
             shards' = Put(role, v, k, f), v = version \/ f = Absent
      PROVE  LossInv'
  <2>1. /\ shards'[role][v][k] = f
        /\ \A q \in Roles, u \in Versions, j \in Ranks :
             q # role \/ u # v \/ j # k => shards'[q][u][j] = shards[q][u][j]
    BY <1>2, <1>5, OneShard
  <2>2. \A u \in Versions \ patched : Kept(u) => Kept(u)'
    BY <1>4, <1>5, <2>1
  <2> QED
    BY <1>1, <2>2, LossKeeps
<1>6. CASE RemoveShard
  <2>1. PICK v \in Doomed(role), k \in Ranks : shards' = Put(role, v, k, Absent)
    BY <1>6 DEF RemoveShard, Put
  <2>2. v \in Versions /\ Absent \in Files
    BY <1>2, DoomedVersions DEF Files
  <2> QED
    BY <1>5, <2>1, <2>2
<1>7. ASSUME NEW k \in Ranks, RankReady(k) PROVE LossInv'
  <2>1. UNCHANGED shards
    BY <1>7 DEF RankReady, diskVars
  <2>2. \A u \in Versions \ patched : Kept(u) => Kept(u)'
    BY <1>4, <2>1
  <2> QED
    BY <1>1, <2>2, LossKeeps
<1>8. ASSUME NEW k \in Ranks, OpenShard(k) \/ CloseShard(k) PROVE LossInv'
  <2>1. weights[role][k] \in Files /\ Torn \in Files
    BY <1>2 DEF TypeOK, Files
  <2>2. PICK f \in Files : shards' = Put(role, version, k, f)
    BY <1>8, <2>1 DEF OpenShard, CloseShard, Put
  <2> QED
    BY <1>2, <1>5, <2>2
<1> QED
  BY <1>6, <1>7, <1>8 DEF Rank

\* What is saved has this run's share: the samples in flight and the steps of the round.
LEMMA SavedShare ==
  ASSUME TypeOK, Common, InStep, Started, pos \in 0..Items
  PROVE  KeptFile(Learnt, pos, version, crashes + 1)
<1>0. /\ crashes \in Nat /\ Trigger \in Nat /\ Ahead \in Nat /\ Trigger - 1 \in Nat
      /\ lts \in Nat /\ lts >= 1 /\ lts <= Trigger /\ Claimed \in Nat
      /\ version * Trigger \in Nat
  BY Numbers, Shares
<1>1. Learnt \subseteq 1..pos /\ Learnt \cap inflight = {}
  BY LearntIs
<1> DEFINE lost == (1..pos) \ (Learnt \cup inflight)
           left == (1..pos) \ Learnt
<1>2. IsFiniteSet(lost) /\ IsFiniteSet(left) /\ Cardinality(lost) \in Nat
      /\ Cardinality(left) \in Nat /\ Cardinality(Learnt) \in Nat
  <2>1. lost \subseteq 1..pos /\ left \subseteq 1..pos
    OBVIOUS
  <2> HIDE DEF lost, left
  <2> QED
    BY <1>1, <2>1, Counted
<1>3. IsFiniteSet(inflight) /\ Cardinality(inflight) \in Nat
  <2>1. inflight \subseteq 1..Items /\ Items \in 0..Items
    BY Sizes DEF TypeOK, Samples
  <2> QED
    BY <2>1, Counted
<1>4. Cardinality(left) <= Ahead * (crashes + 1)
  <2>1. left \subseteq lost \cup inflight
    OBVIOUS
  <2> HIDE DEF lost, left
  <2>2. /\ IsFiniteSet(lost \cup inflight) /\ Cardinality(lost \cup inflight) \in Nat
        /\ Cardinality(lost \cap inflight) \in Nat
        /\ Cardinality(lost \cup inflight) =
             Cardinality(lost) + Cardinality(inflight) - Cardinality(lost \cap inflight)
    <3>1. IsFiniteSet(lost \cap inflight)
      BY <1>2, FS_Intersection
    <3> QED
      BY <1>2, <1>3, <3>1, FS_Union, FS_CardinalityType
  <2>3. Cardinality(left) <= Cardinality(lost \cup inflight)
    BY <2>1, <2>2, FS_Subset
  <2>4. Cardinality(lost) <= Ahead * crashes /\ Cardinality(inflight) <= Ahead
    BY DEF lost, InStep, Started
  <2>5. Ahead * (crashes + 1) = Ahead * crashes + Ahead /\ Ahead * crashes \in Nat
    BY <1>0, Shares
  <2>6. \A a, b, c, d, e, f \in Nat :
          a <= b /\ b = c + d - e /\ c <= f /\ d <= Ahead => a <= f + Ahead
    BY <1>0
  <2>7. Cardinality(left) <= Ahead * crashes + Ahead
    BY <1>2, <1>3, <2>2, <2>3, <2>4, <2>5, <2>6
  <2> QED
    BY <2>5, <2>7
<1>5. StepsOf(Learnt) \in Nat
  BY <1>2, Sizes DEF StepsOf
<1>6. /\ StepsOf(Learnt) <= version * Trigger + (Trigger - 1) * (crashes + 1)
      /\ version * Trigger <= StepsOf(Learnt) + Trigger * (crashes + 1)
  <2> DEFINE s == StepsOf(Learnt)  m == version * Trigger  t == Trigger - 1
             x == t * crashes  x1 == t * (crashes + 1)
             y == Trigger * crashes  y1 == Trigger * (crashes + 1)
             z == Trigger * (IF ending THEN crashes + 1 ELSE crashes)
  <2>1. /\ s \in Nat /\ m \in Nat /\ t \in Nat /\ x \in Nat /\ y \in Nat
        /\ x1 = x + t /\ y1 = y + Trigger
    BY <1>0, <1>5, Shares
  <2>2. z = y \/ z = y1
    OBVIOUS
  <2>3. s <= Claimed + x /\ Claimed <= s + z
    BY DEF InStep
  <2>4. Claimed = m + lts - 1 /\ t = Trigger - 1
    BY DEF Claimed
  <2> HIDE DEF s, m, t, x, x1, y, y1, z
  <2>5. m <= Claimed /\ Claimed <= m + t
    BY <1>0, <2>1, <2>4
  <2>6. s <= m + x1
    BY <1>0, <2>1, <2>3, <2>5
  <2>7. m <= s + y1
    BY <1>0, <2>1, <2>2, <2>3, <2>5
  <2> QED
    BY <2>6, <2>7 DEF s, m, t, x1, y1
<1> QED
  BY <1>4, <1>6 DEF KeptFile, InStep

\* The save goes on and ends.
LEMMA LossSaved ==
  ASSUME DiskInv, LearnInv, LossInv,
         RoleSaved \/ OpenData \/ CloseData \/ OpenTracker \/ WriteTracker
  PROVE  LossInv'
<1>1. /\ UNCHANGED <<shards, weights, version, lts, ending, pos, inflight, crashes, excused>>
      /\ pc \in {"save", "data", "dataopen", "track", "trackopen"}
      /\ pc' \notin {"down", "failed"} /\ (pc' = "train" => ~ending)
  BY DEF RoleSaved, OpenData, CloseData, CloseDataAt, OpenTracker, WriteTracker, AfterCheck,
         diskVars, trainVars, rollVars, envVars
<1>2. /\ TypeOK /\ version \in Versions /\ pos \in 0..Items /\ Runs' = Runs
      /\ Runs = crashes + 1
  BY <1>1 DEF DiskInv, TypeOK, Runs
<1>3. CASE RoleSaved \/ OpenTracker \/ WriteTracker
  <2>1. UNCHANGED <<data, patched>>
    BY <1>3 DEF RoleSaved, OpenTracker, WriteTracker, diskVars, envVars
  <2>2. \A v \in Versions : Kept(v) => Kept(v)'
    BY <1>1, <1>2, <2>1 DEF Kept
  <2> QED
    BY <1>1, <2>1, <2>2, LossKeeps
<1>4. CASE OpenData
  <2>1. /\ UNCHANGED patched /\ data'[version] = Torn
        /\ \A v \in Versions : v # version => data'[v] = data[v]
    BY <1>2, <1>4 DEF OpenData, TypeOK, envVars
  <2>2. \A v \in Versions : Kept(v) => Kept(v)'
    BY <1>1, <1>2, <2>1 DEF Kept, Whole
  <2> QED
    BY <1>1, <2>1, <2>2, LossKeeps
<1>5. CASE CloseData
  <2>1. /\ pc = "dataopen" /\ patched' = patched \ {version} /\ data'[version] = pos
        /\ \A v \in Versions : v # version => data'[v] = data[v]
    BY <1>2, <1>5 DEF CloseData, CloseDataAt, TypeOK
  <2>2. ASSUME ~excused, NEW v \in Versions, v = version PROVE Kept(v)'
    <3>1. Common /\ InStep /\ Started
      BY <2>2 DEF LearnInv, Learned, LossInv, Costs
    <3>2. KeptFile(Learnt, pos, version, Runs)
      BY <1>2, <3>1, SavedShare
    <3>3. \A r \in Roles, k \in Ranks : shards[r][version][k] = Learnt
      BY <1>2, <2>1, <3>1, LearntIs DEF LearnInv, Own
    <3> QED
      BY <1>1, <1>2, <2>1, <2>2, <3>2, <3>3 DEF Kept
  <2>3. ASSUME NEW v \in Versions \ {version} PROVE Kept(v) => Kept(v)'
    BY <1>1, <1>2, <2>1, <2>3 DEF Kept
  <2>4. \A v \in Versions \ patched' :
           \/ v \in Versions \ patched /\ (Kept(v) => Kept(v)')
           \/ ~excused => Kept(v)'
    <3> TAKE v \in Versions \ patched'
    <3>1. CASE v = version
      BY <2>2, <3>1
    <3>2. CASE v # version
      BY <2>1, <2>3, <3>2
    <3> QED
      BY <3>1, <3>2
  <2>5. pc \notin {"down", "failed"}
    BY <2>1
  <2>6. pc' = "train" => ~ending
    BY <1>1
  <2> QED
    BY <1>1, <2>4, <2>5, <2>6, LossKeeps
<1> QED
  BY <1>3, <1>4, <1>5

\* What is learned and the position are the file's: its shares are those of the
\* crashes there were.
LEMMA LossRestart ==
  ASSUME DiskInv, LearnInv, LossInv, Crash \/ Restart
  PROVE  LossInv'
<1>1. UNCHANGED <<shards, data, patched>> /\ TypeOK /\ crashes \in Nat
      /\ "actor" \in Roles /\ First \in Ranks
  BY Numbers, CheckpointAssumption
     DEF Crash, Restart, FromScratch, LoadFails, Load, LoadFrom, diskVars, envVars, DiskInv,
         Roles
<1>2. CASE Crash
  <2>1. /\ pc \notin {"down", "failed"} /\ pc' = "down" /\ crashes' = crashes + 1
        /\ pos' = 0 /\ inflight' = {} /\ ending' = FALSE /\ version' = 0 /\ lts' = 1
        /\ UNCHANGED excused /\ Learnt' = {}
    BY <1>1, <1>2 DEF Crash, Learnt
  <2>2. Runs' = Runs
    BY <2>1 DEF Runs
  <2>3. \A v \in Versions : Kept(v) => Kept(v)'
    BY <1>1, <2>2 DEF Kept
  <2>4. Started'
    BY <2>1, FS_EmptySet, Shares DEF Started
  <2>5. InStep'
    <3>1. /\ Cardinality({}) = 0 /\ Required * 0 = 0 /\ Required \in Nat
          /\ (1..pos') \ (Learnt \cup inflight)' = {} /\ Trigger \in Nat /\ 0 * Trigger = 0
      BY <2>1, FS_EmptySet, Sizes
    <3>2. StepsOf({}) = 0 /\ Claimed' = 0
      BY <2>1, <3>1, StepsAre DEF Claimed
    <3>3. /\ Ahead * crashes' \in Nat /\ Trigger * crashes' \in Nat
          /\ (Trigger - 1) * crashes' \in Nat
      <4>1. crashes' \in Nat
        BY <1>1, <2>1
      <4> QED
        BY <4>1, Shares
    <3>4. 0 <= Ahead * crashes' /\ 0 <= 0 + (Trigger - 1) * crashes'
          /\ 0 <= 0 + Trigger * crashes'
      BY <3>3
    <3> QED
      BY <2>1, <3>1, <3>2, <3>4 DEF InStep
  <2> QED
    BY <1>1, <2>1, <2>3, <2>4, <2>5 DEF LossInv, Costs
<1>3. ASSUME ~excused, pc \in {"down", "failed"}, pc' \in {"train", "failed"},
             crashes' = crashes, NEW v \in Versions \ patched
      PROVE  Kept(v)'
  <2>1. Kept(v)
    BY <1>3 DEF LossInv, Costs
  <2>2. Runs = crashes /\ Runs' \in {crashes, crashes + 1}
    BY <1>3 DEF Runs
  <2>3. ASSUME NEW r \in Roles, NEW k \in Ranks, Whole(data[v]), Whole(shards[r][v][k])
        PROVE  KeptFile(shards[r][v][k], data[v], v, Runs')
    <3>1. KeptFile(shards[r][v][k], data[v], v, crashes)
      BY <2>1, <2>2, <2>3 DEF Kept
    <3>2. shards[r][v][k] \subseteq 1..data[v]
      BY <1>3, <2>3 DEF LearnInv, Learned, OneSave
    <3>3. data[v] \in 0..Items /\ v \in Nat
      BY <1>1, <1>3, <2>3, Sizes DEF TypeOK, Whole, Versions
    <3> QED
      BY <1>1, <2>2, <3>1, <3>2, <3>3, KeptLonger
  <2> QED
    BY <1>1, <2>3 DEF Kept
<1>4. ASSUME FromScratch \/ LoadFails, pc \in {"down", "failed"} PROVE LossInv'
  <2>1. /\ pc' \in {"train", "failed"}
        /\ UNCHANGED <<weights, version, lts, ending, pos, inflight, crashes, excused>>
    BY <1>4 DEF FromScratch, LoadFails, trainVars, rollVars, envVars
  <2>2. Started'
    BY <1>4, <2>1 DEF LossInv, Started
  <2>3. InStep => InStep'
    BY <2>1 DEF InStep, Learnt, Claimed
  <2> QED
    BY <1>1, <1>3, <1>4, <2>1, <2>2, <2>3 DEF LossInv, Costs
<1>5. ASSUME NEW v \in Versions, Loadable(v), LoadFrom(v), pc \in {"down", "failed"}
      PROVE  LossInv'
  <2>1. /\ pc' = "train" /\ version' = v /\ UNCHANGED <<ending, lts, inflight, crashes>>
        /\ weights' = [r \in Roles |-> shards[r][v]]
        /\ lts = 1 /\ ~ending /\ inflight = {}
    BY <1>5 DEF LoadFrom, LossInv, Started, LearnInv, InFlight
  <2>2. Started'
    BY <2>1 DEF LossInv, Started
  <2>3. ASSUME ~excused'
        PROVE  ~excused /\ InStep'
    <3>1. ~excused /\ v \notin patched /\ data[v] # Absent /\ pos' = data[v]
      BY <1>5, <2>3 DEF LoadFrom
    <3>2. Whole(data[v]) /\ Whole(shards["actor"][v][First])
      BY <1>1, <1>5, <3>1 DEF Loadable, Whole
    <3>3. KeptFile(shards["actor"][v][First], data[v], v, crashes)
      BY <1>1, <1>5, <3>1, <3>2 DEF LossInv, Costs, Kept, Runs
    <3>4. Learnt' = shards["actor"][v][First]
      BY <1>1, <2>1 DEF Learnt
    <3>5. Claimed' = v * Trigger
      <4>1. v * Trigger \in Nat
        BY Sizes, Shares DEF Versions
      <4>2. \A m \in Nat : m + 1 - 1 = m
        OBVIOUS
      <4> QED
        BY <2>1, <4>1, <4>2 DEF Claimed
    <3>6. (Learnt \cup inflight)' = Learnt'
      BY <2>1
    <3> QED
      BY <2>1, <3>1, <3>3, <3>4, <3>5, <3>6 DEF KeptFile, InStep
  <2> QED
    BY <1>1, <1>3, <1>5, <2>1, <2>2, <2>3 DEF LossInv, Costs
<1>6. CASE Restart
  <2>1. \/ FromScratch \/ LoadFails
        \/ \E v \in Versions : Loadable(v) /\ LoadFrom(v)
    <3>1. tracker # Torn /\ tracker # Absent => tracker \in Versions
      BY <1>1 DEF TypeOK
    <3> QED
      BY <1>6, <3>1 DEF Restart, Load
  <2>2. pc \in {"down", "failed"}
    BY <1>6 DEF Restart
  <2> QED
    BY <1>4, <1>5, <2>1, <2>2
<1> QED
  BY <1>2, <1>6

LEMMA LossStep == DiskInv /\ LearnInv /\ LossInv /\ [Next]_vars => LossInv'
<1> SUFFICES ASSUME DiskInv, LearnInv, LossInv, [Next]_vars PROVE LossInv'
  OBVIOUS
<1>1. CASE UNCHANGED vars
  BY <1>1 DEF LossInv, Started, Costs, InStep, Kept, Runs, Learnt, Claimed, vars, diskVars,
              trainVars, saveVars, rollVars, envVars
<1> QED
  BY <1>1, LossLoop, LossCheck, LossRanks, LossSaved, LossRestart DEF Next, Saving, Done

\* Each crash loses at most the samples that were in flight when the last checkpoint was made:
\* the losses of the runs add up, and those of a restart that fails or repeats do not.
THEOREM LossIsBounded == Spec => []BoundedLoss
<1>1. DiskInv /\ LearnInv /\ LossInv => BoundedLoss
  <2> SUFFICES ASSUME DiskInv, LearnInv, LossInv, ~excused,
                      NEW r \in Roles, NEW k \in Ranks
               PROVE  Cardinality(1..pos \ (weights[r][k] \cup inflight)) <= Ahead * crashes
    BY DEF BoundedLoss
  <2>1. weights[r][k] = Learnt
    BY LearntIs DEF LearnInv, Learned, DiskInv
  <2> QED
    BY <2>1 DEF LossInv, Costs, InStep
<1> QED
  BY <1>1, DiskInit, DiskStep, LearnInit, LearnStep, LossInit, LossStep, PTL DEF Spec

\* The version the trainer claims and the steps its weights have made differ by less than a
\* round for each crash.
THEOREM DriftIsBounded == Spec => []Drift
<1>1. DiskInv /\ LearnInv /\ LossInv => Drift
  <2> SUFFICES ASSUME DiskInv, LearnInv, LossInv, ~excused, ~ending,
                      NEW r \in Roles, NEW k \in Ranks
               PROVE  /\ StepsOf(weights[r][k]) <= Claimed + (Trigger - 1) * crashes
                      /\ Claimed <= StepsOf(weights[r][k]) + Trigger * crashes
    BY DEF Drift, Claimed
  <2>1. weights[r][k] = Learnt
    BY LearntIs DEF LearnInv, Learned, DiskInv
  <2> QED
    BY <2>1 DEF LossInv, Costs, InStep
<1> QED
  BY <1>1, DiskInit, DiskStep, LearnInit, LearnStep, LossInit, LossStep, PTL DEF Spec
-------------------------------------------------------------------------------
(***************************************************************************)
(* What is left on the disk.  The folders of a role are those of the run   *)
(* under way, which its list of paths and the save it is in name, and those *)
(* earlier runs have left: no run lets the first become more than Keep.    *)
(***************************************************************************)
Paths(r) == {prev[r][i] : i \in 1..Len(prev[r])}

\* Versions this run has a folder of: listed, or being written.
Written(r) == pc = "save" /\ role = r /\ \E k \in Ranks : rpc[k] \in {"open", "saved"}

Mine(r) == Paths(r) \cup (IF Written(r) THEN {version} ELSE {})

\* The list has room for one more when rank 0 has removed what is too much.
Room(r) ==
  /\ Len(prev[r]) <= Keep[r]
  /\ pc = "save" /\ role = r /\ rpc[First] # "called" => Len(prev[r]) < Keep[r]

\* No shard is written before rank 0 has removed the old ones.
Gate == pc = "save" /\ (\E k \in Ranks : rpc[k] \in {"open", "saved"}) =>
          \A k \in Ranks : rpc[k] # "called"

Leftovers(r) == Folders(r) \ Mine(r)

FolderInv ==
  /\ Gate
  /\ \A r \in Roles : Keep[r] > 0 =>
       Room(r) /\ Cardinality(Leftovers(r)) <= Keep[r] * crashes

LEMMA FoldersFinite ==
  ASSUME TypeOK, NEW r \in Roles, NEW s, s \subseteq Folders(r)
  PROVE  IsFiniteSet(s) /\ Cardinality(s) \in Nat
<1>1. s \subseteq Versions
  BY DEF Folders
<1>2. IsFiniteSet(Versions)
  BY Sizes, FS_Interval DEF Versions
<1> QED
  BY <1>1, <1>2, FS_Subset, FS_CardinalityType

\* A list has no more members than places.
LEMMA RangeBound ==
  ASSUME NEW S, NEW q \in Seq(S)
  PROVE  LET t == {q[i] : i \in 1..Len(q)}
         IN  IsFiniteSet(t) /\ Cardinality(t) \in Nat /\ Cardinality(t) <= Len(q)
<1> DEFINE t == {q[i] : i \in 1..Len(q)}
<1>1. Len(q) \in Nat /\ q \in [1..Len(q) -> t]
  OBVIOUS
<1>2. q \in Surjection(1..Len(q), t)
  BY <1>1 DEF Surjection
<1>3. IsFiniteSet(1..Len(q)) /\ Cardinality(1..Len(q)) = Len(q)
  BY <1>1, FS_Interval
<1> HIDE DEF t
<1>4. IsFiniteSet(t) /\ Cardinality(t) <= Len(q)
  BY <1>2, <1>3, FS_Surjection
<1> QED
  BY <1>4, FS_CardinalityType DEF t

\* With its own folders, a run has one share more on the disk.
LEMMA FoldersShare ==
  ASSUME TypeOK, FolderInv, NEW r \in Roles, Keep[r] > 0
  PROVE  Cardinality(Folders(r)) <= Keep[r] * (crashes + 1)
<1>1. /\ Keep[r] \in Nat /\ crashes \in Nat /\ prev[r] \in Seq(Versions)
      /\ Len(prev[r]) \in Nat
  BY Numbers, CheckpointAssumption DEF TypeOK
<1>2. /\ IsFiniteSet(Paths(r)) /\ Cardinality(Paths(r)) \in Nat
      /\ Cardinality(Paths(r)) <= Len(prev[r])
  BY <1>1, RangeBound DEF Paths
<1>3. IsFiniteSet(Mine(r)) /\ Cardinality(Mine(r)) \in Nat /\ Cardinality(Mine(r)) <= Keep[r]
  <2>1. CASE ~Written(r)
    <3>1. Mine(r) = Paths(r)
      BY <2>1 DEF Mine
    <3> QED
      BY <1>1, <1>2, <3>1 DEF FolderInv, Room
  <2>2. CASE Written(r)
    <3>1. Mine(r) = Paths(r) \cup {version}
      BY <2>2 DEF Mine
    <3>2. Len(prev[r]) < Keep[r]
      BY <2>2, CheckpointAssumption DEF FolderInv, Gate, Room, Written
    <3>3. /\ IsFiniteSet(Mine(r))
          /\ \/ Cardinality(Mine(r)) = Cardinality(Paths(r))
             \/ Cardinality(Mine(r)) = Cardinality(Paths(r)) + 1
      BY <1>2, <3>1, FS_AddElement
    <3> QED
      BY <1>1, <1>2, <3>2, <3>3
  <2> QED
    BY <2>1, <2>2
<1>4. IsFiniteSet(Leftovers(r)) /\ Cardinality(Leftovers(r)) \in Nat
  BY FoldersFinite DEF Leftovers
<1> DEFINE l == Leftovers(r)  m == Mine(r)  u == l \cup m  x == Keep[r] * crashes
<1>5. IsFiniteSet(u) /\ Cardinality(u) \in Nat /\ Cardinality(l \cap m) \in Nat
      /\ Cardinality(u) = Cardinality(l) + Cardinality(m) - Cardinality(l \cap m)
  <2>1. IsFiniteSet(l \cap m)
    BY <1>3, FS_Intersection
  <2> QED
    BY <1>3, <1>4, <2>1, FS_Union, FS_CardinalityType
<1>6. Folders(r) \subseteq u
  BY DEF Leftovers
<1>7. Cardinality(Folders(r)) <= Cardinality(u) /\ Cardinality(Folders(r)) \in Nat
  BY <1>5, <1>6, FS_Subset, FS_CardinalityType
<1>8. Cardinality(l) <= x
  BY DEF FolderInv
<1>9. x \in Nat /\ Keep[r] * (crashes + 1) = x + Keep[r]
  <2>1. \A a, b \in Nat : a * b \in Nat /\ a * (b + 1) = a * b + a
    OBVIOUS
  <2> QED
    BY <1>1, <2>1
<1> HIDE DEF l, m, u, x
<1>10. Cardinality(m) \in Nat /\ Cardinality(m) <= Keep[r] /\ Cardinality(l) \in Nat
  BY <1>3, <1>4 DEF l, m
<1> QED
  BY <1>1, <1>5, <1>7, <1>8, <1>9, <1>10

LEMMA FolderInit == Init => FolderInv
<1> SUFFICES ASSUME Init PROVE FolderInv
  OBVIOUS
<1>1. Gate
  BY DEF Init, Gate
<1>2. ASSUME NEW r \in Roles, Keep[r] > 0
      PROVE  Room(r) /\ Cardinality(Leftovers(r)) <= Keep[r] * crashes
  <2>1. Keep[r] \in Nat /\ prev[r] = <<>> /\ Len(prev[r]) = 0 /\ pc = "train" /\ crashes = 0
    BY CheckpointAssumption DEF Init
  <2>2. Leftovers(r) = {}
    BY DEF Init, Leftovers, Folders
  <2>3. Keep[r] * 0 = 0
    BY <2>1
  <2> QED
    BY <2>1, <2>2, <2>3, FS_EmptySet DEF Room
<1> QED
  BY <1>1, <1>2 DEF FolderInv

\* No step but a crash adds to what is left over.
LEMMA NoMoreLeft ==
  ASSUME TypeOK, FolderInv, crashes' = crashes, Gate',
         \A r \in Roles : Keep[r] > 0 => Room(r)' /\ Leftovers(r)' \subseteq Leftovers(r)
  PROVE  FolderInv'
<1>1. ASSUME NEW r \in Roles, Keep[r] > 0
      PROVE  Cardinality(Leftovers(r)') <= Keep[r] * crashes'
  <2>1. IsFiniteSet(Leftovers(r)) /\ Cardinality(Leftovers(r)) \in Nat
    BY FoldersFinite DEF Leftovers
  <2>2. Cardinality(Leftovers(r)') \in Nat
        /\ Cardinality(Leftovers(r)') <= Cardinality(Leftovers(r))
    BY <1>1, <2>1, FS_Subset, FS_CardinalityType
  <2>3. Cardinality(Leftovers(r)) <= Keep[r] * crashes
    BY <1>1 DEF FolderInv
  <2>4. Keep[r] * crashes \in Nat
    <3>1. Keep[r] \in Nat /\ crashes \in Nat
      BY Numbers, CheckpointAssumption
    <3>2. \A a, b \in Nat : a * b \in Nat
      OBVIOUS
    <3> QED
      BY <3>1, <3>2
  <2> QED
    BY <2>1, <2>2, <2>3, <2>4
<1> QED
  BY <1>1 DEF FolderInv

\* Steps outside of a save write no shard and list none.
LEMMA FolderKeeps ==
  ASSUME TypeOK, FolderInv, UNCHANGED <<shards, prev, crashes>>,
         \/ UNCHANGED <<pc, role, rpc, version>>
         \/ pc # "save" /\ (pc' = "save" => \A k \in Ranks : rpc'[k] = "called")
  PROVE  FolderInv'
<1>1. First \in Ranks
  BY CheckpointAssumption
<1>2. Gate'
  BY DEF FolderInv, Gate
<1>3. ASSUME NEW r \in Roles, Keep[r] > 0
      PROVE  Room(r)' /\ Leftovers(r)' \subseteq Leftovers(r)
  <2>1. Room(r)'
    BY <1>1, <1>3 DEF FolderInv, Room
  <2>2. Mine(r)' = Mine(r)
    BY DEF Mine, Paths, Written
  <2> QED
    BY <2>1, <2>2 DEF Leftovers, Folders
<1> QED
  BY <1>2, <1>3, NoMoreLeft

LEMMA FolderOther ==
  ASSUME TypeOK, FolderInv,
         \/ Feed \/ FeedEnds \/ Train \/ TrainEnds \/ CheckSave
         \/ OpenData \/ CloseData \/ OpenTracker \/ WriteTracker \/ Restart
  PROVE  FolderInv'
<1>1. UNCHANGED <<shards, prev, crashes>>
  BY DEF Feed, FeedEnds, Train, TrainEnds, CheckSave, OpenData, CloseData, CloseDataAt,
         OpenTracker, WriteTracker, Restart, FromScratch, LoadFails, Load, LoadFrom, diskVars,
         saveVars, envVars
<1>2. \/ UNCHANGED <<pc, role, rpc, version>>
      \/ pc # "save" /\ (pc' = "save" => \A k \in Ranks : rpc'[k] = "called")
  BY DEF Feed, FeedEnds, Train, TrainEnds, CheckSave, AfterCheck, OpenData, CloseData,
         CloseDataAt, OpenTracker, WriteTracker, Restart, FromScratch, LoadFails, Load, LoadFrom,
         trainVars, saveVars
<1> QED
  BY <1>1, <1>2, FolderKeeps

\* The ranks: what is unlisted has been removed, what is written is the run's.
LEMMA FolderRanks ==
  ASSUME TypeOK, FolderInv, RemoveShard \/ \E k \in Ranks : Rank(k)
  PROVE  FolderInv'
<1>1. /\ pc = "save" /\ UNCHANGED <<pc, version, role, crashes>>
      /\ role \in Roles /\ version \in Versions /\ First \in Ranks
  BY CheckpointAssumption
     DEF RemoveShard, Rank, RankReady, OpenShard, CloseShard, trainVars, saveVars, envVars, TypeOK
<1>2. CASE RemoveShard
  <2>1. PICK v \in Doomed(role), k \in Ranks : shards' = Put(role, v, k, Absent)
    BY <1>2 DEF RemoveShard, Put
  <2>2. v \in Versions /\ Absent \in Files
    BY <1>1, DoomedVersions DEF Files
  <2>3. /\ shards'[role][v][k] = Absent
        /\ \A q \in Roles, u \in Versions, j \in Ranks :
             q # role \/ u # v \/ j # k => shards'[q][u][j] = shards[q][u][j]
    BY <1>1, <2>1, <2>2, OneShard
  <2>4. UNCHANGED <<prev, rpc>>
    BY <1>2 DEF RemoveShard, saveVars
  <2>5. ASSUME NEW r \in Roles PROVE Folders(r)' \subseteq Folders(r)
    BY <1>1, <2>2, <2>3, <2>5 DEF Folders
  <2>6. \A r \in Roles : Mine(r)' = Mine(r) /\ (Room(r) => Room(r)')
    BY <1>1, <2>4 DEF Mine, Paths, Written, Room
  <2>7. Gate'
    BY <1>1, <2>4 DEF FolderInv, Gate
  <2>8. \A r \in Roles : Keep[r] > 0 => Room(r)' /\ Leftovers(r)' \subseteq Leftovers(r)
    BY <2>5, <2>6 DEF FolderInv, Leftovers
  <2> QED
    BY <1>1, <2>7, <2>8, NoMoreLeft
<1>3. ASSUME NEW k \in Ranks, RankReady(k) PROVE FolderInv'
  <2>1. /\ UNCHANGED shards /\ rpc[k] = "called" /\ rpc' = [rpc EXCEPT ![k] = "ready"]
        /\ \A j \in Ranks : rpc'[j] = IF j = k THEN "ready" ELSE rpc[j]
    BY <1>3 DEF RankReady, diskVars, TypeOK
  <2>2. Gate'
    BY <1>1, <2>1 DEF FolderInv, Gate
  <2>3. \A r \in Roles : Written(r)' = Written(r)
    BY <1>1, <2>1 DEF Written
  <2>4. \A r \in Roles : Folders(r)' = Folders(r)
    BY <2>1 DEF Folders
  <2>5. CASE k # First
    <3>1. UNCHANGED prev
      BY <1>3, <2>5 DEF RankReady
    <3>2. \A r \in Roles : Mine(r)' = Mine(r) /\ (Room(r) => Room(r)')
      BY <1>1, <2>1, <2>3, <2>5, <3>1 DEF Mine, Paths, Room
    <3>3. \A r \in Roles : Keep[r] > 0 => Room(r)' /\ Leftovers(r)' \subseteq Leftovers(r)
      BY <2>4, <3>2 DEF FolderInv, Leftovers
    <3> QED
      BY <1>1, <2>2, <3>3, NoMoreLeft
  <2>6. CASE k = First
    <3> DEFINE e == Excess(role)  n == Len(prev[role])
    <3>1. /\ \A v \in Doomed(role), j \in Ranks : shards[role][v][j] = Absent
          /\ \A r \in Roles : r # role => prev'[r] = prev[r]
          /\ prev'[role] = SubSeq(prev[role], e + 1, n)
      BY <1>1, <1>3, <2>6 DEF RankReady, TypeOK
    <3>2. prev[role] \in Seq(Versions) /\ n \in Nat /\ e \in 0..n /\ Keep[role] \in Nat
      BY <1>1, DoomedVersions, CheckpointAssumption
    <3>3. Len(prev'[role]) = n - e /\ \A i \in 1..(n - e) : prev'[role][i] = prev[role][i + e]
      BY <3>1, <3>2
    <3>4. ASSUME Keep[role] > 0 PROVE Room(role)'
      <4>1. n - e < Keep[role]
        BY <3>2, <3>4 DEF Excess
      <4> QED
        BY <1>1, <3>2, <3>3, <4>1 DEF Room
    <3>5. Paths(role) \subseteq Paths(role)' \cup Doomed(role)
      <4> SUFFICES ASSUME NEW i \in 1..n
                   PROVE  prev[role][i] \in Paths(role)' \cup Doomed(role)
        BY DEF Paths
      <4>1. CASE i <= e
        BY <3>2, <4>1 DEF Doomed
      <4>2. CASE i > e
        <5>1. i - e \in 1..(n - e) /\ prev'[role][i - e] = prev[role][i]
          BY <3>2, <3>3, <4>2
        <5> QED
          BY <1>1, <3>3, <5>1 DEF Paths
      <4> QED
        BY <3>2, <4>1, <4>2
    <3>6. Folders(role) \cap Doomed(role) = {}
      BY <3>1 DEF Folders
    <3>7. Leftovers(role)' \subseteq Leftovers(role)
      BY <1>1, <2>3, <2>4, <3>5, <3>6 DEF Leftovers, Mine
    <3>8. ASSUME NEW r \in Roles, r # role, Keep[r] > 0
          PROVE  Room(r)' /\ Leftovers(r)' \subseteq Leftovers(r)
      <4>1. Room(r)'
        BY <1>1, <3>1, <3>8 DEF FolderInv, Room
      <4>2. Mine(r)' = Mine(r)
        BY <1>1, <2>3, <3>1, <3>8 DEF Mine, Paths
      <4> QED
        BY <2>4, <4>1, <4>2 DEF Leftovers
    <3>9. \A r \in Roles : Keep[r] > 0 => Room(r)' /\ Leftovers(r)' \subseteq Leftovers(r)
      <4> TAKE r \in Roles
      <4>1. CASE r = role
        BY <1>1, <3>4, <3>7, <4>1
      <4>2. CASE r # role
        BY <3>8, <4>2
      <4> QED
        BY <4>1, <4>2
    <3> QED
      BY <1>1, <2>2, <3>9, NoMoreLeft
  <2> QED
    BY <2>5, <2>6
<1>4. ASSUME NEW k \in Ranks, OpenShard(k) \/ CloseShard(k) PROVE FolderInv'
  <2>1. weights[role][k] \in Files /\ Torn \in Files
    BY <1>1 DEF TypeOK, Files
  <2>2. PICK f \in Files : shards' = Put(role, version, k, f)
    BY <1>4, <2>1 DEF OpenShard, CloseShard, Put
  <2>3. \A q \in Roles, u \in Versions, j \in Ranks :
          q # role \/ u # version \/ j # k => shards'[q][u][j] = shards[q][u][j]
    BY <1>1, <2>2, OneShard
  <2>4. /\ UNCHANGED prev /\ rpc[k] \in {"ready", "open"} /\ rpc'[k] \in {"open", "saved"}
        /\ \A j \in Ranks : j # k => rpc'[j] = rpc[j]
        /\ \A j \in Ranks : rpc[j] # "called"
    BY <1>1, <1>4 DEF OpenShard, CloseShard, TypeOK, FolderInv, Gate
  <2>5. Gate'
    BY <2>4 DEF Gate
  <2>6. ASSUME NEW r \in Roles, Keep[r] > 0
        PROVE  Room(r)' /\ Leftovers(r)' \subseteq Leftovers(r)
    <3>1. Room(r)'
      BY <1>1, <2>4, <2>6 DEF FolderInv, Room
    <3>2. Paths(r)' = Paths(r) /\ (Written(r) => Written(r)') /\ (r = role => Written(r)')
      BY <1>1, <2>4 DEF Paths, Written
    <3>3. Mine(r) \subseteq Mine(r)' /\ (r = role => version \in Mine(r)')
      BY <1>1, <3>2 DEF Mine
    <3>4. Folders(r)' \subseteq Folders(r) \cup (IF r = role THEN {version} ELSE {})
      BY <1>1, <2>3 DEF Folders
    <3> QED
      BY <3>1, <3>3, <3>4 DEF Leftovers
  <2> QED
    BY <1>1, <2>5, <2>6, NoMoreLeft
<1> QED
  BY <1>2, <1>3, <1>4 DEF Rank

\* The version that is saved is listed.
LEMMA FolderSaved ==
  ASSUME TypeOK, FolderInv, RoleSaved
  PROVE  FolderInv'
<1>1. /\ pc = "save" /\ UNCHANGED <<shards, version, crashes>>
      /\ \A k \in Ranks : rpc[k] = "saved"
      /\ role \in Roles /\ First \in Ranks
      /\ \/ pc' = "save" /\ role' # role /\ \A k \in Ranks : rpc'[k] = "called"
         \/ pc' = "data"
  BY CheckpointAssumption DEF RoleSaved, TypeOK, diskVars, trainVars, envVars
<1>2. /\ prev'[role] = Append(prev[role], version)
      /\ \A r \in Roles : r # role => prev'[r] = prev[r]
      /\ prev[role] \in Seq(Versions) /\ version \in Versions /\ Len(prev[role]) \in Nat
  BY <1>1 DEF RoleSaved, TypeOK
<1>3. Gate'
  BY <1>1 DEF Gate
<1>4. ASSUME NEW r \in Roles, Keep[r] > 0, r # role
      PROVE  Room(r)' /\ Leftovers(r)' \subseteq Leftovers(r)
  <2>1. Room(r)'
    BY <1>1, <1>2, <1>4 DEF FolderInv, Room
  <2>2. Mine(r) = Paths(r) /\ Paths(r)' = Paths(r)
    BY <1>1, <1>2, <1>4 DEF Mine, Paths, Written
  <2> QED
    BY <1>1, <2>1, <2>2 DEF Leftovers, Mine, Folders
<1>5. ASSUME NEW r \in Roles, Keep[r] > 0, r = role
      PROVE  Room(r)' /\ Leftovers(r)' \subseteq Leftovers(r)
  <2>1. Len(prev[r]) < Keep[r] /\ Keep[r] \in Nat
    BY <1>1, <1>5, CheckpointAssumption DEF FolderInv, Room
  <2>2. /\ Len(prev'[r]) = Len(prev[r]) + 1
        /\ prev'[r][Len(prev[r]) + 1] = version
        /\ \A i \in 1..Len(prev[r]) : prev'[r][i] = prev[r][i]
    BY <1>2, <1>5
  <2>3. Room(r)'
    BY <1>1, <1>2, <1>5, <2>1, <2>2 DEF Room
  <2>4. Mine(r) \subseteq Paths(r)'
    <3>1. Paths(r) \subseteq Paths(r)'
      BY <1>2, <1>5, <2>2 DEF Paths
    <3>2. version \in Paths(r)'
      <4>1. Len(prev[r]) + 1 \in 1..Len(prev'[r])
        BY <1>2, <1>5, <2>2
      <4> QED
        BY <2>2, <4>1 DEF Paths
    <3> QED
      BY <3>1, <3>2 DEF Mine
  <2> QED
    BY <1>1, <2>3, <2>4 DEF Leftovers, Mine, Folders
<1>6. \A r \in Roles : Keep[r] > 0 => Room(r)' /\ Leftovers(r)' \subseteq Leftovers(r)
  BY <1>4, <1>5
<1> QED
  BY <1>1, <1>3, <1>6, NoMoreLeft

\* A crash leaves over what the run had.
LEMMA FolderCrash ==
  ASSUME TypeOK, FolderInv, Crash
  PROVE  FolderInv'
<1>1. /\ pc' = "down" /\ UNCHANGED shards /\ crashes' = crashes + 1
      /\ \A r \in Roles : prev'[r] = <<>>
  BY DEF Crash, diskVars
<1>2. ASSUME NEW r \in Roles, Keep[r] > 0
      PROVE  Room(r)' /\ Cardinality(Leftovers(r)') <= Keep[r] * crashes'
  <2>1. Room(r)'
    BY <1>1, <1>2, CheckpointAssumption DEF Room
  <2>2. Leftovers(r)' = Folders(r)
    BY <1>1 DEF Leftovers, Folders, Mine, Paths, Written
  <2> QED
    BY <1>1, <1>2, <2>1, <2>2, FoldersShare
<1> QED
  BY <1>1, <1>2 DEF FolderInv, Gate

LEMMA FolderStep == TypeOK /\ FolderInv /\ [Next]_vars => FolderInv'
<1> SUFFICES ASSUME TypeOK, FolderInv, [Next]_vars PROVE FolderInv'
  OBVIOUS
<1>1. CASE UNCHANGED vars
  BY <1>1, FolderKeeps DEF vars, diskVars, trainVars, saveVars, rollVars, envVars
<1>2. CASE Next
  BY <1>1, <1>2, FolderOther, FolderRanks, FolderSaved, FolderCrash DEF Next, Saving, Done
<1> QED
  BY <1>1, <1>2

\* What max_ckpt_to_keep bounds: a run's own folders, whatever it finds on the disk; every
\* crash can leave as many behind, which no later run removes.
THEOREM FoldersAreBounded == Spec => []DiskBound
<1>1. TypeOK /\ FolderInv => DiskBound
  BY FoldersShare DEF DiskBound
<1> QED
  BY <1>1, TypeInit, TypeStep, FolderInit, FolderStep, PTL DEF Spec
===============================================================================
