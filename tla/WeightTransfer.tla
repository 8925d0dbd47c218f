----------------------------- MODULE WeightTransfer ----------------------------
(***************************************************************************)
(* The checkpoint engine: how new weights get from the actor ranks to the  *)
(* rollout ranks.  The actors share the parameters, pack their shares into *)
(* buckets, and broadcast bucket after bucket in turn to all ranks.  With  *)
(* overlap_broadcast_and_consume the main thread of a rank broadcasts into *)
(* one half of a buffer while its second thread loads the other into the   *)
(* model; a REQ/REP pair of sockets connects the two.                      *)
(*                                                                         *)
(* A parameter is its place in weights_info, and its value the version     *)
(* (the number of the synchronization) it belongs to; 0 is anything else.  *)
(***************************************************************************)
EXTENDS Naturals, SequencesExt

CONSTANTS
  ActorNum, RolloutNum,  \* ranks of the two worker groups
  Buffer,                \* device_buffer_size_M
  Layouts,               \* weights_info: aligned sizes of the parameters
  MaxRounds,             \* bound of the model: synchronizations
  MaxFailures            \* bound of the model: loads that raise

Actors   == 0..(ActorNum - 1)
Rollouts == ActorNum..(ActorNum + RolloutNum - 1)
Ranks    == Actors \cup Rollouts

ASSUME TransferAssumption ==
  /\ {ActorNum, RolloutNum} \subseteq Nat \ {0}
  /\ Buffer \in Nat
  /\ Layouts \subseteq Seq(Nat \ {0})
  /\ \A l \in Layouts : l # <<>>
  /\ {MaxRounds, MaxFailures} \subseteq Nat

VARIABLES
  \* the same in every rank, and in every round
  overlap,   \* overlap_broadcast_and_consume
  layout,    \* weights_info
  buckets,   \* global_buckets: of an actor, a sequence of sequences of parameters
  turns,     \* the buckets in the order of their broadcasts
  \* the synchronizer
  sync,      \* synchronizations asked for
  \* the main thread of a rank
  pc,        \* where it is
  gidx,      \* broadcasts it has done
  did,       \* rounds it has finished
  mem,       \* memory_buffers
  h2d,       \* h2d_buffer
  half,      \* the halves of broadcast_load_buffer
  \* the second thread of a rank
  thread,    \* where it is
  job,       \* what it is loading
  model,     \* version of each parameter of the inference model
  loads,     \* number of times each was loaded
  \* between the two
  req, reply,
  \* the collective group
  calls,     \* what was called in it, in order
  at,        \* calls a rank has made
  failures

config  == <<overlap, layout, buckets, turns>>
mains   == <<pc, gidx, did, mem, h2d, half>>
threads == <<thread, job, model, loads>>
group   == <<calls, at>>
vars == <<config, sync, mains, threads, req, reply, group, failures>>
-------------------------------------------------------------------------------
(***************************************************************************)
(* The plan of the buckets.                                                *)
(***************************************************************************)
Params(l) == 1..Len(l)

BucketSize(l) == Max({Buffer} \cup Range(l))

\* The actor that stores a parameter: they are dealt out in turn.
Owner(p) == (p - 1) % ActorNum

\* Bytes of a bucket.
Size(l, b) ==
  LET upto[i \in 0..Len(b)] == IF i = 0 THEN 0 ELSE upto[i - 1] + l[b[i]]
  IN  upto[Len(b)]

\* Bug: a bucket is closed only once it is too large.
FullLate(l, b, p) == Size(l, b) > BucketSize(l)

Full(l, b, p) == Size(l, b) + l[p] > BucketSize(l)

\* A parameter that does not fit the last bucket opens another.
Put(l, bs, p) ==
  IF Full(l, Last(bs), p) THEN Append(bs, <<p>>)
  ELSE [bs EXCEPT ![Len(bs)] = Append(@, p)]

\* register_checkpoint: global_buckets
Plan(l) ==
  LET packed[n \in 0..Len(l)] ==
        IF n = 0 THEN [a \in Actors |-> << <<>> >>]
        ELSE [packed[n - 1] EXCEPT ![Owner(n)] = Put(l, @, n)]
  IN  packed[Len(l)]

\* get_max_buckets_num_per_rank
MaxBuckets(bs) == Max({Len(bs[a]) : a \in Actors})

\* update_checkpoint: in an iteration the actors in turn, those that are through left out;
Iteration(bs, i) ==
  LET upto[n \in 0..ActorNum] ==
        IF n = 0 THEN <<>>
        ELSE IF i > Len(bs[n - 1]) THEN upto[n - 1]
        ELSE Append(upto[n - 1], [src |-> n - 1, iter |-> i])
  IN  upto[ActorNum]

\* and one iteration after the other.
Turns(bs) ==
  LET upto[i \in 0..MaxBuckets(bs)] ==
        IF i = 0 THEN <<>> ELSE upto[i - 1] \o Iteration(bs, i)
  IN  upto[MaxBuckets(bs)]

Content(metas, version) == [metas |-> metas, version |-> version]
Nothing == Content(<<>>, 0)

Message(kind, h, metas) == [kind |-> kind, half |-> h, metas |-> metas]
None == Message("none", 0, <<>>)

Init ==
  /\ overlap \in BOOLEAN
  /\ layout \in Layouts
  /\ buckets = Plan(layout)
  /\ turns = Turns(buckets)
  /\ sync = 0
  /\ pc = [r \in Ranks |-> "idle"]
  /\ gidx = [r \in Ranks |-> 0]
  /\ did = [r \in Ranks |-> 0]
  /\ mem = [r \in Ranks |-> <<>>]
  /\ h2d = [r \in Ranks |-> Nothing]
  /\ half = [r \in Ranks |-> [h \in 0..1 |-> Nothing]]
  /\ thread = [r \in Ranks |-> "off"]
  /\ job = [r \in Ranks |-> None]
  /\ model = [r \in Rollouts |-> [p \in Params(layout) |-> 0]]
  /\ loads = [r \in Rollouts |-> [p \in Params(layout) |-> 0]]
  /\ req = [r \in Ranks |-> None]
  /\ reply = [r \in Ranks |-> FALSE]
  /\ calls = <<>>
  /\ at = [r \in Ranks |-> 0]
  /\ failures = 0
-------------------------------------------------------------------------------
(***************************************************************************)
(* The collective group.  Calls match by their order.  A barrier returns   *)
(* when every rank has called it; a broadcast, at the source, at any time, *)
(* and at the others once the source has called it.                        *)
(***************************************************************************)
Call(op, src) == [op |-> op, src |-> src]

\* Rank r makes its next call; the source of a broadcast hands over its data.
Enter(r, call, data) ==
  /\ at' = [at EXCEPT ![r] = @ + 1]
  /\ calls' =
       IF at[r] = Len(calls)
       THEN Append(calls, [made |-> {call}, data |-> data])
       ELSE [calls EXCEPT ![at[r] + 1] =
               [made |-> @.made \cup {call},
                data |-> IF call.op = "broadcast" /\ call.src = r THEN data ELSE @.data]]

\* Rank s has made the call that r is in.
Entered(s, r) == at[s] >= at[r]

AllEntered(r) == \A s \in Ranks : Entered(s, r)
-------------------------------------------------------------------------------
(***************************************************************************)
(* The synchronizer, and what a worker does before the transfer.           *)
(***************************************************************************)
\* sync_weights: both worker groups are called, and the rollout ranks are waited for.
SyncWeights ==
  /\ sync < MaxRounds
  /\ \A r \in Rollouts : did[r] = sync
  /\ sync' = sync + 1
  /\ UNCHANGED <<config, mains, threads, req, reply, group, failures>>

\* An actor copies its share of the weights into its memory buffers; then the barrier.
Pin(r) ==
  /\ mem' = [mem EXCEPT ![r] =
               IF r \in Actors
               THEN [i \in DOMAIN buckets[r] |-> Content(buckets[r][i], did[r] + 1)]
               ELSE <<>>]
  /\ Enter(r, Call("barrier", 0), Nothing)
  /\ pc' = [pc EXCEPT ![r] = "entry"]
  /\ UNCHANGED <<config, sync, gidx, did, h2d, half, threads, req, reply, failures>>

\* sync_rollout_weights_by_checkpoint is called.
Register(r) == pc[r] = "idle" /\ did[r] < sync /\ Pin(r)
-------------------------------------------------------------------------------
(***************************************************************************)
(* update_checkpoint, the main thread.                                     *)
(***************************************************************************)
\* Buffers are allocated; with overlap the thread is started and greeted.
Start(r) ==
  /\ pc[r] = "entry" /\ AllEntered(r)
  /\ pc' = [pc EXCEPT ![r] = "turn"]
  /\ gidx' = [gidx EXCEPT ![r] = 0]
  /\ h2d' = [h2d EXCEPT ![r] = Nothing]
  /\ half' = [half EXCEPT ![r] = [h \in 0..1 |-> Nothing]]
  /\ IF overlap
     THEN /\ thread' = [thread EXCEPT ![r] = "start"]
          /\ req' = [req EXCEPT ![r] = Message("hello", 0, <<>>)]
     ELSE UNCHANGED <<thread, req>>
  /\ UNCHANGED <<config, sync, did, mem, job, model, loads, reply, group, failures>>

Turn(r) == turns[gidx[r] + 1]
Bucket(r) == buckets[Turn(r).src][Turn(r).iter]

\* Bug: the buffer has one half.
HalfOne(r) == 0

\* start, in halves of the buffer
Half(r) == IF overlap THEN gidx[r] % 2 ELSE 0

\* The first broadcast of an iteration.
NewIteration(r) == gidx[r] = 0 \/ turns[gidx[r]].iter # Turn(r).iter

\* h2d_buffer when it is the turn of a bucket: a new iteration has copied the next one.
LoadedH2D(r) ==
  IF NewIteration(r) /\ Turn(r).iter <= Len(mem[r]) THEN mem[r][Turn(r).iter] ELSE h2d[r]

\* The next broadcast; its source copies the bucket into the half.
Broadcast(r) ==
  /\ pc[r] = "turn" /\ gidx[r] < Len(turns)
  /\ h2d' = [h2d EXCEPT ![r] = LoadedH2D(r)]
  /\ half' = IF Turn(r).src = r
             THEN [half EXCEPT ![r] = [@ EXCEPT ![Half(r)] = LoadedH2D(r)]]
             ELSE half
  /\ Enter(r, Call("broadcast", Turn(r).src), LoadedH2D(r))
  /\ pc' = [pc EXCEPT ![r] = "bcast"]
  /\ UNCHANGED <<config, sync, gidx, did, mem, threads, req, reply, failures>>

\* The broadcast returns.  Without overlap a rollout rank loads the bucket at once.
Receive(r) ==
  /\ pc[r] = "bcast" /\ Entered(Turn(r).src, r)
  /\ half' = [half EXCEPT ![r] = [@ EXCEPT ![Half(r)] = calls[at[r]].data]]
  /\ \/ overlap /\ pc' = [pc EXCEPT ![r] = "ack"] /\ UNCHANGED gidx
     \/ ~overlap /\ r \in Rollouts /\ pc' = [pc EXCEPT ![r] = "load"] /\ UNCHANGED gidx
     \/ ~overlap /\ r \in Actors /\ pc' = [pc EXCEPT ![r] = "turn"]
                 /\ gidx' = [gidx EXCEPT ![r] = @ + 1]
  /\ UNCHANGED <<config, sync, did, mem, h2d, threads, req, reply, group, failures>>

\* The thread has answered, to the greeting or to the last payload; then the barrier.
Acknowledged(r) ==
  /\ pc[r] = "ack" /\ reply[r]
  /\ reply' = [reply EXCEPT ![r] = FALSE]
  /\ Enter(r, Call("barrier", 0), Nothing)
  /\ pc' = [pc EXCEPT ![r] = "barrier"]
  /\ UNCHANGED <<config, sync, gidx, did, mem, h2d, half, threads, req, failures>>

\* The barrier returns: the thread is sent the metas of the bucket.
SendMetas(r) ==
  /\ pc[r] = "barrier" /\ AllEntered(r)
  /\ req' = [req EXCEPT ![r] = Message("load", Half(r), Bucket(r))]
  /\ gidx' = [gidx EXCEPT ![r] = @ + 1]
  /\ pc' = [pc EXCEPT ![r] = "turn"]
  /\ UNCHANGED <<config, sync, did, mem, h2d, half, threads, reply, group, failures>>

LeaveLoop(r) ==
  /\ IF overlap
     THEN pc' = [pc EXCEPT ![r] = "last"] /\ UNCHANGED group
     ELSE pc' = [pc EXCEPT ![r] = "final"] /\ Enter(r, Call("barrier", 0), Nothing)
  /\ UNCHANGED <<config, sync, gidx, did, mem, h2d, half, threads, req, reply, failures>>

\* Bug: an actor's loop ends with its own buckets.
LastTurnOwn(r) ==
  /\ pc[r] = "turn"
  /\ IF gidx[r] = Len(turns) THEN TRUE ELSE r \in Actors /\ Turn(r).iter > Len(mem[r])
  /\ LeaveLoop(r)

\* The loops are over: without overlap only the barrier is left.
LastTurn(r) == pc[r] = "turn" /\ gidx[r] = Len(turns) /\ LeaveLoop(r)

\* Bug: the last payload is not waited for.
SendStopEager(r) ==
  /\ pc[r] = "last"
  /\ Enter(r, Call("barrier", 0), Nothing)
  /\ pc' = [pc EXCEPT ![r] = "final"]
  /\ UNCHANGED <<config, sync, gidx, did, mem, h2d, half, threads, req, reply, failures>>

\* The last payload is loaded: the thread is told to end.
SendStop(r) ==
  /\ pc[r] = "last" /\ reply[r]
  /\ reply' = [reply EXCEPT ![r] = FALSE]
  /\ req' = [req EXCEPT ![r] = Message("stop", 0, <<>>)]
  /\ pc' = [pc EXCEPT ![r] = "join"]
  /\ UNCHANGED <<config, sync, gidx, did, mem, h2d, half, threads, group, failures>>

\* The thread has ended; then the barrier.
Join(r) ==
  /\ pc[r] = "join" /\ reply[r]
  /\ reply' = [reply EXCEPT ![r] = FALSE]
  /\ Enter(r, Call("barrier", 0), Nothing)
  /\ pc' = [pc EXCEPT ![r] = "final"]
  /\ UNCHANGED <<config, sync, gidx, did, mem, h2d, half, threads, req, failures>>

Done(r) ==
  /\ pc[r] = "final"
  /\ pc' = [pc EXCEPT ![r] = "idle"]
  /\ mem' = [mem EXCEPT ![r] = <<>>]
  /\ did' = [did EXCEPT ![r] = @ + 1]
  /\ UNCHANGED <<config, sync, gidx, h2d, half, threads, req, reply, group, failures>>

\* Bug: a rank is through without the others.
FinishAlone(r) == Done(r)

\* The last barrier returns.
Finish(r) == AllEntered(r) /\ Done(r)
-------------------------------------------------------------------------------
(***************************************************************************)
(* load_weights, in the main thread or in update_weights_from_ipc_.        *)
(***************************************************************************)
\* Rank r loads the parameters of a bucket from half h.
LoadWeights(r, h, metas) ==
  LET found == IF half[r][h].metas = metas THEN half[r][h].version ELSE 0 IN
  IF r \in Rollouts
  THEN /\ model' = [model EXCEPT ![r] =
                      [p \in DOMAIN @ |-> IF p \in Range(metas) THEN found ELSE @[p]]]
       /\ loads' = [loads EXCEPT ![r] =
                      [p \in DOMAIN @ |-> IF p \in Range(metas) THEN @[p] + 1 ELSE @[p]]]
  ELSE UNCHANGED <<model, loads>>

\* Without overlap: the main thread loads.
LoadInline(r) ==
  /\ pc[r] = "load"
  /\ LoadWeights(r, 0, Bucket(r))
  /\ gidx' = [gidx EXCEPT ![r] = @ + 1]
  /\ pc' = [pc EXCEPT ![r] = "turn"]
  /\ UNCHANGED <<config, sync, did, mem, h2d, half, thread, job, req, reply, group, failures>>

\* load_weights raises: the worker's call fails.
FailInline(r) ==
  /\ pc[r] = "load" /\ failures < MaxFailures
  /\ pc' = [pc EXCEPT ![r] = "failed"]
  /\ failures' = failures + 1
  /\ UNCHANGED <<config, sync, gidx, did, mem, h2d, half, threads, req, reply, group>>

\* The thread receives a message of one kind and goes on.
Hear(r, from, kind, to) ==
  /\ thread[r] = from /\ req[r].kind = kind
  /\ thread' = [thread EXCEPT ![r] = to]
  /\ job' = [job EXCEPT ![r] = IF kind = "load" THEN req[r] ELSE None]
  /\ req' = [req EXCEPT ![r] = None]
  /\ UNCHANGED <<config, sync, mains, model, loads, group, failures>>

Answer(r) == reply' = [reply EXCEPT ![r] = TRUE]

\* Bug: the greeting is not answered.
GreetSilent(r) == Hear(r, "start", "hello", "wait") /\ UNCHANGED reply

\* It answers the greeting.
Greet(r) == Hear(r, "start", "hello", "wait") /\ Answer(r)

\* Bug: a payload is answered when it is taken, before it is loaded.
TakePayloadEager(r) == Hear(r, "wait", "load", "load") /\ Answer(r)

\* It takes a payload
TakePayload(r) == Hear(r, "wait", "load", "load") /\ UNCHANGED reply

\* and answers when it is loaded.
LoadPayload(r) ==
  /\ thread[r] = "load"
  /\ LoadWeights(r, job[r].half, job[r].metas)
  /\ thread' = [thread EXCEPT ![r] = "wait"]
  /\ job' = [job EXCEPT ![r] = None]
  /\ Answer(r)
  /\ UNCHANGED <<config, sync, mains, req, group, failures>>

\* load_weights raises: the thread ends, and the main thread is not told.
FailPayload(r) ==
  /\ thread[r] = "load" /\ r \in Rollouts /\ failures < MaxFailures
  /\ thread' = [thread EXCEPT ![r] = "dead"]
  /\ job' = [job EXCEPT ![r] = None]
  /\ failures' = failures + 1
  /\ UNCHANGED <<config, sync, mains, model, loads, req, reply, group>>

\* It is told to end, answers and ends.
Stop(r) == Hear(r, "wait", "stop", "off") /\ Answer(r)

Main(r) ==
  Register(r) \/ Start(r) \/ Broadcast(r) \/ Receive(r) \/ Acknowledged(r)
  \/ SendMetas(r) \/ LastTurn(r) \/ SendStop(r) \/ Join(r) \/ Finish(r)
  \/ LoadInline(r)

Second(r) == Greet(r) \/ TakePayload(r) \/ LoadPayload(r) \/ Stop(r)

Next ==
  \/ SyncWeights
  \/ \E r \in Ranks : Main(r) \/ Second(r) \/ FailInline(r) \/ FailPayload(r)

Spec == Init /\ [][Next]_vars

\* Threads that can go on do; nothing forces a load to fail.
FairSpec ==
  Spec /\ WF_vars(SyncWeights) /\ \A r \in Ranks : WF_vars(Main(r)) /\ WF_vars(Second(r))
-------------------------------------------------------------------------------
(***************************************************************************)
(* Properties                                                              *)
(***************************************************************************)
\* Types of the control; a rank is in a broadcast or barrier of the group, never past its
\* end.  Delivered says what the buffers and the models hold.
TypeOK ==
  /\ sync \in 0..MaxRounds /\ did \in [Ranks -> 0..sync] /\ failures \in 0..MaxFailures
  /\ pc \in [Ranks -> {"idle", "entry", "turn", "bcast", "ack", "barrier", "load", "last",
                       "join", "final", "failed"}]
  /\ thread \in [Ranks -> {"off", "start", "wait", "load", "dead"}]
  /\ gidx \in [Ranks -> 0..Len(turns)]
  /\ at \in [Ranks -> 0..Len(calls)]
  /\ reply \in [Ranks -> BOOLEAN]
  /\ \A r \in Ranks : req[r].kind \in {"none", "hello", "load", "stop"}

\* A bucket fits the half of the buffer it is broadcast into (bucket_size, line 309): a
\* larger one would run into the half that is being loaded.  A parameter has one bucket.
Fits ==
  /\ \A a \in Actors : \A i \in DOMAIN buckets[a] :
       Size(layout, buckets[a][i]) <= BucketSize(layout)
  /\ \A p \in Params(layout) :
       \E a \in Actors : \E i \in DOMAIN buckets[a] :
         /\ p \in Range(buckets[a][i])
         /\ \A b \in Actors : \A j \in DOMAIN buckets[b] :
              p \in Range(buckets[b][j]) => <<a, i>> = <<b, j>>

\* The half that is broadcast into is not the one that is being loaded, or waits to be:
\* update_checkpoint takes gidx % 2 and receives the answer to the payload before the
\* last before it gets to the same half again.
HalvesApart ==
  \A r \in Ranks :
    pc[r] = "bcast" /\ overlap =>
      /\ req[r].kind = "load" => req[r].half # Half(r)
      /\ thread[r] = "load" => job[r].half # Half(r)

\* The sockets alternate: when the main thread sends, the last request has been answered
\* and the answer received, as a REQ socket demands.
Alternates ==
  \A r \in Ranks :
    /\ pc[r] = "barrier" => thread[r] = "wait" /\ req[r] = None /\ ~reply[r]
    /\ reply[r] => req[r] = None /\ thread[r] \in {"wait", "off"}

\* All ranks make the same calls in the same order, whatever buckets they have: no
\* barrier meets a broadcast, and no broadcast one of another source.
CallsMatch == \A k \in DOMAIN calls : calls[k].made = {CHOOSE c \in calls[k].made : TRUE}

\* A rollout rank that is through with synchronization n has loaded every parameter with
\* the value of version n, and once in each synchronization.
Delivered ==
  \A r \in Rollouts : pc[r] = "idle" =>
    \A p \in Params(layout) : model[r][p] = did[r] /\ loads[r][p] = did[r]

\* No rank is through with a synchronization before all rollout ranks have loaded all of
\* it, a load that fails included: sync_weights then never reports success.
Together ==
  \A r \in Ranks, s \in Rollouts : \A p \in Params(layout) : model[s][p] >= did[r]

\* If no load fails every synchronization comes to its end in every rank.
Finishes == <>(failures > 0 \/ \A r \in Ranks : did[r] = MaxRounds)
===============================================================================
