------------------------------ MODULE RewardProofs -----------------------------
(***************************************************************************)
(* The rate limits hold, every permit comes back, the router's counts are  *)
(* what its workers have and have failed, and a reward stands: for any     *)
(* number of requests, workers, threads and retries, and any rates.        *)
(*                                                                         *)
(* The argument: a request goes through the states of its client, of its   *)
(* reward function and of the router in step (Flow); a bucket nobody       *)
(* overdraws holds what one refilled with every tick would (Level); and    *)
(* permits and counts are numbers of requests in a state, each of which an *)
(* action moves by one.                                                    *)
(***************************************************************************)
EXTENDS RewardLoop, FiniteSetTheorems, WellFoundedInduction, TLAPS

PCs == {"decode", "rpm", "tpm", "rpmReserved", "tpmReserved", "sem", "compute", "post",
        "answer", "done", "failed"}

\* Types without the bounds that follow from the rest.
Shape ==
  /\ custom \in BOOLEAN /\ blocking \in BOOLEAN
  /\ pc \in [Requests -> PCs]
  /\ left \in [Requests -> Nat]
  /\ tokens \in [Buckets -> Int] /\ elapsed \in [Buckets -> Nat]
  /\ \A b \in Buckets : tokens[b] <= Cap[b]
  /\ credit \in [Buckets -> Int]
  /\ permits \in Nat
  /\ job \in [Requests -> {"none", "queued", "running"}]
  /\ reward \in [Requests -> {"none", "score", "zero"}]
  /\ tries \in [Requests -> 0..MaxRetries]
  /\ rq \in [Requests -> {"none", "posted", "sent", "backoff"}]
  /\ attempt \in [Requests -> 0..MaxAttempts] /\ url \in [Requests -> Workers]
  /\ counts \in [Workers -> Nat] /\ lost \in [Workers -> Nat]

\* A request is in one of the two clients, and everything about it is in step.
Flow(r) ==
  /\ custom => pc[r] \notin {"post", "answer", "failed"}
  /\ ~custom => /\ pc[r] \in {"post", "answer", "done", "failed"}
                /\ job[r] = "none"
                /\ rq[r] # "none" => pc[r] = "answer"
  /\ pc[r] \in {"decode", "rpm", "tpm", "rpmReserved", "tpmReserved", "sem", "post"} =>
       job[r] = "none" /\ rq[r] = "none"
  /\ job[r] = "queued" => pc[r] = "compute" /\ rq[r] = "none"
  /\ job[r] = "running" /\ ~blocking => pc[r] = "compute"
  /\ pc[r] \in {"post", "answer"} => tries[r] < MaxRetries
  /\ rq[r] = "backoff" => attempt[r] < MaxAttempts
  /\ \A b \in Buckets : pc[r] = Reserved(b) => Need[b] > Cap[b]

InStep == \A r \in Requests : Flow(r)

\* A bucket that is brought up to date when somebody asks is one that is refilled with
\* every tick.
Level ==
  \A b \in Buckets : Need[b] <= Cap[b] => credit[b] >= 0 /\ credit[b] = Refilled(b)
-------------------------------------------------------------------------------
LEMMA Sizes ==
  /\ IsFiniteSet(Requests)
  /\ Cap \in [Buckets -> Nat \ {0}] /\ Rate \in [Buckets -> Nat \ {0}]
  /\ Need \in [Buckets -> Nat]
  /\ MaxConcurrent \in Nat \ {0} /\ Timeout \in Nat \ {0} /\ Threads \in Nat \ {0}
  /\ WorkerNum \in Nat \ {0} /\ MaxAttempts \in Nat \ {0} /\ MaxRetries \in Nat \ {0}
  BY RewardAssumption

\* A set of numbers has a least one.
LEMMA LeastNumber ==
  ASSUME NEW S \in SUBSET Nat, S # {}
  PROVE  \E m \in S : \A n \in S : m <= n
<1> DEFINE R == {ss \in Nat \X Nat : ss[1] < ss[2]}
<1>1. \A x, y \in Nat : <<x, y>> \in R <=> x < y
  OBVIOUS
<1>2. IsWellFoundedOn(R, Nat)
  BY NatLessThanWellFounded, Zenon DEF OpToRel
<1> HIDE DEF R
<1>3. PICK m \in S : \A n \in S : <<n, m>> \notin R
  BY <1>2, WFMin
<1>4. \A n \in S : ~(n < m)
  BY <1>1, <1>3
<1> QED BY <1>4

\* A worker with the fewest requests exists.
LEMMA SelectsWorker ==
  ASSUME counts \in [Workers -> Nat]
  PROVE  Select \in Workers
<1> DEFINE S == {counts[w] : w \in Workers}
           L == {w \in Workers : \A x \in Workers : counts[w] <= counts[x]}
<1>1. S \in SUBSET Nat /\ counts[1] \in S
  BY Sizes DEF Workers
<1>2. PICK m \in S : \A n \in S : m <= n
  BY <1>1, LeastNumber
<1>3. PICK w \in Workers : counts[w] = m
  BY <1>2
<1>4. w \in L
  BY <1>2, <1>3
<1>5. L \in SUBSET Nat /\ L # {}
  BY <1>4 DEF Workers
<1>6. PICK v \in L : \A n \in L : v <= n
  BY <1>5, LeastNumber
<1>7. Min(L) \in L
  <2> HIDE DEF L
  <2> QED BY <1>6 DEF Min
<1> QED BY <1>7 DEF Select
-------------------------------------------------------------------------------
LEMMA FilledTypes ==
  ASSUME Shape, NEW b \in Buckets
  PROVE  /\ Refilled(b) \in Int /\ Refilled(b) <= Cap[b] /\ Cap[b] \in Nat
         /\ Need[b] \in Nat /\ Rate[b] \in Nat \ {0} /\ tokens[b] \in Int
         /\ credit[b] \in Int /\ elapsed[b] \in Nat
         /\ elapsed[b] * Rate[b] \in Nat
<1>1. elapsed[b] \in Nat /\ Rate[b] \in Nat \ {0} /\ Cap[b] \in Nat /\ Need[b] \in Nat
      /\ tokens[b] \in Int /\ credit[b] \in Int
  BY Sizes DEF Shape
<1>2. elapsed[b] * Rate[b] \in Nat
  BY <1>1
<1> QED BY <1>1, <1>2 DEF Refilled, Smaller

\* Sleeping takes a number of ticks.
LEMMA TicksTypes ==
  ASSUME NEW b \in Buckets, NEW n \in Nat
  PROVE  Ticks(b, n) \in Nat
<1>1. Rate[b] \in Nat \ {0} /\ n + Rate[b] - 1 \in Nat
  BY Sizes
<1> QED BY <1>1 DEF Ticks

LEMMA BucketTypes ==
  ASSUME Shape, NEW r \in Requests, NEW b \in Buckets,
         Acquire(r, b) \/ Wait(r, b) \/ Reserve(r, b) \/ Redeem(r, b)
  PROVE  Shape'
<1> USE FilledTypes, Sizes DEF Shape, PCs, config, limits, clients, router
<1>1. CASE Acquire(r, b)
  <2>1. tokens' = [tokens EXCEPT ![b] = Refilled(b) - Need[b]]
        /\ elapsed' = [elapsed EXCEPT ![b] = 0]
        /\ credit' = [credit EXCEPT ![b] = @ - Need[b]]
    BY <1>1 DEF Acquire, UpTo, Granted
  <2>2. tokens' \in [Buckets -> Int] /\ \A c \in Buckets : tokens'[c] <= Cap[c]
    BY <2>1
  <2>3. pc' \in [Requests -> PCs]
    BY <1>1 DEF Acquire, Granted, After
  <2> QED BY <1>1, <2>1, <2>2, <2>3 DEF Acquire
<1>2. CASE Wait(r, b)
  <2>1. tokens' = [tokens EXCEPT ![b] = Refilled(b)]
        /\ elapsed' = [elapsed EXCEPT ![b] = 0]
    BY <1>2 DEF Wait, UpTo
  <2>2. tokens' \in [Buckets -> Int] /\ \A c \in Buckets : tokens'[c] <= Cap[c]
    BY <2>1
  <2>3. Ticks(b, Need[b] - Refilled(b)) \in Nat
    <3>1. Need[b] - Refilled(b) \in Nat
      BY <1>2 DEF Wait
    <3> QED BY <3>1, TicksTypes
  <2> QED BY <1>2, <2>1, <2>2, <2>3 DEF Wait
<1>3. CASE Reserve(r, b)
  <2>1. tokens' = [tokens EXCEPT ![b] = Refilled(b) - Need[b]]
        /\ elapsed' = [elapsed EXCEPT ![b] = 0]
    BY <1>3 DEF Reserve, UpTo
  <2>2. tokens' \in [Buckets -> Int] /\ \A c \in Buckets : tokens'[c] <= Cap[c]
    BY <2>1
  <2>3. Ticks(b, Need[b] - Refilled(b)) \in Nat
    <3>1. Need[b] - Refilled(b) \in Nat
      BY <1>3 DEF Reserve
    <3> QED BY <3>1, TicksTypes
  <2>4. pc' \in [Requests -> PCs]
    BY <1>3 DEF Reserve, Reserved
  <2> QED BY <1>3, <2>1, <2>2, <2>3, <2>4 DEF Reserve
<1>4. CASE Redeem(r, b)
  <2>1. pc' \in [Requests -> PCs]
    BY <1>4 DEF Redeem, Granted, After
  <2> QED BY <1>4, <2>1 DEF Redeem, Granted
<1> QED BY <1>1, <1>2, <1>3, <1>4

LEMMA TickTypes ==
  ASSUME Shape, Tick
  PROVE  Shape'
<1>1. left' \in [Requests -> Nat]
  BY DEF Shape, Tick
<1>2. elapsed' \in [Buckets -> Nat] /\ credit' \in [Buckets -> Int]
  BY FilledTypes DEF Shape, Tick, Smaller
<1> QED BY <1>1, <1>2 DEF Shape, Tick, config, router

LEMMA ReplyTypes ==
  ASSUME Shape, InStep, NEW r \in Requests, NEW ok \in BOOLEAN, Reply(r, ok),
         rq[r] = "sent"
  PROVE  /\ pc' \in [Requests -> PCs] /\ left' \in [Requests -> Nat] /\ permits' \in Nat
         /\ job' \in [Requests -> {"none", "queued", "running"}]
         /\ reward' \in [Requests -> {"none", "score", "zero"}]
         /\ tries' \in [Requests -> 0..MaxRetries]
<1>1. CASE custom
  BY <1>1 DEF Reply, Result, Finish, Shape, PCs
<1>2. CASE ~custom
  <2>1. tries[r] + 1 \in 0..MaxRetries
    BY <1>2, Sizes DEF InStep, Flow, Shape
  <2> QED BY <1>2, <2>1 DEF Reply, Answer, Finish, Shape, PCs
<1> QED BY <1>1, <1>2

LEMMA RouterTypes ==
  ASSUME Shape, InStep, NEW r \in Requests, Routed(r)
  PROVE  Shape'
<1> USE Sizes DEF Shape, config, limits, clients
<1>1. CASE Forward(r)
  BY <1>1, SelectsWorker DEF Forward
<1>2. CASE Respond(r)
  <2>1. counts' \in [Workers -> Nat]
    BY <1>2 DEF Respond
  <2> QED BY <1>2, <2>1, ReplyTypes DEF Respond
<1>3. CASE Retry(r)
  BY <1>3 DEF Retry
<1>4. CASE Resend(r)
  <2>1. attempt[r] + 1 \in 0..MaxAttempts
    BY <1>4 DEF Resend, InStep, Flow
  <2> QED BY <1>4, <2>1 DEF Resend
<1>5. CASE GiveUp(r)
  <2>1. lost' \in [Workers -> Nat]
    BY <1>5 DEF GiveUp
  <2> QED BY <1>5, <2>1, ReplyTypes DEF GiveUp
<1> QED BY <1>1, <1>2, <1>3, <1>4, <1>5 DEF Routed

LEMMA ClientTypes ==
  ASSUME Shape, NEW r \in Requests,
         Decode(r) \/ Compute(r) \/ Expire(r) \/ Post(r) \/ Run(r)
  PROVE  Shape'
<1> USE Sizes DEF Shape, PCs, config, limits, router
<1>1. CASE Decode(r)
  BY <1>1 DEF Decode
<1>2. CASE Compute(r)
  BY <1>2 DEF Compute
<1>3. CASE Expire(r)
  BY <1>3 DEF Expire, Finish
<1>4. CASE Post(r)
  BY <1>4 DEF Post
<1>5. CASE Run(r)
  BY <1>5 DEF Run
<1> QED BY <1>1, <1>2, <1>3, <1>4, <1>5

LEMMA ShapeKept ==
  ASSUME Shape, InStep, [Next]_vars
  PROVE  Shape'
<1>1. CASE UNCHANGED vars
  BY <1>1 DEF Shape, vars, config, limits, clients, router
<1>2. CASE Next
  BY <1>2, TickTypes, BucketTypes, RouterTypes, ClientTypes DEF Next, Limited
<1> QED BY <1>1, <1>2
-------------------------------------------------------------------------------
\* A step that leaves a request alone leaves it in step.
LEMMA FlowOfOthers ==
  ASSUME Shape, InStep, NEW q \in Requests, UNCHANGED config,
         pc'[q] = pc[q], job'[q] = job[q], rq'[q] = rq[q], tries'[q] = tries[q],
         attempt'[q] = attempt[q]
  PROVE  Flow(q)'
  BY DEF InStep, Flow, config, Reserved

LEMMA BucketFlow ==
  ASSUME Shape, InStep, NEW r \in Requests, NEW b \in Buckets,
         Acquire(r, b) \/ Wait(r, b) \/ Reserve(r, b) \/ Redeem(r, b)
  PROVE  InStep'
<1> SUFFICES ASSUME NEW q \in Requests PROVE Flow(q)'
  BY DEF InStep
<1>1. UNCHANGED <<config, job, rq, tries, attempt>>
  BY DEF Acquire, Wait, Reserve, Redeem, router
<1>2. CASE q # r
  BY <1>1, <1>2, FlowOfOthers DEF Acquire, Wait, Reserve, Redeem, Granted, Shape
<1>3. CASE q = r
  <2>1. Flow(r) /\ pc[r] \in PCs
    BY DEF InStep, Shape
  <2>2. /\ pc[r] \in {"rpm", "tpm", "rpmReserved", "tpmReserved"}
        /\ \/ pc'[r] = pc[r]
           \/ pc'[r] \in {"tpm", "sem"}
           \/ (pc'[r] = Reserved(b) /\ Need[b] > Cap[b])
    <3>1. b \in {"rpm", "tpm"} /\ After(b) \in {"tpm", "sem"}
          /\ Reserved(b) \in {"rpmReserved", "tpmReserved"} /\ pc \in [Requests -> PCs]
      BY DEF Buckets, After, Reserved, Shape
    <3>2. CASE Acquire(r, b)
      BY <3>1, <3>2 DEF Acquire, Granted
    <3>3. CASE Wait(r, b)
      BY <3>1, <3>3 DEF Wait
    <3>4. CASE Reserve(r, b)
      BY <3>1, <3>4 DEF Reserve
    <3>5. CASE Redeem(r, b)
      BY <3>1, <3>5 DEF Redeem, Granted
    <3> QED BY <3>2, <3>3, <3>4, <3>5
  <2>3. \A c \in Buckets : Reserved(c) = Reserved(b) => c = b
    BY DEF Reserved, Buckets
  <2>4. custom /\ job[r] = "none" /\ rq[r] = "none"
    <3>1. pc[r] \notin {"post", "answer", "done", "failed", "compute"}
      BY <2>2
    <3>2. pc[r] \in {"decode", "rpm", "tpm", "rpmReserved", "tpmReserved", "sem", "post"}
      BY <2>2
    <3> QED BY <2>1, <3>1, <3>2 DEF Flow
  <2> QED BY <1>1, <1>3, <2>1, <2>2, <2>3, <2>4 DEF Flow, config, Reserved
<1> QED BY <1>2, <1>3

LEMMA ReplyFlow ==
  ASSUME Shape, InStep, NEW r \in Requests, NEW ok \in BOOLEAN, Reply(r, ok),
         rq[r] = "sent", rq' = [rq EXCEPT ![r] = "none"], UNCHANGED <<config, attempt>>
  PROVE  InStep'
<1> SUFFICES ASSUME NEW q \in Requests PROVE Flow(q)'
  BY DEF InStep
<1>1. CASE q # r
  BY <1>1, FlowOfOthers DEF Reply, Result, Answer, Finish, Shape
<1>2. CASE q = r /\ custom
  <2>1. Flow(r) /\ job'[r] = "none" /\ rq'[r] = "none" /\ tries' = tries
        /\ pc'[r] \in {"done", pc[r]}
    BY <1>2 DEF Reply, Result, Finish, InStep, Shape
  <2> QED BY <1>2, <2>1 DEF Flow, config, Reserved
<1>3. CASE q = r /\ ~custom
  <2>1. Flow(r) /\ rq'[r] = "none" /\ job' = job /\ tries'[r] = tries[r] + 1
        /\ \/ pc'[r] \in {"done", "failed"}
           \/ pc'[r] = "post" /\ tries[r] + 1 < MaxRetries
    BY <1>3 DEF Reply, Answer, Finish, InStep, Shape
  <2> QED BY <1>3, <2>1 DEF Flow, config, Reserved
<1> QED BY <1>1, <1>2, <1>3

LEMMA RouterFlow ==
  ASSUME Shape, InStep, NEW r \in Requests, Routed(r)
  PROVE  InStep'
<1>1. CASE Respond(r) \/ GiveUp(r)
  BY <1>1, ReplyFlow DEF Respond, GiveUp
<1>2. CASE Forward(r) \/ Retry(r) \/ Resend(r)
  <2> SUFFICES ASSUME NEW q \in Requests PROVE Flow(q)'
    BY DEF InStep
  <2>1. UNCHANGED <<config, pc, job, tries>> /\ Flow(q)
    BY <1>2 DEF Forward, Retry, Resend, clients, InStep
  <2>2. /\ rq'[q] # rq[q] => rq[q] # "none"
        /\ rq'[q] = "backoff" => attempt'[q] < MaxAttempts
    BY <1>2, <2>1 DEF Forward, Retry, Resend, Shape, Flow
  <2> QED BY <2>1, <2>2 DEF Flow, config, Reserved
<1> QED BY <1>1, <1>2 DEF Routed

LEMMA ClientFlow ==
  ASSUME Shape, InStep, NEW r \in Requests,
         Decode(r) \/ Compute(r) \/ Expire(r) \/ Post(r) \/ Run(r)
  PROVE  InStep'
<1> SUFFICES ASSUME NEW q \in Requests PROVE Flow(q)'
  BY DEF InStep
<1>1. CASE q # r
  BY <1>1, FlowOfOthers DEF Decode, Compute, Expire, Finish, Post, Run, router, Shape
<1>2. Flow(r) /\ pc[r] \in PCs /\ job[r] \in {"none", "queued", "running"}
  BY DEF InStep, Shape
<1>3. CASE q = r /\ Decode(r)
  BY <1>2, <1>3 DEF Decode, Flow, config, router, Reserved, Shape, Buckets
<1>4. CASE q = r /\ Compute(r)
  BY <1>2, <1>4 DEF Compute, Flow, config, router, Reserved, Shape, Buckets
<1>5. CASE q = r /\ Expire(r)
  BY <1>2, <1>5 DEF Expire, Finish, Flow, config, router, Reserved, Shape, Buckets
<1>6. CASE q = r /\ Post(r)
  BY <1>2, <1>6 DEF Post, Flow, config, Reserved, Shape, Buckets
<1>7. CASE q = r /\ Run(r)
  BY <1>2, <1>7 DEF Run, Flow, config, Reserved, Shape, Buckets
<1> QED BY <1>1, <1>3, <1>4, <1>5, <1>6, <1>7

LEMMA FlowKept ==
  ASSUME Shape, InStep, [Next]_vars
  PROVE  InStep'
<1>1. CASE UNCHANGED vars \/ Tick
  BY <1>1, FlowOfOthers DEF InStep, Tick, vars, config, clients, router
<1>2. CASE \E r \in Requests : Limited(r) \/ Run(r) \/ Routed(r)
  BY <1>2, BucketFlow, RouterFlow, ClientFlow DEF Limited
<1> QED BY <1>1, <1>2 DEF Next
-------------------------------------------------------------------------------
LEMMA LevelKept ==
  ASSUME Shape, InStep, Level, [Next]_vars
  PROVE  Level'
<1> SUFFICES ASSUME NEW b \in Buckets, Need[b] <= Cap[b]
             PROVE  credit'[b] >= 0 /\ credit'[b] = Refilled(b)'
  BY DEF Level
<1> DEFINE e == elapsed[b]
           rate == Rate[b]
           cap == Cap[b]
<1>1. credit[b] >= 0 /\ credit[b] = Refilled(b)
  BY DEF Level
<1>2. /\ e \in Nat /\ rate \in Nat \ {0} /\ cap \in Nat /\ tokens[b] \in Int
      /\ e * rate \in Nat /\ Need[b] \in Nat /\ Refilled(b) \in Int /\ Refilled(b) <= cap
  BY FilledTypes
<1>3. (e + 1) * rate = e * rate + rate /\ 0 * rate = 0
  BY <1>2
<1>4. \A r \in Requests : pc[r] # Reserved(b)
  BY <1>2 DEF InStep, Flow
<1>5. CASE Tick
  <2>1. credit'[b] = Smaller(cap, credit[b] + rate) /\ tokens'[b] = tokens[b]
    BY <1>5 DEF Tick
  <2>2. CASE Refilled(b) = cap
    <3>1. elapsed'[b] = e
      BY <1>5, <2>2 DEF Tick
    <3> QED BY <1>1, <1>2, <2>1, <2>2, <3>1 DEF Refilled, Smaller
  <2>3. CASE Refilled(b) # cap
    <3>1. elapsed'[b] = e + 1
      BY <1>5, <2>3 DEF Tick
    <3>2. Refilled(b)' = Smaller(cap, tokens[b] + (e * rate + rate))
      BY <1>3, <2>1, <3>1 DEF Refilled
    <3>3. Refilled(b) = tokens[b] + e * rate
      BY <1>2, <2>3 DEF Refilled, Smaller
    <3> HIDE DEF e, rate, cap
    <3> QED BY <1>1, <1>2, <2>1, <3>2, <3>3 DEF Smaller
  <2> QED BY <2>2, <2>3
<1>6. ASSUME NEW r \in Requests, NEW c \in Buckets, Acquire(r, c)
      PROVE  credit'[b] >= 0 /\ credit'[b] = Refilled(b)'
  <2>1. CASE c = b
    <3>1. tokens'[b] = Refilled(b) - Need[b] /\ elapsed'[b] = 0
          /\ credit'[b] = credit[b] - Need[b] /\ Refilled(b) >= Need[b]
      BY <1>6, <2>1 DEF Acquire, UpTo, Granted, Shape
    <3>2. Refilled(b)' = Smaller(cap, Refilled(b) - Need[b] + 0)
      BY <1>3, <3>1 DEF Refilled
    <3> QED BY <1>1, <1>2, <3>1, <3>2 DEF Smaller
  <2>2. CASE c # b
    <3>1. tokens'[b] = tokens[b] /\ elapsed'[b] = e /\ credit'[b] = credit[b]
      BY <1>6, <2>2 DEF Acquire, UpTo, Granted, Shape
    <3> QED BY <1>1, <3>1 DEF Refilled
  <2> QED BY <2>1, <2>2
<1>7. ASSUME NEW r \in Requests, NEW c \in Buckets, Wait(r, c)
      PROVE  credit'[b] >= 0 /\ credit'[b] = Refilled(b)'
  <2>1. CASE c = b
    <3>1. tokens'[b] = Refilled(b) /\ elapsed'[b] = 0 /\ credit' = credit
      BY <1>7, <2>1 DEF Wait, UpTo, Shape
    <3>2. Refilled(b)' = Smaller(cap, Refilled(b) + 0)
      BY <1>3, <3>1 DEF Refilled
    <3> QED BY <1>1, <1>2, <3>1, <3>2 DEF Smaller
  <2>2. CASE c # b
    <3>1. tokens'[b] = tokens[b] /\ elapsed'[b] = e /\ credit'[b] = credit[b]
      BY <1>7, <2>2 DEF Wait, UpTo, Shape
    <3> QED BY <1>1, <3>1 DEF Refilled
  <2> QED BY <2>1, <2>2
<1>8. ASSUME NEW r \in Requests, NEW c \in Buckets, Reserve(r, c) \/ Redeem(r, c)
      PROVE  credit'[b] >= 0 /\ credit'[b] = Refilled(b)'
  <2>1. c # b
    BY <1>2, <1>4, <1>8 DEF Reserve, Redeem
  <2>2. tokens'[b] = tokens[b] /\ elapsed'[b] = e /\ credit'[b] = credit[b]
    BY <1>8, <2>1 DEF Reserve, Redeem, UpTo, Granted, Shape
  <2> QED BY <1>1, <2>2 DEF Refilled
<1>9. CASE UNCHANGED limits
  BY <1>1, <1>9 DEF limits, Refilled
<1>10. ASSUME NEW r \in Requests,
              Decode(r) \/ Compute(r) \/ Expire(r) \/ Post(r) \/ Run(r) \/ Routed(r)
       PROVE  UNCHANGED limits
  BY <1>10 DEF Decode, Compute, Expire, Post, Run, Routed, Forward, Respond, Retry, Resend,
               GiveUp
<1> QED BY <1>5, <1>6, <1>7, <1>8, <1>9, <1>10 DEF Next, Limited, vars
-------------------------------------------------------------------------------
LEMMA OneMore ==
  ASSUME NEW S \in SUBSET Requests, NEW r \in Requests, r \notin S, NEW T, T = S \cup {r}
  PROVE  Cardinality(S) \in Nat /\ Cardinality(T) = Cardinality(S) + 1
<1>1. IsFiniteSet(S)
  BY Sizes, FS_Subset
<1> QED BY <1>1, FS_AddElement, FS_CardinalityType

LEMMA OneLess ==
  ASSUME NEW S \in SUBSET Requests, NEW r \in S, NEW T, T = S \ {r}
  PROVE  Cardinality(S) \in Nat \ {0} /\ Cardinality(T) = Cardinality(S) - 1
<1>1. IsFiniteSet(S) /\ IsFiniteSet(T)
  BY Sizes, FS_Subset
<1>2. Cardinality(T) = Cardinality(S) - 1 /\ Cardinality(T) \in Nat /\ Cardinality(S) \in Nat
  BY <1>1, FS_RemoveElement, FS_CardinalityType
<1> QED BY <1>2

Computing == {r \in Requests : pc[r] = "compute"}
Running == {r \in Requests : job[r] = "running"}

\* The threads of the executor are never all too few.
ThreadsSuffice == blocking => Cardinality(Running) <= Threads

\* The steps that take or return a permit.
LEMMA PermitsKept ==
  ASSUME Shape, InStep, PermitsReturned, [Next]_vars
  PROVE  PermitsReturned'
<1> USE DEF PermitsReturned
<1>1. permits = MaxConcurrent - Cardinality(Computing) /\ MaxConcurrent \in Nat
      /\ Computing \in SUBSET Requests /\ pc \in [Requests -> PCs]
  BY Sizes DEF Computing, Shape
<1>2. SUFFICES permits' = MaxConcurrent - Cardinality(Computing')
  BY DEF Computing
<1>3. ASSUME permits' = permits,
             \A q \in Requests : pc'[q] = "compute" <=> pc[q] = "compute"
      PROVE  permits' = MaxConcurrent - Cardinality(Computing')
  <2>1. Computing' = Computing
    BY <1>3 DEF Computing
  <2> QED BY <1>1, <1>3, <2>1
<1>4. ASSUME NEW r \in Requests, pc[r] = "compute", permits' = permits + 1,
             pc' = [pc EXCEPT ![r] = "done"]
      PROVE  permits' = MaxConcurrent - Cardinality(Computing')
  <2>1. Computing' = Computing \ {r} /\ r \in Computing
    BY <1>1, <1>4 DEF Computing
  <2> QED BY <1>1, <1>4, <2>1, OneLess
<1>5. CASE UNCHANGED vars \/ Tick
  BY <1>3, <1>5 DEF vars, clients, Tick
<1>6. ASSUME NEW r \in Requests, NEW b \in Buckets,
             Acquire(r, b) \/ Wait(r, b) \/ Reserve(r, b) \/ Redeem(r, b)
      PROVE  permits' = MaxConcurrent - Cardinality(Computing')
  BY <1>1, <1>3, <1>6
     DEF Acquire, Wait, Reserve, Redeem, Granted, After, Reserved, Buckets
<1>7. ASSUME NEW r \in Requests, Compute(r)
      PROVE  permits' = MaxConcurrent - Cardinality(Computing')
  <2>1. Computing' = Computing \cup {r} /\ r \notin Computing
    BY <1>1, <1>7 DEF Computing, Compute
  <2> QED BY <1>1, <1>7, <2>1, OneMore DEF Compute
<1>8. ASSUME NEW r \in Requests, Expire(r)
      PROVE  permits' = MaxConcurrent - Cardinality(Computing')
  BY <1>4, <1>8 DEF Expire, Finish
<1>9. ASSUME NEW r \in Requests, Decode(r) \/ Post(r) \/ Run(r)
      PROVE  permits' = MaxConcurrent - Cardinality(Computing')
  BY <1>1, <1>3, <1>9 DEF Decode, Post, Run
<1>10. ASSUME NEW r \in Requests, Forward(r) \/ Retry(r) \/ Resend(r)
       PROVE  permits' = MaxConcurrent - Cardinality(Computing')
  BY <1>3, <1>10 DEF Forward, Retry, Resend, clients
<1>11. ASSUME NEW r \in Requests, NEW ok \in BOOLEAN, Reply(r, ok), rq[r] = "sent"
       PROVE  permits' = MaxConcurrent - Cardinality(Computing')
  <2>1. CASE custom /\ pc[r] = "compute"
    BY <1>4, <1>11, <2>1 DEF Reply, Result, Finish
  <2>2. CASE custom /\ pc[r] # "compute"
    BY <1>3, <1>11, <2>2 DEF Reply, Result
  <2>3. CASE ~custom
    <3>1. pc[r] = "answer" /\ pc' \in {[pc EXCEPT ![r] = p] : p \in {"post", "failed", "done"}}
          /\ permits' = permits
      BY <1>11, <2>3 DEF Reply, Answer, Finish, InStep, Flow
    <3> QED BY <1>1, <1>3, <3>1
  <2> QED BY <2>1, <2>2, <2>3
<1>12. ASSUME NEW r \in Requests, Respond(r) \/ GiveUp(r)
       PROVE  permits' = MaxConcurrent - Cardinality(Computing')
  BY <1>11, <1>12 DEF Respond, GiveUp
<1> QED BY <1>5, <1>6, <1>7, <1>8, <1>9, <1>10, <1>12 DEF Next, Limited, Routed

LEMMA CountsStep ==
  ASSUME Shape, InStep, CountsKept, [Next]_vars
  PROVE  CountsKept'
<1> SUFFICES ASSUME NEW w \in Workers
             PROVE  counts'[w] = Cardinality(InFlight(w)') + lost'[w]
  BY DEF CountsKept
<1>1. counts[w] = Cardinality(InFlight(w)) + lost[w] /\ counts[w] \in Nat /\ lost[w] \in Nat
      /\ InFlight(w) \in SUBSET Requests
  BY DEF CountsKept, InFlight, Shape
<1>2. ASSUME counts'[w] = counts[w], lost'[w] = lost[w],
             \A q \in Requests : q \in InFlight(w)' <=> q \in InFlight(w)
      PROVE  counts'[w] = Cardinality(InFlight(w)') + lost'[w]
  <2>1. InFlight(w)' = InFlight(w)
    BY <1>2 DEF InFlight
  <2> QED BY <1>1, <1>2, <2>1
<1>3. CASE UNCHANGED router
  BY <1>2, <1>3 DEF router, InFlight
<1>4. ASSUME NEW r \in Requests, Run(r) \/ Post(r)
      PROVE  counts'[w] = Cardinality(InFlight(w)') + lost'[w]
  <2>1. rq[r] = "none" /\ rq' = [rq EXCEPT ![r] = "posted"] /\ UNCHANGED <<url, counts, lost>>
    BY <1>4 DEF Run, Post, InStep, Flow
  <2> QED BY <1>2, <2>1 DEF InFlight, Shape
<1>5. ASSUME NEW r \in Requests, Forward(r)
      PROVE  counts'[w] = Cardinality(InFlight(w)') + lost'[w]
  <2>1. /\ rq[r] = "posted" /\ rq' = [rq EXCEPT ![r] = "sent"]
        /\ url' = [url EXCEPT ![r] = Select] /\ lost' = lost
        /\ counts' = [counts EXCEPT ![Select] = @ + 1]
    BY <1>5 DEF Forward
  <2>2. CASE w = Select
    <3>1. InFlight(w)' = InFlight(w) \cup {r} /\ r \notin InFlight(w)
      BY <2>1, <2>2 DEF InFlight, Shape
    <3>2. counts'[w] = counts[w] + 1 /\ lost'[w] = lost[w]
      BY <2>1, <2>2 DEF Shape
    <3> QED BY <1>1, <3>1, <3>2, OneMore
  <2>3. CASE w # Select
    BY <1>2, <2>1, <2>3 DEF InFlight, Shape
  <2> QED BY <2>2, <2>3
<1>6. ASSUME NEW r \in Requests, Retry(r) \/ Resend(r)
      PROVE  counts'[w] = Cardinality(InFlight(w)') + lost'[w]
  <2>1. /\ rq[r] \in {"sent", "backoff"} /\ UNCHANGED <<url, counts, lost>>
        /\ rq' \in {[rq EXCEPT ![r] = s] : s \in {"sent", "backoff"}}
    BY <1>6 DEF Retry, Resend
  <2> QED BY <1>2, <2>1 DEF InFlight, Shape
<1>7. ASSUME NEW r \in Requests, Respond(r) \/ GiveUp(r)
      PROVE  counts'[w] = Cardinality(InFlight(w)') + lost'[w]
  <2>1. rq[r] = "sent" /\ rq' = [rq EXCEPT ![r] = "none"] /\ UNCHANGED url
    BY <1>7 DEF Respond, GiveUp
  <2>2. CASE w = url[r]
    <3>1. InFlight(w)' = InFlight(w) \ {r} /\ r \in InFlight(w)
      BY <2>1, <2>2 DEF InFlight, Shape
    <3>2. Cardinality(InFlight(w)) \in Nat \ {0}
          /\ Cardinality(InFlight(w)') = Cardinality(InFlight(w)) - 1
      BY <1>1, <3>1, OneLess
    <3>3. CASE Respond(r)
      <4>1. counts[w] # 0
        BY <1>1, <3>2
      <4>2. counts'[w] = counts[w] - 1 /\ lost'[w] = lost[w]
        BY <2>2, <3>3, <4>1 DEF Respond, Shape
      <4> QED BY <1>1, <3>2, <4>2
    <3>4. CASE GiveUp(r)
      <4>1. counts'[w] = counts[w] /\ lost'[w] = lost[w] + 1
        BY <2>2, <3>4 DEF GiveUp, Shape
      <4> QED BY <1>1, <3>2, <4>1
    <3> QED BY <1>7, <3>3, <3>4
  <2>3. CASE w # url[r]
    <3>1. counts'[w] = counts[w] /\ lost'[w] = lost[w]
      BY <1>7, <2>3 DEF Respond, GiveUp, Shape
    <3> QED BY <1>2, <2>1, <2>3, <3>1 DEF InFlight, Shape
  <2> QED BY <2>2, <2>3
<1>8. ASSUME NEW r \in Requests, Limited(r), ~Post(r)
      PROVE  UNCHANGED router
  BY <1>8 DEF Limited, Acquire, Wait, Reserve, Redeem, Decode, Compute, Expire
<1>9. CASE UNCHANGED vars \/ Tick
  BY <1>3, <1>9 DEF vars, Tick
<1> QED BY <1>3, <1>4, <1>5, <1>6, <1>7, <1>8, <1>9 DEF Next, Routed

\* The step that takes a thread.
LEMMA ThreadsKept ==
  ASSUME Shape, InStep, ThreadsSuffice, [Next]_vars
  PROVE  ThreadsSuffice'
<1> SUFFICES ASSUME blocking' PROVE Cardinality(Running') <= Threads
  BY DEF ThreadsSuffice
<1>1. UNCHANGED config
  BY DEF Next, vars, Tick, Limited, Routed, Acquire, Wait, Reserve, Redeem, Decode, Compute,
         Expire, Post, Run, Forward, Respond, Retry, Resend, GiveUp
<1>2. blocking /\ Cardinality(Running) <= Threads
  BY <1>1 DEF config, ThreadsSuffice
<1>3. Running \in SUBSET Requests /\ IsFiniteSet(Running) /\ Cardinality(Running) \in Nat
      /\ Threads \in Nat /\ job \in [Requests -> {"none", "queued", "running"}]
  BY Sizes, FS_Subset, FS_CardinalityType DEF Running, Shape
<1>4. ASSUME \A q \in Requests : job'[q] = "running" => job[q] = "running"
      PROVE  Cardinality(Running') <= Threads
  <2>1. Running' \in SUBSET Running
    BY <1>4 DEF Running
  <2>2. Cardinality(Running') <= Cardinality(Running) /\ Cardinality(Running') \in Nat
    BY <1>3, <2>1, FS_Subset, FS_CardinalityType
  <2> QED BY <1>2, <1>3, <2>2
<1>5. ASSUME NEW r \in Requests, Run(r)
      PROVE  Cardinality(Running') <= Threads
  <2>1. Running' = Running \cup {r} /\ r \notin Running
    BY <1>3, <1>5 DEF Run, Running
  <2>2. Running = {q \in Requests : blocking /\ job[q] = "running"}
    BY <1>2 DEF Running
  <2>3. Cardinality(Running) < Threads
    BY <1>2, <1>5, <2>2 DEF Run, Busy
  <2> QED BY <1>3, <2>1, <2>3, OneMore
<1>6. ASSUME NEW r \in Requests, NEW ok \in BOOLEAN, Reply(r, ok)
      PROVE  Cardinality(Running') <= Threads
  BY <1>3, <1>4, <1>6 DEF Reply, Result, Answer
<1>7. ASSUME NEW r \in Requests, Limited(r)
      PROVE  Cardinality(Running') <= Threads
  BY <1>3, <1>4, <1>7 DEF Limited, Acquire, Wait, Reserve, Redeem, Decode, Compute, Expire, Post
<1>8. ASSUME NEW r \in Requests, Routed(r)
      PROVE  Cardinality(Running') <= Threads
  BY <1>4, <1>6, <1>8 DEF Routed, Forward, Respond, Retry, Resend, GiveUp, clients
<1>9. CASE UNCHANGED vars \/ Tick
  BY <1>4, <1>9 DEF vars, clients, Tick
<1> QED BY <1>5, <1>7, <1>8, <1>9 DEF Next
-------------------------------------------------------------------------------
RewardInv == /\ Shape /\ InStep /\ Level /\ PermitsReturned /\ CountsKept /\ ThreadsSuffice

LEMMA InitInv == Init => RewardInv
<1> SUFFICES ASSUME Init PROVE RewardInv
  OBVIOUS
<1>1. Shape
  <2>1. custom \in BOOLEAN /\ blocking \in BOOLEAN
    BY DEF Init
  <2>2. tokens \in [Buckets -> Int] /\ credit \in [Buckets -> Int]
        /\ \A b \in Buckets : tokens[b] <= Cap[b]
    BY Sizes DEF Init
  <2>3. pc \in [Requests -> PCs]
    BY DEF Init, PCs
  <2>4. 1 \in Workers /\ url \in [Requests -> Workers]
    BY Sizes DEF Init, Workers
  <2> QED BY <2>1, <2>2, <2>3, <2>4, Sizes DEF Init, Shape
<1>2. InStep
  BY Sizes DEF Init, InStep, Flow, Reserved
<1>3. Level
  <2> SUFFICES ASSUME NEW b \in Buckets PROVE credit[b] >= 0 /\ credit[b] = Refilled(b)
    BY DEF Level
  <2>1. Rate[b] \in Nat /\ Cap[b] \in Nat /\ 0 * Rate[b] = 0
    BY Sizes
  <2>2. Refilled(b) = Smaller(Cap[b], Cap[b] + 0)
    BY <2>1 DEF Init, Refilled
  <2> QED BY <2>1, <2>2 DEF Init, Smaller
<1>4. \A r \in Requests : pc[r] # "compute" /\ job[r] # "running" /\ rq[r] = "none"
  BY DEF Init
<1>5. PermitsReturned
  <2>1. {r \in Requests : pc[r] = "compute"} = {}
    BY <1>4
  <2> QED BY <2>1, FS_EmptySet, Sizes DEF Init, PermitsReturned
<1>6. CountsKept
  <2>1. \A w \in Workers : InFlight(w) = {}
    BY <1>4 DEF InFlight
  <2> QED BY <2>1, FS_EmptySet DEF Init, CountsKept
<1>7. ThreadsSuffice
  <2>1. Running = {}
    BY <1>4 DEF Running
  <2> QED BY <2>1, FS_EmptySet, Sizes DEF ThreadsSuffice
<1> QED BY <1>1, <1>2, <1>3, <1>5, <1>6, <1>7 DEF RewardInv

LEMMA NextInv == RewardInv /\ [Next]_vars => RewardInv'
  BY ShapeKept, FlowKept, LevelKept, PermitsKept, CountsStep, ThreadsKept DEF RewardInv

LEMMA Inductive == Spec => []RewardInv
  BY InitInv, NextInv, PTL DEF Spec

\* Types, and the bounds of the loops of the clients and of the router.
THEOREM RewardTyped == Spec => []TypeOK
<1>1. RewardInv => TypeOK
  <2> SUFFICES ASSUME RewardInv PROVE TypeOK
    OBVIOUS
  <2>1. permits = MaxConcurrent - Cardinality(Computing) /\ permits \in Nat
    BY DEF RewardInv, PermitsReturned, Computing, Shape
  <2>2. Cardinality(Computing) \in Nat
    BY Sizes, FS_Subset, FS_CardinalityType DEF Computing
  <2>3. permits \in 0..MaxConcurrent
    BY <2>1, <2>2, Sizes
  <2> QED BY <2>3 DEF RewardInv, Shape, TypeOK, PCs
<1> QED BY <1>1, Inductive, PTL

\* The rate limit: in no stretch of time are more than max_tokens granted beyond what its
\* ticks bring, for any rates and any number of requests that wait for the same tokens.
THEOREM RatesHold == Spec => []BurstBounded
<1>1. RewardInv => BurstBounded
  BY DEF RewardInv, Level, BurstBounded
<1> QED BY <1>1, Inductive, PTL

\* The semaphore: every way out of run_single returns the permit.
THEOREM PermitsComeBack == Spec => []PermitsReturned
  BY Inductive, PTL DEF RewardInv

\* The router's count of a worker is what the worker has, and what it has failed.
THEOREM RouterCounts == Spec => []CountsKept
  BY Inductive, PTL DEF RewardInv

\* What bounds the reward functions that run at one time: max_concurrent if they are
\* coroutines, and otherwise only the threads of the executor.
THEOREM FunctionsBounded == Spec => []ParallelBounded
<1>1. RewardInv => ParallelBounded
  <2> SUFFICES ASSUME RewardInv PROVE ParallelBounded
    OBVIOUS
  <2>1. CASE blocking
    BY <2>1 DEF RewardInv, ThreadsSuffice, ParallelBounded, Running
  <2>2. CASE ~blocking
    <3>1. Running \in SUBSET Computing
      BY <2>2 DEF RewardInv, InStep, Flow, Running, Computing
    <3>2. IsFiniteSet(Computing)
      BY Sizes, FS_Subset DEF Computing
    <3>3. /\ Cardinality(Running) \in Nat /\ Cardinality(Computing) \in Nat
          /\ Cardinality(Running) <= Cardinality(Computing)
      BY <3>1, <3>2, FS_Subset, FS_CardinalityType
    <3>4. permits = MaxConcurrent - Cardinality(Computing) /\ permits \in Nat
      BY DEF RewardInv, PermitsReturned, Computing, Shape
    <3>5. Cardinality(Running) <= MaxConcurrent
      BY <3>3, <3>4, Sizes
    <3> QED BY <2>2, <3>5 DEF ParallelBounded, Running
  <2> QED BY <2>1, <2>2
<1> QED BY <1>1, Inductive, PTL

\* No answer changes a reward that has been given, the zero of a timeout included.
THEOREM RewardsAreFinal == Spec => RewardStands
<1> DEFINE Stands == \A r \in Requests : pc[r] \in {"done", "failed"} => reward'[r] = reward[r]
<1>1. ASSUME RewardInv, [Next]_vars PROVE [Stands]_vars
  <2> USE DEF Shape, RewardInv
  <2> SUFFICES ASSUME RewardInv, NEW q \in Requests, pc[q] \in {"done", "failed"}, Next
               PROVE  reward'[q] = reward[q]
    BY <1>1
  <2>1. ASSUME NEW r \in Requests, Expire(r)
        PROVE  reward'[q] = reward[q]
    BY <2>1 DEF Expire, Finish
  <2>2. ASSUME NEW r \in Requests, NEW ok \in BOOLEAN, Reply(r, ok), rq[r] = "sent"
        PROVE  reward'[q] = reward[q]
    <3>1. CASE custom
      BY <2>2, <3>1 DEF Reply, Result, Finish
    <3>2. CASE ~custom
      <4>1. pc[r] = "answer"
        BY <2>2, <3>2 DEF InStep, Flow
      <4> QED BY <2>2, <3>2, <4>1 DEF Reply, Answer, Finish
    <3> QED BY <3>1, <3>2
  <2>3. ASSUME NEW r \in Requests, Limited(r), ~Expire(r)
        PROVE  reward' = reward
    BY <2>3 DEF Limited, Acquire, Wait, Reserve, Redeem, Decode, Compute, Post
  <2>4. ASSUME NEW r \in Requests, Routed(r)
        PROVE  reward'[q] = reward[q]
    BY <2>2, <2>4 DEF Routed, Forward, Respond, Retry, Resend, GiveUp, clients
  <2>5. ASSUME NEW r \in Requests, Run(r)
        PROVE  reward' = reward
    BY <2>5 DEF Run
  <2>6. CASE Tick
    BY <2>6 DEF Tick
  <2> QED BY <2>1, <2>3, <2>4, <2>5, <2>6 DEF Next
<1> QED BY <1>1, Inductive, PTL DEF Spec, RewardStands
===============================================================================
