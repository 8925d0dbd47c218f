------------------------------- MODULE RewardLoop ------------------------------
(***************************************************************************)
(* Rewards of one RewardLoopWorker.  With a custom reward function every   *)
(* request passes the rate-limited manager: two token buckets, a           *)
(* semaphore, and the function under a timeout.  Without one the worker    *)
(* asks the reward model itself, and repeats what failed.  Both reach the  *)
(* reward model through the router, which counts what its workers have.    *)
(*                                                                         *)
(* Time passes in ticks.  A score is not told from another, only from the  *)
(* zero of a failure.                                                      *)
(***************************************************************************)
EXTENDS Integers, FiniteSets, FiniteSetsExt

CONSTANTS
  Requests,       \* samples of compute_score_batch
  Cap, Rate, Need,\* of each bucket: max_tokens, rate_limit, tokens of a request
  MaxConcurrent,  \* max_concurrent
  Timeout,        \* timeout of the function
  Threads,        \* of the default executor
  WorkerNum,      \* worker_urls of the router
  MaxAttempts,    \* max_attempts of the router
  MaxRetries      \* max_retries of _post_request

Buckets == {"rpm", "tpm"}
Workers == 1..WorkerNum

ASSUME RewardAssumption ==
  /\ IsFiniteSet(Requests)
  /\ Cap \in [Buckets -> Nat \ {0}] /\ Rate \in [Buckets -> Nat \ {0}]
  /\ Need \in [Buckets -> Nat]
  /\ {MaxConcurrent, Timeout, Threads, WorkerNum, MaxAttempts, MaxRetries}
       \subseteq Nat \ {0}

VARIABLES
  custom,    \* custom_reward_function.path is set
  blocking,  \* and the function is not a coroutine: it runs in the executor
  \* the worker
  pc,        \* where a request is
  left,      \* ticks its sleep or timeout has left
  tokens,    \* of a bucket, at last_update
  elapsed,   \* ticks since last_update, as far as they matter
  permits,   \* of the semaphore
  job,       \* the reward function of a request
  reward,
  tries,     \* requests _post_request has sent
  \* the router
  rq,        \* where it is with a request
  attempt,
  url,       \* the worker it has chosen
  counts,    \* request_counts
  \* history
  lost,      \* of a worker: requests that failed
  credit     \* of a bucket that is refilled with every tick

config  == <<custom, blocking>>
limits  == <<tokens, elapsed, credit>>
clients == <<pc, left, permits, job, reward, tries>>
router  == <<rq, attempt, url, counts, lost>>
vars == <<config, limits, clients, router>>

Smaller(a, b) == IF a < b THEN a ELSE b

Init ==
  /\ custom \in BOOLEAN
  /\ blocking \in IF custom THEN BOOLEAN ELSE {FALSE}
  /\ pc = [r \in Requests |-> IF custom THEN "decode" ELSE "post"]
  /\ left = [r \in Requests |-> 0]
  /\ tokens = Cap /\ credit = Cap
  /\ elapsed = [b \in Buckets |-> 0]
  /\ permits = MaxConcurrent
  /\ job = [r \in Requests |-> "none"]
  /\ reward = [r \in Requests |-> "none"]
  /\ tries = [r \in Requests |-> 0]
  /\ rq = [r \in Requests |-> "none"]
  /\ attempt = [r \in Requests |-> 0]
  /\ url = [r \in Requests |-> 1]
  /\ counts = [w \in Workers |-> 0] /\ lost = [w \in Workers |-> 0]
-------------------------------------------------------------------------------
(***************************************************************************)
(* The token buckets.                                                      *)
(***************************************************************************)
\* acquire: the tokens of a bucket when it is brought up to date.
Refilled(b) == Smaller(Cap[b], tokens[b] + elapsed[b] * Rate[b])

\* Ticks until n tokens have come.
Ticks(b, n) == (n + Rate[b] - 1) \div Rate[b]

\* Where a request goes that has its tokens.
After(b) == IF b = "rpm" THEN "tpm" ELSE "sem"

\* Where it waits for tokens that are already its own.
Reserved(b) == IF b = "rpm" THEN "rpmReserved" ELSE "tpmReserved"

Granted(r, b) ==
  /\ pc' = [pc EXCEPT ![r] = After(b)]
  /\ credit' = [credit EXCEPT ![b] = @ - Need[b]]

\* Bug: last_update is not moved.
UpToStale(b, n) ==
  /\ tokens' = [tokens EXCEPT ![b] = n]
  /\ UNCHANGED elapsed

\* A bucket is brought up to date.
UpTo(b, n) ==
  /\ tokens' = [tokens EXCEPT ![b] = n]
  /\ elapsed' = [elapsed EXCEPT ![b] = 0]

\* acquire: the tokens are there.
Acquire(r, b) ==
  /\ pc[r] = b /\ left[r] = 0 /\ Refilled(b) >= Need[b]
  /\ UpTo(b, Refilled(b) - Need[b])
  /\ Granted(r, b)
  /\ UNCHANGED <<config, left, permits, job, reward, tries, router>>

\* They are not: sleep, then start over.
Wait(r, b) ==
  /\ pc[r] = b /\ left[r] = 0 /\ Refilled(b) < Need[b] /\ Need[b] <= Cap[b]
  /\ UpTo(b, Refilled(b))
  /\ left' = [left EXCEPT ![r] = Ticks(b, Need[b] - Refilled(b))]
  /\ UNCHANGED <<config, credit, pc, permits, job, reward, tries, router>>

\* More than max_tokens: they are taken in advance, and slept for.
Reserve(r, b) ==
  /\ pc[r] = b /\ left[r] = 0 /\ Refilled(b) < Need[b] /\ Need[b] > Cap[b]
  /\ UpTo(b, Refilled(b) - Need[b])
  /\ left' = [left EXCEPT ![r] = Ticks(b, Need[b] - Refilled(b))]
  /\ pc' = [pc EXCEPT ![r] = Reserved(b)]
  /\ UNCHANGED <<config, credit, permits, job, reward, tries, router>>

Redeem(r, b) ==
  /\ pc[r] = Reserved(b) /\ left[r] = 0
  /\ Granted(r, b)
  /\ UNCHANGED <<config, tokens, elapsed, left, permits, job, reward, tries, router>>

\* A timer that is due fires before time goes on.
Due(r) == left[r] = 0 /\ pc[r] \in {"rpm", "tpm", "rpmReserved", "tpmReserved", "compute"}

Tick ==
  /\ \A r \in Requests : ~Due(r)
  /\ left' = [r \in Requests |-> IF left[r] = 0 THEN 0 ELSE left[r] - 1]
  /\ elapsed' = [b \in Buckets |->
                   IF Refilled(b) = Cap[b] THEN elapsed[b] ELSE elapsed[b] + 1]
  /\ credit' = [b \in Buckets |-> Smaller(Cap[b], credit[b] + Rate[b])]
  /\ UNCHANGED <<config, tokens, pc, permits, job, reward, tries, router>>
-------------------------------------------------------------------------------
(***************************************************************************)
(* run_single and the reward function.                                     *)
(***************************************************************************)
Busy == Cardinality({r \in Requests : blocking /\ job[r] = "running"})

\* The response is decoded in the executor.
Decode(r) ==
  /\ pc[r] = "decode" /\ Busy < Threads
  /\ pc' = [pc EXCEPT ![r] = "rpm"]
  /\ UNCHANGED <<config, limits, left, permits, job, reward, tries, router>>

\* The semaphore; then the function, under the timeout.
Compute(r) ==
  /\ pc[r] = "sem" /\ permits > 0
  /\ permits' = permits - 1
  /\ pc' = [pc EXCEPT ![r] = "compute"]
  /\ left' = [left EXCEPT ![r] = Timeout]
  /\ job' = [job EXCEPT ![r] = "queued"]
  /\ UNCHANGED <<config, limits, reward, tries, router>>

\* The function starts, in a thread if it is blocking, and posts to the router.
Run(r) ==
  /\ job[r] = "queued" /\ (blocking => Busy < Threads)
  /\ job' = [job EXCEPT ![r] = "running"]
  /\ rq' = [rq EXCEPT ![r] = "posted"]
  /\ UNCHANGED <<config, limits, pc, left, permits, reward, tries, attempt, url, counts,
                 lost>>

Finish(r, result) ==
  /\ pc' = [pc EXCEPT ![r] = "done"]
  /\ reward' = [reward EXCEPT ![r] = result]
  /\ left' = [left EXCEPT ![r] = 0]

\* Bug: the semaphore is not released.
ExpireHolding(r) ==
  /\ pc[r] = "compute" /\ left[r] = 0
  /\ Finish(r, "zero")
  /\ job' = [job EXCEPT ![r] = IF blocking /\ @ = "running" THEN @ ELSE "none"]
  /\ UNCHANGED <<config, limits, permits, tries, router>>

\* Bug: the coroutine is not cancelled.
ExpireUncancelled(r) ==
  /\ pc[r] = "compute" /\ left[r] = 0
  /\ Finish(r, "zero")
  /\ permits' = permits + 1
  /\ UNCHANGED <<config, limits, job, tries, router>>

\* wait_for gives up: a coroutine is cancelled, a thread goes on.
Expire(r) ==
  /\ pc[r] = "compute" /\ left[r] = 0
  /\ Finish(r, "zero")
  /\ permits' = permits + 1
  /\ job' = [job EXCEPT ![r] = IF blocking /\ @ = "running" THEN @ ELSE "none"]
  /\ UNCHANGED <<config, limits, tries, router>>
-------------------------------------------------------------------------------
(***************************************************************************)
(* compute_score_disrm: _post_request.                                     *)
(***************************************************************************)
Post(r) ==
  /\ pc[r] = "post"
  /\ pc' = [pc EXCEPT ![r] = "answer"]
  /\ rq' = [rq EXCEPT ![r] = "posted"]
  /\ UNCHANGED <<config, limits, left, permits, job, reward, tries, attempt, url, counts,
                 lost>>

\* Bug: the answer that comes late replaces the zero.
ResultLate(r, ok) ==
  /\ job' = [job EXCEPT ![r] = "none"]
  /\ Finish(r, IF ok THEN "score" ELSE "zero")
  /\ permits' = IF pc[r] = "compute" THEN permits + 1 ELSE permits
  /\ UNCHANGED tries

\* The reward function has its result, which goes nowhere if its time is over.
Result(r, ok) ==
  /\ job' = [job EXCEPT ![r] = "none"]
  /\ IF pc[r] = "compute"
     THEN Finish(r, IF ok THEN "score" ELSE "zero") /\ permits' = permits + 1
     ELSE UNCHANGED <<pc, left, permits, reward>>
  /\ UNCHANGED tries

\* _post_request has an answer.  What failed is repeated, up to max_retries: whatever the
\* worker answered, an error of the router is a server error.  An answer that can be read
\* but has no score in it makes compute_score_disrm raise.
Answer(r, ok) ==
  /\ tries' = [tries EXCEPT ![r] = @ + 1]
  /\ \/ ok /\ Finish(r, "score")
     \/ /\ pc' = [pc EXCEPT ![r] = IF ~ok /\ tries[r] + 1 < MaxRetries THEN "post"
                                                                     ELSE "failed"]
        /\ UNCHANGED <<left, reward>>
  /\ UNCHANGED <<permits, job>>

Reply(r, ok) == IF custom THEN Result(r, ok) ELSE Answer(r, ok)
-------------------------------------------------------------------------------
(***************************************************************************)
(* NaiveRouter.                                                            *)
(***************************************************************************)
\* _select_worker: the first of those with the fewest requests.
Select == Min({w \in Workers : \A x \in Workers : counts[w] <= counts[x]})

Forward(r) ==
  /\ rq[r] = "posted"
  /\ url' = [url EXCEPT ![r] = Select]
  /\ counts' = [counts EXCEPT ![Select] = @ + 1]
  /\ attempt' = [attempt EXCEPT ![r] = 1]
  /\ rq' = [rq EXCEPT ![r] = "sent"]
  /\ UNCHANGED <<config, limits, clients, lost>>

\* The worker answers: _release_worker.  The client may still fail to read the answer,
\* and so may a reward function.
Respond(r) ==
  /\ rq[r] = "sent"
  /\ counts' = [counts EXCEPT ![url[r]] = IF @ = 0 THEN 0 ELSE @ - 1]
  /\ rq' = [rq EXCEPT ![r] = "none"]
  /\ \E ok \in BOOLEAN : Reply(r, ok)
  /\ UNCHANGED <<config, limits, attempt, url, lost>>

\* Bug: the worker is released whenever an attempt fails, and again by the answer.
RetryReleasing(r) ==
  /\ rq[r] = "sent" /\ attempt[r] < MaxAttempts
  /\ rq' = [rq EXCEPT ![r] = "backoff"]
  /\ counts' = [counts EXCEPT ![url[r]] = IF @ = 0 THEN 0 ELSE @ - 1]
  /\ UNCHANGED <<config, limits, clients, attempt, url, lost>>

\* A timeout, a connection or another error, but not the last: sleep, and try again.
Retry(r) ==
  /\ rq[r] = "sent" /\ attempt[r] < MaxAttempts
  /\ rq' = [rq EXCEPT ![r] = "backoff"]
  /\ UNCHANGED <<config, limits, clients, attempt, url, counts, lost>>

Resend(r) ==
  /\ rq[r] = "backoff"
  /\ rq' = [rq EXCEPT ![r] = "sent"]
  /\ attempt' = [attempt EXCEPT ![r] = @ + 1]
  /\ UNCHANGED <<config, limits, clients, url, counts, lost>>

\* The last attempt fails, or the worker answers with an error: the handler raises.
GiveUp(r) ==
  /\ rq[r] = "sent"
  /\ rq' = [rq EXCEPT ![r] = "none"]
  /\ lost' = [lost EXCEPT ![url[r]] = @ + 1]
  /\ Reply(r, FALSE)
  /\ UNCHANGED <<config, limits, attempt, url, counts>>
-------------------------------------------------------------------------------
Limited(r) ==
  \/ \E b \in Buckets : Acquire(r, b) \/ Wait(r, b) \/ Reserve(r, b) \/ Redeem(r, b)
  \/ Decode(r) \/ Compute(r) \/ Expire(r) \/ Post(r)

Routed(r) == Forward(r) \/ Respond(r) \/ Retry(r) \/ Resend(r) \/ GiveUp(r)

Next == Tick \/ \E r \in Requests : Limited(r) \/ Run(r) \/ Routed(r)

Spec == Init /\ [][Next]_vars

\* Time passes, what can go on does, and a worker answers or fails.
FairSpec ==
  /\ Spec /\ WF_vars(Tick)
  /\ \A r \in Requests : WF_vars(Limited(r)) /\ WF_vars(Run(r)) /\ WF_vars(Routed(r))
-------------------------------------------------------------------------------
(***************************************************************************)
(* Properties                                                              *)
(***************************************************************************)
InFlight(w) == {r \in Requests : rq[r] \in {"sent", "backoff"} /\ url[r] = w}

\* Types; the loops of the clients and of the router are bounded.
TypeOK ==
  /\ pc \in [Requests -> {"decode", "rpm", "tpm", "rpmReserved", "tpmReserved", "sem",
                          "compute", "post", "answer", "done", "failed"}]
  /\ left \in [Requests -> Nat]
  /\ tokens \in [Buckets -> Int] /\ elapsed \in [Buckets -> Nat]
  /\ \A b \in Buckets : tokens[b] <= Cap[b]
  /\ permits \in 0..MaxConcurrent
  /\ job \in [Requests -> {"none", "queued", "running"}]
  /\ reward \in [Requests -> {"none", "score", "zero"}]
  /\ tries \in [Requests -> 0..MaxRetries]
  /\ rq \in [Requests -> {"none", "posted", "sent", "backoff"}]
  /\ attempt \in [Requests -> 0..MaxAttempts] /\ url \in [Requests -> Workers]
  /\ counts \in [Workers -> Nat]

\* "allowing for burst traffic while maintaining an average rate limit" (limited.py:33): in
\* no stretch of time are more than max_tokens granted beyond what its ticks bring,
\* although the bucket is only refilled when somebody asks, many wait for the same
\* tokens, and the lock is given up to sleep.
BurstBounded == \A b \in Buckets : Need[b] <= Cap[b] => credit[b] >= 0

\* Every way out of run_single returns the permit, the timeout that races the answer too.
PermitsReturned ==
  permits = MaxConcurrent - Cardinality({r \in Requests : pc[r] = "compute"})

\* The router's count of a worker is what the worker has, and what it has failed
\* (_release_worker is only reached with an answer): it is never too low, and max(0, ...)
\* hides no request released twice.
CountsKept == \A w \in Workers : counts[w] = Cardinality(InFlight(w)) + lost[w]

\* A reward stands: an answer after the timeout, from a thread that went on, changes nothing.
RewardStands ==
  [][\A r \in Requests : pc[r] \in {"done", "failed"} => reward'[r] = reward[r]]_vars

\* Every request is answered, or has failed for good, if the workers answer or fail.
Answered == <>(\A r \in Requests : pc[r] \in {"done", "failed"})

\* What bounds the requests of reward functions that run at one time.  max_concurrent does
\* it for coroutines ("Limits the number of simultaneous API requests", limited.py:182);
\* blocking ones outlive their timeout, and then only the threads of the executor do.
ParallelBounded ==
  Cardinality({r \in Requests : job[r] = "running"})
    <= IF blocking THEN Threads ELSE MaxConcurrent
===============================================================================
