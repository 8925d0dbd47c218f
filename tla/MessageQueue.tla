----------------------------- MODULE MessageQueue -----------------------------
(***************************************************************************)
(* The MessageQueue actor: its handlers are coroutines of one event loop.  *)
(* A handler takes the lock, runs without awaiting and releases it, so     *)
(* each is one step; only get_sample suspends in between, on the condition *)
(* variable of the consumers, and looks at the queue again when notified.  *)
(* A client has one call under way at a time.                              *)
(***************************************************************************)
EXTENDS Naturals, Sequences

CONSTANTS
  Producers, Consumers,
  MaxQueueSize,   \* max_queue_size
  MaxPuts         \* bound of the model: samples each producer puts

ASSUME QueueAssumption == MaxQueueSize \in Nat \ {0} /\ MaxPuts \in Nat

VARIABLES
  queue,      \* the samples in it, <<producer, number>>
  running,
  produced, consumed, dropped,
  cleared,    \* samples thrown away by clear_queue
  got,        \* the samples handed out, in that order
  sent,       \* samples each producer has made
  put, get    \* where the call of each producer and each consumer is

data  == <<queue, produced, consumed, dropped, cleared, got>>
vars  == <<data, running, sent, put, get>>

Init ==
  /\ queue = <<>> /\ running = TRUE
  /\ produced = 0 /\ consumed = 0 /\ dropped = 0 /\ cleared = 0
  /\ got = <<>>
  /\ sent = [p \in Producers |-> 0]
  /\ put = [p \in Producers |-> "idle"]
  /\ get = [c \in Consumers |-> "idle"]

\* What a producer can put: the n-th sample it makes.
Entries == Producers \X (1..MaxPuts)

\* _consumer_condition.notify_all()
NotifyAll == get' = [c \in Consumers |-> IF get[c] = "waiting" THEN "woken"
                                                               ELSE get[c]]

\* append on a deque with maxlen: a full one loses its oldest entry, unasked.
Push(q, e) == Append(IF Len(q) = MaxQueueSize THEN Tail(q) ELSE q, e)
-------------------------------------------------------------------------------
CallPut(p) ==
  /\ put[p] = "idle" /\ sent[p] < MaxPuts
  /\ put' = [put EXCEPT ![p] = "called"]
  /\ sent' = [sent EXCEPT ![p] = @ + 1]
  /\ UNCHANGED <<data, running, get>>

\* Bug: the test for a full queue is off by one; maxlen makes the room instead.
PutSampleTooLate(p) ==
  /\ put[p] = "called"
  /\ IF Len(queue) > MaxQueueSize
     THEN /\ queue' = Push(Tail(queue), <<p, sent[p]>>)
          /\ dropped' = dropped + 1
          /\ put' = [put EXCEPT ![p] = "full"]
     ELSE /\ queue' = Push(queue, <<p, sent[p]>>)
          /\ put' = [put EXCEPT ![p] = "stored"]
          /\ UNCHANGED dropped
  /\ produced' = produced + 1
  /\ NotifyAll
  /\ UNCHANGED <<consumed, cleared, got, running, sent>>

\* Bug: a full queue loses the newest entry instead of the oldest.
PutSampleDropsNewest(p) ==
  /\ put[p] = "called"
  /\ IF Len(queue) >= MaxQueueSize
     THEN /\ queue' = [queue EXCEPT ![Len(queue)] = <<p, sent[p]>>]
          /\ dropped' = dropped + 1
          /\ put' = [put EXCEPT ![p] = "full"]
     ELSE /\ queue' = Push(queue, <<p, sent[p]>>)
          /\ put' = [put EXCEPT ![p] = "stored"]
          /\ UNCHANGED dropped
  /\ produced' = produced + 1
  /\ NotifyAll
  /\ UNCHANGED <<consumed, cleared, got, running, sent>>

\* put_sample: the reply tells whether an older sample was lost.
PutSample(p) ==
  /\ put[p] = "called"
  /\ IF Len(queue) >= MaxQueueSize
     THEN /\ queue' = Push(Tail(queue), <<p, sent[p]>>)
          /\ dropped' = dropped + 1
          /\ put' = [put EXCEPT ![p] = "full"]
     ELSE /\ queue' = Push(queue, <<p, sent[p]>>)
          /\ put' = [put EXCEPT ![p] = "stored"]
          /\ UNCHANGED dropped
  /\ produced' = produced + 1
  /\ NotifyAll
  /\ UNCHANGED <<consumed, cleared, got, running, sent>>

PutReturns(p) ==
  /\ put[p] \in {"stored", "full"}
  /\ put' = [put EXCEPT ![p] = "idle"]
  /\ UNCHANGED <<data, running, sent, get>>
-------------------------------------------------------------------------------
\* A consumer that was told the queue is closed does not call again.
CallGet(c) ==
  /\ get[c] = "idle"
  /\ get' = [get EXCEPT ![c] = "called"]
  /\ UNCHANGED <<data, running, sent, put>>

\* Bug: pop for popleft.
GetSampleNewest(c) ==
  /\ get[c] \in {"called", "woken"}
  /\ IF queue = <<>>
     THEN /\ get' = [get EXCEPT ![c] = IF running THEN "waiting" ELSE "closed"]
          /\ UNCHANGED <<queue, consumed, got>>
     ELSE /\ queue' = SubSeq(queue, 1, Len(queue) - 1)
          /\ consumed' = consumed + 1
          /\ got' = Append(got, queue[Len(queue)])
          /\ get' = [get EXCEPT ![c] = "sample"]
  /\ UNCHANGED <<produced, dropped, cleared, running, sent, put>>

\* get_sample, from the call or from condition.wait().
GetSample(c) ==
  /\ get[c] \in {"called", "woken"}
  /\ IF queue = <<>>
     THEN /\ get' = [get EXCEPT ![c] = IF running THEN "waiting" ELSE "closed"]
          /\ UNCHANGED <<queue, consumed, got>>
     ELSE /\ queue' = Tail(queue)
          /\ consumed' = consumed + 1
          /\ got' = Append(got, Head(queue))
          /\ get' = [get EXCEPT ![c] = "sample"]
  /\ UNCHANGED <<produced, dropped, cleared, running, sent, put>>

GetReturns(c) ==
  /\ get[c] = "sample"
  /\ get' = [get EXCEPT ![c] = "idle"]
  /\ UNCHANGED <<data, running, sent, put>>
-------------------------------------------------------------------------------
\* Bug: shutdown does not wake the consumers.
ShutdownQuietly ==
  /\ running
  /\ running' = FALSE
  /\ UNCHANGED <<data, sent, put, get>>

\* shutdown: the waiting consumers are woken to see it.
Shutdown ==
  /\ running
  /\ running' = FALSE
  /\ NotifyAll
  /\ UNCHANGED <<data, sent, put>>

\* clear_queue
ClearQueue ==
  /\ queue # <<>>
  /\ queue' = <<>>
  /\ cleared' = cleared + Len(queue)
  /\ UNCHANGED <<produced, consumed, dropped, got, running, sent, put, get>>

Next ==
  \/ \E p \in Producers : CallPut(p) \/ PutSample(p) \/ PutReturns(p)
  \/ \E c \in Consumers : CallGet(c) \/ GetSample(c) \/ GetReturns(c)
  \/ Shutdown \/ ClearQueue

Spec == Init /\ [][Next]_vars

\* The event loop runs every handler that is ready, and Ray delivers replies.
Fairness ==
  /\ \A p \in Producers : WF_vars(PutSample(p))
  /\ \A c \in Consumers : WF_vars(GetSample(c))

FairSpec == Spec /\ Fairness
-------------------------------------------------------------------------------
PutStates == {"idle", "called", "stored", "full"}
GetStates == {"idle", "called", "waiting", "woken", "sample", "closed"}

\* The variables have their types; no get_sample ends with an exception.
TypeOK ==
  /\ queue \in Seq(Entries) /\ got \in Seq(Entries)
  /\ running \in BOOLEAN
  /\ produced \in Nat /\ consumed \in Nat /\ dropped \in Nat /\ cleared \in Nat
  /\ sent \in [Producers -> 0..MaxPuts]
  /\ put \in [Producers -> PutStates] /\ get \in [Consumers -> GetStates]

\* get_statistics tells the truth: what was produced is consumed, dropped by a
\* put that found the queue full, cleared or still there. The bound the deque
\* itself enforces never takes a sample behind put_sample's back.
Accounted ==
  /\ produced = consumed + dropped + cleared + Len(queue)
  /\ Len(queue) <= MaxQueueSize

\* No lost wake-up: a consumer sleeps on the condition only while the queue is
\* empty and open, however many consumers compete for a sample.
NoLostWakeup ==
  queue # <<>> \/ ~running => \A c \in Consumers : get[c] # "waiting"

\* After shutdown every get_sample returns: with a sample that was still there,
\* or with None.
ReleasedByShutdown ==
  \A c \in Consumers :
    ~running /\ get[c] \in {"called", "waiting", "woken"}
      ~> get[c] \in {"sample", "closed"}

-------------------------------------------------------------------------------
Lossy == INSTANCE LossyQueue WITH Entry   <- Entries,
                                  MaxSize <- MaxQueueSize

\* The actor with its suspended consumers behaves like a queue whose put and get
\* are atomic: this is what the model of the recipe uses.
ImplementsLossy == Lossy!Spec
===============================================================================
