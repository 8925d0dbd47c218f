------------------------------ MODULE QueueProofs ------------------------------
(***************************************************************************)
(* The message queue keeps its books, loses no wake-up and implements the  *)
(* atomic queue, for any number of producers, consumers and any size.      *)
(***************************************************************************)
EXTENDS MessageQueue, TLAPS

USE QueueAssumption

\* What the handlers rely on: a put under way carries a sample of its producer.
PutsCarry == \A p \in Producers : put[p] = "called" => sent[p] >= 1

QueueInv == TypeOK /\ Accounted /\ PutsCarry
-------------------------------------------------------------------------------
\* What append and popleft leave of a queue of entries.
LEMMA SeqKeeps ==
  ASSUME NEW S, NEW s \in Seq(S), NEW e \in S
  PROVE  /\ Append(s, e) \in Seq(S)
         /\ s # <<>> => Append(Tail(s), e) \in Seq(S)
<1>1. s # <<>> => Tail(s) \in Seq(S)
  OBVIOUS
<1> QED
  BY <1>1

\* put_sample makes room first, so the deque's own bound drops nothing.
LEMMA PutMakesRoom ==
  ASSUME NEW p \in Producers, QueueInv, PutSample(p)
  PROVE  /\ <<p, sent[p]>> \in Entries
         /\ \/ /\ Len(queue) < MaxQueueSize
               /\ queue' = Append(queue, <<p, sent[p]>>)
               /\ dropped' = dropped
            \/ /\ Len(queue) = MaxQueueSize
               /\ queue # <<>>
               /\ queue' = Append(Tail(queue), <<p, sent[p]>>)
               /\ dropped' = dropped + 1
<1>1. queue \in Seq(Entries) /\ Len(queue) <= MaxQueueSize /\ Len(queue) \in Nat
  BY DEF QueueInv, TypeOK, Accounted
<1>2. <<p, sent[p]>> \in Entries
  BY DEF QueueInv, TypeOK, PutsCarry, PutSample, Entries
<1>3. CASE Len(queue) >= MaxQueueSize
  <2>1. queue # <<>>
    BY <1>1, <1>3
  <2>2. Len(Tail(queue)) # MaxQueueSize
    BY <1>1, <1>3, <2>1
  <2> QED
    BY <1>1, <1>2, <1>3, <2>1, <2>2 DEF PutSample, Push
<1>4. CASE ~(Len(queue) >= MaxQueueSize)
  BY <1>1, <1>2, <1>4 DEF PutSample, Push
<1> QED
  BY <1>3, <1>4

\* The queue is empty and nothing is counted at first.
LEMMA QueueInit == Init => QueueInv
  BY DEF Init, QueueInv, TypeOK, Accounted, PutsCarry, PutStates, GetStates

\* Waking the consumers leaves each of them in a state of get_sample.
LEMMA NotifyTyped ==
  ASSUME TypeOK, NotifyAll
  PROVE  /\ get' \in [Consumers -> GetStates]
         /\ \A c \in Consumers : get'[c] # "waiting"
  BY DEF TypeOK, NotifyAll, GetStates

\* Every handler keeps the types, the accounts and the size of the queue.
LEMMA QueueStep == QueueInv /\ [Next]_vars => QueueInv'
<1> SUFFICES ASSUME QueueInv, [Next]_vars PROVE QueueInv'
  OBVIOUS
<1> USE DEF QueueInv
<1>0. /\ queue \in Seq(Entries) /\ got \in Seq(Entries)
      /\ Len(queue) \in Nat /\ Len(queue) <= MaxQueueSize
  BY DEF TypeOK, Accounted
<1>1. ASSUME NEW p \in Producers, CallPut(p) PROVE QueueInv'
  BY <1>1 DEF CallPut, data, TypeOK, Accounted, PutsCarry, PutStates
<1>2. ASSUME NEW p \in Producers, PutSample(p) PROVE QueueInv'
  <2>1. queue' \in Seq(Entries)
    <3> DEFINE e == <<p, sent[p]>>
    <3>1. e \in Entries
      BY <1>2, PutMakesRoom
    <3>2. \/ queue' = Append(queue, e)
          \/ queue # <<>> /\ queue' = Append(Tail(queue), e)
      BY <1>2, PutMakesRoom
    <3> HIDE DEF e
    <3>3. /\ Append(queue, e) \in Seq(Entries)
          /\ queue # <<>> => Append(Tail(queue), e) \in Seq(Entries)
      BY <1>0, <3>1, SeqKeeps
    <3> QED
      BY <3>2, <3>3
  <2>2. put' \in [Producers -> PutStates] /\ PutsCarry'
    BY <1>2 DEF PutSample, TypeOK, PutStates, PutsCarry
  <2>3. get' \in [Consumers -> GetStates]
    BY <1>2, NotifyTyped DEF PutSample
  <2>4. dropped' \in Nat
    <3>1. dropped' = dropped \/ dropped' = dropped + 1
      BY <1>2, PutMakesRoom
    <3> QED
      BY <3>1 DEF TypeOK
  <2>5. TypeOK'
    BY <1>2, <2>1, <2>2, <2>3, <2>4 DEF PutSample, TypeOK
  <2>6. Accounted'
    <3>1. CASE /\ Len(queue) < MaxQueueSize
               /\ queue' = Append(queue, <<p, sent[p]>>)
               /\ dropped' = dropped
      BY <1>0, <1>2, <3>1 DEF Accounted, PutSample, TypeOK
    <3>2. CASE /\ Len(queue) = MaxQueueSize
               /\ queue # <<>>
               /\ queue' = Append(Tail(queue), <<p, sent[p]>>)
               /\ dropped' = dropped + 1
      <4>1. Len(queue') = Len(queue)
        BY <1>0, <3>2
      <4> QED
        BY <1>0, <1>2, <3>2, <4>1 DEF Accounted, PutSample, TypeOK
    <3> QED
      BY <1>2, <3>1, <3>2, PutMakesRoom
  <2> QED
    BY <2>2, <2>5, <2>6
<1>3. ASSUME NEW p \in Producers, PutReturns(p) PROVE QueueInv'
  BY <1>3 DEF PutReturns, data, TypeOK, Accounted, PutsCarry, PutStates
<1>4. ASSUME NEW c \in Consumers, CallGet(c) PROVE QueueInv'
  BY <1>4 DEF CallGet, data, TypeOK, Accounted, PutsCarry, GetStates
<1>5. ASSUME NEW c \in Consumers, GetSample(c) PROVE QueueInv'
  <2>1. CASE queue = <<>>
    BY <1>5, <2>1 DEF GetSample, TypeOK, Accounted, PutsCarry, GetStates
  <2>2. CASE queue # <<>>
    <3>1. /\ queue' = Tail(queue) /\ queue' \in Seq(Entries)
          /\ Len(queue') = Len(queue) - 1
          /\ got' \in Seq(Entries)
      <4>1. Head(queue) \in Entries /\ Tail(queue) \in Seq(Entries)
            /\ Len(Tail(queue)) = Len(queue) - 1
        BY <1>0, <2>2
      <4>2. queue' = Tail(queue) /\ got' = Append(got, Head(queue))
        BY <1>5, <2>2 DEF GetSample
      <4> QED
        BY <1>0, <4>1, <4>2
    <3>2. get' \in [Consumers -> GetStates]
      BY <1>5, <2>2 DEF GetSample, TypeOK, GetStates
    <3> QED
      BY <1>0, <1>5, <2>2, <3>1, <3>2
         DEF GetSample, TypeOK, Accounted, PutsCarry
  <2> QED
    BY <2>1, <2>2
<1>6. ASSUME NEW c \in Consumers, GetReturns(c) PROVE QueueInv'
  BY <1>6 DEF GetReturns, data, TypeOK, Accounted, PutsCarry, GetStates
<1>7. CASE Shutdown
  BY <1>7, NotifyTyped DEF Shutdown, data, TypeOK, Accounted, PutsCarry
<1>8. CASE ClearQueue
  BY <1>0, <1>8 DEF ClearQueue, TypeOK, Accounted, PutsCarry
<1>9. CASE UNCHANGED vars
  BY <1>9 DEF vars, data, TypeOK, Accounted, PutsCarry
<1> QED
  BY <1>1, <1>2, <1>3, <1>4, <1>5, <1>6, <1>7, <1>8, <1>9 DEF Next

LEMMA QueueInvariant == Spec => []QueueInv
<1>1. Init => QueueInv
  BY QueueInit
<1>2. QueueInv /\ [Next]_vars => QueueInv'
  BY QueueStep
<1> QED
  BY <1>1, <1>2, PTL DEF Spec

\* Every sample a producer put is consumed, counted as dropped, cleared or
\* still in a queue that respects max_queue_size.
THEOREM BooksBalance == Spec => []Accounted
<1>1. QueueInv => Accounted
  BY DEF QueueInv
<1> QED
  BY <1>1, QueueInvariant, PTL

\* The variables of the queue, its producers and its consumers have their types.
THEOREM QueueTyped == Spec => []TypeOK
<1>1. QueueInv => TypeOK
  BY DEF QueueInv
<1> QED
  BY <1>1, QueueInvariant, PTL
-------------------------------------------------------------------------------
\* Only put_sample and shutdown end a reason to sleep, and both notify.
LEMMA WakeupStep == QueueInv /\ NoLostWakeup /\ [Next]_vars => NoLostWakeup'
<1> SUFFICES ASSUME QueueInv, NoLostWakeup, [Next]_vars PROVE NoLostWakeup'
  OBVIOUS
<1>0. TypeOK
  BY DEF QueueInv
<1>1. ASSUME NEW p \in Producers, CallPut(p) \/ PutReturns(p)
      PROVE NoLostWakeup'
  BY <1>1 DEF CallPut, PutReturns, data, NoLostWakeup
<1>2. ASSUME NEW p \in Producers, PutSample(p) PROVE NoLostWakeup'
  BY <1>0, <1>2, NotifyTyped DEF PutSample, NoLostWakeup
<1>3. ASSUME NEW c \in Consumers, CallGet(c) \/ GetReturns(c)
      PROVE NoLostWakeup'
  BY <1>0, <1>3 DEF CallGet, GetReturns, data, NoLostWakeup, TypeOK
<1>4. ASSUME NEW c \in Consumers, GetSample(c) PROVE NoLostWakeup'
  BY <1>0, <1>4 DEF GetSample, NoLostWakeup, TypeOK
<1>5. CASE Shutdown
  BY <1>0, <1>5, NotifyTyped DEF Shutdown, NoLostWakeup
<1>6. CASE ClearQueue
  BY <1>6 DEF ClearQueue, NoLostWakeup
<1>7. CASE UNCHANGED vars
  BY <1>7 DEF vars, data, NoLostWakeup
<1> QED
  BY <1>1, <1>2, <1>3, <1>4, <1>5, <1>6, <1>7 DEF Next

\* However many consumers compete, none sleeps while there is a sample or after
\* shutdown.
THEOREM NoConsumerSleepsThrough == Spec => []NoLostWakeup
<1>1. Init => NoLostWakeup
  BY DEF Init, NoLostWakeup
<1>2. QueueInv /\ NoLostWakeup /\ [Next]_vars => NoLostWakeup'
  BY WakeupStep
<1> QED
  BY <1>1, <1>2, QueueInvariant, PTL DEF Spec
-------------------------------------------------------------------------------
\* A step of the actor is a put, a get or a clear of the atomic queue, or none.
LEMMA LossyStep ==
  QueueInv /\ [Next]_vars => [Lossy!Next]_<<queue, consumed, dropped>>
<1> SUFFICES ASSUME QueueInv, [Next]_vars
             PROVE  Lossy!Next \/ UNCHANGED <<queue, consumed, dropped>>
  OBVIOUS
<1>1. ASSUME NEW p \in Producers, CallPut(p) \/ PutReturns(p)
      PROVE UNCHANGED <<queue, consumed, dropped>>
  BY <1>1 DEF CallPut, PutReturns, data
<1>2. ASSUME NEW p \in Producers, PutSample(p) PROVE Lossy!Next
  <2>1. consumed' = consumed
    BY <1>2 DEF PutSample
  <2>2. Lossy!Put(<<p, sent[p]>>)
    <3> DEFINE e == <<p, sent[p]>>
    <3>1. \/ /\ Len(queue) < MaxQueueSize
             /\ queue' = Append(queue, e) /\ dropped' = dropped
          \/ /\ Len(queue) = MaxQueueSize
             /\ queue' = Append(Tail(queue), e) /\ dropped' = dropped + 1
      BY <1>2, PutMakesRoom
    <3>2. Len(queue) \in Nat
      BY DEF QueueInv, TypeOK
    <3> SUFFICES Lossy!Put(e)
      OBVIOUS
    <3> HIDE DEF e
    <3> QED
      BY <2>1, <3>1, <3>2 DEF Lossy!Put
  <2>3. <<p, sent[p]>> \in Entries
    BY <1>2, PutMakesRoom
  <2> QED
    BY <2>2, <2>3 DEF Lossy!Next
<1>3. ASSUME NEW c \in Consumers, CallGet(c) \/ GetReturns(c)
      PROVE UNCHANGED <<queue, consumed, dropped>>
  BY <1>3 DEF CallGet, GetReturns, data
<1>4. ASSUME NEW c \in Consumers, GetSample(c)
      PROVE  Lossy!Next \/ UNCHANGED <<queue, consumed, dropped>>
  BY <1>4 DEF GetSample, Lossy!Next, Lossy!Get
<1>5. CASE Shutdown
  BY <1>5 DEF Shutdown, data
<1>6. CASE ClearQueue
  BY <1>6 DEF ClearQueue, Lossy!Next, Lossy!Clear
<1>7. CASE UNCHANGED vars
  BY <1>7 DEF vars, data
<1> QED
  BY <1>1, <1>2, <1>3, <1>4, <1>5, <1>6, <1>7 DEF Next

\* The actor, with its consumers suspended on a condition, implements the queue
\* with an atomic put and get.
THEOREM QueueIsLossy == Spec => ImplementsLossy
<1>1. Init => Lossy!Init
  BY DEF Init, Lossy!Init
<1>2. QueueInv /\ [Next]_vars => [Lossy!Next]_<<queue, consumed, dropped>>
  BY LossyStep
<1> QED
  BY <1>1, <1>2, QueueInvariant, PTL DEF Spec, ImplementsLossy, Lossy!Spec
===============================================================================
