----------------------------- MODULE TransferProofs ----------------------------
(***************************************************************************)
(* The transfer of weights, for any number of ranks, parameters, buckets   *)
(* and synchronizations.                                                   *)
(*                                                                         *)
(* The two threads of a rank: between a request and the receipt of its     *)
(* answer an answer is owed, and what it is owed for is the bucket before  *)
(* gidx, one half of the buffer behind.  The main thread only sends when   *)
(* nothing is owed, which is when it is in the barrier (HandInv).          *)
(*                                                                         *)
(* The plan: dealing the parameters out keeps every bucket within its size *)
(* and puts every parameter into one bucket; the loops over iterations and *)
(* actors give every bucket one turn (Planned).                            *)
(*                                                                         *)
(* The calls of the group: what call a rank makes next follows from how    *)
(* many it has made (CallsInv).                                            *)
(*                                                                         *)
(* The data: the source of a turn hands over its bucket with the version   *)
(* of the synchronization, what a rank has received stays in its half      *)
(* until it is loaded, and the turns that are loaded are those before gidx *)
(* (DataInv).                                                              *)
(***************************************************************************)
EXTENDS WeightTransfer, WellFoundedInduction, TLAPS

\* The second thread is not there.
Off(r) == thread[r] = "off" /\ req[r] = None /\ reply[r] = FALSE

\* It is there, and nothing is on its way.
Ready(r) == thread[r] = "wait" /\ req[r] = None /\ reply[r] = FALSE

\* It was sent something whose answer the main thread does not have.
Owed(r) ==
  \/ thread[r] = "start" /\ req[r].kind = "hello" /\ reply[r] = FALSE
  \/ /\ thread[r] = "wait" /\ req[r].kind = "load" /\ reply[r] = FALSE
     /\ req[r].half = (gidx[r] + 1) % 2
  \/ /\ thread[r] = "load" /\ req[r] = None /\ reply[r] = FALSE
     /\ job[r].half = (gidx[r] + 1) % 2
  \/ thread[r] = "wait" /\ req[r] = None /\ reply[r] = TRUE
  \/ thread[r] = "dead" /\ req[r] = None /\ reply[r] = FALSE

\* It was told to end.
Ending(r) ==
  \/ thread[r] = "wait" /\ req[r].kind = "stop" /\ reply[r] = FALSE
  \/ thread[r] = "off" /\ req[r] = None /\ reply[r] = TRUE

Hand(r) ==
  \/ pc[r] \in {"idle", "entry", "final"} /\ Off(r)
  \/ ~overlap /\ pc[r] \in {"turn", "bcast", "load", "failed"} /\ Off(r)
  \/ overlap /\ pc[r] \in {"turn", "bcast", "ack", "last"} /\ Owed(r)
  \/ overlap /\ pc[r] = "barrier" /\ Ready(r)
  \/ overlap /\ pc[r] = "join" /\ Ending(r)

\* The state of the threads, as functions on the ranks.
Shape ==
  /\ overlap \in BOOLEAN
  /\ gidx \in [Ranks -> Nat]
  /\ DOMAIN pc = Ranks /\ pc = [r \in Ranks |-> pc[r]]
  /\ DOMAIN thread = Ranks /\ thread = [r \in Ranks |-> thread[r]]
  /\ DOMAIN req = Ranks /\ req = [r \in Ranks |-> req[r]]
  /\ DOMAIN reply = Ranks /\ reply = [r \in Ranks |-> reply[r]]
  /\ DOMAIN job = Ranks /\ job = [r \in Ranks |-> job[r]]

HandInv == Shape /\ \A r \in Ranks : Hand(r)
-------------------------------------------------------------------------------
\* Consecutive broadcasts go to different halves.
LEMMA Parity == \A n \in Nat : (n + 1) % 2 # n % 2 /\ (n + 2) % 2 = n % 2
BY SMT

\* A rank whose threads do nothing keeps its part of the invariant.
LEMMA HandFrame ==
  ASSUME NEW s, Hand(s), overlap' = overlap,
         pc'[s] = pc[s], gidx'[s] = gidx[s], thread'[s] = thread[s],
         req'[s] = req[s], reply'[s] = reply[s], job'[s] = job[s]
  PROVE  Hand(s)'
BY DEF Hand, Off, Ready, Owed, Ending, None, Message

\* At first no thread is there;
LEMMA HandInit == Init => HandInv
<1> SUFFICES ASSUME Init PROVE HandInv
  OBVIOUS
<1>1. Shape
  BY DEF Init, Shape
<1>2. \A r \in Ranks : Hand(r)
  BY DEF Init, Hand, Off
<1> QED
  BY <1>1, <1>2 DEF HandInv
-------------------------------------------------------------------------------
(***************************************************************************)
(* One lemma for each action: the rank that takes it keeps the invariant,  *)
(* and the functions keep their shape.                                     *)
(***************************************************************************)
\* A step of rank r that keeps the shape and Hand(r), and leaves the other ranks alone.
LocalStep(r) ==
  /\ Shape'
  /\ Hand(r)'
  /\ overlap' = overlap
  /\ \A s \in Ranks \ {r} :
       /\ pc'[s] = pc[s] /\ gidx'[s] = gidx[s] /\ thread'[s] = thread[s]
       /\ req'[s] = req[s] /\ reply'[s] = reply[s] /\ job'[s] = job[s]

\* Such a step keeps the invariant.
LEMMA LocalKeeps ==
  ASSUME HandInv, NEW r \in Ranks, LocalStep(r)
  PROVE  HandInv'
<1>1. \A s \in Ranks : Hand(s)'
  <2> TAKE s \in Ranks
  <2>1. CASE s = r
    BY <2>1 DEF LocalStep
  <2>2. CASE s # r
    BY <2>2, HandFrame DEF HandInv, LocalStep
  <2> QED
    BY <2>1, <2>2
<1> QED
  BY <1>1 DEF HandInv, LocalStep

\* Steps of the main thread that do not speak to the second thread.
LEMMA QuietMain ==
  ASSUME HandInv, NEW r \in Ranks,
         (Pin(r) /\ pc[r] = "idle") \/ Broadcast(r) \/ Receive(r) \/ LastTurn(r) \/ Done(r)
         \/ LoadInline(r) \/ FailInline(r)
  PROVE  LocalStep(r)
<1>0. Hand(r) /\ Shape /\ gidx[r] \in Nat
  BY DEF HandInv, Shape
<1>1. /\ UNCHANGED <<overlap, thread, req, reply, job>>
      /\ DOMAIN pc' = Ranks /\ pc' = [s \in Ranks |-> pc'[s]]
      /\ \A s \in Ranks \ {r} : pc'[s] = pc[s]
      /\ gidx' = gidx \/ gidx' = [gidx EXCEPT ![r] = @ + 1]
  <2>1. CASE Pin(r)
    <3>1. UNCHANGED <<overlap, thread, req, reply, job>>
      BY <2>1 DEF Pin, threads, config
    <3>2. DOMAIN pc' = Ranks /\ pc' = [s \in Ranks |-> pc'[s]]
      BY <1>0, <2>1 DEF Pin, Shape
    <3>3. \A s \in Ranks \ {r} : pc'[s] = pc[s]
      BY <1>0, <2>1 DEF Pin, Shape
    <3>4. gidx' = gidx \/ gidx' = [gidx EXCEPT ![r] = @ + 1]
      BY <2>1 DEF Pin
    <3> QED
      BY <3>1, <3>2, <3>3, <3>4
  <2>2. CASE Broadcast(r)
    <3>1. UNCHANGED <<overlap, thread, req, reply, job>>
      BY <2>2 DEF Broadcast, threads, config
    <3>2. DOMAIN pc' = Ranks /\ pc' = [s \in Ranks |-> pc'[s]]
      BY <1>0, <2>2 DEF Broadcast, Shape
    <3>3. \A s \in Ranks \ {r} : pc'[s] = pc[s]
      BY <1>0, <2>2 DEF Broadcast, Shape
    <3>4. gidx' = gidx \/ gidx' = [gidx EXCEPT ![r] = @ + 1]
      BY <2>2 DEF Broadcast
    <3> QED
      BY <3>1, <3>2, <3>3, <3>4
  <2>3. CASE Receive(r)
    <3>1. UNCHANGED <<overlap, thread, req, reply, job>>
      BY <2>3 DEF Receive, threads, config
    <3>2. DOMAIN pc' = Ranks /\ pc' = [s \in Ranks |-> pc'[s]]
      BY <1>0, <2>3 DEF Receive, Shape
    <3>3. \A s \in Ranks \ {r} : pc'[s] = pc[s]
      BY <1>0, <2>3 DEF Receive, Shape
    <3>4. gidx' = gidx \/ gidx' = [gidx EXCEPT ![r] = @ + 1]
      BY <2>3 DEF Receive
    <3> QED
      BY <3>1, <3>2, <3>3, <3>4
  <2>4. CASE LastTurn(r)
    <3>1. UNCHANGED <<overlap, thread, req, reply, job>>
      BY <2>4 DEF LastTurn, LeaveLoop, threads, config
    <3>2. DOMAIN pc' = Ranks /\ pc' = [s \in Ranks |-> pc'[s]]
      BY <1>0, <2>4 DEF LastTurn, LeaveLoop, Shape
    <3>3. \A s \in Ranks \ {r} : pc'[s] = pc[s]
      BY <1>0, <2>4 DEF LastTurn, LeaveLoop, Shape
    <3>4. gidx' = gidx \/ gidx' = [gidx EXCEPT ![r] = @ + 1]
      BY <2>4 DEF LastTurn, LeaveLoop
    <3> QED
      BY <3>1, <3>2, <3>3, <3>4
  <2>5. CASE Done(r)
    <3>1. UNCHANGED <<overlap, thread, req, reply, job>>
      BY <2>5 DEF Done, threads, config
    <3>2. DOMAIN pc' = Ranks /\ pc' = [s \in Ranks |-> pc'[s]]
      BY <1>0, <2>5 DEF Done, Shape
    <3>3. \A s \in Ranks \ {r} : pc'[s] = pc[s]
      BY <1>0, <2>5 DEF Done, Shape
    <3>4. gidx' = gidx \/ gidx' = [gidx EXCEPT ![r] = @ + 1]
      BY <2>5 DEF Done
    <3> QED
      BY <3>1, <3>2, <3>3, <3>4
  <2>6. CASE LoadInline(r)
    <3>1. UNCHANGED <<overlap, thread, req, reply, job>>
      BY <2>6 DEF LoadInline, config
    <3>2. DOMAIN pc' = Ranks /\ pc' = [s \in Ranks |-> pc'[s]]
      BY <1>0, <2>6 DEF LoadInline, Shape
    <3>3. \A s \in Ranks \ {r} : pc'[s] = pc[s]
      BY <1>0, <2>6 DEF LoadInline, Shape
    <3>4. gidx' = gidx \/ gidx' = [gidx EXCEPT ![r] = @ + 1]
      BY <2>6 DEF LoadInline
    <3> QED
      BY <3>1, <3>2, <3>3, <3>4
  <2>7. CASE FailInline(r)
    <3>1. UNCHANGED <<overlap, thread, req, reply, job>>
      BY <2>7 DEF FailInline, threads, config
    <3>2. DOMAIN pc' = Ranks /\ pc' = [s \in Ranks |-> pc'[s]]
      BY <1>0, <2>7 DEF FailInline, Shape
    <3>3. \A s \in Ranks \ {r} : pc'[s] = pc[s]
      BY <1>0, <2>7 DEF FailInline, Shape
    <3>4. gidx' = gidx \/ gidx' = [gidx EXCEPT ![r] = @ + 1]
      BY <2>7 DEF FailInline
    <3> QED
      BY <3>1, <3>2, <3>3, <3>4
  <2> QED
    BY <2>1, <2>2, <2>3, <2>4, <2>5, <2>6, <2>7
<1>2. Shape'
  BY <1>0, <1>1 DEF Shape
<1>3. Hand(r)'
  <2>1. CASE Pin(r) /\ pc[r] = "idle"
    <3>1. pc'[r] = "entry" /\ Off(r)
      BY <2>1, <1>0 DEF Pin, Shape, Hand
    <3> QED
      BY <3>1, <1>1 DEF Hand, Off
  <2>2. CASE Broadcast(r)
    <3>1. pc[r] = "turn" /\ pc'[r] = "bcast" /\ gidx' = gidx
      BY <2>2, <1>0 DEF Broadcast, Shape, mains
    <3> QED
      BY <3>1, <1>0, <1>1 DEF Hand, Off, Owed, None, Message
  <2>3. CASE Receive(r)
    <3>1. pc[r] = "bcast"
      BY <2>3 DEF Receive
    <3>2. CASE overlap
      <4>1. pc'[r] = "ack" /\ gidx' = gidx /\ Owed(r)
        BY <2>3, <3>1, <3>2, <1>0 DEF Receive, Shape, Hand
      <4> QED
        BY <4>1, <3>2, <1>1 DEF Hand, Owed, None, Message
    <3>3. CASE ~overlap
      <4>1. pc'[r] \in {"load", "turn"} /\ Off(r)
        BY <2>3, <3>1, <3>3, <1>0 DEF Receive, Shape, Hand
      <4> QED
        BY <4>1, <3>3, <1>1 DEF Hand, Off
    <3> QED
      BY <3>2, <3>3
  <2>4. CASE LastTurn(r)
    <3>1. pc[r] = "turn" /\ gidx' = gidx
      BY <2>4 DEF LastTurn, LeaveLoop
    <3>2. CASE overlap
      <4>1. pc'[r] = "last" /\ Owed(r)
        BY <2>4, <3>1, <3>2, <1>0 DEF LastTurn, LeaveLoop, Shape, Hand
      <4> QED
        BY <4>1, <3>1, <3>2, <1>1 DEF Hand, Owed, None, Message
    <3>3. CASE ~overlap
      <4>1. pc'[r] = "final" /\ Off(r)
        BY <2>4, <3>1, <3>3, <1>0 DEF LastTurn, LeaveLoop, Shape, Hand
      <4> QED
        BY <4>1, <1>1 DEF Hand, Off
    <3> QED
      BY <3>2, <3>3
  <2>5. CASE Done(r)
    <3>1. pc'[r] = "idle" /\ Off(r)
      BY <2>5, <1>0 DEF Done, Shape, Hand
    <3> QED
      BY <3>1, <1>1 DEF Hand, Off
  <2>6. CASE LoadInline(r) \/ FailInline(r)
    <3>1. pc'[r] \in {"turn", "failed"} /\ Off(r) /\ ~overlap
      BY <2>6, <1>0 DEF LoadInline, FailInline, Shape, Hand
    <3> QED
      BY <3>1, <1>1 DEF Hand, Off
  <2> QED
    BY <2>1, <2>2, <2>3, <2>4, <2>5, <2>6
<1> QED
  BY <1>0, <1>1, <1>2, <1>3 DEF LocalStep, Shape

\* The main thread greets the second thread.
LEMMA StartKeeps ==
  ASSUME HandInv, NEW r \in Ranks, Start(r)
  PROVE  LocalStep(r)
<1>0. Hand(r) /\ Shape
  BY DEF HandInv
<1>1. UNCHANGED <<overlap, reply, job>> /\ pc' = [pc EXCEPT ![r] = "turn"]
      /\ gidx' = [gidx EXCEPT ![r] = 0]
  BY DEF Start, config
<1>2. Off(r)
  BY <1>0 DEF Start, Hand
<1>3. CASE ~overlap
  <2>1. UNCHANGED <<thread, req>>
    BY <1>3 DEF Start
  <2> QED
    BY <1>0, <1>1, <1>2, <1>3, <2>1 DEF LocalStep, Shape, Hand, Off
<1>4. CASE overlap
  <2>1. /\ thread' = [thread EXCEPT ![r] = "start"]
        /\ req' = [req EXCEPT ![r] = Message("hello", 0, <<>>)]
    BY <1>4 DEF Start
  <2>2. Owed(r)'
    BY <1>0, <1>1, <1>2, <2>1 DEF Owed, Off, Shape, Message
  <2> QED
    BY <1>0, <1>1, <1>4, <2>1, <2>2 DEF LocalStep, Shape, Hand
<1> QED
  BY <1>0, <1>3, <1>4 DEF Shape

\* It receives an answer: nothing is owed.
LEMMA AcknowledgedKeeps ==
  ASSUME HandInv, NEW r \in Ranks, Acknowledged(r)
  PROVE  LocalStep(r)
<1>0. Hand(r) /\ Shape
  BY DEF HandInv
<1>1. /\ UNCHANGED <<overlap, gidx, thread, req, job>> /\ pc' = [pc EXCEPT ![r] = "barrier"]
      /\ reply' = [reply EXCEPT ![r] = FALSE] /\ reply[r] /\ pc[r] = "ack"
  BY DEF Acknowledged, config, threads
<1>2. overlap /\ thread[r] = "wait" /\ req[r] = None
  BY <1>0, <1>1 DEF Hand, Owed
<1>3. Ready(r)'
  BY <1>0, <1>1, <1>2 DEF Ready, Shape, None, Message
<1> QED
  BY <1>0, <1>1, <1>2, <1>3 DEF LocalStep, Shape, Hand

\* It sends a bucket, and is one bucket ahead.
LEMMA SendMetasKeeps ==
  ASSUME HandInv, NEW r \in Ranks, SendMetas(r)
  PROVE  LocalStep(r)
<1>0. Hand(r) /\ Shape /\ gidx[r] \in Nat
  BY DEF HandInv, Shape
<1>1. /\ UNCHANGED <<overlap, thread, reply, job>> /\ pc' = [pc EXCEPT ![r] = "turn"]
      /\ gidx' = [gidx EXCEPT ![r] = @ + 1] /\ pc[r] = "barrier"
      /\ req' = [req EXCEPT ![r] = Message("load", Half(r), Bucket(r))]
  BY DEF SendMetas, config, threads
<1>2. overlap /\ Ready(r)
  BY <1>0, <1>1 DEF Hand
<1>3. req'[r].kind = "load" /\ req'[r].half = gidx[r] % 2
  BY <1>0, <1>1, <1>2 DEF Shape, Message, Half
<1>4. gidx'[r] = gidx[r] + 1 /\ (gidx'[r] + 1) % 2 = gidx[r] % 2
  BY <1>0, <1>1, Parity DEF Shape
<1>5. Owed(r)'
  BY <1>1, <1>2, <1>3, <1>4 DEF Owed, Ready
<1>6. Hand(r)'
  BY <1>0, <1>1, <1>2, <1>5 DEF Hand, Shape
<1>7. DOMAIN req' = Ranks /\ req' = [s \in Ranks |-> req'[s]]
  BY <1>0, <1>1 DEF Shape
<1>8. Shape'
  <2>1. gidx' \in [Ranks -> Nat]
    BY <1>0, <1>1 DEF Shape
  <2>2. DOMAIN pc' = Ranks /\ pc' = [s \in Ranks |-> pc'[s]]
    BY <1>0, <1>1 DEF Shape
  <2> QED
    BY <1>0, <1>1, <1>7, <2>1, <2>2 DEF Shape
<1> QED
  BY <1>0, <1>1, <1>6, <1>8 DEF LocalStep, Shape

\* It tells the second thread to end, and receives its last answer.
LEMMA EndKeeps ==
  ASSUME HandInv, NEW r \in Ranks, SendStop(r) \/ Join(r)
  PROVE  LocalStep(r)
<1>0. Hand(r) /\ Shape
  BY DEF HandInv
<1>1. CASE SendStop(r)
  <2>1. /\ UNCHANGED <<overlap, gidx, thread, job>> /\ pc' = [pc EXCEPT ![r] = "join"]
        /\ reply' = [reply EXCEPT ![r] = FALSE] /\ reply[r] /\ pc[r] = "last"
        /\ req' = [req EXCEPT ![r] = Message("stop", 0, <<>>)]
    BY <1>1 DEF SendStop, config, threads
  <2>2. overlap /\ thread[r] = "wait"
    BY <1>0, <2>1 DEF Hand, Owed
  <2>3. Ending(r)'
    BY <1>0, <2>1, <2>2 DEF Ending, Shape, Message
  <2> QED
    BY <1>0, <2>1, <2>2, <2>3 DEF LocalStep, Shape, Hand
<1>2. CASE Join(r)
  <2>1. /\ UNCHANGED <<overlap, gidx, thread, req, job>> /\ pc' = [pc EXCEPT ![r] = "final"]
        /\ reply' = [reply EXCEPT ![r] = FALSE] /\ reply[r] /\ pc[r] = "join"
    BY <1>2 DEF Join, config, threads
  <2>2. thread[r] = "off" /\ req[r] = None
    BY <1>0, <2>1 DEF Hand, Ending
  <2>3. Off(r)'
    BY <1>0, <2>1, <2>2 DEF Off, Shape, None, Message
  <2> QED
    BY <1>0, <2>1, <2>3 DEF LocalStep, Shape, Hand
<1> QED
  BY <1>1, <1>2

\* The second thread only acts while something is owed, or it was told to end.
LEMMA ThreadIsAsked ==
  ASSUME NEW r, Hand(r), thread[r] # "off"
  PROVE  overlap /\ (Owed(r) \/ Ready(r) \/ Ending(r))
BY DEF Hand, Off

\* The second thread receives a message, answered or not.
LEMMA HearKeeps ==
  ASSUME HandInv, NEW r \in Ranks, Greet(r) \/ TakePayload(r) \/ Stop(r)
  PROVE  LocalStep(r)
<1>0. Hand(r) /\ Shape
  BY DEF HandInv
<1>1. CASE Greet(r)
  <2>1. /\ UNCHANGED <<overlap, pc, gidx>> /\ thread' = [thread EXCEPT ![r] = "wait"]
        /\ job' = [job EXCEPT ![r] = None] /\ req' = [req EXCEPT ![r] = None]
        /\ reply' = [reply EXCEPT ![r] = TRUE] /\ thread[r] = "start"
    BY <1>1 DEF Greet, Hear, Answer, config, mains
  <2>2. overlap /\ pc[r] \in {"turn", "bcast", "ack", "last"}
    BY <1>0, <2>1 DEF Hand, Off, Ready, Ending
  <2>3. Owed(r)'
    BY <1>0, <2>1 DEF Owed, Shape, None, Message
  <2> QED
    BY <1>0, <2>1, <2>2, <2>3 DEF LocalStep, Shape, Hand
<1>2. CASE TakePayload(r)
  <2>1. /\ UNCHANGED <<overlap, pc, gidx, reply>> /\ thread' = [thread EXCEPT ![r] = "load"]
        /\ job' = [job EXCEPT ![r] = req[r]] /\ req' = [req EXCEPT ![r] = None]
        /\ thread[r] = "wait" /\ req[r].kind = "load"
    BY <1>2 DEF TakePayload, Hear, config, mains
  <2>2. overlap /\ pc[r] \in {"turn", "bcast", "ack", "last"} /\ Owed(r)
    BY <1>0, <2>1 DEF Hand, Off, Ready, Ending, None, Message
  <2>3. reply[r] = FALSE /\ req[r].half = (gidx[r] + 1) % 2
    BY <2>1, <2>2 DEF Owed, None, Message
  <2>4. Owed(r)'
    BY <1>0, <2>1, <2>3 DEF Owed, Shape, None, Message
  <2> QED
    BY <1>0, <2>1, <2>2, <2>4 DEF LocalStep, Shape, Hand
<1>3. CASE Stop(r)
  <2>1. /\ UNCHANGED <<overlap, pc, gidx>> /\ thread' = [thread EXCEPT ![r] = "off"]
        /\ job' = [job EXCEPT ![r] = None] /\ req' = [req EXCEPT ![r] = None]
        /\ reply' = [reply EXCEPT ![r] = TRUE] /\ thread[r] = "wait" /\ req[r].kind = "stop"
    BY <1>3 DEF Stop, Hear, Answer, config, mains
  <2>2. overlap /\ pc[r] = "join"
    BY <1>0, <2>1 DEF Hand, Off, Ready, Owed, None, Message
  <2>3. Ending(r)'
    BY <1>0, <2>1 DEF Ending, Shape, None, Message
  <2> QED
    BY <1>0, <2>1, <2>2, <2>3 DEF LocalStep, Shape, Hand
<1> QED
  BY <1>1, <1>2, <1>3

\* It has loaded the bucket, or has failed to.
LEMMA LoadedKeeps ==
  ASSUME HandInv, NEW r \in Ranks, LoadPayload(r) \/ FailPayload(r)
  PROVE  LocalStep(r)
<1>0. Hand(r) /\ Shape
  BY DEF HandInv
<1>1. /\ UNCHANGED <<overlap, pc, gidx, req>>
      /\ job' = [job EXCEPT ![r] = None] /\ thread[r] = "load"
      /\ \/ thread' = [thread EXCEPT ![r] = "wait"] /\ reply' = [reply EXCEPT ![r] = TRUE]
         \/ thread' = [thread EXCEPT ![r] = "dead"] /\ reply' = reply
  <2>1. CASE LoadPayload(r)
    BY <2>1 DEF LoadPayload, Answer, config, mains
  <2>2. CASE FailPayload(r)
    BY <2>2 DEF FailPayload, config, mains
  <2> QED
    BY <2>1, <2>2
<1>2. /\ overlap /\ pc[r] \in {"turn", "bcast", "ack", "last"}
      /\ req[r] = None /\ reply[r] = FALSE
  BY <1>0, <1>1 DEF Hand, Off, Ready, Ending, Owed
<1>3. Owed(r)'
  BY <1>0, <1>1, <1>2 DEF Owed, Shape, None, Message
<1> QED
  BY <1>0, <1>1, <1>2, <1>3 DEF LocalStep, Shape, Hand

\* and every step keeps the two threads in hand.
LEMMA HandNext == HandInv /\ [Next]_vars => HandInv'
<1> SUFFICES ASSUME HandInv, [Next]_vars PROVE HandInv'
  OBVIOUS
<1>1. CASE UNCHANGED <<overlap, pc, gidx, thread, req, reply, job>>
  <2>1. Shape'
    BY <1>1 DEF HandInv, Shape
  <2>2. \A s \in Ranks : Hand(s)'
    BY <1>1, HandFrame DEF HandInv
  <2> QED
    BY <2>1, <2>2 DEF HandInv
<1>2. CASE UNCHANGED vars
  BY <1>1, <1>2 DEF vars, config, mains, threads
<1>3. CASE SyncWeights
  BY <1>1, <1>3 DEF SyncWeights, config, mains, threads
<1>4. ASSUME NEW r \in Ranks, Main(r) \/ Second(r) \/ FailInline(r) \/ FailPayload(r)
      PROVE  HandInv'
  <2>1. LocalStep(r)
    BY <1>4, QuietMain, StartKeeps, AcknowledgedKeeps, SendMetasKeeps, EndKeeps, HearKeeps,
       LoadedKeeps DEF Main, Second, Register, Finish
  <2> QED
    BY <2>1, LocalKeeps
<1> QED
  BY <1>2, <1>3, <1>4 DEF Next
-------------------------------------------------------------------------------
\* What the invariant says of the halves and of the sockets.
LEMMA HandSafe == HandInv => HalvesApart /\ Alternates
<1> SUFFICES ASSUME HandInv PROVE HalvesApart /\ Alternates
  OBVIOUS
<1>1. HalvesApart
  <2> SUFFICES ASSUME NEW r \in Ranks, pc[r] = "bcast", overlap
               PROVE  /\ req[r].kind = "load" => req[r].half # Half(r)
                      /\ thread[r] = "load" => job[r].half # Half(r)
    BY DEF HalvesApart
  <2>1. Owed(r) /\ gidx[r] \in Nat
    BY DEF HandInv, Hand, Shape
  <2>2. (gidx[r] + 1) % 2 # Half(r)
    BY <2>1, Parity DEF Half
  <2> QED
    BY <2>1, <2>2 DEF Owed, None, Message
<1>2. Alternates
  <2> SUFFICES ASSUME NEW r \in Ranks
               PROVE  /\ pc[r] = "barrier" => thread[r] = "wait" /\ req[r] = None /\ ~reply[r]
                      /\ reply[r] => req[r] = None /\ thread[r] \in {"wait", "off"}
    BY DEF Alternates
  <2>1. Hand(r)
    BY DEF HandInv
  <2> QED
    BY <2>1 DEF Hand, Off, Ready, Owed, Ending
<1> QED
  BY <1>1, <1>2

\* The two threads of a rank never work on the same half of the buffer
\* (update_checkpoint, start = gidx % 2 * bucket_size).
THEOREM HalvesNeverMeet == Spec => []HalvesApart
<1>1. HandInv => HalvesApart
  BY HandSafe
<1> QED
  BY HandInit, HandNext, <1>1, PTL DEF Spec

\* Their sockets alternate (update_checkpoint, update_weights_from_ipc_).
THEOREM SocketsAlternate == Spec => []Alternates
<1>1. HandInv => Alternates
  BY HandSafe
<1> QED
  BY HandInit, HandNext, <1>1, PTL DEF Spec
-------------------------------------------------------------------------------
(***************************************************************************)
(* The plan of the buckets.  Plan, Size and Turns are recursive functions; *)
(* what they compute is shown by induction, as the absence of a least      *)
(* counterexample.                                                         *)
(***************************************************************************)
\* A set of naturals has a least member.
LEMMA Least ==
  ASSUME NEW T \in SUBSET Nat, T # {}
  PROVE  \E x \in T : \A y \in T : x <= y
<1> DEFINE less == {ss \in Nat \X Nat : ss[1] < ss[2]}
<1>1. IsWellFoundedOn(less, Nat)
  BY NatLessThanWellFounded, Zenon DEF OpToRel
<1>2. PICK x \in T : \A y \in T : ~ (<<y, x>> \in less)
  BY <1>1, WFMin
<1>3. ASSUME NEW y \in T PROVE x <= y
  <2>1. x \in Nat /\ y \in Nat /\ ~ (<<y, x>> \in less)
    BY <1>2
  <2>2. ~ (y < x)
    BY <2>1
  <2> QED
    BY <2>1, <2>2
<1> QED
  BY <1>3

\* So what holds of 0, and of n + 1 if of n, holds up to N.
LEMMA Induction ==
  ASSUME NEW N \in Nat, NEW T, 0 \in T, \A n \in 0..N : n \in T /\ n # N => n + 1 \in T
  PROVE  \A n \in 0..N : n \in T
<1> DEFINE U == {n \in 0..N : n \notin T}
<1> SUFFICES ASSUME U # {} PROVE FALSE
  OBVIOUS
<1>1. PICK x \in U : \A y \in U : x <= y
  <2>1. U \in SUBSET Nat
    OBVIOUS
  <2> HIDE DEF U
  <2> QED
    BY <2>1, Least
<1>2. x # 0 /\ x \in Nat /\ x - 1 \in 0..N /\ x - 1 # N
  BY <1>1
<1>3. x - 1 \in T
  BY <1>1, <1>2
<1> QED
  BY <1>1, <1>2, <1>3

\* f is computed from base in N steps, G[n] being step n.
Computes(f, S, base, G, N) ==
  f \in [0..N -> S] /\ f[0] = base /\ \A n \in 1..N : f[n] = G[n][f[n - 1]]

\* N functions on S.
StepsOn(S, N) == [1..N -> [S -> S]]

\* There is such a function.
LEMMA Recursion ==
  ASSUME NEW S, NEW base \in S, NEW N \in Nat, NEW G \in StepsOn(S, N)
  PROVE  \E f : Computes(f, S, base, G, N)
<1>0. G \in [1..N -> [S -> S]]
  BY DEF StepsOn
<1> DEFINE Upto(m) == {f \in [0..m -> S] :
                         f[0] = base /\ \A n \in 1..m : f[n] = G[n][f[n - 1]]}
           T == {m \in 0..N : Upto(m) # {}}
<1>1. 0 \in T
  <2>1. [n \in 0..0 |-> base] \in Upto(0)
    OBVIOUS
  <2> QED
    BY <2>1
<1>2. ASSUME NEW m \in 0..N, m \in T, m # N PROVE m + 1 \in T
  <2>1. PICK f \in [0..m -> S] : f[0] = base /\ \A n \in 1..m : f[n] = G[n][f[n - 1]]
    BY <1>2
  <2> DEFINE g == [n \in 0..(m + 1) |-> IF n <= m THEN f[n] ELSE G[m + 1][f[m]]]
  <2>2. m + 1 \in 1..N /\ m \in 0..m /\ f[m] \in S
    BY <2>1, <1>2
  <2>3. G[m + 1][f[m]] \in S
    BY <1>0, <2>2
  <2>4. g \in [0..(m + 1) -> S]
    BY <2>1, <2>3
  <2>5. g[0] = base
    BY <2>1
  <2>6. ASSUME NEW n \in 1..(m + 1) PROVE g[n] = G[n][g[n - 1]]
    BY <2>1, <1>2
  <2> HIDE DEF g
  <2>7. g \in Upto(m + 1)
    BY <2>4, <2>5, <2>6
  <2> QED
    BY <2>7, <2>2
<1> HIDE DEF T
<1>3. \A m \in 0..N : m \in T
  BY <1>1, <1>2, Induction
<1>4. N \in T
  BY <1>3
<1> QED
  BY <1>4 DEF T, Computes

\* A function that starts at base and takes the steps G is computed by them.
LEMMA Recursive ==
  ASSUME NEW S, NEW base \in S, NEW N \in Nat, NEW G \in StepsOn(S, N),
         NEW h, h = [n \in 0..N |-> h[n]], h[0] = base,
         \A n \in 1..N : h[n - 1] \in S => h[n] = G[n][h[n - 1]]
  PROVE  Computes(h, S, base, G, N)
<1>0. G \in [1..N -> [S -> S]]
  BY DEF StepsOn
<1> DEFINE T == {n \in 0..N : h[n] \in S}
<1>1. 0 \in T
  OBVIOUS
<1>2. ASSUME NEW n \in 0..N, n \in T, n # N PROVE n + 1 \in T
  <2>1. n + 1 \in 0..N /\ n + 1 \in 1..N /\ (n + 1) - 1 = n /\ h[n] \in S
    BY <1>2
  <2>2. h[n + 1] = G[n + 1][h[n]]
    BY <2>1
  <2> QED
    BY <1>0, <2>1, <2>2
<1>3. \A n \in 0..N : n \in T
  <2> HIDE DEF T
  <2> QED
    BY <1>1, <1>2, Induction
<1>4. h \in [0..N -> S]
  BY <1>3
<1>5. \A n \in 1..N : h[n - 1] \in S
  BY <1>3
<1> QED
  BY <1>4, <1>5 DEF Computes

\* A function of the naturals up to N has a largest value, and Max is it.
LEMMA MaxIs ==
  ASSUME NEW N \in Nat, NEW f \in [0..N -> Nat]
  PROVE  /\ Max({f[i] : i \in 0..N}) \in Nat
         /\ \A i \in 0..N : f[i] <= Max({f[j] : j \in 0..N})
<1> DEFINE T == {n \in 0..N : \E m \in 0..n : \A i \in 0..n : f[i] <= f[m]}
           V == {f[i] : i \in 0..N}
<1>1. 0 \in T
  OBVIOUS
<1>2. ASSUME NEW n \in 0..N, n \in T, n # N PROVE n + 1 \in T
  <2>1. PICK m \in 0..n : \A i \in 0..n : f[i] <= f[m]
    BY <1>2
  <2>2. /\ n + 1 \in 0..N /\ f[n + 1] \in Nat /\ f[m] \in Nat
        /\ \A i \in 0..(n + 1) : i = n + 1 \/ i \in 0..n
        /\ \A i \in 0..n : f[i] \in Nat
    BY <1>2
  <2>3. CASE f[n + 1] <= f[m]
    BY <2>1, <2>2, <2>3
  <2>4. CASE ~ (f[n + 1] <= f[m])
    <3>1. \A i \in 0..(n + 1) : f[i] <= f[n + 1]
      BY <2>1, <2>2, <2>4
    <3>2. n + 1 \in 0..(n + 1)
      BY <1>2
    <3> QED
      BY <2>2, <3>1, <3>2
  <2> QED
    BY <2>3, <2>4
<1>3. \A n \in 0..N : n \in T
  <2> HIDE DEF T
  <2> QED
    BY <1>1, <1>2, Induction
<1>4. PICK m \in 0..N : \A i \in 0..N : f[i] <= f[m]
  <2>1. N \in T
    <3>1. N \in 0..N
      OBVIOUS
    <3> QED
      BY <1>3, <3>1
  <2> QED
    BY <2>1
<1>5. \E x \in V : \A y \in V : x >= y
  BY <1>4
<1>6. Max(V) \in V /\ \A y \in V : Max(V) >= y
  <2> HIDE DEF V
  <2> QED
    BY <1>5 DEF Max
<1> QED
  BY <1>6

\* Appending a parameter to a bucket adds its bytes.
LEMMA SizeIs ==
  ASSUME NEW l \in Seq(Nat), NEW b \in Seq(Params(l))
  PROVE  /\ Size(l, b) \in Nat
         /\ Size(l, <<>>) = 0
         /\ \A p \in Params(l) : Size(l, Append(b, p)) = Size(l, b) + l[p]
<1>1. ASSUME NEW c \in Seq(Params(l))
      PROVE  \E f \in [0..Len(c) -> Nat] :
               /\ Size(l, c) = f[Len(c)] /\ f[0] = 0
               /\ \A i \in 1..Len(c) : f[i] = f[i - 1] + l[c[i]]
  <2> DEFINE N == Len(c)
             IsSum(f) == f = [i \in 0..N |-> IF i = 0 THEN 0 ELSE f[i - 1] + l[c[i]]]
             upto == CHOOSE f : IsSum(f)
             G == [n \in 1..N |-> [x \in Nat |-> x + l[c[n]]]]
  <2>1. N \in Nat /\ 0 \in Nat /\ \A i \in 1..N : l[c[i]] \in Nat
    BY DEF Params
  <2>2. Size(l, c) = upto[N]
    BY DEF Size
  <2> HIDE DEF N
  <2>3. G \in StepsOn(Nat, N)
    BY <2>1 DEF StepsOn
  <2>4. \A x \in Nat, n \in 1..N : G[n][x] = x + l[c[n]]
    OBVIOUS
  <2> HIDE DEF G
  <2>5. \E f : IsSum(f)
    <3>1. PICK f : Computes(f, Nat, 0, G, N)
      BY <2>1, <2>3, Recursion
    <3>2. f \in [0..N -> Nat] /\ f[0] = 0 /\ \A n \in 1..N : f[n] = G[n][f[n - 1]]
      BY <3>1 DEF Computes
    <3>3. ASSUME NEW i \in 0..N, i # 0 PROVE f[i] = f[i - 1] + l[c[i]]
      <4>1. i \in 1..N /\ i - 1 \in 0..N
        BY <2>1, <3>3
      <4> QED
        BY <2>4, <3>2, <4>1
    <3>4. IsSum(f)
      BY <3>2, <3>3
    <3> QED
      BY <3>4
  <2>6. IsSum(upto)
    BY <2>5
  <2>7. upto = [i \in 0..N |-> upto[i]] /\ upto[0] = 0
        /\ \A i \in 1..N : upto[i] = upto[i - 1] + l[c[i]]
    <3> HIDE DEF upto
    <3>1. upto = [i \in 0..N |-> IF i = 0 THEN 0 ELSE upto[i - 1] + l[c[i]]]
      BY <2>6
    <3>2. \A i \in 1..N : upto[i] = upto[i - 1] + l[c[i]]
      BY <2>1, <3>1
    <3>3. upto = [i \in 0..N |-> upto[i]] /\ upto[0] = 0
      BY <2>1, <3>1
    <3> QED
      BY <3>2, <3>3
  <2> HIDE DEF upto
  <2>8. Computes(upto, Nat, 0, G, N)
    <3>1. \A n \in 1..N : upto[n - 1] \in Nat => upto[n] = G[n][upto[n - 1]]
      BY <2>4, <2>7
    <3> QED
      BY <2>1, <2>3, <2>7, <3>1, Recursive
  <2> QED
    BY <2>2, <2>7, <2>8 DEF Computes, N
<1>2. PICK f \in [0..Len(b) -> Nat] :
        /\ Size(l, b) = f[Len(b)] /\ f[0] = 0
        /\ \A i \in 1..Len(b) : f[i] = f[i - 1] + l[b[i]]
  BY <1>1
<1>3. Size(l, b) \in Nat
  BY <1>2
<1>4. Size(l, <<>>) = 0
  <2>1. <<>> \in Seq(Params(l)) /\ Len(<<>>) = 0
    OBVIOUS
  <2>2. PICK e \in [0..Len(<<>>) -> Nat] : Size(l, <<>>) = e[Len(<<>>)] /\ e[0] = 0
    BY <1>1, <2>1
  <2> QED
    BY <2>1, <2>2
<1>5. ASSUME NEW p \in Params(l) PROVE Size(l, Append(b, p)) = Size(l, b) + l[p]
  <2> DEFINE c == Append(b, p)
             N == Len(b)
  <2>1. c \in Seq(Params(l)) /\ N \in Nat /\ Len(c) = N + 1 /\ c[N + 1] = p
        /\ \A i \in 1..N : c[i] = b[i]
    OBVIOUS
  <2>2. PICK g \in [0..Len(c) -> Nat] :
          /\ Size(l, c) = g[Len(c)] /\ g[0] = 0
          /\ \A i \in 1..Len(c) : g[i] = g[i - 1] + l[c[i]]
    BY <1>1, <2>1
  <2> HIDE DEF c, N
  <2> DEFINE T == {n \in 0..N : g[n] = f[n]}
  <2>3. 0 \in T
    BY <1>2, <2>1, <2>2
  <2>4. ASSUME NEW n \in 0..N, n \in T, n # N PROVE n + 1 \in T
    <3>1. n + 1 \in 1..N /\ n + 1 \in 1..Len(c) /\ (n + 1) - 1 = n /\ n + 1 \in 0..N
      BY <2>1, <2>4
    <3>2. g[n + 1] = g[n] + l[c[n + 1]] /\ f[n + 1] = f[n] + l[b[n + 1]]
      BY <1>2, <2>2, <3>1 DEF N
    <3> QED
      BY <2>1, <2>4, <3>1, <3>2
  <2>5. \A n \in 0..N : n \in T
    <3> HIDE DEF T
    <3> QED
      BY <2>1, <2>3, <2>4, Induction
  <2>6. g[N] = f[N] /\ N + 1 \in 1..Len(c) /\ (N + 1) - 1 = N
    BY <2>1, <2>5
  <2>7. g[N + 1] = g[N] + l[p]
    BY <2>1, <2>2, <2>6
  <2> QED
    BY <1>2, <2>1, <2>2, <2>6, <2>7 DEF c, N
<1> QED
  BY <1>3, <1>4, <1>5

\* No parameter is larger than the bucket size.
LEMMA BucketSizeIs ==
  ASSUME NEW l \in Seq(Nat)
  PROVE  BucketSize(l) \in Nat /\ \A p \in Params(l) : l[p] <= BucketSize(l)
<1> DEFINE N == Len(l)
           f == [i \in 0..N |-> IF i = 0 THEN Buffer ELSE l[i]]
<1>1. N \in Nat /\ f \in [0..N -> Nat]
  BY TransferAssumption
<1>2. {f[i] : i \in 0..N} = {Buffer} \cup Range(l)
  <2>1. /\ f[0] = Buffer /\ 0 \in 0..N /\ DOMAIN l = 1..N
        /\ \A i \in 1..N : i \in 0..N /\ f[i] = l[i]
        /\ \A i \in 0..N : i = 0 \/ i \in 1..N
    BY <1>1
  <2> HIDE DEF f, N
  <2> QED
    BY <2>1 DEF Range
<1>3. \A p \in Params(l) : p \in 0..N /\ f[p] = l[p]
  BY DEF Params
<1> HIDE DEF f, N
<1> QED
  BY <1>1, <1>2, <1>3, MaxIs DEF BucketSize

\* Sequences of buckets, for each actor one.
Packings(l) == {bs \in Seq(Seq(Params(l))) : bs # <<>>}

\* ds is cs with parameter p in bucket k, that fits; the other buckets stay.
Grown(l, cs, ds, p, k) ==
  /\ k \in 1..Len(ds) /\ p \in Range(ds[k]) /\ Size(l, ds[k]) <= BucketSize(l)
  /\ \A i \in 1..Len(ds) : i # k => i \in 1..Len(cs) /\ ds[i] = cs[i]
  /\ \A q \in Range(ds[k]) : q = p \/ (k \in 1..Len(cs) /\ q \in Range(cs[k]))
  /\ \A i \in 1..Len(cs) : i \in 1..Len(ds) /\ Range(cs[i]) \subseteq Range(ds[i])

\* Putting a parameter into a packing changes one bucket, which still fits.
LEMMA PutIs ==
  ASSUME NEW l \in Seq(Nat), NEW cs \in Packings(l), NEW p \in Params(l)
  PROVE  /\ Put(l, cs, p) \in Packings(l)
         /\ \E k : Grown(l, cs, Put(l, cs, p), p, k)
<1> DEFINE n == Len(cs)
           ds == Put(l, cs, p)
<1>1. n \in Nat /\ n >= 1 /\ cs[n] \in Seq(Params(l)) /\ cs \in Seq(Seq(Params(l)))
      /\ <<>> \in Seq(Params(l))
  BY DEF Packings
<1>2. l[p] <= BucketSize(l) /\ BucketSize(l) \in Nat /\ l[p] \in Nat
  BY BucketSizeIs DEF Params
<1>3. \A b \in Seq(Params(l)) : Range(Append(b, p)) = Range(b) \cup {p}
  <2> TAKE b \in Seq(Params(l))
  <2>1. Len(b) \in Nat /\ Append(b, p) \in Seq(Params(l)) /\ Len(Append(b, p)) = Len(b) + 1
        /\ Append(b, p)[Len(b) + 1] = p /\ \A i \in 1..Len(b) : Append(b, p)[i] = b[i]
    OBVIOUS
  <2>2. DOMAIN Append(b, p) = 1..(Len(b) + 1) /\ DOMAIN b = 1..Len(b)
    BY <2>1
  <2>3. \A i \in 1..(Len(b) + 1) : i = Len(b) + 1 \/ i \in 1..Len(b)
    BY <2>1
  <2>4. Range(Append(b, p)) \subseteq Range(b) \cup {p}
    BY <2>1, <2>2, <2>3 DEF Range
  <2>5. \A i \in 1..Len(b) : i \in 1..(Len(b) + 1)
    BY <2>1
  <2>6. Len(b) + 1 \in 1..(Len(b) + 1)
    BY <2>1
  <2>7. Range(b) \cup {p} \subseteq Range(Append(b, p))
    BY <2>1, <2>2, <2>5, <2>6 DEF Range
  <2> QED
    BY <2>4, <2>7
<1>4. CASE Full(l, Last(cs), p)
  <2>1. ds = Append(cs, <<p>>) /\ <<p>> = Append(<<>>, p) /\ <<p>> \in Seq(Params(l))
    BY <1>4 DEF Put
  <2>2. /\ ds \in Seq(Seq(Params(l))) /\ Len(ds) = n + 1 /\ ds[n + 1] = <<p>>
        /\ \A i \in 1..n : ds[i] = cs[i]
    BY <1>1, <2>1
  <2>3. Size(l, <<p>>) = l[p]
    <3>1. Size(l, Append(<<>>, p)) = Size(l, <<>>) + l[p] /\ Size(l, <<>>) = 0
      BY <1>1, SizeIs
    <3> QED
      BY <1>2, <2>1, <3>1
  <2>4. Range(<<p>>) = {p}
    BY <1>1, <1>3, <2>1 DEF Range
  <2>5. \A i \in 1..(n + 1) : i # n + 1 => i \in 1..n
    BY <1>1
  <2>6. n + 1 \in 1..(n + 1) /\ n <= n + 1 /\ \A i \in 1..n : i \in 1..(n + 1)
    BY <1>1
  <2>7. ds \in Packings(l)
    BY <1>1, <2>2 DEF Packings
  <2> HIDE DEF ds
  <2>8. Grown(l, cs, ds, p, n + 1)
    BY <1>2, <2>2, <2>3, <2>4, <2>5, <2>6 DEF Grown
  <2> QED
    BY <2>7, <2>8 DEF ds
<1>5. CASE ~Full(l, Last(cs), p)
  <2>1. ds = [cs EXCEPT ![n] = Append(cs[n], p)] /\ Last(cs) = cs[n]
    BY <1>5 DEF Put, Last
  <2>2. /\ ds \in Seq(Seq(Params(l))) /\ Len(ds) = n /\ ds[n] = Append(cs[n], p)
        /\ \A i \in 1..n : i # n => ds[i] = cs[i]
    BY <1>1, <2>1
  <2>3. Size(l, ds[n]) = Size(l, cs[n]) + l[p]
    BY <1>1, <2>2, SizeIs
  <2>4. Size(l, ds[n]) <= BucketSize(l)
    <3>1. ~ (Size(l, cs[n]) + l[p] > BucketSize(l)) /\ Size(l, cs[n]) \in Nat
      BY <1>1, <1>5, <2>1, SizeIs DEF Full
    <3> QED
      BY <1>2, <2>3, <3>1
  <2>5. Range(ds[n]) = Range(cs[n]) \cup {p}
    BY <1>1, <1>3, <2>2
  <2>6. n \in 1..n
    BY <1>1
  <2>7. ds \in Packings(l)
    BY <1>1, <2>2 DEF Packings
  <2> HIDE DEF ds
  <2>8. \A i \in 1..n : i \in 1..Len(ds) /\ Range(cs[i]) \subseteq Range(ds[i])
    BY <2>2, <2>5, <2>6
  <2>9. Grown(l, cs, ds, p, n)
    BY <2>2, <2>4, <2>5, <2>6, <2>8 DEF Grown
  <2> QED
    BY <2>7, <2>9 DEF ds
<1> QED
  BY <1>4, <1>5

\* The first n parameters are in buckets, each in one, and the buckets fit.
Dealt(l, bs, n) ==
  /\ \A a \in Actors : \A i \in 1..Len(bs[a]) :
       Size(l, bs[a][i]) <= BucketSize(l) /\ Range(bs[a][i]) \subseteq 1..n
  /\ \A p \in 1..n : \E a \in Actors : \E i \in 1..Len(bs[a]) : p \in Range(bs[a][i])
  /\ \A a, b \in Actors : \A i \in 1..Len(bs[a]), j \in 1..Len(bs[b]) :
       \A p \in Range(bs[a][i]) : p \in Range(bs[b][j]) => a = b /\ i = j

\* The next parameter is dealt.
LEMMA DealtNext ==
  ASSUME NEW l \in Seq(Nat), NEW n \in 0..Len(l), n # Len(l),
         NEW bs \in [Actors -> Packings(l)], Dealt(l, bs, n)
  PROVE  LET ds == [bs EXCEPT ![Owner(n + 1)] = Put(l, @, n + 1)] IN
         ds \in [Actors -> Packings(l)] /\ Dealt(l, ds, n + 1)
<1> DEFINE p == n + 1
           o == Owner(p)
           ds == [bs EXCEPT ![o] = Put(l, bs[o], p)]
<1>1. p \in Params(l) /\ n \in Nat /\ p = n + 1 /\ p \notin 1..n
  BY DEF Params
<1>2. o \in Actors
  BY TransferAssumption, <1>1 DEF Owner, Actors
<1> HIDE DEF o, p
<1>3. Put(l, bs[o], p) \in Packings(l) /\ \E k : Grown(l, bs[o], Put(l, bs[o], p), p, k)
  BY <1>1, <1>2, PutIs
<1>4. ds \in [Actors -> Packings(l)]
  BY <1>2, <1>3
<1>5. ds[o] = Put(l, bs[o], p) /\ \A a \in Actors : a # o => ds[a] = bs[a]
  BY <1>2
<1> HIDE DEF ds
<1>6. PICK k : Grown(l, bs[o], ds[o], p, k)
  BY <1>3, <1>5
<1>7. ASSUME NEW a \in Actors, NEW i \in 1..Len(ds[a]), <<a, i>> # <<o, k>>
      PROVE  i \in 1..Len(bs[a]) /\ ds[a][i] = bs[a][i]
  BY <1>5, <1>6, <1>7 DEF Grown
<1>8. \A a \in Actors : \A i \in 1..Len(bs[a]) :
        i \in 1..Len(ds[a]) /\ Range(bs[a][i]) \subseteq Range(ds[a][i])
  BY <1>5, <1>6 DEF Grown
<1>9. \A q \in 1..(n + 1) : q = p \/ q \in 1..n
  BY <1>1
<1>10. \A q \in 1..n : q \in 1..(n + 1)
  BY <1>1
<1>11. p \in 1..(n + 1)
  BY <1>1
<1>12. ASSUME NEW a \in Actors, NEW i \in 1..Len(ds[a])
       PROVE  Size(l, ds[a][i]) <= BucketSize(l) /\ Range(ds[a][i]) \subseteq 1..(n + 1)
  <2>1. CASE <<a, i>> = <<o, k>>
    BY <1>2, <1>6, <1>10, <1>11, <2>1 DEF Dealt, Grown
  <2>2. CASE <<a, i>> # <<o, k>>
    BY <1>7, <1>10, <2>2 DEF Dealt
  <2> QED
    BY <2>1, <2>2
<1>13. ASSUME NEW q \in 1..(n + 1)
       PROVE  \E a \in Actors : \E i \in 1..Len(ds[a]) : q \in Range(ds[a][i])
  <2>1. CASE q = p
    BY <1>2, <1>6, <2>1 DEF Grown
  <2>2. CASE q \in 1..n
    BY <1>8, <2>2 DEF Dealt
  <2> QED
    BY <1>9, <2>1, <2>2
<1>14. ASSUME NEW a \in Actors, NEW i \in 1..Len(ds[a]), NEW q \in Range(ds[a][i])
       PROVE  \/ q = p /\ a = o /\ i = k
              \/ q \in 1..n /\ i \in 1..Len(bs[a]) /\ q \in Range(bs[a][i])
  <2>1. CASE <<a, i>> = <<o, k>>
    <3>1. q = p \/ (k \in 1..Len(bs[o]) /\ q \in Range(bs[o][k]))
      BY <1>6, <2>1 DEF Grown
    <3> QED
      BY <1>2, <2>1, <3>1 DEF Dealt
  <2>2. CASE <<a, i>> # <<o, k>>
    BY <1>7, <2>2 DEF Dealt
  <2> QED
    BY <2>1, <2>2
<1>15. ASSUME NEW a \in Actors, NEW b \in Actors,
              NEW i \in 1..Len(ds[a]), NEW j \in 1..Len(ds[b]),
              NEW q \in Range(ds[a][i]), q \in Range(ds[b][j])
       PROVE  a = b /\ i = j
  <2>1. CASE q = p
    BY <1>1, <1>14, <1>15, <2>1
  <2>2. CASE q # p
    BY <1>14, <1>15, <2>2 DEF Dealt
  <2> QED
    BY <2>1, <2>2
<1>16. Dealt(l, ds, n + 1)
  BY <1>12, <1>13, <1>15 DEF Dealt
<1> QED
  BY <1>4, <1>16 DEF ds, o, p

\* register_checkpoint deals all parameters.
LEMMA PlanIs ==
  ASSUME NEW l \in Seq(Nat)
  PROVE  Plan(l) \in [Actors -> Packings(l)] /\ Dealt(l, Plan(l), Len(l))
<1> DEFINE N == Len(l)
           S == [Actors -> Packings(l)]
           base == [a \in Actors |-> << <<>> >>]
           IsPlan(f) == f = [n \in 0..N |->
                               IF n = 0 THEN base
                               ELSE [f[n - 1] EXCEPT ![Owner(n)] = Put(l, @, n)]]
           packed == CHOOSE f : IsPlan(f)
           G == [n \in 1..N |->
                   [x \in S |-> [x EXCEPT ![Owner(n)] = Put(l, @, n)]]]
<1>1. N \in Nat /\ base \in S
  BY DEF Packings
<1>2. Plan(l) = packed[N]
  BY DEF Plan
<1>3. G \in StepsOn(S, N)
  <2> SUFFICES ASSUME NEW n \in 1..N, NEW x \in S
               PROVE  [x EXCEPT ![Owner(n)] = Put(l, @, n)] \in S
    BY DEF StepsOn
  <2>1. n \in Params(l) /\ Owner(n) \in Actors
    BY <1>1, TransferAssumption DEF Params, Owner, Actors
  <2>2. Put(l, x[Owner(n)], n) \in Packings(l)
    BY <2>1, PutIs
  <2> QED
    BY <2>1, <2>2
<1>4. \A x \in S, n \in 1..N : G[n][x] = [x EXCEPT ![Owner(n)] = Put(l, @, n)]
  OBVIOUS
<1>5. Dealt(l, base, 0)
  <2>1. \A a \in Actors : Len(base[a]) = 1 /\ base[a][1] = <<>>
    OBVIOUS
  <2>2. Range(<<>>) = {}
    BY DEF Range
  <2>3. Size(l, <<>>) = 0 /\ BucketSize(l) \in Nat
    <3>1. <<>> \in Seq(Params(l))
      OBVIOUS
    <3> QED
      BY <3>1, SizeIs, BucketSizeIs
  <2> HIDE DEF base
  <2> QED
    BY <2>1, <2>2, <2>3 DEF Dealt
<1> HIDE DEF G, N, base, S
<1>6. \E f : IsPlan(f)
  <2>1. PICK f : Computes(f, S, base, G, N)
    BY <1>1, <1>3, Recursion
  <2>2. f \in [0..N -> S] /\ f[0] = base /\ \A n \in 1..N : f[n] = G[n][f[n - 1]]
    BY <2>1 DEF Computes
  <2>3. ASSUME NEW i \in 0..N, i # 0
        PROVE  f[i] = [f[i - 1] EXCEPT ![Owner(i)] = Put(l, @, i)]
    <3>1. i \in 1..N /\ i - 1 \in 0..N
      BY <1>1, <2>3
    <3> QED
      BY <1>4, <2>2, <3>1
  <2>4. IsPlan(f)
    BY <2>2, <2>3
  <2> QED
    BY <2>4
<1>7. IsPlan(packed)
  BY <1>6
<1>8. packed = [n \in 0..N |-> packed[n]] /\ packed[0] = base
      /\ \A n \in 1..N : packed[n] = [packed[n - 1] EXCEPT ![Owner(n)] = Put(l, @, n)]
  <2> HIDE DEF packed
  <2>1. packed = [n \in 0..N |-> IF n = 0 THEN base
                                 ELSE [packed[n - 1] EXCEPT ![Owner(n)] = Put(l, @, n)]]
    BY <1>7
  <2>2. \A n \in 1..N : packed[n] = [packed[n - 1] EXCEPT ![Owner(n)] = Put(l, @, n)]
    <3> TAKE n \in 1..N
    <3>1. n \in 0..N /\ n # 0
      BY <1>1
    <3> QED
      BY <2>1, <3>1
  <2>3. packed = [n \in 0..N |-> packed[n]] /\ packed[0] = base
    BY <1>1, <2>1
  <2> QED
    BY <2>2, <2>3
<1> HIDE DEF packed
<1>9. packed \in [0..N -> S]
  <2>1. \A n \in 1..N : packed[n - 1] \in S => packed[n] = G[n][packed[n - 1]]
    BY <1>4, <1>8
  <2>2. Computes(packed, S, base, G, N)
    BY <1>1, <1>3, <1>8, <2>1, Recursive
  <2> QED
    BY <2>2 DEF Computes
<1> DEFINE T == {n \in 0..N : Dealt(l, packed[n], n)}
<1>10. 0 \in T
  BY <1>1, <1>5, <1>8
<1>11. ASSUME NEW n \in 0..N, n \in T, n # N PROVE n + 1 \in T
  <2>1. n + 1 \in 1..N /\ n + 1 \in 0..N /\ (n + 1) - 1 = n
    BY <1>1, <1>11
  <2>2. packed[n + 1] = [packed[n] EXCEPT ![Owner(n + 1)] = Put(l, @, n + 1)]
    BY <1>8, <2>1
  <2>3. packed[n] \in S /\ Dealt(l, packed[n], n)
    BY <1>9, <1>11
  <2>4. Dealt(l, packed[n + 1], n + 1)
    BY <1>11, <2>2, <2>3, DealtNext DEF N, S
  <2> QED
    BY <2>1, <2>4
<1>12. \A n \in 0..N : n \in T
  <2> HIDE DEF T
  <2> QED
    BY <1>1, <1>10, <1>11, Induction
<1>13. N \in 0..N
  BY <1>1
<1> QED
  BY <1>2, <1>9, <1>12, <1>13 DEF N, S

\* What a turn is.
Sources == [src : Actors, iter : Nat]

\* The buckets of an iteration: those of its number, each once.
LEMMA IterationIs ==
  ASSUME NEW bs, \A a \in Actors : Len(bs[a]) \in Nat, NEW i \in Nat
  PROVE  /\ Iteration(bs, i) \in Seq(Sources)
         /\ \A g \in 1..Len(Iteration(bs, i)) :
              /\ Iteration(bs, i)[g].iter = i
              /\ i <= Len(bs[Iteration(bs, i)[g].src])
         /\ \A a \in Actors : i <= Len(bs[a]) =>
              \E g \in 1..Len(Iteration(bs, i)) : Iteration(bs, i)[g].src = a
         /\ \A g, h \in 1..Len(Iteration(bs, i)) :
              Iteration(bs, i)[g].src = Iteration(bs, i)[h].src => g = h
<1> DEFINE N == ActorNum
           S == Seq(Sources)
           turn(n) == [src |-> n - 1, iter |-> i]
           Step(x, n) == IF i > Len(bs[n - 1]) THEN x ELSE Append(x, turn(n))
           IsLoop(f) == f = [n \in 0..N |-> IF n = 0 THEN <<>>
                                            ELSE IF i > Len(bs[n - 1]) THEN f[n - 1]
                                            ELSE Append(f[n - 1], turn(n))]
           upto == CHOOSE f : IsLoop(f)
           G == [n \in 1..N |-> [x \in S |-> Step(x, n)]]
<1>1. N \in Nat /\ <<>> \in S /\ N \in 0..N
  BY TransferAssumption
<1>2. Iteration(bs, i) = upto[N]
  BY DEF Iteration
<1>3. \A n \in 1..N : n - 1 \in Actors /\ turn(n) \in Sources
  BY <1>1 DEF Actors, Sources
<1> HIDE DEF turn, S
<1>4. G \in StepsOn(S, N)
  BY <1>3 DEF StepsOn, S
<1>5. \A x \in S, n \in 1..N : G[n][x] = Step(x, n)
  OBVIOUS
<1> HIDE DEF G, N
<1>6. \E f : IsLoop(f)
  <2>1. PICK f : Computes(f, S, <<>>, G, N)
    BY <1>1, <1>4, Recursion
  <2>2. f \in [0..N -> S] /\ f[0] = <<>> /\ \A n \in 1..N : f[n] = G[n][f[n - 1]]
    BY <2>1 DEF Computes
  <2>3. ASSUME NEW n \in 0..N, n # 0 PROVE f[n] = Step(f[n - 1], n)
    <3>1. n \in 1..N /\ n - 1 \in 0..N
      BY <1>1, <2>3
    <3> QED
      BY <1>5, <2>2, <3>1
  <2>4. IsLoop(f)
    BY <2>2, <2>3
  <2> QED
    BY <2>4
<1>7. IsLoop(upto)
  BY <1>6
<1>8. upto = [n \in 0..N |-> upto[n]] /\ upto[0] = <<>>
      /\ \A n \in 1..N : upto[n] = Step(upto[n - 1], n)
  <2> HIDE DEF upto
  <2>1. upto = [n \in 0..N |-> IF n = 0 THEN <<>> ELSE Step(upto[n - 1], n)]
    BY <1>7
  <2> HIDE DEF Step
  <2>2. \A n \in 1..N : upto[n] = Step(upto[n - 1], n)
    <3> TAKE n \in 1..N
    <3>1. n \in 0..N /\ n # 0
      BY <1>1
    <3> QED
      BY <2>1, <3>1
  <2>3. upto = [n \in 0..N |-> upto[n]] /\ upto[0] = <<>>
    BY <1>1, <2>1
  <2> QED
    BY <2>2, <2>3
<1> HIDE DEF upto
<1>9. upto \in [0..N -> S]
  <2>1. \A n \in 1..N : upto[n - 1] \in S => upto[n] = G[n][upto[n - 1]]
    BY <1>5, <1>8
  <2>2. Computes(upto, S, <<>>, G, N)
    BY <1>1, <1>4, <1>8, <2>1, Recursive
  <2> QED
    BY <2>2 DEF Computes
<1> DEFINE \* the first n actors have had their turns
           Did(s, n) ==
             /\ \A g \in 1..Len(s) :
                  s[g].iter = i /\ s[g].src \in 0..(n - 1) /\ i <= Len(bs[s[g].src])
             /\ \A a \in 0..(n - 1) : i <= Len(bs[a]) => \E g \in 1..Len(s) : s[g].src = a
             /\ \A g, h \in 1..Len(s) : s[g].src = s[h].src => g = h
           T == {n \in 0..N : Did(upto[n], n)}
<1>10. 0 \in T
  BY <1>1, <1>8
<1>11. ASSUME NEW n \in 0..N, n \in T, n # N PROVE n + 1 \in T
  <2> DEFINE s == upto[n]
             t == upto[n + 1]
  <2>1. n + 1 \in 1..N /\ n + 1 \in 0..N /\ (n + 1) - 1 = n /\ n \in Actors /\ n \in Nat
    BY <1>1, <1>11 DEF Actors, N
  <2>2. t = Step(s, n + 1) /\ s \in Seq(Sources) /\ Did(s, n) /\ Len(bs[n]) \in Nat
    BY <1>8, <1>9, <1>11, <2>1 DEF S
  <2>3. \A a \in 0..n : a = n \/ a \in 0..(n - 1)
    BY <2>1
  <2>4. \A a \in 0..(n - 1) : a \in 0..n /\ a # n
    BY <2>1
  <2> HIDE DEF s, t
  <2>5. CASE i > Len(bs[n])
    <3>1. t = s
      BY <2>1, <2>2, <2>5
    <3>2. ~ (i <= Len(bs[n]))
      BY <2>2, <2>5
    <3>3. Did(s, n + 1)
      BY <2>1, <2>2, <2>3, <2>4, <3>2
    <3> QED
      BY <2>1, <3>1, <3>3 DEF t
  <2>6. CASE ~ (i > Len(bs[n]))
    <3> DEFINE L == Len(s)
    <3>1. t = Append(s, turn(n + 1)) /\ turn(n + 1) = [src |-> n, iter |-> i]
      BY <2>1, <2>2, <2>6 DEF turn
    <3>2. L \in Nat /\ Len(t) = L + 1 /\ t[L + 1] = turn(n + 1)
          /\ \A g \in 1..L : t[g] = s[g]
      BY <2>2, <3>1
    <3>3. i <= Len(bs[n]) /\ n \in 0..n
      BY <2>1, <2>2, <2>6
    <3>4. \A g \in 1..(L + 1) : g = L + 1 \/ g \in 1..L
      BY <3>2
    <3>5. \A g \in 1..L : g \in 1..(L + 1)
      BY <3>2
    <3>6. L + 1 \in 1..(L + 1)
      BY <3>2
    <3>7. t[L + 1].src = n /\ t[L + 1].iter = i
      BY <3>1, <3>2
    <3> HIDE DEF L
    <3>8. \A g \in 1..(L + 1) :
            t[g].iter = i /\ t[g].src \in 0..n /\ i <= Len(bs[t[g].src])
      BY <2>2, <2>4, <3>2, <3>3, <3>4, <3>7 DEF L
    <3>9. \A a \in 0..n : i <= Len(bs[a]) => \E g \in 1..(L + 1) : t[g].src = a
      <4> SUFFICES ASSUME NEW a \in 0..n, i <= Len(bs[a])
                   PROVE  \E g \in 1..(L + 1) : t[g].src = a
        OBVIOUS
      <4>1. CASE a = n
        BY <3>6, <3>7, <4>1
      <4>2. CASE a # n
        <5>1. PICK g \in 1..L : s[g].src = a
          BY <2>2, <2>3, <4>2 DEF L
        <5> QED
          BY <3>2, <3>5, <5>1
      <4> QED
        BY <4>1, <4>2
    <3>10. \A g \in 1..L : t[g].src # n
      BY <2>2, <2>4, <3>2 DEF L
    <3>11. \A g, h \in 1..(L + 1) : t[g].src = t[h].src => g = h
      BY <2>2, <3>2, <3>4, <3>7, <3>10 DEF L
    <3>12. Did(t, n + 1)
      BY <2>1, <3>2, <3>8, <3>9, <3>11
    <3> QED
      BY <2>1, <3>12 DEF t
  <2> QED
    BY <2>5, <2>6
<1>12. \A n \in 0..N : n \in T
  <2> HIDE DEF T
  <2> QED
    BY <1>1, <1>10, <1>11, Induction
<1>13. Did(upto[N], N) /\ upto[N] \in Seq(Sources) /\ Actors = 0..(N - 1)
  BY <1>1, <1>9, <1>12 DEF S, Actors, N
<1> QED
  BY <1>2, <1>13

\* The turns: each bucket of each actor once.
Rounds(bs, t) ==
  /\ t \in Seq(Sources)
  /\ \A g \in 1..Len(t) : t[g].iter \in 1..Len(bs[t[g].src])
  /\ \A a \in Actors : \A i \in 1..Len(bs[a]) :
       \E g \in 1..Len(t) : t[g].src = a /\ t[g].iter = i
  /\ \A g, h \in 1..Len(t) : t[g].src = t[h].src /\ t[g].iter = t[h].iter => g = h

\* No actor has more buckets than there are iterations.
LEMMA MaxBucketsIs ==
  ASSUME NEW bs, \A a \in Actors : Len(bs[a]) \in Nat
  PROVE  MaxBuckets(bs) \in Nat /\ \A a \in Actors : Len(bs[a]) <= MaxBuckets(bs)
<1> DEFINE N == ActorNum - 1
           f == [i \in 0..N |-> Len(bs[i])]
<1>1. N \in Nat /\ Actors = 0..N
  BY TransferAssumption DEF Actors
<1> HIDE DEF N
<1>2. f \in [0..N -> Nat] /\ \A i \in 0..N : f[i] = Len(bs[i])
  BY <1>1
<1>3. {f[i] : i \in 0..N} = {Len(bs[a]) : a \in Actors}
  BY <1>1
<1> HIDE DEF f
<1> QED
  BY <1>1, <1>2, <1>3, MaxIs DEF MaxBuckets

\* The two loops of update_checkpoint go through all buckets.
LEMMA TurnsIs ==
  ASSUME NEW bs, \A a \in Actors : Len(bs[a]) \in Nat
  PROVE  Rounds(bs, Turns(bs))
<1> DEFINE N == MaxBuckets(bs)
           S == Seq(Sources)
           IsLoop(f) == f = [i \in 0..N |-> IF i = 0 THEN <<>>
                                            ELSE f[i - 1] \o Iteration(bs, i)]
           upto == CHOOSE f : IsLoop(f)
           G == [i \in 1..N |-> [x \in S |-> x \o Iteration(bs, i)]]
<1>1. N \in Nat /\ <<>> \in S /\ N \in 0..N /\ \A a \in Actors : Len(bs[a]) <= N
  BY MaxBucketsIs
<1>2. Turns(bs) = upto[N]
  BY DEF Turns
<1> HIDE DEF N
<1>3. \A i \in 1..N : i \in Nat /\ Iteration(bs, i) \in S
  <2> TAKE i \in 1..N
  <2>1. i \in Nat
    BY <1>1
  <2> QED
    BY <2>1, IterationIs
<1>4. G \in StepsOn(S, N)
  BY <1>3 DEF StepsOn
<1> HIDE DEF S
<1>5. \A x \in S, i \in 1..N : G[i][x] = x \o Iteration(bs, i)
  OBVIOUS
<1> HIDE DEF G
<1>6. \E f : IsLoop(f)
  <2>1. PICK f : Computes(f, S, <<>>, G, N)
    BY <1>1, <1>4, Recursion
  <2>2. f \in [0..N -> S] /\ f[0] = <<>> /\ \A n \in 1..N : f[n] = G[n][f[n - 1]]
    BY <2>1 DEF Computes
  <2>3. ASSUME NEW i \in 0..N, i # 0 PROVE f[i] = f[i - 1] \o Iteration(bs, i)
    <3>1. i \in 1..N /\ i - 1 \in 0..N
      BY <1>1, <2>3
    <3> QED
      BY <1>5, <2>2, <3>1
  <2>4. IsLoop(f)
    BY <2>2, <2>3
  <2> QED
    BY <2>4
<1>7. IsLoop(upto)
  BY <1>6
<1>8. upto = [i \in 0..N |-> upto[i]] /\ upto[0] = <<>>
      /\ \A i \in 1..N : upto[i] = upto[i - 1] \o Iteration(bs, i)
  <2> HIDE DEF upto
  <2>1. upto = [i \in 0..N |-> IF i = 0 THEN <<>> ELSE upto[i - 1] \o Iteration(bs, i)]
    BY <1>7
  <2>2. \A i \in 1..N : upto[i] = upto[i - 1] \o Iteration(bs, i)
    <3> TAKE i \in 1..N
    <3>1. i \in 0..N /\ i # 0
      BY <1>1
    <3> QED
      BY <2>1, <3>1
  <2>3. upto = [i \in 0..N |-> upto[i]] /\ upto[0] = <<>>
    BY <1>1, <2>1
  <2> QED
    BY <2>2, <2>3
<1> HIDE DEF upto
<1>9. upto \in [0..N -> S]
  <2>1. \A i \in 1..N : upto[i - 1] \in S => upto[i] = G[i][upto[i - 1]]
    BY <1>5, <1>8
  <2>2. Computes(upto, S, <<>>, G, N)
    BY <1>1, <1>4, <1>8, <2>1, Recursive
  <2> QED
    BY <2>2 DEF Computes
<1> DEFINE \* the first n iterations are over
           Did(s, n) ==
             /\ \A g \in 1..Len(s) : s[g].iter \in 1..n /\ s[g].iter <= Len(bs[s[g].src])
             /\ \A a \in Actors : \A i \in 1..n : i <= Len(bs[a]) =>
                  \E g \in 1..Len(s) : s[g].src = a /\ s[g].iter = i
             /\ \A g, h \in 1..Len(s) :
                  s[g].src = s[h].src /\ s[g].iter = s[h].iter => g = h
           T == {n \in 0..N : Did(upto[n], n)}
<1>10. 0 \in T
  BY <1>1, <1>8
<1>11. ASSUME NEW n \in 0..N, n \in T, n # N PROVE n + 1 \in T
  <2> DEFINE s == upto[n]
             u == Iteration(bs, n + 1)
             t == upto[n + 1]
             L == Len(s)
  <2>1. n + 1 \in 1..N /\ n + 1 \in 0..N /\ (n + 1) - 1 = n /\ n \in Nat /\ n + 1 \in Nat
    BY <1>1, <1>11
  <2>2. t = s \o u /\ s \in Seq(Sources) /\ Did(s, n)
    BY <1>8, <1>9, <1>11, <2>1 DEF S
  <2>3. /\ u \in Seq(Sources)
        /\ \A g \in 1..Len(u) : u[g].iter = n + 1 /\ n + 1 <= Len(bs[u[g].src])
        /\ \A a \in Actors : n + 1 <= Len(bs[a]) => \E g \in 1..Len(u) : u[g].src = a
        /\ \A g, h \in 1..Len(u) : u[g].src = u[h].src => g = h
    BY <2>1, IterationIs
  <2> HIDE DEF s, u, t
  <2>4. /\ L \in Nat /\ Len(u) \in Nat /\ Len(t) = L + Len(u)
        /\ \A g \in 1..L : g \in 1..Len(t) /\ t[g] = s[g]
        /\ \A g \in 1..Len(u) : L + g \in 1..Len(t) /\ t[L + g] = u[g]
        /\ \A g \in 1..Len(t) : g \in 1..L \/ (g - L \in 1..Len(u) /\ t[g] = u[g - L])
    BY <2>2, <2>3
  <2>5. \A i \in 1..(n + 1) : i = n + 1 \/ i \in 1..n
    BY <2>1
  <2>6. \A i \in 1..n : i \in 1..(n + 1) /\ i # n + 1
    BY <2>1
  <2>7. n + 1 \in 1..(n + 1)
    BY <2>1
  <2>8. \A g \in 1..Len(t) :
          t[g].iter \in 1..(n + 1) /\ t[g].iter <= Len(bs[t[g].src])
    BY <2>2, <2>3, <2>4, <2>6, <2>7 DEF L
  <2>9. ASSUME NEW a \in Actors, NEW i \in 1..(n + 1), i <= Len(bs[a])
        PROVE  \E g \in 1..Len(t) : t[g].src = a /\ t[g].iter = i
    <3>1. CASE i = n + 1
      <4>1. PICK g \in 1..Len(u) : u[g].src = a
        BY <2>3, <2>9, <3>1
      <4> QED
        BY <2>3, <2>4, <3>1, <4>1
    <3>2. CASE i \in 1..n
      <4>1. PICK g \in 1..L : s[g].src = a /\ s[g].iter = i
        BY <2>2, <2>9, <3>2 DEF L
      <4> QED
        BY <2>4, <4>1
    <3> QED
      BY <2>5, <3>1, <3>2
  <2>10. ASSUME NEW g \in 1..Len(t), NEW h \in 1..Len(t),
                t[g].src = t[h].src, t[g].iter = t[h].iter
         PROVE  g = h
    <3>1. \A k \in 1..L : t[k].iter # n + 1 /\ t[k] = s[k]
      BY <2>2, <2>4, <2>6 DEF L
    <3>2. \A k \in 1..Len(t) :
            k \in 1..L \/ (k - L \in 1..Len(u) /\ t[k] = u[k - L] /\ t[k].iter = n + 1)
      BY <2>3, <2>4
    <3>3. CASE t[g].iter = n + 1
      <4>1. g - L \in 1..Len(u) /\ h - L \in 1..Len(u) /\ u[g - L].src = u[h - L].src
        BY <2>10, <3>1, <3>2, <3>3
      <4>2. g - L = h - L
        BY <2>3, <4>1
      <4> QED
        BY <2>4, <4>2
    <3>4. CASE t[g].iter # n + 1
      <4>1. g \in 1..L /\ h \in 1..L
        BY <2>10, <3>2, <3>4
      <4> QED
        BY <2>2, <2>10, <3>1, <4>1 DEF L
    <3> QED
      BY <3>3, <3>4
  <2>11. Did(t, n + 1)
    BY <2>8, <2>9, <2>10
  <2> QED
    BY <2>1, <2>11 DEF t
<1>12. \A n \in 0..N : n \in T
  <2> HIDE DEF T
  <2> QED
    BY <1>1, <1>10, <1>11, Induction
<1> DEFINE t == upto[N]
<1>13. Did(t, N) /\ t \in Seq(Sources)
  BY <1>1, <1>9, <1>12 DEF S
<1> HIDE DEF t
<1>14. \A g \in 1..Len(t) : t[g].iter \in 1..Len(bs[t[g].src])
  <2> TAKE g \in 1..Len(t)
  <2>1. t[g] \in Sources /\ t[g].iter \in 1..N /\ t[g].iter <= Len(bs[t[g].src])
    BY <1>13
  <2>2. Len(bs[t[g].src]) \in Nat
    BY <2>1 DEF Sources
  <2> QED
    BY <1>1, <2>1, <2>2
<1>15. \A a \in Actors : \A i \in 1..Len(bs[a]) : i \in 1..N /\ i <= Len(bs[a])
  <2> TAKE a \in Actors
  <2>1. Len(bs[a]) \in Nat /\ Len(bs[a]) <= N
    BY <1>1
  <2> QED
    BY <1>1, <2>1
<1>16. Rounds(bs, t)
  BY <1>13, <1>14, <1>15 DEF Rounds
<1> QED
  BY <1>2, <1>16 DEF t

-------------------------------------------------------------------------------
\* The bucket of turn g.
B(g) == buckets[turns[g].src][turns[g].iter]

\* The plan is made once and stays: the second registration finds global_buckets.
PlanInv ==
  /\ overlap \in BOOLEAN /\ layout \in Layouts
  /\ buckets = Plan(layout) /\ turns = Turns(buckets)

\* Every parameter is in the bucket of one turn.
Planned ==
  /\ layout \in Seq(Nat) /\ buckets \in [Actors -> Packings(layout)]
  /\ Dealt(layout, buckets, Len(layout))
  /\ Rounds(buckets, turns)
  /\ \A g \in 1..Len(turns) :
       turns[g].src \in Actors /\ turns[g].iter \in 1..Len(buckets[turns[g].src])
  /\ \A p \in Params(layout) : \E g \in 1..Len(turns) :
       p \in Range(B(g)) /\ \A h \in 1..Len(turns) : p \in Range(B(h)) => h = g

\* What register_checkpoint has planned stays.
LEMMA PlanInvAlways == Spec => []PlanInv
<1>1. Init => PlanInv
  BY DEF Init, PlanInv
<1>2. [Next]_vars => UNCHANGED config
  <2>1. ASSUME NEW r \in Ranks, Main(r) PROVE UNCHANGED config
    BY <2>1 DEF Main, Register, Pin, Start, Broadcast, Receive, Acknowledged, SendMetas,
                LastTurn, LeaveLoop, SendStop, Join, Finish, Done, LoadInline
  <2>2. ASSUME NEW r \in Ranks, Second(r) \/ FailInline(r) \/ FailPayload(r)
        PROVE  UNCHANGED config
    BY <2>2 DEF Second, Greet, TakePayload, LoadPayload, Stop, Hear, FailInline, FailPayload
  <2>3. SyncWeights \/ UNCHANGED vars => UNCHANGED config
    BY DEF SyncWeights, vars
  <2> QED
    BY <2>1, <2>2, <2>3 DEF Next
<1>3. PlanInv /\ UNCHANGED config => PlanInv'
  BY DEF PlanInv, config
<1> QED
  BY <1>1, <1>2, <1>3, PTL DEF Spec

\* The plan gives every parameter one bucket, and every bucket one turn.
LEMMA PlanMeans == PlanInv => Planned
<1> SUFFICES ASSUME PlanInv PROVE Planned
  OBVIOUS
<1>1. layout \in Seq(Nat)
  BY TransferAssumption DEF PlanInv
<1>2. buckets \in [Actors -> Packings(layout)] /\ Dealt(layout, buckets, Len(layout))
  BY <1>1, PlanIs DEF PlanInv
<1>3. \A a \in Actors : Len(buckets[a]) \in Nat
  BY <1>2 DEF Packings
<1>4. Rounds(buckets, turns)
  BY <1>3, TurnsIs DEF PlanInv
<1>5. \A g \in 1..Len(turns) :
        turns[g].src \in Actors /\ turns[g].iter \in 1..Len(buckets[turns[g].src])
  <2> TAKE g \in 1..Len(turns)
  <2>1. turns[g] \in Sources
    BY <1>4 DEF Rounds
  <2> QED
    BY <1>4, <2>1 DEF Rounds, Sources
<1>6. ASSUME NEW p \in Params(layout)
      PROVE  \E g \in 1..Len(turns) :
               p \in Range(B(g)) /\ \A h \in 1..Len(turns) : p \in Range(B(h)) => h = g
  <2>1. PICK a \in Actors : \E i \in 1..Len(buckets[a]) : p \in Range(buckets[a][i])
    BY <1>2 DEF Dealt, Params
  <2>2. PICK i \in 1..Len(buckets[a]) : p \in Range(buckets[a][i])
    BY <2>1
  <2>3. PICK g \in 1..Len(turns) : turns[g].src = a /\ turns[g].iter = i
    BY <1>4 DEF Rounds
  <2>4. ASSUME NEW h \in 1..Len(turns), p \in Range(B(h)) PROVE h = g
    <3>1. turns[h].src = a /\ turns[h].iter = i
      BY <1>2, <1>5, <2>2, <2>4 DEF Dealt, B
    <3> QED
      BY <1>4, <2>3, <3>1 DEF Rounds
  <2> QED
    BY <2>2, <2>3, <2>4 DEF B
<1> QED
  BY <1>1, <1>2, <1>4, <1>5, <1>6 DEF Planned

\* No bucket is larger than the half of the buffer it is broadcast into, and every
\* parameter is in one bucket of one actor (register_checkpoint).
THEOREM BucketsFit == Spec => []Fits
<1>1. Planned => Fits
  <2> SUFFICES ASSUME Planned PROVE Fits
    OBVIOUS
  <2>1. \A a \in Actors : DOMAIN buckets[a] = 1..Len(buckets[a])
    BY DEF Planned, Packings
  <2>2. \A a \in Actors : \A i \in DOMAIN buckets[a] :
          Size(layout, buckets[a][i]) <= BucketSize(layout)
    BY <2>1 DEF Planned, Dealt
  <2>3. ASSUME NEW p \in Params(layout), NEW a \in Actors, NEW b \in Actors,
               NEW i \in DOMAIN buckets[a], NEW j \in DOMAIN buckets[b],
               p \in Range(buckets[a][i]), p \in Range(buckets[b][j])
        PROVE  <<a, i>> = <<b, j>>
    <3>1. i \in 1..Len(buckets[a]) /\ j \in 1..Len(buckets[b])
      BY <2>1
    <3>2. a = b /\ i = j
      BY <2>3, <3>1 DEF Planned, Dealt
    <3> QED
      BY <3>2
  <2>4. ASSUME NEW p \in Params(layout)
        PROVE  \E a \in Actors : \E i \in DOMAIN buckets[a] :
                 /\ p \in Range(buckets[a][i])
                 /\ \A b \in Actors : \A j \in DOMAIN buckets[b] :
                      p \in Range(buckets[b][j]) => <<a, i>> = <<b, j>>
    <3>1. PICK a \in Actors : \E i \in 1..Len(buckets[a]) : p \in Range(buckets[a][i])
      BY DEF Planned, Dealt, Params
    <3>2. PICK i \in DOMAIN buckets[a] : p \in Range(buckets[a][i])
      BY <2>1, <3>1
    <3> QED
      BY <2>3, <3>2
  <2> QED
    BY <2>2, <2>4 DEF Fits
<1> QED
  BY PlanInvAlways, PlanMeans, <1>1, PTL

-------------------------------------------------------------------------------
(***************************************************************************)
(* The calls of the group.  Every rank makes the same number of calls in   *)
(* a synchronization, and which call it makes next follows from how many   *)
(* it has made: so the calls at one place in the order are the same.       *)
(***************************************************************************)
\* Calls of a synchronization, those of them before broadcast g + 1, and the o-th of them.
Span == IF overlap THEN 2 * Len(turns) + 2 ELSE Len(turns) + 2

Before(g) == IF overlap THEN 2 * g + 1 ELSE g + 1

CallAt(o) ==
  IF o = 0 \/ o = Span - 1 \/ (overlap /\ o % 2 = 0)
  THEN Call("barrier", 0)
  ELSE Call("broadcast", turns[IF overlap THEN (o + 1) \div 2 ELSE o].src)

\* Calls a rank has made in its synchronization.
Place(r) ==
  CASE pc[r] = "idle" -> 0
    [] pc[r] = "entry" -> 1
    [] pc[r] = "turn" -> Before(gidx[r])
    [] pc[r] \in {"bcast", "ack", "load", "failed"} -> Before(gidx[r]) + 1
    [] pc[r] = "barrier" -> Before(gidx[r]) + 2
    [] pc[r] \in {"last", "join"} -> Before(Len(turns))
    [] pc[r] = "final" -> Span

\* Where rank r is.
Stands(r) ==
  /\ pc[r] \in {"idle", "entry", "turn", "bcast", "ack", "barrier", "load", "last",
                "join", "final", "failed"}
  /\ pc[r] \in {"ack", "barrier", "last", "join"} => overlap
  /\ pc[r] \in {"load", "failed"} => ~overlap
  /\ gidx[r] \in 0..Len(turns)
  /\ pc[r] \in {"bcast", "ack", "barrier", "load", "failed"} => gidx[r] < Len(turns)
  /\ did[r] \in Nat

\* It is there with the calls it has made.
Counted(r) == at[r] = did[r] * Span + Place(r) /\ at[r] <= Len(calls)

Placed(r) == Stands(r) /\ Counted(r)

\* The k-th call of the group is the one that k asks for.
AsDue(k) ==
  \E d \in Nat, o \in 0..(Span - 1) :
    k = d * Span + o + 1 /\ calls[k].made = {CallAt(o)}

CallsShape ==
  /\ overlap \in BOOLEAN /\ Len(turns) \in Nat
  /\ \E S : calls \in Seq(S)
  /\ DOMAIN pc = Ranks /\ DOMAIN gidx = Ranks /\ DOMAIN did = Ranks /\ DOMAIN at = Ranks

CallsInv ==
  /\ CallsShape
  /\ \A r \in Ranks : Placed(r)
  /\ \A k \in DOMAIN calls : AsDue(k)
-------------------------------------------------------------------------------
\* Synchronizations are multiples of Span apart.
LEMMA Multiples ==
  ASSUME NEW a \in Nat, NEW b \in Nat, NEW c \in Nat
  PROVE  /\ a * c \in Nat /\ (a + 1) * c = a * c + c
         /\ a < b => a * c + c <= b * c
<1>1. a * c \in Nat /\ (a + 1) * c = a * c + c
  OBVIOUS
<1>2. ASSUME a < b PROVE a * c + c <= b * c
  <2>1. PICK e \in Nat : b = a + 1 + e
    <3>1. b - a - 1 \in Nat /\ b = a + 1 + (b - a - 1)
      BY <1>2
    <3> QED
      BY <3>1
  <2>2. b * c = a * c + c + e * c
    BY <2>1
  <2>3. e * c \in Nat /\ a * c \in Nat
    OBVIOUS
  <2> QED
    BY <2>2, <2>3
<1> QED
  BY <1>1, <1>2

\* A place in the order is in one synchronization, and one place of it.
LEMMA OnePlace ==
  ASSUME NEW n \in Nat, NEW d \in Nat, NEW e \in Nat,
         NEW o \in 0..(n - 1), NEW q \in 0..(n - 1), d * n + o = e * n + q
  PROVE  d = e /\ o = q
<1>1. d * n \in Nat /\ e * n \in Nat
  BY Multiples
<1>2. ~(d < e)
  <2> SUFFICES ASSUME d < e PROVE FALSE
    OBVIOUS
  <2>1. d * n + n <= e * n
    BY Multiples
  <2> QED
    BY <1>1, <2>1
<1>3. ~(e < d)
  <2> SUFFICES ASSUME e < d PROVE FALSE
    OBVIOUS
  <2>1. e * n + n <= d * n
    BY Multiples
  <2> QED
    BY <1>1, <2>1
<1>4. d = e
  BY <1>2, <1>3
<1> QED
  BY <1>1, <1>4

\* A rank makes the call that is due at its place.
LEMMA EnterKeeps ==
  ASSUME CallsInv, NEW r \in Ranks, NEW call, NEW x, Enter(r, call, x),
         Place(r) \in 0..(Span - 1), call = CallAt(Place(r)),
         UNCHANGED <<overlap, turns>>
  PROVE  /\ \E S : calls' \in Seq(S)
         /\ \A k \in DOMAIN calls' : AsDue(k)'
         /\ Len(calls) <= Len(calls')
         /\ at' = [at EXCEPT ![r] = at[r] + 1]
         /\ at[r] + 1 <= Len(calls')
<1>1. PICK S : calls \in Seq(S)
  BY DEF CallsInv, CallsShape
<1>2. Span \in Nat /\ Span' = Span /\ \A o : CallAt(o)' = CallAt(o)
  BY DEF Span, CallAt, CallsInv, CallsShape
<1>3. /\ did[r] \in Nat /\ at[r] = did[r] * Span + Place(r) /\ at[r] <= Len(calls)
      /\ Len(calls) \in Nat
  BY <1>1 DEF CallsInv, Placed, Stands, Counted
<1>4. did[r] * Span \in Nat
  BY <1>2, <1>3, Multiples
<1>5. at[r] \in Nat
  BY <1>3, <1>4, <1>2
<1>6. at' = [at EXCEPT ![r] = at[r] + 1]
  BY DEF Enter
<1>7. CASE at[r] = Len(calls)
  <2> DEFINE e == [made |-> {call}, data |-> x]
  <2>1. calls' = Append(calls, e)
    BY <1>7 DEF Enter
  <2>2. calls' \in Seq(S \cup {e}) /\ Len(calls') = Len(calls) + 1
    BY <1>1, <2>1
  <2>3. ASSUME NEW k \in DOMAIN calls' PROVE AsDue(k)'
    <3>1. CASE k \in DOMAIN calls
      <4>1. calls'[k] = calls[k]
        BY <1>1, <2>1, <3>1
      <4> QED
        BY <4>1, <3>1, <1>2 DEF CallsInv, AsDue
    <3>2. CASE k = Len(calls) + 1
      <4>1. calls'[k].made = {CallAt(Place(r))}
        BY <1>1, <2>1, <3>2
      <4>2. k = did[r] * Span + Place(r) + 1
        BY <1>3, <1>7, <3>2
      <4> QED
        BY <4>1, <4>2, <1>2, <1>3 DEF AsDue
    <3> QED
      BY <1>1, <2>1, <3>1, <3>2
  <2> QED
    BY <1>3, <1>6, <1>7, <2>2, <2>3
<1>8. CASE at[r] # Len(calls)
  <2> DEFINE k == at[r] + 1
  <2>1. k \in 1..Len(calls) /\ k \in DOMAIN calls
    BY <1>1, <1>3, <1>5, <1>8
  <2>2. PICK d \in Nat, o \in 0..(Span - 1) :
          k = d * Span + o + 1 /\ calls[k].made = {CallAt(o)}
    BY <2>1 DEF CallsInv, AsDue
  <2>3. d * Span \in Nat
    BY <1>2, Multiples
  <2>4. d * Span + o = did[r] * Span + Place(r)
    BY <1>2, <1>3, <1>4, <2>2, <2>3
  <2>5. o = Place(r)
    BY <1>2, <1>3, <2>4, OnePlace
  <2> DEFINE e == [made |-> calls[k].made \cup {call},
                   data |-> IF call.op = "broadcast" /\ call.src = r THEN x
                                                                     ELSE calls[k].data]
  <2>6. calls' = [calls EXCEPT ![k] = e]
    BY <1>8 DEF Enter
  <2>7. e.made = calls[k].made
    BY <2>2, <2>5
  <2> HIDE DEF e
  <2>8. calls' \in Seq(S \cup {e}) /\ Len(calls') = Len(calls) /\ DOMAIN calls' = DOMAIN calls
    BY <1>1, <2>1, <2>6
  <2>9. \A j \in DOMAIN calls : calls'[j].made = calls[j].made
    BY <1>1, <2>1, <2>6, <2>7
  <2>10. \A j \in DOMAIN calls' : AsDue(j)'
    BY <1>2, <2>8, <2>9 DEF CallsInv, AsDue
  <2> QED
    BY <1>3, <1>6, <2>1, <2>8, <2>10
<1> QED
  BY <1>7, <1>8

\* A step of rank r leaves the others where they are.
Alone(r) ==
  /\ UNCHANGED <<overlap, turns>>
  /\ DOMAIN pc' = Ranks /\ DOMAIN gidx' = Ranks /\ DOMAIN did' = Ranks
  /\ \A s \in Ranks \ {r} : pc'[s] = pc[s] /\ gidx'[s] = gidx[s] /\ did'[s] = did[s]

\* A rank has made a number of calls of its synchronization.
LEMMA PlaceNat ==
  ASSUME NEW r, Stands(r), overlap \in BOOLEAN, Len(turns) \in Nat
  PROVE  Place(r) \in Nat
<1>1. Before(gidx[r]) \in Nat /\ Before(Len(turns)) \in Nat /\ Span \in Nat
  BY DEF Stands, Before, Span
<1>2. CASE pc[r] \in {"idle", "entry", "turn"}
  BY <1>1, <1>2 DEF Place
<1>3. CASE pc[r] \in {"bcast", "ack", "load", "failed"}
  BY <1>1, <1>3 DEF Place
<1>4. CASE pc[r] \in {"barrier", "last", "join", "final"}
  BY <1>1, <1>4 DEF Place
<1> QED
  BY <1>2, <1>3, <1>4 DEF Stands

\* A rank that does nothing stays at its place.
LEMMA PlacedFrame ==
  ASSUME NEW s, Placed(s), UNCHANGED <<overlap, turns>>,
         pc'[s] = pc[s], gidx'[s] = gidx[s], did'[s] = did[s], at'[s] = at[s],
         at[s] <= Len(calls')
  PROVE  Placed(s)'
BY DEF Placed, Stands, Counted, Place, Span, Before

\* A step with a call brings the rank to the next place,
LEMMA CallingKeeps ==
  ASSUME CallsInv, NEW r \in Ranks, NEW call, NEW x, Enter(r, call, x), Alone(r),
         Place(r) \in 0..(Span - 1), call = CallAt(Place(r)),
         Stands(r)', did'[r] = did[r], Place(r)' = Place(r) + 1
  PROVE  CallsInv'
<1>1. /\ \E S : calls' \in Seq(S)
      /\ \A k \in DOMAIN calls' : AsDue(k)'
      /\ Len(calls) <= Len(calls')
      /\ at' = [at EXCEPT ![r] = at[r] + 1]
      /\ at[r] + 1 <= Len(calls')
  BY EnterKeeps DEF Alone
<1>2. Span \in Nat /\ Span' = Span
  BY DEF Span, CallsInv, CallsShape, Alone
<1>3. Len(calls) \in Nat /\ Len(calls') \in Nat
  BY <1>1 DEF CallsInv, CallsShape
<1>4. \A s \in Ranks : at[s] \in Nat /\ at[s] <= Len(calls')
  <2> TAKE s \in Ranks
  <2>1. /\ did[s] \in Nat /\ at[s] = did[s] * Span + Place(s) /\ at[s] <= Len(calls)
        /\ Place(s) \in Nat
    BY PlaceNat DEF CallsInv, CallsShape, Placed, Stands, Counted
  <2>2. did[s] * Span \in Nat
    BY <1>2, <2>1, Multiples
  <2> QED
    BY <1>1, <1>3, <2>1, <2>2
<1>5. CallsShape'
  BY <1>1 DEF CallsInv, CallsShape, Alone
<1>6. ASSUME NEW s \in Ranks PROVE Placed(s)'
  <2>1. CASE s = r
    <3>1. at'[r] = at[r] + 1 /\ at[r] = did[r] * Span + Place(r) /\ did[r] \in Nat
      BY <1>1 DEF CallsInv, CallsShape, Placed, Counted, Stands
    <3>2. did[r] * Span \in Nat
      BY <1>2, <3>1, Multiples
    <3>3. at'[r] = did'[r] * Span' + Place(r)'
      BY <1>2, <3>1, <3>2
    <3> QED
      BY <1>1, <2>1, <3>1, <3>3 DEF Placed, Counted
  <2>2. CASE s # r
    <3>1. at'[s] = at[s]
      BY <1>1, <2>2 DEF CallsInv, CallsShape
    <3> QED
      BY <1>4, <2>2, <3>1, PlacedFrame DEF Alone, CallsInv
  <2> QED
    BY <2>1, <2>2
<1> QED
  BY <1>1, <1>5, <1>6 DEF CallsInv

\* one without a call leaves it there,
LEMMA SilentKeeps ==
  ASSUME CallsInv, NEW r \in Ranks, UNCHANGED group, Alone(r),
         Stands(r)', did'[r] * Span + Place(r)' = did[r] * Span + Place(r)
  PROVE  CallsInv'
<1>1. UNCHANGED <<calls, at>>
  BY DEF group
<1>2. Span' = Span /\ \A o : CallAt(o)' = CallAt(o)
  BY DEF Span, CallAt, Alone
<1>3. ASSUME NEW s \in Ranks PROVE Placed(s)'
  <2>1. CASE s = r
    BY <1>1, <1>2, <2>1 DEF CallsInv, Placed, Counted
  <2>2. CASE s # r
    BY <1>1, <2>2, PlacedFrame DEF Alone, CallsInv, Placed, Counted
  <2> QED
    BY <2>1, <2>2
<1>4. CallsShape'
  BY <1>1 DEF CallsInv, CallsShape, Alone
<1>5. \A k \in DOMAIN calls' : AsDue(k)'
  BY <1>1, <1>2 DEF CallsInv, AsDue
<1> QED
  BY <1>3, <1>4, <1>5 DEF CallsInv

\* At first nothing has been called;
LEMMA CallsInit == Init => CallsInv
<1> SUFFICES ASSUME Init PROVE CallsInv
  OBVIOUS
<1>1. Len(turns) \in Nat
  BY PlanMeans DEF Init, PlanInv, Planned, Rounds
<1>2. CallsShape
  <2>1. calls \in Seq({})
    BY DEF Init
  <2> QED
    BY <1>1, <2>1 DEF Init, CallsShape
<1>3. Span \in Nat
  BY <1>1, <1>2 DEF Span, CallsShape
<1>4. 0 * Span = 0
  BY <1>3
<1>5. \A r \in Ranks : Placed(r)
  BY <1>1, <1>4 DEF Init, Placed, Stands, Counted, Place
<1>6. \A k \in DOMAIN calls : AsDue(k)
  BY DEF Init
<1> QED
  BY <1>2, <1>5, <1>6 DEF CallsInv

\* The main thread calls.
LEMMA CallingSteps ==
  ASSUME CallsInv, NEW r \in Ranks,
         Register(r) \/ Broadcast(r) \/ Acknowledged(r) \/ Join(r)
         \/ (LastTurn(r) /\ ~overlap)
  PROVE  CallsInv'
<1>0. /\ CallsShape /\ Stands(r) /\ overlap \in BOOLEAN /\ Len(turns) \in Nat
      /\ gidx[r] \in Nat /\ did[r] \in Nat
  BY DEF CallsInv, CallsShape, Placed, Stands
<1> DEFINE barrier == Call("barrier", 0)
<1>1. CASE Register(r)
  <2>1. /\ pc' = [pc EXCEPT ![r] = "entry"] /\ pc[r] = "idle"
        /\ UNCHANGED <<overlap, turns, gidx, did>> /\ Enter(r, barrier, Nothing)
    BY <1>1 DEF Register, Pin, config
  <2>2. Alone(r) /\ Stands(r)'
    BY <1>0, <2>1 DEF Alone, Stands, CallsShape
  <2>3. Place(r) = 0 /\ Place(r)' = 1 /\ 0 \in 0..(Span - 1)
    BY <1>0, <2>1 DEF Place, Span, CallsShape
  <2>4. barrier = CallAt(Place(r))
    BY <2>3 DEF CallAt
  <2> QED
    BY <2>1, <2>2, <2>3, <2>4, CallingKeeps
<1>2. CASE Broadcast(r)
  <2>1. /\ pc' = [pc EXCEPT ![r] = "bcast"] /\ pc[r] = "turn"
        /\ UNCHANGED <<overlap, turns, gidx, did>> /\ gidx[r] < Len(turns)
        /\ Enter(r, Call("broadcast", Turn(r).src), LoadedH2D(r))
    BY <1>2 DEF Broadcast, config
  <2>2. Alone(r) /\ Stands(r)'
    BY <1>0, <2>1 DEF Alone, Stands, CallsShape
  <2>3. Place(r) = Before(gidx[r]) /\ Place(r)' = Before(gidx[r]) + 1
    BY <1>0, <2>1 DEF Place, Before, CallsShape
  <2>4. /\ Before(gidx[r]) \in 0..(Span - 1)
        /\ Call("broadcast", Turn(r).src) = CallAt(Before(gidx[r]))
    <3>1. CASE overlap
      <4>1. (2 * gidx[r] + 1) % 2 = 1 /\ (2 * gidx[r] + 1 + 1) \div 2 = gidx[r] + 1
        BY <1>0
      <4>2. Before(gidx[r]) = 2 * gidx[r] + 1 /\ Span - 1 = 2 * Len(turns) + 1
        BY <1>0, <3>1 DEF Before, Span
      <4>3. Before(gidx[r]) \in 0..(Span - 1) /\ Before(gidx[r]) # Span - 1
        BY <1>0, <2>1, <4>2
      <4>4. CallAt(Before(gidx[r])) = Call("broadcast", turns[gidx[r] + 1].src)
        <5> DEFINE b == Before(gidx[r])
        <5>1. b # 0 /\ b # Span - 1 /\ b % 2 = 1 /\ (b + 1) \div 2 = gidx[r] + 1
          BY <1>0, <4>1, <4>2, <4>3
        <5> HIDE DEF b
        <5>2. CallAt(b) = Call("broadcast", turns[(b + 1) \div 2].src)
          BY <3>1, <5>1 DEF CallAt
        <5> QED
          BY <5>1, <5>2 DEF b
      <4> QED
        BY <4>3, <4>4 DEF Turn
    <3>2. CASE ~overlap
      BY <1>0, <2>1, <3>2 DEF Before, Span, CallAt, Turn
    <3> QED
      BY <3>1, <3>2
  <2> QED
    BY <2>1, <2>2, <2>3, <2>4, CallingKeeps
<1>3. CASE Acknowledged(r)
  <2>1. /\ pc' = [pc EXCEPT ![r] = "barrier"] /\ pc[r] = "ack"
        /\ UNCHANGED <<overlap, turns, gidx, did>> /\ Enter(r, barrier, Nothing)
    BY <1>3 DEF Acknowledged, config
  <2>2. overlap /\ Alone(r) /\ Stands(r)'
    BY <1>0, <2>1 DEF Alone, Stands, CallsShape
  <2>3. Place(r) = 2 * gidx[r] + 2 /\ Place(r)' = 2 * gidx[r] + 3
    BY <1>0, <2>1, <2>2 DEF Place, Before, CallsShape
  <2>4. (2 * gidx[r] + 2) % 2 = 0
    BY <1>0
  <2>5. Place(r) \in 0..(Span - 1) /\ barrier = CallAt(Place(r))
    BY <1>0, <2>1, <2>2, <2>3, <2>4 DEF Stands, Span, CallAt
  <2> QED
    BY <1>0, <2>1, <2>2, <2>3, <2>5, CallingKeeps
<1>4. CASE Join(r) \/ (LastTurn(r) /\ ~overlap)
  <2>1. /\ pc' = [pc EXCEPT ![r] = "final"] /\ Enter(r, barrier, Nothing)
        /\ UNCHANGED <<overlap, turns, gidx, did>>
        /\ \/ pc[r] = "join" /\ overlap
           \/ pc[r] = "turn" /\ gidx[r] = Len(turns) /\ ~overlap
    BY <1>0, <1>4 DEF Join, LastTurn, LeaveLoop, config, Stands
  <2>2. Alone(r) /\ Stands(r)'
    BY <1>0, <2>1 DEF Alone, Stands, CallsShape
  <2>3. Place(r) = Span - 1 /\ Place(r)' = Span
    BY <1>0, <2>1 DEF Place, Before, Span, CallsShape
  <2>4. Place(r) \in 0..(Span - 1) /\ barrier = CallAt(Place(r)) /\ Place(r)' = Place(r) + 1
    BY <1>0, <2>3 DEF Span, CallAt
  <2> QED
    BY <2>1, <2>2, <2>4, CallingKeeps
<1> QED
  BY <1>1, <1>2, <1>3, <1>4

\* It goes on without a call.
LEMMA SilentSteps ==
  ASSUME CallsInv, NEW r \in Ranks,
         Start(r) \/ Receive(r) \/ SendMetas(r) \/ SendStop(r) \/ LoadInline(r)
         \/ FailInline(r) \/ (LastTurn(r) /\ overlap)
  PROVE  CallsInv'
<1>0. /\ CallsShape /\ Stands(r) /\ overlap \in BOOLEAN /\ Len(turns) \in Nat
      /\ gidx[r] \in Nat /\ did[r] \in Nat
  BY DEF CallsInv, CallsShape, Placed, Stands
<1>1. CASE Start(r)
  <2>1. /\ pc' = [pc EXCEPT ![r] = "turn"] /\ gidx' = [gidx EXCEPT ![r] = 0]
        /\ UNCHANGED <<overlap, turns, did, group>> /\ pc[r] = "entry"
    BY <1>1 DEF Start, config
  <2>2. Alone(r) /\ Stands(r)'
    BY <1>0, <2>1 DEF Alone, Stands, CallsShape
  <2>3. Place(r) = 1 /\ Place(r)' = 1 /\ did'[r] = did[r]
    BY <1>0, <2>1 DEF Place, Before, CallsShape
  <2> QED
    BY <2>1, <2>2, <2>3, SilentKeeps
<1>2. ASSUME UNCHANGED <<overlap, turns, gidx, did, group>>, NEW to,
             pc' = [pc EXCEPT ![r] = to],
             \/ pc[r] = "bcast" /\ to = "ack" /\ overlap
             \/ pc[r] = "bcast" /\ to = "load" /\ ~overlap
             \/ pc[r] = "load" /\ to = "failed"
             \/ pc[r] = "last" /\ to = "join"
             \/ pc[r] = "turn" /\ to = "last" /\ overlap /\ gidx[r] = Len(turns)
      PROVE  CallsInv'
  <2>1. Alone(r) /\ Stands(r)'
    BY <1>0, <1>2 DEF Alone, Stands, CallsShape
  <2>2. Place(r)' = Place(r)
    BY <1>0, <1>2 DEF Place, Before, CallsShape
  <2> QED
    BY <1>2, <2>1, <2>2, SilentKeeps
<1>3. ASSUME UNCHANGED <<overlap, turns, did, group>>,
             pc' = [pc EXCEPT ![r] = "turn"], gidx' = [gidx EXCEPT ![r] = @ + 1],
             \/ pc[r] \in {"bcast", "load"} /\ ~overlap
             \/ pc[r] = "barrier"
      PROVE  CallsInv'
  <2>1. Alone(r) /\ Stands(r)'
    BY <1>0, <1>3 DEF Alone, Stands, CallsShape
  <2>2. Place(r)' = Place(r)
    BY <1>0, <1>3 DEF Place, Before, CallsShape, Stands
  <2> QED
    BY <1>3, <2>1, <2>2, SilentKeeps
<1>4. CASE Receive(r)
  BY <1>2, <1>3, <1>4 DEF Receive, config
<1>5. CASE SendMetas(r)
  BY <1>3, <1>5 DEF SendMetas, config
<1>6. CASE SendStop(r)
  BY <1>2, <1>6 DEF SendStop, config
<1>7. CASE LoadInline(r)
  BY <1>0, <1>3, <1>7 DEF LoadInline, config, Stands
<1>8. CASE FailInline(r)
  BY <1>2, <1>8 DEF FailInline, config
<1>9. CASE LastTurn(r) /\ overlap
  BY <1>2, <1>9 DEF LastTurn, LeaveLoop, config
<1> QED
  BY <1>1, <1>4, <1>5, <1>6, <1>7, <1>8, <1>9

\* The next synchronization starts at the next multiple of Span.
LEMMA FinishKeeps ==
  ASSUME CallsInv, NEW r \in Ranks, Finish(r)
  PROVE  CallsInv'
<1>0. /\ CallsShape /\ Stands(r) /\ overlap \in BOOLEAN /\ Len(turns) \in Nat
      /\ did[r] \in Nat
  BY DEF CallsInv, CallsShape, Placed, Stands
<1>1. /\ pc' = [pc EXCEPT ![r] = "idle"] /\ did' = [did EXCEPT ![r] = @ + 1]
      /\ UNCHANGED <<overlap, turns, gidx, group>> /\ pc[r] = "final"
  BY DEF Finish, Done, config
<1>2. Alone(r) /\ Stands(r)'
  BY <1>0, <1>1 DEF Alone, Stands, CallsShape
<1>3. Place(r) = Span /\ Place(r)' = 0 /\ did'[r] = did[r] + 1
  BY <1>0, <1>1 DEF Place, CallsShape
<1>4. Span \in Nat
  BY <1>0 DEF Span
<1>5. (did[r] + 1) * Span = did[r] * Span + Span /\ did[r] * Span \in Nat
  BY <1>0, <1>4, Multiples
<1>6. did'[r] * Span + Place(r)' = did[r] * Span + Place(r)
  BY <1>3, <1>4, <1>5
<1> QED
  BY <1>1, <1>2, <1>6, SilentKeeps

\* every step keeps the calls in the order they are due.
LEMMA CallsNext == CallsInv /\ [Next]_vars => CallsInv'
<1> SUFFICES ASSUME CallsInv, [Next]_vars PROVE CallsInv'
  OBVIOUS
<1>1. ASSUME UNCHANGED <<overlap, turns, pc, gidx, did, calls, at>>
      PROVE  CallsInv'
  <2>1. Span' = Span /\ \A o : CallAt(o)' = CallAt(o)
    BY <1>1 DEF Span, CallAt
  <2>2. CallsShape' /\ \A k \in DOMAIN calls' : AsDue(k)'
    BY <1>1, <2>1 DEF CallsInv, CallsShape, AsDue
  <2>3. \A r \in Ranks : Placed(r)'
    BY <1>1, PlacedFrame DEF CallsInv, Placed, Counted
  <2> QED
    BY <2>2, <2>3 DEF CallsInv
<1>2. CASE SyncWeights \/ UNCHANGED vars
  BY <1>1, <1>2 DEF SyncWeights, vars, config, mains, group
<1>3. ASSUME NEW r \in Ranks, Main(r) \/ FailInline(r) PROVE CallsInv'
  BY <1>3, CallingSteps, SilentSteps, FinishKeeps DEF Main
<1>4. ASSUME NEW r \in Ranks, Second(r) \/ FailPayload(r) PROVE CallsInv'
  BY <1>1, <1>4 DEF Second, Greet, TakePayload, Stop, Hear, LoadPayload, FailPayload,
                    config, mains, group
<1> QED
  BY <1>2, <1>3, <1>4 DEF Next

\* All ranks make the same calls in the same order, with and without overlap, whatever
\* the buckets are (update_checkpoint: collective.broadcast and collective.barrier).
THEOREM CallsAgree == Spec => []CallsMatch
<1>1. CallsInv => CallsMatch
  BY DEF CallsInv, CallsMatch, AsDue
<1> QED
  BY CallsInit, CallsNext, <1>1, PTL DEF Spec

-------------------------------------------------------------------------------
\* A rank that is in a synchronization has been asked for it.
Asked ==
  /\ sync \in 0..MaxRounds /\ failures \in 0..MaxFailures
  /\ did \in [Ranks -> Nat] /\ at = [r \in Ranks |-> at[r]]
  /\ \A r \in Ranks : did[r] <= sync /\ (pc[r] # "idle" => did[r] < sync)

\* At first nothing was asked for;
LEMMA AskedInit == Init => Asked
  BY TransferAssumption DEF Init, Asked

\* a rank begins a synchronization only when it is asked to.
LEMMA AskedNext == Asked /\ Shape /\ [Next]_vars => Asked'
<1> SUFFICES ASSUME Asked, Shape, [Next]_vars PROVE Asked'
  OBVIOUS
<1> USE TransferAssumption DEF Asked, config, mains, threads, group
<1>1. CASE SyncWeights \/ UNCHANGED vars
  BY <1>1 DEF SyncWeights, vars
<1>2. ASSUME NEW r \in Ranks, Main(r) PROVE Asked'
  <2>1. CASE Register(r)
    BY <2>1 DEF Register, Pin, Enter, Shape
  <2>2. CASE Finish(r)
    BY <2>2 DEF Finish, Done, Shape
  <2>3. ASSUME UNCHANGED <<sync, failures, did>>, pc[r] # "idle",
               at' = at \/ at' = [at EXCEPT ![r] = @ + 1],
               \A s \in Ranks \ {r} : pc'[s] = pc[s]
        PROVE  Asked'
    BY <2>3
  <2>4. CASE Start(r) \/ Receive(r) \/ SendMetas(r) \/ SendStop(r) \/ LoadInline(r)
    BY <2>3, <2>4 DEF Start, Receive, SendMetas, SendStop, LoadInline, Shape
  <2>5. CASE Broadcast(r) \/ Acknowledged(r) \/ Join(r) \/ LastTurn(r)
    BY <2>3, <2>5 DEF Broadcast, Acknowledged, Join, LastTurn, LeaveLoop, Enter, Shape
  <2> QED
    BY <1>2, <2>1, <2>2, <2>4, <2>5 DEF Main
<1>3. ASSUME NEW r \in Ranks, Second(r) PROVE Asked'
  BY <1>3 DEF Second, Greet, TakePayload, Stop, Hear, LoadPayload
<1>4. ASSUME NEW r \in Ranks, FailInline(r) \/ FailPayload(r) PROVE Asked'
  <2>1. UNCHANGED <<sync, did, at>> /\ failures' \in 0..MaxFailures
    BY <1>4 DEF FailInline, FailPayload
  <2>2. \A s \in Ranks : pc'[s] # "idle" => pc[s] # "idle"
    BY <1>4 DEF FailInline, FailPayload, Shape
  <2> QED
    BY <2>1, <2>2
<1> QED
  BY <1>1, <1>2, <1>3, <1>4 DEF Next

\* The control has its types in every reachable state: no rank makes more broadcasts
\* than there are buckets, or finishes a synchronization nobody asked for.
THEOREM TransferTyped == Spec => []TypeOK
<1>1. HandInv /\ CallsInv /\ Asked => TypeOK
  <2> SUFFICES ASSUME HandInv, CallsInv, Asked PROVE TypeOK
    OBVIOUS
  <2>1. Shape /\ Span \in Nat /\ Len(turns) \in Nat /\ overlap \in BOOLEAN
    BY DEF HandInv, CallsInv, CallsShape, Span
  <2>2. ASSUME NEW r \in Ranks
        PROVE  /\ thread[r] \in {"off", "start", "wait", "load", "dead"}
               /\ reply[r] \in BOOLEAN
               /\ req[r].kind \in {"none", "hello", "load", "stop"}
               /\ gidx[r] \in 0..Len(turns) /\ at[r] \in 0..Len(calls)
               /\ pc[r] \in {"idle", "entry", "turn", "bcast", "ack", "barrier", "load",
                             "last", "join", "final", "failed"}
    <3>1. Hand(r) /\ Stands(r) /\ Counted(r)
      BY DEF HandInv, CallsInv, Placed
    <3>2. did[r] * Span \in Nat /\ Place(r) \in Nat
      BY <2>1, <3>1, Multiples, PlaceNat DEF Stands
    <3>3. at[r] \in 0..Len(calls)
      <4>1. Len(calls) \in Nat
        BY DEF CallsInv, CallsShape
      <4> QED
        BY <3>1, <3>2, <4>1 DEF Counted
    <3>4. /\ thread[r] \in {"off", "start", "wait", "load", "dead"}
          /\ reply[r] \in BOOLEAN
          /\ req[r].kind \in {"none", "hello", "load", "stop"}
      <4>1. None.kind = "none"
        BY DEF None, Message
      <4>2. Off(r) \/ Ready(r) \/ Owed(r) \/ Ending(r)
        BY <3>1 DEF Hand
      <4>3. CASE Off(r) \/ Ready(r) \/ Ending(r)
        BY <4>1, <4>3 DEF Off, Ready, Ending
      <4>4. CASE Owed(r)
        BY <4>1, <4>4 DEF Owed
      <4> QED
        BY <4>2, <4>3, <4>4
    <3> QED
      BY <3>1, <3>3, <3>4 DEF Stands
  <2>3. did \in [Ranks -> 0..sync]
    BY DEF Asked
  <2>4. at \in [Ranks -> 0..Len(calls)]
    BY <2>2 DEF Asked
  <2> QED
    BY <2>1, <2>2, <2>3, <2>4 DEF TypeOK, Shape, Asked
<1>2. HandInv => Shape
  BY DEF HandInv
<1> QED
  BY HandInit, HandNext, CallsInit, CallsNext, AskedInit, AskedNext, <1>1, <1>2, PTL DEF Spec
-------------------------------------------------------------------------------
(***************************************************************************)
(* The data.                                                               *)
(***************************************************************************)
\* The broadcast of turn g in the synchronization after d hands over version d + 1 of its
\* bucket, once the source has called it.
Due(d, g) ==
  LET k == d * Span + Before(g - 1) + 1 IN
  at[turns[g].src] >= k => calls[k].data = Content(B(g), d + 1)

DataDue == \A d \in Nat, g \in 1..Len(turns) : Due(d, g)

\* Its place in the order of the calls.
LEMMA BroadcastAt ==
  ASSUME overlap \in BOOLEAN, Len(turns) \in Nat, NEW g \in 1..Len(turns)
  PROVE  /\ Before(g - 1) \in 1..(Span - 2) /\ Before(g - 1) \in 0..(Span - 1)
         /\ CallAt(Before(g - 1)) = Call("broadcast", turns[g].src)
         /\ overlap => Before(g - 1) % 2 = 1
<1> DEFINE b == Before(g - 1)
<1>1. CASE overlap
  <2>1. b = 2 * g - 1 /\ Span = 2 * Len(turns) + 2
    BY <1>1 DEF Before, Span
  <2>2. b % 2 = 1 /\ (b + 1) \div 2 = g /\ b \in 1..(Span - 2) /\ b \in 0..(Span - 1)
    BY <2>1
  <2>3. b # 0 /\ b # Span - 1
    BY <2>1, <2>2
  <2> HIDE DEF b
  <2>4. CallAt(b) = Call("broadcast", turns[(b + 1) \div 2].src)
    BY <1>1, <2>2, <2>3 DEF CallAt
  <2> QED
    BY <2>2, <2>4 DEF b
<1>2. CASE ~overlap
  <2>1. b = g /\ Span = Len(turns) + 2
    BY <1>2 DEF Before, Span
  <2>2. b \in 1..(Span - 2) /\ b \in 0..(Span - 1) /\ b # 0 /\ b # Span - 1
    BY <2>1
  <2> HIDE DEF b
  <2>3. CallAt(b) = Call("broadcast", turns[b].src)
    BY <1>2, <2>2 DEF CallAt
  <2> QED
    BY <1>2, <2>1, <2>2, <2>3 DEF b
<1> QED
  BY <1>1, <1>2

\* A call keeps what was handed over, and the source of a broadcast hands over its bucket.
LEMMA EnterData ==
  ASSUME CallsInv, Planned, DataDue, NEW r \in Ranks, NEW call, NEW x, Enter(r, call, x),
         UNCHANGED config, Place(r) \in 0..(Span - 1), call = CallAt(Place(r)),
         \A g \in 1..Len(turns) :
           Place(r) = Before(g - 1) /\ turns[g].src = r => x = Content(B(g), did[r] + 1)
  PROVE  DataDue'
<1>1. PICK S : calls \in Seq(S)
  BY DEF CallsInv, CallsShape
<1>2. overlap \in BOOLEAN /\ Len(turns) \in Nat /\ Span \in Nat
  BY DEF CallsInv, CallsShape, Span
<1>3. /\ did[r] \in Nat /\ at[r] = did[r] * Span + Place(r) /\ at[r] <= Len(calls)
      /\ Len(calls) \in Nat /\ DOMAIN at = Ranks
  BY <1>1 DEF CallsInv, CallsShape, Placed, Stands, Counted
<1>4. did[r] * Span \in Nat /\ at[r] \in Nat
  BY <1>2, <1>3, Multiples
<1>5. \A s \in Ranks : at[s] \in Nat /\ at[s] <= Len(calls)
  <2> TAKE s \in Ranks
  <2>1. /\ did[s] \in Nat /\ at[s] = did[s] * Span + Place(s) /\ at[s] <= Len(calls)
        /\ Place(s) \in Nat
    BY <1>2, PlaceNat DEF CallsInv, Placed, Stands, Counted
  <2>2. did[s] * Span \in Nat
    BY <1>2, <2>1, Multiples
  <2> QED
    BY <2>1, <2>2
<1>6. at' = [at EXCEPT ![r] = at[r] + 1]
  BY DEF Enter
<1>7. ASSUME NEW k \in 1..Len(calls), k # at[r] + 1 PROVE calls'[k] = calls[k]
  <2>1. CASE at[r] = Len(calls)
    BY <1>1, <1>7, <2>1 DEF Enter
  <2>2. CASE at[r] # Len(calls)
    BY <1>1, <1>7, <2>2 DEF Enter
  <2> QED
    BY <2>1, <2>2
<1>8. UNCHANGED <<overlap, turns, buckets>>
  BY DEF config
<1>9. ASSUME NEW d \in Nat, NEW g \in 1..Len(turns) PROVE Due(d, g)'
  <2> DEFINE k == d * Span + Before(g - 1) + 1
             s == turns[g].src
  <2>1. /\ Before(g - 1) \in 0..(Span - 1) /\ Before(g - 1) \in Nat
        /\ CallAt(Before(g - 1)) = Call("broadcast", s)
    BY <1>2, BroadcastAt
  <2>2. d * Span \in Nat
    BY <1>2, Multiples
  <2>3. k \in Nat /\ k >= 1
    BY <2>1, <2>2
  <2>4. s \in Ranks
    BY DEF Planned, Ranks
  <2>5. at[s] >= k => calls[k].data = Content(B(g), d + 1)
    BY DEF DataDue, Due
  <2>6. Due(d, g)' = (at'[s] >= k => calls'[k].data = Content(B(g), d + 1))
    BY <1>8 DEF Due, Span, Before, B, Content
  <2> SUFFICES ASSUME at'[s] >= k PROVE calls'[k].data = Content(B(g), d + 1)
    BY <2>6
  <2>7. CASE k # at[r] + 1
    <3>1. at[s] >= k
      <4>1. CASE s = r
        <5>1. at[r] + 1 >= k
          BY <1>3, <1>6, <4>1
        <5> HIDE DEF k
        <5> QED
          BY <1>4, <2>3, <2>7, <4>1, <5>1
      <4>2. CASE s # r
        BY <1>3, <1>6, <2>4, <4>2
      <4> QED
        BY <4>1, <4>2
    <3> HIDE DEF k
    <3>2. k \in 1..Len(calls)
      BY <1>3, <1>5, <2>3, <2>4, <3>1
    <3> QED
      BY <1>7, <2>5, <2>7, <3>1, <3>2
  <2>8. CASE k = at[r] + 1
    <3>1. d * Span + Before(g - 1) = did[r] * Span + Place(r)
      <4> DEFINE X == d * Span
                 Y == did[r] * Span
                 b == Before(g - 1)
                 p == Place(r)
                 f == at[r]
      <4>1. /\ X \in Nat /\ Y \in Nat /\ p \in Nat /\ b \in Nat /\ f \in Nat
            /\ f = Y + p /\ X + b + 1 = f + 1
        BY <1>2, <1>3, <1>4, <2>1, <2>2, <2>8
      <4> HIDE DEF X, Y, b, p, f
      <4>2. X + b = Y + p
        BY ONLY <4>1
      <4> QED
        BY <4>2 DEF X, Y, b, p
    <3>2. d = did[r] /\ Before(g - 1) = Place(r)
      <4> DEFINE o == Before(g - 1)
                 q == Place(r)
                 e == did[r]
      <4>1. o \in 0..(Span - 1) /\ q \in 0..(Span - 1) /\ d * Span + o = e * Span + q
            /\ e \in Nat
        BY <1>3, <2>1, <3>1
      <4> HIDE DEF o, q, e
      <4>2. d = e /\ o = q
        BY ONLY <1>2, <4>1, d \in Nat, OnePlace
      <4> QED
        BY <4>2 DEF o, q, e
    <3>3. call = Call("broadcast", s) /\ call.op = "broadcast" /\ call.src = s
      BY <2>1, <3>2 DEF Call
    <3>4. CASE s = r
      <4>1. x = Content(B(g), d + 1)
        BY <3>2, <3>4
      <4>2. CASE at[r] = Len(calls)
        <5>1. calls' = Append(calls, [made |-> {call}, data |-> x])
          BY <4>2 DEF Enter
        <5>2. calls'[k] = [made |-> {call}, data |-> x]
          BY <1>1, <2>8, <4>2, <5>1
        <5> QED
          BY <4>1, <5>2
      <4>3. CASE at[r] # Len(calls)
        <5>1. calls' = [calls EXCEPT ![at[r] + 1] =
                          [made |-> @.made \cup {call},
                           data |-> IF call.op = "broadcast" /\ call.src = r
                                    THEN x ELSE @.data]]
          BY <4>3 DEF Enter
        <5>2. at[r] + 1 \in DOMAIN calls
          BY <1>1, <1>3, <1>4, <4>3
        <5>3. calls'[at[r] + 1].data = x
          BY <3>3, <3>4, <5>1, <5>2
        <5> QED
          BY <2>8, <4>1, <5>3
      <4> QED
        BY <4>2, <4>3
    <3>5. CASE s # r
      <4>1. at'[s] = at[s]
        BY <1>3, <1>6, <2>4, <3>5
      <4>2. at[s] >= k
        BY <4>1
      <4> HIDE DEF k
      <4>3. k \in 1..Len(calls) /\ at[r] # Len(calls)
        BY <1>3, <1>4, <1>5, <2>3, <2>4, <2>8, <4>2
      <4>4. calls' = [calls EXCEPT ![at[r] + 1] =
                        [made |-> @.made \cup {call},
                         data |-> IF call.op = "broadcast" /\ call.src = r
                                  THEN x ELSE @.data]]
        BY <4>3 DEF Enter
      <4>5. calls'[k].data = calls[k].data
        BY <1>1, <2>8, <3>3, <3>5, <4>3, <4>4
      <4> QED
        BY <2>5, <4>2, <4>5
    <3> QED
      BY <3>4, <3>5
  <2> QED
    BY <2>7, <2>8
<1> QED
  BY <1>8, <1>9 DEF DataDue

\* g differs from f at r at most.
OnlyAt(f, g, r) == DOMAIN g = DOMAIN f /\ \A s \in DOMAIN f : s # r => g[s] = f[s]

\* An EXCEPT changes a function at one rank.
LEMMA ExceptIsOnlyAt == \A f, r, x : OnlyAt(f, f, r) /\ OnlyAt(f, [f EXCEPT ![r] = x], r)
BY DEF OnlyAt

\* The state of the data, as functions.
DataShape ==
  /\ DOMAIN mem = Ranks /\ DOMAIN h2d = Ranks /\ DOMAIN half = Ranks
  /\ \A r \in Ranks : DOMAIN half[r] = 0..1
  /\ DOMAIN model = Rollouts /\ DOMAIN loads = Rollouts
  /\ \A r \in Rollouts : DOMAIN model[r] = Params(layout) /\ DOMAIN loads[r] = Params(layout)

\* A step of rank r leaves the buffers and models of the others as they are.
Apart(r) ==
  /\ UNCHANGED config
  /\ OnlyAt(pc, pc', r) /\ OnlyAt(gidx, gidx', r) /\ OnlyAt(did, did', r)
  /\ OnlyAt(mem, mem', r) /\ OnlyAt(h2d, h2d', r) /\ OnlyAt(half, half', r)
  /\ OnlyAt(thread, thread', r) /\ OnlyAt(req, req', r) /\ OnlyAt(job, job', r)
  /\ OnlyAt(model, model', r) /\ OnlyAt(loads, loads', r)

\* Every step but SyncWeights is of one rank.
LEMMA StepsApart ==
  ASSUME NEW r \in Ranks, Main(r) \/ Second(r) \/ FailInline(r) \/ FailPayload(r)
  PROVE  Apart(r)
<1> USE ExceptIsOnlyAt DEF config, mains, threads
<1>1. CASE Register(r)
  BY <1>1 DEF Register, Pin, Apart
<1>2. CASE Start(r)
  BY <1>2 DEF Start, Apart
<1>3. CASE Broadcast(r)
  BY <1>3 DEF Broadcast, Apart
<1>4. CASE Receive(r)
  BY <1>4 DEF Receive, Apart
<1>5. CASE Acknowledged(r)
  BY <1>5 DEF Acknowledged, Apart
<1>6. CASE SendMetas(r)
  BY <1>6 DEF SendMetas, Apart
<1>7. CASE LastTurn(r)
  BY <1>7 DEF LastTurn, LeaveLoop, Apart
<1>8. CASE SendStop(r)
  BY <1>8 DEF SendStop, Apart
<1>9. CASE Join(r)
  BY <1>9 DEF Join, Apart
<1>10. CASE Finish(r)
  BY <1>10 DEF Finish, Done, Apart
<1>11. ASSUME NEW h, NEW metas, LoadWeights(r, h, metas)
       PROVE  OnlyAt(model, model', r) /\ OnlyAt(loads, loads', r)
  BY <1>11 DEF LoadWeights
<1>12. CASE LoadInline(r)
  BY <1>11, <1>12 DEF LoadInline, Apart
<1>13. CASE FailInline(r)
  BY <1>13 DEF FailInline, Apart
<1>14. CASE Greet(r) \/ TakePayload(r) \/ Stop(r)
  <2>1. ASSUME NEW from, NEW kind, NEW to, Hear(r, from, kind, to) PROVE Apart(r)
    <3>1. /\ UNCHANGED <<config, mains, model, loads>>
          /\ thread' = [thread EXCEPT ![r] = to] /\ req' = [req EXCEPT ![r] = None]
          /\ \E m : job' = [job EXCEPT ![r] = m]
      BY <2>1 DEF Hear
    <3> QED
      BY <3>1 DEF Apart
  <2> QED
    BY <1>14, <2>1 DEF Greet, TakePayload, Stop
<1>15. CASE LoadPayload(r)
  BY <1>11, <1>15 DEF LoadPayload, Apart
<1>16. CASE FailPayload(r)
  BY <1>16 DEF FailPayload, Apart
<1> QED
  BY <1>1, <1>2, <1>3, <1>4, <1>5, <1>6, <1>7, <1>8, <1>9, <1>10, <1>12, <1>13, <1>14, <1>15,
     <1>16 DEF Main, Second

\* The functions keep their domains.
LEMMA ShapeKeeps ==
  ASSUME DataShape, NEW r \in Ranks,
         Main(r) \/ Second(r) \/ FailInline(r) \/ FailPayload(r)
  PROVE  DataShape'
<1>1. Apart(r)
  BY StepsApart
<1>2. /\ DOMAIN mem' = Ranks /\ DOMAIN h2d' = Ranks /\ DOMAIN half' = Ranks
      /\ DOMAIN model' = Rollouts /\ DOMAIN loads' = Rollouts
      /\ layout' = layout
      /\ \A s \in Ranks : s # r => half'[s] = half[s]
      /\ \A s \in Rollouts : s # r => model'[s] = model[s] /\ loads'[s] = loads[s]
  BY <1>1 DEF Apart, OnlyAt, DataShape, config
<1>3. DOMAIN half'[r] = 0..1
  <2>1. CASE Start(r)
    BY <2>1 DEF Start, DataShape
  <2>2. CASE Broadcast(r)
    BY <2>2 DEF Broadcast, DataShape
  <2>3. CASE Receive(r)
    BY <2>3 DEF Receive, DataShape
  <2>4. UNCHANGED half \/ Start(r) \/ Broadcast(r) \/ Receive(r)
    BY DEF Main, Register, Pin, Acknowledged, SendMetas, LastTurn, LeaveLoop, SendStop, Join,
           Finish, Done, LoadInline, Second, Greet, TakePayload, LoadPayload, Stop, Hear,
           FailInline, FailPayload, mains
  <2> QED
    BY <2>1, <2>2, <2>3, <2>4 DEF DataShape
<1>4. ASSUME r \in Rollouts
      PROVE  DOMAIN model'[r] = Params(layout) /\ DOMAIN loads'[r] = Params(layout)
  <2>1. ASSUME NEW h, NEW metas, LoadWeights(r, h, metas)
        PROVE  DOMAIN model'[r] = Params(layout) /\ DOMAIN loads'[r] = Params(layout)
    BY <1>4, <2>1 DEF LoadWeights, DataShape
  <2>2. CASE LoadInline(r)
    BY <2>1, <2>2 DEF LoadInline
  <2>3. CASE LoadPayload(r)
    BY <2>1, <2>3 DEF LoadPayload
  <2>4. UNCHANGED <<model, loads>> \/ LoadInline(r) \/ LoadPayload(r)
    BY DEF Main, Register, Pin, Start, Broadcast, Receive, Acknowledged, SendMetas, LastTurn,
           LeaveLoop, SendStop, Join, Finish, Done, Second, Greet, TakePayload, Stop, Hear,
           FailInline, FailPayload, threads
  <2> QED
    BY <1>4, <2>2, <2>3, <2>4 DEF DataShape
<1> QED
  BY <1>2, <1>3, <1>4 DEF DataShape
-------------------------------------------------------------------------------
\* The bucket an actor's h2d_buffer is for: of its turn, or of the last turn it had.
Current(a) == IF pc[a] = "turn" THEN gidx[a] ELSE gidx[a] + 1

\* In a synchronization an actor has its share in memory buffers; while it has buckets,
\* its h2d_buffer holds the one of the iteration.  It loads nothing.
Filled(a) ==
  /\ pc[a] # "load"
  /\ pc[a] # "idle" =>
       mem[a] = [i \in DOMAIN buckets[a] |-> Content(buckets[a][i], did[a] + 1)]
  /\ \A g \in 1..Len(turns) :
       /\ pc[a] \in {"turn", "bcast", "ack", "barrier"} /\ g = Current(a)
       /\ turns[g].iter <= Len(buckets[a])
       => h2d[a] = Content(buckets[a][turns[g].iter], did[a] + 1)

\* An actor's buffers stay while its main thread does nothing.
LEMMA FilledFrame ==
  ASSUME NEW a, Filled(a), UNCHANGED config, pc'[a] = pc[a], gidx'[a] = gidx[a],
         did'[a] = did[a], mem'[a] = mem[a], h2d'[a] = h2d[a]
  PROVE  Filled(a)'
BY DEF Filled, Current, Content, config

\* An actor copies the bucket of its turn.
LEMMA LoadedIs ==
  ASSUME Planned, DataShape, CallsInv, NEW a \in Actors, Filled(a), pc[a] = "turn",
         gidx[a] < Len(turns), Turn(a).iter <= Len(buckets[a])
  PROVE  LoadedH2D(a) = Content(buckets[a][Turn(a).iter], did[a] + 1)
<1>1. /\ a \in Ranks /\ gidx[a] \in Nat /\ Len(turns) \in Nat
      /\ gidx[a] + 1 \in 1..Len(turns)
  BY DEF Ranks, CallsInv, CallsShape, Placed, Stands
<1>2. mem[a] = [i \in DOMAIN buckets[a] |-> Content(buckets[a][i], did[a] + 1)]
  BY DEF Filled
<1>3. DOMAIN buckets[a] = 1..Len(buckets[a]) /\ Len(buckets[a]) \in Nat
  BY DEF Planned, Packings
<1>4. Len(mem[a]) = Len(buckets[a])
  BY <1>2, <1>3
<1>5. turns[gidx[a] + 1] \in Sources
  BY <1>1 DEF Planned, Rounds
<1>6. Turn(a).iter \in 1..Len(buckets[a])
  <2>1. Turn(a).iter \in Nat /\ Turn(a).iter >= 1
    BY <1>1, <1>5 DEF Turn, Sources, Planned
  <2> QED
    BY <1>3, <2>1
<1>7. mem[a][Turn(a).iter] = Content(buckets[a][Turn(a).iter], did[a] + 1)
  BY <1>2, <1>3, <1>6
<1>8. CASE NewIteration(a)
  BY <1>4, <1>6, <1>7, <1>8 DEF LoadedH2D
<1>9. CASE ~NewIteration(a)
  <2>1. gidx[a] \in 1..Len(turns) /\ turns[gidx[a]].iter = Turn(a).iter
    BY <1>1, <1>9 DEF NewIteration
  <2>2. h2d[a] = Content(buckets[a][turns[gidx[a]].iter], did[a] + 1)
    BY <2>1 DEF Filled, Current
  <2> QED
    BY <1>9, <2>1, <2>2 DEF LoadedH2D
<1> QED
  BY <1>8, <1>9

\* Every step of an actor keeps its buffers right.
LEMMA FilledSteps ==
  ASSUME Planned, DataShape, CallsInv, NEW r \in Actors, Filled(r), Apart(r), HandInv,
         Main(r) \/ Second(r) \/ FailInline(r) \/ FailPayload(r)
  PROVE  Filled(r)'
<1>0. /\ r \in Ranks /\ Stands(r) /\ DOMAIN pc = Ranks /\ DOMAIN gidx = Ranks
      /\ DOMAIN did = Ranks /\ gidx[r] \in Nat /\ r \notin Rollouts
  BY TransferAssumption
     DEF Ranks, CallsInv, CallsShape, Placed, Stands, Actors, Rollouts
<1>1. UNCHANGED <<buckets, turns>> /\ \A m, v : Content(m, v)' = Content(m, v)
  BY DEF Apart, config, Content
<1> DEFINE InTurn == {"turn", "bcast", "ack", "barrier"}
<1>2. CASE Register(r)
  <2>1. /\ mem'[r] = [i \in DOMAIN buckets[r] |-> Content(buckets[r][i], did[r] + 1)]
        /\ did' = did /\ pc'[r] = "entry"
    BY <1>0, <1>2 DEF Register, Pin, DataShape
  <2> QED
    BY <1>1, <2>1 DEF Filled
<1>3. CASE Start(r)
  <2>1. pc'[r] = "turn" /\ gidx'[r] = 0 /\ UNCHANGED <<did, mem>> /\ pc[r] # "idle"
    BY <1>0, <1>3 DEF Start
  <2>2. Current(r)' = 0
    BY <2>1 DEF Current
  <2> QED
    BY <1>1, <2>1, <2>2 DEF Filled
<1>4. CASE Broadcast(r)
  <2>1. /\ pc[r] = "turn" /\ pc'[r] = "bcast" /\ UNCHANGED <<did, mem, gidx>>
        /\ h2d'[r] = LoadedH2D(r) /\ gidx[r] < Len(turns)
    BY <1>0, <1>4 DEF Broadcast, DataShape
  <2>2. Current(r)' = gidx[r] + 1 /\ turns[gidx[r] + 1] = Turn(r)
    BY <2>1 DEF Current, Turn
  <2>3. Turn(r).iter <= Len(buckets[r]) =>
          h2d'[r] = Content(buckets[r][Turn(r).iter], did[r] + 1)
    BY <2>1, LoadedIs
  <2> QED
    BY <1>1, <2>1, <2>2, <2>3 DEF Filled
<1>5. ASSUME UNCHANGED <<did, mem, h2d>>, pc[r] \in InTurn,
             Current(r)' = Current(r), pc'[r] # "load"
      PROVE  Filled(r)'
  BY <1>1, <1>5 DEF Filled
<1>6. CASE Receive(r)
  <2>1. UNCHANGED <<did, mem, h2d>> /\ pc[r] = "bcast"
    BY <1>6 DEF Receive
  <2>2. \/ pc'[r] = "ack" /\ gidx' = gidx
        \/ pc'[r] = "turn" /\ gidx'[r] = gidx[r] + 1
    BY <1>0, <1>6 DEF Receive
  <2>3. Current(r)' = Current(r) /\ pc'[r] # "load"
    BY <2>1, <2>2 DEF Current
  <2> QED
    BY <1>5, <2>1, <2>3
<1>7. CASE Acknowledged(r)
  <2>1. /\ UNCHANGED <<did, mem, h2d>> /\ pc[r] = "ack" /\ pc'[r] = "barrier"
        /\ gidx' = gidx
    BY <1>0, <1>7 DEF Acknowledged
  <2>2. Current(r)' = Current(r)
    BY <2>1 DEF Current
  <2> QED
    BY <1>5, <2>1, <2>2
<1>8. CASE SendMetas(r)
  <2>1. /\ UNCHANGED <<did, mem, h2d>> /\ pc[r] = "barrier" /\ pc'[r] = "turn"
        /\ gidx'[r] = gidx[r] + 1
    BY <1>0, <1>8 DEF SendMetas
  <2>2. Current(r)' = Current(r)
    BY <2>1 DEF Current
  <2> QED
    BY <1>5, <2>1, <2>2
<1>9. ASSUME UNCHANGED <<did, mem>>, pc[r] # "idle", pc'[r] \notin InTurn, pc'[r] # "load"
      PROVE  Filled(r)'
  BY <1>1, <1>9 DEF Filled
<1>10. CASE LastTurn(r) \/ SendStop(r) \/ Join(r) \/ LoadInline(r) \/ FailInline(r)
  <2>1. CASE LastTurn(r)
    <3>1. UNCHANGED <<did, mem>> /\ pc[r] = "turn" /\ pc'[r] \in {"last", "final"}
      BY <1>0, <2>1 DEF LastTurn, LeaveLoop
    <3> QED
      BY <1>9, <3>1
  <2>2. CASE SendStop(r)
    <3>1. UNCHANGED <<did, mem>> /\ pc[r] = "last" /\ pc'[r] = "join"
      BY <1>0, <2>2 DEF SendStop
    <3> QED
      BY <1>9, <3>1
  <2>3. CASE Join(r)
    <3>1. UNCHANGED <<did, mem>> /\ pc[r] = "join" /\ pc'[r] = "final"
      BY <1>0, <2>3 DEF Join
    <3> QED
      BY <1>9, <3>1
  <2>4. ~ (LoadInline(r) \/ FailInline(r))
    BY DEF LoadInline, FailInline, Filled
  <2> QED
    BY <1>10, <2>1, <2>2, <2>3, <2>4
<1>11. CASE Finish(r)
  <2>1. pc'[r] = "idle"
    BY <1>0, <1>11 DEF Finish, Done
  <2> QED
    BY <2>1 DEF Filled
<1>12. CASE Second(r) \/ FailPayload(r)
  <2>1. UNCHANGED <<pc, gidx, did, mem, h2d>>
    BY <1>12 DEF Second, Greet, TakePayload, LoadPayload, Stop, Hear, FailPayload, mains
  <2> QED
    BY <2>1, FilledFrame DEF Apart
<1> QED
  BY <1>2, <1>3, <1>4, <1>6, <1>7, <1>8, <1>10, <1>11, <1>12 DEF Main

\* Every step keeps what the broadcasts hand over.
LEMMA DueSteps ==
  ASSUME Planned, DataShape, CallsInv, DataDue, \A a \in Actors : Filled(a),
         NEW r \in Ranks, Main(r) \/ Second(r) \/ FailInline(r) \/ FailPayload(r)
  PROVE  DataDue'
<1>0. /\ Stands(r) /\ overlap \in BOOLEAN /\ Len(turns) \in Nat /\ gidx[r] \in Nat
      /\ gidx[r] <= Len(turns)
  BY DEF CallsInv, CallsShape, Placed, Stands
<1>1. UNCHANGED config
  BY StepsApart DEF Apart
<1>2. \A g \in 1..Len(turns) :
        /\ Before(g - 1) \in 1..(Span - 2)
        /\ CallAt(Before(g - 1)) = Call("broadcast", turns[g].src)
        /\ overlap => Before(g - 1) % 2 = 1
  BY <1>0, BroadcastAt
<1>3. Span \in Nat /\ Span >= 2
  BY <1>0 DEF Span
<1>4. ASSUME Enter(r, Call("barrier", 0), Nothing), NEW o \in 0..(Span - 1), Place(r) = o,
             o = 0 \/ o = Span - 1 \/ (overlap /\ o % 2 = 0)
      PROVE  DataDue'
  <2>1. CallAt(o) = Call("barrier", 0)
    BY <1>4 DEF CallAt
  <2>2. \A g \in 1..Len(turns) : Before(g - 1) # o
    <3> TAKE g \in 1..Len(turns)
    <3> DEFINE b == Before(g - 1)
    <3>1. b \in 1..(Span - 2) /\ (overlap => b % 2 = 1)
      BY <1>2
    <3> HIDE DEF b
    <3>2. b # o
      BY <1>3, <1>4, <3>1
    <3> QED
      BY <3>2 DEF b
  <2> QED
    BY <1>1, <1>4, <2>1, <2>2, EnterData
<1>5. CASE Register(r)
  <2>1. Place(r) = 0 /\ 0 \in 0..(Span - 1) /\ Enter(r, Call("barrier", 0), Nothing)
    BY <1>3, <1>5 DEF Register, Pin, Place
  <2> QED
    BY <1>4, <2>1
<1>6. CASE Acknowledged(r)
  <2>1. overlap /\ pc[r] = "ack" /\ Enter(r, Call("barrier", 0), Nothing)
    BY <1>0, <1>6 DEF Acknowledged, Stands
  <2>2. Place(r) = 2 * gidx[r] + 2 /\ gidx[r] < Len(turns)
    BY <1>0, <2>1 DEF Place, Before, Stands
  <2>3. 2 * gidx[r] + 2 \in 0..(Span - 1) /\ (2 * gidx[r] + 2) % 2 = 0
    BY <1>0, <2>1, <2>2 DEF Span
  <2> QED
    BY <1>4, <2>1, <2>2, <2>3
<1>7. CASE Join(r) \/ (LastTurn(r) /\ ~overlap)
  <2>1. Place(r) = Span - 1 /\ Enter(r, Call("barrier", 0), Nothing)
    <3>1. CASE Join(r)
      <4>1. overlap /\ pc[r] = "join"
        BY <1>0, <3>1 DEF Join, Stands
      <4> QED
        BY <1>0, <3>1, <4>1 DEF Join, Place, Before, Span
    <3>2. CASE LastTurn(r) /\ ~overlap
      BY <1>0, <3>2 DEF LastTurn, LeaveLoop, Place, Before, Span
    <3> QED
      BY <1>7, <3>1, <3>2
  <2>2. Span - 1 \in 0..(Span - 1)
    BY <1>3
  <2> QED
    BY <1>4, <2>1, <2>2
<1>8. CASE Broadcast(r)
  <2>1. /\ pc[r] = "turn" /\ gidx[r] < Len(turns)
        /\ Enter(r, Call("broadcast", Turn(r).src), LoadedH2D(r))
    BY <1>8 DEF Broadcast
  <2> DEFINE g == gidx[r] + 1
  <2>2. g \in 1..Len(turns) /\ g - 1 = gidx[r] /\ turns[g] = Turn(r)
    BY <1>0, <2>1 DEF Turn
  <2>3. Place(r) = Before(g - 1)
    BY <2>1, <2>2 DEF Place
  <2>4. Place(r) \in 0..(Span - 1) /\ Call("broadcast", Turn(r).src) = CallAt(Place(r))
    BY <1>2, <1>3, <2>2, <2>3
  <2>5. ASSUME NEW h \in 1..Len(turns), Place(r) = Before(h - 1), turns[h].src = r
        PROVE  LoadedH2D(r) = Content(B(h), did[r] + 1)
    <3>1. h = g
      BY <1>0, <2>2, <2>3, <2>5 DEF Before
    <3>2. r \in Actors /\ Turn(r).iter <= Len(buckets[r]) /\ B(h) = buckets[r][Turn(r).iter]
      <4>1. turns[g].src \in Actors /\ turns[g].iter \in 1..Len(buckets[turns[g].src])
        BY <2>2 DEF Planned
      <4>2. Len(buckets[turns[g].src]) \in Nat
        BY <4>1 DEF Planned, Packings
      <4> QED
        BY <2>2, <2>5, <3>1, <4>1, <4>2 DEF B
    <3> QED
      BY <2>1, <3>2, LoadedIs
  <2> QED
    BY <1>1, <2>1, <2>4, <2>5, EnterData
<1>9. ASSUME UNCHANGED group PROVE DataDue'
  BY <1>1, <1>9 DEF group, config, DataDue, Due, Span, Before, B, Content
<1>10. CASE LastTurn(r) /\ overlap
  BY <1>9, <1>10 DEF LastTurn, LeaveLoop
<1>11. CASE Start(r) \/ Receive(r) \/ SendMetas(r) \/ SendStop(r) \/ LoadInline(r) \/ Finish(r)
            \/ FailInline(r)
  BY <1>9, <1>11 DEF Start, Receive, SendMetas, SendStop, LoadInline, Finish, Done, FailInline
<1>12. CASE Second(r) \/ FailPayload(r)
  BY <1>9, <1>12 DEF Second, Greet, TakePayload, LoadPayload, Stop, Hear, FailPayload
<1> QED
  BY <1>5, <1>6, <1>7, <1>8, <1>10, <1>11, <1>12 DEF Main

\* A broadcast that has returned has handed over the bucket of the turn.
LEMMA Received ==
  ASSUME Planned, CallsInv, DataDue, NEW r \in Ranks, pc[r] = "bcast",
         Entered(Turn(r).src, r)
  PROVE  gidx[r] + 1 \in 1..Len(turns)
         /\ calls[at[r]].data = Content(B(gidx[r] + 1), did[r] + 1)
<1> DEFINE g == gidx[r] + 1
<1>1. /\ gidx[r] \in Nat /\ gidx[r] < Len(turns) /\ did[r] \in Nat /\ Len(turns) \in Nat
      /\ at[r] = did[r] * Span + Place(r)
  BY DEF CallsInv, CallsShape, Placed, Stands, Counted
<1>2. g \in 1..Len(turns) /\ g - 1 = gidx[r]
  BY <1>1
<1>3. Place(r) = Before(g - 1) + 1 /\ Before(g - 1) \in Nat
  BY <1>1, <1>2 DEF Place, Before, CallsInv, CallsShape
<1>4. Span \in Nat
  BY <1>1 DEF Span, CallsInv, CallsShape
<1>5. did[r] * Span \in Nat
  BY <1>1, <1>4, Multiples
<1>6. at[r] = did[r] * Span + Before(g - 1) + 1
  BY <1>1, <1>3, <1>5
<1>7. at[turns[g].src] >= at[r]
  BY DEF Entered, Turn
<1>8. Due(did[r], g)
  BY <1>1, <1>2 DEF DataDue
<1> HIDE DEF g
<1>9. calls[at[r]].data = Content(B(g), did[r] + 1)
  BY <1>6, <1>7, <1>8 DEF Due
<1> QED
  BY <1>2, <1>9 DEF g

\* In its synchronization a rollout rank has loaded the buckets of the first n turns.
LoadedUpTo(r, n) ==
  \A p \in Params(layout), g \in 1..Len(turns) : p \in Range(B(g)) =>
    LET version == IF g <= n THEN did[r] + 1 ELSE did[r]
    IN  model[r][p] = version /\ loads[r][p] = version

\* A payload is on its way to the second thread, or being loaded.
UnderWay(r) == (thread[r] = "wait" /\ req[r].kind = "load") \/ thread[r] = "load"

Payload(r) == IF thread[r] = "load" THEN job[r] ELSE req[r]

\* Turns whose buckets it has loaded.
Loaded(r) ==
  IF pc[r] \in {"idle", "entry"} THEN 0
  ELSE IF pc[r] \in {"join", "final"} THEN Len(turns)
  ELSE IF UnderWay(r) \/ thread[r] = "dead" THEN gidx[r] - 1
  ELSE gidx[r]

\* The halves of a rollout rank hold what was received and is not loaded.
Halves(r) ==
  /\ pc[r] \in {"ack", "barrier", "load"} =>
       half[r][Half(r)] = Content(B(gidx[r] + 1), did[r] + 1)
  /\ UnderWay(r) =>
       /\ gidx[r] >= 1 /\ Payload(r).metas = B(gidx[r])
       /\ half[r][Payload(r).half] = Content(B(gidx[r]), did[r] + 1)
  /\ thread[r] = "dead" => gidx[r] >= 1
  /\ pc[r] = "last" => gidx[r] = Len(turns)

Held(r) == LoadedUpTo(r, Loaded(r)) /\ Halves(r)

\* What a rollout rank holds stays while it does nothing.
LEMMA HeldFrame ==
  ASSUME NEW r, Held(r), UNCHANGED config, pc'[r] = pc[r], gidx'[r] = gidx[r],
         did'[r] = did[r], half'[r] = half[r], thread'[r] = thread[r],
         req'[r] = req[r], job'[r] = job[r], model'[r] = model[r], loads'[r] = loads[r]
  PROVE  Held(r)'
<1>1. Loaded(r)' = Loaded(r) /\ UnderWay(r)' = UnderWay(r) /\ Payload(r)' = Payload(r)
      /\ Half(r)' = Half(r)
  BY DEF Loaded, UnderWay, Payload, Half, config
<1>2. \A g : B(g)' = B(g)
  BY DEF B, config
<1>3. LoadedUpTo(r, Loaded(r))'
  BY <1>1, <1>2 DEF Held, LoadedUpTo, config, Params
<1>4. Halves(r)'
  BY <1>1, <1>2 DEF Held, Halves, Content, config
<1> QED
  BY <1>3, <1>4 DEF Held

\* Nothing is loaded: the model is as before.
LEMMA ModelStays ==
  ASSUME NEW r, Held(r), UNCHANGED config, model'[r] = model[r], loads'[r] = loads[r],
         did'[r] = did[r], Loaded(r)' = Loaded(r)
  PROVE  LoadedUpTo(r, Loaded(r))'
<1>1. \A g : B(g)' = B(g)
  BY DEF B, config
<1> QED
  BY <1>1 DEF Held, LoadedUpTo, config, Params

\* The bucket of turn n + 1 is loaded from a half that holds it.
LEMMA LoadsNext ==
  ASSUME Planned, DataShape, NEW r \in Rollouts, NEW n \in Nat, n + 1 \in 1..Len(turns),
         LoadedUpTo(r, n), NEW h, half[r][h] = Content(B(n + 1), did[r] + 1),
         LoadWeights(r, h, B(n + 1)), UNCHANGED <<config, did>>
  PROVE  LoadedUpTo(r, n + 1)'
<1>1. \A g : B(g)' = B(g)
  BY DEF B, config
<1>2. /\ model'[r] = [p \in Params(layout) |->
                        IF p \in Range(B(n + 1)) THEN did[r] + 1 ELSE model[r][p]]
      /\ loads'[r] = [p \in Params(layout) |->
                        IF p \in Range(B(n + 1)) THEN loads[r][p] + 1 ELSE loads[r][p]]
  BY DEF LoadWeights, Content, DataShape
<1>3. ASSUME NEW p \in Params(layout), NEW g \in 1..Len(turns), p \in Range(B(g))
      PROVE  LET version == IF g <= n + 1 THEN did[r] + 1 ELSE did[r]
             IN  model'[r][p] = version /\ loads'[r][p] = version
  <2>1. LET version == IF g <= n THEN did[r] + 1 ELSE did[r]
        IN  model[r][p] = version /\ loads[r][p] = version
    BY <1>3 DEF LoadedUpTo
  <2>2. CASE g = n + 1
    BY <1>2, <1>3, <2>1, <2>2
  <2>3. CASE g # n + 1
    <3>1. p \notin Range(B(n + 1))
      BY <1>3, <2>3 DEF Planned
    <3>2. g <= n + 1 <=> g <= n
      BY <2>3, Len(turns) \in Nat DEF Planned, Rounds
    <3> QED
      BY <1>2, <2>1, <3>1, <3>2
  <2> QED
    BY <2>2, <2>3
<1> QED
  BY <1>1, <1>3 DEF LoadedUpTo, config, Params

\* The main thread of a rollout rank.
LEMMA HeldMain ==
  ASSUME Planned, DataShape, HandInv, CallsInv, DataDue, NEW r \in Rollouts, Held(r),
         Main(r) \/ FailInline(r)
  PROVE  Held(r)'
<1>0. /\ r \in Ranks /\ r \notin Actors /\ Hand(r) /\ Stands(r) /\ overlap \in BOOLEAN
      /\ gidx[r] \in Nat /\ Len(turns) \in Nat /\ did[r] \in Nat
      /\ DOMAIN pc = Ranks /\ DOMAIN gidx = Ranks /\ DOMAIN did = Ranks
      /\ DOMAIN thread = Ranks /\ DOMAIN req = Ranks /\ DOMAIN job = Ranks
  <2>1. r \in Ranks /\ r \notin Actors
    BY TransferAssumption DEF Ranks, Actors, Rollouts
  <2>2. Hand(r) /\ Shape /\ CallsShape /\ Stands(r)
    BY <2>1 DEF HandInv, CallsInv, Placed
  <2>3. gidx[r] \in Nat /\ Len(turns) \in Nat /\ did[r] \in Nat
    BY <2>2 DEF CallsShape, Stands
  <2> QED
    BY <2>1, <2>2, <2>3 DEF Shape, CallsShape
<1>1. /\ UNCHANGED <<config, overlap, layout, buckets, turns>>
      /\ \A g : B(g)' = B(g) /\ \A m, v : Content(m, v)' = Content(m, v)
  <2>1. UNCHANGED config
    BY <1>0, StepsApart DEF Apart
  <2>2. UNCHANGED <<overlap, layout, buckets, turns>>
    BY <2>1 DEF config
  <2>3. \A g : B(g)' = B(g)
    BY <2>2 DEF B
  <2>4. \A m, v : Content(m, v)' = Content(m, v)
    BY DEF Content
  <2> QED
    BY <2>1, <2>2, <2>3, <2>4
<1>2. Off(r) => ~UnderWay(r) /\ thread[r] # "dead"
  BY DEF Off, UnderWay, None, Message
<1>3. CASE Register(r)
  <2>1. /\ pc[r] = "idle" /\ pc'[r] = "entry"
        /\ UNCHANGED <<did, gidx, half, thread, req, job, model, loads>>
    BY <1>0, <1>3 DEF Register, Pin, threads
  <2>2. Off(r) /\ UnderWay(r)' = UnderWay(r)
    BY <1>0, <2>1 DEF Hand, UnderWay
  <2>3. Loaded(r)' = Loaded(r)
    BY <2>1 DEF Loaded
  <2>4. LoadedUpTo(r, Loaded(r))'
    BY <1>1, <2>1, <2>3, ModelStays
  <2> QED
    BY <1>2, <2>1, <2>2, <2>4 DEF Held, Halves
<1>4. CASE Start(r)
  <2>1. /\ pc[r] = "entry" /\ pc'[r] = "turn" /\ gidx'[r] = 0
        /\ UNCHANGED <<did, job, model, loads>>
        /\ UNCHANGED <<thread, req>> \/ thread'[r] = "start"
    BY <1>0, <1>4 DEF Start
  <2>2. ~UnderWay(r)' /\ thread'[r] # "dead"
    BY <1>0, <1>2, <2>1 DEF Hand, UnderWay
  <2>3. Loaded(r)' = Loaded(r)
    BY <2>1, <2>2 DEF Loaded
  <2>4. LoadedUpTo(r, Loaded(r))'
    BY <1>1, <2>1, <2>3, ModelStays
  <2> QED
    BY <2>1, <2>2, <2>4 DEF Held, Halves
<1>5. CASE Broadcast(r)
  <2>1. gidx[r] + 1 \in 1..Len(turns)
    BY <1>0, <1>5 DEF Broadcast
  <2>2. Turn(r).src \in Actors
    BY <2>1 DEF Planned, Turn
  <2>3. /\ pc[r] = "turn" /\ pc'[r] = "bcast"
        /\ UNCHANGED <<did, gidx, half, thread, req, job, model, loads>>
    BY <1>0, <1>5, <2>2 DEF Broadcast, threads
  <2>4. Loaded(r)' = Loaded(r) /\ UnderWay(r)' = UnderWay(r) /\ Payload(r)' = Payload(r)
    BY <2>3 DEF Loaded, UnderWay, Payload
  <2>5. LoadedUpTo(r, Loaded(r))'
    BY <1>1, <2>3, <2>4, ModelStays
  <2> QED
    BY <1>1, <2>3, <2>4, <2>5 DEF Held, Halves
<1>6. CASE Receive(r)
  <2>1. /\ gidx[r] + 1 \in 1..Len(turns)
        /\ calls[at[r]].data = Content(B(gidx[r] + 1), did[r] + 1)
    BY <1>0, <1>6, Received DEF Receive
  <2>2. /\ pc[r] = "bcast" /\ pc'[r] \in {"ack", "load"}
        /\ UNCHANGED <<did, gidx, thread, req, job, model, loads>>
        /\ half'[r] = [half[r] EXCEPT ![Half(r)] = calls[at[r]].data]
    BY <1>0, <1>6 DEF Receive, threads, DataShape
  <2>3. Half(r) \in 0..1 /\ Half(r)' = Half(r) /\ DOMAIN half[r] = 0..1
    BY <1>0, <1>1, <2>2 DEF Half, DataShape
  <2>4. half'[r][Half(r)] = Content(B(gidx[r] + 1), did[r] + 1)
    BY <2>1, <2>2, <2>3
  <2>5. Loaded(r)' = Loaded(r) /\ UnderWay(r)' = UnderWay(r) /\ Payload(r)' = Payload(r)
    BY <2>2 DEF Loaded, UnderWay, Payload
  <2>6. LoadedUpTo(r, Loaded(r))'
    BY <1>1, <2>2, <2>5, ModelStays
  <2>7. UnderWay(r) => half'[r][Payload(r).half] = half[r][Payload(r).half]
    <3> SUFFICES ASSUME UnderWay(r) PROVE half'[r][Payload(r).half] = half[r][Payload(r).half]
      OBVIOUS
    <3>1. overlap /\ Owed(r)
      BY <1>0, <1>2, <2>2 DEF Hand
    <3>2. Payload(r).half = (gidx[r] + 1) % 2
      BY <3>1 DEF Owed, UnderWay, Payload, None, Message
    <3>3. Half(r) = gidx[r] % 2
      BY <3>1 DEF Half
    <3>4. Payload(r).half # Half(r) /\ Payload(r).half \in 0..1
      BY <1>0, <3>2, <3>3, Parity
    <3> QED
      BY <2>2, <2>3, <3>4
  <2> QED
    BY <1>1, <2>2, <2>3, <2>4, <2>5, <2>6, <2>7 DEF Held, Halves
<1>7. CASE Acknowledged(r)
  <2>1. /\ pc[r] = "ack" /\ pc'[r] = "barrier"
        /\ UNCHANGED <<did, gidx, half, thread, req, job, model, loads>>
    BY <1>0, <1>7 DEF Acknowledged, threads
  <2>2. Loaded(r)' = Loaded(r) /\ UnderWay(r)' = UnderWay(r) /\ Payload(r)' = Payload(r)
        /\ Half(r)' = Half(r)
    BY <1>1, <2>1 DEF Loaded, UnderWay, Payload, Half
  <2>3. LoadedUpTo(r, Loaded(r))'
    BY <1>1, <2>1, <2>2, ModelStays
  <2> QED
    BY <1>1, <2>1, <2>2, <2>3 DEF Held, Halves
<1>8. CASE SendMetas(r)
  <2>1. /\ pc[r] = "barrier" /\ pc'[r] = "turn" /\ gidx'[r] = gidx[r] + 1
        /\ UNCHANGED <<did, half, thread, job, model, loads>>
        /\ req'[r] = Message("load", Half(r), Bucket(r))
    BY <1>0, <1>8 DEF SendMetas, threads
  <2>2. Ready(r) /\ ~UnderWay(r) /\ thread[r] = "wait"
    BY <1>0, <2>1 DEF Hand, Off, Ready, UnderWay, None, Message
  <2>3. UnderWay(r)' /\ Payload(r)' = Message("load", Half(r), Bucket(r))
    BY <2>1, <2>2 DEF UnderWay, Payload, Message
  <2>4. Loaded(r)' = gidx[r] /\ Loaded(r) = gidx[r]
    BY <1>0, <2>1, <2>2, <2>3 DEF Loaded
  <2>5. LoadedUpTo(r, Loaded(r))'
    BY <1>1, <2>1, <2>4, ModelStays
  <2>6. Bucket(r) = B(gidx[r] + 1) /\ half[r][Half(r)] = Content(B(gidx[r] + 1), did[r] + 1)
    BY <2>1 DEF Bucket, Turn, B, Held, Halves
  <2> QED
    BY <1>0, <1>1, <2>1, <2>2, <2>3, <2>5, <2>6 DEF Held, Halves, Message
<1>9. CASE LastTurn(r)
  <2>1. /\ pc[r] = "turn" /\ gidx[r] = Len(turns)
        /\ UNCHANGED <<did, gidx, half, thread, req, job, model, loads>>
        /\ \/ overlap /\ pc'[r] = "last"
           \/ ~overlap /\ pc'[r] = "final"
    BY <1>0, <1>9 DEF LastTurn, LeaveLoop, threads
  <2>2. UnderWay(r)' = UnderWay(r) /\ Payload(r)' = Payload(r) /\ (~overlap => Off(r))
    BY <1>0, <2>1 DEF UnderWay, Payload, Hand
  <2>3. Loaded(r)' = Loaded(r)
    BY <1>1, <1>2, <2>1, <2>2 DEF Loaded
  <2>4. LoadedUpTo(r, Loaded(r))'
    BY <1>1, <2>1, <2>3, ModelStays
  <2> QED
    BY <1>1, <2>1, <2>2, <2>4 DEF Held, Halves
<1>10. CASE SendStop(r)
  <2>1. /\ pc[r] = "last" /\ reply[r] /\ pc'[r] = "join"
        /\ UNCHANGED <<did, gidx, half, thread, job, model, loads>>
        /\ req'[r] = Message("stop", 0, <<>>)
    BY <1>0, <1>10 DEF SendStop, threads
  <2>2. thread[r] = "wait" /\ req[r] = None
    BY <1>0, <2>1 DEF Hand, Off, Owed
  <2>3. ~UnderWay(r) /\ ~UnderWay(r)' /\ gidx[r] = Len(turns)
    BY <2>1, <2>2 DEF UnderWay, None, Message, Held, Halves
  <2>4. Loaded(r)' = Loaded(r)
    BY <1>1, <2>1, <2>2, <2>3 DEF Loaded
  <2>5. LoadedUpTo(r, Loaded(r))'
    BY <1>1, <2>1, <2>4, ModelStays
  <2> QED
    BY <2>1, <2>2, <2>3, <2>5 DEF Held, Halves
<1>11. CASE Join(r)
  <2>1. /\ pc[r] = "join" /\ pc'[r] = "final"
        /\ UNCHANGED <<did, gidx, half, thread, req, job, model, loads>>
    BY <1>0, <1>11 DEF Join, threads
  <2>2. Loaded(r)' = Loaded(r) /\ UnderWay(r)' = UnderWay(r) /\ Payload(r)' = Payload(r)
    BY <1>1, <2>1 DEF Loaded, UnderWay, Payload
  <2>3. LoadedUpTo(r, Loaded(r))'
    BY <1>1, <2>1, <2>2, ModelStays
  <2> QED
    BY <1>1, <2>1, <2>2, <2>3 DEF Held, Halves
<1>12. CASE Finish(r)
  <2>1. /\ pc[r] = "final" /\ pc'[r] = "idle" /\ did'[r] = did[r] + 1
        /\ UNCHANGED <<gidx, half, thread, req, job, model, loads>>
    BY <1>0, <1>12 DEF Finish, Done, threads
  <2>2. Off(r) /\ UnderWay(r)' = UnderWay(r)
    BY <1>0, <2>1 DEF Hand, UnderWay
  <2>3. Loaded(r) = Len(turns) /\ Loaded(r)' = 0
    BY <2>1 DEF Loaded
  <2>4. LoadedUpTo(r, Len(turns))
    BY <2>3 DEF Held
  <2>5. LoadedUpTo(r, Loaded(r))'
    <3>1. \A g \in 1..Len(turns) : g <= Len(turns) /\ ~(g <= 0)
      BY <1>0
    <3> QED
      BY <1>1, <2>1, <2>3, <2>4, <3>1 DEF LoadedUpTo, Params
  <2> QED
    BY <1>2, <2>1, <2>2, <2>5 DEF Held, Halves
<1>13. CASE LoadInline(r)
  <2>1. /\ pc[r] = "load" /\ pc'[r] = "turn" /\ gidx'[r] = gidx[r] + 1
        /\ UNCHANGED <<did, half, thread, req, job>> /\ LoadWeights(r, 0, Bucket(r))
    BY <1>0, <1>13 DEF LoadInline
  <2>2. ~overlap /\ Off(r) /\ gidx[r] < Len(turns)
    BY <1>0, <2>1 DEF Stands, Hand
  <2>3. UnderWay(r)' = UnderWay(r) /\ ~UnderWay(r) /\ thread[r] # "dead"
    BY <1>2, <2>1, <2>2 DEF UnderWay
  <2>4. Loaded(r) = gidx[r] /\ Loaded(r)' = gidx[r] + 1
    BY <2>1, <2>3 DEF Loaded
  <2>5. Bucket(r) = B(gidx[r] + 1) /\ half[r][0] = Content(B(gidx[r] + 1), did[r] + 1)
    BY <2>1, <2>2 DEF Bucket, Turn, B, Held, Halves, Half
  <2>6. PICK n \in Nat : n = gidx[r]
    BY <1>0
  <2>7. n + 1 \in 1..Len(turns) /\ LoadedUpTo(r, n)
    BY <1>0, <2>2, <2>4, <2>6 DEF Held
  <2>8. LoadedUpTo(r, n + 1)'
    BY <1>1, <2>1, <2>5, <2>6, <2>7, LoadsNext
  <2>9. Loaded(r)' = n + 1
    BY <2>4, <2>6
  <2>10. LoadedUpTo(r, Loaded(r))'
    BY <2>8, <2>9 DEF LoadedUpTo
  <2> QED
    BY <2>1, <2>3, <2>10 DEF Held, Halves
<1>14. CASE FailInline(r)
  <2>1. /\ pc[r] = "load" /\ pc'[r] = "failed"
        /\ UNCHANGED <<did, gidx, half, thread, req, job, model, loads>>
    BY <1>0, <1>14 DEF FailInline, threads
  <2>2. Loaded(r)' = Loaded(r) /\ UnderWay(r)' = UnderWay(r) /\ Payload(r)' = Payload(r)
    BY <2>1 DEF Loaded, UnderWay, Payload
  <2>3. LoadedUpTo(r, Loaded(r))'
    BY <1>1, <2>1, <2>2, ModelStays
  <2> QED
    BY <1>1, <2>1, <2>2, <2>3 DEF Held, Halves
<1> QED
  BY <1>3, <1>4, <1>5, <1>6, <1>7, <1>8, <1>9, <1>10, <1>11, <1>12, <1>13, <1>14 DEF Main

\* The second thread of a rollout rank.
LEMMA HeldSecond ==
  ASSUME Planned, DataShape, HandInv, CallsInv, NEW r \in Rollouts, Held(r),
         Second(r) \/ FailPayload(r)
  PROVE  Held(r)'
<1>0. /\ r \in Ranks /\ Hand(r) /\ Stands(r)
      /\ gidx[r] \in Nat /\ Len(turns) \in Nat /\ gidx[r] <= Len(turns)
      /\ DOMAIN thread = Ranks /\ DOMAIN req = Ranks /\ DOMAIN job = Ranks
  <2>1. r \in Ranks
    BY DEF Ranks
  <2>2. Hand(r) /\ Shape /\ CallsShape /\ Stands(r)
    BY <2>1 DEF HandInv, CallsInv, Placed
  <2>3. gidx[r] \in Nat /\ Len(turns) \in Nat /\ gidx[r] <= Len(turns)
    BY <2>2 DEF CallsShape, Stands
  <2> QED
    BY <2>1, <2>2, <2>3 DEF Shape
<1>1. /\ UNCHANGED <<config, overlap, layout, buckets, turns, pc, gidx, did, half>>
      /\ \A g : B(g)' = B(g) /\ \A m, v : Content(m, v)' = Content(m, v)
      /\ Half(r)' = Half(r)
  <2>1. UNCHANGED <<config, mains>>
    BY DEF Second, Greet, TakePayload, LoadPayload, Stop, Hear, FailPayload
  <2>2. UNCHANGED <<overlap, layout, buckets, turns, pc, gidx, did, half>>
    BY <2>1 DEF config, mains
  <2> QED
    BY <2>1, <2>2 DEF B, Content, Half
<1>2. None.kind = "none" /\ None.kind # "load" /\ None.kind # "stop"
  BY DEF None, Message
<1>3. CASE Greet(r)
  <2>1. /\ thread[r] = "start" /\ thread'[r] = "wait" /\ req'[r] = None
        /\ UNCHANGED <<model, loads>>
    BY <1>0, <1>3 DEF Greet, Hear
  <2>2. ~UnderWay(r) /\ ~UnderWay(r)' /\ thread[r] # "dead"
    BY <1>2, <2>1 DEF UnderWay
  <2>3. Loaded(r)' = Loaded(r)
    BY <1>1, <2>1, <2>2 DEF Loaded
  <2>4. LoadedUpTo(r, Loaded(r))'
    BY <1>1, <2>1, <2>3, ModelStays
  <2> QED
    BY <1>1, <2>1, <2>2, <2>4 DEF Held, Halves
<1>4. CASE TakePayload(r)
  <2>1. /\ thread[r] = "wait" /\ thread'[r] = "load" /\ req[r].kind = "load"
        /\ job'[r] = req[r] /\ UNCHANGED <<model, loads>>
    BY <1>0, <1>4 DEF TakePayload, Hear
  <2>2. UnderWay(r) /\ UnderWay(r)' /\ Payload(r)' = Payload(r) /\ thread[r] # "dead"
    BY <2>1 DEF UnderWay, Payload
  <2>3. Loaded(r)' = Loaded(r)
    BY <1>1, <2>1, <2>2 DEF Loaded
  <2>4. LoadedUpTo(r, Loaded(r))'
    BY <1>1, <2>1, <2>3, ModelStays
  <2> QED
    BY <1>1, <2>1, <2>2, <2>4 DEF Held, Halves
<1>5. CASE LoadPayload(r)
  <2>1. /\ thread[r] = "load" /\ thread'[r] = "wait" /\ req' = req
        /\ LoadWeights(r, job[r].half, job[r].metas)
    BY <1>0, <1>5 DEF LoadPayload
  <2>2. Owed(r) /\ req[r] = None /\ pc[r] \in {"turn", "bcast", "ack", "last"}
    BY <1>0, <2>1 DEF Hand, Off, Ready, Owed, Ending
  <2>3. UnderWay(r) /\ ~UnderWay(r)' /\ Payload(r) = job[r]
    BY <1>2, <2>1, <2>2 DEF UnderWay, Payload
  <2>4. /\ gidx[r] >= 1 /\ job[r].metas = B(gidx[r])
        /\ half[r][job[r].half] = Content(B(gidx[r]), did[r] + 1)
    BY <2>3 DEF Held, Halves
  <2>5. PICK n \in Nat : n = gidx[r] - 1
    BY <1>0, <2>4
  <2>6. n + 1 = gidx[r] /\ n + 1 \in 1..Len(turns)
    BY <1>0, <2>4, <2>5
  <2>7. Loaded(r) = n /\ Loaded(r)' = n + 1
    BY <1>1, <2>1, <2>2, <2>3, <2>5, <2>6 DEF Loaded
  <2>8. PICK h : h = job[r].half
    OBVIOUS
  <2>9. /\ LoadedUpTo(r, n) /\ half[r][h] = Content(B(n + 1), did[r] + 1)
        /\ LoadWeights(r, h, B(n + 1))
    BY <2>1, <2>4, <2>6, <2>7, <2>8 DEF Held
  <2>10. LoadedUpTo(r, n + 1)'
    BY <1>1, <2>6, <2>9, LoadsNext
  <2>11. LoadedUpTo(r, Loaded(r))'
    BY <2>7, <2>10 DEF LoadedUpTo
  <2> QED
    BY <1>1, <2>1, <2>2, <2>3, <2>11 DEF Held, Halves
<1>6. CASE FailPayload(r)
  <2>1. /\ thread[r] = "load" /\ thread'[r] = "dead"
        /\ UNCHANGED <<model, loads, req>>
    BY <1>0, <1>6 DEF FailPayload
  <2>2. UnderWay(r) /\ ~UnderWay(r)'
    BY <2>1 DEF UnderWay
  <2>3. Loaded(r)' = Loaded(r)
    BY <1>1, <2>1, <2>2 DEF Loaded
  <2>4. LoadedUpTo(r, Loaded(r))'
    BY <1>1, <2>1, <2>3, ModelStays
  <2> QED
    BY <1>1, <2>1, <2>2, <2>4 DEF Held, Halves
<1>7. CASE Stop(r)
  <2>1. /\ thread[r] = "wait" /\ req[r].kind = "stop" /\ thread'[r] = "off"
        /\ UNCHANGED <<model, loads>>
    BY <1>0, <1>7 DEF Stop, Hear
  <2>2. ~UnderWay(r) /\ ~UnderWay(r)'
    BY <2>1 DEF UnderWay
  <2>3. Loaded(r)' = Loaded(r)
    BY <1>1, <2>1, <2>2 DEF Loaded
  <2>4. LoadedUpTo(r, Loaded(r))'
    BY <1>1, <2>1, <2>3, ModelStays
  <2> QED
    BY <1>1, <2>1, <2>2, <2>4 DEF Held, Halves
<1> QED
  BY <1>3, <1>4, <1>5, <1>6, <1>7 DEF Second

\* When a rank is through with a synchronization all ranks have made its calls.
Passed == \A r, s \in Ranks : at[s] >= did[r] * Span

\* A rank is only through when all have entered the last barrier.
LEMMA PassedSteps ==
  ASSUME CallsInv, Passed, NEW r \in Ranks,
         Main(r) \/ Second(r) \/ FailInline(r) \/ FailPayload(r)
  PROVE  Passed'
<1>0. /\ DOMAIN at = Ranks /\ DOMAIN did = Ranks /\ DOMAIN pc = Ranks
      /\ \A s \in Ranks : did[s] \in Nat
      /\ overlap \in BOOLEAN /\ Len(turns) \in Nat
  BY DEF CallsInv, CallsShape, Placed, Stands
<1>1. Span \in Nat
  BY <1>0 DEF Span
<1>2. \A s \in Ranks :
        at[s] \in Nat /\ at[s] = did[s] * Span + Place(s) /\ did[s] * Span \in Nat
  <2> TAKE s \in Ranks
  <2>1. at[s] = did[s] * Span + Place(s) /\ Place(s) \in Nat
    BY <1>0, PlaceNat DEF CallsInv, Placed, Counted
  <2>2. did[s] * Span \in Nat
    BY <1>0, <1>1, Multiples
  <2> QED
    BY <2>1, <2>2
<1>3. Span' = Span
  BY StepsApart DEF Apart, config, Span
<1>4. ASSUME did' = did, at' = at \/ at' = [at EXCEPT ![r] = @ + 1]
      PROVE  Passed'
  <2> SUFFICES ASSUME NEW t \in Ranks, NEW s \in Ranks PROVE at'[s] >= did'[t] * Span'
    BY DEF Passed
  <2> DEFINE x == did[t] * Span
             y == at[s]
             z == at'[s]
  <2>1. x \in Nat /\ y \in Nat /\ y >= x /\ (z = y \/ z = y + 1)
    BY <1>0, <1>2, <1>4 DEF Passed
  <2> HIDE DEF x, y, z
  <2>2. z >= x
    BY ONLY <2>1
  <2> QED
    BY <1>3, <1>4, <2>2 DEF x, z
<1>5. CASE Finish(r)
  <2>1. /\ pc[r] = "final" /\ did' = [did EXCEPT ![r] = @ + 1] /\ at' = at
        /\ \A s \in Ranks : at[s] >= at[r]
    BY <1>5 DEF Finish, Done, AllEntered, Entered, group
  <2>2. Place(r) = Span
    BY <2>1 DEF Place
  <2>3. did'[r] * Span = at[r]
    <3>1. (did[r] + 1) * Span = did[r] * Span + Span
      BY <1>0, <1>1, Multiples
    <3> QED
      BY <1>0, <1>2, <2>1, <2>2, <3>1
  <2> SUFFICES ASSUME NEW t \in Ranks, NEW s \in Ranks PROVE at'[s] >= did'[t] * Span'
    BY DEF Passed
  <2>4. CASE t = r
    BY <1>3, <2>1, <2>3, <2>4
  <2>5. CASE t # r
    <3>1. did'[t] = did[t]
      BY <1>0, <2>1, <2>5
    <3> QED
      BY <1>3, <2>1, <3>1 DEF Passed
  <2> QED
    BY <2>4, <2>5
<1>6. CASE ~Finish(r)
  <2>1. did' = did
    BY <1>6 DEF Main, Register, Pin, Start, Broadcast, Receive, Acknowledged, SendMetas,
      LastTurn, LeaveLoop, SendStop, Join, LoadInline, Second, Greet, TakePayload,
      LoadPayload, Stop, Hear, FailInline, FailPayload, mains
  <2>2. at' = at \/ at' = [at EXCEPT ![r] = @ + 1]
    BY <1>6 DEF Main, Register, Pin, Start, Broadcast, Receive, Acknowledged, SendMetas,
      LastTurn, LeaveLoop, SendStop, Join, LoadInline, Second, Greet, TakePayload,
      LoadPayload, Stop, Hear, FailInline, FailPayload, Enter, group
  <2> QED
    BY <1>4, <2>1, <2>2
<1> QED
  BY <1>5, <1>6

\* What the buffers and the models hold.
DataInv ==
  /\ DataShape /\ DataDue /\ Passed
  /\ \A a \in Actors : Filled(a)
  /\ \A r \in Rollouts : Held(r)

\* At first nothing is held;
LEMMA DataInit == Init => DataInv
<1> SUFFICES ASSUME Init PROVE DataInv
  OBVIOUS
<1>1. CallsInv /\ Planned
  BY CallsInit, PlanMeans DEF Init, PlanInv
<1>2. overlap \in BOOLEAN /\ Len(turns) \in Nat /\ Span \in Nat
  BY <1>1 DEF CallsInv, CallsShape, Span
<1>3. DataShape
  BY DEF Init, DataShape
<1>4. DataDue
  <2> SUFFICES ASSUME NEW d \in Nat, NEW g \in 1..Len(turns) PROVE Due(d, g)
    BY DEF DataDue
  <2>1. d * Span \in Nat /\ Before(g - 1) \in 0..(Span - 1)
    BY <1>2, Multiples, BroadcastAt
  <2>2. at[turns[g].src] = 0
    BY <1>1 DEF Init, Planned, Ranks
  <2> QED
    BY <2>1, <2>2 DEF Due
<1>5. Passed
  BY <1>2 DEF Init, Passed
<1>6. \A a \in Actors : Filled(a)
  BY DEF Init, Filled, Ranks
<1>7. ASSUME NEW r \in Rollouts PROVE Held(r)
  <2>1. /\ pc[r] = "idle" /\ thread[r] = "off" /\ did[r] = 0
        /\ \A p \in Params(layout) : model[r][p] = 0 /\ loads[r][p] = 0
    BY DEF Init, Ranks
  <2>2. \A g \in 1..Len(turns) : ~(g <= 0)
    BY <1>2
  <2> QED
    BY <2>1, <2>2 DEF Held, Halves, Loaded, LoadedUpTo, UnderWay
<1> QED
  BY <1>3, <1>4, <1>5, <1>6, <1>7 DEF DataInv

\* every step keeps what the buffers and the models hold.
LEMMA DataNext == DataInv /\ HandInv /\ CallsInv /\ Planned /\ [Next]_vars => DataInv'
<1> SUFFICES ASSUME DataInv, HandInv, CallsInv, Planned, [Next]_vars PROVE DataInv'
  OBVIOUS
<1>1. ASSUME UNCHANGED <<config, mains, threads, req, reply, group>> PROVE DataInv'
  <2>0. /\ UNCHANGED <<pc, gidx, did, mem, h2d, half, thread, job, model, loads, calls, at>>
        /\ UNCHANGED <<overlap, layout, buckets, turns>>
    BY <1>1 DEF mains, threads, group, config
  <2>1. DataShape' /\ DataDue' /\ Passed'
    BY <2>0 DEF DataInv, DataShape, DataDue, Passed, Due, Span, Before, B, Content, Params
  <2>2. \A a \in Actors : Filled(a)'
    BY <1>1, <2>0, FilledFrame DEF DataInv
  <2>3. \A r \in Rollouts : Held(r)'
    BY <1>1, <2>0, HeldFrame DEF DataInv
  <2> QED
    BY <2>1, <2>2, <2>3 DEF DataInv
<1>2. CASE SyncWeights \/ UNCHANGED vars
  BY <1>1, <1>2 DEF SyncWeights, vars
<1>3. ASSUME NEW r \in Ranks, Main(r) \/ Second(r) \/ FailInline(r) \/ FailPayload(r)
      PROVE  DataInv'
  <2>0. /\ Apart(r) /\ UNCHANGED config /\ DataShape /\ Shape
        /\ DOMAIN pc = Ranks /\ DOMAIN gidx = Ranks /\ DOMAIN did = Ranks
    BY <1>3, StepsApart DEF Apart, DataInv, HandInv, CallsInv, CallsShape
  <2>1. DataShape' /\ DataDue' /\ Passed'
    BY <1>3, ShapeKeeps, DueSteps, PassedSteps DEF DataInv
  <2>2. ASSUME NEW a \in Actors PROVE Filled(a)'
    <3>1. CASE a = r
      BY <1>3, <2>0, <3>1, FilledSteps DEF DataInv
    <3>2. CASE a # r
      <4>1. /\ pc'[a] = pc[a] /\ gidx'[a] = gidx[a] /\ did'[a] = did[a]
            /\ mem'[a] = mem[a] /\ h2d'[a] = h2d[a]
        BY <2>0, <3>2 DEF Apart, OnlyAt, DataShape, Ranks
      <4> QED
        BY <2>0, <4>1, FilledFrame DEF DataInv
    <3> QED
      BY <3>1, <3>2
  <2>3. ASSUME NEW s \in Rollouts PROVE Held(s)'
    <3>1. CASE s = r
      BY <1>3, <3>1, HeldMain, HeldSecond DEF DataInv
    <3>2. CASE s # r
      <4>1. /\ pc'[s] = pc[s] /\ gidx'[s] = gidx[s] /\ did'[s] = did[s]
            /\ half'[s] = half[s]
        BY <2>0, <3>2 DEF Apart, OnlyAt, DataShape, Ranks
      <4>2. thread'[s] = thread[s] /\ req'[s] = req[s] /\ job'[s] = job[s]
        BY <2>0, <3>2 DEF Apart, OnlyAt, Shape, Ranks
      <4>3. model'[s] = model[s] /\ loads'[s] = loads[s]
        BY <2>0, <3>2 DEF Apart, OnlyAt, DataShape
      <4> QED
        BY <2>0, <4>1, <4>2, <4>3, HeldFrame DEF DataInv
    <3> QED
      BY <3>1, <3>2
  <2> QED
    BY <2>1, <2>2, <2>3 DEF DataInv
<1> QED
  BY <1>2, <1>3 DEF Next

\* The invariants together.
LEMMA DataInvAlways == Spec => [](DataInv /\ HandInv /\ CallsInv /\ Planned)
<1>1. PlanInv => Planned
  BY PlanMeans
<1> QED
  BY HandInit, HandNext, CallsInit, CallsNext, DataInit, DataNext, PlanInvAlways, <1>1, PTL
     DEF Spec

\* A rollout rank that is through with a synchronization has loaded every parameter with
\* its version, once for each (sync_rollout_weights_by_checkpoint, update_checkpoint and
\* load_weights, with and without overlap).
THEOREM WeightsDelivered == Spec => []Delivered
<1>1. DataInv /\ Planned => Delivered
  <2> SUFFICES ASSUME DataInv, Planned, NEW r \in Rollouts, pc[r] = "idle",
                      NEW p \in Params(layout)
               PROVE  model[r][p] = did[r] /\ loads[r][p] = did[r]
    BY DEF Delivered
  <2>1. PICK g \in 1..Len(turns) : p \in Range(B(g))
    BY DEF Planned
  <2>2. LoadedUpTo(r, 0)
    BY DEF DataInv, Held, Loaded
  <2>3. ~(g <= 0)
    BY Len(turns) \in Nat DEF Planned, Rounds
  <2> QED
    BY <2>1, <2>2, <2>3 DEF LoadedUpTo
<1> QED
  BY DataInvAlways, <1>1, PTL

\* A rank is within its synchronization until it has made the last call.
LEMMA PlaceInSpan ==
  ASSUME NEW r, Stands(r), overlap \in BOOLEAN, Len(turns) \in Nat
  PROVE  Place(r) <= Span /\ (Place(r) = Span => pc[r] = "final")
<1>1. CASE pc[r] \in {"idle", "entry", "turn"}
  BY <1>1 DEF Place, Stands, Before, Span
<1>2. CASE pc[r] \in {"bcast", "ack", "barrier", "load", "failed"}
  BY <1>2 DEF Place, Stands, Before, Span
<1>3. CASE pc[r] \in {"last", "join", "final"}
  BY <1>3 DEF Place, Stands, Before, Span
<1> QED
  BY <1>1, <1>2, <1>3 DEF Stands

\* No rank is through with a synchronization before every rollout rank has loaded all of
\* it: the last barrier of update_checkpoint comes after the join of the second thread.
THEOREM LoadedTogether == Spec => []Together
<1>1. DataInv /\ CallsInv /\ Planned => Together
  <2> SUFFICES ASSUME DataInv, CallsInv, Planned, NEW r \in Ranks, NEW s \in Rollouts,
                      NEW p \in Params(layout)
               PROVE  model[s][p] >= did[r]
    BY DEF Together
  <2>0. /\ s \in Ranks /\ Stands(s) /\ overlap \in BOOLEAN /\ Len(turns) \in Nat
        /\ did[s] \in Nat /\ did[r] \in Nat /\ at[s] = did[s] * Span + Place(s)
        /\ Span \in Nat
    BY DEF Ranks, CallsInv, CallsShape, Placed, Stands, Counted, Span
  <2>1. PICK g \in 1..Len(turns) : p \in Range(B(g))
    BY DEF Planned
  <2>2. model[s][p] = IF g <= Loaded(s) THEN did[s] + 1 ELSE did[s]
    BY <2>1 DEF DataInv, Held, LoadedUpTo
  <2>3. CASE did[r] <= did[s]
    BY <2>0, <2>2, <2>3
  <2>4. CASE did[s] < did[r]
    <3>1. /\ did[s] * Span + Span <= did[r] * Span /\ did[s] * Span \in Nat
          /\ did[r] * Span \in Nat /\ (did[s] + 1) * Span = did[s] * Span + Span
      BY <2>0, <2>4, Multiples
    <3>2. at[s] >= did[r] * Span
      BY <2>0 DEF DataInv, Passed
    <3>3. Place(s) \in Nat /\ Place(s) <= Span /\ (Place(s) = Span => pc[s] = "final")
      BY <2>0, PlaceNat, PlaceInSpan
    <3>4. Place(s) = Span /\ did[r] * Span = did[s] * Span + Span
      <4> DEFINE x == did[s] * Span
                 y == did[r] * Span
                 z == Place(s)
                 f == at[s]
      <4>1. /\ x \in Nat /\ y \in Nat /\ z \in Nat /\ f = x + z /\ x + Span <= y /\ f >= y
            /\ z <= Span
        BY <2>0, <3>1, <3>2, <3>3
      <4> HIDE DEF x, y, z, f
      <4>2. z = Span /\ y = x + Span
        BY ONLY <2>0, <4>1
      <4> QED
        BY <4>2 DEF x, y, z
    <3>5. did[r] = did[s] + 1
      <4>1. Span >= 2 /\ did[s] + 1 \in Nat
        BY <2>0 DEF Span
      <4>2. ~(did[s] + 1 < did[r])
        <5> SUFFICES ASSUME did[s] + 1 < did[r] PROVE FALSE
          OBVIOUS
        <5> DEFINE a == did[s] + 1
                   b == did[r]
                   x == a * Span
                   y == b * Span
        <5>1. a \in Nat /\ b \in Nat /\ a < b
          BY <2>0
        <5>2. y = x
          BY <3>1, <3>4
        <5> HIDE DEF a, b
        <5>3. x + Span <= y /\ x \in Nat /\ y \in Nat
          BY <2>0, <5>1, Multiples
        <5> HIDE DEF x, y
        <5> QED
          BY ONLY <2>0, <4>1, <5>2, <5>3
      <4> QED
        BY <2>0, <2>4, <4>2
    <3>6. g <= Loaded(s)
      BY <2>0, <3>3, <3>4 DEF Loaded
    <3> QED
      BY <2>0, <2>2, <3>5, <3>6
  <2> QED
    BY <2>0, <2>3, <2>4
<1> QED
  BY DataInvAlways, <1>1, PTL
===============================================================================
