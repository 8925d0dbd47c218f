------------------------------ MODULE LossyQueue ------------------------------
(***************************************************************************)
(* What the message queue promises to rollouter and trainer: a bounded     *)
(* first-in first-out queue that makes room by losing its oldest entry.    *)
(***************************************************************************)
EXTENDS Naturals, Sequences

CONSTANTS Entry, MaxSize

VARIABLES queue, consumed, dropped

Init == queue = <<>> /\ consumed = 0 /\ dropped = 0

Put(e) ==
  \/ /\ Len(queue) < MaxSize
     /\ queue' = Append(queue, e)
     /\ UNCHANGED <<consumed, dropped>>
  \/ /\ Len(queue) >= MaxSize
     /\ queue' = Append(Tail(queue), e)
     /\ dropped' = dropped + 1
     /\ UNCHANGED consumed

Get ==
  /\ queue # <<>>
  /\ queue' = Tail(queue)
  /\ consumed' = consumed + 1
  /\ UNCHANGED dropped

Clear == queue' = <<>> /\ UNCHANGED <<consumed, dropped>>

Next == (\E e \in Entry : Put(e)) \/ Get \/ Clear

Spec == Init /\ [][Next]_<<queue, consumed, dropped>>
===============================================================================
