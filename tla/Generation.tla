------------------------------ MODULE Generation ------------------------------
(***************************************************************************)
(* What partial rollout promises: a response is generated token by token,  *)
(* each the successor of the one before it, with the weights of the        *)
(* moment, and is left alone once it is complete.  There are no requests,  *)
(* no interruptions and nothing to resume.                                 *)
(***************************************************************************)
EXTENDS Naturals, SequencesExt

CONSTANTS Rollouts, TurnLen

VARIABLES
  resp,     \* the response of each rollout
  done,     \* is it complete?
  version   \* version of the weights

\* The token after response p of rollout r: the next of the turn, the answer of the tool
\* (pos 0) after its last, the first of the next turn after that.
Following(r, p, v) ==
  IF p = <<>> THEN [turn |-> 1, pos |-> 1, ver |-> v]
  ELSE LET l == Last(p) IN
       [turn |-> IF l.pos = 0 THEN l.turn + 1 ELSE l.turn,
        pos  |-> IF l.pos = TurnLen[r] THEN 0 ELSE l.pos + 1,
        ver  |-> v]

Init ==
  /\ resp = [r \in Rollouts |-> <<>>]
  /\ done = [r \in Rollouts |-> FALSE]
  /\ version = 0

Extend(r) ==
  /\ ~done[r]
  /\ resp' = [resp EXCEPT ![r] = Append(@, Following(r, @, version))]
  /\ UNCHANGED <<done, version>>

Complete(r) ==
  /\ ~done[r]
  /\ done' = [done EXCEPT ![r] = TRUE]
  /\ UNCHANGED <<resp, version>>

NewWeights ==
  /\ version' = version + 1
  /\ UNCHANGED <<resp, done>>

Next == NewWeights \/ \E r \in Rollouts : Extend(r) \/ Complete(r)

Spec == Init /\ [][Next]_<<resp, done, version>>
===============================================================================
