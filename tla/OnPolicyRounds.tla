---------------------------- MODULE OnPolicyRounds ----------------------------
(***************************************************************************)
(* What fully asynchronous training promises when staleness_threshold is   *)
(* zero: training in rounds.  In a round PerRound samples are generated,   *)
(* all with the weights of that round, and trained on in the order they    *)
(* were finished; the weights change when all of them have been used.      *)
(***************************************************************************)
EXTENDS Naturals, Sequences

CONSTANTS PerRound, Total

VARIABLES
  round,   \* version of the weights
  used,    \* samples of this round the trainer has taken
  buffer   \* finished samples it has not taken: the round that made each

Init == round = 0 /\ used = 0 /\ buffer = <<>>

Generate ==
  /\ used + Len(buffer) < PerRound
  /\ round * PerRound + used + Len(buffer) < Total
  /\ buffer' = Append(buffer, round)
  /\ UNCHANGED <<round, used>>

Train ==
  /\ buffer # <<>>
  /\ buffer' = Tail(buffer)
  /\ used' = used + 1
  /\ UNCHANGED round

NextRound ==
  /\ used = PerRound
  /\ round' = round + 1
  /\ used' = 0
  /\ UNCHANGED buffer

Next == Generate \/ Train \/ NextRound

Spec == Init /\ [][Next]_<<round, used, buffer>>
===============================================================================
