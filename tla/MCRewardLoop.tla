----------------------------- MODULE MCRewardLoop ------------------------------
(***************************************************************************)
(* RewardLoop on a small instance.                                         *)
(***************************************************************************)
EXTENDS RewardLoop

CONSTANTS q1, q2, q3

MCRequests == {q1, q2, q3}

\* One request a tick; of the other bucket a request takes more than it holds.
MCCap  == [b \in Buckets |-> IF b = "rpm" THEN 1 ELSE 2]
MCRate == [b \in Buckets |-> 1]
MCNeed == [b \in Buckets |-> IF b = "rpm" THEN 1 ELSE 3]
===============================================================================
