------------------------------ MODULE MCCheckpoint -----------------------------
(***************************************************************************)
(* Checkpoint on a small instance.                                         *)
(***************************************************************************)
EXTENDS Checkpoint

CONSTANTS k0, k1

MCRanks == {k0, k1}

\* The actor keeps two checkpoints, the critic one.
MCKeep == [r \in {"actor", "critic"} |-> IF r = "actor" THEN 2 ELSE 1]
===============================================================================
