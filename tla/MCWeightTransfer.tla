--------------------------- MODULE MCWeightTransfer ----------------------------
(***************************************************************************)
(* WeightTransfer on a small instance.                                     *)
(***************************************************************************)
EXTENDS WeightTransfer

\* Two buckets and one; two each; an actor without a parameter.
MCLayouts == {<<3, 1, 2, 2, 1>>, <<2, 2, 2, 2>>, <<5>>}
===============================================================================
