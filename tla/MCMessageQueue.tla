---------------------------- MODULE MCMessageQueue ----------------------------
(***************************************************************************)
(* MessageQueue on a small instance.                                       *)
(***************************************************************************)
EXTENDS MessageQueue

CONSTANTS p1, p2, c1, c2

MCProducers == {p1, p2}
MCConsumers == {c1, c2}
===============================================================================
