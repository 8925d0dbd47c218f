--------------------------- MODULE MCPartialRollout ---------------------------
(***************************************************************************)
(* PartialRollout on a small instance.                                     *)
(***************************************************************************)
EXTENDS PartialRollout

CONSTANTS r1, r2, s1

\* Both kinds of loops, which the code has in different samples, in one: they
\* meet at the server and the worker only.  With ResponseLength = 6 the answer
\* of the first tool of r1 leaves room and that of the second does not; the
\* single turn of r2 reaches the limit.
MCRollouts == {r1, r2}
MCServers  == {s1}
MCTools    == {r1}
MCTurns    == [r \in MCRollouts |-> IF r = r1 THEN 3 ELSE 1]
MCTurnLen  == [r \in MCRollouts |-> IF r = r1 THEN 2 ELSE 7]
===============================================================================
