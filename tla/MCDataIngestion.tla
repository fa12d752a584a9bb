--------------------------- MODULE MCDataIngestion ---------------------------
(***************************************************************************)
(* DataIngestion with two readings, of which one may be posted twice, and  *)
(* one pool thread beside the event loop.                                  *)
(***************************************************************************)
EXTENDS DataIngestion

CONSTANTS r1, r2, loop, t1

MCReadings == {r1, r2}
MCWorkers == {loop, t1}
MCMaxPosts == [r \in Readings |-> IF r = r1 THEN 2 ELSE 1]

=============================================================================
