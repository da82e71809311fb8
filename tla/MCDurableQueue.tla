--------------------------- MODULE MCDurableQueue ---------------------------
(* Instances of DurableQueue for TLC.                                      *)
EXTENDS DurableQueue

\* Batches of one byte, except the large one.
SizeByName == [b \in Batches |-> IF b = "large" THEN 2 ELSE 1]
=============================================================================
