--------------------------- MODULE MCQueueEngine ---------------------------
(* QueueContract for TLC: the symmetry of the message ids.                 *)
EXTENDS QueueContract

Symmetry == Permutations(Ids)
=============================================================================
