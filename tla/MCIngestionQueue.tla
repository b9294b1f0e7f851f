-------------------------- MODULE MCIngestionQueue --------------------------
(* One row shared by a few requests: every request of the model may meet   *)
(* every other on it.                                                      *)
EXTENDS IngestionQueueInv, TLC

Symmetry == Permutations(Requests)
=============================================================================
