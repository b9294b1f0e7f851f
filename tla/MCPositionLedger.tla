-------------------------- MODULE MCPositionLedger --------------------------
(* A few orders and a thread that syncs on one ledger row. *)
EXTENDS PositionLedger, TLC

MCDeltas == {-1, 1, 2}
MCNets == {-1, 0, 1}
Symmetry == Permutations(Orders) \cup Permutations(Products)
=============================================================================
