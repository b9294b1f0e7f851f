------------------------ MODULE MCInstrumentRegistry ------------------------
(* A sync of the list and a sync of the positions on a small registry. *)
EXTENDS InstrumentRegistry, TLC

Symmetry ==
    Permutations(Tokens) \cup Permutations(Contracts) \cup Permutations(Rows)
=============================================================================
