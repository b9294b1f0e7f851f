-------------------------- MODULE MCBrokerSession --------------------------
(* Two sets of credentials, two requests that overlap, two midnights. *)
EXTENDS BrokerSession, TLC

Symmetry == Permutations(Keys) \cup Permutations(Requests)
=============================================================================
