---------------------------- MODULE MCOrderBook ----------------------------
(* Two orders at one of two brokers, two requests that overlap. *)
EXTENDS OrderBook, TLC

Symmetry == Permutations(Orders) \cup Permutations(Requests)

Report(s, a, r) == [status |-> s, avg |-> a, reason |-> r]

BookEntries ==
    {Report("VALIDATING", NoPrice, FALSE), Report("OPEN", 0, FALSE),
     Report("CANCELLED", 3, TRUE)}

(* Both orders at one broker: then the two orders are alike, which halves  *)
(* the states. The proofs take any home.                                   *)
Together == {[o \in Orders |-> 1]}
=============================================================================
