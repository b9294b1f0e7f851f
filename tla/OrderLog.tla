------------------------------ MODULE OrderLog ------------------------------
(***************************************************************************)
(* What the orders table promises about the broker, whatever the threads   *)
(* that write it do and wherever one of them dies.                         *)
(*                                                                         *)
(*   - The row is written ahead: the broker only ever receives an order    *)
(*     whose row is PENDING, so no order at the broker is without a row    *)
(*     and none arrives for a row that has already been concluded.         *)
(*   - A row is concluded once.                                            *)
(*   - ACKNOWLEDGED means the broker has it; BLOCKED means it never will.  *)
(*     REJECTED and DISPATCH_FAILED promise nothing about the broker.      *)
(*                                                                         *)
(* Reconciliation against the broker's order book may change a status      *)
(* later: of an acknowledged order, which stays acknowledged here.         *)
(***************************************************************************)
CONSTANT Orders

VARIABLES
    order,  \* status of every row of the orders table, "absent" before INSERT
    held    \* the orders the broker has accepted

Conclusions == {"BLOCKED", "REJECTED", "DISPATCH_FAILED", "ACKNOWLEDGED"}

OrderStatuses == {"absent", "PENDING"} \cup Conclusions

Init ==
    /\ order = [o \in Orders |-> "absent"]
    /\ held = {}

Write(o) ==
    /\ order[o] = "absent"
    /\ order' = [order EXCEPT ![o] = "PENDING"]
    /\ UNCHANGED held

Accept(o) ==
    /\ order[o] = "PENDING"
    /\ o \notin held
    /\ held' = held \cup {o}
    /\ UNCHANGED order

Conclude(o, status) ==
    /\ order[o] = "PENDING"
    /\ status = "ACKNOWLEDGED" => o \in held
    /\ status = "BLOCKED" => o \notin held
    /\ order' = [order EXCEPT ![o] = status]
    /\ UNCHANGED held

Next ==
    \E o \in Orders :
        \/ Write(o)
        \/ Accept(o)
        \/ \E status \in Conclusions : Conclude(o, status)

Spec == Init /\ [][Next]_<<order, held>>
=============================================================================
