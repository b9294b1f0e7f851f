----------------------------- MODULE AlertQueue -----------------------------
(***************************************************************************)
(* What the webhook promises the sender of an alert, however often the     *)
(* alert is delivered and wherever a delivery dies.                        *)
(*                                                                         *)
(*   - An idempotency key is queued at most once.                          *)
(*   - Its order is dispatched by the queueing at most once.               *)
(*   - Who is told that his alert is accepted, or a duplicate, is told so  *)
(*     of an item that his user has.                                       *)
(***************************************************************************)
EXTENDS Naturals

CONSTANTS Deliveries, Keys, Users, Payloads

VARIABLES
    queue,  \* the queue items made from alerts
    sent,   \* how often each key has been dispatched by its delivery
    told    \* <<delivery, key, user>>: the deliveries that were told so

Items == [key : Keys, user : Users, payload : Payloads, by : Deliveries]

Init ==
    /\ queue = {}
    /\ sent = [k \in Keys |-> 0]
    /\ told = {}

Enqueue(item) ==
    /\ \A other \in queue : other.key # item.key
    /\ queue' = queue \cup {item}
    /\ UNCHANGED <<sent, told>>

Dispatch(item) ==
    /\ item \in queue
    /\ sent[item.key] = 0
    /\ sent' = [sent EXCEPT ![item.key] = 1]
    /\ UNCHANGED <<queue, told>>

Tell(d, item) ==
    /\ item \in queue
    /\ told' = told \cup {<<d, item.key, item.user>>}
    /\ UNCHANGED <<queue, sent>>

Next ==
    \E item \in Items :
        \/ Enqueue(item)
        \/ Dispatch(item)
        \/ \E d \in Deliveries : Tell(d, item)

Spec == Init /\ [][Next]_<<queue, sent, told>>
=============================================================================
