--------------------------- MODULE OrderDispatch ---------------------------
(***************************************************************************)
(* OrderService.place_stock_order and place_fno_order: write a PENDING     *)
(* row, evaluate the dispatch gate, call the broker, record the answer.    *)
(*                                                                         *)
(* Every HTTP request runs in a thread of its own with its own database    *)
(* session, and places at most one order, so an order is named by the      *)
(* request that places it. A step ends where the code commits or reads:    *)
(* other requests run between any two steps, and a request may die there.  *)
(***************************************************************************)
EXTENDS FiniteSets

CONSTANT Requests

VARIABLES
    pc,        \* where each request is
    order,     \* orders.status of the row each request inserts
    answer,    \* what the broker adapter returned to each request
    held,      \* requests whose order the broker accepted (external truth)
    gateOpen   \* whether the kill switch and the broker session let orders out

orderVars == <<order, answer, held>>
dispatchVars == <<pc, orderVars, gateOpen>>

(* ACKNOWLEDGED, or an AngelOrderError / ZerodhaOrderError, or any other   *)
(* exception out of the adapter.                                           *)
Answers == {"ack", "orderError", "otherError"}

Recorded ==
    [ack |-> "ACKNOWLEDGED", orderError |-> "REJECTED",
     otherError |-> "DISPATCH_FAILED"]

OrderStatuses ==
    {"absent", "PENDING", "BLOCKED", "REJECTED", "DISPATCH_FAILED",
     "ACKNOWLEDGED"}

DispatchPcs ==
    {"idle", "place", "gate", "send", "answered", "record", "done", "aborted"}

Goto(r, label) == pc' = [pc EXCEPT ![r] = label]

DispatchInit ==
    /\ pc = [r \in Requests |-> "idle"]
    /\ order = [r \in Requests |-> "absent"]
    /\ answer = [r \in Requests |-> "none"]
    /\ held = {}
    /\ gateOpen \in BOOLEAN

-----------------------------------------------------------------------------
(* POST /orders and POST /orders/fno place without a queue item. A preview *)
(* that fails answers 400 and leaves no trace.                             *)
PlaceNow(r) ==
    /\ pc[r] = "idle"
    /\ Goto(r, "place")
    /\ UNCHANGED <<orderVars, gateOpen>>

(* Mutant: the row is added to the session but not committed. *)
InsertWithoutCommit(r) ==
    /\ pc[r] = "place"
    /\ Goto(r, "gate")
    /\ UNCHANGED <<orderVars, gateOpen>>

(* INSERT with status PENDING and commit, before the gate and the broker. *)
InsertOrder(r) ==
    /\ pc[r] = "place"
    /\ order' = [order EXCEPT ![r] = "PENDING"]
    /\ Goto(r, "gate")
    /\ UNCHANGED <<answer, held, gateOpen>>

(* The second gate evaluation refuses: BLOCKED, the broker is not called. *)
RefuseOrder(r) ==
    /\ pc[r] = "gate"
    /\ ~gateOpen
    /\ order' = [order EXCEPT ![r] = "BLOCKED"]
    /\ Goto(r, "record")
    /\ UNCHANGED <<answer, held, gateOpen>>

ClearOrder(r) ==
    /\ pc[r] = "gate"
    /\ gateOpen
    /\ Goto(r, "send")
    /\ UNCHANGED <<orderVars, gateOpen>>

(* The HTTP call to the broker. An acknowledgement carries a broker order  *)
(* id, so the broker has the order. Any failure leaves that open: the      *)
(* adapter raises the same AngelOrderError for a transport error, a        *)
(* non-200 reply, a reply without an id and a refusal, and the request may *)
(* have been accepted before a timeout; the adapter's own session check    *)
(* raises before anything is sent.                                         *)
Send(r) ==
    /\ pc[r] = "send"
    /\ \E a \in Answers, accepted \in BOOLEAN :
        /\ a = "ack" => accepted
        /\ answer' = [answer EXCEPT ![r] = a]
        /\ held' = IF accepted THEN held \cup {r} ELSE held
    /\ Goto(r, "answered")
    /\ UNCHANGED <<order, gateOpen>>

(* Commit of the order's outcome, with the broker order id and the         *)
(* position ledger's change when it is acknowledged. If the ledger raises, *)
(* the exception leaves the request: that is Abort.                        *)
RecordAnswer(r) ==
    /\ pc[r] = "answered"
    /\ order' = [order EXCEPT ![r] = Recorded[answer[r]]]
    /\ Goto(r, "record")
    /\ UNCHANGED <<answer, held, gateOpen>>

Respond(r) ==
    /\ pc[r] = "record"
    /\ Goto(r, "done")
    /\ UNCHANGED <<orderVars, gateOpen>>

-----------------------------------------------------------------------------
Running(r) == pc[r] \notin {"idle", "done", "aborted"}

(* The process dies, or an exception no handler catches ends the request:  *)
(* the session is closed and what it has not committed is gone.            *)
Abort(r) ==
    /\ Running(r)
    /\ Goto(r, "aborted")
    /\ UNCHANGED <<orderVars, gateOpen>>

(* The operator flips orders_dispatch_enabled, or the broker session is    *)
(* connected, disconnected or goes stale at the end of the day.            *)
ToggleGate ==
    /\ gateOpen' = ~gateOpen
    /\ UNCHANGED <<pc, orderVars>>

PlaceStep(r) ==
    \/ InsertOrder(r)
    \/ RefuseOrder(r)
    \/ ClearOrder(r)
    \/ Send(r)
    \/ RecordAnswer(r)
=============================================================================
