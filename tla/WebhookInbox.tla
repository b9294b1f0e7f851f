---------------------------- MODULE WebhookInbox ----------------------------
(***************************************************************************)
(* WebhookIngestionService: from an alert delivered to /webhook/tradingview *)
(* to its row in the inbox and its item in the execution-intent queue.     *)
(*                                                                         *)
(* A delivery commits several times on its way: the inbox row first, then  *)
(* the queue item, then what create_item does with an item that dispatches *)
(* itself, then the row's status if that failed. Another delivery of the   *)
(* same key may come in between, and a delivery may die there. What makes  *)
(* one item of many deliveries is the unique key of the two tables.        *)
(*                                                                         *)
(* Keys are derived from the payload (its alert id, or its hash), so equal *)
(* payloads have equal keys, and different ones may. A rejected alert is   *)
(* recorded under a key of another namespace, which no alert shares: those *)
(* rows are left out.                                                      *)
(***************************************************************************)
EXTENDS Naturals

CONSTANTS
    Deliveries,  \* requests to the webhook
    Keys,        \* idempotency keys
    Users,       \* whom a route token resolves to
    Payloads,    \* contents of alerts
    Unreadable   \* those that do not normalise

ASSUME UnreadableAssumption == Unreadable \subseteq Payloads

VARIABLES
    pc,      \* where each delivery is
    alert,   \* the key, user and payload of each delivery that has a route
    via,     \* how each delivery came to admit its alert to the queue
    inbox,   \* webhook_ingestions
    queue,   \* ingestion_queue_items
    sent,    \* how often create_item has dispatched each key's item
    answer   \* the status of each delivery's response

vars == <<pc, alert, via, inbox, queue, sent, answer>>

Alerts == [key : Keys, user : Users, payload : Payloads]

Rows == [key : Keys, payload : Payloads \ Unreadable, by : Deliveries,
         status : {"accepted", "accepted_not_enqueued"}]

Items == [key : Keys, user : Users, payload : Payloads \ Unreadable,
          by : Deliveries]

Init ==
    /\ pc = [d \in Deliveries |-> "idle"]
    /\ alert \in [Deliveries -> Alerts]
    /\ via = [d \in Deliveries |-> "none"]
    /\ inbox = {}
    /\ queue = {}
    /\ sent = [k \in Keys |-> 0]
    /\ answer = [d \in Deliveries |-> "none"]

Goto(d, label) == pc' = [pc EXCEPT ![d] = label]

Respond(d, status) ==
    /\ answer' = [answer EXCEPT ![d] = status]
    /\ Goto(d, "done")

Recorded(key) == \E row \in inbox : row.key = key

Queued(key) == \E item \in queue : item.key = key

(* _find_queue_item_id: the lookup names the user, the unique key does not. *)
Found(key, user) == \E item \in queue : item.key = key /\ item.user = user

-----------------------------------------------------------------------------
(* The token resolves to a route, and the payload gives the key. *)
Route(d) ==
    /\ pc[d] = "idle"
    /\ Goto(d, "routed")
    /\ UNCHANGED <<alert, via, inbox, queue, sent, answer>>

(* No JSON object, no known schema version, or no route with the token. *)
Reject(d) ==
    /\ pc[d] = "idle"
    /\ Respond(d, "rejected")
    /\ UNCHANGED <<alert, via, inbox, queue, sent>>

Lookup(d) ==
    /\ pc[d] = "routed"
    /\ Goto(d, IF Recorded(alert[d].key) THEN "known" ELSE "new")
    /\ UNCHANGED <<alert, via, inbox, queue, sent, answer>>

RejectPayload(d) ==
    /\ pc[d] = "new"
    /\ alert[d].payload \in Unreadable
    /\ Respond(d, "rejected")
    /\ UNCHANGED <<alert, via, inbox, queue, sent>>

Row(d) == [key |-> alert[d].key, payload |-> alert[d].payload, by |-> d,
           status |-> "accepted"]

(* Mutant: the payload is taken as it comes. *)
PersistAnything(d) ==
    /\ pc[d] = "new"
    /\ ~Recorded(alert[d].key)
    /\ inbox' = inbox \cup {Row(d)}
    /\ via' = [via EXCEPT ![d] = "first"]
    /\ Goto(d, "admit")
    /\ UNCHANGED <<alert, queue, sent, answer>>

(* Mutant: the item is queued before its alert is recorded. *)
PersistLater(d) ==
    /\ pc[d] = "new"
    /\ alert[d].payload \notin Unreadable
    /\ ~Recorded(alert[d].key)
    /\ via' = [via EXCEPT ![d] = "first"]
    /\ Goto(d, "admit")
    /\ UNCHANGED <<alert, inbox, queue, sent, answer>>

Persist(d) ==
    /\ pc[d] = "new"
    /\ alert[d].payload \notin Unreadable
    /\ ~Recorded(alert[d].key)
    /\ inbox' = inbox \cup {Row(d)}
    /\ via' = [via EXCEPT ![d] = "first"]
    /\ Goto(d, "admit")
    /\ UNCHANGED <<alert, queue, sent, answer>>

(* The unique key refuses the row: _persist returns the one there is. *)
PersistLate(d) ==
    /\ pc[d] = "new"
    /\ alert[d].payload \notin Unreadable
    /\ Recorded(alert[d].key)
    /\ Goto(d, "late")
    /\ UNCHANGED <<alert, via, inbox, queue, sent, answer>>

(* Any other error is logged, and the alert is admitted without a row. *)
PersistFails(d) ==
    /\ pc[d] = "new"
    /\ alert[d].payload \notin Unreadable
    /\ via' = [via EXCEPT ![d] = "unrecorded"]
    /\ Goto(d, "admit")
    /\ UNCHANGED <<alert, inbox, queue, sent, answer>>

(* The error may also come from reading back the row just committed: then  *)
(* the row is there, and the delivery goes on as if it were not.           *)
PersistUnread(d) ==
    /\ pc[d] = "new"
    /\ alert[d].payload \notin Unreadable
    /\ ~Recorded(alert[d].key)
    /\ inbox' = inbox \cup {Row(d)}
    /\ via' = [via EXCEPT ![d] = "unrecorded"]
    /\ Goto(d, "admit")
    /\ UNCHANGED <<alert, queue, sent, answer>>

Duplicate(d) ==
    /\ pc[d] \in {"known", "late"}
    /\ Found(alert[d].key, alert[d].user)
    /\ Respond(d, "duplicate_ignored")
    /\ UNCHANGED <<alert, via, inbox, queue, sent>>

(* The row is there and the item is not: the alert is admitted again. *)
Readmit(d) ==
    /\ pc[d] \in {"known", "late"}
    /\ ~Found(alert[d].key, alert[d].user)
    /\ via' = [via EXCEPT ![d] = IF pc[d] = "known" THEN "retry" ELSE "late"]
    /\ Goto(d, "admit")
    /\ UNCHANGED <<alert, inbox, queue, sent, answer>>

(* Mutant: whoever finds the row queues what it recorded. *)
IntentsOfRow(d) ==
    IF via[d] \in {"retry", "late"}
    THEN {row.payload : row \in {r \in inbox : r.key = alert[d].key}}
    ELSE {alert[d].payload}

(* A retry queues what the row recorded, whatever it was delivered with. *)
Intents(d) ==
    IF via[d] = "retry"
    THEN {row.payload : row \in {r \in inbox : r.key = alert[d].key}}
    ELSE {alert[d].payload}

(* create_item inserts the item, which may be one that dispatches itself. *)
Admit(d) ==
    /\ pc[d] = "admit"
    /\ ~Queued(alert[d].key)
    /\ \E payload \in Intents(d) :
        queue' = queue \cup {[key |-> alert[d].key, user |-> alert[d].user,
                              payload |-> payload, by |-> d]}
    /\ \E label \in {"dispatch", "admitted"} : Goto(d, label)
    /\ UNCHANGED <<alert, via, inbox, sent, answer>>

(* Mutant: the item that was there is dispatched as if it were new. *)
AdmitTakenOver(d) ==
    /\ pc[d] = "admit"
    /\ Queued(alert[d].key)
    /\ Goto(d, IF Found(alert[d].key, alert[d].user) THEN "dispatch"
                                                     ELSE "refused")
    /\ UNCHANGED <<alert, via, inbox, queue, sent, answer>>

(* The unique key refuses the item: the user's own is returned as it is,   *)
(* and another user's is an error.                                         *)
AdmitTaken(d) ==
    /\ pc[d] = "admit"
    /\ Queued(alert[d].key)
    /\ Goto(d, IF Found(alert[d].key, alert[d].user) THEN "admitted"
                                                     ELSE "refused")
    /\ UNCHANGED <<alert, via, inbox, queue, sent, answer>>

(* The user is gone, or create_item raises before it commits. *)
AdmitFails(d) ==
    /\ pc[d] = "admit"
    /\ Goto(d, "refused")
    /\ UNCHANGED <<alert, via, inbox, queue, sent, answer>>

Executed(d) == [sent EXCEPT ![alert[d].key] = @ + 1]

(* execute_item, which may block the item instead of sending its order. *)
Dispatch(d) ==
    /\ pc[d] = "dispatch"
    /\ sent' \in {sent, Executed(d)}
    /\ Goto(d, "admitted")
    /\ UNCHANGED <<alert, via, inbox, queue, answer>>

(* execute_item raises, and may have sent the order by then. *)
DispatchFails(d) ==
    /\ pc[d] = "dispatch"
    /\ sent' \in {sent, Executed(d)}
    /\ Goto(d, "refused")
    /\ UNCHANGED <<alert, via, inbox, queue, answer>>

Accept(d) ==
    /\ pc[d] = "admitted"
    /\ Respond(d, "accepted")
    /\ UNCHANGED <<alert, via, inbox, queue, sent>>

Marked(d) ==
    {IF row.key = alert[d].key
     THEN [row EXCEPT !.status = "accepted_not_enqueued"]
     ELSE row : row \in inbox}

(* Mutant: the row is left as it is. *)
RefuseQuietly(d) ==
    /\ pc[d] = "refused"
    /\ Respond(d, "accepted_not_enqueued")
    /\ UNCHANGED <<alert, via, inbox, queue, sent>>

(* The sender is told, and so is the row, except by a late delivery. *)
Refuse(d) ==
    /\ pc[d] = "refused"
    /\ inbox' = IF via[d] \in {"first", "retry"} THEN Marked(d) ELSE inbox
    /\ Respond(d, "accepted_not_enqueued")
    /\ UNCHANGED <<alert, via, queue, sent>>

(* The row's update fails and is rolled back; the sender is told. *)
RefuseUnmarked(d) ==
    /\ pc[d] = "refused"
    /\ via[d] \in {"first", "retry"}
    /\ answer' = [answer EXCEPT ![d] = "accepted_not_enqueued"]
    /\ Goto(d, "unmarked")
    /\ UNCHANGED <<alert, via, inbox, queue, sent>>

Die(d) ==
    /\ pc[d] \notin {"idle", "done", "unmarked", "dead"}
    /\ Goto(d, "dead")
    /\ UNCHANGED <<alert, via, inbox, queue, sent, answer>>

Next ==
    \E d \in Deliveries :
        \/ Route(d)
        \/ Reject(d)
        \/ Lookup(d)
        \/ RejectPayload(d)
        \/ Persist(d)
        \/ PersistLate(d)
        \/ PersistFails(d)
        \/ PersistUnread(d)
        \/ Duplicate(d)
        \/ Readmit(d)
        \/ Admit(d)
        \/ AdmitTaken(d)
        \/ AdmitFails(d)
        \/ Dispatch(d)
        \/ DispatchFails(d)
        \/ Accept(d)
        \/ Refuse(d)
        \/ RefuseUnmarked(d)
        \/ Die(d)

Spec == Init /\ [][Next]_vars

-----------------------------------------------------------------------------
TypeOK ==
    /\ pc \in [Deliveries -> {"idle", "routed", "known", "new", "late",
                              "admit", "dispatch", "admitted", "refused",
                              "done", "unmarked", "dead"}]
    /\ alert \in [Deliveries -> Alerts]
    /\ via \in [Deliveries -> {"none", "first", "unrecorded", "retry", "late"}]
    /\ inbox \subseteq Rows
    /\ queue \subseteq Items
    /\ sent \in [Keys -> Nat]
    /\ answer \in [Deliveries -> {"none", "rejected", "duplicate_ignored",
                                  "accepted", "accepted_not_enqueued"}]

Pleased(d) == answer[d] \in {"accepted", "duplicate_ignored"}

Promise == INSTANCE AlertQueue WITH
    told <- {<<d, alert[d].key, alert[d].user>> : d \in {e \in Deliveries : Pleased(e)}}

(* However often an alert is delivered, and however the deliveries overlap *)
(* or die, its key is queued once, dispatched by its delivery at most      *)
(* once, and "accepted" or "duplicate_ignored" name an item of the user.   *)
AlertQueueSpec == Promise!Spec

(* An item has its row in the inbox first, unless recording it failed: the *)
(* inbox is what an operator traces an item back to (source_ref).          *)
RecordedFirst ==
    \A item \in queue : Recorded(item.key) \/ via[item.by] = "unrecorded"

(* A row that says "accepted" has its item, unless the delivery that       *)
(* recorded it is still to queue it, has died, or could not mark it: the   *)
(* update failed, or it did not know of the row it had committed.          *)
AcceptedIsQueued ==
    \A row \in inbox :
        row.status = "accepted" =>
            \/ Queued(row.key)
            \/ pc[row.by] \in {"admit", "refused", "unmarked", "dead"}
            \/ pc[row.by] = "done" /\ via[row.by] = "unrecorded"

(* An item holds another alert than the one that queued it only when that  *)
(* alert had taken the key and was left without an item.                   *)
BorrowedIsRetry ==
    \A item \in queue :
        item.payload # alert[item.by].payload =>
            /\ via[item.by] = "retry"
            /\ \E row \in inbox :
                /\ row.key = item.key
                /\ row.payload = item.payload
                /\ row.by # item.by

-----------------------------------------------------------------------------
(* A row was recorded by the first delivery of its key to get so far. *)
RowsOwned ==
    \A row \in inbox :
        /\ row.key = alert[row.by].key
        /\ row.payload = alert[row.by].payload
        /\ via[row.by] \in {"first", "unrecorded"}
        /\ pc[row.by] \notin {"idle", "routed", "known", "new", "late"}

(* An item was queued by a delivery of its key to its user. *)
ItemsOwned ==
    \A item \in queue :
        /\ item.key = alert[item.by].key
        /\ item.user = alert[item.by].user
        /\ pc[item.by] \notin {"idle", "routed", "known", "new", "late", "admit"}
        /\ IF via[item.by] = "retry"
           THEN \E row \in inbox :
                   row.key = item.key /\ row.payload = item.payload
           ELSE item.payload = alert[item.by].payload

OneItemPerKey ==
    \A item, other \in queue : item.key = other.key => item = other

(* What a delivery relies on at each point of its way. *)
Underway ==
    \A d \in Deliveries :
        /\ pc[d] \in {"known", "late"} => Recorded(alert[d].key)
        /\ pc[d] = "late" => alert[d].payload \notin Unreadable
        /\ pc[d] = "admit" =>
            /\ via[d] # "none"
            /\ Recorded(alert[d].key) \/ via[d] = "unrecorded"
            /\ alert[d].payload \notin Unreadable \/ via[d] = "retry"
        /\ pc[d] = "dispatch" =>
            \E item \in queue : item.by = d /\ sent[item.key] = 0
        /\ pc[d] = "admitted" => Found(alert[d].key, alert[d].user)

SentIsQueued == \A k \in Keys : sent[k] # 0 => Queued(k)

Answered ==
    \A d \in Deliveries :
        /\ answer[d] # "none" => pc[d] \in {"done", "unmarked"}
        /\ Pleased(d) => Found(alert[d].key, alert[d].user)

(* The reachable states of the inbox and the queue, as far as their        *)
(* properties need them.                                                   *)
IInv ==
    /\ TypeOK
    /\ RowsOwned
    /\ ItemsOwned
    /\ OneItemPerKey
    /\ Underway
    /\ SentIsQueued
    /\ Answered
    /\ RecordedFirst
    /\ AcceptedIsQueued

-----------------------------------------------------------------------------
(* "accepted but failed to enqueue queue item" is told of an alert that    *)
(* has not been dispatched: the sender, and the operator who reads the     *)
(* row, may send it again.                                                 *)
NotEnqueuedIsNotSent ==
    \A item \in queue :
        answer[item.by] = "accepted_not_enqueued" => sent[item.key] = 0
=============================================================================
