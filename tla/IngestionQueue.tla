--------------------------- MODULE IngestionQueue ---------------------------
(***************************************************************************)
(* IngestionQueueService: rows of the ingestion queue, and the concurrent  *)
(* requests that create, edit, resolve, cancel and execute them.           *)
(*                                                                         *)
(* A request loads a row into its session, decides on that copy and        *)
(* commits. Nothing is locked between the two: the row carries no version, *)
(* SQLAlchemy's UPDATE names only the columns that differ from the copy,   *)
(* and the last writer of a column wins (Flush below). Executing a row     *)
(* places an order with the steps of OrderDispatch.                        *)
(***************************************************************************)
EXTENDS OrderDispatch

CONSTANTS
    Items,  \* idempotency keys; a key has at most one row
    None

ASSUME NoneAssumption == None \notin Requests /\ None \notin Items

VARIABLES
    row,         \* the committed row of each key
    target,      \* the row each request works on, None for a direct order
    seen,        \* the copy of that row in the request's session
    mapped,      \* the registry knows the instrument and maps it for the broker
    elapsed,     \* the clock has passed the "early" expiry
    overlapped   \* history: requests that shared a row with a running request

queueVars == <<row, target, seen, overlapped>>
envVars == <<gateOpen, mapped, elapsed>>
vars == <<pc, orderVars, queueVars, envVars>>

(* What an execution intent is good for: "partial" leaves a field          *)
(* unresolved; "unsafe" resolves but fails validate_execution_intent or    *)
(* the ExecutionIntent schema; "complete" passes both.                     *)
Intents == {"complete", "unsafe", "partial"}
Modes == {"manual_review", "auto_dispatch"}
Expiries == {"early", "late"}
Statuses ==
    {"queued", "blocked", "ready", "approved", "dispatched", "failed",
     "expired", "cancelled"}
Final == {"cancelled", "dispatched"}

Rows ==
    [status : Statuses \cup {"absent"}, intent : Intents, mode : Modes,
     expiry : Expiries, linked : Requests \cup {None}]

NoRow ==
    [status |-> "absent", intent |-> "partial", mode |-> "manual_review",
     expiry |-> "late", linked |-> None]

Pcs ==
    DispatchPcs \cup {"update", "resolve", "cancel", "created", "check",
                      "approved"}

Init ==
    /\ DispatchInit
    /\ row = [i \in Items |-> NoRow]
    /\ target = [r \in Requests |-> None]
    /\ seen = [r \in Requests |-> NoRow]
    /\ overlapped = {}
    /\ mapped \in BOOLEAN
    /\ elapsed = FALSE

-----------------------------------------------------------------------------
(* execution_ready of _compute_resolution: nothing unresolved or invalid,  *)
(* and resolve_for_broker finds a mapping.                                 *)
Resolves(intent) == intent # "partial" /\ mapped

Validates(intent) == intent = "complete"

Expired(copy) == copy.expiry = "early" /\ elapsed

(* Mutant: the validation state is written where the status belongs. *)
ValidationStateFor(intent, mode) ==
    IF Resolves(intent) THEN "valid" ELSE "blocked"

StatusFor(intent, mode) ==
    CASE ~Resolves(intent) -> "blocked"
      [] Resolves(intent) /\ mode = "auto_dispatch" -> "queued"
      [] OTHER -> "ready"

(* What a commit leaves in the row: UPDATE ... WHERE id sets the columns   *)
(* that differ from the copy the session loaded, and only those.           *)
Merge(copy, want, base) ==
    [f \in DOMAIN want |-> IF want[f] # copy[f] THEN want[f] ELSE base[f]]

Flush(i, copy, want) ==
    row' = [row EXCEPT ![i] = Merge(copy, want, row[i])]

Active(r, i) == Running(r) /\ target[r] = i

(* A request that works on row i from now on meets those already on it. *)
Meet(r, i) ==
    LET others == {q \in Requests \ {r} : Active(q, i)}
    IN  overlapped' = overlapped \cup others
                        \cup (IF others = {} THEN {} ELSE {r})

-----------------------------------------------------------------------------
(* POST /queue and the webhook: a new key inserts a row, and an auto-      *)
(* dispatch row that is ready is executed by the same request.             *)
CreateNew(r, i, intent, mode, expiry) ==
    /\ pc[r] = "idle"
    /\ row[i].status = "absent"
    /\ row' = [row EXCEPT ![i] =
                 [status |-> StatusFor(intent, mode), intent |-> intent,
                  mode |-> mode, expiry |-> expiry, linked |-> None]]
    /\ target' = [target EXCEPT ![r] = i]
    /\ Goto(r, IF StatusFor(intent, mode) = "queued" THEN "created" ELSE "done")
    /\ UNCHANGED <<orderVars, envVars, seen, overlapped>>

(* A known key: the unique index refuses the INSERT, the session rolls     *)
(* back, and the caller gets the existing row or a 409.                    *)
CreateAgain(r, i) ==
    /\ pc[r] = "idle"
    /\ row[i].status # "absent"
    /\ Goto(r, "done")
    /\ UNCHANGED <<orderVars, envVars, queueVars>>

(* Mutant: a final row is loaded like any other. *)
LoadAny(r, i, label) ==
    /\ pc[r] = "idle"
    /\ row[i].status # "absent"
    /\ target' = [target EXCEPT ![r] = i]
    /\ seen' = [seen EXCEPT ![r] = row[i]]
    /\ Meet(r, i)
    /\ Goto(r, label)
    /\ UNCHANGED <<orderVars, envVars, row>>

(* get_item on behalf of update, resolve, cancel or execute. *)
Load(r, i, label) ==
    /\ pc[r] = "idle"
    /\ row[i].status \notin Final \cup {"absent"}
    /\ target' = [target EXCEPT ![r] = i]
    /\ seen' = [seen EXCEPT ![r] = row[i]]
    /\ Meet(r, i)
    /\ Goto(r, label)
    /\ UNCHANGED <<orderVars, envVars, row>>

(* A final row ends the request at once: editing and resolving are         *)
(* refused, cancelling and executing return the row as it is.              *)
LoadFinal(r, i) ==
    /\ pc[r] = "idle"
    /\ row[i].status \in Final
    /\ Goto(r, "done")
    /\ UNCHANGED <<orderVars, envVars, queueVars>>

(* get_db closes the session of a request that ends. *)
CloseSession(r) == seen' = [seen EXCEPT ![r] = NoRow]

(* Ends a step of request r with a commit of the columns it changed. *)
Commit(r, want) ==
    /\ Flush(target[r], seen[r], want)
    /\ UNCHANGED <<orderVars, envVars, target, overlapped>>

(* The last commit of a request. *)
Finish(r, want) ==
    /\ Commit(r, want)
    /\ Goto(r, "done")
    /\ CloseSession(r)

FinishAs(r, status) == Finish(r, [seen[r] EXCEPT !.status = status])

-----------------------------------------------------------------------------
(* update_item without an intent leaves the status alone. *)
UpdateSettings(r, mode, expiry) ==
    /\ pc[r] = "update"
    /\ Finish(r, [seen[r] EXCEPT !.mode = mode, !.expiry = expiry])

UpdateIntent(r, intent, mode, expiry) ==
    /\ pc[r] = "update"
    /\ Finish(r, [seen[r] EXCEPT !.intent = intent, !.mode = mode,
                                 !.expiry = expiry,
                                 !.status = StatusFor(intent, mode)])

(* resolve_item_fields edits the loaded intent in place. The status and    *)
(* the resolution columns follow the edited intent, but the JSON column    *)
(* compares equal to itself, so the intent is left out of the UPDATE.      *)
Resolve(r, intent) ==
    /\ pc[r] = "resolve"
    /\ FinishAs(r, StatusFor(intent, seen[r].mode))

Cancel(r) ==
    /\ pc[r] = "cancel"
    /\ FinishAs(r, "cancelled")

-----------------------------------------------------------------------------
(* execute_item. *)
Expire(r) ==
    /\ pc[r] = "check"
    /\ Expired(seen[r])
    /\ FinishAs(r, "expired")

(* Mutant: an intent that resolves is not validated again. *)
MayDispatchUnvalidated(intent) == Resolves(intent) /\ gateOpen

MayDispatch(intent) == Resolves(intent) /\ Validates(intent) /\ gateOpen

Block(r) ==
    /\ pc[r] = "check"
    /\ ~Expired(seen[r])
    /\ ~MayDispatch(seen[r].intent)
    /\ FinishAs(r, "blocked")

(* Mutant: the row is executed without being marked approved first. *)
ApproveSilently(r) ==
    /\ pc[r] = "check"
    /\ ~Expired(seen[r])
    /\ MayDispatch(seen[r].intent)
    /\ Commit(r, seen[r])
    /\ Goto(r, "approved")
    /\ UNCHANGED seen

Approve(r) ==
    /\ pc[r] = "check"
    /\ ~Expired(seen[r])
    /\ MayDispatch(seen[r].intent)
    /\ Commit(r, [seen[r] EXCEPT !.status = "approved"])
    /\ Goto(r, "approved")
    /\ UNCHANGED seen

(* db.refresh after a commit is a query of its own. After an insert,       *)
(* execute_item goes on from the refreshed row, unless that is final.      *)
Refresh(r) ==
    /\ pc[r] \in {"created", "approved"}
    /\ pc[r] = "created" => row[target[r]].status \notin Final
    /\ seen' = [seen EXCEPT ![r] = row[target[r]]]
    /\ Goto(r, IF pc[r] = "created" THEN "check" ELSE "place")
    /\ UNCHANGED <<orderVars, envVars, row, target, overlapped>>

(* The row that was inserted for auto-dispatch has been cancelled, or sent *)
(* by another request, before execute_item looks at it.                    *)
FinalByNow(r) ==
    /\ pc[r] = "created"
    /\ row[target[r]].status \in Final
    /\ Goto(r, "done")
    /\ CloseSession(r)
    /\ UNCHANGED <<orderVars, envVars, row, target, overlapped>>

(* Mutant: the exception is reported but the row keeps its status. *)
PlaceFailsSilently(r) ==
    /\ pc[r] = "place"
    /\ target[r] # None
    /\ Finish(r, seen[r])

(* The instrument is gone from the registry, the preview is refused, or    *)
(* the orders table is missing: the row fails and no order is written.     *)
PlaceFails(r) ==
    /\ pc[r] = "place"
    /\ target[r] # None
    /\ FinishAs(r, "failed")

(* Mutant: every order that was sent concludes the row as dispatched. *)
ConcludeSent(r) ==
    /\ pc[r] = "record"
    /\ target[r] # None
    /\ Finish(r, [seen[r] EXCEPT
                    !.linked = r,
                    !.status = IF order[r] # "BLOCKED" THEN "dispatched"
                               ELSE "failed"])

(* Link the order to the row and conclude the row. *)
Conclude(r) ==
    /\ pc[r] = "record"
    /\ target[r] # None
    /\ Finish(r, [seen[r] EXCEPT
                    !.linked = r,
                    !.status = IF order[r] = "ACKNOWLEDGED" THEN "dispatched"
                               ELSE "failed"])

-----------------------------------------------------------------------------
(* The operator's and the clock's side. A sync of the registry adds the    *)
(* mapping, or moves the broker's instrument to another of the registry.   *)
SyncRegistry ==
    /\ mapped' = ~mapped
    /\ UNCHANGED <<pc, orderVars, queueVars, gateOpen, elapsed>>

Elapse ==
    /\ ~elapsed
    /\ elapsed' = TRUE
    /\ UNCHANGED <<pc, orderVars, queueVars, gateOpen, mapped>>

Unqueued == UNCHANGED <<queueVars, mapped, elapsed>>

Die(r) ==
    /\ Abort(r)
    /\ CloseSession(r)
    /\ UNCHANGED <<row, target, overlapped, mapped, elapsed>>

Create(r) ==
    \E i \in Items :
        \/ \E intent \in Intents, mode \in Modes, expiry \in Expiries :
              CreateNew(r, i, intent, mode, expiry)
        \/ CreateAgain(r, i)

Arrive(r) ==
    \/ Create(r)
    \/ \E i \in Items :
          \/ \E label \in {"update", "resolve", "cancel", "check"} :
                Load(r, i, label)
          \/ LoadFinal(r, i)
    \/ PlaceNow(r) /\ Unqueued

Update(r) ==
    \E mode \in Modes, expiry \in Expiries :
        \/ UpdateSettings(r, mode, expiry)
        \/ \E intent \in Intents : UpdateIntent(r, intent, mode, expiry)

Execute(r) ==
    \/ Expire(r)
    \/ Block(r)
    \/ Approve(r)
    \/ Refresh(r)
    \/ FinalByNow(r)
    \/ PlaceFails(r)
    \/ PlaceStep(r) /\ Unqueued
    \/ Conclude(r)

(* Everything a running request may do next. *)
Step(r) ==
    \/ Update(r)
    \/ \E intent \in Intents : Resolve(r, intent)
    \/ Cancel(r)
    \/ Execute(r)
    \/ target[r] = None /\ Respond(r) /\ Unqueued

Environment ==
    \/ ToggleGate /\ Unqueued
    \/ SyncRegistry
    \/ Elapse

Next ==
    \/ \E r \in Requests : Arrive(r) \/ Step(r) \/ Die(r)
    \/ Environment

Spec == Init /\ [][Next]_vars

(* A thread that runs is scheduled again: the operating system sees to it  *)
(* and the broker call has a timeout. Nobody has to send a request, and    *)
(* none has to die.                                                        *)
Fairness == \A r \in Requests : WF_vars(Step(r))

FairSpec == Spec /\ Fairness

-----------------------------------------------------------------------------
TypeOK ==
    /\ pc \in [Requests -> Pcs]
    /\ order \in [Requests -> OrderStatuses]
    /\ answer \in [Requests -> Answers \cup {"none"}]
    /\ held \subseteq Requests
    /\ row \in [Items -> Rows]
    /\ target \in [Requests -> Items \cup {None}]
    /\ seen \in [Requests -> Rows]
    /\ overlapped \subseteq Requests
    /\ gateOpen \in BOOLEAN
    /\ mapped \in BOOLEAN
    /\ elapsed \in BOOLEAN

Log == INSTANCE OrderLog WITH Orders <- Requests

(* The orders table keeps its promises about the broker under every        *)
(* interleaving and every crash: place_stock_order and place_fno_order     *)
(* write ahead, conclude a row once, and acknowledge or block truthfully.  *)
OrderLogSpec == Log!Spec

(* A row that is cancelled or dispatched changes only through a request    *)
(* that shared it with another: every handler's final check (get_item and  *)
(* the status test after it) does its job when requests do not overlap.    *)
FinalLeftOnlyByRace ==
    [][\A i \in Items :
          /\ row[i].status \in Final
          /\ row'[i].status # row[i].status
          => \E r \in overlapped : target[r] = i /\ pc'[r] # pc[r]]_vars

(* The broker holds two orders of one row only if one of the two requests  *)
(* overlapped another, died after it sent, or was told the order failed.   *)
SecondOrderExplained ==
    \A r, q \in held :
        r # q /\ target[r] = target[q] /\ target[r] # None
        => \E s \in {r, q} :
              \/ s \in overlapped
              \/ pc[s] = "aborted"
              \/ order[s] # "ACKNOWLEDGED"

(* dispatched is never a guess: the broker acknowledged an order that was  *)
(* placed for this row, and a linked order is this row's and concluded.    *)
DispatchedIsAcknowledged ==
    \A i \in Items :
        /\ row[i].status = "dispatched"
           => \E r \in held : target[r] = i /\ order[r] = "ACKNOWLEDGED"
        /\ \A r \in Requests :
              row[i].linked = r
              => target[r] = i /\ order[r] \in Log!Conclusions

(* Unless requests overlap, an order of a row reaches the broker only      *)
(* while the committed row says approved and still holds an intent that    *)
(* passes validation: never after a cancel, an edit or a conclusion that   *)
(* this request did not see. execute_item sends the intent it read before  *)
(* it approved, not the one it could read from the refreshed row.          *)
UnracedSendIsApproved ==
    [][\A r \in held' \ held :
          target[r] # None /\ r \notin overlapped
          => /\ row[target[r]].status = "approved"
             /\ Validates(row[target[r]].intent)]_vars

(* Where a request has its own approval still to conclude: until it has    *)
(* refreshed the row, and from then on if the refreshed copy shows it.     *)
Concluding == {"place", "gate", "send", "answered", "record"}

WillConclude(r) ==
    \/ pc[r] = "approved"
    \/ pc[r] \in Concluding /\ seen[r].status = "approved"

(* No approved row is forgotten: a request is on its way to conclude it,   *)
(* and the UPDATE it will send names the status, or a request died on it.  *)
(* execute_item leaves the row approved behind no early return, and no     *)
(* other handler writes approved from a stale copy.                        *)
ApprovedIsHeld ==
    \A i \in Items :
        row[i].status = "approved"
        => \E r \in Requests :
              /\ target[r] = i
              /\ WillConclude(r) \/ pc[r] = "aborted"

(* approved is a passing state: unless a request dies on the row, whoever  *)
(* approved it last also concludes it, however requests interleave.        *)
ApprovedIsTransient ==
    \A i \in Items :
        row[i].status = "approved"
        ~> \/ row[i].status # "approved"
           \/ \E r \in Requests : target[r] = i /\ pc[r] = "aborted"

-----------------------------------------------------------------------------
(* ingestion_queue_service.py:866 "Cannot edit a final queue item": a row  *)
(* that is cancelled or dispatched stays as it is.                         *)
FinalStaysFinal ==
    [][\A i \in Items :
          row[i].status \in Final => row'[i].status = row[i].status]_vars

(* A row is shown as ready or queued when the intent stored with it, the   *)
(* one an execution will read, leaves no field unresolved. Whether its     *)
(* instrument is mapped may change at any time, and is not asked for here. *)
ReadyIsExecutable ==
    \A i \in Items :
        row[i].status \in {"ready", "queued"} => row[i].intent # "partial"
=============================================================================
