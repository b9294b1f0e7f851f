------------------------ MODULE IngestionQueueInv ---------------------------
(***************************************************************************)
(* The inductive invariant of IngestionQueue. The properties of that       *)
(* module are not inductive by themselves: what they say of an order or a  *)
(* row depends on where the requests are (Phases, Targets), and what they  *)
(* say of a request alone on its row depends on its copy being current     *)
(* (Alone), which holds because requests that meet are marked (Meetings).  *)
(***************************************************************************)
EXTENDS IngestionQueue, Naturals

BeforeOrder ==
    {"idle", "update", "resolve", "cancel", "created", "check", "approved",
     "place"}

(* Where a request is determines what its order looks like. *)
Phases ==
    \A r \in Requests :
        /\ pc[r] \in BeforeOrder => order[r] = "absent" /\ r \notin held
        /\ pc[r] \in {"gate", "send"} => order[r] = "PENDING" /\ r \notin held
        /\ pc[r] = "answered" =>
              /\ order[r] = "PENDING"
              /\ answer[r] \in Answers
              /\ answer[r] = "ack" => r \in held
        /\ pc[r] = "record" => order[r] \in Log!Conclusions
        /\ order[r] = "ACKNOWLEDGED" => r \in held

(* Where a request is determines whether it works on a row. *)
Targets ==
    \A r \in Requests :
        /\ pc[r] = "idle" => target[r] = None
        /\ pc[r] \in BeforeOrder \ {"idle", "place"} => target[r] \in Items
        /\ target[r] \in Items => row[target[r]].status # "absent"

(* Two requests that are on one row are both marked. *)
Meetings ==
    \A r, q \in Requests : \A i \in Items :
        r # q /\ Active(r, i) /\ Active(q, i)
        => r \in overlapped /\ q \in overlapped

(* A request alone on its row holds the row as it is, and nobody takes     *)
(* approved away from it or edits the intent it has validated.             *)
Alone ==
    \A r \in Requests :
        Running(r) /\ target[r] \in Items /\ r \notin overlapped =>
            /\ row[target[r]].status \notin Final
            /\ pc[r] \notin {"created", "approved"} => seen[r] = row[target[r]]
            /\ pc[r] \notin {"update", "resolve", "cancel", "created", "check"}
               => /\ row[target[r]].status = "approved"
                  /\ Validates(row[target[r]].intent)

(* A request that was alone and whose order was acknowledged leaves a      *)
(* dispatched row that nobody is working on.                               *)
Settled ==
    \A r \in Requests :
        /\ pc[r] = "done"
        /\ order[r] = "ACKNOWLEDGED"
        /\ target[r] \in Items
        /\ r \notin overlapped
        => /\ row[target[r]].status = "dispatched"
           /\ \A q \in Requests : ~Active(q, target[r])

(* How far a request has come. *)
Stage ==
    [idle |-> 0, update |-> 1, resolve |-> 1, cancel |-> 1, created |-> 1,
     check |-> 2, approved |-> 3, place |-> 4, gate |-> 5, send |-> 6,
     answered |-> 7, record |-> 8, done |-> 9, aborted |-> 9]

Advances(r) == Stage[pc'[r]] > Stage[pc[r]]

(* No handler loops or retries: each of its steps takes a request further, *)
(* and nothing ever takes it back, so a request makes at most nine steps.  *)
EveryStepAdvances ==
    [][\A r \in Requests :
          Step(r) \/ pc'[r] # pc[r] => Advances(r)]_vars

(* The reachable states of the queue, as far as its properties need them:  *)
(* every handler leaves these facts in place, wherever it is interrupted.  *)
IInv ==
    /\ TypeOK
    /\ Phases
    /\ Targets
    /\ Meetings
    /\ Alone
    /\ Settled
    /\ DispatchedIsAcknowledged
    /\ SecondOrderExplained
    /\ ApprovedIsHeld
=============================================================================
