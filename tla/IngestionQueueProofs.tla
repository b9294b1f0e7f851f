------------------------ MODULE IngestionQueueProofs ------------------------
(***************************************************************************)
(* Proofs for IngestionQueue, for any sets of requests and of rows.        *)
(*                                                                         *)
(* The handlers fall into a few kinds (Kind below): all the handlers that  *)
(* end a request with a commit are one kind, Ends. Each part of the        *)
(* inductive invariant IInv is shown to survive a step of every kind.      *)
(***************************************************************************)
EXTENDS IngestionQueueInv, TLAPS

-----------------------------------------------------------------------------
(* Kinds of steps. *)

(* A request that ends without having touched its row. *)
TurnedAway(r) ==
    /\ pc[r] = "idle"
    /\ Goto(r, "done")
    /\ UNCHANGED <<orderVars, envVars, queueVars>>

(* The last commit of a request, whatever it was for. *)
Ends(r, want) ==
    /\ pc[r] \in {"update", "resolve", "cancel", "check", "place", "record"}
    /\ target[r] \in Items
    /\ Finish(r, want)
    /\ want.status # seen[r].status
       => want.status \in Statuses \ {"approved"}
    /\ pc[r] \in {"place", "record"} => want.status # "approved"
    /\ want.linked # seen[r].linked => pc[r] = "record" /\ want.linked = r
    /\ want.status = "dispatched" /\ want.status # seen[r].status
       => pc[r] = "record"
    /\ pc[r] = "record"
       => (want.status = "dispatched" <=> order[r] = "ACKNOWLEDGED")

Kind(r) ==
    \/ \E i \in Items, intent \in Intents, mode \in Modes,
          expiry \in Expiries : CreateNew(r, i, intent, mode, expiry)
    \/ TurnedAway(r)
    \/ \E i \in Items, label \in {"update", "resolve", "cancel", "check"} :
          Load(r, i, label)
    \/ PlaceNow(r) /\ Unqueued
    \/ \E want \in Rows : Ends(r, want)
    \/ Approve(r)
    \/ Refresh(r) \/ FinalByNow(r)
    \/ PlaceStep(r) /\ Unqueued
    \/ target[r] = None /\ Respond(r) /\ Unqueued
    \/ Die(r)

LEMMA StatusForType ==
    ASSUME NEW intent \in Intents, NEW mode \in Modes
    PROVE  StatusFor(intent, mode) \in {"blocked", "queued", "ready"}
  BY DEF StatusFor

LEMMA StatusEnds ==
    ASSUME TypeOK, NEW r \in Requests,
           pc[r] \in {"update", "resolve", "cancel", "check", "place"},
           target[r] \in Items,
           NEW status \in Statuses \ {"approved", "dispatched"},
           FinishAs(r, status)
    PROVE  \E want \in Rows : Ends(r, want)
<1>. DEFINE want == [seen[r] EXCEPT !.status = status]
<1>1. want \in Rows /\ want.status = status /\ want.linked = seen[r].linked
  BY DEF TypeOK, Rows
<1>2. Ends(r, want)
  BY <1>1 DEF Ends, FinishAs
<1>. QED
  BY <1>1, <1>2

LEMMA UpdateEnds ==
    ASSUME TypeOK, NEW r \in Requests, target[r] \in Items, Update(r)
    PROVE  \E want \in Rows : Ends(r, want)
<1>1. PICK mode \in Modes, expiry \in Expiries :
        \/ UpdateSettings(r, mode, expiry)
        \/ \E intent \in Intents : UpdateIntent(r, intent, mode, expiry)
  BY DEF Update
<1>2. CASE UpdateSettings(r, mode, expiry)
  <2>. DEFINE want == [seen[r] EXCEPT !.mode = mode, !.expiry = expiry]
  <2>1. /\ want \in Rows
        /\ want.status = seen[r].status
        /\ want.linked = seen[r].linked
    BY DEF TypeOK, Rows
  <2>2. pc[r] = "update" /\ Finish(r, want)
    BY <1>2 DEF UpdateSettings
  <2>3. Ends(r, want)
    BY <2>1, <2>2 DEF Ends
  <2>. QED
    BY <2>1, <2>3
<1>3. ASSUME NEW intent \in Intents, UpdateIntent(r, intent, mode, expiry)
      PROVE  \E want \in Rows : Ends(r, want)
  <2>. DEFINE status == StatusFor(intent, mode)
              want == [seen[r] EXCEPT !.intent = intent, !.mode = mode,
                                      !.expiry = expiry, !.status = status]
  <2>0. status \in {"blocked", "queued", "ready"}
    BY StatusForType
  <2>1. /\ want \in Rows
        /\ want.status = status
        /\ want.linked = seen[r].linked
    BY <2>0 DEF TypeOK, Rows, Statuses
  <2>2. pc[r] = "update" /\ Finish(r, want)
    BY <1>3 DEF UpdateIntent
  <2>3. Ends(r, want)
    BY <2>0, <2>1, <2>2 DEF Ends, Statuses
  <2>. QED
    BY <2>1, <2>3
<1>. QED
  BY <1>1, <1>2, <1>3

LEMMA ConcludeEnds ==
    ASSUME TypeOK, NEW r \in Requests, target[r] \in Items, Conclude(r)
    PROVE  \E want \in Rows : Ends(r, want)
<1>. DEFINE status == IF order[r] = "ACKNOWLEDGED" THEN "dispatched"
                      ELSE "failed"
            want == [seen[r] EXCEPT !.linked = r, !.status = status]
<1>1. want \in Rows /\ want.status = status /\ want.linked = r
  BY DEF TypeOK, Rows, Statuses
<1>2. pc[r] = "record" /\ Finish(r, want)
  BY DEF Conclude
<1>3. Ends(r, want)
  BY <1>1, <1>2 DEF Ends, Statuses
<1>. QED
  BY <1>1, <1>3

LEMMA StepKinds ==
    ASSUME TypeOK, Targets, NEW r \in Requests, Step(r)
    PROVE  Kind(r)
<1>0. target[r] \in Items \cup {None}
  BY DEF TypeOK
<1>1. CASE Update(r)
  <2>1. pc[r] = "update"
    BY <1>1 DEF Update, UpdateSettings, UpdateIntent
  <2>2. target[r] \in Items
    BY <2>1 DEF Targets, BeforeOrder
  <2>. QED
    BY <1>1, <2>2, UpdateEnds DEF Kind
<1>2. ASSUME NEW intent \in Intents, Resolve(r, intent) PROVE Kind(r)
  <2>1. pc[r] = "resolve"
    BY <1>2 DEF Resolve
  <2>2. target[r] \in Items
    BY <2>1 DEF Targets, BeforeOrder
  <2>3. seen[r].mode \in Modes
    BY DEF TypeOK, Rows
  <2>4. StatusFor(intent, seen[r].mode)
          \in Statuses \ {"approved", "dispatched"}
    BY <2>3, StatusForType DEF Statuses
  <2>. QED
    BY <1>2, <2>1, <2>2, <2>4, StatusEnds DEF Kind, Resolve
<1>3. CASE Cancel(r)
  <2>1. pc[r] = "cancel" /\ FinishAs(r, "cancelled")
    BY <1>3 DEF Cancel
  <2>2. target[r] \in Items
    BY <2>1 DEF Targets, BeforeOrder
  <2>. QED
    BY <2>1, <2>2, StatusEnds DEF Kind, Statuses
<1>4. CASE Expire(r) \/ Block(r)
  <2>1. pc[r] = "check" /\ (FinishAs(r, "expired") \/ FinishAs(r, "blocked"))
    BY <1>4 DEF Expire, Block
  <2>2. target[r] \in Items
    BY <2>1 DEF Targets, BeforeOrder
  <2>. QED
    BY <2>1, <2>2, StatusEnds DEF Kind, Statuses
<1>5. CASE PlaceFails(r)
  <2>1. pc[r] = "place" /\ target[r] # None /\ FinishAs(r, "failed")
    BY <1>5 DEF PlaceFails
  <2>. QED
    BY <1>0, <2>1, StatusEnds DEF Kind, Statuses
<1>6. CASE Conclude(r)
  <2>1. target[r] \in Items
    BY <1>0, <1>6 DEF Conclude
  <2>. QED
    BY <1>6, <2>1, ConcludeEnds DEF Kind
<1>7. CASE Approve(r) \/ Refresh(r) \/ FinalByNow(r)
           \/ (PlaceStep(r) /\ Unqueued)
  BY <1>7 DEF Kind
<1>8. CASE target[r] = None /\ Respond(r) /\ Unqueued
  BY <1>8 DEF Kind
<1>. QED
  BY <1>1, <1>2, <1>3, <1>4, <1>5, <1>6, <1>7, <1>8 DEF Step, Execute

(* Every step of the queue is of one of the kinds. *)
LEMMA NextKinds ==
    ASSUME TypeOK, Targets, [Next]_vars
    PROVE  \/ \E r \in Requests : Kind(r)
           \/ Environment
           \/ UNCHANGED vars
<1>1. ASSUME NEW r \in Requests, Arrive(r) PROVE Kind(r)
  BY <1>1 DEF Arrive, Create, CreateAgain, LoadFinal, Kind, TurnedAway
<1>2. ASSUME NEW r \in Requests, Die(r) PROVE Kind(r)
  BY <1>2 DEF Kind
<1>. QED
  BY <1>1, <1>2, StepKinds DEF Next

-----------------------------------------------------------------------------
(* The columns of a row after a commit. *)

LEMMA MergeFields ==
    ASSUME NEW copy \in Rows, NEW want \in Rows, NEW base \in Rows
    PROVE  /\ Merge(copy, want, base) \in Rows
           /\ Merge(copy, want, base).status =
                IF want.status # copy.status THEN want.status ELSE base.status
           /\ Merge(copy, want, base).linked =
                IF want.linked # copy.linked THEN want.linked ELSE base.linked
           /\ Merge(copy, want, base).intent =
                IF want.intent # copy.intent THEN want.intent ELSE base.intent
  BY DEF Rows, Merge

(* A commit changes the request's own row and no other. *)
LEMMA CommitRows ==
    ASSUME TypeOK, NEW r \in Requests, target[r] \in Items,
           NEW want \in Rows, Commit(r, want)
    PROVE  /\ row' \in [Items -> Rows]
           /\ \A i \in Items : i # target[r] => row'[i] = row[i]
           /\ row'[target[r]].status =
                IF want.status # seen[r].status THEN want.status
                ELSE row[target[r]].status
           /\ row'[target[r]].linked =
                IF want.linked # seen[r].linked THEN want.linked
                ELSE row[target[r]].linked
           /\ row'[target[r]].intent =
                IF want.intent # seen[r].intent THEN want.intent
                ELSE row[target[r]].intent
<1>. DEFINE base == row[target[r]]
<1>1. base \in Rows /\ seen[r] \in Rows
  BY DEF TypeOK
<1>2. /\ Merge(seen[r], want, base) \in Rows
      /\ Merge(seen[r], want, base).status =
           IF want.status # seen[r].status THEN want.status ELSE base.status
      /\ Merge(seen[r], want, base).linked =
           IF want.linked # seen[r].linked THEN want.linked ELSE base.linked
      /\ Merge(seen[r], want, base).intent =
           IF want.intent # seen[r].intent THEN want.intent ELSE base.intent
  BY <1>1, MergeFields
<1>3. row' = [row EXCEPT ![target[r]] = Merge(seen[r], want, base)]
  BY DEF Commit, Flush
<1>. QED
  BY <1>2, <1>3 DEF TypeOK

-----------------------------------------------------------------------------
(* Type correctness. It needs Phases: a request records an answer only     *)
(* when it has one.                                                        *)

LEMMA NoRowType == NoRow \in Rows
  BY DEF NoRow, Rows, Intents, Modes, Expiries

LEMMA InitTypeOK ==
    ASSUME Init
    PROVE  TypeOK
<1>1. row \in [Items -> Rows] /\ seen \in [Requests -> Rows]
  BY NoRowType DEF Init
<1>2. pc \in [Requests -> Pcs] /\ order \in [Requests -> OrderStatuses]
  BY DEF Init, DispatchInit, Pcs, DispatchPcs, OrderStatuses
<1>. QED
  BY <1>1, <1>2 DEF Init, DispatchInit, TypeOK

LEMMA GotoType ==
    ASSUME TypeOK, NEW r \in Requests, NEW label \in Pcs, Goto(r, label)
    PROVE  /\ pc' \in [Requests -> Pcs]
           /\ pc'[r] = label
           /\ \A q \in Requests : q # r => pc'[q] = pc[q]
  BY DEF TypeOK, Goto

LEMMA PlaceStepType ==
    ASSUME TypeOK, Phases, NEW r \in Requests, PlaceStep(r), Unqueued
    PROVE  TypeOK'
<1>1. pc' \in [Requests -> Pcs]
  BY GotoType DEF PlaceStep, InsertOrder, RefuseOrder, ClearOrder, Send,
                  RecordAnswer, Pcs, DispatchPcs
<1>2. CASE InsertOrder(r) \/ RefuseOrder(r) \/ ClearOrder(r)
  BY <1>1, <1>2 DEF TypeOK, InsertOrder, RefuseOrder, ClearOrder, Unqueued,
                    orderVars, queueVars, OrderStatuses
<1>3. CASE Send(r)
  BY <1>1, <1>3 DEF TypeOK, Send, Unqueued, queueVars
<1>4. CASE RecordAnswer(r)
  <2>1. answer[r] \in Answers
    BY <1>4 DEF Phases, RecordAnswer
  <2>2. Recorded[answer[r]] \in OrderStatuses
    BY <2>1 DEF Recorded, Answers, OrderStatuses
  <2>3. order' \in [Requests -> OrderStatuses]
    BY <1>4, <2>2 DEF TypeOK, RecordAnswer
  <2>. QED
    BY <1>1, <1>4, <2>3 DEF TypeOK, RecordAnswer, Unqueued, queueVars
<1>. QED
  BY <1>2, <1>3, <1>4 DEF PlaceStep

LEMMA EndsType ==
    ASSUME TypeOK, NEW r \in Requests, NEW want \in Rows, Ends(r, want)
    PROVE  TypeOK'
<1>1. row' \in [Items -> Rows]
  BY CommitRows DEF Ends, Finish
<1>2. pc' \in [Requests -> Pcs]
  BY GotoType DEF Ends, Finish, Pcs, DispatchPcs
<1>3. seen' \in [Requests -> Rows]
  BY NoRowType DEF Ends, Finish, CloseSession, TypeOK
<1>. QED
  BY <1>1, <1>2, <1>3 DEF TypeOK, Ends, Finish, Commit, orderVars, envVars

LEMMA ApproveType ==
    ASSUME TypeOK, NEW r \in Requests, Approve(r), target[r] \in Items
    PROVE  TypeOK'
<1>. DEFINE want == [seen[r] EXCEPT !.status = "approved"]
<1>1. want \in Rows
  BY DEF TypeOK, Rows, Statuses
<1>2. row' \in [Items -> Rows]
  BY <1>1, CommitRows DEF Approve
<1>3. pc' \in [Requests -> Pcs]
  BY GotoType DEF Approve, Pcs
<1>. QED
  BY <1>2, <1>3 DEF TypeOK, Approve, Commit, orderVars, envVars

LEMMA KindType ==
    ASSUME TypeOK, Phases, Targets, NEW r \in Requests, Kind(r)
    PROVE  TypeOK'
<1>1. ASSUME NEW i \in Items, NEW intent \in Intents, NEW mode \in Modes,
             NEW expiry \in Expiries, CreateNew(r, i, intent, mode, expiry)
      PROVE  TypeOK'
  <2>1. StatusFor(intent, mode) \in Statuses
    BY StatusForType DEF Statuses
  <2>2. row' \in [Items -> Rows]
    BY <1>1, <2>1 DEF TypeOK, CreateNew, Rows
  <2>3. pc' \in [Requests -> Pcs]
    BY <1>1, GotoType DEF CreateNew, Pcs, DispatchPcs
  <2>. QED
    BY <1>1, <2>2, <2>3 DEF TypeOK, CreateNew, orderVars, envVars
<1>2. CASE TurnedAway(r)
  <2>1. pc' \in [Requests -> Pcs]
    BY <1>2, GotoType DEF TurnedAway, Pcs, DispatchPcs
  <2>. QED
    BY <1>2, <2>1 DEF TypeOK, TurnedAway, orderVars, envVars, queueVars
<1>3. ASSUME NEW i \in Items,
             NEW label \in {"update", "resolve", "cancel", "check"},
             Load(r, i, label)
      PROVE  TypeOK'
  <2>1. pc' \in [Requests -> Pcs]
    BY <1>3, GotoType DEF Load, Pcs
  <2>2. overlapped' \subseteq Requests
    BY <1>3 DEF TypeOK, Load, Meet
  <2>. QED
    BY <1>3, <2>1, <2>2 DEF TypeOK, Load, orderVars, envVars
<1>4. CASE PlaceNow(r) /\ Unqueued
  <2>1. pc' \in [Requests -> Pcs]
    BY <1>4, GotoType DEF PlaceNow, Pcs, DispatchPcs
  <2>. QED
    BY <1>4, <2>1 DEF TypeOK, PlaceNow, Unqueued, orderVars, queueVars
<1>5. CASE \E want \in Rows : Ends(r, want)
  BY <1>5, EndsType
<1>6. CASE Approve(r)
  <2>1. target[r] \in Items
    BY <1>6 DEF Approve, Targets, BeforeOrder
  <2>. QED
    BY <1>6, <2>1, ApproveType
<1>7. CASE Refresh(r)
  <2>1. target[r] \in Items
    BY <1>7 DEF Refresh, Targets, BeforeOrder
  <2>2. pc' \in [Requests -> Pcs]
    BY <1>7, GotoType DEF Refresh, Pcs, DispatchPcs
  <2>. QED
    BY <1>7, <2>1, <2>2 DEF TypeOK, Refresh, orderVars, envVars
<1>8. CASE PlaceStep(r) /\ Unqueued
  BY <1>8, PlaceStepType
<1>9. CASE Respond(r) /\ Unqueued
  <2>1. pc' \in [Requests -> Pcs]
    BY <1>9, GotoType DEF Respond, Pcs, DispatchPcs
  <2>. QED
    BY <1>9, <2>1 DEF TypeOK, Respond, Unqueued, orderVars, queueVars
<1>10. CASE Die(r)
  <2>1. pc' \in [Requests -> Pcs]
    BY <1>10, GotoType DEF Die, Abort, Pcs, DispatchPcs
  <2>2. seen' \in [Requests -> Rows]
    BY <1>10, NoRowType DEF TypeOK, Die, CloseSession
  <2>. QED
    BY <1>10, <2>1, <2>2 DEF TypeOK, Die, Abort, orderVars
<1>11. CASE FinalByNow(r)
  <2>1. pc' \in [Requests -> Pcs]
    BY <1>11, GotoType DEF FinalByNow, Pcs, DispatchPcs
  <2>2. seen' \in [Requests -> Rows]
    BY <1>11, NoRowType DEF TypeOK, FinalByNow, CloseSession
  <2>. QED
    BY <1>11, <2>1, <2>2 DEF TypeOK, FinalByNow, orderVars, envVars
<1>. QED
  BY <1>1, <1>2, <1>3, <1>4, <1>5, <1>6, <1>7, <1>8, <1>9, <1>10, <1>11
     DEF Kind

LEMMA EnvironmentType ==
    ASSUME TypeOK, Environment
    PROVE  TypeOK'
  BY DEF TypeOK, Environment, ToggleGate, Unqueued, SyncRegistry, Elapse,
         orderVars, queueVars

LEMMA StutterType ==
    ASSUME TypeOK, UNCHANGED vars
    PROVE  TypeOK'
  BY DEF TypeOK, vars, orderVars, queueVars, envVars

LEMMA NextType ==
    ASSUME TypeOK, Phases, Targets, [Next]_vars
    PROVE  TypeOK'
  BY NextKinds, KindType, EnvironmentType, StutterType

-----------------------------------------------------------------------------
(* A request's step leaves everything of the others alone, except the row  *)
(* they may share and the mark that they met.                              *)
LEMMA OthersUntouched ==
    ASSUME TypeOK, NEW r \in Requests, Kind(r),
           NEW q \in Requests, q # r
    PROVE  /\ pc'[q] = pc[q]
           /\ order'[q] = order[q]
           /\ answer'[q] = answer[q]
           /\ q \in held' <=> q \in held
           /\ target'[q] = target[q]
           /\ seen'[q] = seen[q]
<1>1. CASE PlaceStep(r) /\ Unqueued
  BY <1>1 DEF TypeOK, PlaceStep, InsertOrder, RefuseOrder, ClearOrder, Send,
              RecordAnswer, Unqueued, Goto, orderVars, queueVars
<1>2. CASE Die(r) \/ (\E want \in Rows : Ends(r, want)) \/ Approve(r)
           \/ Refresh(r) \/ FinalByNow(r)
  BY <1>2 DEF TypeOK, Die, Abort, Ends, Finish, Commit, CloseSession, Approve,
              Refresh, FinalByNow, Goto, orderVars
<1>3. CASE TurnedAway(r) \/ ((PlaceNow(r) \/ Respond(r)) /\ Unqueued)
  BY <1>3 DEF TypeOK, TurnedAway, PlaceNow, Respond, Unqueued, Goto,
              orderVars, queueVars
<1>4. CASE \/ \E i \in Items, intent \in Intents, mode \in Modes,
                 expiry \in Expiries : CreateNew(r, i, intent, mode, expiry)
           \/ \E i \in Items,
                 label \in {"update", "resolve", "cancel", "check"} :
                 Load(r, i, label)
  BY <1>4 DEF TypeOK, CreateNew, Load, Goto, orderVars
<1>. QED
  BY <1>1, <1>2, <1>3, <1>4 DEF Kind

(* Marks stay, and only a request that arrives is marked or gets a row.    *)
LEMMA OnlyArrivalsMeet ==
    ASSUME TypeOK, NEW r \in Requests, Kind(r), pc[r] # "idle"
    PROVE  overlapped' = overlapped /\ target' = target
<1>1. CASE PlaceStep(r) /\ Unqueued
  BY <1>1 DEF Unqueued, queueVars
<1>2. CASE Die(r) \/ (\E want \in Rows : Ends(r, want)) \/ Approve(r)
           \/ Refresh(r) \/ FinalByNow(r)
  BY <1>2 DEF Die, Ends, Finish, Commit, Approve, Refresh, FinalByNow
<1>3. CASE Respond(r) /\ Unqueued
  BY <1>3 DEF Unqueued, queueVars
<1>4. ~TurnedAway(r) /\ ~PlaceNow(r)
  BY DEF TurnedAway, PlaceNow
<1>5. ASSUME NEW i \in Items, NEW intent \in Intents, NEW mode \in Modes,
             NEW expiry \in Expiries
      PROVE  ~CreateNew(r, i, intent, mode, expiry)
  BY DEF CreateNew
<1>6. ASSUME NEW i \in Items, NEW label \in {"update", "resolve", "cancel",
                                             "check"}
      PROVE  ~Load(r, i, label)
  BY DEF Load
<1>. QED
  BY <1>1, <1>2, <1>3, <1>4, <1>5, <1>6 DEF Kind

-----------------------------------------------------------------------------
(* Phases. *)

LEMMA KindPhases ==
    ASSUME TypeOK, Phases, Targets, NEW r \in Requests, Kind(r)
    PROVE  Phases'
<1>. SUFFICES ASSUME NEW q \in Requests
              PROVE  /\ pc'[q] \in BeforeOrder
                        => order'[q] = "absent" /\ q \notin held'
                     /\ pc'[q] \in {"gate", "send"}
                        => order'[q] = "PENDING" /\ q \notin held'
                     /\ pc'[q] = "answered"
                        => /\ order'[q] = "PENDING"
                           /\ answer'[q] \in Answers
                           /\ answer'[q] = "ack" => q \in held'
                     /\ pc'[q] = "record" => order'[q] \in Log!Conclusions
                     /\ order'[q] = "ACKNOWLEDGED" => q \in held'
  BY DEF Phases, Log!Conclusions
<1>1. CASE q # r
  BY <1>1, OthersUntouched DEF Phases
<1>2. CASE q = r
  <2>0. /\ pc[r] \in BeforeOrder => order[r] = "absent" /\ r \notin held
        /\ pc[r] \in {"gate", "send"} => order[r] = "PENDING" /\ r \notin held
        /\ pc[r] = "answered" => /\ order[r] = "PENDING"
                                 /\ answer[r] \in Answers
                                 /\ answer[r] = "ack" => r \in held
        /\ pc[r] = "record" => order[r] \in Log!Conclusions
        /\ order[r] = "ACKNOWLEDGED" => r \in held
    BY DEF Phases
  <2>1. CASE InsertOrder(r) \/ RefuseOrder(r) \/ ClearOrder(r)
    BY <1>2, <2>0, <2>1 DEF TypeOK, InsertOrder, RefuseOrder, ClearOrder, Goto,
       orderVars, BeforeOrder, Log!Conclusions
  <2>2. CASE Send(r)
    BY <1>2, <2>0, <2>2 DEF TypeOK, Send, Goto, BeforeOrder
  <2>3. CASE RecordAnswer(r)
    BY <1>2, <2>0, <2>3 DEF TypeOK, RecordAnswer, Goto, BeforeOrder, Answers,
       Recorded, Log!Conclusions
  <2>4. CASE Die(r) \/ (\E want \in Rows : Ends(r, want)) \/ Approve(r)
             \/ Refresh(r) \/ FinalByNow(r)
    BY <1>2, <2>0, <2>4 DEF TypeOK, Die, Abort, Ends, Finish, Commit, Approve,
       Refresh, FinalByNow, Goto, orderVars, BeforeOrder
  <2>5. CASE TurnedAway(r) \/ ((PlaceNow(r) \/ Respond(r)) /\ Unqueued)
    BY <1>2, <2>0, <2>5 DEF TypeOK, TurnedAway, PlaceNow, Respond, Goto,
       orderVars, BeforeOrder
  <2>6. CASE \/ \E i \in Items, intent \in Intents, mode \in Modes,
                   expiry \in Expiries : CreateNew(r, i, intent, mode, expiry)
             \/ \E i \in Items,
                   label \in {"update", "resolve", "cancel", "check"} :
                   Load(r, i, label)
    BY <1>2, <2>0, <2>6 DEF TypeOK, CreateNew, Load, Goto, orderVars,
       BeforeOrder
  <2>. QED
    BY <2>1, <2>2, <2>3, <2>4, <2>5, <2>6 DEF Kind, PlaceStep
<1>. QED
  BY <1>1, <1>2

-----------------------------------------------------------------------------
(* What a step does to a row. *)

(* A row changes only by the step of a request that works on it, or that   *)
(* inserts it.                                                             *)
LEMMA RowChanges ==
    ASSUME TypeOK, Targets, NEW r \in Requests, Kind(r),
           NEW i \in Items, row'[i] # row[i]
    PROVE  \/ /\ pc[r] = "idle"
              /\ row[i].status = "absent"
              /\ target'[r] = i
              /\ row'[i].status \in {"blocked", "queued", "ready"}
              /\ row'[i].linked = None
           \/ Active(r, i) /\ Approve(r)
           \/ Active(r, i) /\ \E want \in Rows : Ends(r, want)
<1>1. ASSUME NEW j \in Items, NEW intent \in Intents, NEW mode \in Modes,
             NEW expiry \in Expiries, CreateNew(r, j, intent, mode, expiry)
      PROVE  /\ pc[r] = "idle"
             /\ row[i].status = "absent"
             /\ target'[r] = i
             /\ row'[i].status \in {"blocked", "queued", "ready"}
             /\ row'[i].linked = None
  BY <1>1, StatusForType DEF TypeOK, CreateNew
<1>2. ASSUME NEW want \in Rows, Ends(r, want)
      PROVE  Active(r, i)
  <2>1. Running(r) /\ target[r] \in Items
    BY <1>2 DEF Ends, Running
  <2>2. i = target[r]
    BY <1>2, <2>1, CommitRows DEF Ends, Finish
  <2>. QED
    BY <2>1, <2>2 DEF Active
<1>3. CASE Approve(r)
  <2>1. target[r] \in Items /\ Running(r)
    BY <1>3 DEF Approve, Targets, BeforeOrder, Running
  <2>2. [seen[r] EXCEPT !.status = "approved"] \in Rows
    BY DEF TypeOK, Rows, Statuses
  <2>3. i = target[r]
    BY <1>3, <2>1, <2>2, CommitRows DEF Approve
  <2>. QED
    BY <1>3, <2>1, <2>3 DEF Active
<1>4. CASE TurnedAway(r) \/ (PlaceNow(r) /\ Unqueued) \/ Refresh(r)
           \/ FinalByNow(r)
           \/ (PlaceStep(r) /\ Unqueued) \/ (Respond(r) /\ Unqueued) \/ Die(r)
  BY <1>4 DEF TurnedAway, Unqueued, Refresh, FinalByNow, Die, queueVars
<1>5. ASSUME NEW j \in Items,
             NEW label \in {"update", "resolve", "cancel", "check"},
             Load(r, j, label)
      PROVE  FALSE
  BY <1>5 DEF Load
<1>. QED
  BY <1>1, <1>2, <1>3, <1>4, <1>5 DEF Kind

LEMMA EndsRow ==
    ASSUME TypeOK, NEW r \in Requests, NEW want \in Rows, Ends(r, want)
    PROVE  /\ row'[target[r]].status =
                IF want.status # seen[r].status THEN want.status
                ELSE row[target[r]].status
           /\ row'[target[r]].linked =
                IF want.linked # seen[r].linked THEN want.linked
                ELSE row[target[r]].linked
  BY CommitRows DEF Ends, Finish

LEMMA ApproveRow ==
    ASSUME TypeOK, NEW r \in Requests, target[r] \in Items, Approve(r)
    PROVE  /\ row'[target[r]].status =
                IF seen[r].status # "approved" THEN "approved"
                ELSE row[target[r]].status
           /\ row'[target[r]].linked = row[target[r]].linked
           /\ row'[target[r]].intent = row[target[r]].intent
<1>. DEFINE want == [seen[r] EXCEPT !.status = "approved"]
<1>1. /\ want \in Rows
      /\ want.status = "approved"
      /\ want.linked = seen[r].linked
      /\ want.intent = seen[r].intent
  BY DEF TypeOK, Rows, Statuses
<1>2. Commit(r, want)
  BY DEF Approve
<1>. HIDE DEF want
<1>. QED
  BY <1>1, <1>2, CommitRows

LEMMA RowsStay ==
    ASSUME TypeOK, Targets, NEW r \in Requests, Kind(r),
           NEW i \in Items, row[i].status # "absent"
    PROVE  row'[i].status # "absent"
<1>1. CASE row'[i] = row[i]
  BY <1>1
<1>2. CASE Active(r, i) /\ Approve(r)
  BY <1>2, ApproveRow DEF Active
<1>3. ASSUME Active(r, i), NEW want \in Rows, Ends(r, want)
      PROVE  row'[i].status # "absent"
  BY <1>3, EndsRow DEF Active, Ends, Statuses
<1>. QED
  BY <1>1, <1>2, <1>3, RowChanges

-----------------------------------------------------------------------------
(* Targets. *)

LEMMA KindTargets ==
    ASSUME TypeOK, Targets, NEW r \in Requests, Kind(r)
    PROVE  Targets'
<1>. SUFFICES ASSUME NEW q \in Requests
              PROVE  /\ pc'[q] = "idle" => target'[q] = None
                     /\ pc'[q] \in BeforeOrder \ {"idle", "place"}
                        => target'[q] \in Items
                     /\ target'[q] \in Items
                        => row'[target'[q]].status # "absent"
  BY DEF Targets
<1>1. CASE q # r
  <2>1. target'[q] = target[q] /\ pc'[q] = pc[q]
    BY <1>1, OthersUntouched
  <2>. QED
    BY <2>1, RowsStay DEF Targets
<1>2. CASE q = r
  <2>1. CASE pc[r] # "idle"
    <3>1. target' = target
      BY <2>1, OnlyArrivalsMeet
    <3>2. target'[r] \in Items => row'[target'[r]].status # "absent"
      BY <3>1, RowsStay DEF Targets
    <3>3. pc'[r] # "idle"
      BY <2>1 DEF TypeOK, Kind, TurnedAway, CreateNew, Load, PlaceNow, Ends,
         Finish, Approve, Refresh, FinalByNow, PlaceStep, InsertOrder,
         RefuseOrder, ClearOrder, Send, RecordAnswer, Respond, Die, Abort, Goto
    <3>4. pc'[r] \in BeforeOrder \ {"idle", "place"} =>
             Refresh(r) \/ Approve(r)
      BY <2>1 DEF TypeOK, Kind, TurnedAway, CreateNew, Load, PlaceNow, Ends,
         Finish, PlaceStep, InsertOrder, RefuseOrder,
         ClearOrder, Send, RecordAnswer, Respond, Die, Abort, FinalByNow,
         Goto, BeforeOrder
    <3>5. Refresh(r) \/ Approve(r) => target[r] \in Items
      BY DEF Refresh, Approve, Targets, BeforeOrder
    <3>. QED
      BY <1>2, <3>1, <3>2, <3>3, <3>4, <3>5
  <2>2. CASE pc[r] = "idle"
    <3>0. target[r] = None
      BY <2>2 DEF Targets
    <3>1. ASSUME NEW i \in Items, NEW intent \in Intents, NEW mode \in Modes,
                 NEW expiry \in Expiries,
                 CreateNew(r, i, intent, mode, expiry)
          PROVE  /\ pc'[r] # "idle"
                 /\ target'[r] = i
                 /\ row'[i].status # "absent"
      BY <3>1, StatusForType DEF TypeOK, CreateNew, Goto
    <3>2. ASSUME NEW i \in Items,
                 NEW label \in {"update", "resolve", "cancel", "check"},
                 Load(r, i, label)
          PROVE  /\ pc'[r] # "idle"
                 /\ target'[r] = i
                 /\ row'[i].status # "absent"
      BY <3>2 DEF TypeOK, Load, Goto
    <3>3. ASSUME TurnedAway(r) \/ (PlaceNow(r) /\ Unqueued)
          PROVE  target'[r] \notin Items /\ pc'[r] \in {"done", "place"}
                 /\ target'[r] = None
      BY <3>0, <3>3, NoneAssumption DEF TypeOK, TurnedAway, PlaceNow, Goto,
         Unqueued, queueVars
    <3>4. \/ \E i \in Items, intent \in Intents, mode \in Modes,
                expiry \in Expiries : CreateNew(r, i, intent, mode, expiry)
          \/ TurnedAway(r)
          \/ \E i \in Items, label \in {"update", "resolve", "cancel",
                                        "check"} : Load(r, i, label)
          \/ PlaceNow(r) /\ Unqueued
          \/ Die(r)
      BY <2>2 DEF Kind, Ends, Approve, Refresh, FinalByNow, PlaceStep,
         InsertOrder, RefuseOrder, ClearOrder, Send, RecordAnswer, Respond
    <3>5. ~Die(r)
      BY <2>2 DEF Die, Abort, Running
    <3>6. CASE \E i \in Items : /\ pc'[r] # "idle"
                               /\ target'[r] = i
                               /\ row'[i].status # "absent"
      BY <1>2, <3>6
    <3>7. CASE TurnedAway(r) \/ (PlaceNow(r) /\ Unqueued)
      BY <1>2, <3>3, <3>7 DEF BeforeOrder
    <3>. QED
      BY <3>1, <3>2, <3>4, <3>5, <3>6, <3>7
  <2>. QED
    BY <2>1, <2>2
<1>. QED
  BY <1>1, <1>2

-----------------------------------------------------------------------------
(* Meetings. *)

(* A request gets onto a row only by arriving there. *)
LEMMA GetsActive ==
    ASSUME TypeOK, Targets, NEW r \in Requests, Kind(r),
           NEW q \in Requests, NEW i \in Items, Active(q, i)', ~Active(q, i)
    PROVE  /\ q = r
           /\ pc[r] = "idle"
           /\ \/ row[i].status = "absent"
              \/ \E label \in {"update", "resolve", "cancel", "check"} :
                    Load(r, i, label)
<1>1. q = r
  BY OthersUntouched DEF Active, Running
<1>2. pc[r] = "idle"
  <2>. SUFFICES ASSUME pc[r] # "idle" PROVE FALSE
    OBVIOUS
  <2>1. target' = target
    BY OnlyArrivalsMeet
  <2>2. pc[r] \in {"done", "aborted"}
    BY <1>1, <2>1 DEF Active, Running
  <2>. QED
    BY <2>2 DEF Kind, TurnedAway, CreateNew, Load, PlaceNow, Ends, Approve,
       Refresh, FinalByNow, PlaceStep, InsertOrder, RefuseOrder, ClearOrder,
       Send, RecordAnswer, Respond, Die, Abort, Running
<1>3. target'[r] = i
  BY <1>1 DEF Active
<1>4. target[r] = None
  BY <1>2 DEF Targets
<1>5. ASSUME NEW j \in Items, NEW intent \in Intents, NEW mode \in Modes,
             NEW expiry \in Expiries, CreateNew(r, j, intent, mode, expiry)
      PROVE  row[i].status = "absent"
  BY <1>3, <1>5 DEF TypeOK, CreateNew
<1>6. ASSUME NEW j \in Items,
             NEW label \in {"update", "resolve", "cancel", "check"},
             Load(r, j, label)
      PROVE  j = i
  BY <1>3, <1>6 DEF TypeOK, Load
<1>7. ~TurnedAway(r) /\ ~(PlaceNow(r) /\ Unqueued)
  BY <1>3, <1>4, NoneAssumption DEF TurnedAway, Unqueued, queueVars
<1>8. ~Die(r)
  BY <1>2 DEF Die, Abort, Running
<1>9. \/ \E j \in Items, intent \in Intents, mode \in Modes,
            expiry \in Expiries : CreateNew(r, j, intent, mode, expiry)
      \/ \E j \in Items, label \in {"update", "resolve", "cancel", "check"} :
            Load(r, j, label)
  BY <1>2, <1>7, <1>8 DEF Kind, Ends, Approve, Refresh, FinalByNow, PlaceStep,
     InsertOrder, RefuseOrder, ClearOrder, Send, RecordAnswer, Respond
<1>. QED
  BY <1>1, <1>2, <1>5, <1>6, <1>9

LEMMA MarksStay ==
    ASSUME TypeOK, NEW r \in Requests, Kind(r)
    PROVE  overlapped \subseteq overlapped'
<1>1. CASE pc[r] # "idle"
  BY <1>1, OnlyArrivalsMeet
<1>2. CASE pc[r] = "idle"
  <2>1. ~Die(r)
    BY <1>2 DEF Die, Abort, Running
  <2>. QED
    BY <1>2, <2>1 DEF Kind, CreateNew, TurnedAway, Load, Meet, PlaceNow,
       Unqueued, queueVars, Ends, Approve, Refresh, FinalByNow, PlaceStep,
       InsertOrder, RefuseOrder, ClearOrder, Send, RecordAnswer, Respond
<1>. QED
  BY <1>1, <1>2

LEMMA KindMeetings ==
    ASSUME TypeOK, Targets, Meetings, NEW r \in Requests, Kind(r)
    PROVE  Meetings'
<1>. SUFFICES ASSUME NEW p \in Requests, NEW q \in Requests, NEW i \in Items,
                     p # q, Active(p, i)', Active(q, i)'
              PROVE  p \in overlapped' /\ q \in overlapped'
  BY DEF Meetings, Active, Running
<1>1. CASE Active(p, i) /\ Active(q, i)
  BY <1>1, MarksStay DEF Meetings
<1>2. ASSUME NEW s \in Requests, NEW t \in Requests, s # t,
             Active(s, i)', Active(t, i)', ~Active(s, i)
      PROVE  s \in overlapped' /\ t \in overlapped'
  <2>1. s = r
    BY <1>2, GetsActive
  <2>2. Active(t, i)
    BY <1>2, <2>1, GetsActive
  <2>3. row[i].status # "absent"
    BY <2>2 DEF Targets, Active
  <2>4. PICK label \in {"update", "resolve", "cancel", "check"} :
              Load(r, i, label)
    BY <1>2, <2>1, <2>3, GetsActive
  <2>. QED
    BY <1>2, <2>1, <2>2, <2>4 DEF Load, Meet
<1>. QED
  BY <1>1, <1>2

-----------------------------------------------------------------------------
(* Alone. *)

(* A request that stays unmarked is not disturbed by another's step.       *)
LEMMA AloneUndisturbed ==
    ASSUME TypeOK, Targets, Meetings, NEW r \in Requests, Kind(r),
           NEW q \in Requests, q # r, q \notin overlapped,
           NEW i \in Items, Active(q, i)
    PROVE  row'[i] = row[i]
<1>1. row[i].status # "absent"
  BY DEF Targets, Active
<1>2. ~Active(r, i)
  BY DEF Meetings
<1>. QED
  BY <1>1, <1>2, RowChanges

LEMMA AloneOthers ==
    ASSUME TypeOK, Targets, Meetings, Alone, NEW r \in Requests, Kind(r),
           NEW q \in Requests, q # r,
           Running(q)', target'[q] \in Items, q \notin overlapped'
    PROVE  /\ row'[target'[q]].status \notin Final
           /\ pc'[q] \notin {"created", "approved"}
              => seen'[q] = row'[target'[q]]
           /\ pc'[q] \notin {"update", "resolve", "cancel", "created", "check"}
              => /\ row'[target'[q]].status = "approved"
                 /\ Validates(row'[target'[q]].intent)
<1>1. /\ pc'[q] = pc[q]
      /\ target'[q] = target[q]
      /\ seen'[q] = seen[q]
  BY OthersUntouched
<1>2. q \notin overlapped
  BY MarksStay
<1>3. Active(q, target[q]) /\ Running(q)
  BY <1>1 DEF Active, Running
<1>4. row'[target[q]] = row[target[q]]
  BY <1>1, <1>2, <1>3, AloneUndisturbed
<1>. QED
  BY <1>1, <1>2, <1>3, <1>4 DEF Alone

LEMMA AloneOwn ==
    ASSUME TypeOK, Targets, Alone, NEW r \in Requests, Kind(r),
           Running(r)', target'[r] \in Items, r \notin overlapped'
    PROVE  /\ row'[target'[r]].status \notin Final
           /\ pc'[r] \notin {"created", "approved"}
              => seen'[r] = row'[target'[r]]
           /\ pc'[r] \notin {"update", "resolve", "cancel", "created", "check"}
              => /\ row'[target'[r]].status = "approved"
                 /\ Validates(row'[target'[r]].intent)
<1>0. r \notin overlapped
  BY MarksStay
<1>1. ASSUME NEW i \in Items, NEW intent \in Intents, NEW mode \in Modes,
             NEW expiry \in Expiries, CreateNew(r, i, intent, mode, expiry)
      PROVE  /\ pc'[r] = "created"
             /\ row'[target'[r]].status \notin Final
  <2>1. pc'[r] = "created"
    BY <1>1 DEF TypeOK, CreateNew, Goto, Running
  <2>2. target'[r] = i /\ row'[i].status = StatusFor(intent, mode)
    BY <1>1 DEF TypeOK, CreateNew
  <2>. QED
    BY <2>1, <2>2, StatusForType DEF Final
<1>2. ASSUME NEW i \in Items,
             NEW label \in {"update", "resolve", "cancel", "check"},
             Load(r, i, label)
      PROVE  /\ pc'[r] = label
             /\ row'[target'[r]].status \notin Final
             /\ seen'[r] = row'[target'[r]]
  BY <1>2 DEF TypeOK, Load, Goto
<1>3. CASE Approve(r)
  <2>1. /\ target' = target
        /\ pc[r] = "check"
        /\ pc'[r] = "approved"
    BY <1>3 DEF TypeOK, Approve, Commit, Goto
  <2>2. seen[r] = row[target[r]]
    BY <1>0, <2>1 DEF Alone, Running
  <2>3. target[r] \in Items
    BY <2>1 DEF Targets, BeforeOrder
  <2>4. /\ row'[target[r]].status = "approved"
        /\ row'[target[r]].intent = row[target[r]].intent
    BY <1>3, <2>2, <2>3, ApproveRow
  <2>5. Validates(seen[r].intent)
    BY <1>3 DEF Approve, MayDispatch
  <2>. QED
    BY <2>1, <2>2, <2>4, <2>5 DEF Final
<1>4. CASE Refresh(r)
  <2>1. /\ target' = target
        /\ row' = row
        /\ seen'[r] = row[target[r]]
        /\ \/ pc[r] = "created" /\ pc'[r] = "check"
           \/ pc[r] = "approved" /\ pc'[r] = "place"
    BY <1>4 DEF TypeOK, Refresh, Goto
  <2>2. /\ row[target[r]].status \notin Final
        /\ pc[r] = "approved" => /\ row[target[r]].status = "approved"
                                 /\ Validates(row[target[r]].intent)
    BY <1>0, <2>1 DEF Alone, Running
  <2>. QED
    BY <2>1, <2>2
<1>5. CASE PlaceStep(r) /\ Unqueued
  <2>1. /\ target' = target
        /\ row' = row
        /\ seen' = seen
    BY <1>5 DEF Unqueued, queueVars
  <2>2. pc[r] \in {"place", "gate", "send", "answered"}
    BY <1>5 DEF PlaceStep, InsertOrder, RefuseOrder, ClearOrder, Send,
       RecordAnswer
  <2>3. /\ row[target[r]].status \notin Final
        /\ row[target[r]].status = "approved"
        /\ Validates(row[target[r]].intent)
        /\ seen[r] = row[target[r]]
    BY <1>0, <2>1, <2>2 DEF Alone, Running
  <2>. QED
    BY <2>1, <2>3
<1>6. CASE PlaceNow(r) /\ Unqueued
  <2>1. target'[r] = None
    BY <1>6 DEF Targets, PlaceNow, Unqueued, queueVars
  <2>. QED
    BY <2>1, NoneAssumption
<1>7. CASE TurnedAway(r) \/ (\E want \in Rows : Ends(r, want))
           \/ (Respond(r) /\ Unqueued) \/ Die(r) \/ FinalByNow(r)
  BY <1>7 DEF TypeOK, TurnedAway, Ends, Finish, Respond, Die, Abort,
     FinalByNow, Goto, Running
<1>8. CASE \E i \in Items, intent \in Intents, mode \in Modes,
              expiry \in Expiries : CreateNew(r, i, intent, mode, expiry)
  BY <1>1, <1>8
<1>9. CASE \E i \in Items, label \in {"update", "resolve", "cancel",
                                      "check"} : Load(r, i, label)
  BY <1>2, <1>9
<1>. QED
  BY <1>3, <1>4, <1>5, <1>6, <1>7, <1>8, <1>9 DEF Kind

LEMMA KindAlone ==
    ASSUME TypeOK, Targets, Meetings, Alone, NEW r \in Requests, Kind(r)
    PROVE  Alone'
  BY AloneOthers, AloneOwn DEF Alone, Running

-----------------------------------------------------------------------------
(* Settled. *)

LEMMA SettledStays ==
    ASSUME TypeOK, Targets, NEW r \in Requests, Kind(r),
           NEW i \in Items, row[i].status = "dispatched",
           \A q \in Requests : ~Active(q, i)
    PROVE  /\ row'[i] = row[i]
           /\ \A q \in Requests : ~Active(q, i)'
<1>1. row'[i] = row[i]
  BY RowChanges
<1>2. ASSUME NEW q \in Requests, Active(q, i)' PROVE FALSE
  <2>1. PICK label \in {"update", "resolve", "cancel", "check"} :
              Load(r, i, label)
    BY <1>2, GetsActive
  <2>. QED
    BY <2>1 DEF Load, Final
<1>. QED
  BY <1>1, <1>2

LEMMA KindSettled ==
    ASSUME TypeOK, Phases, Targets, Meetings, Alone, Settled,
           NEW r \in Requests, Kind(r)
    PROVE  Settled'
<1>. SUFFICES ASSUME NEW q \in Requests,
                     pc'[q] = "done",
                     order'[q] = "ACKNOWLEDGED",
                     NEW i \in Items, target'[q] = i,
                     q \notin overlapped'
              PROVE  /\ row'[i].status = "dispatched"
                     /\ \A s \in Requests : ~Active(s, i)'
  BY DEF Settled, Active, Running
<1>0. q \notin overlapped
  BY MarksStay
<1>1. CASE /\ pc[q] = "done"
           /\ order[q] = "ACKNOWLEDGED"
           /\ target[q] = i
  <2>1. /\ row[i].status = "dispatched"
        /\ \A s \in Requests : ~Active(s, i)
    BY <1>0, <1>1 DEF Settled
  <2>. QED
    BY <1>1, <2>1, SettledStays
<1>2. CASE q # r
  BY <1>1, <1>2, OthersUntouched
<1>3. ASSUME q = r, NEW want \in Rows, Ends(r, want)
      PROVE  /\ row'[i].status = "dispatched"
             /\ \A s \in Requests : ~Active(s, i)'
  <2>1. /\ target' = target
        /\ order' = order
        /\ pc[r] # "idle"
        /\ target[r] = i
        /\ Active(r, i)
    BY <1>3 DEF Ends, Finish, Commit, orderVars, Active, Running
  <2>2. pc[r] = "record"
    BY <1>3, <2>1 DEF Ends, Phases, BeforeOrder
  <2>3. seen[r] = row[i] /\ row[i].status = "approved"
    BY <1>0, <1>3, <2>1, <2>2 DEF Alone, Active
  <2>4. want.status = "dispatched"
    BY <1>3, <2>1, <2>2 DEF Ends
  <2>5. row'[i].status = "dispatched"
    BY <1>3, <2>1, <2>3, <2>4, EndsRow
  <2>6. ASSUME NEW s \in Requests, Active(s, i)' PROVE FALSE
    <3>1. Active(s, i)
      BY <1>3, <2>1, <2>6, GetsActive
    <3>2. s = r
      BY <1>0, <1>3, <2>1, <3>1 DEF Meetings
    <3>. QED
      BY <1>3, <2>6, <3>2 DEF Active, Running
  <2>. QED
    BY <1>3, <2>1, <2>5, <2>6
<1>4. ASSUME q = r, ~\E want \in Rows : Ends(r, want)
      PROVE  FALSE
  <2>1. CASE pc[r] = "idle"
    <3>1. order[r] = "absent"
      BY <2>1 DEF Phases, BeforeOrder
    <3>2. order' = order
      BY <1>4, <2>1 DEF Kind, CreateNew, TurnedAway, Load, PlaceNow, Approve,
         Refresh, FinalByNow, PlaceStep, InsertOrder, RefuseOrder, ClearOrder,
         Send, RecordAnswer, Respond, Die, Abort, Unqueued, orderVars
    <3>. QED
      BY <1>4, <3>1, <3>2
  <2>2. CASE FinalByNow(r)
    <3>1. order[r] = "absent" /\ order' = order
      BY <2>2 DEF Phases, BeforeOrder, FinalByNow, orderVars
    <3>. QED
      BY <1>4, <3>1
  <2>3. CASE pc[r] # "idle" /\ ~FinalByNow(r)
    <3>1. target' = target
      BY <2>3, OnlyArrivalsMeet
    <3>2. target[r] # None
      BY <1>4, <3>1, NoneAssumption
    <3>. QED
      BY <1>4, <2>3, <3>2 DEF TypeOK, Kind, CreateNew, TurnedAway, Load,
         PlaceNow, Approve, Refresh, PlaceStep, InsertOrder, RefuseOrder,
         ClearOrder, Send, RecordAnswer, Die, Abort, Goto
  <2>. QED
    BY <2>1, <2>2, <2>3
<1>. QED
  BY <1>2, <1>3, <1>4

-----------------------------------------------------------------------------
(* Dispatched rows and their orders. *)

(* Nothing about a request that found its row is taken back. *)
LEMMA Lasting ==
    ASSUME TypeOK, Phases, Targets, NEW r \in Requests, Kind(r),
           NEW q \in Requests
    PROVE  /\ order[q] \in Log!Conclusions => order'[q] = order[q]
           /\ q \in held => q \in held'
           /\ target[q] \in Items => target'[q] = target[q]
<1>1. CASE q # r
  BY <1>1, OthersUntouched
<1>2. CASE q = r
  <2>1. target[r] \in Items => target'[r] = target[r]
    BY OnlyArrivalsMeet, NoneAssumption DEF Targets
  <2>2. CASE PlaceStep(r) /\ Unqueued
    <3>1. pc[r] # "place" /\ order[r] # "PENDING" => FALSE
      BY <2>2 DEF PlaceStep, InsertOrder, RefuseOrder, ClearOrder, Send,
         RecordAnswer, Phases
    <3>2. order[r] \notin Log!Conclusions
      BY <3>1 DEF Phases, BeforeOrder, Log!Conclusions
    <3>3. r \in held => r \in held'
      BY <2>2 DEF PlaceStep, InsertOrder, RefuseOrder, ClearOrder, Send,
         RecordAnswer, orderVars
    <3>. QED
      BY <1>2, <2>1, <3>2, <3>3
  <2>3. CASE ~(PlaceStep(r) /\ Unqueued)
    <3>1. order' = order /\ held' = held
      BY <2>3 DEF Kind, CreateNew, TurnedAway, Load, PlaceNow, Ends, Finish,
         Commit, Approve, Refresh, FinalByNow, Respond, Die, Abort, orderVars
    <3>. QED
      BY <1>2, <2>1, <3>1
  <2>. QED
    BY <2>2, <2>3
<1>. QED
  BY <1>1, <1>2

LEMMA KindDispatched ==
    ASSUME TypeOK, Phases, Targets, DispatchedIsAcknowledged,
           NEW r \in Requests, Kind(r)
    PROVE  DispatchedIsAcknowledged'
<1>. SUFFICES ASSUME NEW i \in Items
              PROVE  /\ row'[i].status = "dispatched"
                        => \E q \in held' : /\ target'[q] = i
                                            /\ order'[q] = "ACKNOWLEDGED"
                     /\ \A q \in Requests :
                           row'[i].linked = q
                           => /\ target'[q] = i
                              /\ order'[q] \in Log!Conclusions
  BY DEF DispatchedIsAcknowledged
<1>0. held \subseteq Requests
  BY DEF TypeOK
<1>1. row[i].status = "dispatched"
      => \E q \in held' : target'[q] = i /\ order'[q] = "ACKNOWLEDGED"
  BY <1>0, Lasting DEF DispatchedIsAcknowledged, Log!Conclusions
<1>2. ASSUME NEW q \in Requests, row[i].linked = q
      PROVE  target'[q] = i /\ order'[q] \in Log!Conclusions
  BY <1>2, Lasting DEF DispatchedIsAcknowledged
<1>3. CASE row'[i] = row[i]
  BY <1>1, <1>2, <1>3
<1>4. CASE /\ row'[i].status \in {"blocked", "queued", "ready"}
           /\ row'[i].linked = None
  BY <1>4, NoneAssumption
<1>5. CASE Active(r, i) /\ Approve(r)
  <2>1. /\ row'[i].status \in {"approved", row[i].status}
        /\ row'[i].linked = row[i].linked
    BY <1>5, ApproveRow DEF Active
  <2>. QED
    BY <1>1, <1>2, <2>1
<1>6. ASSUME Active(r, i), NEW want \in Rows, Ends(r, want)
      PROVE  /\ row'[i].status = "dispatched"
                => \E q \in held' : /\ target'[q] = i
                                    /\ order'[q] = "ACKNOWLEDGED"
             /\ \A q \in Requests :
                   row'[i].linked = q
                   => target'[q] = i /\ order'[q] \in Log!Conclusions
  <2>1. /\ target' = target
        /\ order' = order
        /\ held' = held
        /\ target[r] = i
    BY <1>6 DEF Ends, Finish, Commit, orderVars, Active
  <2>2. /\ pc[r] = "record" => order[r] \in Log!Conclusions
        /\ order[r] = "ACKNOWLEDGED" => r \in held
    BY DEF Phases
  <2>3. \/ row'[i].status = row[i].status
        \/ /\ row'[i].status = want.status
           /\ want.status = "dispatched" => pc[r] = "record"
    BY <1>6, <2>1, EndsRow DEF Ends
  <2>4. pc[r] = "record"
        => (want.status = "dispatched" <=> order[r] = "ACKNOWLEDGED")
    BY <1>6 DEF Ends
  <2>5. \/ row'[i].linked = row[i].linked
        \/ row'[i].linked = r /\ pc[r] = "record"
    BY <1>6, <2>1, EndsRow DEF Ends
  <2>. QED
    BY <1>1, <1>2, <2>1, <2>2, <2>3, <2>4, <2>5
<1>. QED
  BY <1>3, <1>4, <1>5, <1>6, RowChanges

-----------------------------------------------------------------------------
(* Two orders of one row. *)

(* The part of SecondOrderExplained that speaks of one request. *)
Unexplained(r) ==
    /\ r \in held
    /\ r \notin overlapped
    /\ pc[r] # "aborted"
    /\ order[r] = "ACKNOWLEDGED"

LEMMA BecomesUnexplained ==
    ASSUME TypeOK, Phases, Targets, NEW r \in Requests, Kind(r),
           NEW q \in Requests, NEW i \in Items,
           Unexplained(q)', target'[q] = i,
           ~(Unexplained(q) /\ target[q] = i)
    PROVE  q = r /\ RecordAnswer(r) /\ Active(r, i)
<1>1. q \notin overlapped
  BY MarksStay DEF Unexplained
<1>2. q = r
  BY <1>1, OthersUntouched DEF Unexplained
<1>3. CASE RecordAnswer(r) /\ Unqueued
  BY <1>2, <1>3 DEF RecordAnswer, Unqueued, queueVars, Active, Running
<1>4. CASE ~(RecordAnswer(r) /\ Unqueued)
  <2>1. order'[r] = "ACKNOWLEDGED" => order[r] = "ACKNOWLEDGED"
    BY <1>4 DEF TypeOK, Kind, PlaceStep, InsertOrder, RefuseOrder,
       ClearOrder, Send, CreateNew, TurnedAway, Load, PlaceNow, Ends, Finish,
       Commit, Approve, Refresh, FinalByNow, Respond, Die, Abort, orderVars
  <2>2. order[r] = "ACKNOWLEDGED" /\ r \in held
    BY <1>2, <2>1 DEF Unexplained, Phases
  <2>3. pc[r] # "idle"
    BY <2>2 DEF Phases, BeforeOrder
  <2>4. target' = target
    BY <2>3, OnlyArrivalsMeet
  <2>5. pc[r] = "aborted"
    BY <1>1, <1>2, <2>2, <2>4 DEF Unexplained
  <2>6. FALSE
    BY <2>5, <1>2 DEF Kind, PlaceStep, InsertOrder, RefuseOrder, ClearOrder,
       Send, RecordAnswer, CreateNew, TurnedAway, Load, PlaceNow, Ends,
       Approve, Refresh, FinalByNow, Respond, Die, Abort, Running
  <2>. QED
    BY <2>6
<1>. QED
  BY <1>3, <1>4

LEMMA KindSecondOrder ==
    ASSUME IInv, NEW r \in Requests, Kind(r)
    PROVE  SecondOrderExplained'
<1>. USE DEF IInv
<1>. SUFFICES ASSUME NEW p \in Requests, NEW q \in Requests, NEW i \in Items,
                     p # q, target'[p] = i, target'[q] = i,
                     Unexplained(p)', Unexplained(q)'
              PROVE  FALSE
  <2>1. TypeOK'
    BY KindType
  <2>. QED
    BY <2>1 DEF SecondOrderExplained, Unexplained, TypeOK
<1>1. ~(/\ Unexplained(p) /\ target[p] = i
        /\ Unexplained(q) /\ target[q] = i)
  BY NoneAssumption DEF SecondOrderExplained, Unexplained
<1>2. ASSUME NEW s \in Requests, NEW t \in Requests, s # t,
             target'[s] = i, target'[t] = i,
             Unexplained(s)', Unexplained(t)',
             ~(Unexplained(s) /\ target[s] = i)
      PROVE  FALSE
  <2>1. s = r /\ Active(s, i)
    BY <1>2, BecomesUnexplained
  <2>2. Unexplained(t) /\ target[t] = i
    BY <1>2, <2>1, BecomesUnexplained
  <2>3. pc[t] # "done"
    BY <2>1, <2>2 DEF Settled, Unexplained
  <2>4. pc[t] # "idle"
    BY <2>2 DEF Phases, BeforeOrder, Unexplained
  <2>5. Active(t, i)
    BY <2>2, <2>3, <2>4 DEF Unexplained, Active, Running
  <2>6. t \in overlapped
    BY <1>2, <2>1, <2>5 DEF Meetings
  <2>. QED
    BY <2>2, <2>6 DEF Unexplained
<1>. QED
  BY <1>1, <1>2

-----------------------------------------------------------------------------
(* Approved rows. *)

(* A request keeps its row approved by refreshing it, by any step of the   *)
(* order it places, and by dying.                                          *)
LEMMA HolderStays ==
    ASSUME TypeOK, NEW r \in Requests, Kind(r),
           NEW q \in Requests, NEW i \in Items, target[q] = i,
           row[i].status = "approved",
           WillConclude(q) \/ pc[q] = "aborted",
           ~(q = r /\ \E want \in Rows : Ends(r, want))
    PROVE  target'[q] = i /\ (WillConclude(q) \/ pc[q] = "aborted")'
<1>1. CASE q # r
  BY <1>1, OthersUntouched DEF WillConclude
<1>2. CASE q = r
  <2>1. pc[r] # "idle"
    BY <1>2 DEF WillConclude, Concluding
  <2>2. target' = target
    BY <2>1, OnlyArrivalsMeet
  <2>3. CASE Refresh(r)
    <3>1. pc[r] = "approved"
      BY <1>2, <2>3 DEF Refresh, WillConclude, Concluding
    <3>2. pc'[r] = "place" /\ seen'[r] = row[i]
      BY <1>2, <2>3, <3>1 DEF TypeOK, Refresh, Goto
    <3>. QED
      BY <1>2, <2>2, <3>2 DEF WillConclude, Concluding
  <2>4. CASE PlaceStep(r) /\ Unqueued
    <3>1. pc[r] \in {"place", "gate", "send", "answered"}
      BY <2>4 DEF PlaceStep, InsertOrder, RefuseOrder, ClearOrder, Send,
         RecordAnswer
    <3>2. pc'[r] \in {"gate", "send", "answered", "record"}
      BY <2>4 DEF TypeOK, PlaceStep, InsertOrder, RefuseOrder, ClearOrder,
         Send, RecordAnswer, Goto
    <3>3. seen' = seen
      BY <2>4 DEF Unqueued, queueVars
    <3>. QED
      BY <1>2, <2>2, <3>1, <3>2, <3>3 DEF WillConclude, Concluding
  <2>5. CASE Die(r)
    BY <1>2, <2>2, <2>5 DEF TypeOK, Die, Abort, Goto
  <2>6. target[r] # None
    BY <1>2, NoneAssumption
  <2>7. \/ Refresh(r)
        \/ PlaceStep(r) /\ Unqueued
        \/ Die(r)
    BY <1>2, <2>1, <2>6 DEF Kind, WillConclude, Concluding, CreateNew,
       TurnedAway, Load, PlaceNow, Approve, FinalByNow
  <2>. QED
    BY <2>3, <2>4, <2>5, <2>7
<1>. QED
  BY <1>1, <1>2

LEMMA KindApproved ==
    ASSUME TypeOK, Targets, ApprovedIsHeld, NEW r \in Requests, Kind(r)
    PROVE  ApprovedIsHeld'
<1>. SUFFICES ASSUME NEW i \in Items, row'[i].status = "approved"
              PROVE  \E q \in Requests :
                        /\ target'[q] = i
                        /\ (WillConclude(q) \/ pc[q] = "aborted")'
  BY DEF ApprovedIsHeld, WillConclude
<1>1. CASE Active(r, i) /\ Approve(r)
  <2>1. target'[r] = i /\ pc'[r] = "approved"
    BY <1>1 DEF TypeOK, Active, Approve, Commit, Goto
  <2>. QED
    BY <2>1 DEF WillConclude
<1>2. CASE ~(Active(r, i) /\ Approve(r))
  <2>1. row[i].status = "approved"
    <3>1. ASSUME Active(r, i), NEW want \in Rows, Ends(r, want)
          PROVE  row[i].status = "approved"
      BY <3>1, EndsRow DEF Active, Ends
    <3>. QED
      BY <1>2, <3>1, RowChanges
  <2>2. PICK q \in Requests : /\ target[q] = i
                              /\ WillConclude(q) \/ pc[q] = "aborted"
    BY <2>1 DEF ApprovedIsHeld
  <2>3. ASSUME q = r, NEW want \in Rows, Ends(r, want)
        PROVE  FALSE
    <3>1. /\ pc[r] \in {"place", "record"}
          /\ seen[r].status = "approved"
      BY <2>2, <2>3 DEF Ends, WillConclude, Concluding
    <3>2. want.status # seen[r].status
      BY <2>3, <3>1 DEF Ends
    <3>3. row'[i].status = want.status
      BY <2>2, <2>3, <3>2, EndsRow
    <3>. QED
      BY <3>1, <3>2, <3>3
  <2>4. target'[q] = i /\ (WillConclude(q) \/ pc[q] = "aborted")'
    BY <2>1, <2>2, <2>3, HolderStays
  <2>. QED
    BY <2>4
<1>. QED
  BY <1>1, <1>2

-----------------------------------------------------------------------------
(* The inductive invariant. *)

LEMMA InitIInv == Init => IInv
<1>. SUFFICES ASSUME Init PROVE IInv
  OBVIOUS
<1>1. TypeOK
  BY InitTypeOK
<1>2. \A r \in Requests :
        /\ pc[r] = "idle"
        /\ order[r] = "absent"
        /\ target[r] = None
  BY DEF Init, DispatchInit
<1>3. held = {} /\ \A i \in Items : row[i] = NoRow
  BY DEF Init, DispatchInit
<1>4. Phases
  BY <1>2, <1>3 DEF Phases, BeforeOrder
<1>5. Targets
  BY <1>2, NoneAssumption DEF Targets, BeforeOrder
<1>6. Meetings /\ Alone /\ Settled
  BY <1>2 DEF Meetings, Alone, Settled, Active, Running
<1>7. DispatchedIsAcknowledged
  BY <1>3, NoneAssumption DEF DispatchedIsAcknowledged, NoRow
<1>8. SecondOrderExplained
  BY <1>3 DEF SecondOrderExplained
<1>9. ApprovedIsHeld
  BY <1>3 DEF ApprovedIsHeld, NoRow
<1>. QED
  BY <1>1, <1>4, <1>5, <1>6, <1>7, <1>8, <1>9 DEF IInv

LEMMA KindIInv ==
    ASSUME IInv, NEW r \in Requests, Kind(r)
    PROVE  IInv'
<1>1. TypeOK'
  BY KindType DEF IInv
<1>2. Phases'
  BY KindPhases DEF IInv
<1>3. Targets'
  BY KindTargets DEF IInv
<1>4. Meetings'
  BY KindMeetings DEF IInv
<1>5. Alone'
  BY KindAlone DEF IInv
<1>6. Settled'
  BY KindSettled DEF IInv
<1>7. DispatchedIsAcknowledged'
  BY KindDispatched DEF IInv
<1>8. SecondOrderExplained'
  BY KindSecondOrder
<1>9. ApprovedIsHeld'
  BY KindApproved DEF IInv
<1>. QED
  BY <1>1, <1>2, <1>3, <1>4, <1>5, <1>6, <1>7, <1>8, <1>9 DEF IInv

(* The environment writes none of the variables IInv relates. *)
LEMMA QuietIInv ==
    ASSUME IInv, Environment \/ UNCHANGED vars
    PROVE  IInv'
<1>1. TypeOK'
  BY EnvironmentType, StutterType DEF IInv
<1>2. UNCHANGED <<pc, order, answer, held, row, target, seen, overlapped>>
  BY DEF Environment, ToggleGate, Unqueued, SyncRegistry, Elapse, vars,
     orderVars, queueVars
<1>3. Phases' /\ Targets'
  BY <1>2 DEF IInv, Phases, Targets
<1>4. Meetings' /\ Alone' /\ Settled'
  BY <1>2 DEF IInv, Meetings, Alone, Settled, Active, Running
<1>5. DispatchedIsAcknowledged' /\ SecondOrderExplained'
  BY <1>2 DEF IInv, DispatchedIsAcknowledged, SecondOrderExplained
<1>6. ApprovedIsHeld'
  BY <1>2 DEF IInv, ApprovedIsHeld, WillConclude
<1>. QED
  BY <1>1, <1>3, <1>4, <1>5, <1>6 DEF IInv

LEMMA NextIInv == IInv /\ [Next]_vars => IInv'
<1>1. IInv => TypeOK /\ Targets
  BY DEF IInv
<1>. QED
  BY <1>1, NextKinds, KindIInv, QuietIInv

(* Every reachable state of the queue satisfies the inductive invariant,   *)
(* for any number of requests and rows.                                    *)
THEOREM Invariance == Spec => []IInv
<1>. QED
  BY InitIInv, NextIInv, PTL DEF Spec

-----------------------------------------------------------------------------
(* The properties of the queue. *)

(* The type invariant: every handler commits only the statuses, intents    *)
(* and links the columns are meant to hold.                                *)
THEOREM TypeCorrect == Spec => []TypeOK
<1>1. IInv => TypeOK
  BY DEF IInv
<1>. QED
  BY <1>1, Invariance, PTL

(* A dispatched row has an order the broker acknowledged, and a linked     *)
(* order was placed for the row (the end of execute_item).                 *)
THEOREM DispatchedCorrect == Spec => []DispatchedIsAcknowledged
<1>1. IInv => DispatchedIsAcknowledged
  BY DEF IInv
<1>. QED
  BY <1>1, Invariance, PTL

(* Two orders of one row at the broker have an explanation: requests that  *)
(* overlapped, one that died, or a failure reported to it.                 *)
THEOREM SecondOrderCorrect == Spec => []SecondOrderExplained
<1>1. IInv => SecondOrderExplained
  BY DEF IInv
<1>. QED
  BY <1>1, Invariance, PTL

(* An approved row always has a request that will conclude it or that died *)
(* on it: the way from the approve commit of execute_item to its last      *)
(* commit leaves no exit that forgets the row.                             *)
THEOREM ApprovedIsHeldCorrect == Spec => []ApprovedIsHeld
<1>1. IInv => ApprovedIsHeld
  BY DEF IInv
<1>. QED
  BY <1>1, Invariance, PTL

LEMMA StepLeavesFinal ==
    ASSUME IInv, [Next]_vars, NEW i \in Items,
           row[i].status \in Final, row'[i].status # row[i].status
    PROVE  \E r \in overlapped : target[r] = i /\ pc'[r] # pc[r]
<1>. USE DEF IInv
<1>1. PICK r \in Requests : Kind(r)
  <2>1. ~(Environment \/ UNCHANGED vars)
    BY DEF Environment, ToggleGate, Unqueued, SyncRegistry, Elapse, vars,
       queueVars
  <2>. QED
    BY <2>1, NextKinds
<1>2. Active(r, i) /\ (Approve(r) \/ \E want \in Rows : Ends(r, want))
  BY <1>1, RowChanges DEF Final
<1>3. r \in overlapped
  BY <1>2 DEF Alone, Active
<1>4. pc'[r] # pc[r]
  BY <1>2 DEF TypeOK, Approve, Ends, Finish, Goto
<1>. QED
  BY <1>2, <1>3, <1>4 DEF Active

(* A row that is cancelled or dispatched stays so unless requests overlap  *)
(* on it: the final check of every handler.                                *)
THEOREM FinalLeftCorrect == Spec => FinalLeftOnlyByRace
<1>1. IInv /\ [Next]_vars =>
        [\A i \in Items :
           /\ row[i].status \in Final
           /\ row'[i].status # row[i].status
           => \E r \in overlapped : target[r] = i /\ pc'[r] # pc[r]]_vars
  BY StepLeavesFinal
<1>. QED
  BY <1>1, Invariance, PTL DEF Spec, FinalLeftOnlyByRace

LEMMA StepSends ==
    ASSUME IInv, [Next]_vars, NEW r \in held' \ held,
           target[r] # None, r \notin overlapped
    PROVE  /\ row[target[r]].status = "approved"
           /\ Validates(row[target[r]].intent)
<1>. USE DEF IInv
<1>1. PICK q \in Requests : Send(q)
  <2>1. held' # held
    OBVIOUS
  <2>2. ~(Environment \/ UNCHANGED vars)
    BY <2>1 DEF Environment, ToggleGate, SyncRegistry, Elapse, vars, orderVars
  <2>3. PICK q \in Requests : Kind(q)
    BY <2>2, NextKinds
  <2>4. Send(q)
    BY <2>1, <2>3 DEF Kind, CreateNew, TurnedAway, Load, PlaceNow, Ends,
       Finish, Commit, Approve, Refresh, FinalByNow, PlaceStep, InsertOrder,
       RefuseOrder, ClearOrder, RecordAnswer, Respond, Die, Abort, orderVars
  <2>. QED
    BY <2>4
<1>2. r = q /\ pc[r] = "send" /\ r \in Requests
  BY <1>1 DEF Send
<1>3. target[r] \in Items
  BY <1>2 DEF TypeOK
<1>. QED
  BY <1>2, <1>3 DEF Alone, Running

(* A request alone on its row sends an order only for a row that says      *)
(* approved at that moment and still holds an intent that passes           *)
(* validation (execute_item's checks and its approve commit).              *)
THEOREM UnracedSendCorrect == Spec => UnracedSendIsApproved
<1>1. IInv /\ [Next]_vars =>
        [\A r \in held' \ held :
           target[r] # None /\ r \notin overlapped
           => /\ row[target[r]].status = "approved"
              /\ Validates(row[target[r]].intent)]_vars
  BY StepSends
<1>. QED
  BY <1>1, Invariance, PTL DEF Spec, UnracedSendIsApproved

LEMMA KindAdvances ==
    ASSUME TypeOK, Targets, NEW r \in Requests, Kind(r)
    PROVE  Advances(r)
<1>1. CASE PlaceStep(r)
  BY <1>1 DEF TypeOK, PlaceStep, InsertOrder, RefuseOrder, ClearOrder, Send,
     RecordAnswer, Goto, Advances, Stage
<1>2. CASE Approve(r) \/ Refresh(r) \/ FinalByNow(r) \/ TurnedAway(r)
           \/ PlaceNow(r)
           \/ Respond(r)
  BY <1>2 DEF TypeOK, Approve, Refresh, FinalByNow, TurnedAway, PlaceNow,
     Respond, Goto, Advances, Stage
<1>3. CASE \E want \in Rows : Ends(r, want)
  BY <1>3 DEF TypeOK, Ends, Finish, Goto, Advances, Stage
<1>4. CASE Die(r)
  <2>1. /\ pc[r] \in Pcs \ {"idle", "done", "aborted"}
        /\ pc'[r] = "aborted"
    BY <1>4 DEF TypeOK, Die, Abort, Running, Goto
  <2>. QED
    BY <2>1 DEF Pcs, DispatchPcs, Advances, Stage
<1>5. CASE \/ \E i \in Items, intent \in Intents, mode \in Modes,
                 expiry \in Expiries : CreateNew(r, i, intent, mode, expiry)
           \/ \E i \in Items,
                 label \in {"update", "resolve", "cancel", "check"} :
                 Load(r, i, label)
  BY <1>5 DEF TypeOK, CreateNew, Load, Goto, Advances, Stage
<1>. QED
  BY <1>1, <1>2, <1>3, <1>4, <1>5 DEF Kind

LEMMA StepAdvances ==
    ASSUME IInv, [Next]_vars, NEW r \in Requests,
           Step(r) \/ pc'[r] # pc[r]
    PROVE  Advances(r)
<1>1. TypeOK /\ Targets
  BY DEF IInv
<1>2. CASE Step(r)
  BY <1>1, <1>2, StepKinds, KindAdvances
<1>3. CASE pc'[r] # pc[r]
  <2>1. ~(Environment \/ UNCHANGED vars)
    BY <1>3 DEF Environment, ToggleGate, SyncRegistry, Elapse, vars
  <2>2. PICK q \in Requests : Kind(q)
    BY <1>1, <2>1, NextKinds
  <2>3. q = r
    BY <1>1, <1>3, <2>2, OthersUntouched
  <2>. QED
    BY <1>1, <2>2, <2>3, KindAdvances
<1>. QED
  BY <1>2, <1>3

(* A request's steps only ever take it further, so no handler of the queue *)
(* can go on for ever: what remains of the claim that approved rows are    *)
(* concluded is that a running thread is scheduled.                        *)
THEOREM AdvanceCorrect == Spec => EveryStepAdvances
<1>1. IInv /\ [Next]_vars =>
        [\A r \in Requests :
           Step(r) \/ pc'[r] # pc[r] => Advances(r)]_vars
  BY StepAdvances
<1>. QED
  BY <1>1, Invariance, PTL DEF Spec, EveryStepAdvances

-----------------------------------------------------------------------------
(* The queue implements the order log. *)

LEMMA PlaceStepLogs ==
    ASSUME TypeOK, Phases, NEW r \in Requests, PlaceStep(r)
    PROVE  Log!Next \/ UNCHANGED <<order, held>>
<1>1. CASE InsertOrder(r)
  <2>1. order[r] = "absent"
    BY <1>1 DEF InsertOrder, Phases, BeforeOrder
  <2>2. Log!Write(r)
    BY <1>1, <2>1 DEF InsertOrder, Log!Write
  <2>. QED
    BY <2>2 DEF Log!Next
<1>2. CASE RefuseOrder(r)
  <2>1. order[r] = "PENDING" /\ r \notin held
    BY <1>2 DEF RefuseOrder, Phases
  <2>2. Log!Conclude(r, "BLOCKED")
    BY <1>2, <2>1 DEF RefuseOrder, Log!Conclude
  <2>. QED
    BY <2>2 DEF Log!Next, Log!Conclusions
<1>3. CASE ClearOrder(r)
  BY <1>3 DEF ClearOrder, orderVars
<1>4. CASE Send(r)
  <2>1. order[r] = "PENDING" /\ r \notin held
    BY <1>4 DEF Send, Phases
  <2>2. Log!Accept(r) \/ UNCHANGED <<order, held>>
    BY <1>4, <2>1 DEF Send, Log!Accept
  <2>. QED
    BY <2>2 DEF Log!Next
<1>5. CASE RecordAnswer(r)
  <2>. DEFINE status == Recorded[answer[r]]
  <2>1. /\ order[r] = "PENDING"
        /\ answer[r] \in Answers
        /\ answer[r] = "ack" => r \in held
    BY <1>5 DEF RecordAnswer, Phases
  <2>2. /\ status \in {"ACKNOWLEDGED", "REJECTED", "DISPATCH_FAILED"}
        /\ status = "ACKNOWLEDGED" => answer[r] = "ack"
    BY <2>1 DEF Recorded, Answers
  <2>3. Log!Conclude(r, status)
    BY <1>5, <2>1, <2>2 DEF RecordAnswer, Log!Conclude
  <2>. QED
    BY <2>2, <2>3 DEF Log!Next, Log!Conclusions
<1>. QED
  BY <1>1, <1>2, <1>3, <1>4, <1>5 DEF PlaceStep

LEMMA StepLogs ==
    ASSUME IInv, [Next]_vars
    PROVE  [Log!Next]_<<order, held>>
<1>. USE DEF IInv
<1>1. CASE Environment \/ UNCHANGED vars
  BY <1>1 DEF Environment, ToggleGate, SyncRegistry, Elapse, vars, orderVars
<1>2. ASSUME NEW r \in Requests, Kind(r)
      PROVE  Log!Next \/ UNCHANGED <<order, held>>
  <2>1. CASE PlaceStep(r)
    BY <2>1, PlaceStepLogs
  <2>2. CASE ~PlaceStep(r)
    BY <1>2, <2>2 DEF Kind, CreateNew, TurnedAway, Load, PlaceNow, Ends,
       Finish, Commit, Approve, Refresh, FinalByNow, Respond, Die, Abort,
       orderVars
  <2>. QED
    BY <2>1, <2>2
<1>. QED
  BY <1>1, <1>2, NextKinds

(* However requests interleave and wherever they die, the orders table     *)
(* keeps the promises of OrderLog: every step of place_stock_order and     *)
(* place_fno_order is a step of the log or leaves it alone.                *)
THEOREM OrderLogImplemented == Spec => OrderLogSpec
<1>1. Init => Log!Init
  BY DEF Init, DispatchInit, Log!Init
<1>2. IInv /\ [Next]_vars => [Log!Next]_<<order, held>>
  BY StepLogs
<1>. QED
  BY <1>1, <1>2, Invariance, PTL DEF Spec, OrderLogSpec, Log!Spec
=============================================================================
