--------------------------- MODULE PositionLedger ---------------------------
(***************************************************************************)
(* PositionService: the local ledger row of one user, broker and           *)
(* instrument, moved by the orders the broker acknowledges (apply_order)   *)
(* and overwritten by syncs with the broker's position book.               *)
(*                                                                         *)
(* Both read the row with an unlocked SELECT, decide on the copy, and      *)
(* commit later. The row is unique, orders refer to it by foreign key, and *)
(* an UPDATE names only the columns that differ from the copy. What an     *)
(* order commits (its acknowledgement, its link, the row's change) it      *)
(* commits at once, so an exception loses the acknowledgement too.         *)
(***************************************************************************)
EXTENDS Integers

CONSTANTS
    Orders,    \* requests that place an order for the instrument
    Syncs,     \* threads that sync, again and again
    Deltas,    \* signed quantities of orders
    Nets,      \* signed quantities the broker reports for a product
    Products   \* the broker reports a row per product

ASSUME ActorsAssumption == Orders \cap Syncs = {}

ASSUME DeltasAssumption == Deltas \subseteq Int \ {0}

ASSUME NetsAssumption == Nets \subseteq Int

VARIABLES
    pc,        \* where each request is
    order,     \* orders.status
    delta,     \* signed quantity of each order
    link,      \* orders.linked_position_id, NoLink for NULL
    pos,       \* the committed row, NoPos when there is none
    lastId,    \* the last positions.id handed out
    copy,      \* the row each request has read
    snap,      \* the broker's rows each sync has fetched: product |-> net
    mixed,     \* history: requests that read while another was undecided
    clean,     \* history: no mixed request wrote since the last sync alone
    expected   \* history: what the last sync alone reported plus what
               \* orders have added since

ledgerVars == <<pos, lastId>>
orderVars == <<order, delta, link>>
historyVars == <<mixed, clean, expected>>
vars == <<pc, orderVars, ledgerVars, copy, snap, historyVars>>

NoLink == 0

NoPos == [id |-> NoLink, side |-> "BUY", qty |-> 0]

Actors == Orders \cup Syncs

Snapshots == UNION {[listed -> Nets] : listed \in SUBSET Products}

Empty == [p \in {} |-> 0]

Side(net) == IF net > 0 THEN "BUY" ELSE "SELL"

Size(net) == IF net > 0 THEN net ELSE -net

Signed(row) == IF row.side = "BUY" THEN row.qty ELSE -row.qty

Init ==
    /\ pc = [a \in Actors |-> "idle"]
    /\ order = [r \in Orders |-> "absent"]
    /\ delta = [r \in Orders |-> 0]
    /\ link = [r \in Orders |-> NoLink]
    /\ pos = NoPos
    /\ lastId = 0
    /\ copy = [a \in Actors |-> NoPos]
    /\ snap = [s \in Syncs |-> Empty]
    /\ mixed = {}
    /\ clean = TRUE
    /\ expected = 0

Goto(a, label) == pc' = [pc EXCEPT ![a] = label]

(* What UPDATE leaves in a row read as old when want is to be stored. *)
Merge(old, want) ==
    [pos EXCEPT !.side = IF want.side # old.side THEN want.side ELSE pos.side,
                !.qty = IF want.qty # old.qty THEN want.qty ELSE pos.qty]

(* Mutant: closed rows are left out of the query. *)
FoundOpen == IF pos.qty = 0 THEN NoPos ELSE pos

(* SELECT ... WHERE user, broker, canonical id. *)
Found == pos

(* a reads the row, and is undecided about it until it commits. *)
Read(a) ==
    LET others == {b \in Actors \ {a} : pc[b] = "read"}
    IN  /\ copy' = [copy EXCEPT ![a] = Found]
        /\ mixed' = (mixed \ {a}) \cup others
                        \cup (IF others = {} THEN {} ELSE {a})
        /\ Goto(a, "read")

-----------------------------------------------------------------------------
(* INSERT of the order row, PENDING. A squareoff or reverse draft carries  *)
(* the id of the position it was made from.                                *)
Place(r) ==
    /\ pc[r] = "idle"
    /\ \E d \in Deltas, k \in {NoLink, pos.id} :
        /\ delta' = [delta EXCEPT ![r] = d]
        /\ link' = [link EXCEPT ![r] = k]
    /\ order' = [order EXCEPT ![r] = "PENDING"]
    /\ Goto(r, "sent")
    /\ UNCHANGED <<ledgerVars, copy, snap, historyVars>>

(* The draft's position is gone: the foreign key refuses the INSERT. *)
PlaceDangling(r) ==
    /\ pc[r] = "idle"
    /\ \E k \in 1..lastId : k # pos.id
    /\ Goto(r, "done")
    /\ UNCHANGED <<orderVars, ledgerVars, copy, snap, historyVars>>

(* The gate or the broker refuses: the ledger is not touched. *)
Refuse(r) ==
    /\ pc[r] = "sent"
    /\ order' = [order EXCEPT ![r] = "refused"]
    /\ Goto(r, "done")
    /\ UNCHANGED <<delta, link, ledgerVars, copy, snap, historyVars>>

(* The adapter returns a broker order id. *)
Accept(r) ==
    /\ pc[r] = "sent"
    /\ Goto(r, "accepted")
    /\ UNCHANGED <<orderVars, ledgerVars, copy, snap, historyVars>>

ReadForOrder(r) ==
    /\ pc[r] = "accepted"
    /\ Read(r)
    /\ UNCHANGED <<orderVars, ledgerVars, snap, clean, expected>>

(* Mutant: the side of the row is left out of the sum. *)
NetUnsigned(r) == copy[r].qty + delta[r]

Net(r) == Signed(copy[r]) + delta[r]

(* Mutant: no foreign key, as after the migrations on sqlite. *)
LinkedNever(id) == FALSE

Linked(id) == \E r \in Orders : link[r] = id

(* The commit of order r with the row it leaves linked. *)
Acknowledge(r, id) ==
    /\ order' = [order EXCEPT ![r] = "ACKNOWLEDGED"]
    /\ link' = [link EXCEPT ![r] = id]
    /\ clean' = (clean /\ r \notin mixed)
    /\ expected' = expected + delta[r]
    /\ Goto(r, "done")
    /\ copy' = [copy EXCEPT ![r] = NoPos]
    /\ UNCHANGED <<delta, snap, mixed>>

Deciding(r) == r \in Orders /\ pc[r] = "read"

Open(r) ==
    /\ Deciding(r)
    /\ copy[r] = NoPos
    /\ pos = NoPos
    /\ pos' = [id |-> lastId + 1, side |-> Side(delta[r]),
               qty |-> Size(delta[r])]
    /\ lastId' = lastId + 1
    /\ Acknowledge(r, lastId + 1)

Change(r) ==
    /\ Deciding(r)
    /\ copy[r] # NoPos
    /\ Net(r) # 0
    /\ pos.id = copy[r].id
    /\ pos' = Merge(copy[r], [side |-> Side(Net(r)), qty |-> Size(Net(r))])
    /\ Acknowledge(r, pos.id)
    /\ UNCHANGED lastId

(* The row is deleted at net zero; if it is gone already, nothing is. *)
Close(r) ==
    /\ Deciding(r)
    /\ copy[r] # NoPos
    /\ Net(r) = 0
    /\ pos.id = copy[r].id => ~Linked(pos.id)
    /\ pos' = IF pos.id = copy[r].id THEN NoPos ELSE pos
    /\ Acknowledge(r, NoLink)
    /\ UNCHANGED lastId

(* The row has appeared (unique index), has gone (no row to update), or    *)
(* cannot go because an order refers to it (foreign key). The exception    *)
(* leaves the request after the broker has accepted the order: the         *)
(* session rolls back and the order stays PENDING without a broker id.     *)
Fail(r) ==
    /\ Deciding(r)
    /\ \/ copy[r] = NoPos /\ pos # NoPos
       \/ copy[r] # NoPos /\ Net(r) # 0 /\ pos.id # copy[r].id
       \/ copy[r] # NoPos /\ Net(r) = 0 /\ pos.id = copy[r].id /\ Linked(pos.id)
    /\ Goto(r, "failed")
    /\ UNCHANGED <<orderVars, ledgerVars, copy, snap, historyVars>>

Die(r) ==
    /\ pc[r] \in {"sent", "accepted", "read"}
    /\ Goto(r, "died")
    /\ UNCHANGED <<orderVars, ledgerVars, copy, snap, historyVars>>

-----------------------------------------------------------------------------
(* fetch_positions. What the broker lists, it lists: fills lag, and trades *)
(* are made elsewhere.                                                     *)
Fetch(s) ==
    /\ pc[s] \in {"idle", "synced"}
    /\ \E rows \in Snapshots : snap' = [snap EXCEPT ![s] = rows]
    /\ Goto(s, "fetched")
    /\ UNCHANGED <<orderVars, ledgerVars, copy, historyVars>>

ReadForSync(s) ==
    /\ pc[s] = "fetched"
    /\ Read(s)
    /\ UNCHANGED <<orderVars, ledgerVars, snap, clean, expected>>

(* Mutant: a row with net 0 is taken like the others. *)
TradedAll(s) == DOMAIN snap[s]

(* Products with a row that _upsert does not skip. *)
Traded(s) == {p \in DOMAIN snap[s] : snap[s][p] # 0}

EndSync(s, label) ==
    /\ Goto(s, label)
    /\ copy' = [copy EXCEPT ![s] = NoPos]
    /\ snap' = [snap EXCEPT ![s] = Empty]
    /\ mixed' = mixed \ {s}
    /\ UNCHANGED orderVars

(* A sync that overwrites the ledger's net and was alone restores it. *)
Overwrite(s, net) ==
    /\ clean' = (s \notin mixed)
    /\ expected' = net
    /\ EndSync(s, "synced")

(* One product is traded, and the row is inserted. *)
SyncOpen(s) ==
    /\ pc[s] = "read"
    /\ copy[s] = NoPos
    /\ pos = NoPos
    /\ \E p \in Traded(s) :
        /\ Traded(s) = {p}
        /\ pos' = [id |-> lastId + 1, side |-> Side(snap[s][p]),
                   qty |-> Size(snap[s][p])]
        /\ lastId' = lastId + 1
        /\ Overwrite(s, snap[s][p])

(* Every product's row overwrites the one before it: the last one stays. *)
SyncChange(s) ==
    /\ pc[s] = "read"
    /\ copy[s] # NoPos
    /\ pos.id = copy[s].id
    /\ \E p \in Traded(s) :
        /\ pos' = Merge(copy[s], [side |-> Side(snap[s][p]),
                                  qty |-> Size(snap[s][p])])
        /\ Overwrite(s, snap[s][p])
    /\ UNCHANGED lastId

(* The broker does not list the instrument: the row stays, with quantity 0. *)
SyncClose(s) ==
    /\ pc[s] = "read"
    /\ DOMAIN snap[s] = {}
    /\ copy[s].qty > 0
    /\ pos.id = copy[s].id
    /\ pos' = Merge(copy[s], [copy[s] EXCEPT !.qty = 0])
    /\ Overwrite(s, 0)
    /\ UNCHANGED lastId

(* Nothing to write: not listed and not open, or listed with net 0 only. *)
SyncSkip(s) ==
    /\ pc[s] = "read"
    /\ Traded(s) = {}
    /\ DOMAIN snap[s] # {} \/ copy[s].qty = 0
    /\ EndSync(s, "synced")
    /\ UNCHANGED <<ledgerVars, clean, expected>>

(* The row has appeared, is to be inserted twice, or has gone; or the      *)
(* thread dies, or the fetch fails.                                        *)
SyncFails(s) ==
    /\ pc[s] \in {"fetched", "read"}
    /\ EndSync(s, "idle")
    /\ UNCHANGED <<ledgerVars, clean, expected>>

-----------------------------------------------------------------------------
OrderStep(r) ==
    \/ Place(r)
    \/ PlaceDangling(r)
    \/ Refuse(r)
    \/ Accept(r)
    \/ ReadForOrder(r)
    \/ Open(r)
    \/ Change(r)
    \/ Close(r)
    \/ Fail(r)
    \/ Die(r)

SyncStep(s) ==
    \/ Fetch(s)
    \/ ReadForSync(s)
    \/ SyncOpen(s)
    \/ SyncChange(s)
    \/ SyncClose(s)
    \/ SyncSkip(s)
    \/ SyncFails(s)

Next ==
    \/ \E r \in Orders : OrderStep(r)
    \/ \E s \in Syncs : SyncStep(s)

Spec == Init /\ [][Next]_vars

-----------------------------------------------------------------------------
Positions == [id : Nat, side : {"BUY", "SELL"}, qty : Nat]

TypeOK ==
    /\ pc \in [Actors -> {"idle", "sent", "accepted", "fetched", "read",
                          "done", "failed", "died", "synced"}]
    /\ order \in [Orders -> {"absent", "PENDING", "refused", "ACKNOWLEDGED"}]
    /\ delta \in [Orders -> Int]
    /\ link \in [Orders -> Nat]
    /\ pos \in Positions
    /\ lastId \in Nat
    /\ copy \in [Actors -> Positions]
    /\ snap \in [Syncs -> Snapshots]
    /\ mixed \subseteq Actors
    /\ clean \in BOOLEAN
    /\ expected \in Int

(* The ledger is what the last sync reported plus what orders have added   *)
(* since, as long as no request wrote on a reading another had overtaken;  *)
(* and one sync that is alone with the row heals whatever went before.     *)
LedgerIsSum == clean => Signed(pos) = expected

(* When the ledger loses an acknowledgement, the request had shared the    *)
(* row with another, or its order squares off a row that some order is     *)
(* linked to: apply_order deletes that row, and the foreign key keeps it.  *)
LostAckExplained ==
    \A r \in Orders :
        pc[r] = "failed" =>
            \/ r \in mixed
            \/ /\ copy[r] # NoPos
               /\ Net(r) = 0
               /\ pos.id = copy[r].id
               /\ Linked(pos.id)

(* A sync that nothing disturbed leaves what the broker reports: the side  *)
(* and the quantity of one of the open products it lists, never of two; a  *)
(* closed row for an instrument it does not list; and the row as it was    *)
(* for one it lists as closed only (the case SyncFollowsBroker is about).  *)
SyncLeavesReported ==
    [][\A s \in Syncs :
          pc[s] = "read" /\ pc'[s] = "synced" /\ s \notin mixed =>
              LET listed == DOMAIN snap[s]
                  open == {p \in listed : snap[s][p] # 0}
              IN  /\ open # {} => \E p \in open : Signed(pos') = snap[s][p]
                  /\ listed = {} => pos'.qty = 0
                  /\ open = {} /\ listed # {} => pos' = pos]_vars

-----------------------------------------------------------------------------
(* Requests that are undecided about the row at one time are marked. *)
Windows ==
    \A a, b \in Actors :
        a # b /\ pc[a] = "read" /\ pc[b] = "read" => a \in mixed /\ b \in mixed

(* An undecided request that is not marked holds the row as it is. *)
Current ==
    \A a \in Actors : pc[a] = "read" /\ a \notin mixed => copy[a] = pos

(* A row has an id that was handed out. *)
Numbered ==
    /\ pos.id <= lastId
    /\ pos.id = NoLink => pos = NoPos
    /\ \A a \in Actors : copy[a].id = NoLink => copy[a] = NoPos

(* The foreign key: a link is to the row there is, and whoever has read    *)
(* the row with such a link has read that one.                             *)
LinksResolve ==
    \A r \in Orders :
        link[r] # NoLink =>
            /\ link[r] = pos.id
            /\ pc[r] # "idle"
            /\ pc[r] = "read" => copy[r].id = pos.id

(* The reachable states of the ledger, as far as its properties need them. *)
IInv ==
    /\ TypeOK
    /\ Windows
    /\ Current
    /\ Numbered
    /\ LinksResolve
    /\ LedgerIsSum
    /\ LostAckExplained

-----------------------------------------------------------------------------
(* An order the broker has acknowledged is recorded as acknowledged,       *)
(* unless the process dies or another request was at the row meanwhile:    *)
(* place_stock_order and place_fno_order have no other way to end after    *)
(* the adapter has returned an id.                                         *)
AckIsRecorded ==
    \A r \in Orders : pc[r] = "failed" => r \in mixed

(* A sync that is alone with the row leaves the net the broker reports for *)
(* an instrument listed under one product: "Uses broker as the truth for   *)
(* net positions" (position_service.py:178).                               *)
SyncFollowsBroker ==
    [][\A s \in Syncs :
          /\ pc[s] = "read" /\ pc'[s] = "synced" /\ s \notin mixed
          => \A p \in DOMAIN snap[s] :
                DOMAIN snap[s] = {p} => Signed(pos') = snap[s][p]]_vars
=============================================================================
