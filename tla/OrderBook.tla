----------------------------- MODULE OrderBook -----------------------------
(***************************************************************************)
(* The orders workspace: stored orders next to the brokers' order books.   *)
(*                                                                         *)
(* A look (list_workspace) shows both side by side and marks the orders    *)
(* whose row has fallen behind the broker. A pass (reconcile) writes what  *)
(* the brokers say over the rows and tells the operator each change of     *)
(* status. Both load the rows first, then ask one broker after the other   *)
(* over the network; a pass commits once at its end, each column that      *)
(* differs from what it loaded. Meanwhile orders are placed, the brokers   *)
(* work on them, and other passes run.                                     *)
(*                                                                         *)
(* An order is matched by its broker id only. The exchange id, which the   *)
(* code also looks at, is edited in place into the preview that an order   *)
(* is stored with (order_service.py:630, 874), so no UPDATE carries it and *)
(* no order that order_service has placed gets one. Rows that came without *)
(* a preview, which would get one by assignment, are left out.             *)
(***************************************************************************)
EXTENDS Integers, FiniteSets, Sequences

CONSTANTS
    Orders,     \* orders of the user
    Homes,      \* which broker the orders may go to, 1 or 2
    Reports,    \* what a broker may list of an order
    Refusals,   \* statuses of an order whose call has raised
    Requests,   \* requests being served, each a pass or a look
    PassLimit,  \* newest orders a pass loads (500)
    LookLimit,  \* newest orders a look loads
    EventLimit, \* changes a pass tells of (50)
    Tolerance   \* difference of average prices that is none (0.01)

Brokers == <<"angel", "zerodha">>

NoPrice == -1

Final == {"EXECUTED", "CANCELLED", "REJECTED"}

(* What _coerce_status makes of a broker's words. Those that only happen   *)
(* to equal another name of the enumeration (:58-60) are left out.         *)
Coerced == {"PENDING", "OPEN", "PARTIAL"} \cup Final

Statuses == Coerced \cup {"ACKNOWLEDGED", "DISPATCH_FAILED"}

(* How far the broker is with an order that shows this status. VALIDATING  *)
(* stands for the words _coerce_status does not know, and PENDING for      *)
(* "order received" too, which a broker says of what it has acknowledged.  *)
Rank == [s \in Statuses \cup {"VALIDATING", "none"} |->
            IF s \in Final THEN 4
            ELSE IF s = "PARTIAL" THEN 3
            ELSE IF s = "OPEN" THEN 2 ELSE 1]

Listings == [status : Coerced \cup {"VALIDATING"},
             avg : Nat \cup {NoPrice}, reason : BOOLEAN]

ASSUME OrdersAssumption == IsFiniteSet(Orders)

ASSUME HomesAssumption == Homes \subseteq [Orders -> {1, 2}]

ASSUME ReportsAssumption == Reports \subseteq Listings

ASSUME RefusalsAssumption == Refusals \subseteq {"REJECTED", "DISPATCH_FAILED"}

ASSUME LimitsAssumption ==
    /\ PassLimit \in Nat \ {0}
    /\ LookLimit \in Nat \ {0}
    /\ EventLimit \in Nat
    /\ Tolerance \in Nat

VARIABLES
    rows,    \* stored orders
    age,     \* their creation order, 0 for an order not stored yet
    home,    \* the broker each order goes to
    call,    \* where the request that places an order is
    book,    \* what the brokers would list now
    at,      \* where each pass and look is
    next,    \* the broker it asks next
    base,    \* the rows it has loaded
    got,     \* what the brokers have told it
    owed,    \* changes of status a pass has committed and not told yet
    heard    \* history: the status last told of each order, "unsure" once
             \* a change of it was not told, or told next to another's

placing == <<age, home, call>>
request == <<at, next, base, got>>
events == <<owed, heard>>
vars == <<rows, placing, book, request, events>>

Row == [status : Statuses, linked : BOOLEAN,
        avg : Nat \cup {NoPrice}, reason : BOOLEAN]

(* No row, or one that was not loaded. *)
NoRow == [status |-> "none", linked |-> FALSE, avg |-> NoPrice,
          reason |-> FALSE]

NotListed == [status |-> "none", avg |-> NoPrice, reason |-> FALSE]

Init ==
    /\ rows = [o \in Orders |-> NoRow]
    /\ age = [o \in Orders |-> 0]
    /\ home \in Homes
    /\ call = [o \in Orders |-> "new"]
    /\ book = [o \in Orders |-> NotListed]
    /\ at = [a \in Requests |-> "idle"]
    /\ next = [a \in Requests |-> 1]
    /\ base = [a \in Requests |-> rows]
    /\ got = [a \in Requests |-> book]
    /\ owed = [p \in Requests |-> {}]
    /\ heard = [o \in Orders |-> "none"]

Stored == {o \in Orders : age[o] > 0}

(* The newest n of some stored orders. *)
Newest(S, n) ==
    {o \in S : Cardinality({u \in S : age[u] > age[o]}) < n}

-----------------------------------------------------------------------------
(* The write-ahead row of an order, with its preview. *)
Submit(o) ==
    /\ call[o] = "new"
    /\ call' = [call EXCEPT ![o] = "calling"]
    /\ age' = [age EXCEPT ![o] = Cardinality(Stored) + 1]
    /\ rows' = [rows EXCEPT ![o] = [NoRow EXCEPT !.status = "PENDING"]]
    /\ UNCHANGED <<home, book, request, events>>

(* The broker takes the order. *)
Reach(o) ==
    /\ call[o] = "calling"
    /\ book[o] = NotListed
    /\ \E r \in Reports : book' = [book EXCEPT ![o] = r]
    /\ UNCHANGED <<rows, placing, request, events>>

(* The answer of the broker arrives and its order id is stored. The event  *)
(* that tells it follows in a transaction of its own: "unsure" stands for  *)
(* one that is lost, or so late that a pass has told of the order before.  *)
Acknowledge(o) ==
    /\ call[o] = "calling"
    /\ book[o] # NotListed
    /\ call' = [call EXCEPT ![o] = "over"]
    /\ rows' = [rows EXCEPT ![o].status = "ACKNOWLEDGED",
                            ![o].linked = TRUE,
                            ![o].reason = FALSE]
    /\ \E told \in {"ACKNOWLEDGED", "unsure"} :
        heard' = [heard EXCEPT ![o] = told]
    /\ UNCHANGED <<age, home, book, request, owed>>

(* The call raises, whether or not the broker has the order. An order that *)
(* the gate blocks ends without a broker id as well, and is left out.      *)
Refuse(o) ==
    /\ call[o] = "calling"
    /\ call' = [call EXCEPT ![o] = "over"]
    /\ \E s \in Refusals :
        rows' = [rows EXCEPT ![o].status = s, ![o].reason = TRUE]
    /\ UNCHANGED <<age, home, book, request, events>>

(* The request dies, or its acknowledgement cannot be committed. *)
Lose(o) ==
    /\ call[o] = "calling"
    /\ call' = [call EXCEPT ![o] = "over"]
    /\ UNCHANGED <<rows, age, home, book, request, events>>

(* The broker works on an order. *)
Advance(o) ==
    /\ book[o] # NotListed
    /\ book[o].status \notin Final
    /\ \E r \in Reports :
        /\ r # book[o]
        /\ Rank[r.status] >= Rank[book[o].status]
        /\ book' = [book EXCEPT ![o] = r]
    /\ UNCHANGED <<rows, placing, request, events>>

-----------------------------------------------------------------------------
(* Mutant: a price that is known already is kept, as a limit price is.     *)
TakenOnce(row, r) ==
    [row EXCEPT !.status = IF r.status \in Coerced THEN r.status ELSE @,
                !.avg = IF @ = NoPrice THEN r.avg ELSE @,
                !.reason = @ \/ r.reason]

(* Mutant: a status is taken over as the broker words it.                  *)
TakenUncoerced(row, r) ==
    [row EXCEPT !.status = r.status,
                !.avg = IF r.avg # NoPrice THEN r.avg ELSE @,
                !.reason = @ \/ r.reason]

(* A row with what the broker lists of the order. A status nobody knows    *)
(* and a price that is missing change nothing, nor does a missing reason.  *)
Taken(row, r) ==
    [row EXCEPT !.status = IF r.status \in Coerced THEN r.status ELSE @,
                !.avg = IF r.avg # NoPrice THEN r.avg ELSE @,
                !.reason = @ \/ r.reason]

Differs(a, b) == a - b > Tolerance \/ b - a > Tolerance

(* Mutant: a status nobody knows is a difference too.                      *)
NeedsReconciliationRaw(row, r) ==
    \/ row.status # r.status
    \/ row.avg # NoPrice /\ r.avg # NoPrice /\ Differs(row.avg, r.avg)
    \/ r.reason /\ ~row.reason

NeedsReconciliation(row, r) ==
    \/ r.status \in Coerced /\ row.status # r.status
    \/ row.avg # NoPrice /\ r.avg # NoPrice /\ Differs(row.avg, r.avg)
    \/ r.reason /\ ~row.reason

(* Mutant: an order without a broker id is matched by what it is for.       *)
MatchedByOrder(a) ==
    {o \in Orders : base[a][o] # NoRow /\ got[a][o] # NotListed}

Matched(a) == {o \in Orders : base[a][o].linked /\ got[a][o] # NotListed}

-----------------------------------------------------------------------------
Goto(a, label) == at' = [at EXCEPT ![a] = label]

(* The rows are loaded before any broker is asked. What each request takes *)
(* of them, by its limit and filter, is the same then and later (Newest).  *)
Load(a) ==
    /\ at[a] = "idle"
    /\ Goto(a, "ask")
    /\ base' = [base EXCEPT ![a] = rows]
    /\ UNCHANGED <<rows, placing, book, next, got, events>>

(* Nothing that was read is used any more. *)
Clear(a, label) ==
    /\ Goto(a, label)
    /\ next' = [next EXCEPT ![a] = 1]
    /\ base' = [base EXCEPT ![a] = [o \in Orders |-> NoRow]]
    /\ got' = [got EXCEPT ![a] = [o \in Orders |-> NotListed]]

(* Mutant: the rows are loaded again when the last broker has answered.    *)
AskReload(a) ==
    /\ at[a] = "ask"
    /\ next[a] \in DOMAIN Brokers
    /\ \E mine \in {{o \in Orders : home[o] = next[a]}, {}} :
        got' = [got EXCEPT ![a] =
                   [o \in Orders |-> IF o \in mine THEN book[o] ELSE @[o]]]
    /\ next' = [next EXCEPT ![a] = @ + 1]
    /\ base' = [base EXCEPT ![a] = IF next[a] = 2 THEN rows ELSE @]
    /\ UNCHANGED <<rows, placing, book, at, events>>

(* _fetch_external: the order book of one broker, or its error, which is   *)
(* reported and taken for an empty book.                                   *)
Ask(a) ==
    /\ at[a] = "ask"
    /\ next[a] \in DOMAIN Brokers
    /\ \E mine \in {{o \in Orders : home[o] = next[a]}, {}} :
        got' = [got EXCEPT ![a] =
                   [o \in Orders |-> IF o \in mine THEN book[o] ELSE @[o]]]
    /\ next' = [next EXCEPT ![a] = @ + 1]
    /\ UNCHANGED <<rows, placing, book, at, base, events>>

(* Two mappings carry the symbol of a listed order: one_or_none raises     *)
(* outside of the try, and the request fails with all it has fetched.      *)
Ambiguous(a) ==
    /\ at[a] = "ask"
    /\ next[a] \in DOMAIN Brokers
    /\ \E o \in Orders : home[o] = next[a] /\ book[o] # NotListed
    /\ Clear(a, "idle")
    /\ UNCHANGED <<rows, placing, book, events>>

Asked(a) == at[a] = "ask" /\ next[a] = Len(Brokers) + 1

Loaded(a) == {o \in Orders : base[a][o] # NoRow}

(* The orders a pass writes. *)
Reconciled(p) == Matched(p) \cap Newest(Loaded(p), PassLimit)

(* The row of an order as a pass would leave it, had nobody touched it.    *)
Wanted(p, o) ==
    IF o \in Reconciled(p) THEN Taken(base[p][o], got[p][o]) ELSE base[p][o]

(* An UPDATE names the columns that differ from the loaded ones.           *)
Written(stored, loaded, new) ==
    [stored EXCEPT
        !.status = IF new.status # loaded.status THEN new.status ELSE @,
        !.avg = IF new.avg # loaded.avg THEN new.avg ELSE @,
        !.reason = IF new.reason # loaded.reason THEN new.reason ELSE @]

(* Mutant: only orders that have come to their end are reported.           *)
FinalTransitions(p) ==
    {o \in Orders : /\ Wanted(p, o).status # base[p][o].status
                    /\ Wanted(p, o).status \in Final}

(* The changes of status a pass reports. *)
Transitions(p) == {o \in Orders : Wanted(p, o).status # base[p][o].status}

(* Mutant: a change is reported with the status it has left.               *)
ChangeFrom(p, o) == <<o, base[p][o].status>>

(* What is reported of a change: the status it has led to. *)
Change(p, o) == <<o, Wanted(p, o).status>>

(* The next three name no code: they only say which orders the history     *)
(* "heard" gives up. What is told of these need not end with their status, *)
(* as the change is beyond the limit or another pass has yet to tell one.  *)
OrdersOf(changes) == {c[1] : c \in changes}

OthersOwe(p) == OrdersOf(UNION {owed[q] : q \in Requests \ {p}})

Unsure(p, told) == Transitions(p) \ (told \ OthersOwe(p))

(* One transaction for all rows. The events of its changes follow, cut off *)
(* at the limit in the order of the brokers' answers, which is any order.  *)
Commit(p) ==
    /\ Asked(p)
    /\ rows' = [o \in Orders |->
                    Written(rows[o], base[p][o], Wanted(p, o))]
    /\ \E told \in SUBSET Transitions(p) :
        /\ \/ told = Transitions(p) /\ Cardinality(told) <= EventLimit
           \/ Cardinality(told) = EventLimit
        /\ owed' = [owed EXCEPT ![p] =
                       {Change(p, o) : o \in told}]
        /\ heard' = [o \in Orders |->
                        IF o \in Unsure(p, told) THEN "unsure" ELSE heard[o]]
    /\ Clear(p, "tell")
    /\ UNCHANGED <<placing, book>>

(* One event of a change, in a transaction of its own. *)
Tell(p) ==
    /\ at[p] = "tell"
    /\ \E c \in owed[p] :
        /\ heard' = [heard EXCEPT ![c[1]] = IF @ = "unsure" THEN @ ELSE c[2]]
        /\ owed' = [owed EXCEPT ![p] = @ \ {c}]
    /\ UNCHANGED <<rows, placing, book, request>>

EndPass(p) ==
    /\ at[p] = "tell"
    /\ owed[p] = {}
    /\ Clear(p, "idle")
    /\ UNCHANGED <<rows, placing, book, events>>

(* The request dies, or the database fails under it. *)
Die(p) ==
    /\ at[p] # "idle"
    /\ Clear(p, "idle")
    /\ owed' = [owed EXCEPT ![p] = {}]
    /\ heard' = [o \in Orders |->
                    IF o \in OrdersOf(owed[p]) THEN "unsure" ELSE heard[o]]
    /\ UNCHANGED <<rows, placing, book>>

-----------------------------------------------------------------------------
(* What the database finds for a look that filters by a status. *)
Found(l, filter) ==
    Newest({o \in Loaded(l) : filter \in {"any", base[l][o].status}},
           LookLimit)

Item(o, origin, state, status) ==
    [order |-> o, origin |-> origin, state |-> state, status |-> status]

CoercedTo(status, other) == IF status \in Coerced THEN status ELSE other

(* Mutant: rows of the user are listed whether or not they were matched.    *)
OwnItemsAll(l, filter, mode) ==
    IF mode = "broker_only" THEN {} ELSE
    {Item(o, "sigmatrader", "internal_only", base[l][o].status) :
        o \in Found(l, filter)}

MergedItems(l, filter, mode) ==
    IF mode # "merged" THEN {} ELSE
    {Item(o, "merged",
          IF NeedsReconciliation(base[l][o], got[l][o])
             THEN "unresolved" ELSE "matched",
          CoercedTo(got[l][o].status, base[l][o].status)) :
        o \in Matched(l) \cap Found(l, filter)}

OwnItems(l, filter, mode) ==
    IF mode = "broker_only" THEN {} ELSE
    {Item(o, "sigmatrader", "internal_only", base[l][o].status) :
        o \in Found(l, filter) \
              (IF mode = "merged" THEN Matched(l) ELSE {})}

ForeignItems(l, filter, mode) ==
    IF mode = "internal_only" THEN {} ELSE
    {Item(o, "broker_external", "broker_only",
          CoercedTo(got[l][o].status, "none")) :
        o \in {o \in Orders : got[l][o] # NotListed} \
              (IF mode = "merged" THEN Matched(l) \cap Found(l, filter)
                                  ELSE {})}

Shown(l, filter, mode) ==
    {i \in MergedItems(l, filter, mode) \cup OwnItems(l, filter, mode)
               \cup ForeignItems(l, filter, mode) :
        filter \in {"any", i.status}}

EndLook(l) ==
    /\ Asked(l)
    /\ Clear(l, "idle")
    /\ UNCHANGED <<rows, placing, book, events>>

-----------------------------------------------------------------------------
Next ==
    \/ \E o \in Orders : \/ Submit(o) \/ Reach(o) \/ Acknowledge(o)
                         \/ Refuse(o) \/ Lose(o) \/ Advance(o)
    \/ \E a \in Requests : \/ Load(a) \/ Ask(a) \/ Ambiguous(a)
                           \/ Commit(a) \/ Tell(a) \/ EndPass(a)
                           \/ Die(a) \/ EndLook(a)

Spec == Init /\ [][Next]_vars

-----------------------------------------------------------------------------
(* Values have their types. *)
TypeOK ==
    /\ rows \in [Orders -> Row \cup {NoRow}]
    /\ age \in [Orders -> Nat]
    /\ home \in [Orders -> {1, 2}]
    /\ call \in [Orders -> {"new", "calling", "over"}]
    /\ book \in [Orders -> Reports \cup {NotListed}]
    /\ at \in [Requests -> {"idle", "ask", "tell"}]
    /\ next \in [Requests -> 1..3]
    /\ base \in [Requests -> [Orders -> Row \cup {NoRow}]]
    /\ got \in [Requests -> [Orders -> Reports \cup {NotListed}]]
    /\ owed \in [Requests -> SUBSET (Orders \X Statuses)]
    /\ heard \in [Orders -> Statuses \cup {"none", "unsure"}]

(* A stored status is one the broker has reached: rows and what requests   *)
(* hold of them lag behind the broker, in the order they were read.        *)
RowsLag ==
    \A o \in Orders :
        /\ call[o] = "new" => rows[o] = NoRow
        /\ rows[o].linked =>
               /\ call[o] = "over"
               /\ book[o] # NotListed
               /\ Rank[rows[o].status] <= Rank[book[o].status]

ReadingsLag ==
    \A a \in Requests, o \in Orders :
        /\ base[a][o].linked =>
               /\ rows[o].linked
               /\ Rank[base[a][o].status] <= Rank[book[o].status]
        /\ at[a] = "idle" => got[a][o] = NotListed
        /\ got[a][o] # NotListed =>
               /\ book[o] # NotListed
               /\ Rank[got[a][o].status] <= Rank[book[o].status]
               /\ base[a][o].linked =>
                    Rank[base[a][o].status] <= Rank[got[a][o].status]

(* A change is owed by one pass, and the row has moved to its status. *)
DebtsAreClear ==
    \A p \in Requests : \A c \in owed[p] :
        /\ at[p] = "tell"
        /\ rows[c[1]].linked
        /\ heard[c[1]] # "unsure" =>
               /\ rows[c[1]].status = c[2]
               /\ c[1] \notin OthersOwe(p)

(* What the operator has been told of an acknowledged order, in events, is *)
(* its status: unless a pass has yet to tell it, or one died before it had *)
(* told it, told only the first of many, or told it while another pass     *)
(* was telling of the same order; or its acknowledgement was told late.    *)
HeardIsStored ==
    \A o \in Orders :
        (/\ rows[o].linked
         /\ heard[o] # "unsure"
         /\ \A p \in Requests : o \notin OrdersOf(owed[p])) =>
            heard[o] = rows[o].status

(* While its request runs, an order is PENDING without a broker id, and    *)
(* every other order that is stored was submitted before.                  *)
CallsPend ==
    \A o \in Orders :
        /\ call[o] = "new" <=> age[o] = 0
        /\ call[o] = "calling" =>
               rows[o].status = "PENDING" /\ ~rows[o].linked

IInv ==
    /\ TypeOK
    /\ RowsLag
    /\ ReadingsLag
    /\ DebtsAreClear
    /\ HeardIsStored
    /\ CallsPend

(* An order a look marks as unresolved is one that a pass would change,    *)
(* and would leave settled; one it shows as matched keeps its status.      *)
MarkedIsMendable ==
    \A l \in Requests : Asked(l) =>
        \A i \in Shown(l, "any", "merged") :
            LET row == base[l][i.order]
                mended == Taken(row, got[l][i.order])
            IN  /\ i.state = "unresolved" =>
                       /\ mended # row
                       /\ ~NeedsReconciliation(mended, got[l][i.order])
                /\ i.state = "matched" => mended.status = row.status

(* A look at everything shows each order that is stored or listed, and     *)
(* shows it twice, as the user's and as foreign, only if it had no broker  *)
(* id when it was loaded or the limit left it out.                         *)
ShownOnce ==
    \A l \in Requests : Asked(l) =>
        LET shown == Shown(l, "any", "merged")
            limited == Cardinality(Loaded(l)) > LookLimit
        IN  \A o \in Orders :
            LET items == {i \in shown : i.order = o}
            IN  /\ got[l][o] # NotListed => items # {}
                /\ o \in Loaded(l) /\ ~limited => items # {}
                /\ \A i, j \in items : i # j => ~base[l][o].linked

Commits(p) == at[p] = "ask" /\ at'[p] = "tell"

(* The status of an acknowledged order moves backwards only when a pass    *)
(* writes over a row that changed after the pass had loaded it.            *)
BackwardIsOvertaken ==
    [][\A o \in Orders :
        (rows[o].linked /\ Rank[rows'[o].status] < Rank[rows[o].status]) =>
            \E p \in Requests : Commits(p) /\ base[p][o] # rows[o]]_vars

(* A pass leaves no order to reconcile: each order it matched, whose row   *)
(* nobody has changed since it was loaded, agrees with the broker's answer *)
(* as far as a look would tell.                                            *)
PassSettles ==
    [][\A p \in Requests : Commits(p) =>
        \A o \in Reconciled(p) :
            base[p][o] = rows[o] =>
                ~NeedsReconciliation(rows'[o], got[p][o])]_vars

(* An order whose request ended without a broker id is out of the reach of *)
(* every pass, though the broker may have executed it.                     *)
LostStaysLost ==
    [][\A o \in Orders :
        (call[o] = "over" /\ ~rows[o].linked) => rows'[o] = rows[o]]_vars

(* How an order was concluded. Once it has a broker id, its status belongs *)
(* to the reconciliation.                                                  *)
LoggedStatus(o) ==
    IF age[o] = 0 THEN "absent"
    ELSE IF rows[o].linked THEN "ACKNOWLEDGED" ELSE rows[o].status

Log == INSTANCE OrderLog WITH
    order <- [o \in Orders |-> LoggedStatus(o)],
    held <- {o \in Orders : book[o] # NotListed}

(* Next to passes and looks, the orders keep the promises of the log: the  *)
(* broker receives what is stored as PENDING only, an order is concluded   *)
(* once, and acknowledged if the broker has it. A pass concludes nothing   *)
(* by itself: it moves the status of orders that have a broker id, and     *)
(* leaves them the id.                                                     *)
OrderLogSpec == Log!Spec
=============================================================================
