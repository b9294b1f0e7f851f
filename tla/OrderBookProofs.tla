--------------------------- MODULE OrderBookProofs ---------------------------
(***************************************************************************)
(* OrderBook for any number of orders, requests and reports, and any       *)
(* limits.                                                                 *)
(*                                                                         *)
(* The argument: a broker only moves on, and what was read earlier lags    *)
(* behind what was read later (RowsLag, ReadingsLag), so that only a write *)
(* over a changed row can move it back. What is owed to the operator is    *)
(* owed by one request, at the row's status (DebtsAreClear), so that the   *)
(* last word told is the row's.                                            *)
(***************************************************************************)
EXTENDS OrderBook, FiniteSetTheorems, TLAPS

AnyRow == [status : Statuses \cup {"none"}, linked : BOOLEAN,
           avg : Nat \cup {NoPrice}, reason : BOOLEAN]

-----------------------------------------------------------------------------
(* Records *)

LEMMA RowFacts ==
    /\ NoRow \in AnyRow
    /\ ~NoRow.linked /\ NoRow.status = "none"
    /\ \A r \in Row \cup {NoRow} : r \in AnyRow /\ (r.linked => r \in Row)
<1>1. NoRow \in AnyRow /\ ~NoRow.linked /\ NoRow.status = "none"
  BY DEF NoRow, AnyRow
<1>2. ASSUME NEW r \in Row
      PROVE  r \in AnyRow
  BY <1>2 DEF Row, AnyRow
<1>. QED
  BY <1>1, <1>2

LEMMA ListingFacts ==
    ASSUME NEW r \in Reports
    PROVE  /\ r.status \in Coerced \cup {"VALIDATING"}
           /\ r.avg \in Nat \cup {NoPrice}
           /\ r.reason \in BOOLEAN
           /\ r # NotListed
  BY ReportsAssumption
     DEF Listings, NotListed, NoPrice, Coerced, Final

LEMMA RankFacts ==
    /\ \A s \in Statuses \cup {"VALIDATING", "none"} : Rank[s] \in 1..4
    /\ \A s \in Statuses \cup {"VALIDATING"} : Rank["ACKNOWLEDGED"] <= Rank[s]
    /\ Coerced \subseteq Statuses
  BY DEF Rank, Statuses, Coerced, Final

LEMMA ReportRank ==
    ASSUME NEW r \in Reports
    PROVE  Rank[r.status] \in 1..4 /\ Rank["ACKNOWLEDGED"] <= Rank[r.status]
<1>1. r.status \in Statuses \cup {"VALIDATING"}
  BY ListingFacts, RankFacts
<1>. QED
  BY <1>1, RankFacts

LEMMA TakenFacts ==
    ASSUME NEW row \in Row, NEW r \in Reports
    PROVE  /\ Taken(row, r) \in Row
           /\ Taken(row, r).linked = row.linked
           /\ Taken(row, r).status =
                IF r.status \in Coerced THEN r.status ELSE row.status
           /\ Taken(row, r).avg = IF r.avg # NoPrice THEN r.avg ELSE row.avg
           /\ Taken(row, r).reason = (row.reason \/ r.reason)
  BY ListingFacts, RankFacts DEF Taken, Row

LEMMA WrittenSame ==
    ASSUME NEW stored \in AnyRow, NEW x
    PROVE  Written(stored, x, x) = stored
  BY DEF Written, AnyRow

LEMMA WrittenFacts ==
    ASSUME NEW stored \in Row, NEW loaded \in Row, NEW new \in Row
    PROVE  /\ Written(stored, loaded, new) \in Row
           /\ Written(stored, loaded, new).linked = stored.linked
           /\ Written(stored, loaded, new).status =
                IF new.status # loaded.status
                   THEN new.status ELSE stored.status
           /\ Written(stored, loaded, new).avg =
                IF new.avg # loaded.avg THEN new.avg ELSE stored.avg
           /\ Written(stored, loaded, new).reason =
                IF new.reason # loaded.reason
                   THEN new.reason ELSE stored.reason
  BY DEF Written, Row

(* What a pass takes from a report lies between the row and the report. *)
LEMMA TakenRank ==
    ASSUME NEW row \in Row, NEW r \in Reports,
           Rank[row.status] <= Rank[r.status]
    PROVE  /\ Rank[row.status] <= Rank[Taken(row, r).status]
           /\ Rank[Taken(row, r).status] <= Rank[r.status]
<1>1. Rank[row.status] \in 1..4 /\ Rank[r.status] \in 1..4
  BY RankFacts, ReportRank DEF Row
<1>. QED
  BY <1>1, TakenFacts

-----------------------------------------------------------------------------
(* The state at a commit *)

LEMMA ReconciledFacts ==
    ASSUME TypeOK, RowsLag, ReadingsLag,
           NEW p \in Requests, NEW o \in Reconciled(p)
    PROVE  /\ o \in Orders
           /\ base[p][o].linked /\ base[p][o] \in Row
           /\ rows[o].linked /\ rows[o] \in Row
           /\ got[p][o] \in Reports
           /\ Rank[base[p][o].status] <= Rank[got[p][o].status]
           /\ Rank[got[p][o].status] <= Rank[book[o].status]
           /\ Wanted(p, o) = Taken(base[p][o], got[p][o])
<1>1. o \in Orders /\ base[p][o].linked /\ got[p][o] # NotListed
  BY DEF Reconciled, Matched
<1>2. base[p][o] \in Row \cup {NoRow} /\ rows[o] \in Row \cup {NoRow}
      /\ got[p][o] \in Reports \cup {NotListed}
  BY <1>1 DEF TypeOK
<1>3. rows[o].linked
  BY <1>1 DEF ReadingsLag
<1>4. base[p][o] \in Row /\ rows[o] \in Row
  BY <1>1, <1>2, <1>3, RowFacts
<1>5. /\ Rank[base[p][o].status] <= Rank[got[p][o].status]
      /\ Rank[got[p][o].status] <= Rank[book[o].status]
  BY <1>1 DEF ReadingsLag
<1>. QED
  BY <1>1, <1>2, <1>3, <1>4, <1>5 DEF Wanted

LEMMA NotReconciled ==
    ASSUME TypeOK, NEW p \in Requests, NEW o \in Orders,
           o \notin Reconciled(p)
    PROVE  /\ Written(rows[o], base[p][o], Wanted(p, o)) = rows[o]
           /\ o \notin Transitions(p)
<1>1. Wanted(p, o) = base[p][o]
  BY DEF Wanted
<1>2. rows[o] \in AnyRow
  BY RowFacts DEF TypeOK
<1>. QED
  BY <1>1, <1>2, WrittenSame DEF Transitions

(* What a commit does to a row. *)
LEMMA CommitRow ==
    ASSUME TypeOK, RowsLag, ReadingsLag,
           NEW p \in Requests, Commit(p), NEW o \in Orders
    PROVE  /\ rows'[o] \in Row \cup {NoRow}
           /\ rows'[o].linked = rows[o].linked
           /\ o \notin Transitions(p) => rows'[o].status = rows[o].status
           /\ o \in Transitions(p) =>
                /\ o \in Reconciled(p)
                /\ rows'[o].linked
                /\ rows'[o].status = Wanted(p, o).status
                /\ Wanted(p, o).status \in Statuses
                /\ Rank[rows'[o].status] <= Rank[book[o].status]
           /\ ~rows[o].linked => rows'[o] = rows[o]
<1>1. rows'[o] = Written(rows[o], base[p][o], Wanted(p, o))
  BY DEF Commit
<1>2. CASE o \notin Reconciled(p)
  <2>1. rows'[o] = rows[o] /\ o \notin Transitions(p)
    BY <1>1, <1>2, NotReconciled
  <2>. QED
    BY <2>1 DEF TypeOK
<1>3. CASE o \in Reconciled(p)
  <2>1. /\ base[p][o] \in Row /\ rows[o] \in Row /\ rows[o].linked
        /\ got[p][o] \in Reports
        /\ Rank[base[p][o].status] <= Rank[got[p][o].status]
        /\ Rank[got[p][o].status] <= Rank[book[o].status]
        /\ Wanted(p, o) = Taken(base[p][o], got[p][o])
    BY <1>3, ReconciledFacts
  <2>2. Wanted(p, o) \in Row
    BY <2>1, TakenFacts
  <2>3. /\ rows'[o] \in Row /\ rows'[o].linked = rows[o].linked
        /\ rows'[o].status = IF Wanted(p, o).status # base[p][o].status
                                THEN Wanted(p, o).status ELSE rows[o].status
    <3>. DEFINE w == Written(rows[o], base[p][o], Wanted(p, o))
    <3>1. w \in Row
      BY <2>1, <2>2, WrittenFacts
    <3>2. w.linked = rows[o].linked
      BY <2>1, <2>2, WrittenFacts
    <3>3. w.status = IF Wanted(p, o).status # base[p][o].status
                        THEN Wanted(p, o).status ELSE rows[o].status
      BY <2>1, <2>2, WrittenFacts
    <3>. HIDE DEF w
    <3>4. rows'[o] = w
      BY <1>1 DEF w
    <3>. QED
      BY <3>1, <3>2, <3>3, <3>4
  <2>4. o \in Transitions(p) <=> Wanted(p, o).status # base[p][o].status
    BY DEF Transitions
  <2>5. Rank[Wanted(p, o).status] <= Rank[got[p][o].status]
    BY <2>1, TakenRank
  <2>6. /\ Rank[Wanted(p, o).status] \in 1..4
        /\ Rank[got[p][o].status] \in 1..4
        /\ Wanted(p, o).status \in Statuses
    BY <2>1, <2>2, RankFacts, ReportRank DEF Row
  <2>7. rows[o].linked => Rank[book[o].status] \in 1..4
    <3>1. rows[o].linked => book[o] \in Reports
      BY DEF RowsLag, TypeOK
    <3>. QED
      BY <3>1, ReportRank
  <2>8. Rank[Wanted(p, o).status] <= Rank[book[o].status]
    BY <2>1, <2>5, <2>6, <2>7
  <2>. QED
    BY <1>3, <2>1, <2>3, <2>4, <2>6, <2>8
<1>. QED
  BY <1>2, <1>3

-----------------------------------------------------------------------------
(* Types *)

LEMMA PlacingType ==
    ASSUME TypeOK, RowsLag, NEW o \in Orders,
           Submit(o) \/ Acknowledge(o) \/ Refuse(o) \/ Lose(o)
    PROVE  TypeOK'
<1>. USE DEF placing, request, events
<1>1. rows[o] \in Row \cup {NoRow}
  BY DEF TypeOK
<1>2. CASE Submit(o)
  <2>1. [NoRow EXCEPT !.status = "PENDING"] \in Row
    BY DEF NoRow, Row, Statuses, Coerced
  <2>2. rows' \in [Orders -> Row \cup {NoRow}]
    BY <1>2, <2>1 DEF Submit, TypeOK
  <2>3. IsFiniteSet(Stored)
    BY OrdersAssumption, FS_Subset DEF Stored
  <2>4. age' \in [Orders -> Nat]
    <3>1. Cardinality(Stored) \in Nat
      BY <2>3, FS_CardinalityType
    <3>. QED
      BY <1>2, <3>1 DEF Submit, TypeOK
  <2>5. call' \in [Orders -> {"new", "calling", "over"}]
    BY <1>2 DEF Submit, TypeOK
  <2>. QED
    BY <1>2, <2>2, <2>4, <2>5 DEF Submit, TypeOK
<1>3. CASE Acknowledge(o)
  <2>1. rows[o].avg \in Nat \cup {NoPrice}
    BY <1>1 DEF Row, NoRow
  <2>2. [rows[o] EXCEPT !.status = "ACKNOWLEDGED", !.linked = TRUE,
                        !.reason = FALSE] \in Row
    BY <1>1, <2>1 DEF Row, NoRow, Statuses
  <2>3. rows' = [rows EXCEPT ![o] =
                   [rows[o] EXCEPT !.status = "ACKNOWLEDGED",
                                   !.linked = TRUE, !.reason = FALSE]]
    BY <1>3 DEF Acknowledge, TypeOK
  <2>4. rows' \in [Orders -> Row \cup {NoRow}]
    BY <2>2, <2>3 DEF TypeOK
  <2>5. /\ call' \in [Orders -> {"new", "calling", "over"}]
        /\ heard' \in [Orders -> Statuses \cup {"none", "unsure"}]
    BY <1>3 DEF Acknowledge, TypeOK, Statuses
  <2>. QED
    BY <1>3, <2>4, <2>5 DEF Acknowledge, TypeOK
<1>4. CASE Refuse(o)
  <2>1. PICK s \in Refusals :
            rows' = [rows EXCEPT ![o].status = s, ![o].reason = TRUE]
    BY <1>4 DEF Refuse
  <2>2. s \in Statuses
    BY RefusalsAssumption DEF Statuses, Coerced, Final
  <2>3. [rows[o] EXCEPT !.status = s, !.reason = TRUE] \in Row
    BY <1>1, <2>2, RowFacts DEF Row, AnyRow
  <2>4. rows' = [rows EXCEPT ![o] =
                   [rows[o] EXCEPT !.status = s, !.reason = TRUE]]
    BY <2>1 DEF TypeOK
  <2>5. rows' \in [Orders -> Row \cup {NoRow}]
    BY <2>3, <2>4 DEF TypeOK
  <2>6. call' \in [Orders -> {"new", "calling", "over"}]
    BY <1>4 DEF Refuse, TypeOK
  <2>. QED
    BY <1>4, <2>5, <2>6 DEF Refuse, TypeOK
<1>5. CASE Lose(o)
  <2>1. call' \in [Orders -> {"new", "calling", "over"}]
    BY <1>5 DEF Lose, TypeOK
  <2>. QED
    BY <1>5, <2>1 DEF Lose, TypeOK
<1>. QED
  BY <1>2, <1>3, <1>4, <1>5

LEMMA BrokerType ==
    ASSUME TypeOK, NEW o \in Orders, Reach(o) \/ Advance(o)
    PROVE  TypeOK'
<1>. USE DEF placing, request, events
<1>1. book' \in [Orders -> Reports \cup {NotListed}]
  BY DEF Reach, Advance, TypeOK
<1>. QED
  BY <1>1 DEF Reach, Advance, TypeOK

LEMMA ClearFacts ==
    ASSUME TypeOK, NEW a \in Requests, NEW label, Clear(a, label)
    PROVE  /\ label \in {"idle", "ask", "tell"} =>
                at' \in [Requests -> {"idle", "ask", "tell"}]
           /\ next' \in [Requests -> 1..3]
           /\ base' \in [Requests -> [Orders -> Row \cup {NoRow}]]
           /\ got' \in [Requests -> [Orders -> Reports \cup {NotListed}]]
           /\ at'[a] = label
           /\ base'[a] = [o \in Orders |-> NoRow]
           /\ got'[a] = [o \in Orders |-> NotListed]
           /\ \A b \in Requests \ {a} :
                at'[b] = at[b] /\ base'[b] = base[b] /\ got'[b] = got[b]
  BY DEF TypeOK, Clear, Goto

LEMMA ReadingType ==
    ASSUME TypeOK, NEW a \in Requests,
           Load(a) \/ Ask(a) \/ Ambiguous(a) \/ EndPass(a) \/ EndLook(a)
    PROVE  TypeOK'
<1>. USE DEF placing, request, events
<1>1. CASE Load(a)
  <2>1. /\ at' \in [Requests -> {"idle", "ask", "tell"}]
        /\ base' \in [Requests -> [Orders -> Row \cup {NoRow}]]
    BY <1>1 DEF Load, Goto, TypeOK
  <2>. QED
    BY <1>1, <2>1 DEF Load, TypeOK
<1>2. CASE Ask(a)
  <2>1. next[a] \in 1..2
    BY <1>2 DEF Ask, Brokers
  <2>2. next' \in [Requests -> 1..3]
    BY <1>2, <2>1 DEF Ask, TypeOK
  <2>3. PICK mine : got' = [got EXCEPT ![a] =
                [o \in Orders |-> IF o \in mine THEN book[o] ELSE @[o]]]
    BY <1>2 DEF Ask
  <2>4. got' \in [Requests -> [Orders -> Reports \cup {NotListed}]]
    BY <2>3 DEF TypeOK
  <2>. QED
    BY <1>2, <2>2, <2>4 DEF Ask, TypeOK
<1>3. CASE Ambiguous(a) \/ EndPass(a) \/ EndLook(a)
  <2>1. Clear(a, "idle")
    BY <1>3 DEF Ambiguous, EndPass, EndLook
  <2>. HIDE DEF request
  <2>2. UNCHANGED <<rows, placing, book, events>>
    BY <1>3 DEF Ambiguous, EndPass, EndLook
  <2>. QED
    BY <2>1, <2>2, ClearFacts DEF TypeOK
<1>. QED
  BY <1>1, <1>2, <1>3

LEMMA CommitType ==
    ASSUME TypeOK, RowsLag, ReadingsLag, NEW p \in Requests, Commit(p)
    PROVE  TypeOK'
<1>1. Clear(p, "tell") /\ UNCHANGED <<age, home, call, book>>
  BY DEF Commit, placing
<1>2. rows' \in [Orders -> Row \cup {NoRow}]
  <2>1. rows' = [o \in Orders |->
                    Written(rows[o], base[p][o], Wanted(p, o))]
    BY DEF Commit
  <2>2. \A o \in Orders : rows'[o] \in Row \cup {NoRow}
    BY CommitRow
  <2>. QED
    BY <2>1, <2>2
<1>3. PICK told \in SUBSET Transitions(p) :
        /\ owed' = [owed EXCEPT ![p] =
                       {<<o, Wanted(p, o).status>> : o \in told}]
        /\ heard' = [o \in Orders |->
                        IF o \in Unsure(p, told) THEN "unsure" ELSE heard[o]]
  BY DEF Commit, Change
<1>4. \A o \in told : o \in Orders /\ Wanted(p, o).status \in Statuses
  <2>1. told \subseteq Orders /\ told \subseteq Transitions(p)
    BY <1>3 DEF Transitions
  <2>. QED
    BY <2>1, CommitRow
<1>5. owed' \in [Requests -> SUBSET (Orders \X Statuses)]
  BY <1>3, <1>4 DEF TypeOK
<1>6. heard' \in [Orders -> Statuses \cup {"none", "unsure"}]
  BY <1>3 DEF TypeOK
<1>. QED
  BY <1>1, <1>2, <1>5, <1>6, ClearFacts DEF TypeOK

LEMMA TellingType ==
    ASSUME TypeOK, NEW p \in Requests, Tell(p) \/ Die(p)
    PROVE  TypeOK'
<1>1. CASE Tell(p)
  <2>1. PICK c \in owed[p] :
        /\ heard' = [heard EXCEPT ![c[1]] = IF @ = "unsure" THEN @ ELSE c[2]]
        /\ owed' = [owed EXCEPT ![p] = @ \ {c}]
    BY <1>1 DEF Tell
  <2>2. c[1] \in Orders /\ c[2] \in Statuses
    BY DEF TypeOK
  <2>3. heard' \in [Orders -> Statuses \cup {"none", "unsure"}]
    BY <2>1, <2>2 DEF TypeOK
  <2>4. owed' \in [Requests -> SUBSET (Orders \X Statuses)]
    BY <2>1 DEF TypeOK
  <2>. QED
    BY <1>1, <2>3, <2>4 DEF Tell, TypeOK, placing, request
<1>2. CASE Die(p)
  <2>1. Clear(p, "idle") /\ UNCHANGED <<rows, age, home, call, book>>
    BY <1>2 DEF Die, placing
  <2>2. owed' \in [Requests -> SUBSET (Orders \X Statuses)]
    BY <1>2 DEF Die, TypeOK
  <2>3. heard' \in [Orders -> Statuses \cup {"none", "unsure"}]
    BY <1>2 DEF Die, TypeOK
  <2>. QED
    BY <2>1, <2>2, <2>3, ClearFacts DEF TypeOK
<1>. QED
  BY <1>1, <1>2

-----------------------------------------------------------------------------
(* What a step does to one order *)

Placing(o) == Submit(o) \/ Acknowledge(o) \/ Refuse(o) \/ Lose(o)

LEMMA PlacingRow ==
    ASSUME TypeOK, RowsLag, NEW u \in Orders, Placing(u)
    PROVE  /\ \A o \in Orders \ {u} :
                rows'[o] = rows[o] /\ call'[o] = call[o] /\ heard'[o] = heard[o]
           /\ call[u] # "over"
           /\ ~rows[u].linked
           /\ call'[u] # "new"
           /\ rows'[u].linked =>
                /\ call'[u] = "over"
                /\ book[u] # NotListed
                /\ rows'[u].status = "ACKNOWLEDGED"
                /\ heard'[u] \in {"ACKNOWLEDGED", "unsure"}
           /\ UNCHANGED <<book, at, next, base, got, owed>>
<1>. USE DEF placing, request, events
<1>1. call[u] # "over" /\ ~rows[u].linked
  <2>1. call[u] # "over"
    BY DEF Placing, Submit, Acknowledge, Refuse, Lose
  <2>. QED
    BY <2>1 DEF RowsLag
<1>2. rows[u] \in AnyRow
  BY RowFacts DEF TypeOK
<1>3. CASE Submit(u)
  <2>1. ~rows'[u].linked
    BY <1>3 DEF Submit, TypeOK, NoRow
  <2>. QED
    BY <1>1, <1>3, <2>1 DEF Submit, TypeOK
<1>4. CASE Acknowledge(u)
  <2>1. rows'[u].status = "ACKNOWLEDGED"
    BY <1>2, <1>4 DEF Acknowledge, TypeOK, AnyRow
  <2>. QED
    BY <1>1, <1>4, <2>1 DEF Acknowledge, TypeOK
<1>5. CASE Refuse(u)
  <2>1. PICK s \in Refusals :
            rows' = [rows EXCEPT ![u].status = s, ![u].reason = TRUE]
    BY <1>5 DEF Refuse
  <2>2. rows'[u].linked = rows[u].linked
    BY <1>2, <2>1 DEF TypeOK, AnyRow
  <2>3. \A o \in Orders \ {u} : rows'[o] = rows[o]
    BY <2>1 DEF TypeOK
  <2>. QED
    BY <1>1, <1>5, <2>2, <2>3 DEF Refuse, TypeOK
<1>6. CASE Lose(u)
  BY <1>1, <1>6 DEF Lose, TypeOK
<1>. QED
  BY <1>3, <1>4, <1>5, <1>6 DEF Placing

Reading(a) == Load(a) \/ Ask(a) \/ Ambiguous(a) \/ EndLook(a) \/ EndPass(a)

Telling(p) == Tell(p) \/ Die(p)

LEMMA StepKinds ==
    ASSUME Next
    PROVE  \/ \E o \in Orders : Placing(o) \/ Reach(o) \/ Advance(o)
           \/ \E a \in Requests : Reading(a) \/ Commit(a) \/ Telling(a)
  BY DEF Next, Placing, Reading, Telling

LEMMA BrokerFrame ==
    ASSUME NEW o \in Orders, Reach(o) \/ Advance(o)
    PROVE  UNCHANGED <<rows, age, home, call, at, next, base, got, owed, heard>>
  BY DEF Reach, Advance, placing, request, events

LEMMA ReadingFrame ==
    ASSUME NEW a \in Requests, Reading(a)
    PROVE  UNCHANGED <<rows, age, home, call, book, owed, heard>>
  BY DEF Reading, Load, Ask, Ambiguous, EndLook, EndPass, placing, events

LEMMA TellingFrame ==
    ASSUME NEW p \in Requests, Telling(p)
    PROVE  UNCHANGED <<rows, age, home, call, book>>
  BY DEF Telling, Tell, Die, placing

LEMMA BookMoves ==
    ASSUME TypeOK, Next, NEW o \in Orders, book[o] # NotListed
    PROVE  /\ book'[o] # NotListed
           /\ book[o] \in Reports /\ book'[o] \in Reports
           /\ Rank[book[o].status] <= Rank[book'[o].status]
<1>1. book[o] \in Reports
  BY DEF TypeOK
<1>2. Rank[book[o].status] \in 1..4
  BY <1>1, ReportRank
<1>3. CASE \E u \in Orders : Reach(u)
  <2>1. book'[o] = book[o]
    BY <1>3 DEF Reach, TypeOK
  <2>. QED
    BY <1>1, <1>2, <2>1
<1>4. CASE \E u \in Orders : Advance(u)
  <2>1. PICK u \in Orders, r \in Reports :
            /\ Rank[r.status] >= Rank[book[u].status]
            /\ book' = [book EXCEPT ![u] = r]
    BY <1>4 DEF Advance
  <2>2. CASE u = o
    <3>1. book'[o] = r
      BY <2>1, <2>2 DEF TypeOK
    <3>2. Rank[r.status] \in 1..4
      BY ReportRank
    <3>. QED
      BY <1>1, <1>2, <2>1, <2>2, <3>1, <3>2, ListingFacts
  <2>3. CASE u # o
    <3>1. book'[o] = book[o]
      BY <2>1, <2>3 DEF TypeOK
    <3>. QED
      BY <1>1, <1>2, <3>1
  <2>. QED
    BY <2>2, <2>3
<1>5. CASE UNCHANGED book
  BY <1>1, <1>2, <1>5
<1>6. \/ \E u \in Orders : Reach(u)
      \/ \E u \in Orders : Advance(u)
      \/ UNCHANGED book
  <2>1. ASSUME NEW a \in Requests, Commit(a)
        PROVE  UNCHANGED book
    BY <2>1 DEF Commit
  <2>2. ASSUME NEW u \in Orders, Placing(u)
        PROVE  UNCHANGED book
    BY <2>2 DEF Placing, Submit, Acknowledge, Refuse, Lose
  <2>. QED
    BY StepKinds, <2>1, <2>2, ReadingFrame, TellingFrame
<1>. QED
  BY <1>3, <1>4, <1>5, <1>6

LEMMA LinkStays ==
    ASSUME TypeOK, RowsLag, ReadingsLag, Next,
           NEW o \in Orders, rows[o].linked
    PROVE  rows'[o].linked
<1>1. ASSUME NEW u \in Orders, Placing(u)
      PROVE  rows'[o] = rows[o]
  BY <1>1, PlacingRow
<1>2. ASSUME NEW a \in Requests, Commit(a)
      PROVE  rows'[o].linked = rows[o].linked
  BY <1>2, CommitRow
<1>. QED
  BY <1>1, <1>2, StepKinds, BrokerFrame, ReadingFrame, TellingFrame

-----------------------------------------------------------------------------
(* The invariants *)

LEMMA TypeKept ==
    ASSUME TypeOK, RowsLag, ReadingsLag, Next
    PROVE  TypeOK'
<1>1. ASSUME NEW o \in Orders, Placing(o)
      PROVE  TypeOK'
  BY <1>1, PlacingType DEF Placing
<1>2. ASSUME NEW a \in Requests, Reading(a)
      PROVE  TypeOK'
  BY <1>2, ReadingType DEF Reading
<1>3. ASSUME NEW p \in Requests, Telling(p)
      PROVE  TypeOK'
  BY <1>3, TellingType DEF Telling
<1>. QED
  BY StepKinds, <1>1, <1>2, <1>3, BrokerType, CommitType

RowLags(o) ==
    /\ call[o] = "new" => rows[o] = NoRow
    /\ rows[o].linked =>
           /\ call[o] = "over"
           /\ book[o] # NotListed
           /\ Rank[rows[o].status] <= Rank[book[o].status]

LEMMA RowsLagKept ==
    ASSUME TypeOK, RowsLag, ReadingsLag, Next
    PROVE  RowsLag'
<1>. SUFFICES ASSUME NEW o \in Orders
              PROVE  RowLags(o)'
  BY DEF RowsLag, RowLags
<1>1. RowLags(o)
  BY DEF RowsLag, RowLags
<1>2. rows[o].linked =>
        /\ Rank[rows[o].status] \in 1..4
        /\ Rank[book[o].status] \in 1..4 /\ Rank[book'[o].status] \in 1..4
        /\ Rank[book[o].status] <= Rank[book'[o].status]
        /\ book'[o] # NotListed
  <2>1. rows[o].linked => rows[o] \in Row
    BY RowFacts DEF TypeOK
  <2>2. rows[o].linked => Rank[rows[o].status] \in 1..4
    BY <2>1, RankFacts DEF Row
  <2>. QED
    BY <1>1, <2>2, BookMoves, ReportRank DEF RowLags
<1>3. CASE rows'[o] = rows[o] /\ call'[o] = call[o]
  BY <1>1, <1>2, <1>3 DEF RowLags
<1>4. ASSUME NEW u \in Orders, Placing(u), u = o
      PROVE  RowLags(o)'
  <2>1. /\ call'[o] # "new"
        /\ rows'[o].linked =>
             /\ call'[o] = "over" /\ book[o] # NotListed
             /\ rows'[o].status = "ACKNOWLEDGED"
        /\ book' = book
    BY <1>4, PlacingRow
  <2>2. book[o] # NotListed => Rank["ACKNOWLEDGED"] <= Rank[book[o].status]
    BY ReportRank DEF TypeOK
  <2>. QED
    BY <2>1, <2>2 DEF RowLags
<1>5. ASSUME NEW p \in Requests, Commit(p)
      PROVE  RowLags(o)'
  <2>1. call' = call /\ book' = book
    BY <1>5 DEF Commit, placing
  <2>2. /\ rows'[o].linked = rows[o].linked
        /\ o \notin Transitions(p) => rows'[o].status = rows[o].status
        /\ o \in Transitions(p) => Rank[rows'[o].status] <= Rank[book[o].status]
        /\ ~rows[o].linked => rows'[o] = rows[o]
    BY <1>5, CommitRow
  <2>3. ~NoRow.linked
    BY RowFacts
  <2>. QED
    BY <1>1, <2>1, <2>2, <2>3 DEF RowLags
<1>6. ASSUME NEW u \in Orders, Placing(u), u # o
      PROVE  rows'[o] = rows[o] /\ call'[o] = call[o]
  BY <1>6, PlacingRow
<1>. QED
  BY <1>3, <1>4, <1>5, <1>6, StepKinds, BrokerFrame, ReadingFrame, TellingFrame

ReadingLags(a, o) ==
    /\ base[a][o].linked =>
           /\ rows[o].linked
           /\ Rank[base[a][o].status] <= Rank[book[o].status]
    /\ at[a] = "idle" => got[a][o] = NotListed
    /\ got[a][o] # NotListed =>
           /\ book[o] # NotListed
           /\ Rank[got[a][o].status] <= Rank[book[o].status]
           /\ base[a][o].linked =>
                Rank[base[a][o].status] <= Rank[got[a][o].status]

LEMMA ReadingRanks ==
    ASSUME TypeOK, RowsLag, ReadingsLag, NEW a \in Requests, NEW o \in Orders
    PROVE  /\ base[a][o].linked => Rank[base[a][o].status] \in 1..4
           /\ base[a][o].linked => book[o] # NotListed
           /\ got[a][o] # NotListed => Rank[got[a][o].status] \in 1..4
           /\ book[o] # NotListed => Rank[book[o].status] \in 1..4
<1>1. base[a][o].linked => base[a][o] \in Row
  BY RowFacts DEF TypeOK
<1>2. base[a][o].linked => book[o] # NotListed
  BY DEF ReadingsLag, RowsLag
<1>3. /\ book[o] # NotListed => book[o] \in Reports
      /\ got[a][o] # NotListed => got[a][o] \in Reports
  BY DEF TypeOK
<1>. QED
  BY <1>1, <1>2, <1>3, RankFacts, ReportRank DEF Row

(* A reading that was not touched goes on to lag. *)
LEMMA ReadingKept ==
    ASSUME TypeOK, RowsLag, ReadingsLag, Next,
           NEW a \in Requests, NEW o \in Orders,
           base'[a] = base[a], got'[a] = got[a],
           at'[a] = "idle" => at[a] = "idle"
    PROVE  ReadingLags(a, o)'
<1>1. ReadingLags(a, o)
  BY DEF ReadingsLag, ReadingLags
<1>2. book[o] # NotListed =>
        /\ book'[o] # NotListed
        /\ Rank[book'[o].status] \in 1..4
        /\ Rank[book[o].status] <= Rank[book'[o].status]
  BY BookMoves, ReportRank
<1>. QED
  BY <1>1, <1>2, LinkStays, ReadingRanks DEF ReadingLags

LEMMA ClearedLags ==
    ASSUME NEW a \in Requests, NEW o \in Orders, TypeOK,
           NEW label, Clear(a, label)
    PROVE  ReadingLags(a, o)'
<1>1. base'[a][o] = NoRow /\ got'[a][o] = NotListed
  BY ClearFacts
<1>. QED
  BY <1>1, RowFacts DEF ReadingLags

LEMMA ReadingsLagKept ==
    ASSUME TypeOK, RowsLag, ReadingsLag, Next
    PROVE  ReadingsLag'
<1>. SUFFICES ASSUME NEW a \in Requests, NEW o \in Orders
              PROVE  ReadingLags(a, o)'
  BY DEF ReadingsLag, ReadingLags
<1>1. ReadingLags(a, o)
  BY DEF ReadingsLag, ReadingLags
<1>2. CASE UNCHANGED <<at, base, got>>
  BY <1>2, ReadingKept
<1>3. ASSUME NEW b \in Requests, NEW label, Clear(b, label)
      PROVE  ReadingLags(a, o)'
  <2>1. CASE a = b
    BY <1>3, <2>1, ClearedLags
  <2>2. CASE a # b
    <3>1. at'[a] = at[a] /\ base'[a] = base[a] /\ got'[a] = got[a]
      BY <1>3, <2>2, ClearFacts
    <3>. QED
      BY <3>1, ReadingKept
  <2>. QED
    BY <2>1, <2>2
<1>4. ASSUME NEW b \in Requests, Load(b)
      PROVE  ReadingLags(a, o)'
  <2>1. CASE a = b
    <3>1. base'[a][o] = rows[o] /\ got'[a][o] = got[a][o] /\ at[a] = "idle"
      BY <1>4, <2>1 DEF Load, TypeOK
    <3>2. rows'[o] = rows[o] /\ book'[o] = book[o]
      BY <1>4 DEF Load
    <3>. QED
      BY <1>1, <3>1, <3>2 DEF ReadingLags, RowsLag
  <2>2. CASE a # b
    <3>1. at'[a] = at[a] /\ base'[a] = base[a] /\ got'[a] = got[a]
      BY <1>4, <2>2 DEF Load, Goto, TypeOK
    <3>. QED
      BY <3>1, ReadingKept
  <2>. QED
    BY <2>1, <2>2
<1>5. ASSUME NEW b \in Requests, Ask(b)
      PROVE  ReadingLags(a, o)'
  <2>1. UNCHANGED <<rows, book, at, base>> /\ at[b] = "ask"
    BY <1>5 DEF Ask
  <2>2. CASE a = b
    <3>1. got'[a][o] \in {got[a][o], book[o]}
      <4>1. PICK mine : got' = [got EXCEPT ![b] =
                    [u \in Orders |-> IF u \in mine THEN book[u] ELSE @[u]]]
        BY <1>5 DEF Ask
      <4>. QED
        BY <2>2, <4>1 DEF TypeOK
    <3>2. base'[a][o].linked => book[o] # NotListed
      BY <2>1, ReadingRanks
    <3>3. book[o] # NotListed => Rank[book[o].status] \in 1..4
      BY ReadingRanks
    <3>. QED
      BY <1>1, <2>1, <2>2, <3>1, <3>2, <3>3 DEF ReadingLags
  <2>3. CASE a # b
    <3>1. got'[a] = got[a]
      BY <1>5, <2>3 DEF Ask, TypeOK
    <3>. QED
      BY <2>1, <3>1, ReadingKept
  <2>. QED
    BY <2>2, <2>3
<1>6. ASSUME NEW b \in Requests, Reading(b)
      PROVE  ReadingLags(a, o)'
  BY <1>3, <1>4, <1>5, <1>6
     DEF Reading, Ambiguous, EndLook, EndPass
<1>7. ASSUME NEW b \in Requests, Commit(b)
      PROVE  ReadingLags(a, o)'
  BY <1>3, <1>7 DEF Commit
<1>8. ASSUME NEW b \in Requests, Telling(b)
      PROVE  ReadingLags(a, o)'
  <2>1. CASE Tell(b)
    BY <1>2, <2>1 DEF Tell, request
  <2>2. CASE Die(b)
    BY <1>3, <2>2 DEF Die
  <2>. QED
    BY <1>8, <2>1, <2>2 DEF Telling
<1>9. ASSUME NEW u \in Orders, Placing(u)
      PROVE  UNCHANGED <<at, base, got>>
  BY <1>9, PlacingRow
<1>. QED
  BY <1>2, <1>6, <1>7, <1>8, <1>9, StepKinds, BrokerFrame

-----------------------------------------------------------------------------
(* What the operator is told *)

LEMMA OweFacts ==
    ASSUME NEW p \in Requests, NEW o
    PROVE  o \in OthersOwe(p) <=>
                \E q \in Requests \ {p} : \E c \in owed[q] : c[1] = o
  BY DEF OthersOwe, OrdersOf

DebtIsClear(p, c) ==
    /\ at[p] = "tell"
    /\ rows[c[1]].linked
    /\ heard[c[1]] # "unsure" =>
           /\ rows[c[1]].status = c[2]
           /\ \A q \in Requests \ {p} : \A d \in owed[q] : d[1] # c[1]

HeardAs(o) ==
    (/\ rows[o].linked
     /\ heard[o] # "unsure"
     /\ \A p \in Requests : \A c \in owed[p] : c[1] # o) =>
        heard[o] = rows[o].status

LEMMA DebtsDef ==
    DebtsAreClear <=> \A p \in Requests : \A c \in owed[p] : DebtIsClear(p, c)
<1>1. ASSUME NEW p \in Requests, NEW c \in owed[p]
      PROVE  DebtIsClear(p, c) <=>
                /\ at[p] = "tell"
                /\ rows[c[1]].linked
                /\ heard[c[1]] # "unsure" =>
                       /\ rows[c[1]].status = c[2]
                       /\ c[1] \notin OthersOwe(p)
  BY OweFacts DEF DebtIsClear
<1>. QED
  BY <1>1 DEF DebtsAreClear

LEMMA HeardDef ==
    HeardIsStored <=> \A o \in Orders : HeardAs(o)
  BY DEF HeardIsStored, HeardAs, OrdersOf

LEMMA DebtsIntro ==
    ASSUME \A p \in Requests : \A c \in owed'[p] : DebtIsClear(p, c)'
    PROVE  DebtsAreClear'
<1>. SUFFICES ASSUME NEW p \in Requests, NEW c \in owed'[p]
              PROVE  /\ at'[p] = "tell"
                     /\ rows'[c[1]].linked
                     /\ heard'[c[1]] # "unsure" =>
                            /\ rows'[c[1]].status = c[2]
                            /\ c[1] \notin OthersOwe(p)'
  BY DEF DebtsAreClear
<1>1. DebtIsClear(p, c)'
  OBVIOUS
<1>2. c[1] \in OthersOwe(p)' =>
        \E q \in Requests \ {p} : \E d \in owed'[q] : d[1] = c[1]
  BY DEF OthersOwe, OrdersOf
<1>. QED
  BY <1>1, <1>2 DEF DebtIsClear

LEMMA HeardIntro ==
    ASSUME \A o \in Orders : HeardAs(o)'
    PROVE  HeardIsStored'
  BY DEF HeardIsStored, HeardAs, OrdersOf

(* Steps that tell nothing and write no row an order is acknowledged in.   *)
LEMMA QuietDebts ==
    ASSUME TypeOK, RowsLag, DebtsAreClear, HeardIsStored,
           UNCHANGED owed,
           \A o \in Orders : rows[o].linked =>
                rows'[o] = rows[o] /\ heard'[o] = heard[o],
           \A o \in Orders : (~rows[o].linked /\ rows'[o].linked) =>
                heard'[o] \in {rows'[o].status, "unsure"},
           \A p \in Requests : at[p] = "tell" =>
                at'[p] = "tell" \/ owed[p] = {}
    PROVE  DebtsAreClear' /\ HeardIsStored'
<1>1. ASSUME NEW p \in Requests, NEW c \in owed'[p]
      PROVE  DebtIsClear(p, c)'
  <2>1. c \in owed[p] /\ c[1] \in Orders
    BY DEF TypeOK
  <2>2. DebtIsClear(p, c)
    BY <2>1, DebtsDef
  <2>. QED
    BY <2>1, <2>2 DEF DebtIsClear
<1>2. ASSUME NEW o \in Orders
      PROVE  HeardAs(o)'
  <2>1. HeardAs(o)
    BY HeardDef
  <2>. QED
    BY <2>1 DEF HeardAs
<1>. QED
  BY <1>1, <1>2, DebtsIntro, HeardIntro

LEMMA CommitDebts ==
    ASSUME IInv, NEW p \in Requests, Commit(p)
    PROVE  DebtsAreClear' /\ HeardIsStored'
<1>. USE DEF IInv
<1>1. PICK told \in SUBSET Transitions(p) :
        /\ owed' = [owed EXCEPT ![p] =
                       {<<o, Wanted(p, o).status>> : o \in told}]
        /\ heard' = [o \in Orders |->
                        IF o \in Unsure(p, told) THEN "unsure" ELSE heard[o]]
  BY DEF Commit, Change
<1>2. at[p] = "ask" /\ at'[p] = "tell"
      /\ \A q \in Requests \ {p} : at'[q] = at[q]
  <2>1. at[p] = "ask" /\ Clear(p, "tell")
    BY DEF Commit, Asked
  <2>. QED
    BY <2>1, ClearFacts
<1>3. owed[p] = {}
  BY <1>2 DEF DebtsAreClear
<1>4. owed'[p] = {<<o, Wanted(p, o).status>> : o \in told}
      /\ \A q \in Requests \ {p} : owed'[q] = owed[q]
  BY <1>1 DEF TypeOK
<1>5. \A o \in Orders : o \in Unsure(p, told) <=>
        o \in Transitions(p) /\ (o \notin told \/ o \in OthersOwe(p))
  BY DEF Unsure
<1>6. ASSUME NEW q \in Requests, NEW c \in owed'[q]
      PROVE  DebtIsClear(q, c)'
  <2>1. CASE q = p
    <3>1. PICK o \in told : c = <<o, Wanted(p, o).status>>
      BY <1>4, <2>1
    <3>2. o \in Transitions(p) /\ o \in Orders
      BY DEF Transitions
    <3>3. rows'[o].linked /\ rows'[o].status = Wanted(p, o).status
      BY <3>2, CommitRow
    <3>4. heard'[o] # "unsure" => o \notin OthersOwe(p)
      BY <1>1, <1>5, <3>2
    <3>5. o \notin OthersOwe(p) =>
            \A r \in Requests \ {p} : \A d \in owed'[r] : d[1] # o
      BY <1>4, OweFacts
    <3>. QED
      BY <1>2, <2>1, <3>1, <3>3, <3>4, <3>5 DEF DebtIsClear
  <2>2. CASE q # p
    <3>1. c \in owed[q] /\ c[1] \in Orders
      BY <1>4, <2>2 DEF TypeOK
    <3>2. DebtIsClear(q, c)
      BY <3>1, DebtsDef
    <3>3. c[1] \in OthersOwe(p)
      BY <2>2, <3>1, OweFacts
    <3>4. rows'[c[1]].linked
      BY <3>1, <3>2, CommitRow DEF DebtIsClear
    <3>5. ASSUME heard'[c[1]] # "unsure"
          PROVE  /\ rows'[c[1]].status = c[2]
                 /\ \A r \in Requests \ {q} : \A d \in owed'[r] : d[1] # c[1]
      <4>1. c[1] \notin Unsure(p, told) /\ heard[c[1]] # "unsure"
        BY <1>1, <3>1, <3>5
      <4>2. c[1] \notin Transitions(p)
        BY <1>5, <3>1, <3>3, <4>1
      <4>3. rows'[c[1]].status = c[2]
        BY <3>1, <3>2, <4>1, <4>2, CommitRow DEF DebtIsClear
      <4>4. \A d \in owed'[p] : d[1] # c[1]
        BY <1>4, <4>2
      <4>. QED
        BY <1>4, <3>2, <4>1, <4>3, <4>4 DEF DebtIsClear
    <3>. QED
      BY <1>2, <2>2, <3>2, <3>4, <3>5 DEF DebtIsClear
  <2>. QED
    BY <2>1, <2>2
<1>7. ASSUME NEW o \in Orders
      PROVE  HeardAs(o)'
  <2>. SUFFICES ASSUME rows'[o].linked, heard'[o] # "unsure",
                       \A q \in Requests : \A c \in owed'[q] : c[1] # o
                PROVE  heard'[o] = rows'[o].status
    BY DEF HeardAs
  <2>1. rows[o].linked
    BY CommitRow
  <2>2. o \notin Unsure(p, told) /\ heard'[o] = heard[o]
    BY <1>1
  <2>3. o \notin told
    <3>1. ASSUME o \in told
          PROVE  FALSE
      <4>1. <<o, Wanted(p, o).status>> \in owed'[p]
        BY <1>4, <3>1
      <4>. QED
        BY <4>1
    <3>. QED
      BY <3>1
  <2>4. o \notin Transitions(p)
    BY <1>5, <2>2, <2>3
  <2>5. rows'[o].status = rows[o].status
    BY <2>4, CommitRow
  <2>6. \A q \in Requests : \A c \in owed[q] : c[1] # o
    BY <1>3, <1>4
  <2>7. HeardAs(o)
    BY HeardDef
  <2>. QED
    BY <2>1, <2>2, <2>5, <2>6, <2>7 DEF HeardAs
<1>. QED
  BY <1>6, <1>7, DebtsIntro, HeardIntro

LEMMA TellDebts ==
    ASSUME IInv, NEW p \in Requests, Tell(p)
    PROVE  DebtsAreClear' /\ HeardIsStored'
<1>. USE DEF IInv
<1>1. PICK c \in owed[p] :
        /\ heard' = [heard EXCEPT ![c[1]] = IF @ = "unsure" THEN @ ELSE c[2]]
        /\ owed' = [owed EXCEPT ![p] = @ \ {c}]
  BY DEF Tell
<1>2. UNCHANGED <<rows, at>>
  BY DEF Tell, request
<1>3. c \in Orders \X Statuses
  BY DEF TypeOK
<1>4. DebtIsClear(p, c)
  BY DebtsDef
<1>5. /\ heard'[c[1]] = IF heard[c[1]] = "unsure" THEN "unsure" ELSE c[2]
      /\ \A o \in Orders \ {c[1]} : heard'[o] = heard[o]
  BY <1>1, <1>3 DEF TypeOK
<1>6. /\ owed'[p] = owed[p] \ {c}
      /\ \A q \in Requests \ {p} : owed'[q] = owed[q]
  BY <1>1 DEF TypeOK
<1>7. "unsure" \notin Statuses
  BY DEF Statuses, Coerced, Final
<1>8. ASSUME NEW q \in Requests, NEW d \in owed'[q]
      PROVE  DebtIsClear(q, d)'
  <2>1. d \in owed[q] /\ d \in Orders \X Statuses
    BY <1>6 DEF TypeOK
  <2>2. DebtIsClear(q, d)
    BY <2>1, DebtsDef
  <2>3. heard'[d[1]] # "unsure" => heard[d[1]] # "unsure"
    BY <1>5, <2>1
  <2>4. \A r \in Requests : \A e \in owed'[r] : e \in owed[r]
    BY <1>6
  <2>. QED
    BY <1>2, <2>2, <2>3, <2>4 DEF DebtIsClear
<1>9. ASSUME NEW o \in Orders
      PROVE  HeardAs(o)'
  <2>. SUFFICES ASSUME rows'[o].linked, heard'[o] # "unsure",
                       \A q \in Requests : \A d \in owed'[q] : d[1] # o
                PROVE  heard'[o] = rows'[o].status
    BY DEF HeardAs
  <2>1. CASE o = c[1]
    <3>1. heard[o] # "unsure" /\ heard'[o] = c[2]
      BY <1>5, <2>1
    <3>2. rows[o].status = c[2]
      BY <1>4, <2>1, <3>1 DEF DebtIsClear
    <3>. QED
      BY <1>2, <3>1, <3>2
  <2>2. CASE o # c[1]
    <3>1. \A q \in Requests : \A d \in owed[q] : d[1] # o
      BY <1>6, <2>2
    <3>2. HeardAs(o)
      BY HeardDef
    <3>. QED
      BY <1>2, <1>5, <2>2, <3>1, <3>2 DEF HeardAs
  <2>. QED
    BY <2>1, <2>2
<1>. QED
  BY <1>8, <1>9, DebtsIntro, HeardIntro

LEMMA DieDebts ==
    ASSUME IInv, NEW p \in Requests, Die(p)
    PROVE  DebtsAreClear' /\ HeardIsStored'
<1>. USE DEF IInv
<1>1. /\ owed' = [owed EXCEPT ![p] = {}]
      /\ heard' = [o \in Orders |->
                      IF o \in OrdersOf(owed[p]) THEN "unsure" ELSE heard[o]]
      /\ UNCHANGED rows
  BY DEF Die
<1>2. \A q \in Requests \ {p} : at'[q] = at[q]
  <2>1. Clear(p, "idle")
    BY DEF Die
  <2>. QED
    BY <2>1, ClearFacts
<1>3. owed'[p] = {} /\ \A q \in Requests \ {p} : owed'[q] = owed[q]
  BY <1>1 DEF TypeOK
<1>4. \A o \in Orders : o \in OrdersOf(owed[p]) <=> \E c \in owed[p] : c[1] = o
  BY DEF OrdersOf
<1>5. ASSUME NEW q \in Requests, NEW d \in owed'[q]
      PROVE  DebtIsClear(q, d)'
  <2>1. q # p /\ d \in owed[q] /\ d[1] \in Orders
    BY <1>3 DEF TypeOK
  <2>2. DebtIsClear(q, d)
    BY <2>1, DebtsDef
  <2>3. heard'[d[1]] # "unsure" => heard[d[1]] # "unsure"
    BY <1>1, <2>1
  <2>4. \A r \in Requests : \A e \in owed'[r] : e \in owed[r]
    BY <1>3
  <2>. QED
    BY <1>1, <1>2, <2>1, <2>2, <2>3, <2>4 DEF DebtIsClear
<1>6. ASSUME NEW o \in Orders
      PROVE  HeardAs(o)'
  <2>. SUFFICES ASSUME rows'[o].linked, heard'[o] # "unsure",
                       \A q \in Requests : \A d \in owed'[q] : d[1] # o
                PROVE  heard'[o] = rows'[o].status
    BY DEF HeardAs
  <2>1. o \notin OrdersOf(owed[p]) /\ heard'[o] = heard[o]
    BY <1>1
  <2>2. \A q \in Requests : \A d \in owed[q] : d[1] # o
    BY <1>3, <1>4, <2>1
  <2>3. HeardAs(o)
    BY HeardDef
  <2>. QED
    BY <1>1, <2>1, <2>2, <2>3 DEF HeardAs
<1>. QED
  BY <1>5, <1>6, DebtsIntro, HeardIntro

-----------------------------------------------------------------------------
(* The invariant *)

LEMMA InitIInv == Init => IInv
<1>. SUFFICES ASSUME Init
              PROVE  IInv
  OBVIOUS
<1>1. /\ rows = [o \in Orders |-> NoRow]
      /\ base = [a \in Requests |-> [o \in Orders |-> NoRow]]
      /\ got = [a \in Requests |-> [o \in Orders |-> NotListed]]
      /\ owed = [p \in Requests |-> {}]
  BY DEF Init
<1>2. TypeOK
  BY <1>1, HomesAssumption DEF Init, TypeOK
<1>3. \A o \in Orders : ~rows[o].linked
  BY <1>1, RowFacts
<1>4. RowsLag
  BY <1>1, <1>3 DEF RowsLag
<1>5. ReadingsLag
  BY <1>1, RowFacts DEF ReadingsLag
<1>6. DebtsAreClear
  BY <1>1 DEF DebtsAreClear
<1>7. HeardIsStored
  BY <1>3 DEF HeardIsStored
<1>8. CallsPend
  BY DEF Init, CallsPend
<1>. QED
  BY <1>2, <1>4, <1>5, <1>6, <1>7, <1>8 DEF IInv

LEMMA DebtsKept ==
    ASSUME IInv, Next
    PROVE  DebtsAreClear' /\ HeardIsStored'
<1>. USE DEF IInv
<1>1. ASSUME NEW u \in Orders, Placing(u)
      PROVE  DebtsAreClear' /\ HeardIsStored'
  <2>1. \A o \in Orders : rows[o].linked =>
            rows'[o] = rows[o] /\ heard'[o] = heard[o]
    BY <1>1, PlacingRow
  <2>2. \A o \in Orders : (~rows[o].linked /\ rows'[o].linked) =>
            heard'[o] \in {rows'[o].status, "unsure"}
    BY <1>1, PlacingRow
  <2>3. UNCHANGED <<at, owed>>
    BY <1>1, PlacingRow
  <2>. QED
    BY <2>1, <2>2, <2>3, QuietDebts
<1>2. ASSUME NEW u \in Orders, Reach(u) \/ Advance(u)
      PROVE  DebtsAreClear' /\ HeardIsStored'
  BY <1>2, BrokerFrame, QuietDebts
<1>3. ASSUME NEW a \in Requests, Reading(a)
      PROVE  DebtsAreClear' /\ HeardIsStored'
  <2>1. UNCHANGED <<rows, owed, heard>>
    BY <1>3, ReadingFrame
  <2>2. \A p \in Requests : at[p] = "tell" =>
            at'[p] = "tell" \/ owed[p] = {}
    <3>1. CASE Load(a)
      BY <3>1 DEF Load, Goto, TypeOK
    <3>2. CASE Ask(a)
      BY <3>2 DEF Ask
    <3>3. CASE Ambiguous(a) \/ EndLook(a) \/ EndPass(a)
      <4>1. Clear(a, "idle") /\ (at[a] = "tell" => owed[a] = {})
        BY <3>3 DEF Ambiguous, EndLook, EndPass, Asked
      <4>. QED
        BY <4>1, ClearFacts
    <3>. QED
      BY <1>3, <3>1, <3>2, <3>3 DEF Reading
  <2>. QED
    BY <2>1, <2>2, QuietDebts
<1>. QED
  BY <1>1, <1>2, <1>3, StepKinds, CommitDebts, TellDebts, DieDebts
     DEF Telling

(* Only the submission of an order gives it an age, and only its request's *)
(* own steps end its call or touch its row meanwhile.                      *)
LEMMA PlacingCalls ==
    ASSUME TypeOK, CallsPend, NEW u \in Orders, Placing(u)
    PROVE  CallsPend'
<1>1. CASE Submit(u)
  <2>1. Cardinality(Stored) + 1 # 0
    <3>1. IsFiniteSet(Stored)
      BY OrdersAssumption, FS_Subset DEF Stored
    <3>. QED
      BY <3>1, FS_CardinalityType
  <2>2. /\ call' = [call EXCEPT ![u] = "calling"]
        /\ age' = [age EXCEPT ![u] = Cardinality(Stored) + 1]
        /\ rows' = [rows EXCEPT ![u] = [NoRow EXCEPT !.status = "PENDING"]]
    BY <1>1 DEF Submit
  <2>3. /\ rows'[u].status = "PENDING" /\ ~rows'[u].linked
        /\ call'[u] = "calling" /\ age'[u] # 0
    BY <2>1, <2>2 DEF TypeOK, NoRow
  <2>4. \A o \in Orders \ {u} :
            rows'[o] = rows[o] /\ call'[o] = call[o] /\ age'[o] = age[o]
    BY <2>2 DEF TypeOK
  <2>. QED
    BY <2>3, <2>4 DEF CallsPend
<1>2. CASE Acknowledge(u) \/ Refuse(u) \/ Lose(u)
  <2>1. /\ call[u] = "calling"
        /\ call' = [call EXCEPT ![u] = "over"]
        /\ age' = age
    BY <1>2 DEF Acknowledge, Refuse, Lose
  <2>2. \A o \in Orders \ {u} : rows'[o] = rows[o]
    BY <1>2 DEF Acknowledge, Refuse, Lose, TypeOK
  <2>. QED
    BY <2>1, <2>2 DEF CallsPend, TypeOK
<1>. QED
  BY <1>1, <1>2 DEF Placing

LEMMA CallsPendKept ==
    ASSUME IInv, Next
    PROVE  CallsPend'
<1>. USE DEF IInv
<1>1. ASSUME NEW u \in Orders, Placing(u)
      PROVE  CallsPend'
  BY <1>1, PlacingCalls
<1>2. ASSUME NEW p \in Requests, Commit(p)
      PROVE  CallsPend'
  <2>1. UNCHANGED <<age, call>>
    BY <1>2 DEF Commit, placing
  <2>2. ASSUME NEW o \in Orders, call[o] = "calling"
        PROVE  rows'[o] = rows[o]
    BY <1>2, <2>2, CommitRow DEF CallsPend
  <2>. QED
    BY <2>1, <2>2 DEF CallsPend
<1>3. CASE UNCHANGED <<rows, age, call>>
  BY <1>3 DEF CallsPend
<1>. QED
  BY <1>1, <1>2, <1>3, StepKinds, BrokerFrame, ReadingFrame, TellingFrame

LEMMA StepKeeps ==
    ASSUME IInv, Next
    PROVE  IInv'
<1>1. TypeOK' /\ RowsLag' /\ ReadingsLag'
  BY TypeKept, RowsLagKept, ReadingsLagKept DEF IInv
<1>. QED
  BY <1>1, DebtsKept, CallsPendKept DEF IInv

LEMMA StutterKeeps ==
    ASSUME IInv, UNCHANGED vars
    PROVE  IInv'
<1>1. /\ UNCHANGED <<rows, age, home, call, book>>
      /\ UNCHANGED <<at, next, base, got, owed, heard>>
  BY DEF vars, placing, request, events
<1>2. TypeOK'
  BY <1>1 DEF IInv, TypeOK
<1>3. RowsLag' /\ ReadingsLag'
  BY <1>1 DEF IInv, RowsLag, ReadingsLag
<1>4. DebtsAreClear' /\ HeardIsStored'
  BY <1>1, RowFacts, QuietDebts DEF IInv
<1>5. CallsPend'
  BY <1>1 DEF IInv, CallsPend
<1>. QED
  BY <1>2, <1>3, <1>4, <1>5 DEF IInv

(* The inductive invariant of the order book. *)
THEOREM BookInvariance == Spec => []IInv
<1>1. Init => IInv
  BY InitIInv
<1>2. IInv /\ [Next]_vars => IInv'
  BY StepKeeps, StutterKeeps
<1>. QED
  BY <1>1, <1>2, PTL DEF Spec

(* Every load, answer, commit and event leaves values of their types. *)
THEOREM BookTypeCorrect == Spec => []TypeOK
<1>1. IInv => TypeOK
  BY DEF IInv
<1>. QED
  BY <1>1, BookInvariance, PTL

(* The last event of an order tells its status, unless told otherwise by   *)
(* the limit, a death or two passes at once.                               *)
THEOREM HeardIsStoredCorrect == Spec => []HeardIsStored
<1>1. IInv => HeardIsStored
  BY DEF IInv
<1>. QED
  BY <1>1, BookInvariance, PTL

-----------------------------------------------------------------------------
(* What a look shows *)

LEMMA NeedsIsMendable ==
    ASSUME NEW row \in Row, NEW r \in Reports
    PROVE  /\ NeedsReconciliation(row, r) => Taken(row, r) # row
           /\ ~NeedsReconciliation(Taken(row, r), r)
           /\ ~NeedsReconciliation(row, r) => Taken(row, r).status = row.status
<1>1. r.avg \in Nat \cup {NoPrice} /\ row.avg \in Nat \cup {NoPrice}
  BY ListingFacts DEF Row
<1>2. \A x \in Nat : ~Differs(x, x)
  BY LimitsAssumption DEF Differs
<1>3. ASSUME NeedsReconciliation(row, r)
      PROVE  Taken(row, r) # row
  <2>1. CASE r.status \in Coerced /\ row.status # r.status
    BY <2>1, TakenFacts
  <2>2. CASE row.avg # NoPrice /\ r.avg # NoPrice /\ Differs(row.avg, r.avg)
    <3>1. row.avg \in Nat /\ row.avg # r.avg
      BY <1>1, <1>2, <2>2
    <3>2. Taken(row, r).avg = r.avg
      BY <2>2, TakenFacts
    <3>. QED
      BY <3>1, <3>2
  <2>3. CASE r.reason /\ ~row.reason
    <3>1. Taken(row, r).reason = TRUE
      BY <2>3, TakenFacts
    <3>2. Taken(row, r) = row => Taken(row, r).reason = row.reason
      OBVIOUS
    <3>. QED
      BY <2>3, <3>1, <3>2
  <2>. QED
    BY <1>3, <2>1, <2>2, <2>3 DEF NeedsReconciliation
<1>4. ~NeedsReconciliation(Taken(row, r), r)
  BY <1>1, <1>2, TakenFacts DEF NeedsReconciliation
<1>5. ~NeedsReconciliation(row, r) => Taken(row, r).status = row.status
  BY TakenFacts DEF NeedsReconciliation
<1>. QED
  BY <1>3, <1>4, <1>5

LEMMA ShownMatched ==
    ASSUME TypeOK, NEW l \in Requests, NEW i \in Shown(l, "any", "merged"),
           i.state \in {"unresolved", "matched"}
    PROVE  /\ i.order \in Orders
           /\ base[l][i.order] \in Row /\ got[l][i.order] \in Reports
           /\ i.state = "unresolved" <=>
                NeedsReconciliation(base[l][i.order], got[l][i.order])
<1>1. i \notin OwnItems(l, "any", "merged")
  BY DEF OwnItems, Item
<1>2. i \notin ForeignItems(l, "any", "merged")
  BY DEF ForeignItems, Item
<1>3. PICK o \in Matched(l) :
        i = Item(o, "merged",
                 IF NeedsReconciliation(base[l][o], got[l][o])
                    THEN "unresolved" ELSE "matched",
                 CoercedTo(got[l][o].status, base[l][o].status))
  BY <1>1, <1>2 DEF Shown, MergedItems
<1>4. i.order = o
      /\ i.state = IF NeedsReconciliation(base[l][o], got[l][o])
                      THEN "unresolved" ELSE "matched"
  BY <1>3 DEF Item
<1>5. o \in Orders /\ base[l][o].linked /\ got[l][o] # NotListed
  BY DEF Matched
<1>6. base[l][o] \in Row /\ got[l][o] \in Reports
  BY <1>5, RowFacts DEF TypeOK
<1>. QED
  BY <1>4, <1>5, <1>6

(* What a look marks as unresolved a pass would write, and would settle;   *)
(* what it shows as matched keeps its status.                              *)
THEOREM MarkedIsMendableCorrect == Spec => []MarkedIsMendable
<1>1. ASSUME TypeOK
      PROVE  MarkedIsMendable
  BY <1>1, ShownMatched, NeedsIsMendable DEF MarkedIsMendable
<1>. QED
  BY <1>1, BookTypeCorrect, PTL

LEMMA NewestAll ==
    ASSUME TypeOK, NEW S \in SUBSET Orders, NEW n \in Nat, Cardinality(S) <= n
    PROVE  Newest(S, n) = S
<1>1. ASSUME NEW o \in S
      PROVE  Cardinality({u \in S : age[u] > age[o]}) < n
  <2>. DEFINE newer == {u \in S : age[u] > age[o]}
  <2>1. IsFiniteSet(S)
    BY OrdersAssumption, FS_Subset
  <2>2. newer \subseteq S \ {o}
    <3>1. age[o] \in Nat
      BY DEF TypeOK
    <3>. QED
      BY <3>1
  <2>3. IsFiniteSet(S \ {o}) /\ Cardinality(S \ {o}) = Cardinality(S) - 1
    BY <2>1, FS_RemoveElement
  <2>4. Cardinality(newer) <= Cardinality(S \ {o})
    BY <2>2, <2>3, FS_Subset
  <2>5. Cardinality(newer) \in Nat /\ Cardinality(S) \in Nat
    BY <2>1, <2>2, <2>3, FS_Subset, FS_CardinalityType
  <2>. QED
    BY <2>3, <2>4, <2>5
<1>. QED
  BY <1>1 DEF Newest

(* The items of an order in a look at everything. *)
LEMMA ItemsOf ==
    ASSUME NEW l \in Requests, NEW o \in Orders, NEW i
    PROVE  (i \in Shown(l, "any", "merged") /\ i.order = o) <=>
             \/ /\ o \in Matched(l) \cap Found(l, "any")
                /\ i = Item(o, "merged",
                            IF NeedsReconciliation(base[l][o], got[l][o])
                               THEN "unresolved" ELSE "matched",
                            CoercedTo(got[l][o].status, base[l][o].status))
             \/ /\ o \in Found(l, "any") \ Matched(l)
                /\ i = Item(o, "sigmatrader", "internal_only",
                            base[l][o].status)
             \/ /\ got[l][o] # NotListed
                /\ o \notin Matched(l) \cap Found(l, "any")
                /\ i = Item(o, "broker_external", "broker_only",
                            CoercedTo(got[l][o].status, "none"))
<1>1. i \in MergedItems(l, "any", "merged") /\ i.order = o <=>
        /\ o \in Matched(l) \cap Found(l, "any")
        /\ i = Item(o, "merged",
                    IF NeedsReconciliation(base[l][o], got[l][o])
                       THEN "unresolved" ELSE "matched",
                    CoercedTo(got[l][o].status, base[l][o].status))
  BY DEF MergedItems, Item
<1>2. i \in OwnItems(l, "any", "merged") /\ i.order = o <=>
        /\ o \in Found(l, "any") \ Matched(l)
        /\ i = Item(o, "sigmatrader", "internal_only", base[l][o].status)
  BY DEF OwnItems, Item
<1>3. i \in ForeignItems(l, "any", "merged") /\ i.order = o <=>
        /\ got[l][o] # NotListed
        /\ o \notin Matched(l) \cap Found(l, "any")
        /\ i = Item(o, "broker_external", "broker_only",
                    CoercedTo(got[l][o].status, "none"))
  BY DEF ForeignItems, Item
<1>. QED
  BY <1>1, <1>2, <1>3 DEF Shown

(* A look at everything shows every order, and only those without a broker *)
(* id twice.                                                               *)
THEOREM ShownOnceCorrect == Spec => []ShownOnce
<1>1. ASSUME TypeOK, NEW l \in Requests, NEW o \in Orders
      PROVE  LET items == {i \in Shown(l, "any", "merged") : i.order = o}
                 limited == Cardinality(Loaded(l)) > LookLimit
             IN  /\ got[l][o] # NotListed => items # {}
                 /\ o \in Loaded(l) /\ ~limited => items # {}
                 /\ \A i, j \in items : i # j => ~base[l][o].linked
  <2>. DEFINE items == {i \in Shown(l, "any", "merged") : i.order = o}
              merged == Item(o, "merged",
                             IF NeedsReconciliation(base[l][o], got[l][o])
                                THEN "unresolved" ELSE "matched",
                             CoercedTo(got[l][o].status, base[l][o].status))
              own == Item(o, "sigmatrader", "internal_only",
                          base[l][o].status)
              foreign == Item(o, "broker_external", "broker_only",
                              CoercedTo(got[l][o].status, "none"))
  <2>1. \A i : i \in items <=>
             \/ o \in Matched(l) \cap Found(l, "any") /\ i = merged
             \/ o \in Found(l, "any") \ Matched(l) /\ i = own
             \/ /\ got[l][o] # NotListed
                /\ o \notin Matched(l) \cap Found(l, "any")
                /\ i = foreign
    BY ItemsOf
  <2>. HIDE DEF items, merged, own, foreign
  <2>2. got[l][o] # NotListed => items # {}
    BY <2>1
  <2>3. o \in Loaded(l) /\ ~(Cardinality(Loaded(l)) > LookLimit)
            => o \in Found(l, "any")
    <3>1. {u \in Loaded(l) : "any" \in {"any", base[l][u].status}} = Loaded(l)
          /\ Loaded(l) \subseteq Orders
      BY DEF Loaded
    <3>2. Cardinality(Loaded(l)) \in Nat /\ LookLimit \in Nat
      BY <3>1, OrdersAssumption, LimitsAssumption, FS_Subset,
         FS_CardinalityType
    <3>. QED
      BY <1>1, <3>1, <3>2, NewestAll DEF Found
  <2>4. o \in Found(l, "any") => items # {}
    BY <2>1
  <2>5. base[l][o].linked /\ got[l][o] # NotListed => o \in Matched(l)
    BY DEF Matched
  <2>6. \A i, j \in items : i # j => ~base[l][o].linked
    BY <2>1, <2>5
  <2>. QED
    BY <2>2, <2>3, <2>4, <2>6 DEF items
<1>2. TypeOK => ShownOnce
  BY <1>1 DEF ShownOnce
<1>. QED
  BY <1>2, BookTypeCorrect, PTL

-----------------------------------------------------------------------------
(* What a step may never do *)

(* Only a commit takes a request from asking to telling. *)
LEMMA CommitsIsCommit ==
    ASSUME TypeOK, Next, NEW p \in Requests, Commits(p)
    PROVE  Commit(p)
<1>1. at[p] = "ask" /\ at'[p] = "tell"
  BY DEF Commits
<1>2. ASSUME NEW a \in Requests, NEW label, Clear(a, label)
      PROVE  a = p /\ label = "tell"
  BY <1>1, <1>2, ClearFacts
<1>3. ASSUME NEW u \in Orders, Placing(u)
      PROVE  FALSE
  BY <1>1, <1>3
     DEF Placing, Submit, Acknowledge, Refuse, Lose, request
<1>4. ASSUME NEW a \in Requests, Reading(a)
      PROVE  FALSE
  <2>1. CASE Load(a)
    BY <1>1, <2>1 DEF Load, Goto, TypeOK
  <2>2. CASE Ask(a)
    BY <1>1, <2>2 DEF Ask
  <2>3. CASE Ambiguous(a) \/ EndLook(a) \/ EndPass(a)
    BY <1>2, <2>3 DEF Ambiguous, EndLook, EndPass
  <2>. QED
    BY <1>4, <2>1, <2>2, <2>3 DEF Reading
<1>5. ASSUME NEW a \in Requests, Telling(a)
      PROVE  FALSE
  <2>1. CASE Tell(a)
    BY <1>1, <2>1 DEF Tell, request
  <2>2. CASE Die(a)
    BY <1>2, <2>2 DEF Die
  <2>. QED
    BY <1>5, <2>1, <2>2 DEF Telling
<1>6. ASSUME NEW a \in Requests, Commit(a)
      PROVE  Commit(p)
  <2>1. Clear(a, "tell")
    BY <1>6 DEF Commit
  <2>. QED
    BY <1>2, <1>6, <2>1
<1>7. ASSUME NEW o \in Orders, Reach(o) \/ Advance(o)
      PROVE  FALSE
  BY <1>1, <1>7, BrokerFrame
<1>. QED
  BY <1>3, <1>4, <1>5, <1>6, <1>7, StepKinds

LEMMA CommitIsCommits ==
    ASSUME TypeOK, NEW p \in Requests, Commit(p)
    PROVE  Commits(p)
<1>1. at[p] = "ask" /\ Clear(p, "tell")
  BY DEF Commit, Asked
<1>. QED
  BY <1>1, ClearFacts DEF Commits

LEMMA StepInRow ==
    ASSUME IInv, Next, NEW o \in Orders, rows'[o] # rows[o]
    PROVE  \/ \E p \in Requests : Commit(p)
           \/ call[o] # "over" /\ ~rows[o].linked
<1>. USE DEF IInv
<1>1. ASSUME NEW u \in Orders, Placing(u)
      PROVE  u = o /\ call[u] # "over" /\ ~rows[u].linked
  BY <1>1, PlacingRow
<1>. QED
  BY <1>1, StepKinds, BrokerFrame, ReadingFrame, TellingFrame

(* A broker never goes back, so that a write by a pass that takes a status *)
(* back goes over a row which has changed since the pass loaded it.        *)
THEOREM BackwardIsOvertakenCorrect == Spec => BackwardIsOvertaken
<1>1. ASSUME IInv, [Next]_vars, NEW o \in Orders,
             rows[o].linked, Rank[rows'[o].status] < Rank[rows[o].status]
      PROVE  \E p \in Requests : Commits(p) /\ base[p][o] # rows[o]
  <2>. USE DEF IInv
  <2>1. rows[o] \in Row /\ Rank[rows[o].status] \in 1..4
    <3>1. rows[o] \in Row
      BY <1>1, RowFacts DEF TypeOK
    <3>. QED
      BY <3>1, RankFacts DEF Row
  <2>2. rows'[o] # rows[o]
    BY <1>1, <2>1
  <2>3. Next
    BY <1>1, <2>2 DEF vars
  <2>4. PICK p \in Requests : Commit(p)
    BY <1>1, <2>2, <2>3, StepInRow
  <2>5. o \in Transitions(p)
    BY <1>1, <2>1, <2>4, CommitRow
  <2>6. o \in Reconciled(p) /\ rows'[o].status = Wanted(p, o).status
    BY <1>1, <2>4, <2>5, CommitRow
  <2>7. /\ base[p][o] \in Row /\ got[p][o] \in Reports
        /\ Rank[base[p][o].status] <= Rank[got[p][o].status]
        /\ Wanted(p, o) = Taken(base[p][o], got[p][o])
    BY <1>1, <2>6, ReconciledFacts
  <2>8. Rank[base[p][o].status] <= Rank[Wanted(p, o).status]
    BY <2>7, TakenRank
  <2>9. Rank[Wanted(p, o).status] \in 1..4
    BY <2>7, TakenFacts, RankFacts DEF Row
  <2>10. base[p][o] # rows[o]
    BY <1>1, <2>1, <2>6, <2>8, <2>9
  <2>. QED
    BY <1>1, <2>4, <2>10, CommitIsCommits
<1>2. IInv /\ [Next]_vars =>
        [\A o \in Orders :
            (rows[o].linked /\ Rank[rows'[o].status] < Rank[rows[o].status])
                => \E p \in Requests :
                        Commits(p) /\ base[p][o] # rows[o]]_vars
  BY <1>1
<1>. QED
  BY <1>2, BookInvariance, PTL DEF Spec, BackwardIsOvertaken

(* A pass leaves the rows nobody touched as a look would have them. *)
THEOREM PassSettlesCorrect == Spec => PassSettles
<1>1. ASSUME IInv, [Next]_vars, NEW p \in Requests, Commits(p),
             NEW o \in Reconciled(p), base[p][o] = rows[o]
      PROVE  ~NeedsReconciliation(rows'[o], got[p][o])
  <2>. USE DEF IInv
  <2>1. Next
    <3>1. ~UNCHANGED vars
      BY <1>1 DEF Commits, vars, request
    <3>. QED
      BY <1>1, <3>1
  <2>2. Commit(p)
    BY <1>1, <2>1, CommitsIsCommit
  <2>3. /\ o \in Orders /\ rows[o] \in Row /\ got[p][o] \in Reports
        /\ Wanted(p, o) = Taken(rows[o], got[p][o])
    BY <1>1, ReconciledFacts
  <2>. DEFINE taken == Taken(rows[o], got[p][o])
  <2>4. rows'[o] = Written(rows[o], rows[o], taken)
    BY <1>1, <2>2, <2>3 DEF Commit
  <2>5. taken \in Row
    BY <2>3, TakenFacts
  <2>6. ~NeedsReconciliation(taken, got[p][o])
    BY <2>3, NeedsIsMendable
  <2>. HIDE DEF taken
  <2>7. /\ rows'[o].status = taken.status
        /\ rows'[o].avg = taken.avg
        /\ rows'[o].reason = taken.reason
    BY <2>3, <2>4, <2>5, WrittenFacts
  <2>. QED
    BY <2>6, <2>7 DEF NeedsReconciliation
<1>2. IInv /\ [Next]_vars =>
        [\A p \in Requests : Commits(p) =>
            \A o \in Reconciled(p) :
                base[p][o] = rows[o] =>
                    ~NeedsReconciliation(rows'[o], got[p][o])]_vars
  BY <1>1
<1>. QED
  BY <1>2, BookInvariance, PTL DEF Spec, PassSettles

(* No pass matches an order that has no broker id. *)
THEOREM LostStaysLostCorrect == Spec => LostStaysLost
<1>1. ASSUME IInv, [Next]_vars, NEW o \in Orders,
             call[o] = "over", ~rows[o].linked
      PROVE  rows'[o] = rows[o]
  <2>. USE DEF IInv
  <2>1. CASE UNCHANGED vars
    BY <2>1 DEF vars
  <2>2. CASE Next /\ rows'[o] # rows[o]
    <3>1. PICK p \in Requests : Commit(p)
      BY <1>1, <2>2, StepInRow
    <3>. QED
      BY <1>1, <3>1, CommitRow
  <2>. QED
    BY <1>1, <2>1, <2>2
<1>2. IInv /\ [Next]_vars =>
        [\A o \in Orders :
            (call[o] = "over" /\ ~rows[o].linked) => rows'[o] = rows[o]]_vars
  BY <1>1
<1>. QED
  BY <1>2, BookInvariance, PTL DEF Spec, LostStaysLost

-----------------------------------------------------------------------------
(* The orders next to their reconciliation implement the order log. *)

logged == [o \in Orders |-> LoggedStatus(o)]
listed == {o \in Orders : book[o] # NotListed}

(* A step that changes the log in at most one order. *)
LEMMA LogOthers ==
    ASSUME NEW u \in Orders,
           \A o \in Orders \ {u} : rows'[o] = rows[o] /\ age'[o] = age[o]
    PROVE  logged' = [logged EXCEPT ![u] = LoggedStatus(u)']
  BY DEF logged, LoggedStatus

LEMMA PlacingLogs ==
    ASSUME TypeOK, RowsLag, CallsPend, NEW u \in Orders, Placing(u)
    PROVE  Log!Next \/ UNCHANGED <<logged, listed>>
<1>. USE DEF logged, listed
<1>1. listed' = listed
  BY PlacingRow
<1>2. \A o \in Orders \ {u} : rows'[o] = rows[o] /\ age'[o] = age[o]
  BY DEF Placing, Submit, Acknowledge, Refuse, Lose, TypeOK
<1>3. logged' = [logged EXCEPT ![u] = LoggedStatus(u)']
  BY <1>2, LogOthers
<1>4. logged[u] = LoggedStatus(u)
  OBVIOUS
<1>5. rows[u] \in AnyRow
  BY RowFacts DEF TypeOK
<1>6. CASE Submit(u)
  <2>1. logged[u] = "absent"
    BY <1>4, <1>6 DEF Submit, CallsPend, LoggedStatus
  <2>2. LoggedStatus(u)' = "PENDING"
    <3>1. CallsPend' /\ call'[u] = "calling"
      BY <1>6, PlacingCalls DEF Submit, TypeOK
    <3>. QED
      BY <3>1 DEF CallsPend, LoggedStatus
  <2>3. Log!Write(u)
    BY <1>1, <1>3, <2>1, <2>2 DEF Log!Write
  <2>. QED
    BY <2>3 DEF Log!Next
<1>7. CASE Acknowledge(u) \/ Refuse(u) \/ Lose(u)
  <2>1. call[u] = "calling" /\ age' = age
    BY <1>7 DEF Acknowledge, Refuse, Lose
  <2>2. logged[u] = "PENDING" /\ age[u] # 0
    BY <1>4, <2>1 DEF CallsPend, LoggedStatus
  <2>3. CASE Acknowledge(u)
    <3>1. rows'[u].linked
      BY <1>5, <2>3 DEF Acknowledge, TypeOK, AnyRow
    <3>2. LoggedStatus(u)' = "ACKNOWLEDGED"
      BY <2>1, <2>2, <3>1 DEF LoggedStatus
    <3>3. u \in listed
      BY <2>3 DEF Acknowledge
    <3>4. Log!Conclude(u, "ACKNOWLEDGED")
      BY <1>1, <1>3, <2>2, <3>2, <3>3 DEF Log!Conclude
    <3>. QED
      BY <3>4 DEF Log!Next, Log!Conclusions
  <2>4. CASE Refuse(u)
    <3>1. PICK s \in Refusals :
              rows' = [rows EXCEPT ![u].status = s, ![u].reason = TRUE]
      BY <2>4 DEF Refuse
    <3>2. rows'[u].status = s /\ ~rows'[u].linked
      BY <1>5, <2>1, <3>1 DEF TypeOK, AnyRow, CallsPend
    <3>3. LoggedStatus(u)' = s
      BY <2>1, <2>2, <3>2 DEF LoggedStatus
    <3>4. s \in {"REJECTED", "DISPATCH_FAILED"}
      BY RefusalsAssumption
    <3>5. Log!Conclude(u, s)
      BY <1>1, <1>3, <2>2, <3>3, <3>4 DEF Log!Conclude
    <3>. QED
      BY <3>4, <3>5 DEF Log!Next, Log!Conclusions
  <2>5. CASE Lose(u)
    BY <1>1, <2>5 DEF Lose, LoggedStatus
  <2>. QED
    BY <1>7, <2>3, <2>4, <2>5
<1>. QED
  BY <1>6, <1>7 DEF Placing

LEMMA BrokerLogs ==
    ASSUME TypeOK, CallsPend, NEW u \in Orders, Reach(u) \/ Advance(u)
    PROVE  Log!Next \/ UNCHANGED <<logged, listed>>
<1>. USE DEF logged, listed
<1>1. logged' = logged
  BY BrokerFrame DEF LoggedStatus
<1>2. PICK r \in Reports : book' = [book EXCEPT ![u] = r]
  BY DEF Reach, Advance
<1>3. listed' = listed \cup {u}
  BY <1>2, ListingFacts DEF TypeOK
<1>4. CASE Reach(u)
  <2>1. logged[u] = "PENDING" /\ u \notin listed
    BY <1>4 DEF Reach, CallsPend, LoggedStatus
  <2>2. Log!Accept(u)
    BY <1>1, <1>3, <2>1 DEF Log!Accept
  <2>. QED
    BY <2>2 DEF Log!Next
<1>5. CASE Advance(u)
  BY <1>1, <1>3, <1>5 DEF Advance
<1>. QED
  BY <1>4, <1>5

LEMMA StepLogs ==
    ASSUME IInv, [Next]_vars
    PROVE  [Log!Next]_<<logged, listed>>
<1>. USE DEF IInv, logged, listed
<1>1. ASSUME NEW u \in Orders, Placing(u)
      PROVE  Log!Next \/ UNCHANGED <<logged, listed>>
  BY <1>1, PlacingLogs
<1>2. ASSUME NEW u \in Orders, Reach(u) \/ Advance(u)
      PROVE  Log!Next \/ UNCHANGED <<logged, listed>>
  BY <1>2, BrokerLogs
<1>3. ASSUME NEW p \in Requests, Commit(p)
      PROVE  UNCHANGED <<logged, listed>>
  <2>1. UNCHANGED <<age, book>>
    BY <1>3 DEF Commit, placing
  <2>2. \A o \in Orders :
            /\ rows'[o].linked = rows[o].linked
            /\ ~rows[o].linked => rows'[o] = rows[o]
    BY <1>3, CommitRow
  <2>. QED
    BY <2>1, <2>2 DEF LoggedStatus
<1>4. CASE UNCHANGED <<rows, age, book>>
  BY <1>4 DEF LoggedStatus
<1>5. CASE UNCHANGED vars
  BY <1>4, <1>5 DEF vars, placing
<1>. QED
  BY <1>1, <1>2, <1>3, <1>4, <1>5, StepKinds, ReadingFrame, TellingFrame

(* Placing an order next to any passes and looks keeps the promises of the *)
(* log, the same that the queue's dispatch keeps: no pass concludes an     *)
(* order, and none unlinks one (reconcile_internal_orders_report).         *)
THEOREM BookLogImplemented == Spec => OrderLogSpec
<1>1. Init => Log!Init
  <2>. SUFFICES ASSUME Init PROVE Log!Init
    OBVIOUS
  <2>1. [o \in Orders |-> LoggedStatus(o)] = [o \in Orders |-> "absent"]
    BY DEF Init, LoggedStatus
  <2>2. {o \in Orders : book[o] # NotListed} = {}
    BY DEF Init
  <2>. QED
    BY <2>1, <2>2 DEF Log!Init
<1>2. IInv /\ [Next]_vars =>
        [Log!Next]_<<[o \in Orders |-> LoggedStatus(o)],
                     {o \in Orders : book[o] # NotListed}>>
  BY StepLogs DEF logged, listed
<1>. QED
  BY <1>1, <1>2, BookInvariance, PTL DEF Spec, OrderLogSpec, Log!Spec
=============================================================================
