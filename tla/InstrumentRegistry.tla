------------------------- MODULE InstrumentRegistry -------------------------
(***************************************************************************)
(* The instrument registry of one broker: which token of the broker stands *)
(* for which contract. Syncs download the broker's list and store it row   *)
(* by row, committing every Batch rows; a sync of the positions resolves   *)
(* what the broker reports by it, fetches the tokens it does not know, and *)
(* resolves again.                                                         *)
(*                                                                         *)
(* A mapping is found by its token and by its instrument, in two reads,    *)
(* and then written: both are unique keys of instrument_mappings. A write  *)
(* that meets another transaction's waits for it, and changes only the     *)
(* column that differed from the reading.                                  *)
(***************************************************************************)
EXTENDS Integers, FiniteSets

CONSTANTS
    Tokens,     \* broker_instrument_id
    Contracts,  \* what a token may stand for, by canonical id
    Rows,       \* ids of instrument_mappings
    Syncs,      \* requests that sync the broker's list
    Posts,      \* requests that sync the positions
    Batch,      \* rows a sync stores before it commits (1000)
    Blank       \* no token, contract or row

ASSUME BlankAssumption == Blank \notin Tokens \cup Contracts \cup Rows

ASSUME RequestsAssumption == Syncs \cap Posts = {}

ASSUME BatchAssumption == Batch \in Nat \ {0}

VARIABLES
    rows,      \* committed mappings, Absent where there is none
    insts,     \* committed instruments
    open,      \* contracts whose ledger row is open
    at,        \* where each request is
    book,      \* the list each request has downloaded
    todo,      \* tokens of it that are not stored yet
    cur,       \* the token being stored
    plan,      \* what the reads of its mapping found
    work,      \* rows as the transaction has written them ...
    wrote,     \* ... which of them it has written ...
    fresh,     \* ... and the instruments it has inserted
    fill,      \* rows stored since the last commit
    snap,      \* what the broker has reported: token |-> contract
    published, \* history: pairs of token and contract ever downloaded
    blend,     \* history: rows written on a reading that was overtaken,
    crossed,   \* ... by a transaction and committed
    mixed      \* history: requests whose syncs overlapped

dbVars == <<rows, insts>>
txVars == <<work, wrote, fresh, fill, blend>>
readVars == <<cur, plan>>
vars == <<dbVars, open, at, book, todo, readVars, txVars, snap,
          published, crossed, mixed>>

Requests == Syncs \cup Posts

Pairs == Tokens \X Contracts

Absent == [token |-> Blank, inst |-> Blank]

Mapping(t, c) == [token |-> t, inst |-> c]

Mappings == {Mapping(p[1], p[2]) : p \in Pairs}

(* A list gives a token one contract and a contract one token. *)
Lists == {m \in UNION {[listed -> Contracts] : listed \in SUBSET Tokens} :
              \A t, u \in DOMAIN m : m[t] = m[u] => t = u}

Unlisted == [t \in {} |-> Blank]

PairsOf(list) == {<<t, list[t]>> : t \in DOMAIN list}

NoPlan == [kind |-> "none", row |-> Blank, other |-> Blank, copy |-> Absent]

(* An earlier sync has filled the registry with some list. *)
Init ==
    /\ rows \in [Rows -> Mappings \cup {Absent}]
    /\ \A r, q \in Rows : (rows[r] # Absent /\ rows[q] # Absent /\ r # q) =>
            rows[r].token # rows[q].token /\ rows[r].inst # rows[q].inst
    /\ insts = {rows[r].inst : r \in {r \in Rows : rows[r] # Absent}}
    /\ open = {}
    /\ at = [a \in Requests |-> "idle"]
    /\ book = [a \in Requests |-> Unlisted]
    /\ todo = [a \in Requests |-> {}]
    /\ cur = [a \in Requests |-> Blank]
    /\ plan = [a \in Requests |-> NoPlan]
    /\ work = [a \in Requests |-> [r \in Rows |-> Absent]]
    /\ wrote = [a \in Requests |-> {}]
    /\ fresh = [a \in Requests |-> {}]
    /\ fill = [a \in Requests |-> 0]
    /\ snap = [a \in Requests |-> Unlisted]
    /\ published = {<<rows[r].token, rows[r].inst>> :
                        r \in {r \in Rows : rows[r] # Absent}}
    /\ blend = [a \in Requests |-> {}]
    /\ crossed = {}
    /\ mixed = {}

Goto(a, label) == at' = [at EXCEPT ![a] = label]

Syncing(a) == at[a] \in {"rows", "look", "write"}

(* From the download to the last use of what it was for.                   *)
Active(a) == Syncing(a) \/ at[a] \in {"stored", "refetched"}

(* The mappings as the transaction of a sees them. *)
Seen(a) == [r \in Rows |-> IF r \in wrote[a] THEN work[a][r] ELSE rows[r]]

-----------------------------------------------------------------------------
(* The wanted rows of the broker's list, whatever it lists by now.          *)
Download(a, wanted) ==
    LET others == {b \in Requests \ {a} : Active(b)}
    IN  /\ \E listed \in Lists :
            /\ DOMAIN listed \subseteq wanted
            /\ book' = [book EXCEPT ![a] = listed]
            /\ todo' = [todo EXCEPT ![a] = DOMAIN listed]
            /\ published' = published \cup PairsOf(listed)
        /\ mixed' = (mixed \ {a}) \cup others
                        \cup (IF others = {} THEN {} ELSE {a})
        /\ Goto(a, "rows")

SyncMaster(s) ==
    /\ at[s] = "idle"
    /\ Download(s, Tokens)
    /\ UNCHANGED <<dbVars, open, readVars, txVars, snap, crossed>>

(* upsert_canonical: an instrument that is there is updated, another is    *)
(* inserted, once no other transaction is inserting it.                    *)
UpsertCanonical(a) ==
    /\ at[a] = "rows"
    /\ fill[a] < Batch
    /\ \E t \in todo[a] :
        /\ \A b \in Requests \ {a} : book[a][t] \notin fresh[b]
        /\ cur' = [cur EXCEPT ![a] = t]
        /\ fresh' = [fresh EXCEPT ![a] = @ \cup ({book[a][t]} \ insts)]
    /\ Goto(a, "look")
    /\ UNCHANGED <<dbVars, open, book, todo, plan, work, wrote,
                   fill, blend, snap, published, crossed, mixed>>

(* Mutant: the writes of the transaction are not flushed before the reads. *)
RowWithUnflushed(a, column, key) ==
    {r \in Rows : rows[r] # Absent /\ rows[r][column] = key}

RowWith(a, column, key) ==
    {r \in Rows : Seen(a)[r] # Absent /\ Seen(a)[r][column] = key}

(* Mutant: the mapping is looked for by its token only. *)
PlannedByToken(a) ==
    LET byToken == RowWith(a, "token", cur[a])
        r == CHOOSE r \in byToken : TRUE
    IN  IF byToken = {} THEN [NoPlan EXCEPT !.kind = "insert"]
        ELSE [kind |-> "instrument", row |-> r, other |-> Blank,
              copy |-> Seen(a)[r]]

(* Mutant: the second read names the broker but not the instrument. *)
PlannedByBroker(a) ==
    LET byToken == RowWith(a, "token", cur[a])
        others == {r \in Rows : Seen(a)[r] # Absent} \ byToken
        Plan(kind, r, q) ==
            [kind |-> kind, row |-> r, other |-> q, copy |-> Seen(a)[r]]
    IN  CASE byToken = {} -> [NoPlan EXCEPT !.kind = "insert"]
          [] byToken # {} /\ others = {} ->
                Plan("instrument", CHOOSE r \in byToken : TRUE, Blank)
          [] OTHER ->
                Plan("merge", CHOOSE r \in byToken : TRUE,
                     CHOOSE q \in others : TRUE)

(* upsert_mapping: which row to write, by what the two reads find. They    *)
(* are one step: a commit between them leads where one after them does.    *)
Planned(a) ==
    LET byToken == RowWith(a, "token", cur[a])
        byInst == RowWith(a, "inst", book[a][cur[a]])
        Plan(kind, r, q) ==
            [kind |-> kind, row |-> r, other |-> q, copy |-> Seen(a)[r]]
    IN  CASE byToken = {} /\ byInst = {} -> [NoPlan EXCEPT !.kind = "insert"]
          [] byToken = {} /\ byInst # {} ->
                Plan("token", CHOOSE r \in byInst : TRUE, Blank)
          [] byToken # {} /\ byInst \subseteq byToken ->
                Plan("instrument", CHOOSE r \in byToken : TRUE, Blank)
          [] OTHER ->
                Plan("merge", CHOOSE r \in byToken : TRUE,
                     CHOOSE q \in byInst : TRUE)

LookUp(a) ==
    /\ at[a] = "look"
    /\ plan' = [plan EXCEPT ![a] = Planned(a)]
    /\ Goto(a, "write")
    /\ UNCHANGED <<dbVars, open, book, todo, cur, txVars, snap,
                   published, crossed, mixed>>

(* Mutant: a new row gets the token where the instrument belongs.          *)
FlushedMisplaced(a, r) ==
    LET p == plan[a]
        t == cur[a]
        c == book[a][t]
    IN  CASE p.kind = "insert" -> Mapping(t, t)
          [] p.kind = "token" -> [Seen(a)[r] EXCEPT !.token = t]
          [] OTHER -> [Seen(a)[r] EXCEPT
                          !.inst = IF p.copy.inst = c THEN @ ELSE c]

(* What the flush makes of row r. An UPDATE leaves a column that was read  *)
(* as it is to be, and takes the other from the row as it is by now.       *)
Flushed(a, r) ==
    LET p == plan[a]
        t == cur[a]
        c == book[a][t]
    IN  CASE p.kind = "insert" -> Mapping(t, c)
          [] p.kind = "token" -> [Seen(a)[r] EXCEPT !.token = t]
          [] OTHER -> [Seen(a)[r] EXCEPT
                          !.inst = IF p.copy.inst = c THEN @ ELSE c]

Collides(v, w) == v # Absent /\ w # Absent
                      /\ (v.token = w.token \/ v.inst = w.inst)

(* No other transaction has written the row or holds one of its keys.      *)
Unlocked(a, r, v) ==
    \A b \in Requests \ {a} : \A q \in wrote[b] :
        /\ q # r
        /\ ~ Collides(v, work[b][q])
        /\ ~ Collides(v, rows[q])

(* The unique keys, as they are when the statement runs. A row that is to  *)
(* be deleted in the same flush is still there: the unit of work sends     *)
(* UPDATEs before DELETEs.                                                 *)
Refused(a, r, v) ==
    \/ plan[a].kind # "insert" /\ Seen(a)[r] = Absent
    \/ \E q \in Rows \ {r} : Collides(v, Seen(a)[q])

(* The row the plan names; for an INSERT, any unused id. *)
Target(a) ==
    IF plan[a].kind = "insert"
    THEN {r \in Rows : rows[r] = Absent /\ \A b \in Requests : r \notin wrote[b]}
    ELSE {plan[a].row}

Stored(a) == todo' = [todo EXCEPT ![a] = @ \ {cur[a]}]

Gone(a) == {plan[a].other} \ {Blank}

(* The flush succeeds. A merge deletes the other row after its update.     *)
StoreMapping(a) ==
    /\ at[a] = "write"
    /\ \E r \in Target(a) :
        LET v == Flushed(a, r)
            gone == Gone(a)
        IN  /\ ~ Refused(a, r, v)
            /\ Unlocked(a, r, v)
            /\ \A b \in Requests \ {a} : gone \cap wrote[b] = {}
            /\ work' = [work EXCEPT ![a] =
                    [q \in Rows |-> IF q = r THEN v
                                   ELSE IF q \in gone THEN Absent ELSE @[q]]]
            /\ wrote' = [wrote EXCEPT ![a] = @ \cup {r} \cup gone]
            /\ blend' = [blend EXCEPT ![a] =
                    IF plan[a].kind = "insert" \/ Seen(a)[r] = plan[a].copy
                    THEN @ \ {r} ELSE @ \cup {r}]
    /\ Stored(a)
    /\ fill' = [fill EXCEPT ![a] = @ + 1]
    /\ Goto(a, "rows")
    /\ UNCHANGED <<dbVars, open, book, readVars, fresh, snap,
                   published, crossed, mixed>>

Emptied(a) ==
    /\ wrote' = [wrote EXCEPT ![a] = {}]
    /\ fresh' = [fresh EXCEPT ![a] = {}]
    /\ fill' = [fill EXCEPT ![a] = 0]
    /\ blend' = [blend EXCEPT ![a] = {}]

(* Rollback, and what the caller makes of it: a sync of the list reports   *)
(* it, a sync of the positions keeps its first counts.                     *)
GiveUp(a, label) ==
    /\ Emptied(a)
    /\ Goto(a, IF a \in Posts THEN "done" ELSE label)
    /\ UNCHANGED <<dbVars, open, book, todo, readVars, work, snap,
                   published, crossed, mixed>>

RefuseMapping(a) ==
    /\ at[a] = "write"
    /\ \E r \in Target(a) :
        /\ Refused(a, r, Flushed(a, r))
        /\ Unlocked(a, r, Flushed(a, r))
    /\ GiveUp(a, "refused")

(* The database fails a statement: a deadlock, an instrument that another  *)
(* transaction has inserted first, a lost connection.                      *)
FailSync(a) ==
    /\ Syncing(a)
    /\ GiveUp(a, "failed")

Commit(a) ==
    /\ at[a] = "rows"
    /\ fill[a] > 0
    /\ fill[a] = Batch \/ todo[a] = {}
    /\ rows' = Seen(a)
    /\ insts' = insts \cup fresh[a]
    /\ crossed' = (crossed \ wrote[a]) \cup blend[a]
    /\ Emptied(a)
    /\ UNCHANGED <<open, at, book, todo, readVars, work, snap,
                   published, mixed>>

(* Mutant: the last batch, a partial one, is not committed. *)
FinishSyncEarly(a) ==
    /\ at[a] = "rows"
    /\ todo[a] = {}
    /\ Goto(a, IF a \in Posts THEN "stored" ELSE "done")
    /\ Emptied(a)
    /\ UNCHANGED <<dbVars, open, book, todo, readVars, work, snap, published,
                   crossed, mixed>>

FinishSync(a) ==
    /\ at[a] = "rows"
    /\ todo[a] = {}
    /\ fill[a] = 0
    /\ Goto(a, IF a \in Posts THEN "stored" ELSE "done")
    /\ UNCHANGED <<dbVars, open, book, todo, readVars, txVars,
                   snap, published, crossed, mixed>>

-----------------------------------------------------------------------------
(* sync_from_broker_positionbook, before and after a sync of the tokens it *)
(* does not know. The broker reports a position by its present token.      *)
FetchPositions(a) ==
    /\ at[a] \in {"idle", "stored"}
    /\ \E reported \in Lists : snap' = [snap EXCEPT ![a] = reported]
    /\ Goto(a, IF at[a] = "idle" THEN "fetched" ELSE "refetched")
    /\ UNCHANGED <<dbVars, open, book, todo, readVars, txVars,
                   published, crossed, mixed>>

(* The broker does not answer, or has no credentials to be asked for its   *)
(* list with: the ledger stays as it is.                                   *)
FetchFails(a) ==
    /\ at[a] \in {"idle", "unmapped", "stored"}
    /\ Goto(a, "done")
    /\ UNCHANGED <<dbVars, open, book, todo, readVars, txVars,
                   snap, published, crossed, mixed>>

Mapped(column, key) ==
    {rows[r].inst : r \in {r \in Rows : rows[r] # Absent
                                            /\ rows[r][column] = key}}

(* _resolve_instrument: by the token, else by the trading symbol. A symbol *)
(* names a contract, and is taken to be that of the row's instrument.      *)
Resolve(t, c) ==
    IF Mapped("token", t) # {} THEN Mapped("token", t) ELSE Mapped("inst", c)

Shown(a) == UNION {Resolve(t, snap[a][t]) : t \in DOMAIN snap[a]}

Unmapped(a) == {t \in DOMAIN snap[a] : Resolve(t, snap[a][t]) = {}}

(* Rows that resolve are open, and every other row of the ledger is closed.*)
SettlePositions(a) ==
    /\ at[a] = "fetched"
    /\ open' = Shown(a)
    /\ todo' = [todo EXCEPT ![a] = Unmapped(a)]
    /\ Goto(a, IF Unmapped(a) = {} THEN "done" ELSE "unmapped")
    /\ UNCHANGED <<dbVars, book, readVars, txVars, snap,
                   published, crossed, mixed>>

SyncTokens(a) ==
    /\ at[a] = "unmapped"
    /\ Download(a, todo[a])
    /\ UNCHANGED <<dbVars, open, readVars, txVars, snap, crossed>>

(* Mutant: what the second look found is dropped. *)
ResettleNothing(a) ==
    /\ at[a] = "refetched"
    /\ Goto(a, "done")
    /\ UNCHANGED <<dbVars, open, book, todo, readVars, txVars, snap,
                   published, crossed, mixed>>

ResettlePositions(a) ==
    /\ at[a] = "refetched"
    /\ open' = Shown(a)
    /\ Goto(a, "done")
    /\ UNCHANGED <<dbVars, book, todo, readVars, txVars, snap,
                   published, crossed, mixed>>

-----------------------------------------------------------------------------
StepOf(a) ==
    \/ UpsertCanonical(a) \/ LookUp(a) \/ StoreMapping(a) \/ RefuseMapping(a)
    \/ FailSync(a) \/ Commit(a) \/ FinishSync(a)

PostStep(p) ==
    \/ FetchPositions(p) \/ FetchFails(p) \/ SettlePositions(p)
    \/ SyncTokens(p) \/ ResettlePositions(p)

Next ==
    \/ \E s \in Syncs : SyncMaster(s)
    \/ \E a \in Requests : StepOf(a)
    \/ \E p \in Posts : PostStep(p)

Spec == Init /\ [][Next]_vars

-----------------------------------------------------------------------------
(* Types of the variables. *)
TypeOK ==
    /\ rows \in [Rows -> Mappings \cup {Absent}]
    /\ insts \subseteq Contracts
    /\ open \subseteq Contracts
    /\ at \in [Requests -> {"idle", "rows", "look", "write", "stored", "done",
                            "refused", "failed", "fetched", "unmapped",
                            "refetched"}]
    /\ book \in [Requests -> Lists]
    /\ todo \in [Requests -> SUBSET Tokens]
    /\ cur \in [Requests -> Tokens \cup {Blank}]
    /\ plan \in [Requests ->
            [kind : {"none", "insert", "token", "instrument", "merge"},
             row : Rows \cup {Blank}, other : Rows \cup {Blank},
             copy : Mappings \cup {Absent}]]
    /\ work \in [Requests -> [Rows -> Mappings \cup {Absent}]]
    /\ wrote \in [Requests -> SUBSET Rows]
    /\ fresh \in [Requests -> SUBSET Contracts]
    /\ fill \in [Requests -> Nat]
    /\ snap \in [Requests -> Lists]
    /\ published \subseteq Pairs
    /\ blend \in [Requests -> SUBSET Rows]
    /\ crossed \subseteq Rows
    /\ mixed \subseteq Requests

(* The unique keys of the table, and of what each transaction sees. *)
KeysUnique ==
    \A r, q \in Rows : r # q =>
        /\ ~ Collides(rows[r], rows[q])
        /\ \A a \in Requests : ~ Collides(Seen(a)[r], Seen(a)[q])

(* Transactions that have not committed do not meet. *)
Locks ==
    \A a, b \in Requests : a # b => \A r \in wrote[a], q \in wrote[b] :
        /\ r # q
        /\ ~ Collides(work[a][r], work[b][q])

Pair(v) == <<v.token, v.inst>>

(* Every mapping in sight was listed, or blends two lists. *)
Provenance ==
    /\ \A r \in Rows : rows[r] # Absent =>
            Pair(rows[r]) \in published \/ r \in crossed
    /\ \A a \in Requests : \A r \in wrote[a] : work[a][r] # Absent =>
            Pair(work[a][r]) \in published \/ r \in blend[a]
    /\ \A a \in Requests : PairsOf(book[a]) \subseteq published

(* Where a request is says what it has in hand. *)
InHandOf(a) ==
    /\ ~ Syncing(a) => wrote[a] = {}
    /\ fill[a] = 0 => wrote[a] = {}
    /\ Syncing(a) => todo[a] \subseteq DOMAIN book[a]
    /\ at[a] \in {"look", "write"} => cur[a] \in todo[a]
    /\ at[a] = "write" =>
        /\ plan[a].kind # "none"
        /\ plan[a].kind # "insert" => plan[a].row \in Rows
        /\ plan[a].kind = "token" => plan[a].copy.inst = book[a][cur[a]]
        /\ plan[a].kind \in {"instrument", "merge"} =>
                plan[a].copy.token = cur[a]

InHand == \A a \in Requests : InHandOf(a)

(* What a request that has not been overlapped has read and stored is so   *)
(* still.                                                                  *)
AloneOf(a) ==
    Active(a) /\ a \notin mixed =>
        /\ \A b \in Requests \ {a} : ~ Active(b)
        /\ at[a] = "write" => plan[a] = Planned(a)
        /\ \A t \in DOMAIN book[a] \ todo[a] : \E r \in Rows :
                Seen(a)[r] = Mapping(t, book[a][t])
        /\ ~ Syncing(a) => todo[a] = {}

Alone == \A a \in Requests : AloneOf(a)

(* A list has a row for the token or for the contract of a mapping.        *)
Names(list, v) ==
    \/ v.token \in DOMAIN list
    \/ \E t \in DOMAIN list : list[t] = v.inst

(* What a request that has not been overlapped has written over committed  *)
(* mappings, its list names.                                               *)
LossesOf(a) ==
    a \notin mixed =>
        \A r \in wrote[a] : rows[r] # Absent /\ work[a][r] # rows[r] =>
            Names(book[a], rows[r])

Losses == \A a \in Requests : LossesOf(a)

(* Two lists never blend unless two syncs wrote a row on readings that     *)
(* overtook each other: a mapping no list has ever contained would send an *)
(* order for one contract to another (upsert_mapping, two unique keys).    *)
MappingWasListed ==
    \A r \in Rows : rows[r] # Absent =>
        Pair(rows[r]) \in published \/ r \in crossed

(* A sync that no other has overlapped is refused by the unique keys only  *)
(* where a token moves to a contract that has a mapping of its own (the    *)
(* merge in upsert_mapping).                                               *)
LoneRefusalIsMerge ==
    \A s \in Syncs : at[s] = "refused" /\ s \notin mixed =>
        plan[s].kind = "merge"

(* A sync that no other has overlapped takes a committed mapping away, by  *)
(* changing or by deleting it, only if its own list names the token or the *)
(* contract: what the broker does not list keeps its mapping. An overtaken *)
(* one may take any: a merge in upsert_mapping deletes the other row       *)
(* whatever that has become since it was read.                             *)
MappingLostIsListed ==
    [][\A r \in Rows : rows[r] # Absent /\ rows'[r] # rows[r] =>
            \E a \in Requests :
                /\ r \in wrote[a]
                /\ a \in mixed \/ Names(book[a], rows[r])]_vars

(* A sync that ran alone and reports success has stored every row of its   *)
(* list; no later row of it has undone an earlier one, in whatever order   *)
(* and batches they came.                                                  *)
Completes(a) ==
    Syncing(a) /\ at'[a] = IF a \in Posts THEN "stored" ELSE "done"

SyncMirrorsList ==
    [][\A a \in Requests : Completes(a) /\ a \notin mixed =>
            \A t \in DOMAIN book[a] : \E r \in Rows :
                rows[r] = Mapping(t, book[a][t])]_vars

(* After the sync of the unknown tokens, the second look at the positions  *)
(* shows each one whose token that sync has stored ("so positions don't    *)
(* disappear just due to missing mappings", api/v1/positions.py:270-271).  *)
RetryShowsHeld ==
    [][\A p \in Posts :
            at[p] = "refetched" /\ at'[p] = "done" /\ p \notin mixed =>
                \A t \in DOMAIN book[p] \cap DOMAIN snap[p] :
                    book[p][t] = snap[p][t] => snap[p][t] \in open']_vars

(* The inductive invariant.                                                *)
Core ==
    /\ TypeOK
    /\ KeysUnique
    /\ Locks
    /\ Provenance
    /\ InHand
    /\ Alone
    /\ LoneRefusalIsMerge

IInv == Core /\ Losses
=============================================================================
