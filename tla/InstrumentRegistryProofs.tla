----------------------- MODULE InstrumentRegistryProofs -----------------------
(***************************************************************************)
(* InstrumentRegistry for any number of tokens, contracts, rows, requests  *)
(* and any size of batch.                                                  *)
(*                                                                         *)
(* The argument: what a transaction sees obeys the unique keys and never   *)
(* meets what another has written (KeysUnique, Locks), so that a commit    *)
(* keeps the table's keys. A request nobody overlaps still finds what it   *)
(* read and stored (Alone); lists being one-to-one, no row of a list       *)
(* takes the mapping of an earlier one.                                    *)
(***************************************************************************)
EXTENDS InstrumentRegistry, TLAPS

USE DEF Requests

LEMMA ListFacts ==
    ASSUME NEW m \in Lists
    PROVE  /\ DOMAIN m \subseteq Tokens
           /\ \A t \in DOMAIN m : m[t] \in Contracts
           /\ \A t, u \in DOMAIN m : m[t] = m[u] => t = u
           /\ PairsOf(m) \subseteq Pairs
<1>1. PICK listed \in SUBSET Tokens : m \in [listed -> Contracts]
  BY DEF Lists
<1>2. \A t, u \in DOMAIN m : m[t] = m[u] => t = u
  BY DEF Lists
<1>. QED
  BY <1>1, <1>2 DEF PairsOf, Pairs

LEMMA MappingIsMapping ==
    ASSUME NEW t \in Tokens, NEW c \in Contracts
    PROVE  /\ Mapping(t, c) \in Mappings
           /\ Mapping(t, c).token = t /\ Mapping(t, c).inst = c
           /\ Mapping(t, c) # Absent
<1>1. <<t, c>> \in Pairs
  BY DEF Pairs
<1>2. Mapping(t, c) \in Mappings
  BY <1>1 DEF Mappings, Mapping
<1>3. Mapping(t, c).token = t /\ Mapping(t, c).inst = c
  BY DEF Mapping
<1>4. Absent.token = Blank /\ t # Blank
  BY BlankAssumption DEF Absent
<1>. QED
  BY <1>2, <1>3, <1>4

LEMMA MappingFacts ==
    ASSUME NEW v \in Mappings
    PROVE  /\ v.token \in Tokens /\ v.inst \in Contracts
           /\ v = [token |-> v.token, inst |-> v.inst]
           /\ Pair(v) \in Pairs
<1>1. PICK p \in Pairs : v = Mapping(p[1], p[2])
  BY DEF Mappings
<1>. QED
  BY <1>1 DEF Mapping, Pairs, Pair

LEMMA SeenType ==
    ASSUME TypeOK, NEW a \in Requests
    PROVE  /\ Seen(a) \in [Rows -> Mappings \cup {Absent}]
           /\ \A r \in Rows :
                Seen(a)[r] = IF r \in wrote[a] THEN work[a][r] ELSE rows[r]
  BY DEF TypeOK, Seen

(* What the reads of a mapping establish of the plan they make.            *)
Fits(a, p) ==
    LET t == cur[a]
        c == book[a][t]
        At(r) == Seen(a)[r]
    IN  /\ p.kind \in {"insert", "token", "instrument", "merge"}
        /\ p.kind \in {"insert", "token"} =>
               \A r \in Rows : At(r) = Absent \/ At(r).token # t
        /\ p.kind = "insert" =>
               \A r \in Rows : At(r) = Absent \/ At(r).inst # c
        /\ p.kind # "insert" =>
               p.row \in Rows /\ At(p.row) # Absent /\ p.copy = At(p.row)
        /\ p.kind = "token" => At(p.row).inst = c
        /\ p.kind \in {"instrument", "merge"} => At(p.row).token = t
        /\ p.kind = "instrument" =>
               \A r \in Rows : At(r) = Absent \/ At(r).inst # c \/ r = p.row
        /\ p.kind # "merge" => p.other = Blank
        /\ p.kind = "merge" =>
               /\ p.other \in Rows /\ p.other # p.row
               /\ At(p.other) # Absent /\ At(p.other).inst = c

PlanType ==
    [kind : {"none", "insert", "token", "instrument", "merge"},
     row : Rows \cup {Blank}, other : Rows \cup {Blank},
     copy : Mappings \cup {Absent}]

LEMMA PlannedFits ==
    ASSUME TypeOK, KeysUnique, NEW a \in Requests
    PROVE  Planned(a) \in PlanType /\ Fits(a, Planned(a))
<1>. DEFINE T == RowWith(a, "token", cur[a])
            I == RowWith(a, "inst", book[a][cur[a]])
            P(kind, r, q) == [kind |-> kind, row |-> r, other |-> q,
                              copy |-> Seen(a)[r]]
<1>0. Seen(a) \in [Rows -> Mappings \cup {Absent}]
  BY SeenType
<1>1. T = {r \in Rows : Seen(a)[r] # Absent /\ Seen(a)[r].token = cur[a]}
  BY DEF RowWith
<1>2. I = {r \in Rows : Seen(a)[r] # Absent
                            /\ Seen(a)[r].inst = book[a][cur[a]]}
  BY DEF RowWith
<1>3. \A r, q \in T : r = q
  BY <1>1 DEF KeysUnique, Collides
<1>4. CASE T = {} /\ I = {}
  <2>1. Planned(a) = [NoPlan EXCEPT !.kind = "insert"]
    BY <1>4 DEF Planned
  <2>. QED
    BY <2>1, <1>1, <1>2, <1>4 DEF NoPlan, Fits, PlanType
<1>5. CASE T = {} /\ I # {}
  <2>1. PICK r : r = CHOOSE x \in I : TRUE
    OBVIOUS
  <2>2. r \in I
    BY <2>1, <1>5
  <2>3. Planned(a) = P("token", r, Blank)
    BY <2>1, <1>5 DEF Planned
  <2>. QED
    BY <2>2, <2>3, <1>0, <1>1, <1>2, <1>5 DEF Fits, PlanType
<1>6. CASE T # {} /\ I \subseteq T
  <2>1. PICK r : r = CHOOSE x \in T : TRUE
    OBVIOUS
  <2>2. r \in T
    BY <2>1, <1>6
  <2>3. Planned(a) = P("instrument", r, Blank)
    BY <2>1, <1>6 DEF Planned
  <2>4. \A q \in I : q = r
    BY <2>2, <1>3, <1>6
  <2>. QED
    BY <2>2, <2>3, <2>4, <1>0, <1>1, <1>2 DEF Fits, PlanType
<1>7. CASE T # {} /\ ~ (I \subseteq T)
  <2>1. PICK r : r = CHOOSE x \in T : TRUE
    OBVIOUS
  <2>2. PICK q : q = CHOOSE x \in I : TRUE
    OBVIOUS
  <2>3. r \in T /\ q \in I
    BY <2>1, <2>2, <1>7
  <2>4. Planned(a) = P("merge", r, q)
    <3>1. I # {}
      BY <1>7
    <3>. QED
      BY <2>1, <2>2, <1>7, <3>1 DEF Planned
  <2>5. q # r
    <3>1. PICK z \in I : z \notin T
      BY <1>7
    <3>2. z = q
      BY <3>1, <2>3, <1>2 DEF KeysUnique, Collides
    <3>. QED
      BY <3>1, <3>2, <2>3
  <2>. QED
    BY <2>3, <2>4, <2>5, <1>0, <1>1, <1>2 DEF Fits, PlanType
<1>. QED
  BY <1>4, <1>5, <1>6, <1>7

-----------------------------------------------------------------------------
(* Types.                                                                  *)
LEMMA FlushedType ==
    ASSUME TypeOK, InHand, NEW a \in Requests, at[a] = "write",
           NEW r \in Target(a), ~ Refused(a, r, Flushed(a, r))
    PROVE  /\ r \in Rows /\ Flushed(a, r) \in Mappings
           /\ cur[a] \in todo[a] /\ cur[a] \in DOMAIN book[a]
           /\ book[a] \in Lists
<1>. DEFINE t == cur[a]
            c == book[a][t]
<1>1. InHandOf(a) /\ book[a] \in Lists /\ plan[a] \in PlanType
  BY DEF InHand, TypeOK, PlanType
<1>2. t \in todo[a] /\ t \in DOMAIN book[a]
  BY <1>1 DEF InHandOf, Syncing
<1>3. t \in Tokens /\ c \in Contracts
  BY <1>1, <1>2, ListFacts
<1>4. r \in Rows
  BY <1>1 DEF Target, InHandOf
<1>5. CASE plan[a].kind = "insert"
  <2>1. Flushed(a, r) = Mapping(t, c)
    BY <1>5 DEF Flushed
  <2>. QED
    BY <2>1, <1>1, <1>2, <1>3, <1>4, MappingIsMapping
<1>6. CASE plan[a].kind # "insert"
  <2>1. Seen(a)[r] # Absent
    BY <1>6 DEF Refused
  <2>2. Seen(a)[r] \in Mappings
    BY <2>1, <1>4, SeenType
  <2>. DEFINE s == Seen(a)[r]
  <2>3. s = [token |-> s.token, inst |-> s.inst]
           /\ s.token \in Tokens /\ s.inst \in Contracts
    BY <2>2, MappingFacts
  <2>4. \E u \in Tokens, d \in Contracts : Flushed(a, r) = Mapping(u, d)
    <3>1. CASE plan[a].kind = "token"
      <4>1. Flushed(a, r) = [s EXCEPT !.token = t]
        BY <3>1 DEF Flushed
      <4>. HIDE DEF s, t, c
      <4>2. Flushed(a, r) = Mapping(t, s.inst)
        BY <4>1, <2>3 DEF Mapping
      <4>. QED
        BY <4>2, <2>3, <1>3
    <3>2. CASE plan[a].kind # "token"
      <4>1. Flushed(a, r) = [s EXCEPT !.inst =
                                IF plan[a].copy.inst = c THEN @ ELSE c]
        BY <3>2, <1>6 DEF Flushed
      <4>. HIDE DEF s, t, c
      <4>2. \/ Flushed(a, r) = Mapping(s.token, s.inst)
            \/ Flushed(a, r) = Mapping(s.token, c)
        BY <4>1, <2>3 DEF Mapping
      <4>. QED
        BY <4>2, <2>3, <1>3
    <3>. QED
      BY <3>1, <3>2
  <2>. QED
    BY <2>4, <1>1, <1>2, <1>4, MappingIsMapping
<1>. QED
  BY <1>5, <1>6

LEMMA DownloadType ==
    ASSUME TypeOK, NEW a \in Requests, NEW wanted, Download(a, wanted)
    PROVE  /\ book' \in [Requests -> Lists]
           /\ todo' \in [Requests -> SUBSET Tokens]
           /\ published' \subseteq Pairs
           /\ mixed' \subseteq Requests
           /\ at' = [at EXCEPT ![a] = "rows"]
<1>1. PICK listed \in Lists :
            /\ book' = [book EXCEPT ![a] = listed]
            /\ todo' = [todo EXCEPT ![a] = DOMAIN listed]
            /\ published' = published \cup PairsOf(listed)
  BY DEF Download
<1>2. DOMAIN listed \subseteq Tokens /\ PairsOf(listed) \subseteq Pairs
  BY ListFacts
<1>3. mixed' \subseteq Requests
  <2>. DEFINE others == {b \in Requests \ {a} : Active(b)}
  <2>1. mixed' = (mixed \ {a}) \cup others
                    \cup (IF others = {} THEN {} ELSE {a})
    BY DEF Download
  <2>2. others \subseteq Requests
    OBVIOUS
  <2>. HIDE DEF others
  <2>. QED
    BY <2>1, <2>2 DEF TypeOK
<1>. QED
  BY <1>1, <1>2, <1>3 DEF Download, TypeOK, Goto

LEMMA NextTyped ==
    ASSUME TypeOK, KeysUnique, InHand, [Next]_vars
    PROVE  TypeOK'
<1>1. CASE \E s \in Syncs : SyncMaster(s)
  <2>1. PICK s \in Syncs : SyncMaster(s)
    BY <1>1
  <2>2. Download(s, Tokens)
    BY <2>1 DEF SyncMaster
  <2>. QED
    BY <2>1, <2>2, DownloadType
    DEF SyncMaster, TypeOK, dbVars, readVars, txVars
<1>2. ASSUME NEW a \in Requests, UpsertCanonical(a) PROVE TypeOK'
  <2>1. PICK t \in todo[a] :
            /\ cur' = [cur EXCEPT ![a] = t]
            /\ fresh' = [fresh EXCEPT ![a] = @ \cup ({book[a][t]} \ insts)]
    BY <1>2 DEF UpsertCanonical
  <2>2. t \in Tokens /\ t \in DOMAIN book[a] /\ book[a] \in Lists
    BY <1>2, <2>1 DEF TypeOK, InHand, InHandOf, Syncing, UpsertCanonical
  <2>3. book[a][t] \in Contracts
    BY <2>2, ListFacts
  <2>. QED
    BY <1>2, <2>1, <2>2, <2>3 DEF UpsertCanonical, TypeOK, dbVars, Goto
<1>3. ASSUME NEW a \in Requests, LookUp(a) PROVE TypeOK'
  <2>1. Planned(a) \in PlanType
    BY PlannedFits
  <2>. QED
    BY <1>3, <2>1 DEF LookUp, TypeOK, PlanType, dbVars, txVars, Goto
<1>4. ASSUME NEW a \in Requests, StoreMapping(a) PROVE TypeOK'
  <2>1. PICK r \in Target(a) :
            /\ ~ Refused(a, r, Flushed(a, r))
            /\ work' = [work EXCEPT ![a] =
                    [q \in Rows |-> IF q = r THEN Flushed(a, r)
                                   ELSE IF q \in Gone(a) THEN Absent
                                   ELSE @[q]]]
            /\ wrote' = [wrote EXCEPT ![a] = @ \cup {r} \cup Gone(a)]
            /\ blend' = [blend EXCEPT ![a] =
                    IF plan[a].kind = "insert" \/ Seen(a)[r] = plan[a].copy
                    THEN @ \ {r} ELSE @ \cup {r}]
    BY <1>4 DEF StoreMapping
  <2>2. r \in Rows /\ Flushed(a, r) \in Mappings
    BY <1>4, <2>1, FlushedType DEF StoreMapping
  <2>3. Gone(a) \subseteq Rows
    BY DEF TypeOK, Gone
  <2>4. work' \in [Requests -> [Rows -> Mappings \cup {Absent}]]
    BY <2>1, <2>2 DEF TypeOK
  <2>5. wrote' \in [Requests -> SUBSET Rows]
    BY <2>1, <2>2, <2>3 DEF TypeOK
  <2>6. blend' \in [Requests -> SUBSET Rows]
    BY <2>1, <2>2 DEF TypeOK
  <2>. QED
    BY <1>4, <2>4, <2>5, <2>6
    DEF StoreMapping, TypeOK, dbVars, readVars, Stored, Goto
<1>5. ASSUME NEW a \in Requests, RefuseMapping(a) PROVE TypeOK'
  BY <1>5 DEF RefuseMapping, GiveUp, Emptied, TypeOK, dbVars, readVars, Goto
<1>6. ASSUME NEW a \in Requests, FailSync(a) PROVE TypeOK'
  BY <1>6 DEF FailSync, GiveUp, Emptied, TypeOK, dbVars, readVars, Goto
<1>7. ASSUME NEW a \in Requests, Commit(a) PROVE TypeOK'
  <2>1. rows' \in [Rows -> Mappings \cup {Absent}]
    BY <1>7, SeenType DEF Commit
  <2>. QED
    BY <1>7, <2>1 DEF Commit, Emptied, TypeOK, readVars
<1>8. ASSUME NEW a \in Requests, FinishSync(a) PROVE TypeOK'
  BY <1>8 DEF FinishSync, TypeOK, dbVars, readVars, txVars, Goto
<1>9. ASSUME NEW a \in Posts, FetchPositions(a) PROVE TypeOK'
  BY <1>9 DEF FetchPositions, TypeOK, dbVars, readVars, txVars, Goto
<1>10. ASSUME NEW a \in Posts, FetchFails(a) PROVE TypeOK'
  BY <1>10 DEF FetchFails, TypeOK, dbVars, readVars, txVars, Goto
<1>11. ASSUME NEW a \in Posts, SettlePositions(a) \/ ResettlePositions(a)
       PROVE  TypeOK'
  <2>1. Unmapped(a) \subseteq Tokens
    <3>1. snap[a] \in Lists
      BY DEF TypeOK
    <3>. QED
      BY <3>1, ListFacts DEF Unmapped
  <2>2. Shown(a) \subseteq Contracts
    <3>1. \A column, key : Mapped(column, key) \subseteq Contracts
      BY MappingFacts DEF Mapped, TypeOK
    <3>. QED
      BY <3>1 DEF Shown, Resolve
  <2>3. CASE SettlePositions(a)
    <3>1. todo' \in [Requests -> SUBSET Tokens]
      BY <2>1, <2>3 DEF SettlePositions, TypeOK
    <3>. QED
      BY <2>2, <2>3, <3>1
      DEF SettlePositions, TypeOK, dbVars, readVars, txVars, Goto
  <2>4. CASE ResettlePositions(a)
    BY <2>2, <2>4
    DEF ResettlePositions, TypeOK, dbVars, readVars, txVars, Goto
  <2>. QED
    BY <1>11, <2>3, <2>4
<1>12. ASSUME NEW a \in Posts, SyncTokens(a) PROVE TypeOK'
  <2>1. Download(a, todo[a])
    BY <1>12 DEF SyncTokens
  <2>. QED
    BY <1>12, <2>1, DownloadType
    DEF SyncTokens, TypeOK, dbVars, readVars, txVars
<1>13. CASE UNCHANGED vars
  BY <1>13 DEF vars, TypeOK, dbVars, readVars, txVars
<1>. QED
  BY <1>1, <1>2, <1>3, <1>4, <1>5, <1>6, <1>7, <1>8, <1>9, <1>10, <1>11,
     <1>12, <1>13
  DEF Next, StepOf, PostStep

-----------------------------------------------------------------------------
(* What a step leaves as it is.                                            *)
LEMMA TableKept ==
    ASSUME KeysUnique, Locks,
           rows' = rows, work' = work, wrote' = wrote
    PROVE  KeysUnique' /\ Locks'
  BY DEF KeysUnique, Locks, Seen, Collides

LEMMA ProvenanceKept ==
    ASSUME Provenance, rows' = rows, work' = work, wrote' = wrote,
           book' = book, published' = published, blend' = blend,
           crossed' = crossed
    PROVE  Provenance'
  BY DEF Provenance

LEMMA InHandKept ==
    ASSUME NEW b \in Requests, InHandOf(b), at'[b] = at[b],
           wrote'[b] = wrote[b], fill'[b] = fill[b], todo'[b] = todo[b],
           book'[b] = book[b], cur'[b] = cur[b], plan'[b] = plan[b]
    PROVE  InHandOf(b)'
  BY DEF InHandOf, Syncing

(* While one request syncs, no other is alone.                             *)
LEMMA AloneBeside ==
    ASSUME NEW a \in Requests, NEW b \in Requests \ {a}, Active(a),
           AloneOf(b), at'[b] = at[b], mixed' = mixed
    PROVE  AloneOf(b)'
<1>1. Active(b) => b \in mixed
  BY DEF AloneOf
<1>. QED
  BY <1>1 DEF AloneOf, Active, Syncing

LEMMA RefusalKept ==
    ASSUME NEW b \in Requests, at'[b] = at[b], plan'[b] = plan[b],
           mixed' = mixed, LoneRefusalIsMerge, b \in Syncs,
           at'[b] = "refused", b \notin mixed'
    PROVE  plan'[b].kind = "merge"
  BY DEF LoneRefusalIsMerge

(* A step of a syncing request that changes none of the others' rows.      *)
LEMMA SyncStep ==
    ASSUME Core, NEW a \in Requests, Syncing(a), TypeOK',
           KeysUnique', Locks', Provenance', InHandOf(a)', AloneOf(a)',
           \A b \in Requests \ {a} :
               /\ at'[b] = at[b] /\ wrote'[b] = wrote[b]
               /\ fill'[b] = fill[b] /\ todo'[b] = todo[b]
               /\ book'[b] = book[b] /\ cur'[b] = cur[b]
               /\ plan'[b] = plan[b],
           mixed' = mixed,
           a \in Syncs /\ at'[a] = "refused" /\ a \notin mixed =>
               plan'[a].kind = "merge"
    PROVE  Core'
<1>1. InHand'
  <2>1. ASSUME NEW b \in Requests \ {a} PROVE InHandOf(b)'
    BY <2>1, InHandKept DEF Core, InHand
  <2>. QED
    BY <2>1 DEF InHand
<1>2. Alone'
  <2>1. ASSUME NEW b \in Requests \ {a} PROVE AloneOf(b)'
    BY <2>1, AloneBeside DEF Core, Alone, Active
  <2>. QED
    BY <2>1 DEF Alone
<1>3. LoneRefusalIsMerge'
  <2>. SUFFICES ASSUME NEW s \in Syncs, at'[s] = "refused", s \notin mixed'
                PROVE  plan'[s].kind = "merge"
    BY DEF LoneRefusalIsMerge
  <2>1. CASE s = a
    BY <2>1
  <2>2. CASE s # a
    BY <2>2, RefusalKept DEF Core
  <2>. QED
    BY <2>1, <2>2
<1>. QED
  BY <1>1, <1>2, <1>3 DEF Core

(* A step of a request that is not syncing and writes no mapping.          *)
LEMMA QuietStep ==
    ASSUME Core, NEW a \in Requests, TypeOK', ~ Active(a)', ~ Syncing(a),
           at'[a] # "refused",
           rows' = rows, work' = work, wrote' = wrote, fill' = fill,
           book' = book, published' = published, blend' = blend,
           crossed' = crossed, cur' = cur, plan' = plan, mixed' = mixed,
           \A b \in Requests \ {a} : at'[b] = at[b] /\ todo'[b] = todo[b]
    PROVE  Core'
<1>1. KeysUnique' /\ Locks' /\ Provenance'
  BY TableKept, ProvenanceKept DEF Core
<1>2. ~ Syncing(a)'
  BY DEF Active, Syncing
<1>3. InHand'
  <2>1. InHandOf(a)'
    BY <1>2 DEF InHandOf, Core, InHand, Syncing
  <2>2. ASSUME NEW b \in Requests \ {a} PROVE InHandOf(b)'
    BY <2>2, InHandKept DEF Core, InHand
  <2>. QED
    BY <2>1, <2>2 DEF InHand
<1>4. Alone'
  <2>1. ASSUME NEW b \in Requests, Active(b)', b \notin mixed'
        PROVE  AloneOf(b)'
    <3>1. b # a /\ at'[b] = at[b] /\ todo'[b] = todo[b]
      BY <2>1
    <3>2. Active(b) /\ AloneOf(b)
      BY <2>1, <3>1 DEF Active, Syncing, Core, Alone
    <3>3. Seen(b)' = Seen(b) /\ Planned(b)' = Planned(b)
      BY DEF Seen, Planned, RowWith
    <3>4. \A e \in Requests \ {b} : ~ Active(e)'
      BY <2>1, <3>2 DEF AloneOf, Active, Syncing
    <3>5. at'[b] = "write" => plan'[b] = Planned(b)'
      BY <2>1, <3>1, <3>2, <3>3 DEF AloneOf
    <3>6. \A t \in DOMAIN book'[b] \ todo'[b] : \E r \in Rows :
              Seen(b)'[r] = Mapping(t, book'[b][t])
      BY <2>1, <3>1, <3>2, <3>3 DEF AloneOf
    <3>7. ~ Syncing(b)' => todo'[b] = {}
      BY <2>1, <3>1, <3>2 DEF AloneOf, Syncing
    <3>. QED
      BY <3>4, <3>5, <3>6, <3>7 DEF AloneOf
  <2>2. ASSUME NEW b \in Requests, ~ (Active(b)' /\ b \notin mixed')
        PROVE  AloneOf(b)'
    BY <2>2 DEF AloneOf
  <2>. QED
    BY <2>1, <2>2 DEF Alone
<1>5. LoneRefusalIsMerge'
  BY DEF Core, LoneRefusalIsMerge
<1>. QED
  BY <1>1, <1>3, <1>4, <1>5 DEF Core

LEMMA DownloadStep ==
    ASSUME Core, NEW a \in Requests, NEW wanted, Download(a, wanted), TypeOK',
           at[a] \in {"idle", "unmapped"},
           rows' = rows, work' = work, wrote' = wrote, fill' = fill,
           blend' = blend, crossed' = crossed, cur' = cur, plan' = plan
    PROVE  Core'
<1>. DEFINE others == {b \in Requests \ {a} : Active(b)}
<1>1. PICK listed \in Lists :
            /\ book' = [book EXCEPT ![a] = listed]
            /\ todo' = [todo EXCEPT ![a] = DOMAIN listed]
            /\ published' = published \cup PairsOf(listed)
  BY DEF Download
<1>2. /\ at' = [at EXCEPT ![a] = "rows"]
      /\ mixed' = (mixed \ {a}) \cup others
                      \cup (IF others = {} THEN {} ELSE {a})
  BY DEF Download, Goto
<1>3. TypeOK
  BY DEF Core
<1>4. /\ at'[a] = "rows" /\ book'[a] = listed /\ todo'[a] = DOMAIN listed
      /\ \A b \in Requests \ {a} :
            at'[b] = at[b] /\ book'[b] = book[b] /\ todo'[b] = todo[b]
  BY <1>1, <1>2, <1>3 DEF TypeOK
<1>5. KeysUnique' /\ Locks'
  BY TableKept DEF Core
<1>6. Provenance'
  <2>1. Provenance
    BY DEF Core
  <2>2. \A b \in Requests : PairsOf(book'[b]) \subseteq published'
    <3>1. \A b \in Requests \ {a} : PairsOf(book[b]) \subseteq published
      BY <2>1 DEF Provenance
    <3>. QED
      BY <1>1, <1>4, <3>1
  <2>3. \A r \in Rows : rows'[r] # Absent =>
            Pair(rows'[r]) \in published' \/ r \in crossed'
    BY <1>1, <2>1 DEF Provenance
  <2>4. \A b \in Requests : \A r \in wrote'[b] : work'[b][r] # Absent =>
            Pair(work'[b][r]) \in published' \/ r \in blend'[b]
    BY <1>1, <2>1 DEF Provenance
  <2>. QED
    BY <2>2, <2>3, <2>4 DEF Provenance
<1>7. InHand'
  <2>1. wrote[a] = {}
    BY DEF Core, InHand, InHandOf, Syncing
  <2>2. InHandOf(a)'
    BY <2>1, <1>4 DEF InHandOf, Syncing
  <2>3. ASSUME NEW b \in Requests \ {a} PROVE InHandOf(b)'
    BY <2>3, <1>4, InHandKept DEF Core, InHand
  <2>. QED
    BY <2>2, <2>3 DEF InHand
<1>8. Alone'
  <2>. SUFFICES ASSUME NEW b \in Requests, Active(b)', b \notin mixed'
                PROVE  AloneOf(b)'
    BY DEF Alone, AloneOf
  <2>1. b = a
    <3>1. SUFFICES ASSUME b # a PROVE FALSE
      OBVIOUS
    <3>2. Active(b)
      BY <3>1, <1>4 DEF Active, Syncing
    <3>. QED
      BY <3>1, <3>2, <1>2
  <2>2. others = {}
    BY <2>1, <1>2
  <2>3. \A e \in Requests \ {a} : ~ Active(e)'
    BY <2>2, <1>4 DEF Active, Syncing
  <2>. QED
    BY <2>1, <2>3, <1>4 DEF AloneOf, Active, Syncing
<1>9. LoneRefusalIsMerge'
  <2>. SUFFICES ASSUME NEW s \in Syncs, at'[s] = "refused", s \notin mixed'
                PROVE  plan'[s].kind = "merge"
    BY DEF LoneRefusalIsMerge
  <2>1. s # a /\ at[s] = "refused"
    BY <1>4
  <2>2. s \notin mixed
    BY <2>1, <1>2
  <2>. QED
    BY <2>1, <2>2 DEF Core, LoneRefusalIsMerge
<1>. QED
  BY <1>5, <1>6, <1>7, <1>8, <1>9 DEF Core

-----------------------------------------------------------------------------
(* The steps of a sync.                                                    *)
LEMMA UpsertStep ==
    ASSUME Core, NEW a \in Requests, UpsertCanonical(a), TypeOK'
    PROVE  Core'
<1>1. PICK t \in todo[a] : cur' = [cur EXCEPT ![a] = t]
  BY DEF UpsertCanonical
<1>2. TypeOK /\ at[a] = "rows" /\ at' = [at EXCEPT ![a] = "look"]
  BY DEF UpsertCanonical, Goto, Core
<1>3. /\ at'[a] = "look" /\ cur'[a] = t
      /\ \A b \in Requests \ {a} : at'[b] = at[b] /\ cur'[b] = cur[b]
  BY <1>1, <1>2 DEF TypeOK
<1>4. /\ rows' = rows /\ book' = book /\ todo' = todo /\ plan' = plan
      /\ work' = work /\ wrote' = wrote /\ fill' = fill /\ blend' = blend
      /\ published' = published /\ crossed' = crossed /\ mixed' = mixed
  BY DEF UpsertCanonical, dbVars
<1>5. KeysUnique' /\ Locks' /\ Provenance'
  BY <1>4, TableKept, ProvenanceKept DEF Core
<1>6. InHandOf(a)'
  BY <1>2, <1>3, <1>4 DEF Core, InHand, InHandOf, Syncing
<1>7. AloneOf(a)'
  <2>1. Seen(a)' = Seen(a)
    BY <1>4 DEF Seen
  <2>2. AloneOf(a)
    BY DEF Core, Alone
  <2>. SUFFICES ASSUME a \notin mixed PROVE AloneOf(a)'
    BY <1>4 DEF AloneOf
  <2>3. \A b \in Requests \ {a} : ~ Active(b)'
    BY <1>2, <1>3, <2>2 DEF AloneOf, Active, Syncing
  <2>4. \A u \in DOMAIN book'[a] \ todo'[a] : \E r \in Rows :
            Seen(a)'[r] = Mapping(u, book'[a][u])
    BY <1>2, <1>4, <2>1, <2>2 DEF AloneOf, Active, Syncing
  <2>. QED
    BY <1>3, <2>3, <2>4 DEF AloneOf, Active, Syncing
<1>. QED
  BY <1>2, <1>3, <1>4, <1>5, <1>6, <1>7, SyncStep DEF Syncing

LEMMA LookUpStep ==
    ASSUME Core, NEW a \in Requests, LookUp(a), TypeOK'
    PROVE  Core'
<1>1. TypeOK /\ KeysUnique /\ at[a] = "look"
      /\ at' = [at EXCEPT ![a] = "write"]
      /\ plan' = [plan EXCEPT ![a] = Planned(a)]
  BY DEF LookUp, Goto, Core
<1>2. /\ at'[a] = "write" /\ plan'[a] = Planned(a)
      /\ \A b \in Requests \ {a} : at'[b] = at[b] /\ plan'[b] = plan[b]
  BY <1>1 DEF TypeOK
<1>3. /\ rows' = rows /\ book' = book /\ todo' = todo /\ cur' = cur
      /\ work' = work /\ wrote' = wrote /\ fill' = fill /\ blend' = blend
      /\ published' = published /\ crossed' = crossed /\ mixed' = mixed
  BY DEF LookUp, dbVars, txVars
<1>4. KeysUnique' /\ Locks' /\ Provenance'
  BY <1>3, TableKept, ProvenanceKept DEF Core
<1>5. Fits(a, Planned(a))
  BY <1>1, PlannedFits
<1>6. InHandOf(a)'
  <2>1. InHandOf(a)
    BY DEF Core, InHand
  <2>2. /\ Planned(a).kind # "none"
        /\ Planned(a).kind # "insert" => Planned(a).row \in Rows
        /\ Planned(a).kind = "token" =>
                Planned(a).copy.inst = book[a][cur[a]]
        /\ Planned(a).kind \in {"instrument", "merge"} =>
                Planned(a).copy.token = cur[a]
    BY <1>5 DEF Fits
  <2>. QED
    BY <1>1, <1>2, <1>3, <2>1, <2>2 DEF InHandOf, Syncing
<1>7. AloneOf(a)'
  <2>1. Seen(a)' = Seen(a) /\ Planned(a)' = Planned(a)
    BY <1>3 DEF Seen, Planned, RowWith
  <2>2. AloneOf(a)
    BY DEF Core, Alone
  <2>. SUFFICES ASSUME a \notin mixed PROVE AloneOf(a)'
    BY <1>3 DEF AloneOf
  <2>3. \A b \in Requests \ {a} : ~ Active(b)'
    BY <1>1, <1>2, <2>2 DEF AloneOf, Active, Syncing
  <2>4. \A u \in DOMAIN book'[a] \ todo'[a] : \E r \in Rows :
            Seen(a)'[r] = Mapping(u, book'[a][u])
    BY <1>1, <1>3, <2>1, <2>2 DEF AloneOf, Active, Syncing
  <2>. QED
    BY <1>2, <2>1, <2>3, <2>4 DEF AloneOf, Active, Syncing
<1>. QED
  BY <1>1, <1>2, <1>3, <1>4, <1>6, <1>7, SyncStep DEF Syncing

(* What a request that is alone plans, it may write unless it is a merge.  *)
LEMMA LonePlan ==
    ASSUME Core, NEW a \in Requests, at[a] = "write", a \notin mixed,
           NEW r \in Target(a)
    PROVE  /\ Fits(a, plan[a])
           /\ Refused(a, r, Flushed(a, r)) <=> plan[a].kind = "merge"
           /\ plan[a].kind = "insert" => Seen(a)[r] = Absent
           /\ Flushed(a, r) = Mapping(cur[a], book[a][cur[a]])
<1>. DEFINE t == cur[a]
            c == book[a][t]
            v == Flushed(a, r)
<1>1. TypeOK /\ KeysUnique /\ InHandOf(a) /\ AloneOf(a)
  BY DEF Core, InHand, Alone
<1>2. Fits(a, plan[a])
  BY <1>1, PlannedFits DEF AloneOf, Active, Syncing
<1>3. t \in Tokens /\ c \in Contracts
  <2>1. book[a] \in Lists /\ t \in DOMAIN book[a]
    BY <1>1 DEF TypeOK, InHandOf, Syncing
  <2>. QED
    BY <2>1, ListFacts
<1>4. r \in Rows
  BY <1>1 DEF Target, InHandOf
<1>5. plan[a].kind = "insert" => Seen(a)[r] = Absent
  BY <1>1, <1>4, SeenType DEF Target
<1>6. plan[a].kind # "insert" => /\ r = plan[a].row /\ Seen(a)[r] # Absent
                                /\ plan[a].copy = Seen(a)[r]
  BY <1>2 DEF Fits, Target
<1>7. v = Mapping(t, c)
  <2>1. CASE plan[a].kind = "insert"
    BY <2>1 DEF Flushed
  <2>2. CASE plan[a].kind # "insert"
    <3>. DEFINE s == Seen(a)[r]
    <3>1. s \in Mappings
      BY <2>2, <1>1, <1>4, <1>6, SeenType
    <3>2. s = [token |-> s.token, inst |-> s.inst]
      BY <3>1, MappingFacts
    <3>3. CASE plan[a].kind = "token"
      <4>1. s.inst = c
        BY <3>3, <1>2, <1>6 DEF Fits
      <4>2. v = [s EXCEPT !.token = t]
        BY <3>3 DEF Flushed
      <4>. HIDE DEF s, t, c, v
      <4>. QED
        BY <4>1, <4>2, <3>2 DEF Mapping
    <3>4. CASE plan[a].kind # "token"
      <4>1. s.token = t
        BY <3>4, <2>2, <1>2, <1>6 DEF Fits
      <4>2. v = [s EXCEPT !.inst = IF s.inst = c THEN @ ELSE c]
        BY <3>4, <2>2, <1>6 DEF Flushed
      <4>. HIDE DEF s, t, c, v
      <4>. QED
        BY <4>1, <4>2, <3>2 DEF Mapping
    <3>. QED
      BY <3>3, <3>4
  <2>. QED
    BY <2>1, <2>2
<1>8. v.token = t /\ v.inst = c /\ v # Absent
  BY <1>3, <1>7, MappingIsMapping
<1>9. ASSUME plan[a].kind = "merge" PROVE Refused(a, r, v)
  <2>1. /\ plan[a].other \in Rows \ {r}
        /\ Seen(a)[plan[a].other] # Absent
        /\ Seen(a)[plan[a].other].inst = c
    BY <1>2, <1>6, <1>9 DEF Fits
  <2>. QED
    BY <2>1, <1>8 DEF Refused, Collides
<1>10. ASSUME plan[a].kind # "merge" PROVE ~ Refused(a, r, v)
  <2>1. \A q \in Rows \ {r} : ~ Collides(v, Seen(a)[q])
    <3>. SUFFICES ASSUME NEW q \in Rows \ {r}, Seen(a)[q] # Absent
                  PROVE  Seen(a)[q].token # t /\ Seen(a)[q].inst # c
      BY <1>8 DEF Collides
    <3>1. CASE plan[a].kind = "insert"
      BY <3>1, <1>2 DEF Fits
    <3>2. CASE plan[a].kind = "token"
      <4>1. Seen(a)[r].inst = c /\ Seen(a)[r] # Absent
        BY <3>2, <1>2, <1>6 DEF Fits
      <4>2. Seen(a)[q].inst # c
        BY <4>1, <1>1, <1>4 DEF KeysUnique, Collides
      <4>. QED
        BY <3>2, <4>2, <1>2 DEF Fits
    <3>3. CASE plan[a].kind = "instrument"
      <4>1. Seen(a)[r].token = t /\ Seen(a)[r] # Absent
        BY <3>3, <1>2, <1>6 DEF Fits
      <4>2. Seen(a)[q].token # t
        BY <4>1, <1>1, <1>4 DEF KeysUnique, Collides
      <4>. QED
        BY <3>3, <4>2, <1>2, <1>6 DEF Fits
    <3>. QED
      BY <3>1, <3>2, <3>3, <1>2, <1>10 DEF Fits
  <2>. QED
    BY <2>1, <1>6, <1>8 DEF Refused
<1>. QED
  BY <1>2, <1>5, <1>7, <1>9, <1>10

LEMMA StoreStep ==
    ASSUME Core, NEW a \in Requests, StoreMapping(a), TypeOK'
    PROVE  Core'
<1>. DEFINE t == cur[a]
            c == book[a][t]
<1>1. PICK r \in Target(a) :
            /\ ~ Refused(a, r, Flushed(a, r))
            /\ Unlocked(a, r, Flushed(a, r))
            /\ \A b \in Requests \ {a} : Gone(a) \cap wrote[b] = {}
            /\ work' = [work EXCEPT ![a] =
                    [q \in Rows |-> IF q = r THEN Flushed(a, r)
                                   ELSE IF q \in Gone(a) THEN Absent
                                   ELSE @[q]]]
            /\ wrote' = [wrote EXCEPT ![a] = @ \cup {r} \cup Gone(a)]
            /\ blend' = [blend EXCEPT ![a] =
                    IF plan[a].kind = "insert" \/ Seen(a)[r] = plan[a].copy
                    THEN @ \ {r} ELSE @ \cup {r}]
  BY DEF StoreMapping
<1>. DEFINE v == Flushed(a, r)
<1>2. /\ TypeOK /\ KeysUnique /\ Locks /\ Provenance /\ InHandOf(a)
      /\ AloneOf(a) /\ InHand
  BY DEF Core, InHand, Alone
<1>3. /\ at[a] = "write" /\ at' = [at EXCEPT ![a] = "rows"]
      /\ todo' = [todo EXCEPT ![a] = @ \ {t}]
      /\ fill' = [fill EXCEPT ![a] = @ + 1]
  BY DEF StoreMapping, Goto, Stored
<1>4. /\ rows' = rows /\ book' = book /\ cur' = cur /\ plan' = plan
      /\ published' = published /\ crossed' = crossed /\ mixed' = mixed
  BY DEF StoreMapping, dbVars, readVars
<1>5. /\ r \in Rows /\ v \in Mappings /\ t \in todo[a]
      /\ t \in DOMAIN book[a] /\ book[a] \in Lists
  BY <1>1, <1>2, <1>3, FlushedType
<1>6. t \in Tokens /\ c \in Contracts
  BY <1>5, ListFacts
<1>7. /\ \A b \in Requests \ {a} :
            /\ at'[b] = at[b] /\ wrote'[b] = wrote[b] /\ work'[b] = work[b]
            /\ fill'[b] = fill[b] /\ todo'[b] = todo[b]
            /\ blend'[b] = blend[b]
      /\ at'[a] = "rows" /\ todo'[a] = todo[a] \ {t}
      /\ fill'[a] = fill[a] + 1
      /\ wrote'[a] = wrote[a] \cup {r} \cup Gone(a)
      /\ blend'[a] = IF plan[a].kind = "insert" \/ Seen(a)[r] = plan[a].copy
                     THEN blend[a] \ {r} ELSE blend[a] \cup {r}
  BY <1>1, <1>2, <1>3 DEF TypeOK
<1>8. \A q \in Rows : work'[a][q] = IF q = r THEN v
                                     ELSE IF q \in Gone(a) THEN Absent
                                     ELSE work[a][q]
  BY <1>1, <1>2 DEF TypeOK
<1>9. Gone(a) \subseteq Rows
  BY <1>2 DEF TypeOK, Gone
<1>. HIDE DEF v, c, t
<1>10. \A q \in Rows : Seen(a)'[q] = IF q = r THEN v
                                      ELSE IF q \in Gone(a) THEN Absent
                                      ELSE Seen(a)[q]
  BY <1>4, <1>7, <1>8 DEF Seen
<1>11. \A b \in Requests \ {a} : Seen(b)' = Seen(b)
  BY <1>4, <1>7 DEF Seen
<1>12. \A q \in Rows \ {r} : ~ Collides(v, Seen(a)[q])
  BY <1>1 DEF Refused, v
<1>13. KeysUnique'
  <2>1. ASSUME NEW x \in Rows, NEW y \in Rows, x # y
        PROVE  ~ Collides(Seen(a)'[x], Seen(a)'[y])
    <3>1. ~ Collides(Seen(a)[x], Seen(a)[y])
      BY <2>1, <1>2 DEF KeysUnique
    <3>2. CASE x = r
      BY <2>1, <3>2, <1>10, <1>12 DEF Collides
    <3>3. CASE y = r
      BY <2>1, <3>3, <1>10, <1>12 DEF Collides
    <3>4. CASE x # r /\ y # r
      BY <3>1, <3>4, <1>10 DEF Collides
    <3>. QED
      BY <3>2, <3>3, <3>4
  <2>2. \A b \in Requests \ {a}, x, y \in Rows : x # y =>
            ~ Collides(Seen(b)'[x], Seen(b)'[y])
    BY <1>2, <1>11 DEF KeysUnique
  <2>3. \A x, y \in Rows : x # y => ~ Collides(rows'[x], rows'[y])
    BY <1>2, <1>4 DEF KeysUnique
  <2>4. \A b \in Requests, x, y \in Rows : x # y =>
            ~ Collides(Seen(b)'[x], Seen(b)'[y])
    BY <2>1, <2>2
  <2>. QED
    BY <2>3, <2>4 DEF KeysUnique
<1>14. Locks'
  <2>1. ASSUME NEW b \in Requests \ {a}, NEW x \in wrote'[a],
               NEW y \in wrote'[b]
        PROVE  /\ x # y
               /\ ~ Collides(work'[a][x], work'[b][y])
               /\ ~ Collides(work'[b][y], work'[a][x])
    <3>1. y \in wrote[b] /\ work'[b] = work[b]
      BY <2>1, <1>7
    <3>2. CASE x = r
      <4>1. y # r /\ ~ Collides(v, work[b][y])
        BY <1>1, <3>1 DEF Unlocked, v
      <4>. QED
        BY <3>1, <3>2, <4>1, <1>5, <1>8 DEF Collides
    <3>3. CASE x # r /\ x \in Gone(a)
      BY <3>1, <3>3, <1>1, <1>8, <1>9 DEF Collides
    <3>4. CASE x # r /\ x \notin Gone(a)
      <4>1. x \in wrote[a] /\ x \in Rows
        BY <3>4, <1>2, <1>7 DEF TypeOK
      <4>2. x # y /\ ~ Collides(work[a][x], work[b][y])
        BY <3>1, <4>1, <1>2 DEF Locks
      <4>. QED
        BY <3>1, <3>4, <4>1, <4>2, <1>8 DEF Collides
    <3>. QED
      BY <3>2, <3>3, <3>4
  <2>2. \A b, d \in Requests \ {a} : b # d =>
            \A x \in wrote'[b], y \in wrote'[d] :
                x # y /\ ~ Collides(work'[b][x], work'[d][y])
    BY <1>2, <1>7 DEF Locks
  <2>. QED
    BY <2>1, <2>2 DEF Locks
<1>15. Provenance'
  <2>1. Pair(v) \in published \/ r \in blend'[a]
    <3>1. PairsOf(book[a]) \subseteq published
      BY <1>2 DEF Provenance
    <3>2. <<t, c>> \in published
      BY <3>1, <1>5 DEF PairsOf, c
    <3>3. CASE plan[a].kind = "insert"
      <4>1. v = Mapping(t, c)
        BY <3>3 DEF Flushed, v, t, c
      <4>. QED
        BY <3>2, <4>1 DEF Mapping, Pair
    <3>4. CASE plan[a].kind # "insert" /\ Seen(a)[r] = plan[a].copy
      <4>. DEFINE s == Seen(a)[r]
      <4>1. s # Absent /\ s \in Mappings
        BY <3>4, <1>1, <1>2, <1>5, SeenType DEF Refused
      <4>2. s = [token |-> s.token, inst |-> s.inst]
        BY <4>1, MappingFacts
      <4>3. CASE plan[a].kind = "token"
        <5>1. s.inst = c
          BY <3>4, <4>3, <1>2, <1>3 DEF InHandOf, c, t
        <5>2. v = [s EXCEPT !.token = t]
          BY <4>3 DEF Flushed, v, t
        <5>. HIDE DEF s
        <5>3. v.token = t /\ v.inst = c
          BY <4>2, <5>1, <5>2
        <5>. QED
          BY <5>3, <3>2 DEF Pair
      <4>4. CASE plan[a].kind # "token"
        <5>1. plan[a].kind \in {"instrument", "merge"}
          BY <3>4, <4>4, <1>2, <1>3 DEF TypeOK, InHandOf
        <5>2. s.token = t
          BY <3>4, <5>1, <1>2, <1>3 DEF InHandOf, t
        <5>3. v = [s EXCEPT !.inst = IF s.inst = c THEN @ ELSE c]
          BY <3>4, <4>4 DEF Flushed, v, t, c
        <5>. HIDE DEF s
        <5>4. v.token = t /\ v.inst = c
          BY <4>2, <5>2, <5>3
        <5>. QED
          BY <5>4, <3>2 DEF Pair
      <4>. QED
        BY <4>3, <4>4
    <3>5. CASE plan[a].kind # "insert" /\ Seen(a)[r] # plan[a].copy
      BY <3>5, <1>7
    <3>. QED
      BY <3>3, <3>4, <3>5
  <2>2. ASSUME NEW x \in wrote'[a], work'[a][x] # Absent
        PROVE  Pair(work'[a][x]) \in published \/ x \in blend'[a]
    <3>1. x \in Rows
      BY <2>2, <1>2, <1>5, <1>7, <1>9 DEF TypeOK
    <3>2. CASE x = r
      BY <2>1, <3>1, <3>2, <1>8
    <3>3. CASE x # r
      <4>1. x \notin Gone(a) /\ x \in wrote[a] /\ work'[a][x] = work[a][x]
        BY <2>2, <3>1, <3>3, <1>7, <1>8
      <4>2. Pair(work[a][x]) \in published \/ x \in blend[a]
        BY <2>2, <4>1, <1>2 DEF Provenance
      <4>. QED
        BY <3>3, <4>1, <4>2, <1>7
    <3>. QED
      BY <3>2, <3>3
  <2>3. \A b \in Requests \ {a} : \A x \in wrote'[b] : work'[b][x] # Absent =>
            Pair(work'[b][x]) \in published \/ x \in blend'[b]
    BY <1>2, <1>7 DEF Provenance
  <2>4. \A x \in Rows : rows'[x] # Absent =>
            Pair(rows'[x]) \in published \/ x \in crossed'
    BY <1>2, <1>4 DEF Provenance
  <2>5. \A b \in Requests : PairsOf(book'[b]) \subseteq published'
    BY <1>2, <1>4 DEF Provenance
  <2>6. \A b \in Requests : \A x \in wrote'[b] : work'[b][x] # Absent =>
            Pair(work'[b][x]) \in published' \/ x \in blend'[b]
    BY <2>2, <2>3, <1>4
  <2>. QED
    BY <2>4, <2>5, <2>6, <1>4 DEF Provenance
<1>16. InHandOf(a)'
  <2>1. fill'[a] # 0
    <3>1. fill[a] \in Nat
      BY <1>2 DEF TypeOK
    <3>. QED
      BY <3>1, <1>7
  <2>2. todo[a] \subseteq DOMAIN book[a]
    BY <1>2, <1>3 DEF InHandOf, Syncing
  <2>. QED
    BY <2>1, <2>2, <1>4, <1>7 DEF InHandOf, Syncing
<1>17. AloneOf(a)'
  <2>. SUFFICES ASSUME a \notin mixed PROVE AloneOf(a)'
    BY <1>4 DEF AloneOf
  <2>1. /\ Fits(a, plan[a]) /\ plan[a].kind # "merge"
        /\ plan[a].kind = "insert" => Seen(a)[r] = Absent
        /\ v = Mapping(t, c)
    BY <1>1, <1>3, LonePlan DEF v, c, t
  <2>2. Gone(a) = {}
    BY <2>1 DEF Fits, Gone
  <2>3. \A b \in Requests \ {a} : ~ Active(b)'
    BY <1>2, <1>3, <1>7 DEF AloneOf, Active, Syncing
  <2>4. ASSUME NEW u \in DOMAIN book[a], u \notin todo[a]
        PROVE  \E q \in Rows : Seen(a)'[q] = Mapping(u, book[a][u])
    <3>1. PICK q \in Rows : Seen(a)[q] = Mapping(u, book[a][u])
      BY <2>4, <1>2, <1>3 DEF AloneOf, Active, Syncing
    <3>2. u # t /\ book[a][u] # c
      BY <2>4, <1>5, ListFacts DEF c
    <3>3. Seen(a)[q].token # t /\ Seen(a)[q].inst # c /\ Seen(a)[q] # Absent
      <4>1. u \in Tokens /\ book[a][u] \in Contracts
        BY <1>5, <2>4, ListFacts
      <4>. QED
        BY <3>1, <3>2, <4>1, MappingIsMapping
    <3>4. q # r
      <4>1. plan[a].kind # "insert" => r = plan[a].row
        BY DEF Target
      <4>2. \/ Seen(a)[r] = Absent
            \/ Seen(a)[r].token = t
            \/ Seen(a)[r].inst = c
        BY <2>1, <4>1 DEF Fits, t, c
      <4>. QED
        BY <3>3, <4>2
    <3>. QED
      BY <3>1, <3>4, <2>2, <1>10
  <2>5. Seen(a)'[r] = Mapping(t, c)
    BY <2>1, <1>5, <1>10
  <2>6. \A u \in DOMAIN book'[a] \ todo'[a] : \E q \in Rows :
            Seen(a)'[q] = Mapping(u, book'[a][u])
    BY <2>4, <2>5, <1>4, <1>5, <1>7 DEF c
  <2>. QED
    BY <2>3, <2>6, <1>7 DEF AloneOf, Active, Syncing
<1>18. Syncing(a)
  BY <1>3 DEF Syncing
<1>. QED
  BY <1>4, <1>7, <1>13, <1>14, <1>15, <1>16, <1>17, <1>18, SyncStep

LEMMA GiveUpStep ==
    ASSUME Core, NEW a \in Requests, NEW label \in {"refused", "failed"},
           GiveUp(a, label), Syncing(a), TypeOK',
           label = "refused" /\ a \in Syncs /\ a \notin mixed =>
               plan[a].kind = "merge"
    PROVE  Core'
<1>1. /\ TypeOK /\ KeysUnique /\ Locks /\ Provenance /\ InHandOf(a)
  BY DEF Core, InHand
<1>2. /\ rows' = rows /\ work' = work /\ book' = book /\ todo' = todo
      /\ cur' = cur /\ plan' = plan /\ published' = published
      /\ crossed' = crossed /\ mixed' = mixed
      /\ wrote' = [wrote EXCEPT ![a] = {}] /\ fill' = [fill EXCEPT ![a] = 0]
      /\ blend' = [blend EXCEPT ![a] = {}]
      /\ at' = [at EXCEPT ![a] = IF a \in Posts THEN "done" ELSE label]
  BY DEF GiveUp, Emptied, Goto, dbVars, readVars
<1>3. /\ at'[a] = IF a \in Posts THEN "done" ELSE label
      /\ wrote'[a] = {}
      /\ \A b \in Requests \ {a} :
            /\ at'[b] = at[b] /\ wrote'[b] = wrote[b] /\ fill'[b] = fill[b]
            /\ blend'[b] = blend[b]
  BY <1>1, <1>2 DEF TypeOK
<1>4. /\ \A q \in Rows : Seen(a)'[q] = rows[q]
      /\ \A b \in Requests \ {a} : Seen(b)' = Seen(b)
  BY <1>2, <1>3 DEF Seen
<1>5. KeysUnique' /\ Locks' /\ Provenance'
  <2>1. KeysUnique'
    <3>1. \A b \in Requests, x, y \in Rows : x # y =>
            ~ Collides(Seen(b)'[x], Seen(b)'[y])
      BY <1>1, <1>4 DEF KeysUnique
    <3>. QED
      BY <1>1, <1>2, <3>1 DEF KeysUnique
  <2>2. Locks'
    BY <1>1, <1>2, <1>3 DEF Locks
  <2>3. Provenance'
    BY <1>1, <1>2, <1>3 DEF Provenance
  <2>. QED
    BY <2>1, <2>2, <2>3
<1>6. InHandOf(a)' /\ AloneOf(a)'
  BY <1>3 DEF InHandOf, AloneOf, Active, Syncing
<1>. QED
  BY <1>2, <1>3, <1>5, <1>6, SyncStep

LEMMA CommitStep ==
    ASSUME Core, NEW a \in Requests, Commit(a), TypeOK'
    PROVE  Core'
<1>1. /\ TypeOK /\ KeysUnique /\ Locks /\ Provenance /\ InHandOf(a)
      /\ AloneOf(a) /\ Syncing(a)
  BY DEF Core, InHand, Alone, Commit, Syncing
<1>2. /\ rows' = Seen(a) /\ work' = work /\ book' = book /\ todo' = todo
      /\ cur' = cur /\ plan' = plan /\ published' = published
      /\ crossed' = (crossed \ wrote[a]) \cup blend[a] /\ mixed' = mixed
      /\ wrote' = [wrote EXCEPT ![a] = {}] /\ fill' = [fill EXCEPT ![a] = 0]
      /\ blend' = [blend EXCEPT ![a] = {}]
      /\ at' = at /\ at[a] = "rows"
  BY DEF Commit, Emptied, readVars
<1>3. /\ wrote'[a] = {}
      /\ \A b \in Requests \ {a} :
            /\ wrote'[b] = wrote[b] /\ fill'[b] = fill[b]
            /\ blend'[b] = blend[b]
  BY <1>1, <1>2 DEF TypeOK
<1>4. /\ \A q \in Rows : rows'[q] = Seen(a)[q] /\ Seen(a)'[q] = Seen(a)[q]
      /\ \A b \in Requests \ {a}, q \in Rows :
            Seen(b)'[q] = IF q \in wrote[b] THEN work[b][q] ELSE Seen(a)[q]
  BY <1>2, <1>3 DEF Seen
<1>5. /\ \A b \in Requests, q \in Rows :
            Seen(b)[q] = IF q \in wrote[b] THEN work[b][q] ELSE rows[q]
      /\ \A b \in Requests : wrote[b] \subseteq Rows
  BY <1>1, SeenType DEF TypeOK
<1>6. KeysUnique'
  <2>1. ASSUME NEW b \in Requests \ {a}, NEW x \in Rows, NEW y \in Rows,
               x # y
        PROVE  ~ Collides(Seen(b)'[x], Seen(b)'[y])
    <3>1. ~ Collides(Seen(b)[x], Seen(b)[y])
            /\ ~ Collides(Seen(a)[x], Seen(a)[y])
      BY <2>1, <1>1 DEF KeysUnique
    <3>2. CASE x \in wrote[b] /\ y \in wrote[b]
      BY <3>1, <3>2, <1>4, <1>5
    <3>3. CASE x \notin wrote[b] /\ y \notin wrote[b]
      BY <3>1, <3>3, <1>4
    <3>4. CASE x \in wrote[b] /\ y \notin wrote[b]
      <4>1. CASE y \in wrote[a]
        BY <3>4, <4>1, <1>1, <1>4, <1>5 DEF Locks
      <4>2. CASE y \notin wrote[a]
        BY <3>1, <3>4, <4>2, <1>4, <1>5
      <4>. QED
        BY <4>1, <4>2
    <3>5. CASE x \notin wrote[b] /\ y \in wrote[b]
      <4>1. CASE x \in wrote[a]
        BY <3>5, <4>1, <1>1, <1>4, <1>5 DEF Locks
      <4>2. CASE x \notin wrote[a]
        BY <3>1, <3>5, <4>2, <1>4, <1>5
      <4>. QED
        BY <4>1, <4>2
    <3>. QED
      BY <3>2, <3>3, <3>4, <3>5
  <2>2. \A x, y \in Rows : x # y => /\ ~ Collides(Seen(a)'[x], Seen(a)'[y])
                                   /\ ~ Collides(rows'[x], rows'[y])
    BY <1>1, <1>4 DEF KeysUnique
  <2>3. \A b \in Requests, x, y \in Rows : x # y =>
            ~ Collides(Seen(b)'[x], Seen(b)'[y])
    BY <2>1, <2>2
  <2>. QED
    BY <2>2, <2>3 DEF KeysUnique
<1>7. Locks'
  BY <1>1, <1>2, <1>3 DEF Locks
<1>8. Provenance'
  <2>1. ASSUME NEW x \in Rows, rows'[x] # Absent
        PROVE  Pair(rows'[x]) \in published \/ x \in crossed'
    <3>1. CASE x \in wrote[a]
      <4>1. rows'[x] = work[a][x]
        BY <3>1, <1>4, <1>5
      <4>. QED
        BY <2>1, <3>1, <4>1, <1>1, <1>2 DEF Provenance
    <3>2. CASE x \notin wrote[a]
      <4>1. rows'[x] = rows[x]
        BY <3>2, <1>4, <1>5
      <4>. QED
        BY <2>1, <3>2, <4>1, <1>1, <1>2 DEF Provenance
    <3>. QED
      BY <3>1, <3>2
  <2>2. \A b \in Requests : \A x \in wrote'[b] : work'[b][x] # Absent =>
            Pair(work'[b][x]) \in published \/ x \in blend'[b]
    BY <1>1, <1>2, <1>3 DEF Provenance
  <2>3. \A b \in Requests : PairsOf(book'[b]) \subseteq published
    BY <1>1, <1>2 DEF Provenance
  <2>. QED
    BY <2>1, <2>2, <2>3, <1>2 DEF Provenance
<1>9. InHandOf(a)'
  BY <1>1, <1>2, <1>3 DEF InHandOf, Syncing
<1>10. AloneOf(a)'
  <2>. SUFFICES ASSUME a \notin mixed PROVE AloneOf(a)'
    BY <1>2 DEF AloneOf
  <2>1. \A b \in Requests \ {a} : ~ Active(b)'
    BY <1>1, <1>2 DEF AloneOf, Active, Syncing
  <2>2. \A u \in DOMAIN book'[a] \ todo'[a] : \E q \in Rows :
            Seen(a)'[q] = Mapping(u, book'[a][u])
    BY <1>1, <1>2, <1>4 DEF AloneOf, Active, Syncing
  <2>. QED
    BY <2>1, <2>2, <1>2 DEF AloneOf, Active, Syncing
<1>. QED
  BY <1>1, <1>2, <1>3, <1>6, <1>7, <1>8, <1>9, <1>10, SyncStep

LEMMA FinishStep ==
    ASSUME Core, NEW a \in Requests, FinishSync(a), TypeOK'
    PROVE  Core'
<1>1. /\ TypeOK /\ InHandOf(a) /\ AloneOf(a) /\ Syncing(a)
      /\ at[a] = "rows" /\ todo[a] = {} /\ fill[a] = 0
      /\ at' = [at EXCEPT ![a] = IF a \in Posts THEN "stored" ELSE "done"]
  BY DEF Core, InHand, Alone, FinishSync, Goto, Syncing
<1>2. /\ rows' = rows /\ work' = work /\ wrote' = wrote /\ fill' = fill
      /\ book' = book /\ todo' = todo /\ cur' = cur /\ plan' = plan
      /\ blend' = blend /\ published' = published /\ crossed' = crossed
      /\ mixed' = mixed
  BY DEF FinishSync, dbVars, readVars, txVars
<1>3. /\ at'[a] = IF a \in Posts THEN "stored" ELSE "done"
      /\ \A b \in Requests \ {a} : at'[b] = at[b]
  BY <1>1 DEF TypeOK
<1>4. KeysUnique' /\ Locks' /\ Provenance'
  BY <1>2, TableKept, ProvenanceKept DEF Core
<1>5. InHandOf(a)'
  BY <1>1, <1>2, <1>3 DEF InHandOf, Syncing
<1>6. AloneOf(a)'
  <2>. SUFFICES ASSUME a \notin mixed PROVE AloneOf(a)'
    BY <1>2 DEF AloneOf
  <2>1. \A b \in Requests \ {a} : ~ Active(b)'
    BY <1>1, <1>3 DEF AloneOf, Active, Syncing
  <2>2. Seen(a)' = Seen(a)
    BY <1>2 DEF Seen
  <2>3. \A u \in DOMAIN book'[a] \ todo'[a] : \E q \in Rows :
            Seen(a)'[q] = Mapping(u, book'[a][u])
    BY <1>1, <1>2, <2>2 DEF AloneOf, Active, Syncing
  <2>. QED
    BY <2>1, <2>3, <1>1, <1>2, <1>3 DEF AloneOf, Active, Syncing
<1>. QED
  BY <1>1, <1>2, <1>3, <1>4, <1>5, <1>6, SyncStep

-----------------------------------------------------------------------------
LEMMA StepKeeps ==
    ASSUME Core, Next
    PROVE  Core'
<1>1. TypeOK'
  BY NextTyped DEF Core
<1>2. CASE \E s \in Syncs : SyncMaster(s)
  <2>1. PICK s \in Syncs : SyncMaster(s)
    BY <1>2
  <2>. QED
    BY <1>1, <2>1, DownloadStep DEF SyncMaster, dbVars, readVars, txVars
<1>3. CASE \E a \in Requests : StepOf(a)
  <2>1. PICK a \in Requests : StepOf(a)
    BY <1>3
  <2>2. CASE UpsertCanonical(a)
    BY <1>1, <2>2, UpsertStep
  <2>3. CASE LookUp(a)
    BY <1>1, <2>3, LookUpStep
  <2>4. CASE StoreMapping(a)
    BY <1>1, <2>4, StoreStep
  <2>5. CASE RefuseMapping(a)
    <3>1. /\ at[a] = "write" /\ GiveUp(a, "refused")
          /\ \E r \in Target(a) : Refused(a, r, Flushed(a, r))
      BY <2>5 DEF RefuseMapping
    <3>2. a \notin mixed => plan[a].kind = "merge"
      BY <3>1, LonePlan
    <3>. QED
      BY <1>1, <3>1, <3>2, GiveUpStep DEF Syncing
  <2>6. CASE FailSync(a)
    BY <1>1, <2>6, GiveUpStep DEF FailSync
  <2>7. CASE Commit(a)
    BY <1>1, <2>7, CommitStep
  <2>8. CASE FinishSync(a)
    BY <1>1, <2>8, FinishStep
  <2>. QED
    BY <2>1, <2>2, <2>3, <2>4, <2>5, <2>6, <2>7, <2>8 DEF StepOf
<1>4. CASE \E p \in Posts : PostStep(p)
  <2>1. PICK p \in Posts : PostStep(p)
    BY <1>4
  <2>2. CASE FetchPositions(p)
    <3>1. /\ at[p] \in {"idle", "stored"}
          /\ at' = [at EXCEPT ![p] = IF at[p] = "idle" THEN "fetched"
                                     ELSE "refetched"]
          /\ rows' = rows /\ work' = work /\ wrote' = wrote
          /\ fill' = fill /\ book' = book /\ todo' = todo /\ cur' = cur
          /\ plan' = plan /\ blend' = blend /\ published' = published
          /\ crossed' = crossed /\ mixed' = mixed
      BY <2>2 DEF FetchPositions, Goto, dbVars, readVars, txVars
    <3>2. /\ at'[p] = IF at[p] = "idle" THEN "fetched" ELSE "refetched"
          /\ \A b \in Requests \ {p} : at'[b] = at[b]
      BY <3>1 DEF Core, TypeOK
    <3>3. CASE at[p] = "idle"
      <4>1. ~ Active(p)' /\ ~ Syncing(p)
        BY <3>2, <3>3 DEF Active, Syncing
      <4>. QED
        BY <1>1, <3>1, <3>2, <3>3, <4>1, QuietStep
    <3>4. CASE at[p] = "stored"
      <4>1. Active(p) /\ ~ Syncing(p) /\ Active(p)' /\ ~ Syncing(p)'
        BY <3>2, <3>4 DEF Active, Syncing
      <4>2. KeysUnique' /\ Locks' /\ Provenance'
        BY <3>1, TableKept, ProvenanceKept DEF Core
      <4>3. InHand'
        <5>1. InHandOf(p)'
          BY <3>1, <3>2, <3>4, <4>1 DEF Core, InHand, InHandOf
        <5>2. ASSUME NEW b \in Requests \ {p} PROVE InHandOf(b)'
          BY <5>2, <3>1, <3>2, InHandKept DEF Core, InHand
        <5>. QED
          BY <5>1, <5>2 DEF InHand
      <4>4. Alone'
        <5>1. AloneOf(p)'
          <6>1. Seen(p)' = Seen(p) /\ AloneOf(p)
            BY <3>1 DEF Seen, Core, Alone
          <6>2. \A b \in Requests \ {p} : Active(b)' <=> Active(b)
            BY <3>2 DEF Active, Syncing
          <6>. SUFFICES ASSUME p \notin mixed PROVE AloneOf(p)'
            BY <3>1 DEF AloneOf
          <6>3. \A u \in DOMAIN book'[p] \ todo'[p] : \E q \in Rows :
                    Seen(p)'[q] = Mapping(u, book'[p][u])
            BY <3>1, <4>1, <6>1 DEF AloneOf
          <6>. QED
            BY <3>1, <3>2, <3>4, <4>1, <6>1, <6>2, <6>3 DEF AloneOf
        <5>2. ASSUME NEW b \in Requests \ {p} PROVE AloneOf(b)'
          BY <5>2, <3>1, <3>2, <4>1, AloneBeside DEF Core, Alone
        <5>. QED
          BY <5>1, <5>2 DEF Alone
      <4>5. LoneRefusalIsMerge'
        BY <3>1, <3>2, <3>4 DEF Core, LoneRefusalIsMerge
      <4>. QED
        BY <1>1, <4>2, <4>3, <4>4, <4>5 DEF Core
    <3>. QED
      BY <3>1, <3>3, <3>4
  <2>3. CASE FetchFails(p) \/ SettlePositions(p) \/ ResettlePositions(p)
    <3>1. /\ rows' = rows /\ work' = work /\ wrote' = wrote
          /\ fill' = fill /\ book' = book /\ cur' = cur
          /\ plan' = plan /\ blend' = blend /\ published' = published
          /\ crossed' = crossed /\ mixed' = mixed
      BY <2>3 DEF FetchFails, SettlePositions, ResettlePositions, dbVars,
                  readVars, txVars
    <3>2. /\ at[p] \in {"idle", "unmapped", "stored", "fetched", "refetched"}
          /\ \E label \in {"done", "unmapped"} : at' = [at EXCEPT ![p] = label]
          /\ \/ todo' = todo
             \/ todo' = [todo EXCEPT ![p] = Unmapped(p)]
      BY <2>3 DEF FetchFails, SettlePositions, ResettlePositions, Goto
    <3>3. /\ at'[p] \in {"done", "unmapped"}
          /\ \A b \in Requests \ {p} : at'[b] = at[b] /\ todo'[b] = todo[b]
      BY <3>2 DEF Core, TypeOK
    <3>4. ~ Active(p)' /\ ~ Syncing(p)
      BY <3>2, <3>3 DEF Active, Syncing
    <3>. QED
      BY <1>1, <3>1, <3>3, <3>4, QuietStep
  <2>4. CASE SyncTokens(p)
    BY <1>1, <2>4, DownloadStep DEF SyncTokens, dbVars, readVars, txVars
  <2>. QED
    BY <2>1, <2>2, <2>3, <2>4 DEF PostStep
<1>. QED
  BY <1>2, <1>3, <1>4 DEF Next

LEMMA StutterKeeps ==
    ASSUME Core, UNCHANGED vars
    PROVE  Core'
<1>1. TypeOK'
  BY NextTyped DEF Core
<1>2. /\ rows' = rows /\ work' = work /\ wrote' = wrote /\ fill' = fill
      /\ book' = book /\ todo' = todo /\ cur' = cur /\ plan' = plan
      /\ blend' = blend /\ published' = published /\ crossed' = crossed
      /\ mixed' = mixed /\ at' = at
  BY DEF vars, dbVars, readVars, txVars
<1>3. KeysUnique' /\ Locks' /\ Provenance'
  BY <1>2, TableKept, ProvenanceKept DEF Core
<1>4. InHand'
  BY <1>2, InHandKept DEF Core, InHand
<1>5. Alone'
  <2>1. ASSUME NEW a \in Requests PROVE AloneOf(a)'
    <3>1. Seen(a)' = Seen(a) /\ Planned(a)' = Planned(a)
      BY <1>2 DEF Seen, Planned, RowWith
    <3>2. AloneOf(a)
      BY DEF Core, Alone
    <3>. QED
      BY <1>2, <3>1, <3>2 DEF AloneOf, Active, Syncing
  <2>. QED
    BY <2>1 DEF Alone
<1>6. LoneRefusalIsMerge'
  BY <1>2 DEF Core, LoneRefusalIsMerge
<1>. QED
  BY <1>1, <1>3, <1>4, <1>5, <1>6 DEF Core

LEMMA InitCore ==
    ASSUME Init
    PROVE  Core
<1>1. Unlisted \in Lists
  <2>1. Unlisted \in [{} -> Contracts]
    BY DEF Unlisted
  <2>2. {} \in SUBSET Tokens /\ DOMAIN Unlisted = {}
    BY DEF Unlisted
  <2>. QED
    BY <2>1, <2>2 DEF Lists
<1>2. rows \in [Rows -> Mappings \cup {Absent}]
  BY DEF Init
<1>3. \A r \in Rows : rows[r] # Absent =>
          rows[r].token \in Tokens /\ rows[r].inst \in Contracts
  BY <1>2, MappingFacts
<1>4. insts \subseteq Contracts /\ published \subseteq Pairs
  BY <1>3 DEF Init, Pairs
<1>5. TypeOK
  BY <1>1, <1>2, <1>4 DEF Init, TypeOK, NoPlan
<1>6. \A a \in Requests : Seen(a) = rows
  <2>. TAKE a \in Requests
  <2>1. wrote[a] = {}
    BY DEF Init
  <2>2. Seen(a) = [r \in Rows |-> rows[r]]
    BY <2>1 DEF Seen
  <2>. QED
    BY <2>2, <1>2
<1>7. KeysUnique
  BY <1>6 DEF Init, KeysUnique, Collides
<1>8. Locks
  BY DEF Init, Locks
<1>9. Provenance
  BY DEF Init, Provenance, PairsOf, Unlisted, Pair
<1>10. InHand
  BY DEF Init, InHand, InHandOf, Syncing
<1>11. Alone /\ LoneRefusalIsMerge
  BY DEF Init, Alone, AloneOf, Active, Syncing, LoneRefusalIsMerge
<1>. QED
  BY <1>5, <1>7, <1>8, <1>9, <1>10, <1>11 DEF Core

-----------------------------------------------------------------------------
(* A request moves by its own steps only.                                  *)
LEMMA OwnMove ==
    ASSUME TypeOK, Next, NEW a \in Requests, at'[a] # at[a]
    PROVE  StepOf(a) \/ PostStep(a) \/ SyncMaster(a)
<1>1. ASSUME NEW b \in Requests, b # a,
             StepOf(b) \/ PostStep(b) \/ SyncMaster(b)
      PROVE  FALSE
  <2>1. (\E label : at' = [at EXCEPT ![b] = label]) \/ at' = at
    BY <1>1 DEF StepOf, PostStep, SyncMaster, UpsertCanonical, LookUp,
                StoreMapping, RefuseMapping, FailSync, GiveUp, Commit,
                FinishSync, FetchPositions, FetchFails, SettlePositions,
                SyncTokens, ResettlePositions, Download, Goto
  <2>. QED
    BY <1>1, <2>1 DEF TypeOK
<1>. QED
  BY <1>1 DEF Next

-----------------------------------------------------------------------------
(* What is taken away.                                                     *)

(* The mappings of the table change by commits only.                       *)
LEMMA OnlyCommitsWrite ==
    ASSUME Next, rows' # rows
    PROVE  \E a \in Requests : Commit(a)
<1>1. ASSUME NEW a \in Requests, StepOf(a)
      PROVE  Commit(a)
  BY <1>1 DEF StepOf, UpsertCanonical, LookUp, StoreMapping, RefuseMapping,
              FailSync, GiveUp, FinishSync, dbVars
<1>2. ASSUME NEW s \in Syncs
      PROVE  ~ SyncMaster(s)
  BY DEF SyncMaster, dbVars
<1>3. ASSUME NEW p \in Posts
      PROVE  ~ PostStep(p)
  BY DEF PostStep, FetchPositions, FetchFails, SettlePositions, SyncTokens,
         ResettlePositions, dbVars
<1>. QED
  BY <1>1, <1>2, <1>3 DEF Next

(* A request that writes what it has just planned writes on mappings that  *)
(* its list names, as far as it sees the table as it is.                   *)
LEMMA PlanNames ==
    ASSUME Core, NEW a \in Requests, at[a] = "write", a \notin mixed,
           NEW r \in Target(a) \cup Gone(a), r \in Rows, rows[r] # Absent,
           Seen(a)[r] = rows[r]
    PROVE  Names(book[a], rows[r])
<1>1. TypeOK /\ KeysUnique /\ InHandOf(a) /\ AloneOf(a)
  BY DEF Core, InHand, Alone
<1>2. Fits(a, plan[a])
  BY <1>1, PlannedFits DEF AloneOf, Active, Syncing
<1>3. cur[a] \in DOMAIN book[a]
  BY <1>1 DEF InHandOf, Syncing
<1>4. r \in Target(a) => plan[a].kind # "insert" /\ r = plan[a].row
  BY DEF Target
<1>5. r \in Gone(a) => plan[a].kind = "merge" /\ r = plan[a].other
  BY <1>2 DEF Gone, Fits
<1>6. \/ rows[r].token = cur[a]
      \/ rows[r].inst = book[a][cur[a]]
  BY <1>2, <1>4, <1>5 DEF Fits
<1>. QED
  BY <1>3, <1>6 DEF Names

LEMMA LossesKept ==
    ASSUME Core, Losses, [Next]_vars
    PROVE  Losses'
<1>1. TypeOK
  BY DEF Core
<1>2. ASSUME NEW a \in Requests, StoreMapping(a)
      PROVE  Losses'
  <2>1. PICK r \in Target(a) :
            /\ work' = [work EXCEPT ![a] =
                    [q \in Rows |-> IF q = r THEN Flushed(a, r)
                                   ELSE IF q \in Gone(a) THEN Absent
                                   ELSE @[q]]]
            /\ wrote' = [wrote EXCEPT ![a] = @ \cup {r} \cup Gone(a)]
    BY <1>2 DEF StoreMapping
  <2>2. /\ rows' = rows /\ book' = book /\ mixed' = mixed
        /\ at[a] = "write"
    BY <1>2 DEF StoreMapping, dbVars
  <2>3. ASSUME NEW b \in Requests \ {a}
        PROVE  LossesOf(b)'
    <3>1. wrote'[b] = wrote[b] /\ work'[b] = work[b]
      BY <1>1, <2>1, <2>3
    <3>. QED
      BY <2>2, <3>1 DEF Losses, LossesOf
  <2>4. LossesOf(a)'
    <3>. SUFFICES ASSUME a \notin mixed, NEW q \in wrote'[a],
                         rows[q] # Absent, work'[a][q] # rows[q]
                  PROVE  Names(book[a], rows[q])
      BY <2>2 DEF LossesOf
    <3>1. wrote'[a] = wrote[a] \cup {r} \cup Gone(a)
      BY <1>1, <2>1 DEF TypeOK
    <3>2. r \in Rows /\ Gone(a) \subseteq Rows /\ wrote[a] \subseteq Rows
      BY <1>1, <2>2 DEF TypeOK, Core, InHand, InHandOf, Target, Gone
    <3>3. CASE q \notin wrote[a]
      BY <1>1, <2>2, <3>1, <3>2, <3>3, SeenType, PlanNames
    <3>4. CASE q \in wrote[a] /\ work[a][q] # rows[q]
      BY <3>4 DEF Losses, LossesOf
    <3>5. CASE q \in wrote[a] /\ work[a][q] = rows[q]
      <4>1. Seen(a)[q] = rows[q] /\ q \in Rows
        BY <1>1, <3>2, <3>5, SeenType
      <4>2. q \in Target(a) \cup Gone(a)
        BY <1>1, <2>1, <3>2, <3>5 DEF TypeOK
      <4>. QED
        BY <2>2, <4>1, <4>2, PlanNames
    <3>. QED
      BY <3>3, <3>4, <3>5
  <2>. QED
    BY <2>3, <2>4 DEF Losses
<1>3. ASSUME NEW a \in Requests, Commit(a)
      PROVE  Losses'
  <2>1. /\ wrote' = [wrote EXCEPT ![a] = {}]
        /\ mixed' = mixed
        /\ Active(a)
    BY <1>3 DEF Commit, Emptied, Active, Syncing
  <2>2. ASSUME NEW b \in Requests \ {a}, b \notin mixed
        PROVE  wrote[b] = {}
    <3>1. ~ Active(b)
      BY <2>1, <2>2 DEF Core, Alone, AloneOf
    <3>. QED
      BY <2>2, <3>1 DEF Core, InHand, InHandOf, Active
  <2>3. \A b \in Requests : b \notin mixed' => wrote'[b] = {}
    BY <1>1, <2>1, <2>2 DEF TypeOK
  <2>. QED
    BY <2>3 DEF Losses, LossesOf
<1>4. ASSUME NEW a \in Requests, NEW wanted, Download(a, wanted),
             ~ Syncing(a), rows' = rows, work' = work, wrote' = wrote
      PROVE  Losses'
  <2>1. wrote[a] = {}
    BY <1>4 DEF Core, InHand, InHandOf
  <2>2. ASSUME NEW b \in Requests \ {a}
        PROVE  book'[b] = book[b] /\ (b \in mixed => b \in mixed')
    BY <1>1, <1>4 DEF TypeOK, Download
  <2>. QED
    BY <1>4, <2>1, <2>2 DEF Losses, LossesOf
<1>5. ASSUME rows' = rows, work' = work, book' = book, mixed' = mixed,
             \A b \in Requests : wrote'[b] \in {{}, wrote[b]}
      PROVE  Losses'
  BY <1>5 DEF Losses, LossesOf
<1>6. ASSUME NEW s \in Syncs, SyncMaster(s)
      PROVE  Losses'
  BY <1>4, <1>6 DEF SyncMaster, Syncing, dbVars, txVars
<1>7. ASSUME NEW a \in Requests, StepOf(a)
      PROVE  Losses'
  <2>1. CASE UpsertCanonical(a) \/ LookUp(a) \/ FinishSync(a)
    BY <1>5, <2>1 DEF UpsertCanonical, LookUp, FinishSync, dbVars, txVars
  <2>2. CASE RefuseMapping(a) \/ FailSync(a)
    <3>1. /\ wrote' = [wrote EXCEPT ![a] = {}]
          /\ rows' = rows /\ work' = work /\ book' = book
          /\ mixed' = mixed
      BY <2>2 DEF RefuseMapping, FailSync, GiveUp, Emptied, dbVars
    <3>2. \A b \in Requests : wrote'[b] \in {{}, wrote[b]}
      BY <1>1, <3>1 DEF TypeOK
    <3>. QED
      BY <1>5, <3>1, <3>2
  <2>. QED
    BY <1>2, <1>3, <1>7, <2>1, <2>2 DEF StepOf
<1>8. ASSUME NEW p \in Posts, PostStep(p)
      PROVE  Losses'
  <2>1. CASE SyncTokens(p)
    BY <1>4, <2>1 DEF SyncTokens, Syncing, dbVars, txVars
  <2>2. CASE \/ FetchPositions(p) \/ FetchFails(p) \/ SettlePositions(p)
             \/ ResettlePositions(p)
    BY <1>5, <2>2 DEF FetchPositions, FetchFails, SettlePositions,
                      ResettlePositions, dbVars, txVars
  <2>. QED
    BY <1>8, <2>1, <2>2 DEF PostStep
<1>9. CASE UNCHANGED vars
  BY <1>5, <1>9 DEF vars, dbVars, txVars
<1>. QED
  BY <1>6, <1>7, <1>8, <1>9 DEF Next

(* The inductive invariant holds of every behaviour: whatever syncs        *)
(* overlap, the registry's unique keys hold without a constraint ever      *)
(* being met by a commit, and a sync that is alone finds what it wrote.    *)
THEOREM RegistryInvariance == Spec => []IInv
<1>1. Init => IInv
  <2>. SUFFICES ASSUME Init PROVE IInv
    OBVIOUS
  <2>1. Core
    BY InitCore
  <2>2. Losses
    BY DEF Init, Losses, LossesOf
  <2>. QED
    BY <2>1, <2>2 DEF IInv
<1>2. IInv /\ [Next]_vars => IInv'
  <2>. SUFFICES ASSUME IInv, [Next]_vars PROVE IInv'
    OBVIOUS
  <2>1. Core'
    BY StepKeeps, StutterKeeps DEF IInv
  <2>2. Losses'
    BY LossesKept DEF IInv
  <2>. QED
    BY <2>1, <2>2 DEF IInv
<1>. QED
  BY <1>1, <1>2, PTL DEF Spec

(* Types are kept (the columns of instruments and instrument_mappings).    *)
THEOREM RegistryTypeCorrect == Spec => []TypeOK
<1>1. IInv => TypeOK
  BY DEF IInv, Core
<1>. QED
  BY <1>1, RegistryInvariance, PTL

(* A mapping that no list has contained is on a row that two overlapping   *)
(* syncs wrote (upsert_mapping).                                           *)
THEOREM MappingWasListedCorrect == Spec => []MappingWasListed
<1>1. IInv => MappingWasListed
  BY DEF IInv, Core, Provenance, MappingWasListed
<1>. QED
  BY <1>1, RegistryInvariance, PTL

(* A sync that nobody overlaps takes a committed mapping away only if its  *)
(* list names the token or the contract (upsert_mapping, and the commits   *)
(* of sync_angel_rows).                                                    *)
THEOREM MappingLostIsListedCorrect == Spec => MappingLostIsListed
<1>1. ASSUME IInv, [Next]_vars
      PROVE  [\A r \in Rows : rows[r] # Absent /\ rows'[r] # rows[r] =>
                \E a \in Requests :
                    /\ r \in wrote[a]
                    /\ a \in mixed \/ Names(book[a], rows[r])]_vars
  <2>. SUFFICES ASSUME NEW r \in Rows, rows[r] # Absent,
                       rows'[r] # rows[r], Next
                PROVE  \E a \in Requests :
                           /\ r \in wrote[a]
                           /\ a \in mixed \/ Names(book[a], rows[r])
    BY <1>1
  <2>1. PICK a \in Requests : Commit(a)
    BY OnlyCommitsWrite
  <2>2. r \in wrote[a] /\ work[a][r] # rows[r]
    BY <1>1, <2>1, SeenType DEF IInv, Core, Commit
  <2>. QED
    BY <1>1, <2>2 DEF IInv, Losses, LossesOf
<1>. QED
  BY <1>1, RegistryInvariance, PTL DEF Spec, MappingLostIsListed

(* A sync that is alone breaks a unique key by a merge only                *)
(* (upsert_mapping, the branch that deletes a row).                        *)
THEOREM LoneRefusalIsMergeCorrect == Spec => []LoneRefusalIsMerge
<1>1. IInv => LoneRefusalIsMerge
  BY DEF IInv, Core
<1>. QED
  BY <1>1, RegistryInvariance, PTL

(* A sync that was alone and succeeds has stored the whole of its list, in *)
(* whatever order its rows came and wherever its batches ended             *)
(* (sync_angel_rows, sync_zerodha_rows).                                   *)
THEOREM SyncMirrorsListCorrect == Spec => SyncMirrorsList
<1>1. ASSUME IInv, [Next]_vars
      PROVE  [\A a \in Requests : Completes(a) /\ a \notin mixed =>
                \A t \in DOMAIN book[a] : \E r \in Rows :
                    rows[r] = Mapping(t, book[a][t])]_vars
  <2>. SUFFICES ASSUME NEW a \in Requests, Completes(a), a \notin mixed, Next
                PROVE  \A t \in DOMAIN book[a] : \E r \in Rows :
                           rows[r] = Mapping(t, book[a][t])
    BY <1>1
  <2>1. TypeOK /\ InHandOf(a) /\ AloneOf(a) /\ Syncing(a)
    BY <1>1 DEF IInv, Core, InHand, Alone, Completes
  <2>2. at'[a] = (IF a \in Posts THEN "stored" ELSE "done")
    BY DEF Completes
  <2>3. FinishSync(a)
    <3>1. at'[a] # at[a]
      BY <2>1, <2>2 DEF Syncing
    <3>2. StepOf(a) \/ PostStep(a) \/ SyncMaster(a)
      BY <2>1, <3>1, OwnMove
    <3>3. ~ SyncMaster(a) /\ ~ PostStep(a)
      BY <2>1 DEF SyncMaster, PostStep, FetchPositions, FetchFails,
                  SettlePositions, SyncTokens, ResettlePositions, Syncing
    <3>4. \A label : at' = [at EXCEPT ![a] = label] => at'[a] = label
      BY <2>1 DEF TypeOK
    <3>5. ~ (UpsertCanonical(a) \/ LookUp(a) \/ StoreMapping(a) \/ Commit(a))
      BY <3>4, <2>1, <2>2
      DEF UpsertCanonical, LookUp, StoreMapping, Commit, Goto, Syncing
    <3>6. ~ (RefuseMapping(a) \/ FailSync(a))
      BY <3>4, <2>2, RequestsAssumption
      DEF RefuseMapping, FailSync, GiveUp, Goto
    <3>. QED
      BY <3>2, <3>3, <3>5, <3>6 DEF StepOf
  <2>4. todo[a] = {} /\ wrote[a] = {}
    BY <2>1, <2>3 DEF FinishSync, InHandOf
  <2>5. \A r \in Rows : Seen(a)[r] = rows[r]
    BY <2>1, <2>4, SeenType
  <2>. QED
    BY <2>1, <2>4, <2>5 DEF AloneOf, Active
<1>. QED
  BY <1>1, RegistryInvariance, PTL DEF Spec, SyncMirrorsList

(* The second look at the positions shows each one whose token the sync of *)
(* the unknown tokens has stored (sync_positions).                         *)
THEOREM RetryShowsHeldCorrect == Spec => RetryShowsHeld
<1>1. ASSUME IInv, [Next]_vars
      PROVE  [\A p \in Posts :
                at[p] = "refetched" /\ at'[p] = "done" /\ p \notin mixed =>
                    \A t \in DOMAIN book[p] \cap DOMAIN snap[p] :
                        book[p][t] = snap[p][t] => snap[p][t] \in open']_vars
  <2>. SUFFICES ASSUME NEW p \in Posts, at[p] = "refetched", at'[p] = "done",
                       p \notin mixed, Next,
                       NEW t \in DOMAIN book[p] \cap DOMAIN snap[p],
                       book[p][t] = snap[p][t]
                PROVE  snap[p][t] \in open'
    BY <1>1
  <2>1. TypeOK /\ InHandOf(p) /\ AloneOf(p)
    BY <1>1 DEF IInv, Core, InHand, Alone
  <2>2. ResettlePositions(p)
    <3>1. at'[p] # at[p]
      BY <2>1
    <3>2. StepOf(p) \/ PostStep(p) \/ SyncMaster(p)
      BY <2>1, <3>1, OwnMove
    <3>. QED
      BY <3>2 DEF StepOf, PostStep, SyncMaster, UpsertCanonical, LookUp,
                  StoreMapping, RefuseMapping, FailSync, Commit, FinishSync,
                  FetchPositions, FetchFails, SettlePositions, SyncTokens,
                  Syncing
  <2>3. todo[p] = {} /\ wrote[p] = {}
    BY <2>1 DEF InHandOf, AloneOf, Active, Syncing
  <2>4. PICK r \in Rows : rows[r] = Mapping(t, book[p][t])
    BY <2>1, <2>3, SeenType DEF AloneOf, Active, Syncing
  <2>5. rows[r] # Absent /\ rows[r].token = t /\ rows[r].inst = book[p][t]
    <3>1. book[p] \in Lists
      BY <2>1 DEF TypeOK
    <3>2. t \in Tokens /\ book[p][t] \in Contracts
      BY <3>1, ListFacts
    <3>. QED
      BY <2>4, <3>2, MappingIsMapping
  <2>6. book[p][t] \in Mapped("token", t)
    BY <2>5 DEF Mapped
  <2>7. book[p][t] \in Resolve(t, snap[p][t])
    BY <2>6 DEF Resolve
  <2>. QED
    BY <2>2, <2>7 DEF ResettlePositions, Shown
<1>. QED
  BY <1>1, RegistryInvariance, PTL DEF Spec, RetryShowsHeld

=============================================================================
