------------------------- MODULE PositionLedgerProofs -------------------------
(***************************************************************************)
(* PositionLedger for any number of orders and syncs and any quantities:   *)
(* IInv is inductive, and with it LedgerIsSum and LostAckExplained hold.   *)
(*                                                                         *)
(* The argument is that a request which writes is undecided until then, so *)
(* every other undecided request is marked (Windows); an unmarked one has  *)
(* therefore read the row it overwrites (Current), and what it stores is   *)
(* the sum it computed.                                                    *)
(***************************************************************************)
EXTENDS PositionLedger, TLAPS

(* Storing a net as a side and a size loses nothing. *)
LEMMA SignedNet ==
    ASSUME NEW n \in Int
    PROVE  /\ Side(n) \in {"BUY", "SELL"}
           /\ Size(n) \in Nat
           /\ \A k : Signed([id |-> k, side |-> Side(n), qty |-> Size(n)]) = n
  BY DEF Side, Size, Signed

LEMMA SignedType ==
    ASSUME NEW row \in Positions
    PROVE  Signed(row) \in Int
  BY DEF Positions, Signed

LEMMA NoPosFacts == NoPos \in Positions /\ NoPos.id = 0 /\ Signed(NoPos) = 0
  BY DEF NoPos, NoLink, Positions, Signed

(* An UPDATE leaves a well-formed row with its id; on a current copy, it   *)
(* stores what was to be stored.                                           *)
LEMMA MergeRow ==
    ASSUME pos \in Positions, NEW old \in Positions,
           NEW want, want.side \in {"BUY", "SELL"}, want.qty \in Nat
    PROVE  /\ Merge(old, want) \in Positions
           /\ Merge(old, want).id = pos.id
           /\ old = pos => /\ Merge(old, want).side = want.side
                           /\ Merge(old, want).qty = want.qty
  BY DEF Merge, Positions

LEMMA EmptyType == Empty \in Snapshots
<1>1. Empty \in [{} -> Nets]
  BY DEF Empty
<1>2. {} \in SUBSET Products
  OBVIOUS
<1>. QED
  BY <1>1, <1>2 DEF Snapshots

(* What the broker lists for a product is an integer. *)
LEMMA ListedType ==
    ASSUME TypeOK, NEW s \in Syncs, NEW p \in DOMAIN snap[s]
    PROVE  snap[s][p] \in Int
<1>1. snap[s] \in Snapshots
  BY DEF TypeOK
<1>2. PICK listed \in SUBSET Products : snap[s] \in [listed -> Nets]
  BY <1>1 DEF Snapshots
<1>. QED
  BY <1>2, NetsAssumption

LEMMA NetType ==
    ASSUME TypeOK, NEW r \in Orders
    PROVE  Net(r) \in Int /\ copy[r] \in Positions /\ delta[r] \in Int
<1>1. copy[r] \in Positions /\ delta[r] \in Int
  BY DEF TypeOK, Actors
<1>. QED
  BY <1>1, SignedType DEF Net

-----------------------------------------------------------------------------
(* Whoever leaves the undecided requests leaves them marked if there were  *)
(* two, and on the row as it is if there was one, whatever he wrote.       *)
LEMMA LeaveWindow ==
    ASSUME TypeOK, Windows, NEW a \in Actors, pc[a] = "read",
           NEW label, label # "read", pc' = [pc EXCEPT ![a] = label],
           copy' = [copy EXCEPT ![a] = NoPos],
           mixed \ {a} \subseteq mixed'
    PROVE  Windows' /\ Current'
<1>1. /\ pc'[a] # "read"
      /\ \A b \in Actors \ {a} : pc'[b] = pc[b] /\ copy'[b] = copy[b]
  BY DEF TypeOK
<1>2. \A b \in Actors : pc'[b] = "read" => b # a /\ pc[b] = "read"
  BY <1>1
<1>3. \A b \in Actors : pc'[b] = "read" => b \in mixed'
  BY <1>2 DEF Windows
<1>. QED
  BY <1>3 DEF Windows, Current

(* A request that neither reads nor writes moves on. *)
LEMMA MoveOn ==
    ASSUME IInv, NEW a \in Actors, NEW label, label # "read",
           pc' = [pc EXCEPT ![a] = label],
           pos' = pos, lastId' = lastId, copy' = copy, mixed' = mixed,
           clean' = clean, expected' = expected
    PROVE  Windows' /\ Current' /\ Numbered' /\ LedgerIsSum'
<1>1. \A b \in Actors : pc'[b] = "read" => pc[b] = "read"
  BY DEF IInv, TypeOK
<1>. QED
  BY <1>1 DEF IInv, Windows, Current, Numbered, LedgerIsSum, Signed

(* A request reads the row as it is, and marks whoever is undecided.       *)
LEMMA ReadKeeps ==
    ASSUME IInv, NEW a \in Actors, pc[a] \in {"accepted", "fetched"}, Read(a),
           UNCHANGED <<orderVars, ledgerVars, snap, clean, expected>>
    PROVE  IInv'
<1>. DEFINE others == {b \in Actors \ {a} : pc[b] = "read"}
<1>1. /\ TypeOK /\ Windows /\ Current /\ Numbered
      /\ LinksResolve /\ LedgerIsSum /\ LostAckExplained
  BY DEF IInv
<1>2. /\ copy' = [copy EXCEPT ![a] = pos]
      /\ mixed' = (mixed \ {a}) \cup others
                       \cup (IF others = {} THEN {} ELSE {a})
      /\ pc' = [pc EXCEPT ![a] = "read"]
  BY DEF Read, Found, Goto
<1>3. /\ pc'[a] = "read" /\ copy'[a] = pos
      /\ \A b \in Actors \ {a} : pc'[b] = pc[b] /\ copy'[b] = copy[b]
  BY <1>1, <1>2 DEF TypeOK
<1>4. /\ order' = order /\ delta' = delta /\ link' = link /\ pos' = pos
      /\ lastId' = lastId /\ snap' = snap /\ clean' = clean
      /\ expected' = expected
  BY DEF orderVars, ledgerVars
<1>5. TypeOK'
  BY <1>1, <1>2, <1>4 DEF TypeOK
<1>6. Windows'
  <2>1. \A b \in Actors \ {a} : pc'[b] = "read" => b \in mixed' /\ a \in mixed'
    BY <1>2, <1>3
  <2>. QED
    BY <2>1 DEF Windows
<1>7. Current'
  <2>1. \A b \in Actors \ {a} : pc'[b] = "read" => b \in mixed'
    BY <1>2, <1>3
  <2>. QED
    BY <2>1, <1>3, <1>4 DEF Current
<1>8. Numbered'
  BY <1>1, <1>3, <1>4 DEF Numbered
<1>9. LinksResolve'
  BY <1>1, <1>3, <1>4, ActorsAssumption DEF LinksResolve, Actors
<1>10. LedgerIsSum'
  BY <1>1, <1>4 DEF LedgerIsSum, Signed
<1>11. LostAckExplained'
  <2>. SUFFICES ASSUME NEW r \in Orders, pc'[r] = "failed"
                PROVE  \/ r \in mixed'
                       \/ /\ copy'[r] # NoPos
                          /\ (Net(r) = 0)'
                          /\ pos'.id = copy'[r].id
                          /\ Linked(pos.id)'
    BY DEF LostAckExplained
  <2>1. r # a /\ r \in Actors
    BY <1>3 DEF Actors
  <2>2. pc[r] = "failed" /\ copy'[r] = copy[r] /\ (r \in mixed => r \in mixed')
    BY <2>1, <1>2, <1>3
  <2>. QED
    BY <2>2, <1>1, <1>4 DEF LostAckExplained, Net, Signed, Linked
<1>. QED
  BY <1>5, <1>6, <1>7, <1>8, <1>9, <1>10, <1>11 DEF IInv

-----------------------------------------------------------------------------
(* What the commit of an order does besides writing the row.               *)
LEMMA AcknowledgeFacts ==
    ASSUME IInv, NEW r \in Orders, Deciding(r), NEW id \in Nat,
           Acknowledge(r, id)
    PROVE  /\ Windows' /\ Current'
           /\ pc'[r] = "done" /\ link'[r] = id
           /\ \A b \in Actors \ {r} : pc'[b] = pc[b] /\ copy'[b] = copy[b]
           /\ \A q \in Orders \ {r} : link'[q] = link[q]
           /\ delta' = delta /\ mixed' = mixed /\ copy'[r] = NoPos
           /\ clean' => clean /\ copy[r] = pos
           /\ expected' = expected + delta[r]
           /\ pos' \in Positions /\ lastId' \in Nat => TypeOK'
<1>1. TypeOK /\ Windows /\ Current /\ r \in Actors /\ pc[r] = "read"
  BY DEF IInv, Actors, Deciding
<1>2. pc' = [pc EXCEPT ![r] = "done"] /\ copy' = [copy EXCEPT ![r] = NoPos]
  BY DEF Acknowledge, Goto
<1>3. Windows' /\ Current'
  <2>1. mixed \ {r} \subseteq mixed'
    BY DEF Acknowledge
  <2>. QED
    BY <1>1, <1>2, <2>1, LeaveWindow
<1>4. clean' => clean /\ copy[r] = pos
  BY <1>1 DEF Acknowledge, Current
<1>5. ASSUME pos' \in Positions, lastId' \in Nat
      PROVE  TypeOK'
  <2>1. expected' \in Int /\ clean' \in BOOLEAN
    BY <1>1, NetType DEF Acknowledge, TypeOK
  <2>2. pc' \in [Actors -> {"idle", "sent", "accepted", "fetched", "read",
                            "done", "failed", "died", "synced"}]
    BY <1>1, <1>2 DEF TypeOK
  <2>3. copy' \in [Actors -> Positions]
    BY <1>1, <1>2, NoPosFacts DEF TypeOK
  <2>. QED
    BY <2>1, <2>2, <2>3, <1>1, <1>5 DEF TypeOK, Acknowledge
<1>. QED
  BY <1>1, <1>2, <1>3, <1>4, <1>5 DEF Acknowledge, TypeOK

LEMMA OpenKeeps ==
    ASSUME IInv, NEW r \in Orders, Open(r)
    PROVE  IInv'
<1>1. /\ TypeOK /\ Numbered /\ LinksResolve /\ LedgerIsSum
      /\ LostAckExplained /\ lastId \in Nat
  BY DEF IInv, TypeOK
<1>2. /\ Deciding(r) /\ copy[r] = NoPos /\ pos = NoPos
      /\ pos' = [id |-> lastId + 1, side |-> Side(delta[r]),
                 qty |-> Size(delta[r])]
      /\ lastId' = lastId + 1
      /\ Acknowledge(r, lastId + 1)
  BY DEF Open
<1>3. /\ pos' \in Positions /\ Signed(pos') = delta[r] /\ pos'.id = lastId + 1
      /\ lastId' \in Nat
  BY <1>1, <1>2, NetType, SignedNet DEF Positions
<1>4. \A q \in Orders : link[q] = NoLink
  BY <1>1, <1>2 DEF LinksResolve, NoPos
<1>5. Numbered'
  <2>1. pos'.id # NoLink
    BY <1>1, <1>3 DEF NoLink
  <2>2. \A a \in Actors : copy'[a] = NoPos \/ copy'[a] = copy[a]
    BY <1>1, <1>2, AcknowledgeFacts
  <2>. QED
    BY <2>1, <2>2, <1>1, <1>2, <1>3 DEF Numbered
<1>6. LinksResolve'
  BY <1>1, <1>2, <1>3, <1>4, AcknowledgeFacts DEF LinksResolve
<1>7. LedgerIsSum'
  <2>1. clean' => expected = 0
    BY <1>1, <1>2, AcknowledgeFacts, NoPosFacts DEF LedgerIsSum
  <2>. QED
    BY <2>1, <1>1, <1>2, <1>3, AcknowledgeFacts, NetType DEF LedgerIsSum, Signed
<1>8. LostAckExplained'
  <2>. SUFFICES ASSUME NEW q \in Orders, pc'[q] = "failed"
                PROVE  q \in mixed'
    BY DEF LostAckExplained
  <2>1. q # r /\ pc[q] = "failed" /\ q \in Actors
    BY <1>1, <1>2, AcknowledgeFacts DEF Actors
  <2>2. ~(copy[q] # NoPos /\ pos.id = copy[q].id)
    BY <2>1, <1>1, <1>2 DEF Numbered, NoPos
  <2>3. mixed' = mixed
    BY <1>1, <1>2, AcknowledgeFacts
  <2>. QED
    BY <2>1, <2>2, <2>3, <1>1 DEF LostAckExplained
<1>9. TypeOK' /\ Windows' /\ Current'
  BY <1>1, <1>2, <1>3, AcknowledgeFacts
<1>. QED
  BY <1>5, <1>6, <1>7, <1>8, <1>9 DEF IInv

LEMMA ChangeKeeps ==
    ASSUME IInv, NEW r \in Orders, Change(r)
    PROVE  IInv'
<1>1. /\ TypeOK /\ Numbered /\ LinksResolve /\ LedgerIsSum
      /\ LostAckExplained /\ pos \in Positions /\ r \in Actors
  BY DEF IInv, TypeOK, Actors
<1>. DEFINE want == [side |-> Side(Net(r)), qty |-> Size(Net(r))]
<1>2. /\ Deciding(r) /\ copy[r] # NoPos /\ pos.id = copy[r].id
      /\ pos' = Merge(copy[r], want) /\ lastId' = lastId
      /\ Acknowledge(r, pos.id)
  BY DEF Change
<1>3. pos.id \in Nat /\ pos.id # NoLink
  BY <1>1, <1>2 DEF Numbered, Positions
<1>4. /\ pos' \in Positions /\ pos'.id = pos.id /\ lastId' \in Nat
      /\ copy[r] = pos => Signed(pos') = Net(r)
  <2>1. /\ Net(r) \in Int /\ copy[r] \in Positions
        /\ want.side \in {"BUY", "SELL"} /\ want.qty \in Nat
        /\ Signed([id |-> 0, side |-> want.side, qty |-> want.qty]) = Net(r)
    BY <1>1, NetType, SignedNet
  <2>2. /\ pos' \in Positions /\ pos'.id = pos.id
        /\ copy[r] = pos => pos'.side = want.side /\ pos'.qty = want.qty
    BY <2>1, <1>1, <1>2, MergeRow
  <2>. HIDE DEF want
  <2>. QED
    BY <2>1, <2>2, <1>1, <1>2 DEF Signed, TypeOK
<1>5. Numbered'
  <2>1. \A a \in Actors : copy'[a] = NoPos \/ copy'[a] = copy[a]
    BY <1>1, <1>2, <1>3, AcknowledgeFacts, IInv
  <2>. QED
    BY <2>1, <1>1, <1>2, <1>3, <1>4 DEF Numbered
<1>6. LinksResolve'
  <2>1. /\ pc'[r] = "done" /\ link'[r] = pos.id
        /\ \A q \in Orders \ {r} :
              pc'[q] = pc[q] /\ copy'[q] = copy[q] /\ link'[q] = link[q]
    BY <1>2, <1>3, AcknowledgeFacts DEF Actors
  <2>. QED
    BY <2>1, <1>1, <1>4 DEF LinksResolve
<1>7. LedgerIsSum'
  <2>1. clean' => clean /\ copy[r] = pos
    BY <1>2, <1>3, AcknowledgeFacts
  <2>2. expected' = expected + delta[r]
    BY <1>2, <1>3, AcknowledgeFacts
  <2>3. clean' => Signed(pos') = expected'
    BY <2>1, <2>2, <1>1, <1>4 DEF LedgerIsSum, Net
  <2>. QED
    BY <2>3 DEF LedgerIsSum, Signed
<1>8. LostAckExplained'
  <2>. SUFFICES ASSUME NEW q \in Orders, pc'[q] = "failed"
                PROVE  \/ q \in mixed'
                       \/ /\ copy'[q] # NoPos
                          /\ (Net(q) = 0)'
                          /\ pos'.id = copy'[q].id
                          /\ Linked(pos.id)'
    BY DEF LostAckExplained
  <2>1. /\ q # r /\ pc[q] = "failed" /\ copy'[q] = copy[q]
        /\ mixed' = mixed /\ delta' = delta
        /\ link'[r] = pos.id
        /\ r \in Orders
    BY <1>2, <1>3, AcknowledgeFacts DEF Actors
  <2>2. Linked(pos.id)'
    BY <2>1, <1>4 DEF Linked
  <2>. QED
    BY <2>1, <2>2, <1>1, <1>4 DEF LostAckExplained, Net, Signed
<1>9. TypeOK' /\ Windows' /\ Current'
  BY <1>2, <1>3, <1>4, AcknowledgeFacts
<1>. QED
  BY <1>5, <1>6, <1>7, <1>8, <1>9 DEF IInv

LEMMA CloseKeeps ==
    ASSUME IInv, NEW r \in Orders, Close(r)
    PROVE  IInv'
<1>1. /\ TypeOK /\ Numbered /\ LinksResolve /\ LedgerIsSum
      /\ LostAckExplained /\ pos \in Positions /\ r \in Actors
      /\ pc[r] = "read" /\ lastId \in Nat
  BY DEF IInv, TypeOK, Actors, Close, Deciding
<1>2. /\ Deciding(r) /\ copy[r] # NoPos /\ Net(r) = 0
      /\ pos.id = copy[r].id => ~Linked(pos.id)
      /\ pos' = IF pos.id = copy[r].id THEN NoPos ELSE pos
      /\ lastId' = lastId /\ NoLink \in Nat
      /\ Acknowledge(r, NoLink)
  BY DEF Close, NoLink
<1>3. pos' \in Positions /\ lastId' \in Nat
  BY <1>1, <1>2, NoPosFacts
<1>4. /\ pc'[r] = "done" /\ link'[r] = NoLink
      /\ \A a \in Actors : copy'[a] = NoPos \/ copy'[a] = copy[a]
      /\ \A q \in Orders \ {r} :
            pc'[q] = pc[q] /\ copy'[q] = copy[q] /\ link'[q] = link[q]
  BY <1>2, AcknowledgeFacts DEF Actors
<1>5. link[r] # NoLink => pos.id = copy[r].id
  BY <1>1 DEF LinksResolve
<1>6. Numbered'
  BY <1>1, <1>2, <1>4 DEF Numbered, NoPos, NoLink
<1>7. LinksResolve'
  <2>1. CASE pos.id = copy[r].id
    BY <2>1, <1>1, <1>2, <1>4 DEF LinksResolve, Linked
  <2>2. CASE pos.id # copy[r].id
    BY <2>2, <1>1, <1>2, <1>4 DEF LinksResolve
  <2>. QED
    BY <2>1, <2>2
<1>8. LedgerIsSum'
  <2>1. clean' => clean /\ copy[r] = pos /\ expected' = expected + delta[r]
    BY <1>2, AcknowledgeFacts
  <2>2. clean' => expected' = 0
    BY <2>1, <1>1, <1>2 DEF LedgerIsSum, Net
  <2>3. clean' => Signed(pos') = 0
    BY <2>1, <1>2, NoPosFacts
  <2>. QED
    BY <2>2, <2>3 DEF LedgerIsSum, Signed
<1>9. LostAckExplained'
  <2>. SUFFICES ASSUME NEW q \in Orders, pc'[q] = "failed", q \notin mixed'
                PROVE  /\ copy'[q] # NoPos
                       /\ (Net(q) = 0)'
                       /\ pos'.id = copy'[q].id
                       /\ Linked(pos.id)'
    BY DEF LostAckExplained
  <2>1. /\ q # r /\ pc[q] = "failed" /\ copy'[q] = copy[q]
        /\ q \notin mixed /\ delta' = delta
    BY <1>2, <1>4, AcknowledgeFacts
  <2>2. /\ copy[q] # NoPos /\ Net(q) = 0 /\ pos.id = copy[q].id
        /\ Linked(pos.id)
    BY <2>1, <1>1 DEF LostAckExplained
  <2>3. pos.id # copy[r].id /\ pos' = pos /\ link[r] = NoLink
    BY <2>2, <1>2, <1>5
  <2>4. pos.id # NoLink
    BY <2>1, <2>2, <1>1 DEF Numbered, Actors
  <2>5. PICK k \in Orders : link[k] = pos.id
    BY <2>2 DEF Linked
  <2>6. link'[k] = pos'.id
    BY <2>3, <2>4, <2>5, <1>4
  <2>. QED
    BY <2>1, <2>2, <2>3, <2>6 DEF Net, Signed, Linked
<1>10. TypeOK' /\ Windows' /\ Current'
  BY <1>2, <1>3, AcknowledgeFacts
<1>. QED
  BY <1>6, <1>7, <1>8, <1>9, <1>10 DEF IInv

(* An unmarked order fails on a row that some order is linked to: it has   *)
(* read the row that there is, so the row has neither appeared nor gone.   *)
LEMMA FailKeeps ==
    ASSUME IInv, NEW r \in Orders, Fail(r)
    PROVE  IInv'
<1>1. /\ TypeOK /\ Windows /\ Current /\ Numbered
      /\ LinksResolve /\ LedgerIsSum /\ LostAckExplained
      /\ r \in Actors /\ pc[r] = "read"
  BY DEF IInv, Actors, Fail, Deciding
<1>2. /\ order' = order /\ delta' = delta /\ link' = link /\ pos' = pos
      /\ lastId' = lastId /\ copy' = copy /\ snap' = snap
      /\ mixed' = mixed /\ clean' = clean /\ expected' = expected
      /\ pc' = [pc EXCEPT ![r] = "failed"]
  BY DEF Fail, orderVars, ledgerVars, historyVars, Goto
<1>3. TypeOK'
  BY <1>1, <1>2 DEF TypeOK
<1>4. Windows' /\ Current' /\ Numbered' /\ LedgerIsSum'
  BY <1>1, <1>2, MoveOn
<1>5. \A q \in Orders \ {r} : pc'[q] = pc[q]
  BY <1>1, <1>2 DEF TypeOK
<1>6. pc'[r] = "failed"
  BY <1>1, <1>2 DEF TypeOK
<1>7. LinksResolve'
  BY <1>1, <1>2, <1>5, <1>6 DEF LinksResolve
<1>8. LostAckExplained'
  <2>1. \/ r \in mixed
        \/ /\ copy[r] # NoPos /\ Net(r) = 0 /\ pos.id = copy[r].id
           /\ Linked(pos.id)
    BY <1>1 DEF Fail, Current
  <2>. QED
    BY <2>1, <1>1, <1>2, <1>5 DEF LostAckExplained, Net, Signed, Linked
<1>. QED
  BY <1>3, <1>4, <1>7, <1>8 DEF IInv

(* The steps of an order away from the row: only the link may be set, to   *)
(* the row there is.                                                       *)
LEMMA OrderElsewhere ==
    ASSUME IInv, NEW r \in Orders,
           NEW label \in {"sent", "accepted", "done", "died"},
           pc' = [pc EXCEPT ![r] = label],
           order' \in [Orders -> {"absent", "PENDING", "refused",
                                  "ACKNOWLEDGED"}],
           NEW d \in Int, delta' = [delta EXCEPT ![r] = d],
           NEW k \in {NoLink, pos.id}, link' = [link EXCEPT ![r] = k],
           k = link[r] \/ link[r] = NoLink,
           UNCHANGED <<ledgerVars, copy, snap, historyVars>>
    PROVE  IInv'
<1>1. /\ TypeOK /\ LinksResolve /\ LostAckExplained /\ r \in Actors
  BY DEF IInv, Actors
<1>2. /\ pos' = pos /\ lastId' = lastId /\ copy' = copy /\ snap' = snap
      /\ mixed' = mixed /\ clean' = clean /\ expected' = expected
  BY DEF ledgerVars, historyVars
<1>3. TypeOK'
  <2>1. k \in Nat
    BY <1>1 DEF TypeOK, Positions, NoLink
  <2>2. delta' \in [Orders -> Int] /\ link' \in [Orders -> Nat]
    BY <2>1, <1>1 DEF TypeOK
  <2>3. pc' \in [Actors -> {"idle", "sent", "accepted", "fetched", "read",
                            "done", "failed", "died", "synced"}]
    BY <1>1 DEF TypeOK
  <2>. QED
    BY <2>2, <2>3, <1>1, <1>2 DEF TypeOK
<1>4. Windows' /\ Current' /\ Numbered' /\ LedgerIsSum'
  BY <1>1, <1>2, MoveOn
<1>5. /\ pc'[r] = label /\ link'[r] = k
      /\ \A q \in Orders \ {r} :
            pc'[q] = pc[q] /\ link'[q] = link[q] /\ delta'[q] = delta[q]
  BY <1>1 DEF TypeOK, Actors
<1>6. LinksResolve'
  BY <1>1, <1>2, <1>5 DEF LinksResolve
<1>7. LostAckExplained'
  <2>. SUFFICES ASSUME NEW q \in Orders, pc'[q] = "failed", q \notin mixed'
                PROVE  /\ copy'[q] # NoPos
                       /\ (Net(q) = 0)'
                       /\ pos'.id = copy'[q].id
                       /\ Linked(pos.id)'
    BY DEF LostAckExplained
  <2>1. q # r /\ pc[q] = "failed" /\ q \notin mixed /\ delta'[q] = delta[q]
    BY <1>2, <1>5
  <2>2. /\ copy[q] # NoPos /\ Net(q) = 0 /\ pos.id = copy[q].id
        /\ Linked(pos.id)
    BY <2>1, <1>1 DEF LostAckExplained
  <2>3. pos.id # NoLink
    BY <2>2 DEF IInv, Numbered, Actors
  <2>4. \A o \in Orders : link[o] = pos.id => link'[o] = pos.id
    BY <2>3, <1>5
  <2>. QED
    BY <2>1, <2>2, <2>4, <1>2 DEF Net, Signed, Linked
<1>. QED
  BY <1>3, <1>4, <1>6, <1>7 DEF IInv

(* A sync that ends leaves the orders alone.                               *)
LEMMA EndSyncFacts ==
    ASSUME IInv, NEW s \in Syncs, NEW label \in {"idle", "synced"},
           EndSync(s, label)
    PROVE  /\ s \in Actors /\ s \notin Orders
           /\ pc' = [pc EXCEPT ![s] = label]
           /\ copy' = [copy EXCEPT ![s] = NoPos]
           /\ mixed' = mixed \ {s}
           /\ order' = order /\ delta' = delta /\ link' = link
           /\ pc' \in [Actors -> {"idle", "sent", "accepted", "fetched",
                                  "read", "done", "failed", "died", "synced"}]
           /\ copy' \in [Actors -> Positions]
           /\ snap' \in [Syncs -> Snapshots]
           /\ copy'[s] = NoPos /\ pc'[s] = label
           /\ \A b \in Actors \ {s} : pc'[b] = pc[b] /\ copy'[b] = copy[b]
<1>1. TypeOK /\ s \in Actors /\ s \notin Orders
  BY ActorsAssumption DEF IInv, Actors
<1>2. /\ pc' = [pc EXCEPT ![s] = label]
      /\ copy' = [copy EXCEPT ![s] = NoPos]
      /\ snap' = [snap EXCEPT ![s] = Empty]
      /\ mixed' = mixed \ {s}
      /\ order' = order /\ delta' = delta /\ link' = link
  BY DEF EndSync, Goto, orderVars
<1>3. snap' \in [Syncs -> Snapshots]
  BY <1>1, <1>2, EmptyType DEF TypeOK
<1>4. copy' \in [Actors -> Positions]
  BY <1>1, <1>2, NoPosFacts DEF TypeOK
<1>. QED
  BY <1>1, <1>2, <1>3, <1>4 DEF TypeOK

(* A sync that ends without a write: it skips, or it fails.                *)
LEMMA SyncLeaves ==
    ASSUME IInv, NEW s \in Syncs, NEW label \in {"idle", "synced"},
           EndSync(s, label), UNCHANGED <<ledgerVars, clean, expected>>
    PROVE  IInv'
<1>1. /\ TypeOK /\ Windows /\ Current /\ Numbered
      /\ LinksResolve /\ LedgerIsSum /\ LostAckExplained
  BY DEF IInv
<1>2. /\ pos' = pos /\ lastId' = lastId /\ clean' = clean
      /\ expected' = expected /\ delta' = delta /\ link' = link
      /\ order' = order /\ mixed' = mixed \ {s}
      /\ pc'[s] # "read" /\ copy'[s] = NoPos /\ s \notin Orders
      /\ \A b \in Actors \ {s} : pc'[b] = pc[b] /\ copy'[b] = copy[b]
  BY EndSyncFacts DEF ledgerVars
<1>3. TypeOK'
  BY <1>1, <1>2, EndSyncFacts DEF TypeOK
<1>4. Windows' /\ Current' /\ Numbered'
  BY <1>1, <1>2 DEF Windows, Current, Numbered
<1>5. \A r \in Orders :
        /\ pc'[r] = pc[r] /\ copy'[r] = copy[r]
        /\ r \in mixed <=> r \in mixed'
  BY <1>2 DEF Actors
<1>6. LinksResolve' /\ LedgerIsSum' /\ LostAckExplained'
  BY <1>1, <1>2, <1>5 DEF LinksResolve, LedgerIsSum, LostAckExplained, Net,
     Signed, Linked
<1>. QED
  BY <1>3, <1>4, <1>6 DEF IInv

(* A sync that writes the row it read, or the first row.                   *)
LEMMA SyncWrites ==
    ASSUME IInv, NEW s \in Syncs, pc[s] = "read",
           NEW net \in Int, Overwrite(s, net),
           pos' \in Positions, lastId' \in Nat, pos'.id <= lastId',
           pos'.id # NoLink, pos'.id = pos.id \/ pos = NoPos,
           s \notin mixed => Signed(pos') = net
    PROVE  IInv'
<1>1. /\ TypeOK /\ Windows /\ Numbered /\ LinksResolve /\ LostAckExplained
  BY DEF IInv
<1>2. /\ clean' = (s \notin mixed) /\ expected' = net /\ EndSync(s, "synced")
  BY DEF Overwrite
<1>3. /\ delta' = delta /\ link' = link
      /\ order' = order /\ mixed' = mixed \ {s}
      /\ pc'[s] # "read" /\ copy'[s] = NoPos /\ s \notin Orders
      /\ \A b \in Actors \ {s} : pc'[b] = pc[b] /\ copy'[b] = copy[b]
      /\ s \in Actors
  BY <1>2, EndSyncFacts
<1>4. TypeOK'
  BY <1>1, <1>2, <1>3, EndSyncFacts DEF TypeOK
<1>5. Windows' /\ Current'
  BY <1>1, <1>3 DEF Windows, Current
<1>6. Numbered'
  BY <1>1, <1>3 DEF Numbered
<1>7. \A r \in Orders :
        /\ pc'[r] = pc[r] /\ copy'[r] = copy[r]
        /\ r \in mixed <=> r \in mixed'
  BY <1>3 DEF Actors
<1>8. LinksResolve'
  BY <1>1, <1>3, <1>7 DEF LinksResolve, NoPos
<1>9. LedgerIsSum'
  BY <1>2 DEF LedgerIsSum, Signed
<1>10. LostAckExplained'
  <2>. SUFFICES ASSUME NEW q \in Orders, pc'[q] = "failed", q \notin mixed'
                PROVE  /\ copy'[q] # NoPos
                       /\ (Net(q) = 0)'
                       /\ pos'.id = copy'[q].id
                       /\ Linked(pos.id)'
    BY DEF LostAckExplained
  <2>1. /\ copy[q] # NoPos /\ Net(q) = 0 /\ pos.id = copy[q].id
        /\ Linked(pos.id) /\ q \in Actors
    BY <1>1, <1>7 DEF LostAckExplained, Actors
  <2>2. pos # NoPos
    BY <2>1, <1>1 DEF Numbered, NoPos
  <2>. QED
    BY <2>1, <2>2, <1>3, <1>7 DEF Net, Signed, Linked
<1>. QED
  BY <1>4, <1>5, <1>6, <1>8, <1>9, <1>10 DEF IInv

-----------------------------------------------------------------------------
LEMMA InitIInv ==
    ASSUME Init
    PROVE  IInv
<1>1. TypeOK
  <2>1. copy \in [Actors -> Positions] /\ pos \in Positions
    BY NoPosFacts DEF Init
  <2>2. snap \in [Syncs -> Snapshots]
    BY EmptyType DEF Init
  <2>. QED
    BY <2>1, <2>2 DEF Init, TypeOK, NoLink
<1>2. LedgerIsSum
  BY NoPosFacts DEF Init, LedgerIsSum
<1>3. LinksResolve /\ Numbered /\ Windows /\ Current /\ LostAckExplained
  BY DEF Init, LinksResolve, Numbered, Windows, Current, LostAckExplained,
     NoPos, NoLink, Actors
<1>. QED
  BY <1>1, <1>2, <1>3 DEF IInv

(* Each step of an order keeps the invariant.                              *)
LEMMA OrderStepKeeps ==
    ASSUME IInv, NEW r \in Orders, OrderStep(r)
    PROVE  IInv'
<1>1. TypeOK /\ LinksResolve /\ r \in Actors
  BY DEF IInv, Actors
<1>2. /\ link[r] \in {NoLink, pos.id} /\ delta[r] \in Int
      /\ link = [link EXCEPT ![r] = link[r]]
      /\ delta = [delta EXCEPT ![r] = delta[r]]
  BY <1>1 DEF LinksResolve, TypeOK
<1>3. CASE Place(r)
  <2>1. PICK d \in Deltas, k \in {NoLink, pos.id} :
          /\ delta' = [delta EXCEPT ![r] = d]
          /\ link' = [link EXCEPT ![r] = k]
    BY <1>3 DEF Place
  <2>2. d \in Int
    BY DeltasAssumption
  <2>3. /\ pc' = [pc EXCEPT ![r] = "sent"] /\ link[r] = NoLink
        /\ UNCHANGED <<ledgerVars, copy, snap, historyVars>>
    BY <1>1, <1>3 DEF Place, Goto, LinksResolve
  <2>4. order' \in [Orders -> {"absent", "PENDING", "refused", "ACKNOWLEDGED"}]
    BY <1>1, <1>3 DEF Place, TypeOK
  <2>. QED
    BY <2>1, <2>2, <2>3, <2>4, OrderElsewhere
<1>4. CASE PlaceDangling(r)
  <2>1. /\ pc' = [pc EXCEPT ![r] = "done"]
        /\ order' = order /\ delta' = delta /\ link' = link
        /\ UNCHANGED <<ledgerVars, copy, snap, historyVars>>
    BY <1>4 DEF PlaceDangling, Goto, orderVars
  <2>. QED
    BY <1>1, <1>2, <2>1, OrderElsewhere DEF TypeOK
<1>5. CASE Refuse(r)
  <2>1. /\ pc' = [pc EXCEPT ![r] = "done"]
        /\ delta' = delta /\ link' = link
        /\ UNCHANGED <<ledgerVars, copy, snap, historyVars>>
    BY <1>5 DEF Refuse, Goto
  <2>2. order' \in [Orders -> {"absent", "PENDING", "refused", "ACKNOWLEDGED"}]
    BY <1>1, <1>5 DEF Refuse, TypeOK
  <2>. QED
    BY <1>2, <2>1, <2>2, OrderElsewhere
<1>6. CASE Accept(r)
  <2>1. /\ pc' = [pc EXCEPT ![r] = "accepted"]
        /\ order' = order /\ delta' = delta /\ link' = link
        /\ UNCHANGED <<ledgerVars, copy, snap, historyVars>>
    BY <1>6 DEF Accept, Goto, orderVars
  <2>. QED
    BY <1>1, <1>2, <2>1, OrderElsewhere DEF TypeOK
<1>7. CASE Die(r)
  <2>1. /\ pc' = [pc EXCEPT ![r] = "died"]
        /\ order' = order /\ delta' = delta /\ link' = link
        /\ UNCHANGED <<ledgerVars, copy, snap, historyVars>>
    BY <1>7 DEF Die, Goto, orderVars
  <2>. QED
    BY <1>1, <1>2, <2>1, OrderElsewhere DEF TypeOK
<1>8. CASE ReadForOrder(r)
  BY <1>1, <1>8, ReadKeeps DEF ReadForOrder
<1>. QED
  BY <1>3, <1>4, <1>5, <1>6, <1>7, <1>8,
     OpenKeeps, ChangeKeeps, CloseKeeps, FailKeeps DEF OrderStep

(* Each step of a sync keeps the invariant.                                *)
LEMMA SyncStepKeeps ==
    ASSUME IInv, NEW s \in Syncs, SyncStep(s)
    PROVE  IInv'
<1>1. /\ TypeOK /\ Windows /\ Current /\ Numbered
      /\ LinksResolve /\ LedgerIsSum /\ LostAckExplained
      /\ s \in Actors /\ s \notin Orders
      /\ pos \in Positions /\ copy[s] \in Positions /\ lastId \in Nat
  BY ActorsAssumption DEF IInv, Actors, TypeOK
<1>2. CASE Fetch(s)
  <2>1. /\ pc' = [pc EXCEPT ![s] = "fetched"]
        /\ snap' \in [Syncs -> Snapshots]
        /\ order' = order /\ delta' = delta /\ link' = link
        /\ pos' = pos /\ lastId' = lastId /\ copy' = copy
        /\ mixed' = mixed /\ clean' = clean /\ expected' = expected
    BY <1>1, <1>2 DEF Fetch, Goto, TypeOK, orderVars, ledgerVars, historyVars
  <2>2. Windows' /\ Current' /\ Numbered' /\ LedgerIsSum'
    BY <1>1, <2>1, MoveOn
  <2>3. TypeOK'
    BY <1>1, <2>1 DEF TypeOK
  <2>4. \A r \in Orders : pc'[r] = pc[r]
    BY <1>1, <2>1 DEF TypeOK, Actors
  <2>5. LinksResolve'
    BY <1>1, <2>1, <2>4 DEF LinksResolve
  <2>6. LostAckExplained'
    BY <1>1, <2>1, <2>4 DEF LostAckExplained, Net, Signed, Linked
  <2>. QED
    BY <2>2, <2>3, <2>5, <2>6 DEF IInv
<1>3. CASE ReadForSync(s)
  BY <1>1, <1>3, ReadKeeps DEF ReadForSync
<1>4. CASE SyncOpen(s)
  <2>1. PICK p \in Traded(s) :
          /\ pos' = [id |-> lastId + 1, side |-> Side(snap[s][p]),
                     qty |-> Size(snap[s][p])]
          /\ lastId' = lastId + 1
          /\ Overwrite(s, snap[s][p])
    BY <1>4 DEF SyncOpen
  <2>2. snap[s][p] \in Int
    BY <1>1, ListedType DEF Traded
  <2>3. /\ pos' \in Positions /\ Signed(pos') = snap[s][p]
        /\ pos'.id <= lastId' /\ pos'.id # NoLink /\ lastId' \in Nat
    BY <1>1, <2>1, <2>2, SignedNet DEF Positions, NoLink
  <2>. QED
    BY <1>4, <2>1, <2>2, <2>3, SyncWrites DEF SyncOpen
<1>5. CASE SyncChange(s)
  <2>1. PICK p \in Traded(s) :
          /\ pos' = Merge(copy[s], [side |-> Side(snap[s][p]),
                                    qty |-> Size(snap[s][p])])
          /\ Overwrite(s, snap[s][p])
    BY <1>5 DEF SyncChange
  <2>2. snap[s][p] \in Int
    BY <1>1, ListedType DEF Traded
  <2>. DEFINE want == [side |-> Side(snap[s][p]), qty |-> Size(snap[s][p])]
  <2>3. /\ want.side \in {"BUY", "SELL"} /\ want.qty \in Nat
        /\ Signed([id |-> 0, side |-> want.side, qty |-> want.qty])
              = snap[s][p]
    BY <2>2, SignedNet
  <2>4. /\ pos' \in Positions /\ pos'.id = pos.id
        /\ copy[s] = pos => pos'.side = want.side /\ pos'.qty = want.qty
    BY <1>1, <2>1, <2>3, MergeRow
  <2>. HIDE DEF want
  <2>5. copy[s] = pos => Signed(pos') = snap[s][p]
    BY <2>3, <2>4 DEF Signed
  <2>6. /\ pos.id # NoLink /\ pos.id <= lastId /\ lastId' = lastId
        /\ pc[s] = "read"
    BY <1>1, <1>5 DEF SyncChange, Numbered
  <2>7. s \notin mixed => Signed(pos') = snap[s][p]
    BY <1>1, <2>5, <2>6 DEF Current
  <2>. QED
    BY <1>1, <2>1, <2>2, <2>4, <2>6, <2>7, SyncWrites
<1>6. CASE SyncClose(s)
  <2>. DEFINE want == [copy[s] EXCEPT !.qty = 0]
  <2>1. /\ pc[s] = "read" /\ copy[s].qty > 0 /\ pos.id = copy[s].id
        /\ pos' = Merge(copy[s], want) /\ Overwrite(s, 0) /\ lastId' = lastId
    BY <1>6 DEF SyncClose
  <2>2. want.side \in {"BUY", "SELL"} /\ want.qty \in Nat /\ want.qty = 0
    BY <1>1 DEF Positions
  <2>. HIDE DEF want
  <2>3. /\ pos' \in Positions /\ pos'.id = pos.id
        /\ copy[s] = pos => pos'.side = want.side /\ pos'.qty = want.qty
    BY <1>1, <2>1, <2>2, MergeRow
  <2>4. copy[s] = pos => Signed(pos') = 0
    BY <2>2, <2>3 DEF Signed
  <2>5. pos.id # NoLink /\ pos.id <= lastId
    <3>1. copy[s] # NoPos
      BY <2>1 DEF NoPos
    <3>. QED
      BY <3>1, <1>1, <2>1 DEF Numbered
  <2>6. s \notin mixed => Signed(pos') = 0
    BY <1>1, <2>1, <2>4 DEF Current
  <2>. QED
    BY <1>1, <2>1, <2>3, <2>5, <2>6, SyncWrites
<1>7. CASE SyncSkip(s)
  BY <1>7, SyncLeaves DEF SyncSkip
<1>8. CASE SyncFails(s)
  BY <1>8, SyncLeaves DEF SyncFails
<1>. QED
  BY <1>2, <1>3, <1>4, <1>5, <1>6, <1>7, <1>8 DEF SyncStep

LEMMA StutterKeeps ==
    ASSUME IInv, UNCHANGED vars
    PROVE  IInv'
<1>1. /\ pc' = pc /\ order' = order /\ delta' = delta /\ link' = link
      /\ pos' = pos /\ lastId' = lastId /\ copy' = copy /\ snap' = snap
      /\ mixed' = mixed /\ clean' = clean /\ expected' = expected
  BY DEF vars, orderVars, ledgerVars, historyVars
<1>2. TypeOK' /\ Windows' /\ Current' /\ Numbered'
  BY <1>1 DEF IInv, TypeOK, Windows, Current, Numbered
<1>3. LinksResolve' /\ LedgerIsSum' /\ LostAckExplained'
  BY <1>1 DEF IInv, LinksResolve, LedgerIsSum, LostAckExplained, Net, Signed,
     Linked
<1>. QED
  BY <1>2, <1>3 DEF IInv

-----------------------------------------------------------------------------
(* A sync ends as synced by its own step, and by one of these four.        *)
LEMMA SyncedBy ==
    ASSUME IInv, [Next]_vars, NEW s \in Syncs,
           pc[s] = "read", pc'[s] = "synced"
    PROVE  SyncOpen(s) \/ SyncChange(s) \/ SyncClose(s) \/ SyncSkip(s)
<1>1. pc \in [Actors -> {"idle", "sent", "accepted", "fetched", "read",
                         "done", "failed", "died", "synced"}]
  BY DEF IInv, TypeOK
<1>2. s \in Actors /\ s \notin Orders
  BY ActorsAssumption DEF Actors
<1>3. ASSUME NEW r \in Orders, OrderStep(r) PROVE pc'[s] = pc[s]
  BY <1>1, <1>2, <1>3 DEF OrderStep, Place, PlaceDangling, Refuse, Accept,
     ReadForOrder, Read, Open, Change, Close, Fail, Die, Acknowledge, Goto
<1>4. ASSUME NEW b \in Syncs, SyncStep(b), b # s PROVE pc'[s] = pc[s]
  BY <1>1, <1>2, <1>4 DEF SyncStep, Fetch, ReadForSync, Read, SyncOpen,
     SyncChange, SyncClose, SyncSkip, SyncFails, Overwrite, EndSync, Goto
<1>5. ~ UNCHANGED vars
  BY DEF vars
<1>6. SyncStep(s)
  BY <1>3, <1>4, <1>5 DEF Next
<1>7. ~ Fetch(s) /\ ~ ReadForSync(s) /\ ~ SyncFails(s)
  BY <1>1, <1>2 DEF Fetch, ReadForSync, Read, SyncFails, EndSync, Goto, Actors
<1>. QED
  BY <1>6, <1>7 DEF SyncStep

(* What each of them leaves of the broker's report, if the sync has read   *)
(* the row as it is.                                                       *)
LEMMA SyncedLeaves ==
    ASSUME IInv, NEW s \in Syncs, s \notin mixed, pc[s] = "read",
           SyncOpen(s) \/ SyncChange(s) \/ SyncClose(s) \/ SyncSkip(s)
    PROVE  /\ Traded(s) # {} =>
                 \E p \in Traded(s) : Signed(pos') = snap[s][p]
           /\ DOMAIN snap[s] = {} => pos'.qty = 0
           /\ Traded(s) = {} /\ DOMAIN snap[s] # {} => pos' = pos
<1>1. /\ TypeOK /\ copy[s] = pos /\ pos \in Positions
  BY DEF IInv, Current, TypeOK, Actors
<1>2. DOMAIN snap[s] = {} => Traded(s) = {}
  BY DEF Traded
<1>3. CASE SyncOpen(s)
  <2>1. PICK p \in Traded(s) :
          pos' = [id |-> lastId + 1, side |-> Side(snap[s][p]),
                  qty |-> Size(snap[s][p])]
    BY <1>3 DEF SyncOpen
  <2>2. snap[s][p] \in Int
    BY <1>1, ListedType DEF Traded
  <2>. QED
    BY <2>1, <2>2, <1>2, SignedNet
<1>4. CASE SyncChange(s)
  <2>1. PICK p \in Traded(s) :
          pos' = Merge(copy[s], [side |-> Side(snap[s][p]),
                                 qty |-> Size(snap[s][p])])
    BY <1>4 DEF SyncChange
  <2>2. snap[s][p] \in Int
    BY <1>1, ListedType DEF Traded
  <2>. DEFINE want == [side |-> Side(snap[s][p]), qty |-> Size(snap[s][p])]
  <2>3. /\ want.side \in {"BUY", "SELL"} /\ want.qty \in Nat
        /\ Signed([id |-> 0, side |-> want.side, qty |-> want.qty])
              = snap[s][p]
    BY <2>2, SignedNet
  <2>4. pos'.side = want.side /\ pos'.qty = want.qty
    BY <1>1, <2>1, <2>3, MergeRow
  <2>. HIDE DEF want
  <2>5. Signed(pos') = snap[s][p]
    BY <2>3, <2>4 DEF Signed
  <2>. QED
    BY <2>1, <2>5, <1>2
<1>5. CASE SyncClose(s)
  <2>. DEFINE want == [copy[s] EXCEPT !.qty = 0]
  <2>1. DOMAIN snap[s] = {} /\ pos' = Merge(copy[s], want)
    BY <1>5 DEF SyncClose
  <2>2. want.side \in {"BUY", "SELL"} /\ want.qty \in Nat /\ want.qty = 0
    BY <1>1 DEF Positions
  <2>. HIDE DEF want
  <2>3. pos'.qty = 0
    BY <1>1, <2>1, <2>2, MergeRow
  <2>. QED
    BY <2>1, <2>3, <1>2
<1>6. CASE SyncSkip(s)
  BY <1>1, <1>6 DEF SyncSkip, ledgerVars
<1>. QED
  BY <1>3, <1>4, <1>5, <1>6

-----------------------------------------------------------------------------
(* The invariant holds in every reachable state, for any number of orders, *)
(* syncs and products and any quantities.                                  *)
THEOREM LedgerInvariance == Spec => []IInv
<1>1. Init => IInv
  BY InitIInv
<1>2. IInv /\ [Next]_vars => IInv'
  BY OrderStepKeeps, SyncStepKeeps, StutterKeeps DEF Next
<1>. QED
  BY <1>1, <1>2, PTL DEF Spec

(* Every commit leaves a well-formed ledger row: PositionService never     *)
(* stores a negative quantity or a side other than BUY and SELL.           *)
THEOREM LedgerTypeCorrect == Spec => []TypeOK
<1>1. IInv => TypeOK
  BY DEF IInv
<1>. QED
  BY <1>1, LedgerInvariance, PTL

(* apply_order and sync_from_broker keep the sum as long as no request     *)
(* writes on a reading that another had overtaken.                         *)
THEOREM LedgerIsSumCorrect == Spec => []LedgerIsSum
<1>1. IInv => LedgerIsSum
  BY DEF IInv
<1>. QED
  BY <1>1, LedgerInvariance, PTL

(* apply_order loses the acknowledgement of an accepted order only to      *)
(* another request at the row, or to the link that keeps a squared row.    *)
THEOREM LostAckCorrect == Spec => []LostAckExplained
<1>1. IInv => LostAckExplained
  BY DEF IInv
<1>. QED
  BY <1>1, LedgerInvariance, PTL

(* sync_from_broker_positionbook, undisturbed, leaves one of the broker's  *)
(* open products, whole, and a row that is closed where the broker lists   *)
(* nothing; only what it lists with net 0 alone does it leave standing.    *)
THEOREM SyncLeavesReportedCorrect == Spec => SyncLeavesReported
<1>1. IInv /\ [Next]_vars =>
        [\A s \in Syncs :
            pc[s] = "read" /\ pc'[s] = "synced" /\ s \notin mixed =>
                LET listed == DOMAIN snap[s]
                    open == {p \in listed : snap[s][p] # 0}
                IN  /\ open # {} =>
                          \E p \in open : Signed(pos') = snap[s][p]
                    /\ listed = {} => pos'.qty = 0
                    /\ open = {} /\ listed # {} => pos' = pos]_vars
  <2>. SUFFICES ASSUME IInv, [Next]_vars, NEW s \in Syncs,
                       pc[s] = "read", pc'[s] = "synced", s \notin mixed
                PROVE  /\ Traded(s) # {} =>
                             \E p \in Traded(s) : Signed(pos') = snap[s][p]
                       /\ DOMAIN snap[s] = {} => pos'.qty = 0
                       /\ Traded(s) = {} /\ DOMAIN snap[s] # {} => pos' = pos
    BY DEF Traded
  <2>1. SyncOpen(s) \/ SyncChange(s) \/ SyncClose(s) \/ SyncSkip(s)
    BY SyncedBy
  <2>. QED
    BY <2>1, SyncedLeaves
<1>. QED
  BY <1>1, LedgerInvariance, PTL DEF Spec, SyncLeavesReported

=============================================================================
