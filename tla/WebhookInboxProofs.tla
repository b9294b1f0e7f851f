-------------------------- MODULE WebhookInboxProofs --------------------------
(***************************************************************************)
(* WebhookInbox for any number of deliveries, keys, users and payloads:    *)
(* IInv is inductive, its safety properties follow, and the inbox and the  *)
(* queue implement AlertQueue.                                             *)
(*                                                                         *)
(* The argument: a row and an item keep the delivery that inserted them    *)
(* (RowsOwned, ItemsOwned), a key has one item (OneItemPerKey), and a      *)
(* delivery that dispatches is the one whose item has not been (Underway). *)
(***************************************************************************)
EXTENDS WebhookInbox, TLAPS

Early == {"idle", "routed", "known", "new", "late"}

Labels == {"idle", "routed", "known", "new", "late", "admit", "dispatch",
           "admitted", "refused", "done", "unmarked", "dead"}

Ways == {"none", "first", "unrecorded", "retry", "late"}

Responses == {"none", "rejected", "duplicate_ignored", "accepted",
              "accepted_not_enqueued"}

(* The places where the recorder of a row may be without an item.          *)
Pending == {"admit", "refused", "unmarked", "dead"}

MayLackItem(d) ==
    pc[d] \in Pending \/ (pc[d] = "done" /\ via[d] = "unrecorded")

LEMMA FoundIsQueued ==
    ASSUME NEW k, NEW u, Found(k, u)
    PROVE  Queued(k)
  BY DEF Found, Queued

(* A delivery that writes neither a row nor an item: what it must know to  *)
(* move from its place to label, having come by way and answered status.   *)
LEMMA LocalMove ==
    ASSUME IInv, NEW d \in Deliveries, NEW label \in Labels,
           NEW way \in Ways, NEW status \in Responses,
           pc' = [pc EXCEPT ![d] = label],
           via' = [via EXCEPT ![d] = way],
           answer' = [answer EXCEPT ![d] = status],
           alert' = alert, inbox' = inbox, queue' = queue, sent' = sent,
           way = via[d] \/ pc[d] \in {"new", "known", "late"},
           label \in Early \cup {"admit"} => pc[d] \in Early,
           label \in {"known", "late"} => Recorded(alert[d].key),
           label = "late" => alert[d].payload \notin Unreadable,
           label = "admit" => /\ way # "none"
                              /\ \/ Recorded(alert[d].key)
                                 \/ way = "unrecorded"
                              /\ \/ alert[d].payload \notin Unreadable
                                 \/ way = "retry",
           label # "dispatch",
           label = "admitted" => Found(alert[d].key, alert[d].user),
           status # "none" => label \in {"done", "unmarked"},
           status \in {"accepted", "duplicate_ignored"} =>
               Found(alert[d].key, alert[d].user),
           \/ label \in Pending
           \/ pc[d] \in Early
           \/ via[d] # "first"
           \/ Queued(alert[d].key)
    PROVE  IInv'
<1>1. /\ TypeOK /\ RowsOwned /\ ItemsOwned /\ OneItemPerKey /\ Underway
      /\ SentIsQueued /\ Answered /\ RecordedFirst /\ AcceptedIsQueued
  BY DEF IInv
<1>2. /\ pc'[d] = label /\ via'[d] = way /\ answer'[d] = status
      /\ \A e \in Deliveries \ {d} :
            pc'[e] = pc[e] /\ via'[e] = via[e] /\ answer'[e] = answer[e]
  BY <1>1 DEF TypeOK
<1>3. TypeOK'
  BY <1>1 DEF TypeOK, Labels, Ways, Responses
<1>4. \A row \in inbox : row.by \in Deliveries
  BY <1>1 DEF TypeOK, Rows
<1>5. \A item \in queue : item.by \in Deliveries
  BY <1>1 DEF TypeOK, Items
<1>6. RowsOwned'
  <2>. SUFFICES ASSUME NEW row \in inbox
                PROVE  /\ via'[row.by] \in {"first", "unrecorded"}
                       /\ pc'[row.by] \notin Early
    BY <1>1 DEF RowsOwned, Early
  <2>1. /\ via[row.by] \in {"first", "unrecorded"}
        /\ pc[row.by] \notin Early
    BY <1>1 DEF RowsOwned, Early
  <2>. QED
    BY <2>1, <1>2, <1>4 DEF Early
<1>7. ItemsOwned'
  <2>. SUFFICES ASSUME NEW item \in queue
                PROVE  /\ pc'[item.by] \notin Early \cup {"admit"}
                       /\ via'[item.by] = via[item.by]
    BY <1>1 DEF ItemsOwned, Early
  <2>1. pc[item.by] \notin Early \cup {"admit"}
    BY <1>1 DEF ItemsOwned, Early
  <2>. QED
    BY <2>1, <1>2, <1>5 DEF Early
<1>8. OneItemPerKey' /\ SentIsQueued'
  BY <1>1 DEF OneItemPerKey, SentIsQueued, Queued
<1>9. Underway'
  <2>. SUFFICES ASSUME NEW e \in Deliveries
                PROVE  /\ pc'[e] \in {"known", "late"} =>
                            Recorded(alert[e].key)
                       /\ pc'[e] = "late" =>
                            alert[e].payload \notin Unreadable
                       /\ pc'[e] = "admit" =>
                            /\ via'[e] # "none"
                            /\ \/ Recorded(alert[e].key)
                               \/ via'[e] = "unrecorded"
                            /\ \/ alert[e].payload \notin Unreadable
                               \/ via'[e] = "retry"
                       /\ pc'[e] = "dispatch" =>
                            \E item \in queue :
                                item.by = e /\ sent[item.key] = 0
                       /\ pc'[e] = "admitted" =>
                            Found(alert[e].key, alert[e].user)
    BY DEF Underway, Recorded, Found
  <2>1. CASE e = d
    BY <2>1, <1>2
  <2>2. CASE e # d
    BY <2>2, <1>1, <1>2 DEF Underway
  <2>. QED
    BY <2>1, <2>2
<1>10. Answered'
  <2>. SUFFICES ASSUME NEW e \in Deliveries
                PROVE  /\ answer'[e] # "none" =>
                            pc'[e] \in {"done", "unmarked"}
                       /\ answer'[e] \in {"accepted", "duplicate_ignored"} =>
                            Found(alert[e].key, alert[e].user)
    BY DEF Answered, Pleased, Found
  <2>1. CASE e = d
    BY <2>1, <1>2
  <2>2. CASE e # d
    BY <2>2, <1>1, <1>2 DEF Answered, Pleased
  <2>. QED
    BY <2>1, <2>2
<1>11. RecordedFirst'
  <2>. SUFFICES ASSUME NEW item \in queue
                PROVE  via'[item.by] = via[item.by]
    BY <1>1 DEF RecordedFirst, Recorded
  <2>1. pc[item.by] \notin Early
    BY <1>1 DEF ItemsOwned, Early
  <2>. QED
    BY <2>1, <1>2, <1>5 DEF Early
<1>12. AcceptedIsQueued'
  <2>. SUFFICES ASSUME NEW row \in inbox, row.status = "accepted",
                       ~Queued(row.key)
                PROVE  MayLackItem(row.by)'
    BY DEF AcceptedIsQueued, Pending, MayLackItem, Queued
  <2>1. /\ MayLackItem(row.by) /\ pc[row.by] \notin Early
        /\ via[row.by] \in {"first", "unrecorded"}
        /\ row.key = alert[row.by].key
    BY <1>1 DEF AcceptedIsQueued, RowsOwned, Pending, MayLackItem, Early
  <2>2. CASE row.by = d
    <3>1. label \notin Early \cup {"admitted", "dispatch"}
      BY <2>1, <2>2, FoundIsQueued DEF Early
    <3>2. label \in Pending \/ label = "done"
      BY <3>1 DEF Labels, Early, Pending
    <3>3. label \in Pending \/ way = "unrecorded"
      BY <2>1, <2>2 DEF Early
    <3>. QED
      BY <2>2, <3>2, <3>3, <1>2 DEF MayLackItem
  <2>3. CASE row.by # d
    BY <2>1, <2>3, <1>2, <1>4 DEF MayLackItem
  <2>. QED
    BY <2>2, <2>3
<1>. QED
  BY <1>3, <1>6, <1>7, <1>8, <1>9, <1>10, <1>11, <1>12 DEF IInv

LEMMA PersistKeeps ==
    ASSUME IInv, NEW d \in Deliveries, Persist(d) \/ PersistUnread(d)
    PROVE  IInv'
<1>1. /\ TypeOK /\ RowsOwned /\ ItemsOwned /\ OneItemPerKey /\ Underway
      /\ SentIsQueued /\ Answered /\ RecordedFirst /\ AcceptedIsQueued
  BY DEF IInv
<1>2. PICK way \in {"first", "unrecorded"} :
      /\ pc[d] = "new" /\ alert[d].payload \notin Unreadable
      /\ inbox' = inbox \cup {Row(d)}
      /\ pc' = [pc EXCEPT ![d] = "admit"]
      /\ via' = [via EXCEPT ![d] = way]
      /\ alert' = alert /\ queue' = queue /\ sent' = sent /\ answer' = answer
  BY DEF Persist, PersistUnread, Goto
<1>3. /\ pc'[d] = "admit" /\ via'[d] = way
      /\ \A e \in Deliveries \ {d} : pc'[e] = pc[e] /\ via'[e] = via[e]
  BY <1>1, <1>2 DEF TypeOK
<1>4. /\ Row(d) \in Rows /\ Row(d).key = alert[d].key /\ Row(d).by = d
      /\ Row(d).payload = alert[d].payload /\ Row(d).status = "accepted"
  BY <1>1, <1>2 DEF Row, Rows, TypeOK, Alerts
<1>5. \A row \in inbox : row.by \in Deliveries /\ row.by # d
  BY <1>1, <1>2 DEF TypeOK, Rows, RowsOwned
<1>6. \A item \in queue : item.by \in Deliveries /\ item.by # d
  BY <1>1, <1>2 DEF TypeOK, Items, ItemsOwned
<1>7. TypeOK'
  BY <1>1, <1>2, <1>4 DEF TypeOK
<1>8. RowsOwned'
  BY <1>1, <1>2, <1>3, <1>4, <1>5 DEF RowsOwned
<1>9. ItemsOwned'
  <2>. SUFFICES ASSUME NEW item \in queue
                PROVE  /\ pc'[item.by] = pc[item.by]
                       /\ via'[item.by] = via[item.by]
    BY <1>1, <1>2 DEF ItemsOwned
  <2>. QED
    BY <1>3, <1>6
<1>10. OneItemPerKey' /\ SentIsQueued'
  BY <1>1, <1>2 DEF OneItemPerKey, SentIsQueued, Queued
<1>11. \A k : Recorded(k) => Recorded(k)'
  BY <1>2 DEF Recorded
<1>12. Recorded(alert[d].key)'
  BY <1>2, <1>4 DEF Recorded
<1>13. Underway'
  <2>. SUFFICES ASSUME NEW e \in Deliveries
                PROVE  /\ pc'[e] \in {"known", "late"} =>
                            Recorded(alert[e].key)'
                       /\ pc'[e] = "late" =>
                            alert[e].payload \notin Unreadable
                       /\ pc'[e] = "admit" =>
                            /\ via'[e] # "none"
                            /\ \/ Recorded(alert[e].key)'
                               \/ via'[e] = "unrecorded"
                            /\ \/ alert[e].payload \notin Unreadable
                               \/ via'[e] = "retry"
                       /\ pc'[e] = "dispatch" =>
                            \E item \in queue :
                                item.by = e /\ sent[item.key] = 0
                       /\ pc'[e] = "admitted" =>
                            Found(alert[e].key, alert[e].user)
    BY <1>2 DEF Underway, Recorded, Found
  <2>1. CASE e = d
    BY <2>1, <1>2, <1>3, <1>12
  <2>2. CASE e # d
    BY <2>2, <1>1, <1>2, <1>3, <1>11 DEF Underway, Recorded
  <2>. QED
    BY <2>1, <2>2
<1>14. Answered'
  <2>1. \A e \in Deliveries : pc[e] \in {"done", "unmarked"} => pc'[e] = pc[e]
    BY <1>2, <1>3
  <2>. QED
    BY <2>1, <1>1, <1>2 DEF Answered, Pleased, Found
<1>15. RecordedFirst'
  BY <1>1, <1>2, <1>3, <1>6, <1>11 DEF RecordedFirst
<1>16. AcceptedIsQueued'
  <2>. SUFFICES ASSUME NEW row \in inbox', row.status = "accepted",
                       ~Queued(row.key)
                PROVE  MayLackItem(row.by)'
    BY <1>2 DEF AcceptedIsQueued, Pending, MayLackItem, Queued
  <2>1. CASE row = Row(d)
    BY <2>1, <1>3, <1>4 DEF Pending, MayLackItem
  <2>2. CASE row \in inbox
    BY <2>2, <1>1, <1>3, <1>5 DEF AcceptedIsQueued, Pending, MayLackItem
  <2>. QED
    BY <2>1, <2>2, <1>2
<1>. QED
  BY <1>7, <1>8, <1>9, <1>10, <1>13, <1>14, <1>15, <1>16 DEF IInv

LEMMA AdmitKeeps ==
    ASSUME IInv, NEW d \in Deliveries, Admit(d)
    PROVE  /\ IInv'
           /\ \E item \in Items :
                /\ \A other \in queue : other.key # item.key
                /\ queue' = queue \cup {item}
<1>1. /\ TypeOK /\ RowsOwned /\ ItemsOwned /\ OneItemPerKey /\ Underway
      /\ SentIsQueued /\ Answered /\ RecordedFirst /\ AcceptedIsQueued
  BY DEF IInv
<1>2. PICK payload \in Intents(d) :
        queue' = queue \cup {[key |-> alert[d].key, user |-> alert[d].user,
                              payload |-> payload, by |-> d]}
  BY DEF Admit
<1>. DEFINE item == [key |-> alert[d].key, user |-> alert[d].user,
                     payload |-> payload, by |-> d]
<1>3. PICK label \in {"dispatch", "admitted"} :
        pc' = [pc EXCEPT ![d] = label]
  BY DEF Admit, Goto
<1>4. /\ pc[d] = "admit" /\ ~Queued(alert[d].key)
      /\ alert' = alert /\ via' = via /\ inbox' = inbox /\ sent' = sent
      /\ answer' = answer
  BY DEF Admit
<1>5. /\ pc'[d] = label
      /\ \A e \in Deliveries \ {d} : pc'[e] = pc[e]
  BY <1>1, <1>3 DEF TypeOK
<1>6. /\ payload \in Payloads \ Unreadable
      /\ IF via[d] = "retry"
         THEN \E row \in inbox : row.key = alert[d].key /\ row.payload = payload
         ELSE payload = alert[d].payload
  <2>1. CASE via[d] = "retry"
    BY <2>1, <1>1 DEF Intents, TypeOK, Rows
  <2>2. CASE via[d] # "retry"
    <3>1. payload = alert[d].payload
      BY <2>2 DEF Intents
    <3>2. alert[d].payload \in Payloads \ Unreadable
      BY <1>1, <1>4, <2>2 DEF Underway, TypeOK, Alerts
    <3>. QED
      BY <2>2, <3>1, <3>2
  <2>. QED
    BY <2>1, <2>2
<1>7. item \in Items /\ item.key = alert[d].key /\ item.user = alert[d].user
      /\ item.payload = payload /\ item.by = d
  BY <1>1, <1>6 DEF Items, TypeOK, Alerts
<1>8. \A other \in queue : other.key # item.key
  BY <1>4, <1>7 DEF Queued
<1>9. queue' = queue \cup {item}
  BY <1>2
<1>. HIDE DEF item
<1>10. \A row \in inbox : row.by \in Deliveries
  BY <1>1 DEF TypeOK, Rows
<1>11. \A other \in queue : other.by \in Deliveries /\ other.by # d
  BY <1>1, <1>4 DEF TypeOK, Items, ItemsOwned
<1>12. TypeOK'
  BY <1>1, <1>3, <1>4, <1>7, <1>9 DEF TypeOK
<1>13. RowsOwned'
  BY <1>1, <1>4, <1>5, <1>10 DEF RowsOwned
<1>14. ItemsOwned'
  <2>. SUFFICES ASSUME NEW other \in queue'
                PROVE  /\ other.key = alert[other.by].key
                       /\ other.user = alert[other.by].user
                       /\ pc'[other.by] \notin Early \cup {"admit"}
                       /\ IF via[other.by] = "retry"
                          THEN \E row \in inbox :
                                  /\ row.key = other.key
                                  /\ row.payload = other.payload
                          ELSE other.payload = alert[other.by].payload
    BY <1>4 DEF ItemsOwned, Early
  <2>1. CASE other = item
    BY <2>1, <1>5, <1>6, <1>7 DEF Early
  <2>2. CASE other \in queue
    BY <2>2, <1>1, <1>5, <1>11 DEF ItemsOwned, Early
  <2>. QED
    BY <2>1, <2>2, <1>9
<1>15. OneItemPerKey'
  BY <1>1, <1>8, <1>9 DEF OneItemPerKey
<1>16. \A k : Queued(k) => Queued(k)'
  BY <1>9 DEF Queued
<1>17. \A k, u : Found(k, u) => Found(k, u)'
  BY <1>9 DEF Found
<1>18. SentIsQueued'
  BY <1>1, <1>4, <1>16 DEF SentIsQueued
<1>19. sent[item.key] = 0
  BY <1>1, <1>4, <1>7 DEF SentIsQueued, Items
<1>20. Found(alert[d].key, alert[d].user)'
  BY <1>4, <1>7, <1>9 DEF Found
<1>21. Underway'
  <2>. SUFFICES ASSUME NEW e \in Deliveries
                PROVE  /\ pc'[e] \in {"known", "late"} =>
                            Recorded(alert[e].key)
                       /\ pc'[e] = "late" =>
                            alert[e].payload \notin Unreadable
                       /\ pc'[e] = "admit" =>
                            /\ via[e] # "none"
                            /\ \/ Recorded(alert[e].key)
                               \/ via[e] = "unrecorded"
                            /\ \/ alert[e].payload \notin Unreadable
                               \/ via[e] = "retry"
                       /\ pc'[e] = "dispatch" =>
                            \E other \in queue' :
                                other.by = e /\ sent[other.key] = 0
                       /\ pc'[e] = "admitted" =>
                            Found(alert[e].key, alert[e].user)'
    BY <1>4 DEF Underway, Recorded, Found
  <2>1. CASE e = d
    <3>1. item \in queue' /\ item.by = e /\ sent[item.key] = 0
      BY <2>1, <1>7, <1>9, <1>19
    <3>2. pc'[e] = label
      BY <2>1, <1>5
    <3>. QED
      BY <2>1, <3>1, <3>2, <1>4, <1>20
  <2>2. CASE e # d
    BY <2>2, <1>1, <1>4, <1>5, <1>9, <1>17 DEF Underway, Found
  <2>. QED
    BY <2>1, <2>2
<1>22. Answered'
  <2>. SUFFICES ASSUME NEW e \in Deliveries, answer[e] # "none"
                PROVE  /\ pc'[e] \in {"done", "unmarked"}
                       /\ Pleased(e) => Found(alert[e].key, alert[e].user)'
    BY <1>4 DEF Answered, Pleased, Found
  <2>1. e # d
    BY <1>1, <1>4 DEF Answered
  <2>. QED
    BY <2>1, <1>1, <1>4, <1>5, <1>17 DEF Answered, Found
<1>23. RecordedFirst'
  <2>1. Recorded(item.key) \/ via[item.by] = "unrecorded"
    BY <1>1, <1>4, <1>7 DEF Underway
  <2>. QED
    BY <2>1, <1>1, <1>4, <1>9 DEF RecordedFirst, Recorded
<1>24. AcceptedIsQueued'
  <2>. SUFFICES ASSUME NEW row \in inbox, row.status = "accepted",
                       ~Queued(row.key)'
                PROVE  MayLackItem(row.by)'
    BY <1>4 DEF AcceptedIsQueued, Pending, MayLackItem
  <2>1. /\ MayLackItem(row.by) /\ row.key = alert[row.by].key
    BY <1>1, <1>16 DEF AcceptedIsQueued, RowsOwned, Pending, MayLackItem
  <2>2. row.by # d
    BY <2>1, <1>7, <1>9 DEF Queued
  <2>. QED
    BY <2>1, <2>2, <1>4, <1>5, <1>10 DEF MayLackItem
<1>. QED
  BY <1>7, <1>8, <1>9, <1>12, <1>13, <1>14, <1>15, <1>18, <1>21, <1>22,
     <1>23, <1>24 DEF IInv

(* execute_item is run on an item by the delivery that inserted it, once.  *)
LEMMA DispatchKeeps ==
    ASSUME IInv, NEW d \in Deliveries, NEW label \in {"admitted", "refused"},
           pc[d] = "dispatch", pc' = [pc EXCEPT ![d] = label],
           sent' \in {sent, Executed(d)},
           UNCHANGED <<alert, via, inbox, queue, answer>>
    PROVE  /\ IInv'
           /\ \E item \in queue :
                \/ sent' = sent
                \/ /\ sent[item.key] = 0
                   /\ sent' = [sent EXCEPT ![item.key] = 1]
<1>1. /\ TypeOK /\ RowsOwned /\ ItemsOwned /\ OneItemPerKey /\ Underway
      /\ SentIsQueued /\ Answered /\ RecordedFirst /\ AcceptedIsQueued
  BY DEF IInv
<1>2. /\ alert' = alert /\ via' = via /\ inbox' = inbox /\ queue' = queue
      /\ answer' = answer
  OBVIOUS
<1>3. /\ pc'[d] = label
      /\ \A e \in Deliveries \ {d} : pc'[e] = pc[e]
  BY <1>1 DEF TypeOK
<1>4. PICK item \in queue : item.by = d /\ sent[item.key] = 0
  BY <1>1 DEF Underway
<1>5. /\ item.key = alert[d].key /\ item.user = alert[d].user
      /\ item.key \in Keys
  BY <1>1, <1>4 DEF ItemsOwned, TypeOK, Items
<1>6. sent' = sent \/ sent' = [sent EXCEPT ![item.key] = 1]
  BY <1>1, <1>4, <1>5 DEF Executed, TypeOK
<1>7. Found(alert[d].key, alert[d].user) /\ Queued(alert[d].key)
  BY <1>5 DEF Found, Queued
<1>8. \A k \in Keys \ {alert[d].key} : sent'[k] = sent[k]
  BY <1>1, <1>5, <1>6 DEF TypeOK
<1>9. TypeOK'
  BY <1>1, <1>2, <1>6 DEF TypeOK
<1>10. \A row \in inbox : row.by \in Deliveries
  BY <1>1 DEF TypeOK, Rows
<1>11. \A other \in queue : other.by \in Deliveries /\ other.key \in Keys
  BY <1>1 DEF TypeOK, Items
<1>12. RowsOwned'
  BY <1>1, <1>2, <1>3, <1>10 DEF RowsOwned
<1>13. ItemsOwned'
  <2>. SUFFICES ASSUME NEW other \in queue
                PROVE  pc'[other.by] \notin Early \cup {"admit"}
    BY <1>1, <1>2 DEF ItemsOwned, Early
  <2>1. pc[other.by] \notin Early \cup {"admit"}
    BY <1>1 DEF ItemsOwned, Early
  <2>. QED
    BY <2>1, <1>3, <1>11 DEF Early
<1>14. OneItemPerKey' /\ RecordedFirst'
  BY <1>1, <1>2 DEF OneItemPerKey, RecordedFirst, Recorded
<1>15. SentIsQueued'
  BY <1>1, <1>2, <1>7, <1>8 DEF SentIsQueued, Queued
<1>16. Underway'
  <2>. SUFFICES ASSUME NEW e \in Deliveries, e # d, pc[e] = "dispatch"
                PROVE  \E other \in queue :
                          other.by = e /\ sent'[other.key] = 0
    BY <1>1, <1>2, <1>3, <1>7 DEF Underway, Recorded, Found
  <2>1. PICK other \in queue : other.by = e /\ sent[other.key] = 0
    BY <1>1 DEF Underway
  <2>2. other.key # item.key
    BY <2>1, <1>1, <1>4 DEF OneItemPerKey
  <2>. QED
    BY <2>1, <2>2, <1>5, <1>8, <1>11
<1>17. Answered'
  <2>1. \A e \in Deliveries : pc[e] \in {"done", "unmarked"} => pc'[e] = pc[e]
    BY <1>3
  <2>. QED
    BY <2>1, <1>1, <1>2 DEF Answered, Pleased, Found
<1>18. AcceptedIsQueued'
  <2>. SUFFICES ASSUME NEW row \in inbox, row.status = "accepted",
                       ~Queued(row.key)
                PROVE  MayLackItem(row.by)'
    BY <1>2 DEF AcceptedIsQueued, Pending, MayLackItem, Queued
  <2>1. MayLackItem(row.by)
    BY <1>1 DEF AcceptedIsQueued, Pending, MayLackItem
  <2>. QED
    BY <2>1, <1>2, <1>3, <1>10 DEF Pending, MayLackItem
<1>19. IInv'
  BY <1>9, <1>12, <1>13, <1>14, <1>15, <1>16, <1>17, <1>18 DEF IInv
<1>. QED
  BY <1>4, <1>6, <1>19

(* Marking the rows of a key changes their status and nothing else.        *)
LEMMA MarkedFacts ==
    ASSUME TypeOK, NEW d \in Deliveries
    PROVE  /\ Marked(d) \subseteq Rows
           /\ \A row \in Marked(d) : \E old \in inbox :
                /\ row.key = old.key /\ row.payload = old.payload
                /\ row.by = old.by
                /\ row.key # alert[d].key => row = old
                /\ row.key = alert[d].key =>
                      row.status = "accepted_not_enqueued"
           /\ \A old \in inbox : \E row \in Marked(d) :
                row.key = old.key /\ row.payload = old.payload
<1>1. inbox \subseteq Rows
  BY DEF TypeOK
<1>. DEFINE mark(row) == IF row.key = alert[d].key
                         THEN [row EXCEPT !.status = "accepted_not_enqueued"]
                         ELSE row
<1>2. \A old \in inbox :
        /\ mark(old) \in Rows /\ mark(old).key = old.key
        /\ mark(old).payload = old.payload /\ mark(old).by = old.by
        /\ mark(old).key # alert[d].key => mark(old) = old
        /\ mark(old).key = alert[d].key =>
              mark(old).status = "accepted_not_enqueued"
  BY <1>1 DEF Rows
<1>3. Marked(d) = {mark(row) : row \in inbox}
  BY DEF Marked
<1>. HIDE DEF mark
<1>. QED
  BY <1>2, <1>3

LEMMA RefuseKeeps ==
    ASSUME IInv, NEW d \in Deliveries, pc[d] = "refused",
           inbox' = Marked(d), pc' = [pc EXCEPT ![d] = "done"],
           answer' = [answer EXCEPT ![d] = "accepted_not_enqueued"],
           UNCHANGED <<alert, via, queue, sent>>
    PROVE  IInv'
<1>1. /\ TypeOK /\ RowsOwned /\ ItemsOwned /\ OneItemPerKey /\ Underway
      /\ SentIsQueued /\ Answered /\ RecordedFirst /\ AcceptedIsQueued
  BY DEF IInv
<1>2. /\ alert' = alert /\ via' = via /\ queue' = queue /\ sent' = sent
  OBVIOUS
<1>3. /\ pc'[d] = "done" /\ answer'[d] = "accepted_not_enqueued"
      /\ \A e \in Deliveries \ {d} : pc'[e] = pc[e] /\ answer'[e] = answer[e]
  BY <1>1 DEF TypeOK
<1>4. TypeOK'
  BY <1>1, <1>2, MarkedFacts DEF TypeOK
<1>5. \A row \in inbox : row.by \in Deliveries
  BY <1>1 DEF TypeOK, Rows
<1>6. \A other \in queue : other.by \in Deliveries
  BY <1>1 DEF TypeOK, Items
<1>7. \A k : Recorded(k) => Recorded(k)'
  BY <1>1, MarkedFacts DEF Recorded
<1>8. RowsOwned'
  <2>. SUFFICES ASSUME NEW row \in inbox'
                PROVE  /\ row.key = alert[row.by].key
                       /\ row.payload = alert[row.by].payload
                       /\ via[row.by] \in {"first", "unrecorded"}
                       /\ pc'[row.by] \notin Early
    BY <1>2 DEF RowsOwned, Early
  <2>1. PICK old \in inbox : /\ row.key = old.key /\ row.payload = old.payload
                             /\ row.by = old.by
    BY <1>1, MarkedFacts
  <2>2. pc[old.by] \notin Early
    BY <1>1 DEF RowsOwned, Early
  <2>. QED
    BY <2>1, <2>2, <1>1, <1>3, <1>5 DEF RowsOwned, Early
<1>9. ItemsOwned'
  <2>. SUFFICES ASSUME NEW other \in queue
                PROVE  /\ pc'[other.by] \notin Early \cup {"admit"}
                       /\ via[other.by] = "retry" =>
                            \E row \in inbox' :
                                /\ row.key = other.key
                                /\ row.payload = other.payload
    BY <1>1, <1>2 DEF ItemsOwned, Early
  <2>1. pc[other.by] \notin Early \cup {"admit"}
    BY <1>1 DEF ItemsOwned, Early
  <2>2. ASSUME via[other.by] = "retry"
        PROVE  \E row \in inbox' :
                  row.key = other.key /\ row.payload = other.payload
    <3>1. PICK old \in inbox :
            old.key = other.key /\ old.payload = other.payload
      BY <2>2, <1>1 DEF ItemsOwned
    <3>. QED
      BY <3>1, <1>1, MarkedFacts
  <2>. QED
    BY <2>1, <2>2, <1>3, <1>6 DEF Early
<1>10. OneItemPerKey' /\ SentIsQueued'
  BY <1>1, <1>2 DEF OneItemPerKey, SentIsQueued, Queued
<1>11. RecordedFirst'
  BY <1>1, <1>2, <1>7 DEF RecordedFirst
<1>12. Underway'
  <2>. SUFFICES ASSUME NEW e \in Deliveries, e # d
                PROVE  /\ pc[e] \in {"known", "late"} =>
                            Recorded(alert[e].key)'
                       /\ pc[e] = "admit" =>
                            \/ Recorded(alert[e].key)'
                            \/ via[e] = "unrecorded"
    BY <1>1, <1>2, <1>3 DEF Underway, Recorded, Found
  <2>. QED
    BY <1>1, <1>7 DEF Underway
<1>13. Answered'
  BY <1>1, <1>2, <1>3 DEF Answered, Pleased, Found
<1>14. AcceptedIsQueued'
  <2>. SUFFICES ASSUME NEW row \in inbox', row.status = "accepted",
                       ~Queued(row.key)
                PROVE  MayLackItem(row.by)'
    BY <1>2 DEF AcceptedIsQueued, Pending, MayLackItem, Queued
  <2>1. row \in inbox /\ row.key # alert[d].key
    BY <1>1, MarkedFacts
  <2>2. MayLackItem(row.by) /\ row.by # d
    BY <2>1, <1>1 DEF AcceptedIsQueued, RowsOwned, Pending, MayLackItem
  <2>. QED
    BY <2>1, <2>2, <1>2, <1>3, <1>5 DEF MayLackItem
<1>. QED
  BY <1>4, <1>8, <1>9, <1>10, <1>11, <1>12, <1>13, <1>14 DEF IInv

-----------------------------------------------------------------------------
LEMMA InitIInv ==
    ASSUME Init
    PROVE  IInv
<1>1. TypeOK
  BY DEF Init, TypeOK
<1>2. Underway /\ Answered
  BY DEF Init, Underway, Answered, Pleased
<1>3. RowsOwned /\ ItemsOwned /\ OneItemPerKey /\ SentIsQueued
  BY DEF Init, RowsOwned, ItemsOwned, OneItemPerKey, SentIsQueued
<1>4. RecordedFirst /\ AcceptedIsQueued
  BY DEF Init, RecordedFirst, AcceptedIsQueued
<1>. QED
  BY <1>1, <1>2, <1>3, <1>4 DEF IInv

(* Each step of a delivery keeps the invariant.                            *)
LEMMA StepKeeps ==
    ASSUME IInv, NEW d \in Deliveries,
           \/ Route(d) \/ Reject(d) \/ Lookup(d) \/ RejectPayload(d)
           \/ Persist(d) \/ PersistLate(d) \/ PersistFails(d)
           \/ PersistUnread(d) \/ Duplicate(d) \/ Readmit(d)
           \/ Admit(d) \/ AdmitTaken(d) \/ AdmitFails(d)
           \/ Dispatch(d) \/ DispatchFails(d)
           \/ Accept(d) \/ Refuse(d) \/ RefuseUnmarked(d) \/ Die(d)
    PROVE  IInv'
<1>1. /\ TypeOK /\ Underway /\ Answered /\ ItemsOwned
      /\ via[d] \in Ways /\ answer[d] \in Responses
      /\ via = [via EXCEPT ![d] = via[d]]
      /\ answer = [answer EXCEPT ![d] = answer[d]]
  BY DEF IInv, TypeOK, Ways, Responses
<1>2. /\ answer[d] # "none" => pc[d] \in {"done", "unmarked"}
      /\ pc[d] = "admitted" => Found(alert[d].key, alert[d].user)
      /\ pc[d] = "admitted" => Queued(alert[d].key)
      /\ pc[d] = "dispatch" => Queued(alert[d].key)
  <2>1. pc[d] = "dispatch" => Queued(alert[d].key)
    BY <1>1 DEF Underway, ItemsOwned, Queued
  <2>. QED
    BY <2>1, <1>1, FoundIsQueued DEF Answered, Underway
<1>. USE DEF Labels, Early, Pending
<1>3. CASE Route(d)
  BY <1>1, <1>2, <1>3, LocalMove DEF Route, Goto
<1>4. CASE Reject(d)
  <2>1. /\ pc[d] = "idle" /\ pc' = [pc EXCEPT ![d] = "done"]
        /\ answer' = [answer EXCEPT ![d] = "rejected"]
        /\ UNCHANGED <<alert, via, inbox, queue, sent>>
    BY <1>4 DEF Reject, Respond, Goto
  <2>. QED
    BY <1>1, <2>1, LocalMove DEF Responses
<1>5. CASE Lookup(d)
  <2>1. PICK label \in {"known", "new"} :
          /\ pc' = [pc EXCEPT ![d] = label]
          /\ label = "known" => Recorded(alert[d].key)
    BY <1>5 DEF Lookup, Goto
  <2>2. pc[d] = "routed" /\ UNCHANGED <<alert, via, inbox, queue, sent, answer>>
    BY <1>5 DEF Lookup
  <2>. QED
    BY <1>1, <1>2, <2>1, <2>2, LocalMove
<1>6. CASE RejectPayload(d)
  <2>1. /\ pc[d] = "new" /\ pc' = [pc EXCEPT ![d] = "done"]
        /\ answer' = [answer EXCEPT ![d] = "rejected"]
        /\ UNCHANGED <<alert, via, inbox, queue, sent>>
    BY <1>6 DEF RejectPayload, Respond, Goto
  <2>. QED
    BY <1>1, <2>1, LocalMove DEF Responses
<1>7. CASE Persist(d) \/ PersistUnread(d)
  BY <1>7, PersistKeeps
<1>8. CASE PersistLate(d)
  BY <1>1, <1>2, <1>8, LocalMove DEF PersistLate, Goto
<1>9. CASE PersistFails(d)
  <2>1. /\ pc[d] = "new" /\ pc' = [pc EXCEPT ![d] = "admit"]
        /\ via' = [via EXCEPT ![d] = "unrecorded"]
        /\ alert[d].payload \notin Unreadable
        /\ UNCHANGED <<alert, inbox, queue, sent, answer>>
    BY <1>9 DEF PersistFails, Goto
  <2>. QED
    BY <1>1, <1>2, <2>1, LocalMove DEF Ways
<1>10. CASE Duplicate(d)
  <2>1. /\ pc[d] \in {"known", "late"} /\ pc' = [pc EXCEPT ![d] = "done"]
        /\ answer' = [answer EXCEPT ![d] = "duplicate_ignored"]
        /\ Found(alert[d].key, alert[d].user)
        /\ UNCHANGED <<alert, via, inbox, queue, sent>>
    BY <1>10 DEF Duplicate, Respond, Goto
  <2>. QED
    BY <1>1, <2>1, LocalMove DEF Responses
<1>11. CASE Readmit(d)
  <2>1. PICK way \in {"retry", "late"} :
          /\ via' = [via EXCEPT ![d] = way]
          /\ way = "late" => pc[d] = "late"
    BY <1>11 DEF Readmit
  <2>2. /\ pc[d] \in {"known", "late"} /\ pc' = [pc EXCEPT ![d] = "admit"]
        /\ UNCHANGED <<alert, inbox, queue, sent, answer>>
    BY <1>11 DEF Readmit, Goto
  <2>3. /\ Recorded(alert[d].key)
        /\ alert[d].payload \notin Unreadable \/ way = "retry"
    BY <1>1, <2>1, <2>2 DEF Underway
  <2>. QED
    BY <1>1, <1>2, <2>1, <2>2, <2>3, LocalMove DEF Ways
<1>12. CASE Admit(d)
  BY <1>12, AdmitKeeps
<1>13. CASE AdmitTaken(d)
  <2>1. PICK label \in {"admitted", "refused"} :
          /\ pc' = [pc EXCEPT ![d] = label]
          /\ label = "admitted" => Found(alert[d].key, alert[d].user)
    BY <1>13 DEF AdmitTaken, Goto
  <2>2. /\ pc[d] = "admit" /\ Queued(alert[d].key)
        /\ UNCHANGED <<alert, via, inbox, queue, sent, answer>>
    BY <1>13 DEF AdmitTaken
  <2>. QED
    BY <1>1, <1>2, <2>1, <2>2, LocalMove
<1>14. CASE AdmitFails(d)
  BY <1>1, <1>2, <1>14, LocalMove DEF AdmitFails, Goto
<1>15. CASE Dispatch(d)
  BY <1>15, DispatchKeeps DEF Dispatch, Goto
<1>16. CASE DispatchFails(d)
  BY <1>16, DispatchKeeps DEF DispatchFails, Goto
<1>17. CASE Accept(d)
  <2>1. /\ pc[d] = "admitted" /\ pc' = [pc EXCEPT ![d] = "done"]
        /\ answer' = [answer EXCEPT ![d] = "accepted"]
        /\ UNCHANGED <<alert, via, inbox, queue, sent>>
    BY <1>17 DEF Accept, Respond, Goto
  <2>. QED
    BY <1>1, <1>2, <2>1, LocalMove DEF Responses
<1>18. CASE Refuse(d)
  <2>1. /\ pc[d] = "refused" /\ pc' = [pc EXCEPT ![d] = "done"]
        /\ answer' = [answer EXCEPT ![d] = "accepted_not_enqueued"]
        /\ UNCHANGED <<alert, via, queue, sent>>
        /\ inbox' = IF via[d] \in {"first", "retry"} THEN Marked(d) ELSE inbox
    BY <1>18 DEF Refuse, Respond, Goto
  <2>2. CASE via[d] \in {"first", "retry"}
    BY <2>1, <2>2, RefuseKeeps
  <2>3. CASE via[d] \notin {"first", "retry"}
    BY <1>1, <2>1, <2>3, LocalMove DEF Responses
  <2>. QED
    BY <2>2, <2>3
<1>19. CASE RefuseUnmarked(d)
  <2>1. /\ pc[d] = "refused" /\ pc' = [pc EXCEPT ![d] = "unmarked"]
        /\ answer' = [answer EXCEPT ![d] = "accepted_not_enqueued"]
        /\ UNCHANGED <<alert, via, inbox, queue, sent>>
    BY <1>19 DEF RefuseUnmarked, Goto
  <2>. QED
    BY <1>1, <2>1, LocalMove DEF Responses
<1>20. CASE Die(d)
  BY <1>1, <1>2, <1>20, LocalMove DEF Die, Goto
<1>. QED
  BY <1>3, <1>4, <1>5, <1>6, <1>7, <1>8, <1>9, <1>10, <1>11, <1>12, <1>13,
     <1>14, <1>15, <1>16, <1>17, <1>18, <1>19, <1>20

LEMMA StutterKeeps ==
    ASSUME IInv, UNCHANGED vars
    PROVE  IInv'
  BY DEF vars, IInv, TypeOK, RowsOwned, ItemsOwned, OneItemPerKey, Underway,
     SentIsQueued, Answered, RecordedFirst, AcceptedIsQueued, Recorded, Queued,
     Found, Pleased

Told == {<<d, alert[d].key, alert[d].user>> : d \in {e \in Deliveries : Pleased(e)}}

(* What a delivery that goes on without an answer tells: nothing new.      *)
LEMMA ToldStays ==
    ASSUME answer' = answer, alert' = alert
    PROVE  Told' = Told
  BY DEF Told, Pleased

LEMMA ToldOnce ==
    ASSUME TypeOK, NEW d \in Deliveries, NEW status \in Responses,
           alert' = alert, answer[d] = "none",
           answer' = [answer EXCEPT ![d] = status]
    PROVE  Told' = IF status \in {"accepted", "duplicate_ignored"}
                   THEN Told \cup {<<d, alert[d].key, alert[d].user>>}
                   ELSE Told
<1>1. \A e \in Deliveries : answer'[e] = IF e = d THEN status ELSE answer[e]
  BY DEF TypeOK
<1>2. \A e \in Deliveries : Pleased(e)' <=>
        IF e = d THEN status \in {"accepted", "duplicate_ignored"}
                 ELSE Pleased(e)
  BY <1>1 DEF Pleased
<1>3. ~Pleased(d)
  BY DEF Pleased
<1>4. Told' = {<<e, alert[e].key, alert[e].user>> :
                 e \in {f \in Deliveries : Pleased(f)'}}
  BY DEF Told
<1>5. CASE status \in {"accepted", "duplicate_ignored"}
  <2>1. {f \in Deliveries : Pleased(f)'} = {f \in Deliveries : Pleased(f)} \cup {d}
    BY <1>2, <1>5
  <2>. QED
    BY <1>4, <1>5, <2>1 DEF Told
<1>6. CASE status \notin {"accepted", "duplicate_ignored"}
  <2>1. {f \in Deliveries : Pleased(f)'} = {f \in Deliveries : Pleased(f)}
    BY <1>2, <1>3, <1>6
  <2>. QED
    BY <1>4, <1>6, <2>1 DEF Told
<1>. QED
  BY <1>5, <1>6

(* A response that pleases is about an item of the delivery's user.        *)
LEMMA TellStep ==
    ASSUME IInv, NEW d \in Deliveries, NEW status \in Responses,
           alert' = alert, queue' = queue, sent' = sent, answer[d] = "none",
           answer' = [answer EXCEPT ![d] = status],
           status \in {"accepted", "duplicate_ignored"}
             => Found(alert[d].key, alert[d].user)
    PROVE  [Promise!Next]_<<queue, sent, Told>>
<1>1. TypeOK
  BY DEF IInv
<1>2. CASE status \in {"accepted", "duplicate_ignored"}
  <2>1. PICK item \in queue : item.key = alert[d].key /\ item.user = alert[d].user
    BY <1>2 DEF Found
  <2>2. Told' = Told \cup {<<d, item.key, item.user>>}
    BY <1>1, <1>2, <2>1, ToldOnce
  <2>3. item \in Promise!Items
    BY <1>1, <2>1 DEF TypeOK, Items, Promise!Items
  <2>. QED
    BY <2>1, <2>2, <2>3 DEF Promise!Next, Promise!Tell, Told
<1>3. CASE status \notin {"accepted", "duplicate_ignored"}
  BY <1>1, <1>3, ToldOnce
<1>. QED
  BY <1>2, <1>3

LEMMA StepTells ==
    ASSUME IInv, NEW d \in Deliveries,
           \/ Route(d) \/ Reject(d) \/ Lookup(d) \/ RejectPayload(d)
           \/ Persist(d) \/ PersistLate(d) \/ PersistFails(d)
           \/ PersistUnread(d) \/ Duplicate(d) \/ Readmit(d)
           \/ Admit(d) \/ AdmitTaken(d) \/ AdmitFails(d)
           \/ Dispatch(d) \/ DispatchFails(d)
           \/ Accept(d) \/ Refuse(d) \/ RefuseUnmarked(d) \/ Die(d)
    PROVE  [Promise!Next]_<<queue, sent, Told>>
<1>1. TypeOK /\ (answer[d] # "none" => pc[d] \in {"done", "unmarked"})
  BY DEF IInv, Answered
<1>2. CASE \/ Route(d) \/ Lookup(d) \/ Persist(d) \/ PersistLate(d)
           \/ PersistFails(d) \/ PersistUnread(d) \/ Readmit(d)
           \/ AdmitTaken(d) \/ AdmitFails(d) \/ Die(d)
  <2>1. answer' = answer /\ alert' = alert /\ queue' = queue /\ sent' = sent
    BY <1>2 DEF Route, Lookup, Persist, PersistLate, PersistFails,
       PersistUnread, Readmit, AdmitTaken, AdmitFails, Die
  <2>. QED
    BY <2>1, ToldStays
<1>3. CASE Admit(d)
  <2>1. answer' = answer /\ alert' = alert /\ sent' = sent
    BY <1>3 DEF Admit
  <2>2. PICK item \in Items :
          /\ \A other \in queue : other.key # item.key
          /\ queue' = queue \cup {item}
    BY <1>3, AdmitKeeps
  <2>3. item \in Promise!Items
    BY DEF Items, Promise!Items
  <2>. QED
    BY <2>1, <2>2, <2>3, ToldStays DEF Promise!Next, Promise!Enqueue, Told
<1>4. CASE Dispatch(d) \/ DispatchFails(d)
  <2>1. PICK label \in {"admitted", "refused"} :
          /\ pc[d] = "dispatch" /\ pc' = [pc EXCEPT ![d] = label]
          /\ sent' \in {sent, Executed(d)}
          /\ UNCHANGED <<alert, via, inbox, queue, answer>>
    BY <1>4 DEF Dispatch, DispatchFails, Goto
  <2>2. PICK item \in queue :
          \/ sent' = sent
          \/ /\ sent[item.key] = 0
             /\ sent' = [sent EXCEPT ![item.key] = 1]
    BY <2>1, DispatchKeeps
  <2>3. item \in Promise!Items
    BY <1>1 DEF TypeOK, Items, Promise!Items
  <2>4. answer' = answer /\ alert' = alert /\ queue' = queue
    BY <2>1
  <2>. QED
    BY <2>2, <2>3, <2>4, ToldStays DEF Promise!Next, Promise!Dispatch, Told
<1>5. CASE Reject(d) \/ RejectPayload(d) \/ Refuse(d) \/ RefuseUnmarked(d)
  <2>1. PICK status \in {"rejected", "accepted_not_enqueued"} :
          answer' = [answer EXCEPT ![d] = status]
    BY <1>5 DEF Reject, RejectPayload, Refuse, RefuseUnmarked, Respond
  <2>2. /\ alert' = alert /\ queue' = queue /\ sent' = sent
        /\ pc[d] \in {"idle", "new", "refused"}
    BY <1>5 DEF Reject, RejectPayload, Refuse, RefuseUnmarked
  <2>. QED
    BY <1>1, <2>1, <2>2, TellStep DEF Responses
<1>6. CASE Accept(d) \/ Duplicate(d)
  <2>1. PICK status \in {"accepted", "duplicate_ignored"} :
          answer' = [answer EXCEPT ![d] = status]
    BY <1>6 DEF Accept, Duplicate, Respond
  <2>2. /\ alert' = alert /\ queue' = queue /\ sent' = sent
        /\ pc[d] \in {"admitted", "known", "late"}
        /\ pc[d] \in {"known", "late"} => Found(alert[d].key, alert[d].user)
    BY <1>6 DEF Accept, Duplicate
  <2>3. Found(alert[d].key, alert[d].user)
    BY <2>2 DEF IInv, Underway
  <2>. QED
    BY <1>1, <2>1, <2>2, <2>3, TellStep DEF Responses
<1>. QED
  BY <1>2, <1>3, <1>4, <1>5, <1>6

-----------------------------------------------------------------------------
(* The invariant holds in every reachable state, for any number of         *)
(* deliveries, keys, users and payloads.                                   *)
THEOREM InboxInvariance == Spec => []IInv
<1>1. Init => IInv
  BY InitIInv
<1>2. IInv /\ [Next]_vars => IInv'
  BY StepKeeps, StutterKeeps DEF Next
<1>. QED
  BY <1>1, <1>2, PTL DEF Spec

(* Only payloads that normalise reach webhook_ingestions and the queue.    *)
THEOREM InboxTypeCorrect == Spec => []TypeOK
<1>1. IInv => TypeOK
  BY DEF IInv
<1>. QED
  BY <1>1, InboxInvariance, PTL

(* handle_tradingview queues nothing that the inbox does not know of, but  *)
(* for the alerts whose recording failed.                                  *)
THEOREM RecordedFirstCorrect == Spec => []RecordedFirst
<1>1. IInv => RecordedFirst
  BY DEF IInv
<1>. QED
  BY <1>1, InboxInvariance, PTL

(* A row that says "accepted" has its item, or a delivery under way, dead, *)
(* unable to mark it or unaware of it that explains why not.               *)
THEOREM AcceptedIsQueuedCorrect == Spec => []AcceptedIsQueued
<1>1. IInv => AcceptedIsQueued
  BY DEF IInv
<1>. QED
  BY <1>1, InboxInvariance, PTL

(* An item made of another delivery's payload was made by a retry of the   *)
(* alert that this delivery had recorded.                                  *)
THEOREM BorrowedIsRetryCorrect == Spec => []BorrowedIsRetry
<1>1. IInv => BorrowedIsRetry
  <2>1. SUFFICES ASSUME IInv, NEW item \in queue,
                        item.payload # alert[item.by].payload
                 PROVE  /\ via[item.by] = "retry"
                        /\ \E row \in inbox :
                            /\ row.key = item.key
                            /\ row.payload = item.payload
                            /\ row.by # item.by
    BY DEF BorrowedIsRetry
  <2>2. via[item.by] = "retry"
    BY <2>1 DEF IInv, ItemsOwned
  <2>3. PICK row \in inbox : row.key = item.key /\ row.payload = item.payload
    BY <2>1, <2>2 DEF IInv, ItemsOwned
  <2>4. row.payload = alert[row.by].payload
    BY <2>1 DEF IInv, RowsOwned
  <2>. QED
    BY <2>1, <2>2, <2>3, <2>4
<1>. QED
  BY <1>1, InboxInvariance, PTL

(* However often an alert is delivered, and wherever deliveries overlap or *)
(* die, every step of the inbox and the queue is one that AlertQueue       *)
(* allows, or leaves its state alone.                                      *)
THEOREM AlertQueueImplemented == Spec => AlertQueueSpec
<1>1. Init => Promise!Init
  BY DEF Init, Promise!Init, Pleased
<1>2. IInv /\ [Next]_vars => [Promise!Next]_<<queue, sent, Told>>
  <2>1. ASSUME UNCHANGED vars
        PROVE  UNCHANGED <<queue, sent, Told>>
    BY <2>1, ToldStays DEF vars
  <2>. QED
    BY <2>1, StepTells DEF Next
<1>. QED
  BY <1>1, <1>2, InboxInvariance, PTL
     DEF Spec, AlertQueueSpec, Promise!Spec, Told
=============================================================================
