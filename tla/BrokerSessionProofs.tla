------------------------ MODULE BrokerSessionProofs ------------------------
(***************************************************************************)
(* Proofs about BrokerSession: the inductive invariant IInv, the           *)
(* invariants it contains and the action properties that follow from it.   *)
(***************************************************************************)
EXTENDS BrokerSession, TLAPS

USE NoneAssumption DEF NoDay

-----------------------------------------------------------------------------
(* Helpers *)

LEMMA LeftType ==
    ASSUME NEW S, NEW x \in S, NEW y, NEW z \in S
    PROVE  Left(x, y, z) \in S
  BY DEF Left

(* Who writes what was not loaded otherwise leaves what he wanted. *)
LEMMA LeftAlone ==
    ASSUME NEW x, NEW z
    PROVE  Left(x, x, z) = z
  BY DEF Left

LEMMA ConnectionFacts ==
    /\ NoSession \notin Sessions
    /\ NoSession.on = 0 /\ NoSession.key = "none"
    /\ NewConnection \in Connection
    /\ NewConnection.session = NoSession
    /\ NewConnection.day = 0
    /\ \A s \in Sessions : s.on \in Nat \ {0} /\ s.key \in Keys
    /\ \A c \in Connection : /\ c.session \in Sessions \cup {NoSession}
                             /\ c.day \in Nat
                             /\ c.key \in Keys \cup {"none"}
                             /\ c.session.on \in Nat
  BY DEF NoSession, Sessions, NewConnection, Connection

-----------------------------------------------------------------------------
(* What the requests hold *)

(* The conjuncts that speak of one request. *)
Holds(a) ==
    /\ won[a].on <= today /\ dated[a] <= today
    /\ at[a] \in {"issued", "dated"} =>
           won[a] \in Sessions /\ won[a].key = base[a].key
           /\ MayConnect(base[a])
    /\ at[a] = "dated" => won[a].on <= dated[a]
    /\ at[a] \in {"open", "issued", "dated", "calling"} => created

LEMMA HoldsIntro ==
    ASSUME conn'.session.on <= today' /\ conn'.day <= today',
           \A a \in Requests : Holds(a)'
    PROVE  DaysArePast' /\ LoginsAreGranted'
  BY DEF Holds, DaysArePast, LoginsAreGranted

LEMMA HoldsDef ==
    ASSUME IInv
    PROVE  \A a \in Requests : Holds(a)
  BY DEF IInv, DaysArePast, LoginsAreGranted, Holds

(* Two requests do not share what they hold. *)
LEMMA OthersHold ==
    ASSUME IInv, NEW a \in Requests,
           today' \in Nat, today <= today', created => created',
           \A b \in Requests \ {a} :
                /\ at'[b] = at[b] /\ base'[b] = base[b]
                /\ won'[b] = won[b] /\ dated'[b] = dated[b]
    PROVE  \A b \in Requests \ {a} : Holds(b)'
<1>. TAKE b \in Requests \ {a}
<1>1. Holds(b)
  BY HoldsDef
<1>2. /\ won[b].on \in Nat /\ dated[b] \in Nat /\ today \in Nat
  BY ConnectionFacts DEF IInv, TypeOK
<1>3. at'[b] = at[b] /\ base'[b] = base[b] /\ won'[b] = won[b]
      /\ dated'[b] = dated[b]
  OBVIOUS
<1>. QED
  BY <1>1, <1>2, <1>3 DEF Holds, MayConnect

(* A request that is done holds nothing. *)
LEMMA FinishKeeps ==
    ASSUME IInv, NEW a \in Requests, Finish(a), today' = today,
           created' = created
    PROVE  /\ \A b \in Requests : Holds(b)'
           /\ at'[a] = "idle"
           /\ at' \in [Requests -> {"idle", "insert", "open", "issued",
                                    "dated", "calling"}]
           /\ base' \in [Requests -> Connection]
           /\ won' \in [Requests -> Sessions \cup {NoSession}]
           /\ dated' \in [Requests -> Nat]
<1>. USE DEF IInv, TypeOK
<1>1. /\ at' = [at EXCEPT ![a] = "idle"]
      /\ base' = [base EXCEPT ![a] = NewConnection]
      /\ won' = [won EXCEPT ![a] = NoSession]
      /\ dated' = [dated EXCEPT ![a] = 0]
  BY DEF Finish
<1>2. Holds(a)'
  <2>1. at'[a] = "idle" /\ won'[a] = NoSession /\ dated'[a] = 0
    BY <1>1
  <2>. QED
    BY <2>1, ConnectionFacts DEF Holds
<1>3. \A b \in Requests \ {a} : Holds(b)'
  BY <1>1, OthersHold
<1>4. \A b \in Requests : Holds(b)'
  BY <1>2, <1>3
<1>5. base' \in [Requests -> Connection]
  BY <1>1, ConnectionFacts
<1>. QED
  BY <1>1, <1>4, <1>5

-----------------------------------------------------------------------------
(* What the writes leave in the row *)

LEMMA ClearedFacts ==
    ASSUME IInv, NEW a \in Requests
    PROVE  /\ Cleared(a) \in Connection
           /\ Cleared(a).session \in {NoSession, conn.session}
           /\ Cleared(a).day \in {0, conn.day}
           /\ Cleared(a).key = conn.key
           /\ base[a].session # NoSession => Cleared(a).session = NoSession
           /\ base[a].session = NoSession =>
                Cleared(a).session = conn.session
           /\ base[a].day # 0 => Cleared(a).day = 0
           /\ base[a].day = 0 => Cleared(a).day = conn.day
<1>. DEFINE s == Left(conn.session, base[a].session, NoSession)
            d == Left(conn.day, base[a].day, 0)
<1>1. conn \in Connection
  BY DEF IInv, TypeOK
<1>2. /\ s \in {NoSession, conn.session} /\ d \in {0, conn.day}
      /\ base[a].session # NoSession => s = NoSession
      /\ base[a].session = NoSession => s = conn.session
      /\ base[a].day # 0 => d = 0
      /\ base[a].day = 0 => d = conn.day
  BY DEF Left
<1>3. s \in Sessions \cup {NoSession} /\ d \in Nat
  BY <1>1, <1>2, ConnectionFacts
<1>4. Cleared(a) = [conn EXCEPT !.session = s, !.day = d]
  BY DEF Cleared
<1>. HIDE DEF s, d
<1>. QED
  BY <1>1, <1>2, <1>3, <1>4 DEF Connection

(* The row without the session, after a refusal or a disconnect. *)
LEMMA ClearingKeeps ==
    ASSUME IInv, NEW a \in Requests, at[a] = "open", Finish(a),
           NEW e \in Errors \cup {"none"},
           conn' = [Cleared(a) EXCEPT !.err = Left(@, base[a].err, e)],
           doubt' = DoubtCleared(a),
           UNCHANGED <<today, created>>
    PROVE  IInv' /\ conn'.key = conn.key
<1>. DEFINE c == Cleared(a)
            f == Left(c.err, base[a].err, e)
<1>1. c \in Connection
  BY ClearedFacts
<1>2. f \in Errors \cup {"none"}
  BY <1>1 DEF Left, Connection
<1>3. conn' = [c EXCEPT !.err = f]
  OBVIOUS
<1>4. /\ conn' \in Connection /\ conn'.session = c.session
      /\ conn'.day = c.day /\ conn'.key = c.key
  <2>. HIDE DEF c, f
  <2>. QED
    BY <1>1, <1>2, <1>3 DEF Connection
<1>5. created
  BY HoldsDef DEF Holds
<1>6. conn'.session.on <= today' /\ conn'.day <= today'
  BY <1>4, ClearedFacts, ConnectionFacts DEF IInv, TypeOK, DaysArePast
<1>7. TypeOK'
  BY <1>4, FinishKeeps DEF IInv, TypeOK, DoubtCleared, Overtaken
<1>8. SessionIsOfItsDay'
  <2>1. CASE base[a].session = NoSession /\ base[a].day = 0
    <3>1. conn'.session = conn.session /\ conn'.day = conn.day
      BY <1>4, <2>1, ClearedFacts
    <3>2. doubt' = doubt
      BY <2>1 DEF DoubtCleared
    <3>. QED
      BY <3>1, <3>2 DEF IInv, SessionIsOfItsDay
  <2>2. CASE ~(base[a].session = NoSession /\ base[a].day = 0)
    <3>1. doubt' = Overtaken(a)
      BY <2>2 DEF DoubtCleared
    <3>2. ASSUME ~doubt'
          PROVE  conn'.session = NoSession /\ conn'.day = 0
      <4>1. base[a].session = conn.session /\ base[a].day = conn.day
        BY <3>1, <3>2 DEF Overtaken
      <4>. QED
        BY <4>1, <1>4, ClearedFacts
    <3>. QED
      BY <3>2 DEF SessionIsOfItsDay
  <2>. QED
    BY <2>1, <2>2
<1>. QED
  BY <1>4, <1>5, <1>6, <1>7, <1>8, FinishKeeps, HoldsIntro, ClearedFacts
  DEF IInv, AbsentIsNew

LEMMA StoreKeeps ==
    ASSUME IInv, NEW a \in Requests, Store(a)
    PROVE  /\ IInv'
           /\ conn'.session = won[a]
           /\ conn'.day = Left(conn.day, base[a].day, dated[a])
           /\ conn'.err = Left(conn.err, base[a].err, "none")
           /\ conn'.key = conn.key /\ conn'.enabled = conn.enabled
<1>. DEFINE d == Left(conn.day, base[a].day, dated[a])
            f == Left(conn.err, base[a].err, "none")
            c == [conn EXCEPT !.session = won[a], !.day = d]
<1>1. /\ conn' = [conn EXCEPT !.session = won[a], !.day = d, !.err = f]
      /\ doubt' = (Overtaken(a) \/ won[a].on # dated[a])
      /\ at[a] = "dated" /\ Finish(a) /\ UNCHANGED <<today, created>>
  BY DEF Store
<1>2. /\ conn \in Connection /\ won[a] \in Sessions /\ created
      /\ dated[a] \in Nat /\ won[a].on <= dated[a]
      /\ dated[a] <= today /\ won[a].on <= today
  BY <1>1, HoldsDef DEF IInv, TypeOK, Holds
<1>3. d \in Nat /\ d \in {conn.day, dated[a]} /\ f \in Errors \cup {"none"}
  BY <1>2 DEF Left, Connection
<1>4. /\ c \in Connection /\ c.session = won[a] /\ c.day = d
      /\ c.key = conn.key /\ c.enabled = conn.enabled
  <2>. HIDE DEF d
  <2>. QED
    BY <1>2, <1>3 DEF Connection
<1>5. conn' = [c EXCEPT !.err = f]
  <2>. HIDE DEF d, f
  <2>. QED
    BY <1>1, <1>2 DEF Connection
<1>6. /\ conn' \in Connection /\ conn'.session = won[a] /\ conn'.day = d
      /\ conn'.key = conn.key /\ conn'.enabled = conn.enabled
      /\ conn'.err = f
  <2>. HIDE DEF c, d, f
  <2>. QED
    BY <1>3, <1>4, <1>5 DEF Connection
<1>7. conn'.session.on <= today' /\ conn'.day <= today'
  BY <1>1, <1>2, <1>3, <1>6 DEF IInv, DaysArePast
<1>8. TypeOK'
  BY <1>1, <1>6, FinishKeeps DEF IInv, TypeOK, Overtaken
<1>9. SessionIsOfItsDay'
  <2>. SUFFICES ASSUME ~doubt'
                PROVE  conn'.session # NoSession /\ conn'.day # 0
                       /\ conn'.session.on = conn'.day
    BY DEF SessionIsOfItsDay
  <2>1. base[a].day = conn.day /\ won[a].on = dated[a]
    BY <1>1 DEF Overtaken
  <2>2. d = dated[a]
    BY <2>1, LeftAlone
  <2>. QED
    BY <1>2, <1>6, <2>1, <2>2, ConnectionFacts
<1>. QED
  BY <1>1, <1>2, <1>6, <1>7, <1>8, <1>9, FinishKeeps, HoldsIntro
  DEF IInv, AbsentIsNew

(* A request that ends and leaves the session as it is. *)
LEMMA EndKeeps ==
    ASSUME IInv, NEW a \in Requests, Finish(a),
           conn' \in Connection, conn'.session = conn.session,
           conn'.day = conn.day, created \/ conn' = conn,
           UNCHANGED <<today, created, doubt>>
    PROVE  IInv'
<1>1. TypeOK'
  BY FinishKeeps DEF IInv, TypeOK
<1>2. conn'.session.on <= today' /\ conn'.day <= today'
  BY DEF IInv, DaysArePast
<1>3. SessionIsOfItsDay' /\ AbsentIsNew'
  BY DEF IInv, SessionIsOfItsDay, AbsentIsNew
<1>. QED
  BY <1>1, <1>2, <1>3, FinishKeeps, HoldsIntro DEF IInv

LEMMA SaveKeeps ==
    ASSUME IInv, NEW a \in Requests, Save(a)
    PROVE  IInv' /\ conn'.session = conn.session
<1>1. PICK k \in Keys, e \in BOOLEAN :
        conn' = [conn EXCEPT !.enabled = Left(@, base[a].enabled, e),
                             !.key = k,
                             !.err = Left(@, base[a].err, "none")]
  BY DEF Save
<1>. DEFINE n == Left(conn.enabled, base[a].enabled, e)
            f == Left(conn.err, base[a].err, "none")
<1>2. conn \in Connection
  BY DEF IInv, TypeOK
<1>3. n \in BOOLEAN /\ f \in Errors \cup {"none"}
  BY <1>2 DEF Left, Connection
<1>4. conn' = [conn EXCEPT !.enabled = n, !.key = k, !.err = f]
  BY <1>1
<1>5. /\ conn' \in Connection /\ conn'.session = conn.session
      /\ conn'.day = conn.day
  <2>. HIDE DEF n, f
  <2>. QED
    BY <1>2, <1>3, <1>4 DEF Connection
<1>6. created
  BY HoldsDef DEF Holds, Save
<1>. QED
  BY <1>5, <1>6, EndKeeps DEF Save

LEMMA FailOrderKeeps ==
    ASSUME IInv, NEW a \in Requests, FailOrder(a)
    PROVE  IInv' /\ conn'.session = conn.session /\ conn'.key = conn.key
<1>1. PICK e \in Errors :
        conn' = [conn EXCEPT !.err = Left(@, base[a].err, e)]
  BY DEF FailOrder
<1>. DEFINE f == Left(conn.err, base[a].err, e)
<1>2. conn \in Connection
  BY DEF IInv, TypeOK
<1>3. f \in Errors \cup {"none"}
  BY <1>2 DEF Left, Connection
<1>4. conn' = [conn EXCEPT !.err = f]
  BY <1>1
<1>5. /\ conn' \in Connection /\ conn'.session = conn.session
      /\ conn'.day = conn.day /\ conn'.key = conn.key
  <2>. HIDE DEF f
  <2>. QED
    BY <1>2, <1>3, <1>4 DEF Connection
<1>6. created
  BY HoldsDef DEF Holds, FailOrder
<1>. QED
  BY <1>5, <1>6, EndKeeps DEF FailOrder

-----------------------------------------------------------------------------
(* The steps that leave the row alone *)

(* One request moves, the row stays. *)
LEMMA MoveKeeps ==
    ASSUME IInv, NEW a \in Requests, NEW l, NEW b \in Connection,
           NEW w \in Sessions \cup {NoSession}, NEW d \in Nat,
           l \in {"insert", "open", "issued", "dated", "calling"},
           at' = [at EXCEPT ![a] = l],
           base' = [base EXCEPT ![a] = b],
           won' = [won EXCEPT ![a] = w],
           dated' = [dated EXCEPT ![a] = d],
           w.on <= today, d <= today,
           l \in {"issued", "dated"} =>
                w \in Sessions /\ w.key = b.key /\ MayConnect(b),
           l = "dated" => w.on <= d,
           l = "insert" \/ created', created' \in BOOLEAN,
           created => created',
           UNCHANGED <<today, conn, doubt>>
    PROVE  IInv'
<1>. USE DEF IInv, TypeOK
<1>1. TypeOK'
  OBVIOUS
<1>2. Holds(a)'
  <2>1. at'[a] = l /\ base'[a] = b /\ won'[a] = w /\ dated'[a] = d
    OBVIOUS
  <2>. QED
    BY <2>1 DEF Holds, MayConnect
<1>3. \A u \in Requests \ {a} : Holds(u)'
  BY OthersHold
<1>4. conn'.session.on <= today' /\ conn'.day <= today'
  BY DEF DaysArePast
<1>5. SessionIsOfItsDay' /\ AbsentIsNew'
  BY DEF SessionIsOfItsDay, AbsentIsNew
<1>. QED
  BY <1>1, <1>2, <1>3, <1>4, <1>5, HoldsIntro

LEMMA ReadKeeps ==
    ASSUME IInv, NEW a \in Requests, NEW l,
           l \in {"insert", "open", "calling"}, Read(a, l),
           l = "insert" \/ created', created' \in BOOLEAN,
           created => created',
           UNCHANGED <<today, conn, doubt>>
    PROVE  IInv'
<1>. USE DEF IInv, TypeOK
<1>1. /\ at' = [at EXCEPT ![a] = l]
      /\ base' = [base EXCEPT ![a] = conn]
      /\ won' = [won EXCEPT ![a] = won[a]]
      /\ dated' = [dated EXCEPT ![a] = dated[a]]
  BY DEF Read
<1>2. won[a].on <= today /\ dated[a] <= today
  BY DEF DaysArePast
<1>. QED
  BY <1>1, <1>2, MoveKeeps

LEMMA IssueKeeps ==
    ASSUME IInv, NEW a \in Requests, Issue(a)
    PROVE  IInv'
<1>. DEFINE w == [key |-> base[a].key, on |-> today]
<1>1. /\ at[a] = "open" /\ MayConnect(base[a]) /\ created
      /\ base[a] \in Connection /\ today \in Nat \ {0}
  BY HoldsDef DEF Holds, Issue, IInv, TypeOK
<1>2. w \in Sessions /\ w.key = base[a].key /\ w.on = today
  BY <1>1 DEF Sessions, MayConnect, Connection
<1>3. /\ at' = [at EXCEPT ![a] = "issued"]
      /\ base' = [base EXCEPT ![a] = base[a]]
      /\ won' = [won EXCEPT ![a] = w]
      /\ dated' = [dated EXCEPT ![a] = dated[a]]
      /\ UNCHANGED <<today, created, conn, doubt>>
  BY DEF Issue, IInv, TypeOK
<1>4. dated[a] \in Nat /\ dated[a] <= today /\ created' \in BOOLEAN
  BY <1>3 DEF IInv, TypeOK, DaysArePast
<1>5. w.on <= today /\ created' /\ (created => created')
  BY <1>1, <1>2, <1>3
<1>6. "issued" \in {"insert", "open", "issued", "dated", "calling"}
  OBVIOUS
<1>. HIDE DEF w
<1>. QED
  BY <1>1, <1>2, <1>3, <1>4, <1>5, <1>6, MoveKeeps

LEMMA DateKeeps ==
    ASSUME IInv, NEW a \in Requests, Date(a)
    PROVE  IInv'
<1>1. /\ at[a] = "issued" /\ created /\ base[a] \in Connection
      /\ today \in Nat /\ won[a] \in Sessions
      /\ won[a].key = base[a].key /\ MayConnect(base[a])
      /\ won[a].on <= today
  BY HoldsDef DEF Holds, Date, IInv, TypeOK
<1>2. /\ at' = [at EXCEPT ![a] = "dated"]
      /\ base' = [base EXCEPT ![a] = base[a]]
      /\ won' = [won EXCEPT ![a] = won[a]]
      /\ dated' = [dated EXCEPT ![a] = today]
      /\ UNCHANGED <<today, created, conn, doubt>>
  BY DEF Date, IInv, TypeOK
<1>3. today <= today /\ created' /\ created' \in BOOLEAN
  BY <1>1, <1>2 DEF IInv, TypeOK
<1>4. "dated" \in {"insert", "open", "issued", "dated", "calling"}
  OBVIOUS
<1>. QED
  BY <1>1, <1>2, <1>3, <1>4, MoveKeeps

-----------------------------------------------------------------------------
(* The invariant *)

LEMMA InitIInv == Init => IInv
<1>. SUFFICES ASSUME Init
              PROVE  IInv
  OBVIOUS
<1>1. TypeOK
  <2>1. NewConnection \in Connection
    BY ConnectionFacts
  <2>2. today \in Nat \ {0} /\ dated \in [Requests -> Nat]
    BY DEF Init
  <2>3. base \in [Requests -> Connection] /\ conn \in Connection
    BY <2>1 DEF Init
  <2>. QED
    BY <2>2, <2>3 DEF Init, TypeOK
<1>2. DaysArePast
  BY ConnectionFacts DEF Init, DaysArePast
<1>3. LoginsAreGranted
  BY DEF Init, LoginsAreGranted
<1>4. AbsentIsNew
  BY DEF Init, AbsentIsNew
<1>5. SessionIsOfItsDay
  BY ConnectionFacts DEF Init, SessionIsOfItsDay
<1>. QED
  BY <1>1, <1>2, <1>3, <1>4, <1>5 DEF IInv

LEMMA MidnightKeeps ==
    ASSUME IInv, Midnight
    PROVE  IInv'
<1>1. /\ today \in Nat \ {0} /\ today' = today + 1
      /\ UNCHANGED <<created, conn, at, base, won, dated, doubt>>
  BY DEF Midnight, IInv, TypeOK, request
<1>2. TypeOK'
  BY <1>1 DEF IInv, TypeOK
<1>3. conn.session.on \in Nat /\ conn.day \in Nat
  BY ConnectionFacts DEF IInv, TypeOK
<1>4. \A a \in Requests : won[a].on \in Nat /\ dated[a] \in Nat
  BY ConnectionFacts DEF IInv, TypeOK
<1>5. DaysArePast'
  BY <1>1, <1>3, <1>4 DEF IInv, DaysArePast
<1>6. LoginsAreGranted' /\ AbsentIsNew' /\ SessionIsOfItsDay'
  BY <1>1 DEF IInv, LoginsAreGranted, MayConnect, AbsentIsNew,
              SessionIsOfItsDay
<1>. QED
  BY <1>2, <1>5, <1>6 DEF IInv

LEMMA StepKeeps ==
    ASSUME IInv, Next
    PROVE  IInv'
<1>1. CASE Midnight
  BY <1>1, MidnightKeeps
<1>2. ASSUME NEW a \in Requests, Find(a)
      PROVE  IInv'
  BY <1>2, ReadKeeps DEF Find, IInv, TypeOK
<1>3. ASSUME NEW a \in Requests, Insert(a)
      PROVE  IInv'
  BY <1>3, ReadKeeps DEF Insert
<1>4. ASSUME NEW a \in Requests, Check(a)
      PROVE  IInv'
  <2>1. created
    <3>1. conn # NewConnection
      BY <1>4 DEF Check, State, NewConnection
    <3>. QED
      BY <3>1 DEF IInv, AbsentIsNew
  <2>. QED
    BY <1>4, <2>1, ReadKeeps DEF Check
<1>5. ASSUME NEW a \in Requests, FailLogin(a)
      PROVE  IInv'
  BY <1>5, ClearingKeeps DEF FailLogin
<1>6. ASSUME NEW a \in Requests, Disconnect(a)
      PROVE  IInv'
  BY <1>6, ClearingKeeps DEF Disconnect
<1>7. ASSUME NEW a \in Requests, Leave(a)
      PROVE  IInv'
  BY <1>7, EndKeeps DEF Leave, IInv, TypeOK
<1>. QED
  BY <1>1, <1>2, <1>3, <1>4, <1>5, <1>6, <1>7, SaveKeeps, IssueKeeps,
     DateKeeps, StoreKeeps, FailOrderKeeps
  DEF Next

LEMMA StutterKeeps ==
    ASSUME IInv, UNCHANGED vars
    PROVE  IInv'
  BY DEF vars, request, IInv, TypeOK, DaysArePast, LoginsAreGranted,
         MayConnect, AbsentIsNew, SessionIsOfItsDay

(* The invariant holds for any requests, credentials and errors. *)
THEOREM SessionInvariance == Spec => []IInv
<1>1. Init => IInv
  BY InitIInv
<1>2. IInv /\ [Next]_vars => IInv'
  BY StepKeeps, StutterKeeps
<1>. QED
  BY <1>1, <1>2, PTL DEF Spec

(* Every request leaves a well-formed row. *)
THEOREM SessionTypeCorrect == Spec => []TypeOK
<1>1. IInv => TypeOK
  BY DEF IInv
<1>. QED
  BY <1>1, SessionInvariance, PTL

(* A session counts for the day it was issued on, but for overtaken writes *)
(* and logins over midnight.                                               *)
THEOREM SessionIsOfItsDayCorrect == Spec => []SessionIsOfItsDay
<1>1. IInv => SessionIsOfItsDay
  BY DEF IInv
<1>. QED
  BY <1>1, SessionInvariance, PTL

-----------------------------------------------------------------------------
(* The action properties *)

(* Who is where before and after a step that ends a request. *)
LEMMA FinishEnds ==
    ASSUME IInv, NEW a \in Requests, Finish(a)
    PROVE  /\ at'[a] = "idle"
           /\ \A b \in Requests \ {a} : at'[b] = at[b]
  BY DEF Finish, IInv, TypeOK

(* Which step has changed the row. *)
LEMMA RowWriters ==
    ASSUME Next, conn' # conn
    PROVE  \E a \in Requests : Save(a) \/ Store(a) \/ FailLogin(a)
                               \/ Disconnect(a) \/ FailOrder(a)
  BY DEF Next, Midnight, Find, Insert, Issue, Date, Check, Leave

(* A lone login leaves the broker connected and without an error. *)
THEOREM LoginSticksCorrect == Spec => LoginSticks
<1>1. ASSUME IInv, [Next]_vars, NEW a \in Requests,
             Stores(a), base[a] = conn, dated[a] = today
      PROVE  State(conn', today) = "connected" /\ conn'.err = "none"
  <2>1. PICK u \in Requests : Save(u) \/ Store(u) \/ FailLogin(u)
                              \/ Disconnect(u) \/ FailOrder(u)
    BY <1>1, RowWriters DEF Stores, vars
  <2>2. Finish(u)
    BY <2>1 DEF Save, Store, FailLogin, Disconnect, FailOrder
  <2>3. u = a
    BY <1>1, <2>2, FinishEnds DEF Stores
  <2>4. Store(a)
    BY <1>1, <2>1, <2>3
    DEF Stores, Save, FailLogin, Disconnect, FailOrder
  <2>5. /\ conn'.session = won[a]
        /\ conn'.day = dated[a]
        /\ conn'.err = "none"
        /\ conn'.key = conn.key /\ conn'.enabled = conn.enabled
    BY <1>1, <2>4, StoreKeeps, LeftAlone
  <2>6. won[a] \in Sessions /\ MayConnect(conn)
    BY <1>1, HoldsDef DEF Holds, Stores
  <2>7. today # 0
    BY <1>1 DEF IInv, TypeOK
  <2>. QED
    BY <1>1, <2>5, <2>6, <2>7, ConnectionFacts DEF State, MayConnect
<1>2. IInv /\ [Next]_vars =>
        [\A a \in Requests :
            (Stores(a) /\ base[a] = conn /\ dated[a] = today) =>
                State(conn', today) = "connected" /\ conn'.err = "none"]_vars
  BY <1>1
<1>. QED
  BY <1>2, SessionInvariance, PTL DEF Spec, LoginSticks

(* Credentials and session part only by saving others or by a login that   *)
(* has read others.                                                        *)
THEOREM MixIsSavedCorrect == Spec => MixIsSaved
<1>1. ASSUME IInv, [Next]_vars, Fits(conn), ~Fits(conn'),
             conn'.key = conn.key
      PROVE  \E a \in Requests : Stores(a) /\ base[a].key # conn.key
  <2>1. conn' # conn
    BY <1>1
  <2>2. PICK u \in Requests : Save(u) \/ Store(u) \/ FailLogin(u)
                              \/ Disconnect(u) \/ FailOrder(u)
    BY <1>1, <2>1, RowWriters DEF vars
  <2>3. conn'.session # conn.session /\ conn'.session # NoSession
    BY <1>1 DEF Fits
  <2>4. ~Save(u) /\ ~FailOrder(u)
    BY <1>1, <2>3, SaveKeeps, FailOrderKeeps
  <2>5. ~FailLogin(u) /\ ~Disconnect(u)
    <3>1. ASSUME FailLogin(u) \/ Disconnect(u)
          PROVE  conn'.session = Cleared(u).session
      <4>1. Cleared(u) \in Connection
        BY <1>1, ClearedFacts
      <4>. QED
        BY <3>1, <4>1 DEF FailLogin, Disconnect, Connection
    <3>. QED
      BY <1>1, <2>3, <3>1, ClearedFacts
  <2>6. Store(u)
    BY <2>2, <2>4, <2>5
  <2>7. conn'.session = won[u] /\ conn'.key = conn.key
    BY <1>1, <2>6, StoreKeeps
  <2>8. won[u].key = base[u].key /\ at[u] = "dated"
    BY <1>1, <2>6, HoldsDef DEF Holds, Store
  <2>9. at'[u] = "idle"
    BY <1>1, <2>6, FinishEnds DEF Store
  <2>. QED
    BY <1>1, <2>1, <2>7, <2>8, <2>9 DEF Fits, Stores
<1>2. IInv /\ [Next]_vars =>
        [(Fits(conn) /\ ~Fits(conn')) =>
            \/ conn'.key # conn.key
            \/ \E a \in Requests : Stores(a) /\ base[a].key # conn.key]_vars
  BY <1>1
<1>. QED
  BY <1>2, SessionInvariance, PTL DEF Spec, MixIsSaved

(* A session is taken away only by a request that has seen one. *)
THEOREM SessionLostIsSeenCorrect == Spec => SessionLostIsSeen
<1>1. ASSUME IInv, [Next]_vars, conn.session # NoSession,
             conn'.session = NoSession
      PROVE  \E a \in Requests : /\ at[a] = "open"
                                 /\ at'[a] = "idle"
                                 /\ base[a].session # NoSession
  <2>1. conn' # conn
    BY <1>1
  <2>2. PICK u \in Requests : Save(u) \/ Store(u) \/ FailLogin(u)
                              \/ Disconnect(u) \/ FailOrder(u)
    BY <1>1, <2>1, RowWriters DEF vars
  <2>3. ~Save(u) /\ ~FailOrder(u)
    BY <1>1, SaveKeeps, FailOrderKeeps
  <2>4. ~Store(u)
    <3>1. ASSUME Store(u)
          PROVE  conn'.session \in Sessions
      BY <1>1, <3>1, StoreKeeps, HoldsDef DEF Holds, Store
    <3>. QED
      BY <1>1, <3>1, ConnectionFacts
  <2>5. FailLogin(u) \/ Disconnect(u)
    BY <2>2, <2>3, <2>4
  <2>6. conn'.session = Cleared(u).session
    <3>1. Cleared(u) \in Connection
      BY <1>1, ClearedFacts
    <3>. QED
      BY <2>5, <3>1 DEF FailLogin, Disconnect, Connection
  <2>7. base[u].session # NoSession
    BY <1>1, <2>6, ClearedFacts
  <2>8. at[u] = "open" /\ at'[u] = "idle"
    BY <1>1, <2>5, FinishEnds DEF FailLogin, Disconnect
  <2>. QED
    BY <2>7, <2>8
<1>2. IInv /\ [Next]_vars =>
        [(conn.session # NoSession /\ conn'.session = NoSession) =>
            \E a \in Requests : /\ at[a] = "open"
                                /\ at'[a] = "idle"
                                /\ base[a].session # NoSession]_vars
  BY <1>1
<1>. QED
  BY <1>2, SessionInvariance, PTL DEF Spec, SessionLostIsSeen
=============================================================================
