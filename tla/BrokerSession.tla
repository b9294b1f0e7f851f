--------------------------- MODULE BrokerSession ---------------------------
(***************************************************************************)
(* The connection of a user to a broker: one row with the credentials, the *)
(* session of the last login, the day it counts for and the last error.    *)
(* Both adapters handle it alike.                                          *)
(*                                                                         *)
(* A request reads the row, may talk to the broker for as long as that     *)
(* takes, and writes the columns whose values it has changed. A login is   *)
(* dated when its answer has come back. Saving the settings, connecting,   *)
(* disconnecting and the failing of an order overlap freely, and midnight  *)
(* passes at any moment.                                                   *)
(***************************************************************************)
EXTENDS Integers

CONSTANTS
    Keys,      \* credentials the user may save
    Errors,    \* what a refused login or a failed order may say
    Requests,  \* requests being served
    LastDay    \* bound on the days that pass

ASSUME NoneAssumption == "none" \notin Keys \cup Errors

ASSUME LastDayAssumption == LastDay \in Nat \ {0}

(* A session knows the credentials and the day it was issued for. *)
Sessions == [key : Keys, on : Nat \ {0}]

NoSession == [key |-> "none", on |-> 0]

NoDay == 0

Connection == [enabled : BOOLEAN,
               key : Keys \cup {"none"},
               session : Sessions \cup {NoSession},
               day : Nat,
               err : Errors \cup {"none"}]

NewConnection == [enabled |-> TRUE, key |-> "none", session |-> NoSession,
                  day |-> NoDay, err |-> "none"]

VARIABLES
    today,    \* the date in the broker's time zone
    created,  \* whether the row is there
    conn,     \* the row
    at,       \* where each request is
    base,     \* the row as the request has read it
    won,      \* the session a login has been given
    dated,    \* the day a login will count for
    doubt     \* history: the session's columns were last written by a
              \* request that others had overtaken, or over midnight

request == <<at, base, won, dated>>
vars == <<today, created, conn, request, doubt>>

Init ==
    /\ today = 1
    /\ created = FALSE
    /\ conn = NewConnection
    /\ at = [a \in Requests |-> "idle"]
    /\ base = [a \in Requests |-> NewConnection]
    /\ won = [a \in Requests |-> NoSession]
    /\ dated = [a \in Requests |-> NoDay]
    /\ doubt = FALSE

(* _compute_status *)
State(c, day) ==
    IF c.key = "none" THEN "not_configured"
    ELSE IF ~c.enabled THEN "configured"
    ELSE IF c.session = NoSession \/ c.day = NoDay
         THEN IF c.err = "none" THEN "needs_reconnect" ELSE "error"
    ELSE IF c.day # day THEN "stale" ELSE "connected"

-----------------------------------------------------------------------------
Finish(a) ==
    /\ at' = [at EXCEPT ![a] = "idle"]
    /\ base' = [base EXCEPT ![a] = NewConnection]
    /\ won' = [won EXCEPT ![a] = NoSession]
    /\ dated' = [dated EXCEPT ![a] = NoDay]

Read(a, label) ==
    /\ at' = [at EXCEPT ![a] = label]
    /\ base' = [base EXCEPT ![a] = conn]
    /\ UNCHANGED <<won, dated>>

(* What an UPDATE leaves in a column. *)
Left(stored, loaded, new) == IF new # loaded THEN new ELSE stored

(* The columns of the session have changed since the request read them. *)
Overtaken(a) ==
    \/ base[a].session # conn.session
    \/ base[a].day # conn.day

Midnight ==
    /\ today < LastDay
    /\ today' = today + 1
    /\ UNCHANGED <<created, conn, request, doubt>>

(* _get_or_create_connection finds the row, or finds that there is none. *)
Find(a) ==
    /\ at[a] = "idle"
    /\ Read(a, IF created THEN "open" ELSE "insert")
    /\ UNCHANGED <<today, created, conn, doubt>>

(* Of two requests that found no row one is refused by the unique key. *)
Insert(a) ==
    /\ at[a] = "insert"
    /\ ~created
    /\ created' = TRUE
    /\ Read(a, "open")
    /\ UNCHANGED <<today, conn, doubt>>

(* Credentials are encrypted anew and always written, the session is kept. *)
Save(a) ==
    /\ at[a] = "open"
    /\ \E k \in Keys, e \in BOOLEAN :
        conn' = [conn EXCEPT !.enabled = Left(@, base[a].enabled, e),
                             !.key = k,
                             !.err = Left(@, base[a].err, "none")]
    /\ Finish(a)
    /\ UNCHANGED <<today, created, doubt>>

-----------------------------------------------------------------------------
(* Mutant: a disabled broker can be logged in to.                          *)
MayConnectDisabled(c) == c.key # "none"

(* Mutant: a broker without credentials can be logged in to.               *)
MayConnectBare(c) == c.enabled

MayConnect(c) == c.key # "none" /\ c.enabled

(* Mutant: the login uses the credentials of the form.                     *)
IssueForForm(a) ==
    /\ at[a] = "open"
    /\ MayConnect(base[a])
    /\ \E k \in Keys : won' = [won EXCEPT ![a] = [key |-> k, on |-> today]]
    /\ at' = [at EXCEPT ![a] = "issued"]
    /\ UNCHANGED <<today, created, conn, base, dated, doubt>>

(* The broker logs the user in. *)
Issue(a) ==
    /\ at[a] = "open"
    /\ MayConnect(base[a])
    /\ won' = [won EXCEPT ![a] = [key |-> base[a].key, on |-> today]]
    /\ at' = [at EXCEPT ![a] = "issued"]
    /\ UNCHANGED <<today, created, conn, base, dated, doubt>>

(* The answer is there; the session is good for this day. *)
Date(a) ==
    /\ at[a] = "issued"
    /\ dated' = [dated EXCEPT ![a] = today]
    /\ at' = [at EXCEPT ![a] = "dated"]
    /\ UNCHANGED <<today, created, conn, base, won, doubt>>

(* Mutant: an error is left to the settings to clear.                      *)
StoreKeepingError(a) ==
    /\ at[a] = "dated"
    /\ conn' = [conn EXCEPT !.session = won[a],
                            !.day = Left(@, base[a].day, dated[a])]
    /\ doubt' = (Overtaken(a) \/ won[a].on # dated[a])
    /\ Finish(a)
    /\ UNCHANGED <<today, created>>

(* The session is stored. A day that is the loaded one is not written. *)
Store(a) ==
    /\ at[a] = "dated"
    /\ conn' = [conn EXCEPT !.session = won[a],
                            !.day = Left(@, base[a].day, dated[a]),
                            !.err = Left(@, base[a].err, "none")]
    /\ doubt' = (Overtaken(a) \/ won[a].on # dated[a])
    /\ Finish(a)
    /\ UNCHANGED <<today, created>>

(* Mutant: a session is taken away though none was seen.                   *)
ClearedBlindly(a) == [conn EXCEPT !.session = NoSession, !.day = NoDay]

(* Mutant: the day of a session that is taken away is kept.                *)
ClearedButDay(a) ==
    [conn EXCEPT !.session = Left(@, base[a].session, NoSession)]

(* The row without the session that the request has seen. *)
Cleared(a) ==
    [conn EXCEPT !.session = Left(@, base[a].session, NoSession),
                 !.day = Left(@, base[a].day, NoDay)]

DoubtCleared(a) ==
    IF base[a].session = NoSession /\ base[a].day = NoDay
    THEN doubt ELSE Overtaken(a)

(* The broker refuses the login, or cannot be reached. *)
FailLogin(a) ==
    /\ at[a] = "open"
    /\ MayConnect(base[a])
    /\ \E e \in Errors :
        conn' = [Cleared(a) EXCEPT !.err = Left(@, base[a].err, e)]
    /\ doubt' = DoubtCleared(a)
    /\ Finish(a)
    /\ UNCHANGED <<today, created>>

Disconnect(a) ==
    /\ at[a] = "open"
    /\ conn' = [Cleared(a) EXCEPT !.err = Left(@, base[a].err, "none")]
    /\ doubt' = DoubtCleared(a)
    /\ Finish(a)
    /\ UNCHANGED <<today, created>>

-----------------------------------------------------------------------------
(* An order, or a look at the broker's books, needs a connection. *)
Check(a) ==
    /\ at[a] = "idle"
    /\ State(conn, today) = "connected"
    /\ Read(a, "calling")
    /\ UNCHANGED <<today, created, conn, doubt>>

(* The broker refuses an order, or cannot be reached. *)
FailOrder(a) ==
    /\ at[a] = "calling"
    /\ \E e \in Errors :
        conn' = [conn EXCEPT !.err = Left(@, base[a].err, e)]
    /\ Finish(a)
    /\ UNCHANGED <<today, created, doubt>>

(* A request ends without a write: it is done, its input is refused, it    *)
(* finds the broker not configured or disabled, its row is a second one,   *)
(* or it dies.                                                             *)
Leave(a) ==
    /\ at[a] # "idle"
    /\ Finish(a)
    /\ UNCHANGED <<today, created, conn, doubt>>

Next ==
    \/ Midnight
    \/ \E a \in Requests :
        \/ Find(a) \/ Insert(a) \/ Save(a)
        \/ Issue(a) \/ Date(a) \/ Store(a) \/ FailLogin(a)
        \/ Disconnect(a)
        \/ Check(a) \/ FailOrder(a) \/ Leave(a)

Spec == Init /\ [][Next]_vars

-----------------------------------------------------------------------------
(* Values have their types. *)
TypeOK ==
    /\ today \in Nat \ {0}
    /\ created \in BOOLEAN
    /\ conn \in Connection
    /\ at \in [Requests -> {"idle", "insert", "open", "issued", "dated",
                            "calling"}]
    /\ base \in [Requests -> Connection]
    /\ won \in [Requests -> Sessions \cup {NoSession}]
    /\ dated \in [Requests -> Nat]
    /\ doubt \in BOOLEAN

(* No day that is noted lies ahead. *)
DaysArePast ==
    /\ conn.session.on <= today
    /\ conn.day <= today
    /\ \A a \in Requests : won[a].on <= today /\ dated[a] <= today

(* A login under way is one the broker has granted to the credentials that *)
(* were read, of a broker that was configured and enabled.                 *)
LoginsAreGranted ==
    \A a \in Requests :
        /\ at[a] \in {"issued", "dated"} =>
               /\ won[a] \in Sessions
               /\ won[a].key = base[a].key
               /\ MayConnect(base[a])
        /\ at[a] = "dated" => won[a].on <= dated[a]
        /\ at[a] \in {"open", "issued", "dated", "calling"} => created

(* A row nobody has created is as good as a new one. *)
AbsentIsNew == ~created => conn = NewConnection

(* A session and its day go together, and a session counts for the day it  *)
(* was issued on: unless the columns were last written by a request that   *)
(* another had overtaken, or by a login that took midnight to come back.   *)
SessionIsOfItsDay ==
    ~doubt =>
        /\ conn.session = NoSession <=> conn.day = NoDay
        /\ conn.session # NoSession => conn.session.on = conn.day

IInv ==
    /\ TypeOK
    /\ DaysArePast
    /\ LoginsAreGranted
    /\ AbsentIsNew
    /\ SessionIsOfItsDay

(* A login writes the row. *)
Stores(a) == at[a] = "dated" /\ at'[a] = "idle" /\ conn' # conn

(* After a login that nobody has overtaken and that is stored on the day   *)
(* it is dated, the broker is connected and shows no error.                *)
LoginSticks ==
    [][\A a \in Requests :
        (Stores(a) /\ base[a] = conn /\ dated[a] = today) =>
            State(conn', today) = "connected" /\ conn'.err = "none"]_vars

Fits(c) == c.session # NoSession => c.session.key = c.key

(* The session of one set of credentials comes to stand next to another    *)
(* only by saving others while it lasts, or by a login that has read       *)
(* others than are stored by now.                                          *)
MixIsSaved ==
    [][(Fits(conn) /\ ~Fits(conn')) =>
        \/ conn'.key # conn.key
        \/ \E a \in Requests : Stores(a) /\ base[a].key # conn.key]_vars

(* A session is taken away only by a request that has seen one: who fails  *)
(* to log in where there was no session does not disconnect who succeeds.  *)
SessionLostIsSeen ==
    [][(conn.session # NoSession /\ conn'.session = NoSession) =>
        \E a \in Requests :
            /\ at[a] = "open"
            /\ at'[a] = "idle"
            /\ base[a].session # NoSession]_vars
=============================================================================
