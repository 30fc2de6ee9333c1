------------------------------- MODULE Session -------------------------------
(***************************************************************************)
(* One browser tab and its session: the token in local storage, which the  *)
(* other tabs of the browser share, the page that is open, and the calls   *)
(* fetchAPI and adminFetch have in flight.                                 *)
(*                                                                         *)
(* A call takes the token from local storage when it starts, synchronously *)
(* with the click; its parts (one, or the requests of a Promise.all) reach *)
(* the server one by one and in any order; its continuation runs when the  *)
(* promise settles.  A full page load aborts the calls of the tab, but the *)
(* server may execute one that was already on its way.  router.push        *)
(* unmounts the page and lets its calls and their continuations go on.     *)
(***************************************************************************)
EXTENDS Accounts

CONSTANTS
    Slots,           \* bound of the model: calls in flight
    MaxDisturbances  \* bound of the model: failures and acts of others

ASSUME SlotsAssumption == IsFiniteSet(Slots)

VARIABLES
    storage,      \* localStorage "token", NoToken if there is none
    view,         \* the page and its component state
    calls,        \* the call in each slot, Idle if there is none
    excused,      \* history: what the page shows may be behind the tables
    told,         \* history: the password each user was last told to have
    disturbances  \* history: failures and acts of others so far

session == <<storage, view, calls, excused, told>>
shown == <<apiKeys, rows>>  \* the tables that the pages show
Idle == [op |-> "none"]
Nothing == "nothing"      \* null, or a list that was never loaded

Busy(s) == calls[s].op # "none"
InUse == {s \in Slots : Busy(s)}

\* The calls of a page that run to a continuation, and the requests they await.
Loads == {"load", "loadAll"}
Mutations == {"register", "create", "delete", "password", "toggle", "submit"}
Parts(op) == IF op \in Loads THEN {"totals", "table"} ELSE {"main"}

Pending == [status |-> 0]

\* A call as fetchAPI sends it: the token is the one stored now.
NewCall(op, arg, home, token) ==
    [op |-> op, arg |-> arg, by |-> token, home |-> home, checked |-> FALSE,
     tainted |-> FALSE, answer |-> [p \in Parts(op) |-> Pending]]

\* Mutant of Carried: the token is read when the request is sent.
CarriedLate(c) == [c EXCEPT !.by = storage]

\* The request the server sees.
Carried(c) == c

\* When the tables change, what a load in flight has read is behind them.
Read(c) == c.op \in Loads /\ c.answer["table"].status # 0
Taint(cs) == [s \in Slots |-> IF Read(cs[s]) THEN [cs[s] EXCEPT !.tainted = TRUE] ELSE cs[s]]

Disturb ==
    /\ disturbances < MaxDisturbances
    /\ disturbances' = disturbances + 1

-----------------------------------------------------------------------------
(* The pages, as they are after their mount effect. *)

\* LoginPage, DashboardPage and AdminPage before anything is loaded.
FreshView(page) ==
    IF page = "login" THEN [page |-> page, loading |-> FALSE]
    ELSE IF page = "dashboard" THEN [page |-> page, totals |-> Nothing, table |-> Nothing]
    ELSE [page |-> page, totals |-> Nothing, table |-> Nothing,
          error |-> FALSE, filled |-> [f \in Forms |-> FALSE]]

\* The mount effect sends to the login page whoever has no token; otherwise the
\* dashboard loads its data and the admin page asks who the user is.
Landing(page, token) == IF token = NoToken THEN "login" ELSE page
MountCall(page, token) ==
    IF Landing(page, token) = "login" THEN Idle
    ELSE NewCall(IF page = "dashboard" THEN "load" ELSE "me", Nothing, "page", token)

\* A full load drops the calls of the tab; the server may still get a mutation.
Aborted(cs) ==
    [s \in Slots |->
        IF cs[s].op \in Mutations /\ cs[s].answer["main"].status = 0
        THEN [cs[s] EXCEPT !.home = "gone"] ELSE Idle]

\* router.push(page): the components of the old page are unmounted.  A push to
\* the page that is open changes nothing.
Push(s, page, token) ==
    LET left == [t \in Slots |-> IF Busy(t) /\ calls[t].home = "page"
                                 THEN [calls[t] EXCEPT !.home = "left"] ELSE calls[t]]
    IN  IF view.page = Landing(page, token)
        THEN /\ calls' = [calls EXCEPT ![s] = Idle]
             /\ UNCHANGED view
        ELSE /\ view' = FreshView(Landing(page, token))
             /\ calls' = [left EXCEPT ![s] = MountCall(page, token)]

\* The address bar or a link: a page is loaded afresh.
Visit(page) ==
    /\ \E s \in Slots : Aborted(calls)[s] = Idle
    /\ view' = FreshView(Landing(page, storage))
    /\ calls' = [Aborted(calls) EXCEPT ![CHOOSE s \in Slots : Aborted(calls)[s] = Idle] =
                    MountCall(page, storage)]
    /\ IF InUse = {} THEN UNCHANGED disturbances ELSE Disturb
    /\ UNCHANGED <<server, storage, excused, told>>

\* logout(): the token is removed and the login page is loaded.
LeaveSession ==
    /\ storage' = NoToken
    /\ view' = FreshView("login")
    /\ calls' = Aborted(calls)

-----------------------------------------------------------------------------
(* The server and the network. *)

Reply(s, part, a) == [calls EXCEPT ![s].answer[part] = a]

\* No reload follows a change that belongs to no page or whose answer is lost.
Behind(s, lost) == shown' # shown /\ (lost \/ calls[s].home # "page")

\* The handler runs; its answer arrives, or the connection breaks before it does.
Handle(s, part, lost) ==
    LET r == Carried(calls[s])
        a == IF lost THEN [status |-> 500]
             ELSE IF Status(r) \in {200, 201}
             THEN [status |-> Status(r), body |-> Body(r, part)]
             ELSE [status |-> Status(r)]
    IN  /\ calls[s].answer[part].status = 0
        /\ IF r.op = "password" /\ Status(r) = 200
           THEN /\ ~calls[s].checked
                /\ ~lost
                /\ calls' = [calls EXCEPT ![s].checked = TRUE]
                /\ UNCHANGED <<tables, excused>>
           ELSE /\ ~calls[s].checked
                /\ Apply(r)
                /\ calls' = IF shown' = shown THEN Reply(s, part, a) ELSE Taint(Reply(s, part, a))
                /\ excused' = (excused \/ Behind(s, lost))
        /\ UNCHANGED <<clock, storage, view, told>>

Serve(s) ==
    /\ Busy(s)
    /\ \E part \in DOMAIN calls[s].answer : Handle(s, part, FALSE)
    /\ UNCHANGED disturbances

ServeAndLose(s) ==
    /\ Busy(s)
    /\ \E part \in DOMAIN calls[s].answer : Handle(s, part, TRUE)
    /\ Disturb

\* ChangePassword's UPDATE, unconditional, after its comparison; a is what becomes of
\* its answer.  Until a good answer is there nobody knows the password, and what the
\* other calls in flight that name one will report is no longer certain.
UpdatePassword(s, a) ==
    LET u == calls[s].by.user
        Concerns(t) == calls[t].op \in {"password", "login", "register"} /\ t # s
    IN  /\ Busy(s)
        /\ calls[s].checked
        /\ calls[s].answer["main"].status = 0
        /\ password' = [password EXCEPT ![u] = calls[s].arg.new]
        /\ calls' = [t \in Slots |->
                        IF t = s THEN [calls[s] EXCEPT !.answer["main"] = a]
                        ELSE IF Concerns(t) THEN [calls[t] EXCEPT !.tainted = TRUE] ELSE calls[t]]
        /\ told' = [told EXCEPT ![u] = NoPassword]
        /\ UNCHANGED <<apiKeys, rows, applied, clock, storage, view, excused>>

WritePassword(s) ==
    UpdatePassword(s, [status |-> 200, body |-> TRUE]) /\ UNCHANGED disturbances

\* The UPDATE is committed and the connection to the database or to the browser breaks:
\* the change is not confirmed.
WriteAndLose(s) == UpdatePassword(s, [status |-> 500]) /\ Disturb

\* The UPDATE fails.
WriteFails(s) ==
    /\ Busy(s)
    /\ calls[s].checked
    /\ calls[s].answer["main"].status = 0
    /\ calls' = Reply(s, "main", [status |-> 400])
    /\ Disturb
    /\ UNCHANGED <<server, storage, view, excused, told>>

\* What the handler of a call answers when the database fails it: most tell 5xx, login
\* and register take every error for a wrong password or an account that exists.
Failure(op) ==
    IF op = "login" THEN 401 ELSE IF op = "register" THEN 409 ELSE IF op = "password" THEN 400
    ELSE 500

\* The handler fails, or the request does not reach it (5xx, or fetch rejects).
FailCall(s) ==
    /\ Busy(s)
    /\ ~calls[s].checked
    /\ \E part \in DOMAIN calls[s].answer, code \in {500, Failure(calls[s].op)} :
          /\ calls[s].answer[part].status = 0
          /\ calls' = Reply(s, part, [status |-> code])
    /\ Disturb
    /\ UNCHANGED <<server, storage, view, excused, told>>

\* Nobody waits for the answer of an aborted call.
Forget(s) ==
    /\ Busy(s)
    /\ calls[s].home = "gone"
    /\ calls[s].answer["main"].status # 0
    /\ calls' = [calls EXCEPT ![s] = Idle]
    /\ UNCHANGED <<server, storage, view, excused, told, disturbances>>

Answered(s) == \A p \in DOMAIN calls[s].answer : calls[s].answer[p].status # 0
Refused(s) == \E p \in DOMAIN calls[s].answer : calls[s].answer[p].status = 401
Succeeded(s) == \A p \in DOMAIN calls[s].answer : calls[s].answer[p].status \in {200, 201}
Failed(s) == \E p \in DOMAIN calls[s].answer : calls[s].answer[p].status \notin {0, 200, 201, 401}

\* Mutant of EndsSession: adminFetch treats 403 as it treats 401.
EndsSessionForbidden(s) ==
    \E p \in DOMAIN calls[s].answer : calls[s].answer[p].status \in {401, 403}

\* fetchAPI and adminFetch: 401 ends the session, whatever the call.
EndsSession(s) == Refused(s)

\* fetchAPI removes the token that is stored now and loads the login page, even
\* when the component that made the call is gone.
Unauthorized(s) ==
    /\ Busy(s)
    /\ calls[s].home # "gone"
    /\ EndsSession(s)
    /\ LeaveSession
    /\ UNCHANGED <<server, excused, told, disturbances>>

\* The promise of a load is rejected by its first failure; its other requests
\* go on and can still end the session.
Remainder(s) ==
    IF Answered(s) THEN Idle ELSE [calls[s] EXCEPT !.op = "settled"]

-----------------------------------------------------------------------------
(* Others: other tabs of this browser, other clients, and time. *)

OtherTabSignsIn(u) ==
    /\ password[u] # NoPassword
    /\ Disturb
    /\ storage' = Generate(u)
    /\ UNCHANGED <<server, view, calls, excused, told>>

OtherTabSignsOut ==
    /\ storage # NoToken
    /\ Disturb
    /\ storage' = NoToken
    /\ UNCHANGED <<server, view, calls, excused, told>>

\* Another client of user u, or another administrator.
OtherClient(u) ==
    /\ Disturb
    /\ \/ \E k \in DOMAIN apiKeys :
             /\ apiKeys[k].active
             /\ apiKeys[k].owner = u
             /\ Deactivate([by |-> [user |-> u], arg |-> [key |-> k]])
             /\ UNCHANGED rows
       \/ /\ u \in Admins
          /\ \E r \in Rows : SetActive([arg |-> [row |-> r, value |-> ~rows[r]]])
          /\ UNCHANGED apiKeys
    /\ calls' = Taint(calls)
    /\ excused' = TRUE
    /\ UNCHANGED <<password, applied, clock, storage, view, told>>

DaysPass ==
    /\ clock < MaxClock
    /\ clock' = clock + 1
    /\ UNCHANGED <<tables, session, disturbances>>
=============================================================================
