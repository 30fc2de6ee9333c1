----------------------------- MODULE WebConsole -----------------------------
(***************************************************************************)
(* The pages that need a session: login, dashboard and admin, in one tab.  *)
(* An action is a click or the continuation of a call.  What a page offers *)
(* while it shows its loading text is nothing.                             *)
(*                                                                         *)
(* The forms of the admin page have the same shape (a guard on what is     *)
(* typed, a call, clear, reload), as have the switches of the provider and *)
(* model tables, so Forms and Rows stand for both of each.                 *)
(***************************************************************************)
EXTENDS Session

CONSTANTS
    Themes,   \* bound of the model: what a behaviour is about, "session",
              \* "keys", "password", "rows" or "forms"
    MaxKeys,  \* bound of the model: API keys
    MaxOwed   \* bound of the model: times a form is filled or fails

VARIABLES
    theme,  \* what this behaviour is about
    owed    \* history: how often each form may take effect

history == <<theme, owed>>
vars == <<server, session, disturbances, history>>

Init ==
    /\ AccountsInit
    /\ storage = NoToken
    /\ view = FreshView("login")
    /\ calls = [s \in Slots |-> Idle]
    /\ excused = FALSE
    /\ told = [u \in Users |-> NoPassword]
    /\ disturbances = 0
    /\ theme \in Themes
    /\ owed = [f \in Forms |-> 0]

On(page) == view.page = page
Loaded == view.page # "login" /\ view.totals # Nothing

-----------------------------------------------------------------------------
(* What the pages offer and show.  A tab of a page is a click away.        *)

\* The fields are required and the button is disabled while loading.
LoginForm == On("login") /\ ~view.loading

\* The overview and the logs of the dashboard: summary, models, days, requests.
TotalsShown == view.totals

\* The key list shows deactivated keys like the others: each can be deleted.
KeysTab == On("dashboard") /\ Loaded
KeysShown == {e[1] : e \in view.table}

SettingsTab == On("dashboard") /\ Loaded

\* A switch per provider and model row, a form above the users and the provider keys.
Switches == On("admin") /\ Loaded
FormPanel == On("admin") /\ Loaded

\* The header of a page that shows its data offers to log out.  It looks for a
\* token once, when it is mounted; without one, to log out would change nothing.
Header == Loaded

-----------------------------------------------------------------------------
\* A click that starts a call.
Click(op, arg) ==
    /\ InUse # Slots
    /\ calls' = [calls EXCEPT ![CHOOSE s \in Slots : ~Busy(s)] =
                    NewCall(op, arg, "page", storage)]

\* Bounds of the model: a behaviour about passwords is about one account, and in
\* a behaviour about something else one password is used.
Visitors == IF theme = "password" THEN Users \ Admins ELSE Users
Typed == IF theme = "password" THEN Passwords ELSE {First}

Quietly == UNCHANGED <<server, storage, excused, told, disturbances>>

-----------------------------------------------------------------------------
(* LoginPage. *)

\* Mutant of SubmitLogin: the button stays enabled while a call is in flight.
SubmitLoginEnabled(op, u, p) ==
    /\ On("login")
    /\ Click(op, [user |-> u, password |-> p])
    /\ view' = [view EXCEPT !.loading = TRUE]
    /\ UNCHANGED history
    /\ Quietly

\* handleSubmit.
SubmitLogin(op, u, p) ==
    /\ LoginForm
    /\ Click(op, [user |-> u, password |-> p])
    /\ view' = [view EXCEPT !.loading = TRUE]
    /\ UNCHANGED history
    /\ Quietly

\* login and register store the token; the page goes on to the dashboard.
SignedIn(s) ==
    LET token == calls[s].answer["main"].body
    IN  /\ calls[s].op \in Sessionless
        /\ Succeeded(s)
        /\ storage' = token
        /\ Push(s, "dashboard", token)
        /\ told' = [told EXCEPT ![token.user] =
                       IF calls[s].tainted THEN NoPassword ELSE calls[s].arg.password]
        /\ UNCHANGED <<server, excused, disturbances, history>>

\* The error is shown and the finally block enables the button again.
SignInFails(s) ==
    /\ calls[s].op \in Sessionless
    /\ Failed(s)
    /\ view' = IF On("login") THEN [view EXCEPT !.loading = FALSE] ELSE view
    /\ calls' = [calls EXCEPT ![s] = Idle]
    /\ UNCHANGED history
    /\ Quietly

-----------------------------------------------------------------------------
(* DashboardPage. *)

CreateKey ==
    /\ KeysTab /\ theme = "keys"
    /\ Len(apiKeys) + Cardinality({s \in InUse : calls[s].op = "create"}) < MaxKeys
    /\ Click("create", Nothing)
    /\ UNCHANGED <<view, history>>
    /\ Quietly

DeleteKey ==
    /\ KeysTab /\ theme = "keys"
    /\ \E k \in KeysShown : Click("delete", [key |-> k])
    /\ UNCHANGED <<view, history>>
    /\ Quietly

ChangePassword(old, new) ==
    /\ SettingsTab /\ theme = "password"
    /\ old # new
    /\ Click("password", [old |-> old, new |-> new])
    /\ UNCHANGED <<view, history>>
    /\ Quietly

-----------------------------------------------------------------------------
(* AdminPage. *)

\* handleToggleProvider and handleToggleModel ask for the opposite of what is shown.
Toggle(r) ==
    /\ Switches /\ theme = "rows"
    /\ Click("toggle", [row |-> r, value |-> ~view.table[r]])
    /\ UNCHANGED <<view, history>>
    /\ Quietly

Fill(f) ==
    /\ FormPanel /\ theme = "forms"
    /\ ~view.filled[f]
    /\ owed[f] < MaxOwed
    /\ view' = [view EXCEPT !.filled[f] = TRUE]
    /\ owed' = [owed EXCEPT ![f] = @ + 1]
    /\ UNCHANGED <<calls, theme>>
    /\ Quietly

\* handleUpdateBalance and handleAddKey return early on an empty form.  The form
\* is cleared only by the answer, so a second click before it submits it again.
Submit(f) ==
    /\ FormPanel
    /\ view.filled[f]
    /\ Click("submit", [form |-> f])
    /\ IF \E s \in InUse : calls[s].op = "submit" /\ calls[s].arg.form = f
       THEN owed[f] < MaxOwed /\ owed' = [owed EXCEPT ![f] = @ + 1]
       ELSE UNCHANGED owed
    /\ UNCHANGED <<view, theme>>
    /\ Quietly

-----------------------------------------------------------------------------
(* The continuations of the dashboard and of the admin page. *)

\* getMe: an admin's page loads its data, another user is sent to the dashboard.
KnowMe(s) ==
    /\ calls[s].op = "me"
    /\ Answered(s)
    /\ IF Succeeded(s) /\ calls[s].answer["main"].body \in Admins
       THEN /\ calls' = [calls EXCEPT ![s] = NewCall("loadAll", Nothing, calls[s].home, storage)]
            /\ UNCHANGED view
       ELSE Push(s, IF Succeeded(s) THEN "dashboard" ELSE "login", storage)
    /\ UNCHANGED history
    /\ Quietly

\* Mutant of ShowData: the table is taken over, the totals are kept.
ShowDataHalf(s) ==
    view' = [view EXCEPT !.table = calls[s].answer["table"].body,
                         !.totals = IF @ = Nothing THEN calls[s].answer["totals"].body ELSE @]

\* loadData and loadAll set everything the promises returned in one turn.
ShowData(s) ==
    view' = [view EXCEPT !.table = calls[s].answer["table"].body,
                         !.totals = calls[s].answer["totals"].body]

\* Loads that overlap are shown in the order they are answered.
LoadSucceeds(s) ==
    /\ calls[s].op \in Loads
    /\ Succeeded(s)
    /\ calls' = [calls EXCEPT ![s] = Idle]
    /\ IF calls[s].home = "page"
       THEN ShowData(s) /\ excused' = calls[s].tainted
       ELSE UNCHANGED <<view, excused>>
    /\ UNCHANGED <<server, storage, told, disturbances, history>>

\* Mutant of LoadFails: loadData has no catch clause.
LoadFailsQuietly(s) ==
    /\ calls[s].op \in Loads
    /\ Failed(s)
    /\ calls' = [calls EXCEPT ![s] = Remainder(s)]
    /\ UNCHANGED <<view, history>>
    /\ Quietly

\* loadData sends the user to the login page and keeps the token; loadAll sets
\* an error, which is shown only while there are no data: a reload that fails leaves
\* the old data on the page without a word.
LoadFails(s) ==
    /\ calls[s].op \in Loads
    /\ Failed(s)
    /\ IF calls[s].op = "load" /\ ~On("login")
       THEN /\ view' = FreshView("login")
            /\ calls' = [t \in Slots |->
                            IF t = s THEN Remainder(s)
                            ELSE IF Busy(t) /\ calls[t].home = "page"
                            THEN [calls[t] EXCEPT !.home = "left"] ELSE calls[t]]
            /\ UNCHANGED excused
       ELSE /\ calls' = [calls EXCEPT ![s] = Remainder(s)]
            /\ excused' = TRUE
            /\ view' = IF On("admin") THEN [view EXCEPT !.error = TRUE] ELSE view
    /\ UNCHANGED <<server, storage, told, disturbances, history>>

\* The requests that were left of a failed load are answered.
SettledEnds(s) ==
    /\ calls[s].op = "settled"
    /\ Answered(s)
    /\ calls' = [calls EXCEPT ![s] = Idle]
    /\ UNCHANGED <<view, history>>
    /\ Quietly

\* Mutant of Cleared: the admin forms keep what was typed.
ClearedNever(c) == view

\* A form is cleared when its answer is there, if its page still is.
Cleared(c) ==
    IF c.op = "submit" /\ c.home = "page" THEN [view EXCEPT !.filled[c.arg.form] = FALSE] ELSE view

\* Mutant of Reload: the new data are asked for only while the list is empty.
ReloadOnce(c) ==
    IF view.page = "dashboard" /\ view.table # {} THEN Idle
    ELSE NewCall(IF c.op \in AdminOps THEN "loadAll" ELSE "load", Nothing, c.home, storage)

\* After a successful change the page loads its data again, with the token
\* stored now; also when the component is unmounted.
Reload(c) ==
    NewCall(IF c.op \in AdminOps THEN "loadAll" ELSE "load", Nothing, c.home, storage)

ChangeSucceeds(s) ==
    /\ calls[s].op \in {"create", "delete", "toggle", "submit"}
    /\ Succeeded(s)
    /\ view' = Cleared(calls[s])
    /\ calls' = [calls EXCEPT ![s] = Reload(calls[s])]
    /\ UNCHANGED history
    /\ Quietly

\* An alert, or an unhandled rejection (delete and toggle have no catch): the
\* page stays as it is, an admin form stays filled and may be sent again.
ChangeFails(s) ==
    /\ calls[s].op \in {"create", "delete", "toggle", "submit"}
    /\ Failed(s)
    /\ calls' = [calls EXCEPT ![s] = Idle]
    /\ owed' = IF calls[s].op = "submit" /\ calls[s].answer["main"].status = 500
               THEN [owed EXCEPT ![calls[s].arg.form] = @ + 1] ELSE owed
    /\ UNCHANGED <<view, theme>>
    /\ Quietly

\* The message under the password form.
PasswordAnswered(s) ==
    /\ calls[s].op = "password"
    /\ Answered(s)
    /\ calls' = [calls EXCEPT ![s] = Idle]
    /\ told' = IF Succeeded(s) /\ ~calls[s].tainted
               THEN [told EXCEPT ![calls[s].by.user] = calls[s].arg.new] ELSE told
    /\ UNCHANGED <<server, storage, view, excused, disturbances, history>>

Continue(s) ==
    /\ Busy(s)
    /\ calls[s].home # "gone"
    /\ ~Refused(s)
    /\ \/ SignedIn(s) \/ SignInFails(s)
       \/ KnowMe(s) \/ LoadSucceeds(s) \/ LoadFails(s) \/ SettledEnds(s)
       \/ ChangeSucceeds(s) \/ ChangeFails(s) \/ PasswordAnswered(s)

Logout ==
    /\ Header
    /\ LeaveSession
    /\ UNCHANGED <<server, excused, told, disturbances, history>>

-----------------------------------------------------------------------------
Network(s) ==
    /\ Serve(s) \/ WritePassword(s) \/ Unauthorized(s) \/ Forget(s)
    /\ UNCHANGED history

User ==
    \/ \E u \in Visitors, p \in Typed, op \in Sessionless : SubmitLogin(op, u, p)
    \/ CreateKey \/ DeleteKey
    \/ \E old, new \in Passwords : ChangePassword(old, new)
    \/ \E r \in Rows : Toggle(r)
    \/ \E f \in Forms : Fill(f) \/ Submit(f)
    \/ Logout
    \/ \E page \in {"login", "dashboard"} : Visit(page) /\ UNCHANGED history
    \/ theme \notin {"keys", "password"} /\ Visit("admin") /\ UNCHANGED history

Others ==
    /\ \/ \E s \in Slots : FailCall(s) \/ ServeAndLose(s) \/ WriteAndLose(s) \/ WriteFails(s)
       \/ \E u \in Users : OtherTabSignsIn(u)
       \/ theme \in {"keys", "rows"} /\ \E u \in Users : OtherClient(u)
       \/ OtherTabSignsOut
       \/ theme = "session" /\ DaysPass
    /\ UNCHANGED history

Next == (\E s \in Slots : Network(s) \/ Continue(s)) \/ User \/ Others

Spec == Init /\ [][Next]_vars

(***************************************************************************)
(* A request is answered, well or badly, and a settled promise runs its    *)
(* continuation; nothing is assumed about users and others.                *)
(***************************************************************************)
Fairness == \A s \in Slots : WF_vars(Network(s) \/ Continue(s))

FairSpec == Spec /\ Fairness

-----------------------------------------------------------------------------
\* What a page shows, and what the tables hold for the user it shows.
Current == IF On("dashboard") THEN KeysOf(TotalsShown) ELSE rows

\* The five requests of loadData carry one token, taken when the load starts: a
\* dashboard never shows one user's totals above another user's keys, though
\* another tab may have signed somebody else in between.
OneUsersData ==
    KeysTab => \A k \in KeysShown : apiKeys[k].owner = TotalsShown

\* When nothing is in flight the page shows what the tables hold, because every
\* change it makes is followed by a reload; the exceptions are marked excused: a
\* change made elsewhere, a lost answer, a failed reload, and an older load that
\* is answered after a newer one.
FreshWhenQuiet == Loaded /\ InUse = {} /\ ~excused => view.table = Current

\* A key is deactivated only by its owner: DELETE /keys names an id that the page
\* may have loaded for the user of another tab's earlier session.
OwnKeysOnly ==
    [][\A k \in DOMAIN apiKeys :
          apiKeys[k].active /\ ~apiKeys'[k].active =>
              \/ OtherClient(apiKeys[k].owner)
              \/ \E s \in InUse : /\ calls[s].op = "delete"
                               /\ calls[s].by # NoToken /\ calls[s].by.user = apiKeys[k].owner]_vars

\* A valid token leaves the local storage only by logout, here or in another tab,
\* or by a 401 to a call that did not carry it: fetchAPI removes the token that is
\* stored when the answer arrives, also when a login is refused or fails.
SessionEndsForAReason ==
    [][storage # NoToken /\ storage' = NoToken /\ Valid(storage) =>
          \/ Logout \/ OtherTabSignsOut
          \/ \E s \in InUse : Refused(s) /\ (calls[s].op = "login" \/ calls[s].by # storage)]_vars

\* A password that the user was told is set, by a login, a registration or the message
\* of the password form, is the one the table holds, until a later change is carried
\* out: a second registration, a change that is refused or that fails in the database
\* and one that was answered late do not replace it.  Nothing is promised of an answer
\* that overlapped with a change, nor behind a change whose answer is lost.
ToldPasswordWorks == \A u \in Users : told[u] # NoPassword => Matches(u, told[u])

\* An admin form takes effect at most once for each time it was filled, submitted
\* again before its answer, or failed without a clear answer: a credit is not
\* repeated by a form that kept its text.
CreditsAccounted == \A f \in Forms : applied[f] <= owed[f]

\* A page leaves its loading text: the login button is enabled again, and the
\* dashboard and the admin page show their data, an error or the login page.
NeverStuck ==
    /\ (On("login") /\ view.loading) ~> (~On("login") \/ ~view.loading)
    /\ (~On("login") /\ ~Loaded) ~> (On("login") \/ Loaded \/ (On("admin") /\ view.error))
=============================================================================
