-------------------------- MODULE WebConsoleProofs --------------------------
(***************************************************************************)
(* Proofs about WebConsole, for any users, passwords, keys, rows and forms *)
(* and any number of calls in flight: two action properties and the four   *)
(* invariants of the session pages.                                        *)
(*                                                                         *)
(* All rest on ConsoleInv, which says of each call in flight that what it  *)
(* has been answered is sound (Sound), whatever happened to its page since,*)
(* and that a call of the open page is one this page makes (Fits).  An     *)
(* answer loses its value when the tables change after it was given; the   *)
(* call is then tainted, and Sound asks less of it.  So the proof of a step*)
(* is about the call it touches and about those it must have tainted.      *)
(* TableOwned, ToldOK, FreshOrRefreshing and CreditsReserved strengthen one*)
(* property each.                                                          *)
(***************************************************************************)
EXTENDS WebConsole, FiniteSetTheorems, TLAPS

-----------------------------------------------------------------------------
(* The invariants. *)

\* The fields of a call, and the calls by the page that makes them.
Fields == {"op", "arg", "by", "home", "checked", "tainted", "answer"}
Homes == {"page", "left", "gone"}
PlainOps == {"load", "me", "loadAll", "create"}
PageOps == {"load", "create", "delete", "password"}
PanelOps == {"me", "loadAll", "toggle", "submit"}
CallOps == Sessionless \cup PageOps \cup PanelOps
Ops == CallOps \cup {"settled"}

\* The requests of a call; a load that failed keeps those of the load.
PartsOf(op) == IF op \in Loads \cup {"settled"} THEN {"totals", "table"} ELSE {"main"}

\* A token that was issued, now or earlier.
Issued(token) == token \in Tokens /\ token.issued <= clock

\* What the tables hold.
Secrets == Passwords \cup {NoPassword}
KeyRows == [owner : Users, active : BOOLEAN]

TablesOK ==
    /\ password \in [Users -> Secrets]
    /\ apiKeys \in Seq(KeyRows)
    /\ applied \in [Forms -> Nat] /\ owed \in [Forms -> Nat]
    /\ clock \in 0 .. MaxClock
    /\ storage = NoToken \/ Issued(storage)
    /\ excused \in BOOLEAN
    /\ told \in [Users -> Secrets]

\* The component state of each page.
ViewOK ==
    \/ view.page = "login" /\ DOMAIN view = {"page", "loading"}
    \/ view.page = "dashboard" /\ DOMAIN view = {"page", "totals", "table"}
    \/ /\ view.page = "admin" /\ DOMAIN view = {"page", "totals", "table", "error", "filled"}
       /\ view.filled \in [Forms -> BOOLEAN]

\* The argument of a call.
ArgOK(op, arg) ==
    /\ op \in Sessionless => arg.user \in Users /\ arg.password \in Passwords
    /\ op = "password" => arg.new \in Passwords
    /\ op = "submit" => arg.form \in Forms

\* A call as fetchAPI made it.
CallOK(c) ==
    /\ DOMAIN c = Fields
    /\ c.op \in Ops
    /\ c.home \in Homes
    /\ c.checked \in BOOLEAN /\ c.tainted \in BOOLEAN
    /\ c.by = NoToken \/ Issued(c.by)
    /\ DOMAIN c.answer = PartsOf(c.op)
    /\ ArgOK(c.op, c.arg)
    /\ c.checked => c.op = "password" /\ c.by # NoToken

Good(a) == a.status \in {200, 201}

\* A 401 tells of a wrong password, or of a token that is over, for good.
RefusalOK(c) ==
    \A p \in DOMAIN c.answer : c.answer[p].status = 401 =>
        c.op = "login" \/ c.by = NoToken \/ c.by.issued < clock

\* What an answer says of passwords holds while nobody writes one.
PasswordOK(c) ==
    /\ c.op \in Sessionless /\ Good(c.answer["main"]) =>
          /\ Issued(c.answer["main"].body)
          /\ c.answer["main"].body.user = c.arg.user
          /\ ~c.tainted => password[c.arg.user] = c.arg.password
    /\ c.op = "password" /\ Good(c.answer["main"]) =>
          /\ c.by # NoToken
          /\ ~c.tainted => password[c.by.user] = c.arg.new

\* Keys that belong to user u.
OwnedBy(table, u) == \A e \in table : e[1] \in DOMAIN apiKeys /\ apiKeys[e[1]].owner = u

\* What a load has read: one user's data, and the tables as they are, unless tainted.
DataOK(c) ==
    /\ c.op = "load" =>
          /\ Good(c.answer["totals"]) => c.answer["totals"].body = c.by.user
          /\ Good(c.answer["table"]) =>
                /\ OwnedBy(c.answer["table"].body, c.by.user)
                /\ ~c.tainted => c.answer["table"].body = KeysOf(c.by.user)
    /\ c.op = "loadAll" /\ Good(c.answer["table"]) /\ ~c.tainted => c.answer["table"].body = rows

Sound(c) == CallOK(c) /\ RefusalOK(c) /\ PasswordOK(c) /\ DataOK(c)

\* The calls of the page that is open are calls that it makes.
Offers(page, op) ==
    /\ op \in Sessionless => page = "login"
    /\ op \in PageOps => page = "dashboard"
    /\ op \in PanelOps => page = "admin"
Fits(c, page) == c.home = "page" => Offers(page, c.op)

CallsSound ==
    /\ DOMAIN calls = Slots
    /\ \A s \in Slots : calls[s] = Idle \/ (Sound(calls[s]) /\ Fits(calls[s], view.page))

\* A table with its totals is one user's.
TableOwned == view.page = "dashboard" /\ view.totals # Nothing => OwnedBy(view.table, view.totals)

\* What the user was told is in the table.
ToldOK == \A u \in Users : told[u] # NoPassword => password[u] = told[u]

\* The calls that will bring the page up to date.
Refreshes(c) ==
    /\ c.op # "none" /\ c.home = "page"
    /\ \/ c.op \in Loads
       \/ c.op \in {"create", "delete", "toggle", "submit"} /\ Good(c.answer["main"])

FreshOrRefreshing ==
    Loaded /\ ~excused => view.table = Current \/ \E s \in Slots : Refreshes(calls[s])

\* A submission of form f that may still take effect, or was refused without one.
Submits(c, f) == c.op = "submit" /\ c.arg.form = f
OpenCall(c, f) == Submits(c, f) /\ c.answer["main"].status \notin {200, 500}
Open(f) == {s \in Slots : OpenCall(calls[s], f)}

\* The form is filled and not on its way.
HomeSubmit(c, f) == Submits(c, f) /\ c.home = "page"
Waiting(f) == view.page = "admin" /\ view.filled[f] /\ ~ \E s \in Slots : HomeSubmit(calls[s], f)

\* What took effect, what may, and what waits to be submitted is owed.
Reserved(f) == applied[f] + Cardinality(Open(f)) + (IF Waiting(f) THEN 1 ELSE 0) <= owed[f]
CreditsReserved == \A f \in Forms : Reserved(f)

ConsoleInv == TablesOK /\ ViewOK /\ CallsSound

-----------------------------------------------------------------------------
(* What a call is worth when it is changed, and when the tables change.    *)

LEMMA IdleFacts == Idle.op = "none" /\ DOMAIN Idle = {"op"}
  BY DEF Idle

LEMMA CallNotIdle ==
    ASSUME NEW c, CallOK(c)
    PROVE  c # Idle /\ c.op # "none" /\ c.op \in Ops /\ DOMAIN c = Fields
  BY IdleFacts DEF CallOK, Fields, Ops, CallOps, Sessionless, PageOps, PanelOps

LEMMA NewSound ==
    ASSUME NEW op \in CallOps, NEW arg, ArgOK(op, arg), NEW home \in Homes,
           NEW token, token = NoToken \/ Issued(token),
           NEW c, c = NewCall(op, arg, home, token)
    PROVE  /\ Sound(c) /\ ~Read(c)
           /\ c.op = op /\ c.arg = arg /\ c.by = token /\ c.home = home
           /\ \A p \in DOMAIN c.answer : c.answer[p] = Pending
<1>1. /\ DOMAIN c = Fields /\ c.op = op /\ c.arg = arg /\ c.by = token /\ c.home = home
      /\ c.checked = FALSE /\ c.tainted = FALSE /\ c.answer = [p \in Parts(op) |-> Pending]
  BY DEF NewCall, Fields
<1>2. /\ DOMAIN c.answer = PartsOf(op)
      /\ \A p \in DOMAIN c.answer : c.answer[p] = Pending /\ c.answer[p].status = 0
  BY <1>1 DEF Parts, PartsOf, Pending, CallOps, Sessionless, PageOps, PanelOps
<1>3. CallOK(c)
  BY <1>1, <1>2 DEF CallOK, Ops
<1>4. \A p \in DOMAIN c.answer : ~Good(c.answer[p]) /\ c.answer[p].status # 401
  BY <1>2 DEF Good
<1>5. RefusalOK(c) /\ PasswordOK(c) /\ DataOK(c)
  BY <1>1, <1>2, <1>4
  DEF RefusalOK, PasswordOK, DataOK, PartsOf, Loads, Sessionless
<1>6. ~Read(c)
  BY <1>1, <1>2 DEF Read, PartsOf
<1> QED
  BY <1>1, <1>2, <1>3, <1>5, <1>6 DEF Sound

LEMMA HomeSound ==
    ASSUME NEW c, Sound(c), NEW h \in Homes
    PROVE  Sound([c EXCEPT !.home = h])
<1> DEFINE d == [c EXCEPT !.home = h]
<1>1. DOMAIN c = Fields
  BY DEF Sound, CallOK
<1>2. /\ DOMAIN d = Fields /\ d.op = c.op /\ d.arg = c.arg /\ d.by = c.by /\ d.home = h
      /\ d.checked = c.checked /\ d.tainted = c.tainted /\ d.answer = c.answer
  BY <1>1 DEF Fields
<1> HIDE DEF d
<1>3. Sound(d)
  BY <1>2 DEF Sound, CallOK, RefusalOK, PasswordOK, DataOK
<1> QED
  BY <1>3 DEF d

LEMMA TaintSound ==
    ASSUME NEW c, Sound(c)
    PROVE  /\ Sound([c EXCEPT !.tainted = TRUE])
           /\ [c EXCEPT !.tainted = TRUE].tainted
<1> DEFINE d == [c EXCEPT !.tainted = TRUE]
<1>1. DOMAIN c = Fields
  BY DEF Sound, CallOK
<1>2. /\ DOMAIN d = Fields /\ d.op = c.op /\ d.arg = c.arg /\ d.by = c.by /\ d.home = c.home
      /\ d.checked = c.checked /\ d.tainted /\ d.tainted \in BOOLEAN /\ d.answer = c.answer
  BY <1>1 DEF Fields
<1> HIDE DEF d
<1>3. Sound(d)
  BY <1>2 DEF Sound, CallOK, RefusalOK, PasswordOK, DataOK
<1> QED
  BY <1>2, <1>3 DEF d

LEMMA SettledSound ==
    ASSUME NEW c, Sound(c), c.op \in Loads
    PROVE  Sound([c EXCEPT !.op = "settled"])
<1> DEFINE d == [c EXCEPT !.op = "settled"]
<1>1. DOMAIN c = Fields
  BY DEF Sound, CallOK
<1>2. /\ DOMAIN d = Fields /\ d.op = "settled" /\ d.arg = c.arg /\ d.by = c.by /\ d.home = c.home
      /\ d.checked = c.checked /\ d.tainted = c.tainted /\ d.answer = c.answer
  BY <1>1 DEF Fields
<1> HIDE DEF d
<1>3. CallOK(d)
  BY <1>2 DEF Sound, CallOK, ArgOK, Ops, PartsOf, Loads, Sessionless
<1>4. RefusalOK(d) /\ PasswordOK(d) /\ DataOK(d)
  BY <1>2 DEF Sound, RefusalOK, PasswordOK, DataOK, Loads, Sessionless
<1> QED
  BY <1>3, <1>4 DEF Sound, d

LEMMA CheckedSound ==
    ASSUME NEW c, Sound(c), c.op = "password", c.by # NoToken
    PROVE  Sound([c EXCEPT !.checked = TRUE])
<1> DEFINE d == [c EXCEPT !.checked = TRUE]
<1>1. DOMAIN c = Fields
  BY DEF Sound, CallOK
<1>2. /\ DOMAIN d = Fields /\ d.op = c.op /\ d.arg = c.arg /\ d.by = c.by /\ d.home = c.home
      /\ d.checked \in BOOLEAN /\ d.tainted = c.tainted /\ d.answer = c.answer
  BY <1>1 DEF Fields
<1> HIDE DEF d
<1>3. Sound(d)
  BY <1>2 DEF Sound, CallOK, RefusalOK, PasswordOK, DataOK
<1> QED
  BY <1>3 DEF d

\* An answer changes the answers of a call and nothing else of it.
LEMMA ReplyFacts ==
    ASSUME NEW c, CallOK(c), NEW part \in DOMAIN c.answer, NEW a
    PROVE  LET d == [c EXCEPT !.answer[part] = a]
           IN  /\ DOMAIN d = Fields /\ d.op = c.op /\ d.arg = c.arg /\ d.by = c.by /\ d.home = c.home
               /\ d.checked = c.checked /\ d.tainted = c.tainted
               /\ DOMAIN d.answer = DOMAIN c.answer /\ d.answer[part] = a
               /\ \A p \in DOMAIN c.answer \ {part} : d.answer[p] = c.answer[p]
<1>1. DOMAIN c = Fields
  BY DEF CallOK
<1> QED
  BY <1>1 DEF Fields

\* What no step does to the tables, but for the UPDATE of a password.
Grow ==
    /\ clock' \in 0 .. MaxClock /\ clock' >= clock
    /\ \A u \in Users : password[u] # NoPassword => password'[u] = password[u]
    /\ \A k \in DOMAIN apiKeys : k \in DOMAIN apiKeys' /\ apiKeys'[k].owner = apiKeys[k].owner

LEMMA SoundKept ==
    ASSUME TablesOK, NEW c, Sound(c), Grow, shown' = shown \/ ~Read(c) \/ c.tainted
    PROVE  Sound(c)'
<1>1. clock \in Nat /\ clock' \in Nat /\ clock <= clock' /\ MaxClock \in Nat
  BY MaxClockAssumption DEF TablesOK, Grow
<1>2. \A t : Issued(t) => Issued(t)' /\ t.issued \in Nat /\ t.user \in Users
  BY <1>1 DEF Issued, Tokens
<1>3. CallOK(c)'
  BY <1>2 DEF Sound, CallOK
<1>4. RefusalOK(c)'
  BY <1>1, <1>2 DEF Sound, RefusalOK, CallOK
<1>5. PasswordOK(c)'
  <2>1. \A u \in Users : password[u] \in Passwords => password'[u] = password[u]
    BY PasswordsAssumption DEF Grow
  <2>2. c.op \in Sessionless => c.arg.user \in Users /\ c.arg.password \in Passwords
    BY DEF Sound, CallOK, ArgOK
  <2>3. c.op = "password" => c.arg.new \in Passwords /\ (c.by # NoToken => c.by.user \in Users)
    BY <1>2 DEF Sound, CallOK, ArgOK
  <2> QED
    BY <1>2, <2>1, <2>2, <2>3 DEF Sound, PasswordOK
<1>6. DataOK(c)'
  <2>1. \A table, u : OwnedBy(table, u) => OwnedBy(table, u)'
    BY DEF OwnedBy, Grow
  <2>2. c.op \in Loads /\ Good(c.answer["table"]) /\ ~c.tainted => shown' = shown
    BY DEF Read, Good
  <2>3. shown' = shown => rows' = rows /\ \A u : KeysOf(u)' = KeysOf(u)
    BY DEF shown, KeysOf
  <2> QED
    BY <2>1, <2>2, <2>3 DEF Sound, DataOK, Loads
<1> QED
  BY <1>3, <1>4, <1>5, <1>6 DEF Sound

-----------------------------------------------------------------------------
(* What a step leaves in the slots. *)

Carries(d) ==
    d = Idle \/ (Sound(d) /\ Fits(d, view'.page) /\ (shown' = shown \/ ~Read(d) \/ d.tainted))

CallsKept ==
    /\ DOMAIN calls' = Slots
    /\ \A t \in Slots : Carries(calls'[t]) \/ (Sound(calls[t]) /\ Fits(calls[t], view.page))'

LEMMA Kept ==
    ASSUME ConsoleInv, Grow, TablesOK', ViewOK', CallsKept
    PROVE  ConsoleInv'
<1>1. ASSUME NEW t \in Slots
      PROVE  (calls[t] = Idle \/ (Sound(calls[t]) /\ Fits(calls[t], view.page)))'
  <2> SUFFICES ASSUME Carries(calls'[t])
               PROVE  (calls[t] = Idle \/ (Sound(calls[t]) /\ Fits(calls[t], view.page)))'
    BY DEF CallsKept
  <2>1. PICK d : d = calls'[t]
    OBVIOUS
  <2>2. Carries(d)
    BY <2>1
  <2>3. CASE d = Idle
    BY <2>1, <2>3 DEF Idle
  <2>4. CASE d # Idle
    <3>1. Sound(d) /\ (shown' = shown \/ ~Read(d) \/ d.tainted) /\ Fits(d, view'.page)
      BY <2>2, <2>4 DEF Carries
    <3>2. Sound(d)'
      BY <3>1, SoundKept DEF ConsoleInv
    <3> QED
      BY <2>1, <3>1, <3>2 DEF Fits
  <2> QED
    BY <2>3, <2>4
<1> QED
  BY <1>1 DEF ConsoleInv, CallsSound, CallsKept

LEMMA SlotFacts ==
    ASSUME ConsoleInv, NEW t \in Slots
    PROVE  /\ DOMAIN calls = Slots
           /\ calls[t] = Idle \/ (Sound(calls[t]) /\ Fits(calls[t], view.page))
           /\ Busy(t) => calls[t] # Idle /\ Sound(calls[t]) /\ Fits(calls[t], view.page) /\ CallOK(calls[t])
           /\ ~Busy(t) => calls[t] = Idle
  BY IdleFacts, CallNotIdle DEF ConsoleInv, CallsSound, Busy, Sound

LEMMA KeepsCalls ==
    ASSUME ConsoleInv, shown' = shown, calls' = calls, view'.page = view.page
    PROVE  CallsKept
  BY SlotFacts DEF CallsKept, Carries, ConsoleInv, CallsSound

LEMMA PutsCall ==
    ASSUME ConsoleInv, shown' = shown, view'.page = view.page, NEW s \in Slots, NEW c,
           c = Idle \/ (Sound(c) /\ Fits(c, view.page)),
           calls' = [calls EXCEPT ![s] = c]
    PROVE  CallsKept
<1>1. DOMAIN calls = Slots
  BY DEF ConsoleInv, CallsSound
<1>2. \A t \in Slots : calls'[t] = IF t = s THEN c ELSE calls[t]
  BY <1>1
<1> QED
  BY <1>1, <1>2, SlotFacts DEF CallsKept, Carries

\* The calls of a page that router.push leaves.
Left == [t \in Slots |-> IF Busy(t) /\ calls[t].home = "page"
                         THEN [calls[t] EXCEPT !.home = "left"] ELSE calls[t]]

LEMMA LeftHome ==
    ASSUME ConsoleInv, NEW t \in Slots
    PROVE  Left[t] = Idle \/ (Sound(Left[t]) /\ Left[t].home # "page")
<1>1. CASE Busy(t) /\ calls[t].home = "page"
  <2>1. Sound(calls[t]) /\ DOMAIN calls[t] = Fields
    BY <1>1, SlotFacts DEF CallOK
  <2>2. Left[t] = [calls[t] EXCEPT !.home = "left"]
    BY <1>1 DEF Left
  <2>3. Sound([calls[t] EXCEPT !.home = "left"])
    BY <2>1, HomeSound DEF Homes
  <2>4. [calls[t] EXCEPT !.home = "left"].home = "left"
    BY <2>1 DEF Fields
  <2> QED
    BY <2>2, <2>3, <2>4
<1>2. CASE ~(Busy(t) /\ calls[t].home = "page")
  BY <1>2, SlotFacts DEF Left
<1> QED
  BY <1>1, <1>2

LEMMA LeavesPage ==
    ASSUME ConsoleInv, shown' = shown, NEW s \in Slots, NEW c,
           c = Idle \/ (Sound(c) /\ Fits(c, view'.page)),
           calls' = [Left EXCEPT ![s] = c]
    PROVE  CallsKept
<1>1. DOMAIN Left = Slots
  BY DEF Left
<1>2. \A t \in Slots : calls'[t] = IF t = s THEN c ELSE Left[t]
  BY <1>1
<1> QED
  BY <1>1, <1>2, LeftHome DEF CallsKept, Carries, Fits

LEMMA AbortedHome ==
    ASSUME ConsoleInv, NEW t \in Slots
    PROVE  Aborted(calls)[t] = Idle \/ (Sound(Aborted(calls)[t]) /\ Aborted(calls)[t].home = "gone")
<1>1. CASE calls[t].op \in Mutations /\ calls[t].answer["main"].status = 0
  <2>1. Sound(calls[t]) /\ DOMAIN calls[t] = Fields
    BY <1>1, SlotFacts, IdleFacts DEF CallOK, Mutations, Busy
  <2>2. Aborted(calls)[t] = [calls[t] EXCEPT !.home = "gone"]
    BY <1>1 DEF Aborted
  <2>3. Sound([calls[t] EXCEPT !.home = "gone"])
    BY <2>1, HomeSound DEF Homes
  <2>4. [calls[t] EXCEPT !.home = "gone"].home = "gone"
    BY <2>1 DEF Fields
  <2> QED
    BY <2>2, <2>3, <2>4
<1>2. CASE ~(calls[t].op \in Mutations /\ calls[t].answer["main"].status = 0)
  BY <1>2 DEF Aborted
<1> QED
  BY <1>1, <1>2

LEMMA AbortsCalls ==
    ASSUME ConsoleInv, shown' = shown,
           \/ calls' = Aborted(calls)
           \/ \E s \in Slots : \E c : /\ c = Idle \/ (Sound(c) /\ Fits(c, view'.page))
                                      /\ calls' = [Aborted(calls) EXCEPT ![s] = c]
    PROVE  CallsKept
<1>1. DOMAIN Aborted(calls) = Slots
  BY DEF Aborted
<1>2. CASE calls' = Aborted(calls)
  BY <1>1, <1>2, AbortedHome DEF CallsKept, Carries, Fits
<1>3. ASSUME NEW s \in Slots, NEW c, c = Idle \/ (Sound(c) /\ Fits(c, view'.page)),
             calls' = [Aborted(calls) EXCEPT ![s] = c]
      PROVE  CallsKept
  <2>1. \A t \in Slots : calls'[t] = IF t = s THEN c ELSE Aborted(calls)[t]
    BY <1>1, <1>3
  <2> QED
    BY <1>1, <1>3, <2>1, AbortedHome DEF CallsKept, Carries, Fits
<1> QED
  BY <1>2, <1>3

-----------------------------------------------------------------------------
(* The handlers. *)

LEMMA TokenFacts ==
    ASSUME TablesOK, NEW token, token = NoToken \/ Issued(token), Valid(token)
    PROVE  token # NoToken /\ Issued(token) /\ token.user \in Users /\ token.issued = clock
  BY DEF Valid, Issued, Tokens

LEMMA StatusFacts ==
    ASSUME NEW c, CallOK(c)
    PROVE  /\ Status(c) \in {200, 201, 400, 401, 403, 409}
           /\ Status(c) = 401 => c.op = "login" \/ ~Valid(c.by)
           /\ Status(c) \in {200, 201} =>
                 \/ c.op = "login" /\ Status(c) = 200 /\ Matches(c.arg.user, c.arg.password)
                 \/ c.op = "register" /\ Status(c) = 201 /\ password[c.arg.user] = NoPassword
                 \/ c.op \notin Sessionless /\ Status(c) = 200 /\ Valid(c.by)
  BY DEF Status, Sessionless

LEMMA KeysTyped ==
    ASSUME apiKeys \in Seq(KeyRows), NEW keys, DOMAIN keys = DOMAIN apiKeys,
           \A k \in DOMAIN apiKeys : keys[k] \in KeyRows,
           keys = [k \in DOMAIN keys |-> keys[k]]
    PROVE  keys \in Seq(KeyRows)
<1>1. PICK n \in Nat : DOMAIN apiKeys = 1 .. n
  OBVIOUS
<1>2. keys \in [1 .. n -> KeyRows]
  BY <1>1
<1> QED
  BY <1>1, <1>2

LEMMA DeactivateFacts ==
    ASSUME apiKeys \in Seq(KeyRows), NEW r, Deactivate(r)
    PROVE  /\ apiKeys' \in Seq(KeyRows)
           /\ DOMAIN apiKeys' = DOMAIN apiKeys
           /\ \A k \in DOMAIN apiKeys :
                 /\ apiKeys'[k].owner = apiKeys[k].owner
                 /\ apiKeys'[k].active # apiKeys[k].active => apiKeys[k].owner = r.by.user
<1>1. DOMAIN apiKeys' = DOMAIN apiKeys /\ apiKeys' = [k \in DOMAIN apiKeys' |-> apiKeys'[k]]
  BY DEF Deactivate
<1>2. \A k \in DOMAIN apiKeys : apiKeys[k] \in KeyRows
  OBVIOUS
<1>3. \A k \in DOMAIN apiKeys :
         /\ apiKeys'[k] \in KeyRows
         /\ apiKeys'[k].owner = apiKeys[k].owner
         /\ apiKeys'[k] # apiKeys[k] => apiKeys[k].owner = r.by.user
  BY <1>2 DEF Deactivate, KeyRows
<1>4. apiKeys' \in Seq(KeyRows)
  BY <1>1, <1>3, KeysTyped
<1> QED
  BY <1>1, <1>3, <1>4

LEMMA ApplyFacts ==
    ASSUME TablesOK, NEW c, CallOK(c), Apply(c), clock' = clock
    PROVE  /\ Grow
           /\ password' \in [Users -> Secrets]
           /\ apiKeys' \in Seq(KeyRows)
           /\ applied' \in [Forms -> Nat]
           /\ c.op # "register" => password' = password
           /\ c.op = "register" /\ password[c.arg.user] = NoPassword =>
                 password'[c.arg.user] = c.arg.password
           /\ shown' # shown => c.op \in {"create", "delete", "toggle"} /\ Status(c) = 200
           /\ applied' = IF c.op = "submit" /\ Status(c) = 200
                         THEN [applied EXCEPT ![c.arg.form] = @ + 1] ELSE applied
<1> USE DEF TablesOK
<1>1. clock' \in 0 .. MaxClock /\ clock' >= clock
  BY MaxClockAssumption
<1>2. c.op \in Ops /\ (c.op \in Sessionless => c.arg.user \in Users /\ c.arg.password \in Passwords)
      /\ (c.op = "submit" => c.arg.form \in Forms)
  BY DEF CallOK, ArgOK
<1>3. Status(c) = 200 /\ c.op \notin Sessionless => c.by.user \in Users
  <2>1. Status(c) = 200 /\ c.op \notin Sessionless => Valid(c.by)
    BY StatusFacts DEF Sessionless
  <2>2. c.by = NoToken \/ Issued(c.by)
    BY DEF CallOK
  <2> QED
    BY <2>1, <2>2, TokenFacts
<1>4. CASE c.op = "register" /\ RegisterRow(c) /\ UNCHANGED <<apiKeys, rows, applied>>
  <2>1. /\ password' \in [Users -> Secrets]
        /\ \A u \in Users : password[u] # NoPassword => password'[u] = password[u]
        /\ password[c.arg.user] = NoPassword => password'[c.arg.user] = c.arg.password
    BY <1>2, <1>4 DEF RegisterRow, Sessionless, Secrets
  <2> QED
    BY <1>1, <1>4, <2>1 DEF Grow, shown
<1>5. CASE /\ c.op = "create" /\ Status(c) = 200
           /\ CreateAPIKey(c) /\ UNCHANGED <<password, rows, applied>>
  <2>1. [owner |-> c.by.user, active |-> TRUE] \in KeyRows
    BY <1>3, <1>5 DEF KeyRows, Sessionless
  <2>2. /\ apiKeys' \in Seq(KeyRows)
        /\ \A k \in DOMAIN apiKeys : k \in DOMAIN apiKeys' /\ apiKeys'[k] = apiKeys[k]
    BY <1>5, <2>1 DEF CreateAPIKey
  <2> QED
    BY <1>1, <1>5, <2>2 DEF Grow
<1>6. CASE /\ c.op = "delete" /\ Status(c) = 200
           /\ Deactivate(c) /\ UNCHANGED <<password, rows, applied>>
  BY <1>1, <1>6, DeactivateFacts DEF Grow
<1>7. CASE /\ c.op = "toggle" /\ Status(c) = 200
           /\ SetActive(c) /\ UNCHANGED <<password, apiKeys, applied>>
  BY <1>1, <1>7 DEF Grow
<1>8. CASE /\ c.op = "submit" /\ Status(c) = 200
           /\ SubmitForm(c) /\ UNCHANGED <<password, apiKeys, rows>>
  <2>1. applied' = [applied EXCEPT ![c.arg.form] = @ + 1] /\ applied' \in [Forms -> Nat]
    BY <1>2, <1>8 DEF SubmitForm
  <2> QED
    BY <1>1, <1>8, <2>1 DEF Grow, shown
<1>9. CASE /\ ~(c.op \in {"create", "delete", "toggle", "submit"} /\ Status(c) = 200)
           /\ c.op # "register"
           /\ UNCHANGED tables
  BY <1>1, <1>9 DEF Grow, shown, tables
<1> QED
  BY <1>4, <1>5, <1>6, <1>7, <1>8, <1>9 DEF Apply

\* The answer of a handler, as its call keeps it.
Answer(c, part, lost) ==
    IF lost THEN [status |-> 500]
    ELSE IF Status(c) \in {200, 201} THEN [status |-> Status(c), body |-> Body(c, part)]
    ELSE [status |-> Status(c)]

LEMMA AnswerFacts ==
    ASSUME NEW c, NEW part, NEW lost \in BOOLEAN, NEW a, a = Answer(c, part, lost)
    PROVE  /\ a.status = IF lost THEN 500 ELSE Status(c)
           /\ Good(a) => ~lost /\ Status(c) \in {200, 201} /\ a.body = Body(c, part)
  BY DEF Answer, Good

\* What a handler answers is true when it has run.
LEMMA AnsweredSound ==
    ASSUME TablesOK, NEW c, Sound(c), NEW part \in DOMAIN c.answer, NEW lost \in BOOLEAN,
           NEW a, a = Answer(c, part, lost), Apply(c), clock' = clock,
           ~(c.op = "password" /\ Status(c) = 200),
           NEW d, d = [c EXCEPT !.answer[part] = a]
    PROVE  Sound(d)'
<1>1. CallOK(c) /\ RefusalOK(c) /\ PasswordOK(c) /\ DataOK(c)
  BY DEF Sound
<1>2. /\ DOMAIN d = Fields /\ d.op = c.op /\ d.arg = c.arg /\ d.by = c.by /\ d.home = c.home
      /\ d.checked = c.checked /\ d.tainted = c.tainted
      /\ DOMAIN d.answer = DOMAIN c.answer /\ d.answer[part] = a
      /\ \A p \in DOMAIN c.answer \ {part} : d.answer[p] = c.answer[p]
  BY <1>1, ReplyFacts
<1>3. /\ a.status = IF lost THEN 500 ELSE Status(c)
      /\ Good(a) => ~lost /\ Status(c) \in {200, 201} /\ a.body = Body(c, part)
  BY AnswerFacts
<1>4. \A t : Issued(t)' <=> Issued(t)
  BY DEF Issued
<1>5. CallOK(d)'
  BY <1>1, <1>2, <1>4 DEF CallOK
<1>6. RefusalOK(d)'
  <2>1. a.status = 401 => c.op = "login" \/ c.by = NoToken \/ c.by.issued < clock
    <3>1. a.status = 401 => c.op = "login" \/ ~Valid(c.by)
      BY <1>1, <1>3, StatusFacts
    <3>2. c.by # NoToken => c.by.issued \in Nat /\ c.by.issued <= clock /\ clock \in Nat
      BY <1>1, MaxClockAssumption DEF CallOK, Issued, Tokens, TablesOK
    <3> QED
      BY <3>1, <3>2 DEF Valid
  <2> QED
    BY <1>1, <1>2, <2>1 DEF RefusalOK
<1>7. PasswordOK(d)'
  <2>1. CASE c.op \in Sessionless
    <3>1. part = "main" /\ d.answer["main"] = a
      BY <1>1, <1>2, <2>1 DEF CallOK, PartsOf, Sessionless, Loads
    <3>2. c.arg.user \in Users /\ c.arg.password \in Passwords
      BY <1>1, <2>1 DEF CallOK, ArgOK
    <3>3. Good(a) => Issued(a.body) /\ a.body.user = c.arg.user
      BY <1>3, <2>1, <3>2, MaxClockAssumption DEF Body, Generate, Issued, Tokens, TablesOK
    <3>4. Good(a) => password'[c.arg.user] = c.arg.password
      <4>1. c.op = "login" /\ Good(a) => password[c.arg.user] = c.arg.password
        BY <1>1, <1>3, StatusFacts DEF Matches, Sessionless
      <4>2. c.op = "register" /\ Good(a) => password[c.arg.user] = NoPassword
        BY <1>1, <1>3, StatusFacts DEF Sessionless
      <4>3. c.op # "register" => password' = password
        BY <1>1, ApplyFacts
      <4>4. c.op = "register" /\ password[c.arg.user] = NoPassword =>
               password'[c.arg.user] = c.arg.password
        BY <1>1, ApplyFacts
      <4> QED
        BY <2>1, <4>1, <4>2, <4>3, <4>4 DEF Sessionless
    <3> QED
      BY <1>2, <1>4, <2>1, <3>1, <3>3, <3>4 DEF PasswordOK, Sessionless
  <2>2. CASE c.op = "password"
    <3>1. part = "main" /\ d.answer["main"] = a
      BY <1>1, <1>2, <2>2 DEF CallOK, PartsOf, Sessionless, Loads
    <3>2. ~Good(a)
      BY <1>1, <1>3, <2>2, StatusFacts DEF Sessionless
    <3> QED
      BY <1>2, <2>2, <3>1, <3>2 DEF PasswordOK, Sessionless
  <2>3. CASE c.op \notin Sessionless \cup {"password"}
    BY <1>2, <2>3 DEF PasswordOK
  <2> QED
    BY <2>1, <2>2, <2>3
<1>8. DataOK(d)'
  <2>1. CASE c.op \in Loads
    <3>1. shown' = shown
      BY <1>1, <2>1, ApplyFacts DEF Loads
    <3>2. rows' = rows /\ apiKeys' = apiKeys /\ \A u : KeysOf(u)' = KeysOf(u)
      BY <3>1 DEF shown, KeysOf
    <3>3. \A table, u : OwnedBy(table, u)' <=> OwnedBy(table, u)
      BY <3>2 DEF OwnedBy
    <3>4. DOMAIN c.answer = {"totals", "table"}
      BY <1>1, <2>1 DEF CallOK, PartsOf
    <3>5. OwnedBy(KeysOf(c.by.user), c.by.user)
      BY DEF OwnedBy, KeysOf
    <3>6. Good(a) => a.body = IF part = "totals" THEN c.by.user
                              ELSE IF c.op = "load" THEN KeysOf(c.by.user) ELSE rows
      BY <1>3, <2>1 DEF Body, Loads, Sessionless
    <3> QED
      BY <1>1, <1>2, <2>1, <3>2, <3>3, <3>4, <3>5, <3>6 DEF DataOK, Loads
  <2>2. CASE c.op \notin Loads
    BY <1>2, <2>2 DEF DataOK, Loads
  <2> QED
    BY <2>1, <2>2
<1> QED
  BY <1>5, <1>6, <1>7, <1>8 DEF Sound

-----------------------------------------------------------------------------
(* The steps, one by one.  A handler either compares a password or answers. *)

Compares(s) ==
    /\ calls[s].op = "password" /\ calls[s].by # NoToken
    /\ calls' = [calls EXCEPT ![s] = [calls[s] EXCEPT !.checked = TRUE]]
    /\ UNCHANGED <<tables, excused>>

Answers(s, part, lost) ==
    /\ Apply(calls[s])
    /\ ~(calls[s].op = "password" /\ Status(calls[s]) = 200)
    /\ calls[s].answer[part].status = 0
    /\ DOMAIN calls' = Slots
    /\ calls'[s] = [calls[s] EXCEPT !.answer[part] = Answer(calls[s], part, lost)]
    /\ \A t \in Slots \ {s} :
          calls'[t] = IF shown' # shown /\ Read(calls[t])
                      THEN [calls[t] EXCEPT !.tainted = TRUE] ELSE calls[t]
    /\ excused' = (excused \/ Behind(s, lost))

LEMMA HandleFacts ==
    ASSUME ConsoleInv, NEW s \in Slots, Busy(s), NEW part \in DOMAIN calls[s].answer,
           NEW lost \in BOOLEAN, Handle(s, part, lost)
    PROVE  /\ UNCHANGED <<clock, storage, view, told>>
           /\ Compares(s) \/ Answers(s, part, lost)
<1>1. TablesOK /\ CallOK(calls[s]) /\ Sound(calls[s]) /\ DOMAIN calls = Slots
  BY SlotFacts DEF ConsoleInv
<1>2. CASE calls[s].op = "password" /\ Status(calls[s]) = 200
  <2>1. calls[s].by # NoToken
    BY <1>1, <1>2, StatusFacts DEF Sessionless, Valid
  <2>2. Compares(s)
    BY <1>1, <1>2, <2>1 DEF Handle, Carried, Compares
  <2> QED
    BY <2>2 DEF Handle
<1>3. CASE ~(calls[s].op = "password" /\ Status(calls[s]) = 200)
  <2> DEFINE a == Answer(calls[s], part, lost)
             r == [calls EXCEPT ![s] = [calls[s] EXCEPT !.answer[part] = a]]
  <2>1. /\ Apply(calls[s]) /\ calls[s].answer[part].status = 0
        /\ calls' = IF shown' = shown THEN r ELSE Taint(r)
        /\ excused' = (excused \/ Behind(s, lost))
        /\ UNCHANGED <<clock, storage, view, told>>
    BY <1>1, <1>3 DEF Handle, Carried, Answer, Reply
  <2>2. DOMAIN r = Slots /\ r[s] = [calls[s] EXCEPT !.answer[part] = a]
        /\ \A t \in Slots \ {s} : r[t] = calls[t]
    BY <1>1
  <2>3. r[s].op = calls[s].op
    BY <1>1, <2>2, ReplyFacts
  <2>4. shown' # shown => ~Read(r[s])
    BY <1>1, <2>1, <2>3, ApplyFacts DEF Read, Loads
  <2> HIDE DEF a, r
  <2>5. \A t \in Slots : calls'[t] = IF shown' # shown /\ Read(r[t])
                                     THEN [r[t] EXCEPT !.tainted = TRUE] ELSE r[t]
    BY <2>1, <2>2 DEF Taint
  <2>6. DOMAIN calls' = Slots
    BY <2>1, <2>2 DEF Taint
  <2>7. Answers(s, part, lost)
    BY <1>3, <2>1, <2>2, <2>4, <2>5, <2>6 DEF Answers, a
  <2> QED
    BY <2>1, <2>7
<1> QED
  BY <1>2, <1>3

LEMMA HandleKeeps ==
    ASSUME ConsoleInv, NEW s \in Slots, Busy(s), NEW part \in DOMAIN calls[s].answer,
           NEW lost \in BOOLEAN, Handle(s, part, lost), owed' = owed
    PROVE  ConsoleInv'
<1>1. TablesOK /\ ViewOK /\ CallOK(calls[s]) /\ Sound(calls[s]) /\ Fits(calls[s], view.page)
      /\ DOMAIN calls = Slots
  BY SlotFacts DEF ConsoleInv
<1>2. UNCHANGED <<clock, storage, view, told>> /\ (Compares(s) \/ Answers(s, part, lost))
  BY HandleFacts
<1>3. ViewOK'
  BY <1>1, <1>2 DEF ViewOK
<1>4. (storage = NoToken \/ Issued(storage))'
  BY <1>1, <1>2 DEF TablesOK, Issued
<1>5. CASE Compares(s)
  <2> DEFINE d == [calls[s] EXCEPT !.checked = TRUE]
  <2>1. Sound(d)
    BY <1>1, <1>5, CheckedSound DEF Compares
  <2>2. d.op = calls[s].op /\ d.home = calls[s].home
    BY <1>1 DEF CallOK, Fields
  <2>3. Fits(d, view.page)
    BY <1>1, <2>2 DEF Fits
  <2> HIDE DEF d
  <2>4. calls' = [calls EXCEPT ![s] = d] /\ shown' = shown /\ UNCHANGED <<tables, excused>>
    BY <1>5 DEF Compares, shown, tables, d
  <2>5. CallsKept
    BY <1>2, <2>1, <2>3, <2>4, PutsCall
  <2>6. Grow
    BY <1>1, <1>2, <2>4, MaxClockAssumption DEF Grow, TablesOK, tables
  <2>7. TablesOK'
    BY <1>1, <1>2, <1>4, <2>4 DEF TablesOK, tables
  <2> QED
    BY <1>3, <2>5, <2>6, <2>7, Kept
<1>6. CASE Answers(s, part, lost)
  <2>1. PICK d : d = calls'[s]
    OBVIOUS
  <2>2. PICK a : a = Answer(calls[s], part, lost)
    OBVIOUS
  <2>3. PICK c : c = calls[s]
    OBVIOUS
  <2>4. Sound(c) /\ CallOK(c) /\ a = Answer(c, part, lost) /\ Apply(c) /\ clock' = clock
        /\ ~(c.op = "password" /\ Status(c) = 200) /\ d = [c EXCEPT !.answer[part] = a]
        /\ part \in DOMAIN c.answer
    BY <1>1, <1>2, <1>6, <2>1, <2>2, <2>3 DEF Answers
  <2>5. Sound(d)'
    BY <1>1, <2>4, AnsweredSound
  <2>6. d.op = c.op /\ d.home = c.home
    BY <2>4, ReplyFacts
  <2>7. Fits(d, view'.page)
    BY <1>1, <1>2, <2>3, <2>6 DEF Fits
  <2>8. (Sound(calls[s]) /\ Fits(calls[s], view.page))'
    BY <2>1, <2>5, <2>7 DEF Fits
  <2>9. ASSUME NEW t \in Slots \ {s}
        PROVE  Carries(calls'[t])
    <3>1. calls[t] = Idle \/ (Sound(calls[t]) /\ Fits(calls[t], view.page))
      BY SlotFacts
    <3>2. CASE shown' # shown /\ Read(calls[t])
      <4>1. calls'[t] = [calls[t] EXCEPT !.tainted = TRUE] /\ Sound(calls[t])
        BY <1>6, <3>1, <3>2, IdleFacts DEF Answers, Read, Loads
      <4>2. Sound([calls[t] EXCEPT !.tainted = TRUE]) /\ [calls[t] EXCEPT !.tainted = TRUE].tainted
        BY <4>1, TaintSound
      <4>3. /\ [calls[t] EXCEPT !.tainted = TRUE].op = calls[t].op
            /\ [calls[t] EXCEPT !.tainted = TRUE].home = calls[t].home
        BY <4>1 DEF Sound, CallOK, Fields
      <4>4. Fits([calls[t] EXCEPT !.tainted = TRUE], view'.page)
        BY <1>2, <3>1, <3>2, <4>1, <4>3, IdleFacts DEF Fits, Read, Loads
      <4> QED
        BY <4>1, <4>2, <4>4 DEF Carries
    <3>3. CASE ~(shown' # shown /\ Read(calls[t]))
      BY <1>2, <1>6, <3>1, <3>3 DEF Answers, Carries
    <3> QED
      BY <3>2, <3>3
  <2>10. CallsKept
    <3>1. DOMAIN calls' = Slots
      BY <1>6 DEF Answers
    <3> QED
      BY <2>8, <2>9, <3>1 DEF CallsKept
  <2>11. /\ Grow /\ password' \in [Users -> Secrets] /\ apiKeys' \in Seq(KeyRows)
         /\ applied' \in [Forms -> Nat]
    BY <1>1, <2>4, ApplyFacts
  <2>12. excused' \in BOOLEAN
    BY <1>6 DEF Answers
  <2>13. TablesOK'
    BY <1>1, <1>2, <1>4, <2>11, <2>12 DEF TablesOK
  <2> QED
    BY <1>3, <2>10, <2>11, <2>13, Kept
<1> QED
  BY <1>2, <1>5, <1>6

\* Answers that tell nothing.
Refusals == [status : {400, 401, 409, 500}]

LEMMA FailedSound ==
    ASSUME NEW c, Sound(c), NEW part \in DOMAIN c.answer,
           NEW a \in Refusals, a.status = 401 => c.op = "login",
           NEW d, d = [c EXCEPT !.answer[part] = a]
    PROVE  Sound(d) /\ d.op = c.op /\ d.home = c.home
<1>1. CallOK(c) /\ RefusalOK(c) /\ PasswordOK(c) /\ DataOK(c)
  BY DEF Sound
<1>3. /\ DOMAIN d = Fields /\ d.op = c.op /\ d.arg = c.arg /\ d.by = c.by /\ d.home = c.home
      /\ d.checked = c.checked /\ d.tainted = c.tainted
      /\ DOMAIN d.answer = DOMAIN c.answer /\ d.answer[part] = a
      /\ \A p \in DOMAIN c.answer \ {part} : d.answer[p] = c.answer[p]
  BY <1>1, ReplyFacts
<1>4. ~Good(a) /\ (a.status = 401 => c.op = "login")
  BY DEF Good, Refusals
<1>5. CallOK(d)
  BY <1>1, <1>3 DEF CallOK
<1>6. RefusalOK(d)
  BY <1>1, <1>3, <1>4 DEF RefusalOK
<1>7. PasswordOK(d)
  BY <1>1, <1>3, <1>4 DEF PasswordOK, CallOK, PartsOf, Sessionless, Loads
<1>8. DataOK(d)
  BY <1>1, <1>3, <1>4 DEF DataOK, CallOK, PartsOf, Loads
<1> QED
  BY <1>3, <1>5, <1>6, <1>7, <1>8 DEF Sound

\* A call that names no password, or is tainted, does not mind the UPDATE of one.
LEMMA SoundDespiteWrite ==
    ASSUME NEW c, Sound(c), c.tainted \/ c.op \notin {"password", "login", "register"},
           UNCHANGED <<apiKeys, rows, clock>>
    PROVE  Sound(c)'
<1>1. \A t : Issued(t)' <=> Issued(t)
  BY DEF Issued
<1>2. \A u : KeysOf(u)' = KeysOf(u)
  BY DEF KeysOf
<1>3. \A table, u : OwnedBy(table, u)' <=> OwnedBy(table, u)
  BY DEF OwnedBy
<1>4. CallOK(c)' /\ RefusalOK(c)'
  BY <1>1 DEF Sound, CallOK, RefusalOK
<1>5. PasswordOK(c)'
  BY <1>1 DEF Sound, PasswordOK, Sessionless
<1>6. DataOK(c)'
  BY <1>2, <1>3 DEF Sound, DataOK
<1> QED
  BY <1>4, <1>5, <1>6 DEF Sound

LEMMA WrittenSound ==
    ASSUME TablesOK, NEW c, Sound(c), c.op = "password", c.by # NoToken,
           UNCHANGED <<apiKeys, rows, clock>>,
           password'[c.by.user] = c.arg.new,
           NEW d, DOMAIN d = Fields, d.op = c.op, d.arg = c.arg, d.by = c.by, d.home = c.home,
           d.checked = c.checked, d.tainted = c.tainted,
           DOMAIN d.answer = DOMAIN c.answer, d.answer["main"].status \in {200, 500}
    PROVE  Sound(d)'
<1>1. CallOK(c) /\ RefusalOK(c)
  BY DEF Sound
<1>2. DOMAIN c.answer = {"main"}
  BY <1>1 DEF CallOK, PartsOf, Loads
<1>3. \A t : Issued(t)' <=> Issued(t)
  BY DEF Issued
<1>4. CallOK(d)'
  BY <1>1, <1>3 DEF CallOK
<1>5. RefusalOK(d)'
  BY <1>2 DEF RefusalOK
<1>6. PasswordOK(d)'
  BY DEF PasswordOK, Sessionless
<1>7. DataOK(d)'
  BY DEF DataOK
<1> QED
  BY <1>4, <1>5, <1>6, <1>7 DEF Sound

\* The steps that write a password, with the answer they give.
Outcomes == {[status |-> 200, body |-> TRUE], [status |-> 500]}

Writes(s) == \E a \in Outcomes : UpdatePassword(s, a)

LEMMA WritesPassword ==
    ASSUME NEW s \in Slots, WritePassword(s) \/ WriteAndLose(s)
    PROVE  Writes(s)
  BY DEF WritePassword, WriteAndLose, Writes, Outcomes

\* The steps in which a call is answered that it failed, and nothing else happens.
Fails(s) ==
    \E part \in DOMAIN calls[s].answer, a \in Refusals :
        /\ calls[s].answer[part].status = 0
        /\ a.status = 401 => calls[s].op = "login"
        /\ calls[s].op = "submit" => a.status = 500
        /\ calls' = Reply(s, part, a)
        /\ Busy(s) /\ UNCHANGED <<server, storage, view, excused, told>>

LEMMA FailsCall ==
    ASSUME ConsoleInv, NEW s \in Slots, FailCall(s) \/ WriteFails(s)
    PROVE  Fails(s)
<1>1. CASE FailCall(s)
  <2>1. PICK part \in DOMAIN calls[s].answer, code \in {500, Failure(calls[s].op)} :
           calls[s].answer[part].status = 0 /\ calls' = Reply(s, part, [status |-> code])
    BY <1>1 DEF FailCall
  <2>2. /\ code \in {400, 401, 409, 500} /\ (code = 401 => calls[s].op = "login")
        /\ calls[s].op = "submit" => code = 500
    BY DEF Failure
  <2>3. Busy(s) /\ UNCHANGED <<server, storage, view, excused, told>>
    BY <1>1 DEF FailCall
  <2>4. [status |-> code] \in Refusals /\ [status |-> code].status = code
    BY <2>2 DEF Refusals
  <2> QED
    BY <2>1, <2>2, <2>3, <2>4 DEF Fails
<1>2. CASE WriteFails(s)
  <2>1. CallOK(calls[s]) /\ calls[s].checked
    BY <1>2, SlotFacts DEF WriteFails
  <2>2. "main" \in DOMAIN calls[s].answer /\ calls[s].op = "password"
    BY <2>1 DEF CallOK, PartsOf, Loads
  <2>3. [status |-> 400] \in Refusals /\ [status |-> 400].status = 400
    BY DEF Refusals
  <2> QED
    BY <1>2, <2>2, <2>3 DEF WriteFails, Fails
<1> QED
  BY <1>1, <1>2

LEMMA WriteFacts ==
    ASSUME ConsoleInv, NEW s \in Slots, NEW a \in Outcomes, UpdatePassword(s, a)
    PROVE  /\ Busy(s) /\ calls[s].op = "password" /\ calls[s].by # NoToken
           /\ calls[s].by.user \in Users /\ calls[s].arg.new \in Passwords
           /\ password' = [password EXCEPT ![calls[s].by.user] = calls[s].arg.new]
           /\ told' = [told EXCEPT ![calls[s].by.user] = NoPassword]
           /\ DOMAIN calls' = Slots
           /\ calls'[s] = [calls[s] EXCEPT !.answer["main"] = a]
           /\ \A t \in Slots \ {s} :
                 calls'[t] = IF calls[t].op \in {"password", "login", "register"}
                             THEN [calls[t] EXCEPT !.tainted = TRUE] ELSE calls[t]
           /\ UNCHANGED <<apiKeys, rows, applied, clock, storage, view, excused>>
<1>1. Busy(s) /\ calls[s].checked /\ CallOK(calls[s])
  BY SlotFacts DEF UpdatePassword
<1>2. calls[s].op = "password" /\ calls[s].by # NoToken /\ calls[s].by.user \in Users
      /\ calls[s].arg.new \in Passwords
  BY <1>1 DEF CallOK, ArgOK, Issued, Tokens
<1> QED
  BY <1>1, <1>2 DEF UpdatePassword

LEMMA WriteKeeps ==
    ASSUME ConsoleInv, NEW s \in Slots, NEW a \in Outcomes, UpdatePassword(s, a), owed' = owed
    PROVE  ConsoleInv'
<1>1. TablesOK /\ ViewOK /\ DOMAIN calls = Slots
  BY SlotFacts DEF ConsoleInv
<1>2. ViewOK'
  BY <1>1, WriteFacts DEF ViewOK
<1>3. TablesOK'
  <2>0. /\ calls[s].by.user \in Users /\ calls[s].arg.new \in Passwords
        /\ password' = [password EXCEPT ![calls[s].by.user] = calls[s].arg.new]
        /\ told' = [told EXCEPT ![calls[s].by.user] = NoPassword]
        /\ UNCHANGED <<apiKeys, rows, applied, clock, storage, excused>>
    BY WriteFacts
  <2>1. password' \in [Users -> Secrets] /\ told' \in [Users -> Secrets]
    BY <1>1, <2>0 DEF TablesOK, Secrets
  <2>2. (storage = NoToken \/ Issued(storage))'
    BY <1>1, <2>0 DEF TablesOK, Issued
  <2> QED
    BY <1>1, <2>0, <2>1, <2>2 DEF TablesOK
<1>4. (Sound(calls[s]) /\ Fits(calls[s], view.page))'
  <2>1. PICK c : c = calls[s]
    OBVIOUS
  <2>2. PICK d : d = calls'[s]
    OBVIOUS
  <2>3. Sound(c) /\ CallOK(c) /\ c.op = "password" /\ c.by # NoToken /\ Fits(c, view.page)
    BY <2>1, SlotFacts, WriteFacts
  <2>4. /\ UNCHANGED <<apiKeys, rows, clock, view>>
        /\ d = [c EXCEPT !.answer["main"] = a]
        /\ password' = [password EXCEPT ![c.by.user] = c.arg.new] /\ c.by.user \in Users
    BY <2>1, <2>2, WriteFacts
  <2>5. DOMAIN c = Fields /\ DOMAIN c.answer = {"main"}
    BY <2>3 DEF CallOK, PartsOf, Loads
  <2>6. /\ DOMAIN d = Fields /\ d.op = c.op /\ d.arg = c.arg /\ d.by = c.by /\ d.home = c.home
        /\ d.checked = c.checked /\ d.tainted = c.tainted
        /\ DOMAIN d.answer = DOMAIN c.answer /\ d.answer["main"].status \in {200, 500}
    BY <2>4, <2>5 DEF Fields, Outcomes
  <2>7. password'[c.by.user] = c.arg.new
    BY <1>1, <2>4 DEF TablesOK
  <2>8. Sound(d)'
    BY <1>1, <2>3, <2>4, <2>6, <2>7, WrittenSound
  <2> QED
    BY <2>2, <2>3, <2>4, <2>6, <2>8 DEF Fits
<1>5. ASSUME NEW t \in Slots \ {s}
      PROVE  (calls[t] = Idle \/ (Sound(calls[t]) /\ Fits(calls[t], view.page)))'
  <2>1. PICK c : c = calls[t]
    OBVIOUS
  <2>2. PICK d : d = calls'[t]
    OBVIOUS
  <2>3. c = Idle \/ (Sound(c) /\ Fits(c, view.page))
    BY <2>1, SlotFacts
  <2>4. UNCHANGED <<apiKeys, rows, clock, view>>
        /\ d = IF c.op \in {"password", "login", "register"} THEN [c EXCEPT !.tainted = TRUE] ELSE c
    BY <2>1, <2>2, WriteFacts
  <2>5. CASE c = Idle
    BY <2>2, <2>4, <2>5, IdleFacts DEF Idle
  <2>6. CASE c # Idle /\ c.op \in {"password", "login", "register"}
    <3>1. Sound(d) /\ d.tainted
      BY <2>3, <2>4, <2>6, TaintSound
    <3>2. d.op = c.op /\ d.home = c.home
      BY <2>3, <2>4, <2>6 DEF Sound, CallOK, Fields
    <3>3. Sound(d)'
      BY <2>4, <3>1, SoundDespiteWrite
    <3> QED
      BY <2>2, <2>3, <2>4, <2>6, <3>2, <3>3 DEF Fits
  <2>7. CASE c # Idle /\ c.op \notin {"password", "login", "register"}
    <3>1. Sound(c)' /\ d = c
      BY <2>3, <2>4, <2>7, SoundDespiteWrite
    <3> QED
      BY <2>2, <2>3, <2>4, <2>7, <3>1 DEF Fits
  <2> QED
    BY <2>5, <2>6, <2>7
<1>6. DOMAIN calls' = Slots
  BY WriteFacts
<1>7. CallsSound'
  BY <1>4, <1>5, <1>6 DEF CallsSound
<1> QED
  BY <1>2, <1>3, <1>7 DEF ConsoleInv

Pages == {"login", "dashboard", "admin"}

LEMMA FreshFacts ==
    ASSUME NEW page \in Pages, view' = FreshView(page)
    PROVE  ViewOK' /\ view'.page = page /\ ~Loaded'
           /\ (page = "admin" => \A f \in Forms : ~view'.filled[f])
<1>1. CASE page = "login"
  BY <1>1 DEF FreshView, ViewOK, Loaded
<1>2. CASE page = "dashboard"
  BY <1>2 DEF FreshView, ViewOK, Loaded
<1>3. CASE page = "admin"
  BY <1>3 DEF FreshView, ViewOK, Loaded
<1> QED
  BY <1>1, <1>2, <1>3 DEF Pages

\* A call without an argument.
LEMMA PlainCall ==
    ASSUME NEW op \in PlainOps, NEW home \in Homes,
           NEW token, token = NoToken \/ Issued(token),
           NEW c, c = NewCall(op, Nothing, home, token)
    PROVE  Sound(c) /\ ~Read(c) /\ c.op = op /\ c.home = home
           /\ \A p \in DOMAIN c.answer : c.answer[p] = Pending
<1>1. PICK arg : arg = Nothing
  OBVIOUS
<1>2. op \in CallOps /\ ArgOK(op, arg)
  BY DEF PlainOps, CallOps, ArgOK, Sessionless, PageOps, PanelOps
<1>3. c = NewCall(op, arg, home, token)
  BY <1>1
<1> QED
  BY <1>2, <1>3, NewSound

LEMMA MountFacts ==
    ASSUME NEW page \in Pages, NEW token, token = NoToken \/ Issued(token),
           NEW c, c = MountCall(page, token)
    PROVE  c = Idle \/ /\ Sound(c) /\ Fits(c, Landing(page, token)) /\ c.home = "page"
                       /\ c.op = IF page = "dashboard" THEN "load" ELSE "me"
<1>1. CASE Landing(page, token) = "login"
  BY <1>1 DEF MountCall
<1>2. CASE Landing(page, token) # "login"
  <2>1. PICK op : op = IF page = "dashboard" THEN "load" ELSE "me"
    OBVIOUS
  <2>2. c = NewCall(op, Nothing, "page", token) /\ page \in {"dashboard", "admin"}
        /\ Landing(page, token) = page
    BY <1>2, <2>1 DEF MountCall, Landing, Pages
  <2>3. PICK home \in Homes : home = "page"
    BY DEF Homes
  <2>4. c = NewCall(op, Nothing, home, token) /\ op \in PlainOps
    BY <2>1, <2>2, <2>3 DEF PlainOps
  <2>5. Sound(c) /\ c.op = op /\ c.home = home
    BY <2>4, PlainCall
  <2> QED
    BY <2>1, <2>2, <2>3, <2>5 DEF Fits, Offers, Sessionless, PageOps, PanelOps
<1> QED
  BY <1>1, <1>2

\* Steps that leave the tables alone.
LEMMA QuietTables ==
    ASSUME ConsoleInv, UNCHANGED server,
           storage' \in {storage, NoToken} \/ Issued(storage'), excused' \in BOOLEAN,
           told' \in [Users -> Secrets], owed' \in [Forms -> Nat]
    PROVE  TablesOK' /\ Grow /\ shown' = shown
<1>1. TablesOK /\ UNCHANGED <<password, apiKeys, rows, applied, clock>>
  BY DEF ConsoleInv, server, tables
<1>2. (storage = NoToken \/ Issued(storage))'
  BY <1>1 DEF TablesOK, Issued
<1>3. TablesOK'
  BY <1>1, <1>2 DEF TablesOK
<1>4. Grow
  BY <1>1, MaxClockAssumption DEF Grow, TablesOK
<1> QED
  BY <1>1, <1>3, <1>4 DEF shown

LEMMA QuietKeeps ==
    ASSUME ConsoleInv, UNCHANGED server,
           storage' \in {storage, NoToken} \/ Issued(storage'), excused' \in BOOLEAN,
           told' \in [Users -> Secrets], owed' \in [Forms -> Nat],
           ViewOK', shown' = shown => CallsKept
    PROVE  ConsoleInv'
  BY QuietTables, Kept

\* Most steps change neither the session nor its histories.
LEMMA QuietlyKeeps ==
    ASSUME ConsoleInv, Quietly, owed' \in [Forms -> Nat], ViewOK', shown' = shown => CallsKept
    PROVE  ConsoleInv'
<1>1. /\ UNCHANGED server /\ storage' \in {storage, NoToken}
      /\ excused' \in BOOLEAN /\ told' \in [Users -> Secrets]
  BY DEF Quietly, ConsoleInv, TablesOK
<1> QED
  BY <1>1, QuietKeeps

LEMMA PushFacts ==
    ASSUME ConsoleInv, NEW s \in Slots, NEW page \in {"login", "dashboard"},
           NEW token, token = NoToken \/ Issued(token), Push(s, page, token), shown' = shown
    PROVE  ViewOK' /\ CallsKept
<1> DEFINE to == Landing(page, token)
<1>1. to \in {"login", "dashboard"} /\ page \in Pages
  BY DEF Landing, Pages
<1>2. CASE view.page = to
  <2>1. view' = view /\ calls' = [calls EXCEPT ![s] = Idle]
    BY <1>2 DEF Push
  <2>2. ViewOK'
    BY <2>1 DEF ConsoleInv, ViewOK
  <2> QED
    BY <2>1, <2>2, PutsCall
<1>3. CASE view.page # to
  <2>1. view' = FreshView(to) /\ calls' = [Left EXCEPT ![s] = MountCall(page, token)]
    BY <1>3 DEF Push, Left
  <2>2. ViewOK' /\ view'.page = to
    BY <1>1, <2>1, FreshFacts DEF Pages
  <2>3. PICK c : c = MountCall(page, token)
    OBVIOUS
  <2>4. c = Idle \/ (Sound(c) /\ Fits(c, to))
    BY <1>1, <2>3, MountFacts
  <2>5. CallsKept
    BY <2>1, <2>2, <2>3, <2>4, LeavesPage
  <2> QED
    BY <2>2, <2>5
<1> QED
  BY <1>2, <1>3

LEMMA VisitKeeps ==
    ASSUME ConsoleInv, NEW page \in Pages, Visit(page), owed' = owed
    PROVE  ConsoleInv'
<1>1. storage = NoToken \/ Issued(storage)
  BY DEF ConsoleInv, TablesOK
<1>2. PICK s \in Slots : calls' = [Aborted(calls) EXCEPT ![s] = MountCall(page, storage)]
  BY DEF Visit
<1>3. view' = FreshView(Landing(page, storage)) /\ Landing(page, storage) \in Pages
  BY DEF Visit, Landing, Pages
<1>4. ViewOK' /\ view'.page = Landing(page, storage)
  BY <1>3, FreshFacts
<1>5. PICK c : c = MountCall(page, storage)
  OBVIOUS
<1>6. c = Idle \/ (Sound(c) /\ Fits(c, view'.page))
  BY <1>1, <1>4, <1>5, MountFacts
<1>7. shown' = shown => CallsKept
  BY <1>2, <1>5, <1>6, AbortsCalls
<1>8. /\ UNCHANGED server /\ storage' \in {storage, NoToken} /\ excused' \in BOOLEAN
      /\ told' \in [Users -> Secrets] /\ owed' \in [Forms -> Nat]
  BY DEF Visit, ConsoleInv, TablesOK
<1> QED
  BY <1>4, <1>7, <1>8, QuietKeeps

LEMMA LeaveKeeps ==
    ASSUME ConsoleInv, LeaveSession, UNCHANGED <<server, excused, told, disturbances, history>>
    PROVE  ConsoleInv'
<1>1. view' = FreshView("login") /\ storage' = NoToken /\ calls' = Aborted(calls)
  BY DEF LeaveSession
<1>2. ViewOK'
  BY <1>1, FreshFacts DEF Pages
<1>3. shown' = shown => CallsKept
  BY <1>1, AbortsCalls
<1>4. /\ UNCHANGED server /\ storage' \in {storage, NoToken} /\ excused' \in BOOLEAN
      /\ told' \in [Users -> Secrets] /\ owed' \in [Forms -> Nat]
  BY <1>1 DEF ConsoleInv, TablesOK, history
<1> QED
  BY <1>2, <1>3, <1>4, QuietKeeps

LEMMA ClickFacts ==
    ASSUME ConsoleInv, NEW op \in CallOps, NEW arg, ArgOK(op, arg), Click(op, arg)
    PROVE  \E s \in Slots : \E c :
              /\ calls[s] = Idle /\ calls' = [calls EXCEPT ![s] = c]
              /\ Sound(c) /\ c.op = op /\ c.arg = arg /\ c.home = "page"
              /\ \A p \in DOMAIN c.answer : c.answer[p] = Pending
<1>1. PICK s \in Slots : ~Busy(s) /\ calls' = [calls EXCEPT ![s] = NewCall(op, arg, "page", storage)]
  BY DEF Click, InUse
<1>2. PICK home \in Homes : home = "page"
  BY DEF Homes
<1>3. PICK c : c = NewCall(op, arg, home, storage)
  OBVIOUS
<1>4. storage = NoToken \/ Issued(storage)
  BY DEF ConsoleInv, TablesOK
<1>5. PICK token : token = storage
  OBVIOUS
<1>6. /\ Sound(c) /\ c.op = op /\ c.arg = arg /\ c.home = home
      /\ \A p \in DOMAIN c.answer : c.answer[p] = Pending
  BY <1>3, <1>4, <1>5, NewSound
<1>7. calls[s] = Idle
  BY <1>1, SlotFacts
<1> QED
  BY <1>1, <1>2, <1>3, <1>6, <1>7

LEMMA ClickKeeps ==
    ASSUME ConsoleInv, NEW op \in CallOps, NEW arg, ArgOK(op, arg), Click(op, arg),
           Offers(view.page, op), view'.page = view.page, ViewOK', owed' \in [Forms -> Nat], Quietly
    PROVE  ConsoleInv'
<1>0. PICK s \in Slots : \E c : /\ calls' = [calls EXCEPT ![s] = c]
                                 /\ Sound(c) /\ c.op = op /\ c.home = "page"
  BY ClickFacts
<1>1. PICK c : calls' = [calls EXCEPT ![s] = c] /\ Sound(c) /\ c.op = op /\ c.home = "page"
  BY <1>0
<1>2. Fits(c, view.page)
  BY <1>1 DEF Fits
<1>3. shown' = shown => CallsKept
  BY <1>1, <1>2, PutsCall
<1> QED
  BY <1>3, QuietlyKeeps

LEMMA EndKeeps ==
    ASSUME ConsoleInv, NEW s \in Slots, calls' = [calls EXCEPT ![s] = Idle],
           view'.page = view.page, ViewOK', owed' \in [Forms -> Nat], Quietly
    PROVE  ConsoleInv'
<1>1. shown' = shown => CallsKept
  BY PutsCall
<1> QED
  BY <1>1, QuietlyKeeps

LEMMA RemainderFacts ==
    ASSUME ConsoleInv, NEW s \in Slots, Busy(s), calls[s].op \in Loads, NEW c, c = Remainder(s)
    PROVE  c = Idle \/ (Sound(c) /\ c.op = "settled" /\ \A page : Fits(c, page))
<1>1. Sound(calls[s]) /\ DOMAIN calls[s] = Fields
  BY SlotFacts DEF CallOK
<1>2. CASE Answered(s)
  BY <1>2 DEF Remainder
<1>3. CASE ~Answered(s)
  <2>1. c = [calls[s] EXCEPT !.op = "settled"]
    BY <1>3 DEF Remainder
  <2>2. Sound(c)
    BY <1>1, <2>1, SettledSound
  <2>3. c.op = "settled"
    BY <1>1, <2>1 DEF Fields
  <2> QED
    BY <2>2, <2>3 DEF Fits, Offers, Sessionless, PageOps, PanelOps
<1> QED
  BY <1>2, <1>3

LEMMA LoadFailsKeeps ==
    ASSUME ConsoleInv, NEW s \in Slots, Busy(s), LoadFails(s)
    PROVE  ConsoleInv'
<1>1. PICK c : c = Remainder(s)
  OBVIOUS
<1>2. c = Idle \/ (Sound(c) /\ \A page : Fits(c, page))
  BY <1>1, RemainderFacts DEF LoadFails
<1>3. DOMAIN calls = Slots /\ ViewOK
  BY SlotFacts DEF ConsoleInv
<1>4. ViewOK' /\ (shown' = shown => CallsKept) /\ excused' \in BOOLEAN
  <2>1. CASE calls[s].op = "load" /\ ~On("login")
    <3>1. /\ view' = FreshView("login") /\ excused' = excused
          /\ calls' = [t \in Slots |-> IF t = s THEN c ELSE Left[t]]
      BY <1>1, <2>1 DEF LoadFails, Left
    <3>2. DOMAIN Left = Slots
      BY DEF Left
    <3>3. calls' = [Left EXCEPT ![s] = c]
      BY <3>1, <3>2
    <3>4. ViewOK' /\ excused' \in BOOLEAN
      BY <3>1, FreshFacts DEF Pages, ConsoleInv, TablesOK
    <3> QED
      BY <1>2, <3>3, <3>4, LeavesPage
  <2>2. CASE ~(calls[s].op = "load" /\ ~On("login"))
    <3>1. /\ excused' = TRUE /\ calls' = [calls EXCEPT ![s] = c]
          /\ view' = IF On("admin") THEN [view EXCEPT !.error = TRUE] ELSE view
      BY <1>1, <2>2 DEF LoadFails
    <3>2. ViewOK' /\ view'.page = view.page
      BY <1>3, <3>1 DEF ViewOK, On
    <3> QED
      BY <1>2, <3>1, <3>2, PutsCall
  <2> QED
    BY <2>1, <2>2
<1>5. /\ UNCHANGED server /\ storage' \in {storage, NoToken}
      /\ told' \in [Users -> Secrets] /\ owed' \in [Forms -> Nat]
  BY DEF LoadFails, ConsoleInv, TablesOK, history
<1> QED
  BY <1>4, <1>5, QuietKeeps

LEMMA FailsKeeps ==
    ASSUME ConsoleInv, NEW s \in Slots, Fails(s), owed' = owed
    PROVE  ConsoleInv'
<1>1. PICK part \in DOMAIN calls[s].answer, a \in Refusals :
         (a.status = 401 => calls[s].op = "login") /\ calls' = Reply(s, part, a)
  BY DEF Fails
<1>2. PICK c : c = calls[s]
  OBVIOUS
<1>3. PICK d : d = [c EXCEPT !.answer[part] = a]
  OBVIOUS
<1>4. Sound(c) /\ Fits(c, view.page) /\ DOMAIN calls = Slots /\ ViewOK
  BY <1>2, SlotFacts DEF Fails, ConsoleInv
<1>5. Sound(d) /\ d.op = c.op /\ d.home = c.home
  BY <1>1, <1>2, <1>3, <1>4, FailedSound
<1>6. Fits(d, view.page)
  BY <1>4, <1>5 DEF Fits
<1>7. calls' = [calls EXCEPT ![s] = d]
  BY <1>1, <1>2, <1>3 DEF Reply
<1>8. view' = view /\ ViewOK'
  BY <1>4 DEF Fails, ViewOK
<1>9. shown' = shown => CallsKept
  BY <1>5, <1>6, <1>7, <1>8, PutsCall
<1>10. /\ UNCHANGED server /\ storage' \in {storage, NoToken} /\ excused' \in BOOLEAN
       /\ told' \in [Users -> Secrets] /\ owed' \in [Forms -> Nat]
  BY DEF Fails, ConsoleInv, TablesOK
<1> QED
  BY <1>8, <1>9, <1>10, QuietKeeps

LEMMA SignedInFacts ==
    ASSUME ConsoleInv, NEW s \in Slots, Busy(s), SignedIn(s)
    PROVE  /\ Issued(storage') /\ storage' # NoToken
           /\ storage'.user = calls[s].arg.user /\ calls[s].arg.user \in Users
           /\ calls[s].arg.password \in Passwords
           /\ ~calls[s].tainted => password[calls[s].arg.user] = calls[s].arg.password
           /\ told' = [told EXCEPT ![calls[s].arg.user] =
                          IF calls[s].tainted THEN NoPassword ELSE calls[s].arg.password]
           /\ Push(s, "dashboard", storage')
<1>1. Sound(calls[s]) /\ CallOK(calls[s]) /\ PasswordOK(calls[s])
  BY SlotFacts DEF Sound
<1>2. calls[s].op \in Sessionless /\ Succeeded(s) /\ storage' = calls[s].answer["main"].body
  BY DEF SignedIn
<1>3. DOMAIN calls[s].answer = {"main"}
  BY <1>1, <1>2 DEF CallOK, PartsOf, Sessionless, Loads
<1>4. Good(calls[s].answer["main"])
  BY <1>2, <1>3 DEF Succeeded, Good
<1>5. /\ Issued(storage') /\ storage'.user = calls[s].arg.user
      /\ ~calls[s].tainted => password[calls[s].arg.user] = calls[s].arg.password
  BY <1>1, <1>2, <1>4 DEF PasswordOK
<1>6. calls[s].arg.user \in Users /\ calls[s].arg.password \in Passwords
  BY <1>1, <1>2 DEF CallOK, ArgOK
<1>7. storage' # NoToken
  BY <1>5, TokensAssumption DEF Issued
<1> QED
  BY <1>2, <1>5, <1>6, <1>7 DEF SignedIn

LEMMA ConsoleInit ==
    ASSUME Init
    PROVE  ConsoleInv
<1>1. TablesOK
  <2>1. password \in [Users -> Secrets] /\ told \in [Users -> Secrets]
    BY PasswordsAssumption DEF Init, AccountsInit, Secrets
  <2>2. apiKeys \in Seq(KeyRows) /\ applied \in [Forms -> Nat] /\ owed \in [Forms -> Nat]
    BY DEF Init, AccountsInit
  <2>3. clock \in 0 .. MaxClock /\ storage = NoToken
    BY MaxClockAssumption DEF Init, AccountsInit
  <2>4. excused \in BOOLEAN
    BY DEF Init
  <2> QED
    BY <2>1, <2>2, <2>3, <2>4 DEF TablesOK
<1>2. ViewOK
  BY DEF Init, FreshView, ViewOK
<1>3. CallsSound
  BY DEF Init, CallsSound
<1> QED
  BY <1>1, <1>2, <1>3 DEF ConsoleInv

\* The continuations.
LEMMA ContinueKeeps ==
    ASSUME ConsoleInv, NEW s \in Slots, Continue(s)
    PROVE  ConsoleInv'
<1>1. /\ Busy(s) /\ calls[s].home # "gone" /\ CallOK(calls[s]) /\ Sound(calls[s])
      /\ Fits(calls[s], view.page) /\ ViewOK /\ TablesOK /\ DOMAIN calls = Slots
  BY SlotFacts DEF Continue, ConsoleInv
<1>2. CASE SignedIn(s)
  <2>1. PICK token : token = storage'
    OBVIOUS
  <2>2. Issued(token) /\ Push(s, "dashboard", token)
    BY <1>1, <1>2, <2>1, SignedInFacts
  <2>3. PICK page \in {"login", "dashboard"} : page = "dashboard"
    OBVIOUS
  <2>4. shown' = shown => ViewOK' /\ CallsKept
    BY <2>2, <2>3, PushFacts
  <2>5. UNCHANGED server /\ excused' \in BOOLEAN /\ owed' \in [Forms -> Nat]
    BY <1>1, <1>2 DEF SignedIn, TablesOK, history
  <2>6. told' \in [Users -> Secrets]
    <3>1. PICK p \in Secrets : told' = [told EXCEPT ![calls[s].arg.user] = p]
      BY <1>1, <1>2, SignedInFacts DEF Secrets
    <3> QED
      BY <1>1, <3>1 DEF TablesOK
  <2>7. shown' = shown
    BY <2>5 DEF server, tables, shown
  <2> QED
    BY <2>1, <2>2, <2>4, <2>5, <2>6, <2>7, QuietKeeps
<1>3. CASE SignInFails(s)
  <2>1. view'.page = view.page /\ ViewOK'
    BY <1>1, <1>3 DEF SignInFails, On, ViewOK
  <2> QED
    BY <1>1, <1>3, <2>1, EndKeeps DEF SignInFails, TablesOK, history
<1>4. CASE KnowMe(s)
  <2>1. Quietly /\ owed' \in [Forms -> Nat] /\ shown' = shown
    BY <1>1, <1>4 DEF KnowMe, history, TablesOK, Quietly, server, tables, shown
  <2>2. storage = NoToken \/ Issued(storage)
    BY <1>1 DEF TablesOK
  <2>3. CASE Succeeded(s) /\ calls[s].answer["main"].body \in Admins
    <3>1. PICK home \in Homes : home = calls[s].home
      BY <1>1 DEF CallOK
    <3>2. PICK op \in PlainOps : op = "loadAll"
      BY DEF PlainOps
    <3>3. PICK token : token = storage
      OBVIOUS
    <3>4. PICK c : c = NewCall(op, Nothing, home, token)
      OBVIOUS
    <3>5. view' = view /\ calls' = [calls EXCEPT ![s] = c]
      BY <1>4, <2>3, <3>1, <3>2, <3>3, <3>4 DEF KnowMe
    <3>6. Sound(c) /\ c.op = op /\ c.home = home
      BY <2>2, <3>3, <3>4, PlainCall
    <3>7. Fits(c, view.page)
      BY <1>1, <1>4, <3>1, <3>2, <3>6 DEF Fits, Offers, KnowMe, Sessionless, PageOps, PanelOps
    <3>8. ViewOK'
      BY <1>1, <3>5 DEF ViewOK
    <3> QED
      BY <2>1, <3>5, <3>6, <3>7, <3>8, PutsCall, QuietlyKeeps
  <2>4. CASE ~(Succeeded(s) /\ calls[s].answer["main"].body \in Admins)
    <3>1. PICK page \in {"login", "dashboard"} : Push(s, page, storage)
      BY <1>4, <2>4 DEF KnowMe
    <3>2. PICK token : token = storage
      OBVIOUS
    <3>3. ViewOK' /\ CallsKept
      BY <2>1, <2>2, <3>1, <3>2, PushFacts
    <3> QED
      BY <2>1, <3>3, QuietlyKeeps
  <2> QED
    BY <2>3, <2>4
<1>5. CASE LoadSucceeds(s)
  <2>1. /\ UNCHANGED server /\ storage' \in {storage, NoToken} /\ excused' \in BOOLEAN
        /\ told' \in [Users -> Secrets] /\ owed' \in [Forms -> Nat]
    BY <1>1, <1>5 DEF LoadSucceeds, TablesOK, CallOK, history
  <2>2. view'.page = view.page /\ ViewOK'
    BY <1>1, <1>5 DEF LoadSucceeds, ShowData, ViewOK, Fits, Offers, Loads, PageOps, PanelOps
  <2>3. shown' = shown => CallsKept
    BY <1>5, <2>2, PutsCall DEF LoadSucceeds
  <2> QED
    BY <2>1, <2>2, <2>3, QuietKeeps
<1>6. CASE LoadFails(s)
  BY <1>1, <1>6, LoadFailsKeeps
<1>7. CASE SettledEnds(s)
  <2>1. view'.page = view.page /\ ViewOK'
    BY <1>1, <1>7 DEF SettledEnds, ViewOK
  <2> QED
    BY <1>1, <1>7, <2>1, EndKeeps DEF SettledEnds, TablesOK, history
<1>8. CASE ChangeSucceeds(s)
  <2>1. Quietly /\ owed' \in [Forms -> Nat]
    BY <1>1, <1>8 DEF ChangeSucceeds, history, TablesOK
  <2>2. storage = NoToken \/ Issued(storage)
    BY <1>1 DEF TablesOK
  <2>3. PICK home \in Homes : home = calls[s].home
    BY <1>1 DEF CallOK
  <2>4. PICK op \in PlainOps : op = IF calls[s].op \in AdminOps THEN "loadAll" ELSE "load"
    BY DEF PlainOps
  <2>5. PICK token : token = storage
    OBVIOUS
  <2>6. PICK c : c = NewCall(op, Nothing, home, token)
    OBVIOUS
  <2>7. calls' = [calls EXCEPT ![s] = c] /\ view' = Cleared(calls[s])
    BY <1>8, <2>3, <2>4, <2>5, <2>6 DEF ChangeSucceeds, Reload
  <2>8. Sound(c) /\ c.op = op /\ c.home = home
    BY <2>2, <2>5, <2>6, PlainCall
  <2>9. calls[s].op \in {"create", "delete", "toggle", "submit"}
    BY <1>8 DEF ChangeSucceeds
  <2>10. Fits(c, view.page)
    BY <1>1, <2>3, <2>4, <2>8, <2>9 DEF Fits, Offers, AdminOps, Sessionless, PageOps, PanelOps
  <2>11. view'.page = view.page /\ ViewOK'
    BY <1>1, <2>7 DEF Cleared, ViewOK, Fits, Offers, PanelOps
  <2> QED
    BY <2>1, <2>7, <2>8, <2>10, <2>11, PutsCall, QuietlyKeeps
<1>9. CASE ChangeFails(s)
  <2>1. view'.page = view.page /\ ViewOK'
    BY <1>1, <1>9 DEF ChangeFails, ViewOK
  <2>2. owed' \in [Forms -> Nat]
    BY <1>1, <1>9 DEF ChangeFails, TablesOK, CallOK, ArgOK
  <2> QED
    BY <1>9, <2>1, <2>2, EndKeeps DEF ChangeFails
<1>10. CASE PasswordAnswered(s)
  <2>1. /\ UNCHANGED server /\ storage' \in {storage, NoToken} /\ excused' \in BOOLEAN
        /\ owed' \in [Forms -> Nat]
    BY <1>1, <1>10 DEF PasswordAnswered, TablesOK, history
  <2>2. told' \in [Users -> Secrets]
    <3>1. calls[s].arg.new \in Secrets
      BY <1>1, <1>10 DEF PasswordAnswered, CallOK, ArgOK, Secrets
    <3> QED
      BY <1>1, <1>10, <3>1 DEF PasswordAnswered, TablesOK
  <2>3. view'.page = view.page /\ ViewOK' /\ calls' = [calls EXCEPT ![s] = Idle]
    BY <1>1, <1>10 DEF PasswordAnswered, ViewOK
  <2> QED
    BY <2>1, <2>2, <2>3, PutsCall, QuietKeeps
<1> QED
  BY <1>2, <1>3, <1>4, <1>5, <1>6, <1>7, <1>8, <1>9, <1>10 DEF Continue

\* What the user does.
LEMMA UserKeeps ==
    ASSUME ConsoleInv, User
    PROVE  ConsoleInv'
<1>1. ViewOK /\ TablesOK /\ DOMAIN calls = Slots /\ owed \in [Forms -> Nat]
  BY DEF ConsoleInv, TablesOK, CallsSound
<1>2. ASSUME NEW u \in Visitors, NEW p \in Typed, NEW op \in Sessionless, SubmitLogin(op, u, p)
      PROVE  ConsoleInv'
  <2>1. PICK arg : arg = [user |-> u, password |-> p]
    OBVIOUS
  <2>2. u \in Users /\ p \in Passwords
    BY PasswordsAssumption DEF Visitors, Typed
  <2>3. op \in CallOps /\ ArgOK(op, arg)
    BY <2>1, <2>2 DEF CallOps, ArgOK, Sessionless
  <2>4. Click(op, arg) /\ Quietly /\ owed' = owed
    BY <1>2, <2>1 DEF SubmitLogin, history
  <2>5. view'.page = view.page /\ ViewOK' /\ view.page = "login"
    BY <1>1, <1>2 DEF SubmitLogin, LoginForm, On, ViewOK
  <2>6. Offers(view.page, op)
    BY <2>5 DEF Offers, Sessionless, PageOps, PanelOps
  <2> QED
    BY <1>1, <2>3, <2>4, <2>5, <2>6, ClickKeeps
<1>3. ASSUME NEW op \in {"create", "delete", "password", "toggle", "submit"}, NEW arg, ArgOK(op, arg),
             Click(op, arg), Quietly, view' = view, owed' \in [Forms -> Nat],
             view.page = IF op \in {"toggle", "submit"} THEN "admin" ELSE "dashboard"
      PROVE  ConsoleInv'
  <2>1. op \in CallOps /\ Offers(view.page, op)
    BY <1>3 DEF CallOps, Offers, Sessionless, PageOps, PanelOps
  <2>2. view'.page = view.page /\ ViewOK'
    BY <1>1, <1>3 DEF ViewOK
  <2> QED
    BY <1>3, <2>1, <2>2, ClickKeeps
<1>4. CASE CreateKey
  <2>1. ArgOK("create", Nothing)
    BY DEF ArgOK, Sessionless
  <2> QED
    BY <1>1, <1>3, <1>4, <2>1 DEF CreateKey, KeysTab, On, history
<1>5. CASE DeleteKey
  <2>1. PICK k \in KeysShown : Click("delete", [key |-> k])
    BY <1>5 DEF DeleteKey
  <2>2. ArgOK("delete", [key |-> k])
    BY DEF ArgOK, Sessionless
  <2> QED
    BY <1>1, <1>3, <1>5, <2>1, <2>2 DEF DeleteKey, KeysTab, On, history
<1>6. ASSUME NEW old \in Passwords, NEW new \in Passwords, ChangePassword(old, new)
      PROVE  ConsoleInv'
  <2>1. ArgOK("password", [old |-> old, new |-> new])
    BY DEF ArgOK, Sessionless
  <2> QED
    BY <1>1, <1>3, <1>6, <2>1 DEF ChangePassword, SettingsTab, On, history
<1>7. ASSUME NEW r \in Rows, Toggle(r)
      PROVE  ConsoleInv'
  <2>1. ArgOK("toggle", [row |-> r, value |-> ~view.table[r]])
    BY DEF ArgOK, Sessionless
  <2> QED
    BY <1>1, <1>3, <1>7, <2>1 DEF Toggle, Switches, On, history
<1>8. ASSUME NEW f \in Forms, Fill(f)
      PROVE  ConsoleInv'
  <2>1. owed' \in [Forms -> Nat] /\ Quietly /\ calls' = calls
    BY <1>1, <1>8 DEF Fill
  <2>2. view'.page = view.page /\ ViewOK'
    BY <1>1, <1>8 DEF Fill, FormPanel, On, ViewOK
  <2> QED
    BY <2>1, <2>2, KeepsCalls, QuietlyKeeps
<1>9. ASSUME NEW f \in Forms, Submit(f)
      PROVE  ConsoleInv'
  <2>1. ArgOK("submit", [form |-> f])
    BY DEF ArgOK, Sessionless
  <2>2. owed' \in [Forms -> Nat]
    BY <1>1, <1>9 DEF Submit
  <2> QED
    BY <1>1, <1>3, <1>9, <2>1, <2>2 DEF Submit, FormPanel, On
<1>10. CASE Logout
  BY <1>10, LeaveKeeps DEF Logout
<1>11. ASSUME NEW page \in Pages, Visit(page), UNCHANGED history
       PROVE  ConsoleInv'
  BY <1>11, VisitKeeps DEF history
<1>12. CASE \E page \in {"login", "dashboard"} : Visit(page) /\ UNCHANGED history
  BY <1>11, <1>12 DEF Pages
<1>13. CASE Visit("admin") /\ UNCHANGED history
  BY <1>11, <1>13 DEF Pages
<1> QED
  BY <1>2, <1>4, <1>5, <1>6, <1>7, <1>8, <1>9, <1>10, <1>12, <1>13 DEF User

LEMMA ClientFacts ==
    ASSUME ConsoleInv, NEW u \in Users, OtherClient(u)
    PROVE  /\ Grow /\ apiKeys' \in Seq(KeyRows)
           /\ calls' = Taint(calls) /\ excused'
           /\ UNCHANGED <<password, applied, clock, storage, view, told>>
<1>1. TablesOK
  BY DEF ConsoleInv
<1>2. /\ apiKeys' \in Seq(KeyRows)
      /\ \A k \in DOMAIN apiKeys : k \in DOMAIN apiKeys' /\ apiKeys'[k].owner = apiKeys[k].owner
  BY <1>1, DeactivateFacts DEF OtherClient, TablesOK
<1> QED
  BY <1>1, <1>2, MaxClockAssumption DEF OtherClient, Grow, TablesOK

LEMMA OthersKeep ==
    ASSUME ConsoleInv, Others
    PROVE  ConsoleInv'
<1>1. ViewOK /\ TablesOK /\ DOMAIN calls = Slots
  BY DEF ConsoleInv, CallsSound
<1>2. UNCHANGED history /\ owed' = owed /\ owed' \in [Forms -> Nat]
  BY <1>1 DEF Others, history, TablesOK
<1>3. ASSUME NEW s \in Slots, FailCall(s) \/ WriteFails(s)
      PROVE  ConsoleInv'
  BY <1>2, <1>3, FailsCall, FailsKeeps
<1>9. ASSUME NEW s \in Slots, WriteAndLose(s)
      PROVE  ConsoleInv'
  BY <1>2, <1>9, WritesPassword, WriteKeeps DEF Writes
<1>4. ASSUME NEW s \in Slots, ServeAndLose(s)
      PROVE  ConsoleInv'
  <2>1. PICK lost \in BOOLEAN : lost = TRUE
    OBVIOUS
  <2>2. PICK part \in DOMAIN calls[s].answer : Handle(s, part, lost)
    BY <1>4, <2>1 DEF ServeAndLose
  <2> QED
    BY <1>2, <1>4, <2>2, HandleKeeps DEF ServeAndLose
<1>5. ASSUME NEW u \in Users, OtherTabSignsIn(u)
      PROVE  ConsoleInv'
  <2>1. Issued(storage')
    BY <1>1, <1>5, MaxClockAssumption DEF OtherTabSignsIn, Generate, Issued, Tokens, TablesOK
  <2>2. /\ UNCHANGED server /\ excused' \in BOOLEAN /\ told' \in [Users -> Secrets]
        /\ calls' = calls /\ view' = view
    BY <1>1, <1>5 DEF OtherTabSignsIn, TablesOK
  <2>3. ViewOK'
    BY <1>1, <2>2 DEF ViewOK
  <2> QED
    BY <1>2, <2>1, <2>2, <2>3, KeepsCalls, QuietKeeps
<1>6. CASE OtherTabSignsOut
  <2>1. /\ UNCHANGED server /\ excused' \in BOOLEAN /\ told' \in [Users -> Secrets]
        /\ calls' = calls /\ view' = view /\ storage' \in {storage, NoToken}
    BY <1>1, <1>6 DEF OtherTabSignsOut, TablesOK
  <2>2. ViewOK'
    BY <1>1, <2>1 DEF ViewOK
  <2> QED
    BY <1>2, <2>1, <2>2, KeepsCalls, QuietKeeps
<1>7. ASSUME NEW u \in Users, OtherClient(u)
      PROVE  ConsoleInv'
  <2>1. /\ Grow /\ apiKeys' \in Seq(KeyRows) /\ calls' = Taint(calls) /\ excused'
        /\ UNCHANGED <<password, applied, clock, storage, view, told>>
    BY <1>7, ClientFacts
  <2>2. excused' \in BOOLEAN
    BY <1>7 DEF OtherClient
  <2>3. (storage = NoToken \/ Issued(storage))'
    BY <1>1, <2>1 DEF TablesOK, Issued
  <2>4. TablesOK'
    BY <1>1, <1>2, <2>1, <2>2, <2>3 DEF TablesOK
  <2>5. ViewOK'
    BY <1>1, <2>1 DEF ViewOK
  <2>6. ASSUME NEW t \in Slots
        PROVE  Carries(calls'[t])
    <3>1. calls[t] = Idle \/ (Sound(calls[t]) /\ Fits(calls[t], view.page))
      BY SlotFacts
    <3>2. CASE Read(calls[t])
      <4>1. calls'[t] = [calls[t] EXCEPT !.tainted = TRUE] /\ Sound(calls[t]) /\ calls[t] # Idle
        BY <2>1, <3>1, <3>2, IdleFacts DEF Taint, Read, Loads
      <4>2. Sound([calls[t] EXCEPT !.tainted = TRUE]) /\ [calls[t] EXCEPT !.tainted = TRUE].tainted
        BY <4>1, TaintSound
      <4>3. /\ [calls[t] EXCEPT !.tainted = TRUE].op = calls[t].op
            /\ [calls[t] EXCEPT !.tainted = TRUE].home = calls[t].home
        BY <4>1 DEF Sound, CallOK, Fields
      <4>4. Fits([calls[t] EXCEPT !.tainted = TRUE], view'.page)
        BY <2>1, <3>1, <4>1, <4>3 DEF Fits
      <4> QED
        BY <4>1, <4>2, <4>4 DEF Carries
    <3>3. CASE ~Read(calls[t])
      BY <2>1, <3>1, <3>3 DEF Taint, Carries
    <3> QED
      BY <3>2, <3>3
  <2>7. CallsKept
    BY <2>1, <2>6 DEF CallsKept, Taint
  <2> QED
    BY <2>1, <2>4, <2>5, <2>7, Kept
<1>8. CASE DaysPass
  <2>1. /\ clock' = clock + 1 /\ clock < MaxClock /\ UNCHANGED <<password, apiKeys, rows, applied>>
        /\ UNCHANGED <<storage, view, calls, excused, told>>
    BY <1>8 DEF DaysPass, tables, session
  <2>2. clock \in Nat /\ clock' \in 0 .. MaxClock /\ clock' >= clock
    BY <1>1, <2>1, MaxClockAssumption DEF TablesOK
  <2>3. Grow /\ shown' = shown
    BY <2>1, <2>2 DEF Grow, shown
  <2>4. \A t : Issued(t) => Issued(t)'
    BY <2>1, <2>2 DEF Issued, Tokens
  <2>5. TablesOK'
    BY <1>1, <1>2, <2>1, <2>2, <2>4 DEF TablesOK
  <2>6. ViewOK'
    BY <1>1, <2>1 DEF ViewOK
  <2> QED
    BY <2>1, <2>3, <2>5, <2>6, KeepsCalls, Kept
<1> QED
  BY <1>3, <1>4, <1>5, <1>6, <1>7, <1>8, <1>9 DEF Others

LEMMA NetworkKeeps ==
    ASSUME ConsoleInv, NEW s \in Slots, Network(s)
    PROVE  ConsoleInv'
<1>1. ViewOK /\ TablesOK /\ UNCHANGED history /\ owed' = owed
  BY DEF ConsoleInv, Network, history
<1>2. CASE Serve(s)
  <2>1. PICK lost \in BOOLEAN : lost = FALSE
    OBVIOUS
  <2>2. PICK part \in DOMAIN calls[s].answer : Handle(s, part, lost)
    BY <1>2, <2>1 DEF Serve
  <2> QED
    BY <1>1, <1>2, <2>2, HandleKeeps DEF Serve
<1>3. CASE WritePassword(s)
  BY <1>1, <1>3, WritesPassword, WriteKeeps DEF Writes
<1>4. CASE Unauthorized(s)
  BY <1>1, <1>4, LeaveKeeps DEF Unauthorized
<1>5. CASE Forget(s)
  <2>1. Quietly /\ calls' = [calls EXCEPT ![s] = Idle] /\ view' = view /\ owed' \in [Forms -> Nat]
    BY <1>1, <1>5 DEF Forget, Quietly, TablesOK
  <2>2. ViewOK'
    BY <1>1, <2>1 DEF ViewOK
  <2> QED
    BY <2>1, <2>2, EndKeeps
<1> QED
  BY <1>2, <1>3, <1>4, <1>5 DEF Network

LEMMA StutterKeeps ==
    ASSUME ConsoleInv, UNCHANGED vars
    PROVE  ConsoleInv'
<1>1. Quietly /\ calls' = calls /\ view' = view /\ owed' = owed
  BY DEF vars, Quietly, session, history
<1>2. ViewOK' /\ owed' \in [Forms -> Nat]
  BY <1>1 DEF ConsoleInv, ViewOK, TablesOK
<1> QED
  BY <1>1, <1>2, KeepsCalls, QuietlyKeeps

LEMMA ConsoleStep ==
    ASSUME ConsoleInv, [Next]_vars
    PROVE  ConsoleInv'
  BY ContinueKeeps, UserKeeps, OthersKeep, NetworkKeeps, StutterKeeps DEF Next

-----------------------------------------------------------------------------
(* What a page shows belongs to one user. *)

\* The data on the page stay, or new data are shown.
SameData ==
    /\ view'.page = view.page
    /\ view.page # "login" => view'.totals = view.totals /\ view'.table = view.table
Shows(s) == Busy(s) /\ LoadSucceeds(s) /\ calls[s].home = "page"

LEMMA SameView ==
    ASSUME view' = view
    PROVE  SameData
  BY DEF SameData

LEMMA PushData ==
    ASSUME NEW s, NEW page \in {"login", "dashboard"}, NEW token, Push(s, page, token)
    PROVE  SameData \/ ~Loaded'
<1>1. CASE view.page = Landing(page, token)
  BY <1>1, SameView DEF Push
<1>2. CASE view.page # Landing(page, token)
  <2>1. PICK to \in Pages : to = Landing(page, token)
    BY DEF Landing, Pages
  <2>2. view' = FreshView(to)
    BY <1>2, <2>1 DEF Push
  <2> QED
    BY <2>2, FreshFacts
<1> QED
  BY <1>1, <1>2

LEMMA LoginFresh ==
    ASSUME view' = FreshView("login")
    PROVE  ~Loaded'
<1>1. PICK page \in Pages : page = "login"
  BY DEF Pages
<1> QED
  BY <1>1, FreshFacts

LEMMA VisitFresh ==
    ASSUME NEW page \in Pages, Visit(page)
    PROVE  ~Loaded' /\ (view'.page = "admin" => \A f \in Forms : ~view'.filled[f])
<1>1. PICK to \in Pages : to = Landing(page, storage)
  BY DEF Landing, Pages
<1>2. view' = FreshView(to)
  BY <1>1 DEF Visit
<1> QED
  BY <1>2, FreshFacts

LEMMA ContinueData ==
    ASSUME ConsoleInv, NEW s \in Slots, Continue(s)
    PROVE  SameData \/ ~Loaded' \/ Shows(s)
<1>1. Busy(s) /\ CallOK(calls[s]) /\ Fits(calls[s], view.page) /\ ViewOK
  BY SlotFacts DEF Continue, ConsoleInv
<1>2. CASE SignedIn(s)
  BY <1>2, PushData DEF SignedIn
<1>3. CASE SignInFails(s)
  BY <1>1, <1>3 DEF SignInFails, SameData, On, ViewOK
<1>4. CASE KnowMe(s)
  <2>1. view' = view \/ \E page \in {"login", "dashboard"} : Push(s, page, storage)
    BY <1>4 DEF KnowMe
  <2> QED
    BY <2>1, SameView, PushData
<1>5. CASE LoadSucceeds(s)
  BY <1>1, <1>5, SameView DEF LoadSucceeds, Shows
<1>6. CASE LoadFails(s)
  <2>1. view' = FreshView("login") \/ view' = [view EXCEPT !.error = TRUE] \/ view' = view
    BY <1>6 DEF LoadFails
  <2>2. view' = [view EXCEPT !.error = TRUE] => SameData
    BY <1>1 DEF ViewOK, SameData
  <2> QED
    BY <2>1, <2>2, SameView, LoginFresh
<1>7. CASE SettledEnds(s) \/ ChangeFails(s) \/ PasswordAnswered(s)
  BY <1>7, SameView DEF SettledEnds, ChangeFails, PasswordAnswered
<1>8. CASE ChangeSucceeds(s)
  <2>1. view' = Cleared(calls[s])
    BY <1>8 DEF ChangeSucceeds
  <2> QED
    BY <1>1, <2>1 DEF Cleared, SameData, ViewOK
<1> QED
  BY <1>2, <1>3, <1>4, <1>5, <1>6, <1>7, <1>8 DEF Continue

LEMMA UserData ==
    ASSUME ConsoleInv, User
    PROVE  SameData \/ ~Loaded'
<1>1. ViewOK
  BY DEF ConsoleInv
<1>2. ASSUME NEW u, NEW p, NEW op, SubmitLogin(op, u, p)
      PROVE  SameData
  BY <1>1, <1>2 DEF SubmitLogin, LoginForm, On, SameData, ViewOK
<1>3. ASSUME NEW f, Fill(f)
      PROVE  SameData
  BY <1>1, <1>3 DEF Fill, FormPanel, On, SameData, ViewOK
<1>4. CASE \/ CreateKey \/ DeleteKey \/ \E old, new \in Passwords : ChangePassword(old, new)
           \/ \E r \in Rows : Toggle(r)
           \/ \E f \in Forms : Submit(f)
  BY <1>4, SameView DEF CreateKey, DeleteKey, ChangePassword, Toggle, Submit
<1>5. CASE Logout
  BY <1>5, LoginFresh DEF Logout, LeaveSession
<1>6. CASE \E page \in Pages : Visit(page)
  BY <1>6, VisitFresh
<1> QED
  BY <1>2, <1>3, <1>4, <1>5, <1>6 DEF User, Pages

LEMMA DataEffect ==
    ASSUME ConsoleInv, [Next]_vars
    PROVE  SameData \/ ~Loaded' \/ \E s \in Slots : Shows(s)
<1>1. ASSUME NEW s \in Slots, Network(s)
      PROVE  SameData \/ ~Loaded'
  BY <1>1, SameView, LoginFresh
  DEF Network, Serve, Handle, WritePassword, UpdatePassword, Unauthorized, LeaveSession, Forget
<1>2. CASE Others
  <2>1. view' = view
    BY <1>2
    DEF Others, FailCall, ServeAndLose, WriteAndLose, UpdatePassword, WriteFails, Handle,
        OtherTabSignsIn, OtherTabSignsOut, OtherClient, DaysPass, session
  <2> QED
    BY <2>1, SameView
<1>3. CASE UNCHANGED vars
  BY <1>3, SameView DEF vars, session
<1> QED
  BY <1>1, <1>2, <1>3, ContinueData, UserData DEF Next

\* Keys are added and deactivated; they keep their owners.
KeysGrow == \A k \in DOMAIN apiKeys : k \in DOMAIN apiKeys' /\ apiKeys'[k].owner = apiKeys[k].owner

LEMMA HandleGrows ==
    ASSUME ConsoleInv, NEW s \in Slots, Busy(s), NEW part \in DOMAIN calls[s].answer,
           NEW lost \in BOOLEAN, Handle(s, part, lost)
    PROVE  KeysGrow /\ \A u \in Users : password[u] # NoPassword => password'[u] = password[u]
<1>1. TablesOK /\ CallOK(calls[s]) /\ clock' = clock
  BY SlotFacts DEF ConsoleInv, Handle
<1>2. CASE Compares(s)
  BY <1>2 DEF Compares, tables, KeysGrow
<1>3. CASE Answers(s, part, lost)
  <2>1. PICK c : c = calls[s]
    OBVIOUS
  <2>2. Grow
    BY <1>1, <1>3, <2>1, ApplyFacts DEF Answers
  <2> QED
    BY <2>2 DEF Grow, KeysGrow
<1> QED
  BY <1>2, <1>3, HandleFacts

\* Which steps write the tables of keys and passwords, and what the user was told.
Handles == \E s \in Slots : Busy(s) /\ \E part \in DOMAIN calls[s].answer, lost \in BOOLEAN : Handle(s, part, lost)
Records ==
    \E s \in Slots : Busy(s) /\ (SignedIn(s) \/ PasswordAnswered(s) \/ Writes(s))

LEMMA ContinueWrites ==
    ASSUME NEW s \in Slots, Continue(s)
    PROVE  /\ UNCHANGED <<password, apiKeys, rows, applied, clock>>
           /\ Busy(s)
           /\ told' = told \/ SignedIn(s) \/ PasswordAnswered(s)
  BY DEF Continue, SignedIn, SignInFails, KnowMe, LoadSucceeds, LoadFails, SettledEnds,
         ChangeSucceeds, ChangeFails, PasswordAnswered, Quietly, server, tables

LEMMA UserWrites ==
    ASSUME User
    PROVE  UNCHANGED <<password, apiKeys, rows, applied, clock, told>>
<1>1. UNCHANGED <<server, told>>
  BY DEF User, SubmitLogin, CreateKey, DeleteKey, ChangePassword, Toggle, Fill, Submit,
         Logout, Visit, Quietly
<1> QED
  BY <1>1 DEF server, tables

LEMMA Writers ==
    ASSUME ConsoleInv, [Next]_vars
    PROVE  \/ Handles /\ told' = told
           \/ Records
           \/ (\E u \in Users : OtherClient(u)) /\ UNCHANGED <<password, told>>
           \/ UNCHANGED <<password, apiKeys, rows, applied, told>>
<1>1. ASSUME NEW s \in Slots, Network(s)
      PROVE  \/ Handles /\ told' = told
             \/ Records
             \/ UNCHANGED <<password, apiKeys, rows, applied, told>>
  <2>1. CASE Serve(s)
    BY <2>1 DEF Serve, Handles, Handle
  <2>2. CASE WritePassword(s)
    BY <2>2, WritesPassword DEF WritePassword, UpdatePassword, Records
  <2>3. CASE Unauthorized(s) \/ Forget(s)
    BY <2>3 DEF Unauthorized, Forget, server, tables
  <2> QED
    BY <1>1, <2>1, <2>2, <2>3 DEF Network
<1>2. ASSUME NEW s \in Slots, Continue(s)
      PROVE  Records \/ UNCHANGED <<password, apiKeys, rows, applied, told>>
  BY <1>2, ContinueWrites DEF Records
<1>3. CASE Others
  <2>1. CASE \E s \in Slots : ServeAndLose(s)
    BY <2>1 DEF ServeAndLose, Handles, Handle
  <2>2. CASE \E u \in Users : OtherClient(u)
    BY <2>2 DEF OtherClient
  <2>4. CASE \E s \in Slots : WriteAndLose(s)
    BY <2>4, WritesPassword DEF WriteAndLose, UpdatePassword, Records
  <2>3. CASE \/ \E s \in Slots : FailCall(s) \/ WriteFails(s)
             \/ (\E u \in Users : OtherTabSignsIn(u)) \/ OtherTabSignsOut \/ DaysPass
    BY <2>3 DEF FailCall, WriteFails, OtherTabSignsIn, OtherTabSignsOut, DaysPass, server, tables, session
  <2> QED
    BY <1>3, <2>1, <2>2, <2>3, <2>4 DEF Others
<1>4. CASE UNCHANGED vars
  BY <1>4 DEF vars, server, tables, session
<1> QED
  BY <1>1, <1>2, <1>3, <1>4, UserWrites DEF Next

LEMMA KeysEffect ==
    ASSUME ConsoleInv, [Next]_vars
    PROVE  KeysGrow
<1>1. CASE Handles
  BY <1>1, HandleGrows DEF Handles
<1>2. CASE Records
  BY <1>2 DEF Records, SignedIn, PasswordAnswered, Writes, UpdatePassword, server, tables, KeysGrow
<1>3. CASE \E u \in Users : OtherClient(u)
  BY <1>3, ClientFacts DEF Grow, KeysGrow
<1>4. CASE apiKeys' = apiKeys
  BY <1>4 DEF KeysGrow
<1> QED
  BY <1>1, <1>2, <1>3, <1>4, Writers

LEMMA ShownFacts ==
    ASSUME ConsoleInv, NEW s \in Slots, Shows(s)
    PROVE  /\ view'.page = view.page /\ view.page = IF calls[s].op = "load" THEN "dashboard" ELSE "admin"
           /\ calls[s].op \in Loads
           /\ view'.table = calls[s].answer["table"].body
           /\ view'.totals = calls[s].answer["totals"].body
           /\ Good(calls[s].answer["table"]) /\ Good(calls[s].answer["totals"])
           /\ DataOK(calls[s])
           /\ calls[s].tainted \in BOOLEAN
           /\ excused' = calls[s].tainted
           /\ UNCHANGED <<apiKeys, rows>>
<1>1. Busy(s) /\ CallOK(calls[s]) /\ Sound(calls[s]) /\ Fits(calls[s], view.page) /\ ViewOK
  BY SlotFacts DEF Shows, ConsoleInv
<1>2. calls[s].op \in Loads /\ Succeeded(s) /\ calls[s].home = "page" /\ ShowData(s)
      /\ excused' = calls[s].tainted /\ UNCHANGED server
  BY DEF Shows, LoadSucceeds
<1>3. DOMAIN calls[s].answer = {"totals", "table"}
  BY <1>1, <1>2 DEF CallOK, PartsOf
<1>4. Good(calls[s].answer["table"]) /\ Good(calls[s].answer["totals"])
  BY <1>2, <1>3 DEF Succeeded, Good
<1>5. view.page = IF calls[s].op = "load" THEN "dashboard" ELSE "admin"
  BY <1>1, <1>2 DEF Fits, Offers, Loads, PageOps, PanelOps
<1>6. /\ view'.page = view.page
      /\ view'.table = calls[s].answer["table"].body
      /\ view'.totals = calls[s].answer["totals"].body
  BY <1>1, <1>2, <1>5 DEF ShowData, ViewOK
<1> QED
  BY <1>1, <1>2, <1>4, <1>5, <1>6 DEF Sound, CallOK, server, tables

LEMMA TableStep ==
    ASSUME ConsoleInv, TableOwned, [Next]_vars
    PROVE  TableOwned'
<1>1. \A table, u : OwnedBy(table, u) => OwnedBy(table, u)'
  BY KeysEffect DEF OwnedBy, KeysGrow
<1>2. CASE SameData
  BY <1>1, <1>2 DEF SameData, TableOwned
<1>3. CASE ~Loaded'
  BY <1>3 DEF Loaded, TableOwned
<1>4. ASSUME NEW s \in Slots, Shows(s)
      PROVE  TableOwned'
  <2>1. view'.page = "dashboard" => OwnedBy(view'.table, view'.totals)
    BY <1>4, ShownFacts DEF DataOK
  <2> QED
    BY <1>1, <2>1 DEF TableOwned
<1> QED
  BY <1>2, <1>3, <1>4, DataEffect

LEMMA ToldStep ==
    ASSUME ConsoleInv, ToldOK, [Next]_vars
    PROVE  ToldOK'
<1>1. TablesOK
  BY DEF ConsoleInv
<1>2. CASE Handles /\ told' = told
  <2>1. \A u \in Users : password[u] # NoPassword => password'[u] = password[u]
    BY <1>2, HandleGrows DEF Handles
  <2> QED
    BY <1>2, <2>1 DEF ToldOK
<1>3. ASSUME NEW s \in Slots, Busy(s), SignedIn(s)
      PROVE  ToldOK'
  <2>1. password' = password
    BY <1>3 DEF SignedIn, server, tables
  <2> QED
    BY <1>1, <1>3, <2>1, SignedInFacts DEF ToldOK, TablesOK
<1>4. ASSUME NEW s \in Slots, Busy(s), PasswordAnswered(s)
      PROVE  ToldOK'
  <2>1. CallOK(calls[s]) /\ PasswordOK(calls[s]) /\ calls[s].op = "password" /\ password' = password
    BY <1>4, SlotFacts DEF Sound, PasswordAnswered, server, tables
  <2>2. CASE Succeeded(s) /\ ~calls[s].tainted
    <3>1. DOMAIN calls[s].answer = {"main"}
      BY <2>1 DEF CallOK, PartsOf, Loads
    <3>2. Good(calls[s].answer["main"])
      BY <2>2, <3>1 DEF Succeeded, Good
    <3>3. calls[s].by # NoToken /\ password[calls[s].by.user] = calls[s].arg.new
      BY <2>1, <2>2, <3>2 DEF PasswordOK
    <3> QED
      BY <1>1, <1>4, <2>1, <2>2, <3>3 DEF PasswordAnswered, ToldOK, TablesOK
  <2>3. CASE ~(Succeeded(s) /\ ~calls[s].tainted)
    BY <1>4, <2>1, <2>3 DEF PasswordAnswered, ToldOK
  <2> QED
    BY <2>2, <2>3
<1>5. ASSUME NEW s \in Slots, Writes(s)
      PROVE  ToldOK'
  <2>1. /\ calls[s].by.user \in Users
        /\ password' = [password EXCEPT ![calls[s].by.user] = calls[s].arg.new]
        /\ told' = [told EXCEPT ![calls[s].by.user] = NoPassword]
    BY <1>5, WriteFacts DEF Writes
  <2> QED
    BY <1>1, <2>1 DEF ToldOK, TablesOK
<1>6. CASE UNCHANGED <<password, told>>
  BY <1>6 DEF ToldOK
<1> QED
  BY <1>2, <1>3, <1>4, <1>5, <1>6, Writers DEF Records

-----------------------------------------------------------------------------
(* What a page shows is up to date, or will be. *)

StillFresh ==
    /\ SameData /\ shown' = shown /\ (excused => excused')
    /\ \A t \in Slots : Refreshes(calls[t]) => Refreshes(calls'[t])

LEMMA PutRefreshes ==
    ASSUME ConsoleInv, NEW s \in Slots, NEW c, calls' = [calls EXCEPT ![s] = c],
           Refreshes(calls[s]) => Refreshes(c)
    PROVE  \A t \in Slots : Refreshes(calls[t]) => Refreshes(calls'[t])
<1>1. DOMAIN calls = Slots
  BY DEF ConsoleInv, CallsSound
<1> QED
  BY <1>1

LEMMA NotRefreshing ==
    ASSUME NEW c, c.home # "page" \/ c.op \notin Loads \cup {"create", "delete", "toggle", "submit"}
    PROVE  ~Refreshes(c)
  BY DEF Refreshes

\* The slot where a call ends or a call is started in place of one that refreshes nothing.
LEMMA EndFresh ==
    ASSUME ConsoleInv, NEW s \in Slots, NEW c, calls' = [calls EXCEPT ![s] = c],
           ~Refreshes(calls[s]), SameData, shown' = shown, excused => excused'
    PROVE  StillFresh
  BY PutRefreshes DEF StillFresh

LEMMA QuietShown ==
    ASSUME Quietly
    PROVE  shown' = shown /\ (excused => excused')
  BY DEF Quietly, server, tables, shown

\* A reply to a call that refreshes, and the answer that makes a call refresh.
LEMMA ReplyRefreshes ==
    ASSUME NEW c, CallOK(c), NEW part \in DOMAIN c.answer, c.answer[part].status = 0, NEW a,
           NEW d, d = [c EXCEPT !.answer[part] = a]
    PROVE  /\ Refreshes(c) => Refreshes(d)
           /\ c.op \in {"create", "delete", "toggle", "submit"} /\ c.home = "page" /\ Good(a) => Refreshes(d)
<1>1. d.op = c.op /\ d.home = c.home /\ d.answer[part] = a
  BY ReplyFacts
<1>2. c.op \in {"create", "delete", "toggle", "submit"} => part = "main"
  BY DEF CallOK, PartsOf, Loads
<1>3. c.op # "none"
  BY CallNotIdle
<1>4. CASE c.op \in {"create", "delete", "toggle", "submit"}
  BY <1>1, <1>2, <1>3, <1>4 DEF Refreshes, Good, Loads
<1>5. CASE c.op \notin {"create", "delete", "toggle", "submit"}
  BY <1>1, <1>5 DEF Refreshes
<1> QED
  BY <1>4, <1>5

LEMMA HandleFresh ==
    ASSUME ConsoleInv, NEW s \in Slots, Busy(s), NEW part \in DOMAIN calls[s].answer,
           NEW lost \in BOOLEAN, Handle(s, part, lost)
    PROVE  excused' \/ StillFresh \/ Refreshes(calls'[s])
<1>1. TablesOK /\ CallOK(calls[s]) /\ SameData /\ clock' = clock
  BY SlotFacts, SameView DEF ConsoleInv, Handle
<1>2. CASE Compares(s)
  <2>1. ~Refreshes(calls[s])
    BY <1>2, NotRefreshing DEF Compares, Loads
  <2>2. shown' = shown /\ (excused => excused')
    BY <1>2 DEF Compares, tables, shown
  <2> QED
    BY <1>1, <1>2, <2>1, <2>2, EndFresh DEF Compares
<1>3. CASE Answers(s, part, lost)
  <2>1. PICK c : c = calls[s]
    OBVIOUS
  <2>2. PICK a : a = Answer(c, part, lost)
    OBVIOUS
  <2>3. PICK d : d = [c EXCEPT !.answer[part] = a]
    OBVIOUS
  <2>4. calls'[s] = d /\ Apply(c) /\ c.answer[part].status = 0 /\ CallOK(c)
        /\ part \in DOMAIN c.answer
    BY <1>1, <1>3, <2>1, <2>2, <2>3 DEF Answers
  <2>5. /\ Refreshes(c) => Refreshes(d)
        /\ c.op \in {"create", "delete", "toggle", "submit"} /\ c.home = "page" /\ Good(a) => Refreshes(d)
    BY <2>3, <2>4, ReplyRefreshes
  <2>6. CASE shown' # shown
    <3>1. c.op \in {"create", "delete", "toggle"} /\ Status(c) = 200
      BY <1>1, <2>4, <2>6, ApplyFacts
    <3>2. ~lost => Good(a)
      BY <2>2, <3>1 DEF Answer, Good
    <3>3. lost \/ c.home # "page" => excused'
      BY <1>3, <2>1, <2>6 DEF Answers, Behind
    <3> QED
      BY <2>4, <2>5, <3>1, <3>2, <3>3
  <2>7. CASE shown' = shown
    <3>1. \A t \in Slots : Refreshes(calls[t]) => Refreshes(calls'[t])
      BY <1>3, <2>1, <2>4, <2>5, <2>7 DEF Answers
    <3>2. excused => excused'
      BY <1>3 DEF Answers
    <3> QED
      BY <1>1, <2>7, <3>1, <3>2 DEF StillFresh
  <2> QED
    BY <2>6, <2>7
<1> QED
  BY <1>2, <1>3, HandleFacts

LEMMA WriteFresh ==
    ASSUME ConsoleInv, NEW s \in Slots, Writes(s)
    PROVE  StillFresh
<1>1. SameData /\ shown' = shown /\ (excused => excused')
  BY SameView DEF Writes, UpdatePassword, shown
<1>2. ASSUME NEW t \in Slots, Refreshes(calls[t])
      PROVE  Refreshes(calls'[t])
  <2>1. calls[t].op \notin {"password", "login", "register"}
    BY <1>2 DEF Refreshes, Loads
  <2>2. t # s
    BY <2>1, WriteFacts DEF Writes
  <2> QED
    BY <1>2, <2>1, <2>2, WriteFacts DEF Writes
<1> QED
  BY <1>1, <1>2 DEF StillFresh

LEMMA NetworkFresh ==
    ASSUME ConsoleInv, NEW s \in Slots, Network(s)
    PROVE  ~Loaded' \/ excused' \/ StillFresh \/ Refreshes(calls'[s])
<1>1. CASE Serve(s)
  <2>1. PICK lost \in BOOLEAN : lost = FALSE
    OBVIOUS
  <2> QED
    BY <1>1, <2>1, HandleFresh DEF Serve
<1>2. CASE WritePassword(s)
  BY <1>2, WritesPassword, WriteFresh
<1>3. CASE Unauthorized(s)
  BY <1>3, LoginFresh DEF Unauthorized, LeaveSession
<1>4. CASE Forget(s)
  <2>1. calls' = [calls EXCEPT ![s] = Idle] /\ ~Refreshes(calls[s])
    BY <1>4, NotRefreshing DEF Forget
  <2>2. SameData /\ shown' = shown /\ (excused => excused')
    BY <1>4, SameView DEF Forget, server, tables, shown
  <2> QED
    BY <2>1, <2>2, EndFresh
<1> QED
  BY <1>1, <1>2, <1>3, <1>4 DEF Network

LEMMA PushFresh ==
    ASSUME ConsoleInv, NEW s \in Slots, NEW page \in {"login", "dashboard"}, NEW token,
           Push(s, page, token), ~Refreshes(calls[s]), shown' = shown, excused => excused'
    PROVE  ~Loaded' \/ StillFresh
<1>1. CASE view.page = Landing(page, token)
  <2>1. view' = view /\ calls' = [calls EXCEPT ![s] = Idle]
    BY <1>1 DEF Push
  <2> QED
    BY <2>1, SameView, EndFresh
<1>2. CASE view.page # Landing(page, token)
  <2>1. PICK to \in Pages : to = Landing(page, token)
    BY DEF Landing, Pages
  <2>2. view' = FreshView(to)
    BY <1>2, <2>1 DEF Push
  <2> QED
    BY <2>2, FreshFacts
<1> QED
  BY <1>1, <1>2

LEMMA ContinueFresh ==
    ASSUME ConsoleInv, NEW s \in Slots, Continue(s)
    PROVE  ~Loaded' \/ excused' \/ StillFresh \/ Refreshes(calls'[s]) \/ Shows(s)
<1>1. /\ Busy(s) /\ CallOK(calls[s]) /\ Fits(calls[s], view.page) /\ ViewOK /\ TablesOK
      /\ DOMAIN calls = Slots
  BY SlotFacts DEF Continue, ConsoleInv
<1>2. SameData \/ ~Loaded' \/ Shows(s)
  BY ContinueData
<1>3. CASE SignedIn(s)
  <2>1. ~Refreshes(calls[s]) /\ shown' = shown /\ (excused => excused')
    BY <1>3, NotRefreshing DEF SignedIn, Sessionless, Loads, server, tables, shown
  <2>2. PICK page \in {"login", "dashboard"} : \E token : Push(s, page, token)
    BY <1>3 DEF SignedIn
  <2> QED
    BY <2>1, <2>2, PushFresh
<1>4. CASE SignInFails(s) \/ SettledEnds(s)
  <2>1. ~Refreshes(calls[s]) /\ Quietly /\ calls' = [calls EXCEPT ![s] = Idle]
    BY <1>4, NotRefreshing DEF SignInFails, SettledEnds, Sessionless, Loads
  <2>2. ~Shows(s)
    BY <1>4 DEF Shows, LoadSucceeds, SignInFails, SettledEnds, Sessionless, Loads
  <2> QED
    BY <1>2, <2>1, <2>2, QuietShown, EndFresh
<1>5. CASE KnowMe(s)
  <2>1. ~Refreshes(calls[s]) /\ Quietly /\ calls[s].op \notin Loads
    BY <1>5, NotRefreshing DEF KnowMe, Loads
  <2>2. CASE Succeeded(s) /\ calls[s].answer["main"].body \in Admins
    <3>1. PICK c : calls' = [calls EXCEPT ![s] = c]
      BY <1>5, <2>2 DEF KnowMe
    <3>2. SameData
      BY <1>5, <2>2, SameView DEF KnowMe
    <3> QED
      BY <2>1, <3>1, <3>2, QuietShown, EndFresh
  <2>3. CASE ~(Succeeded(s) /\ calls[s].answer["main"].body \in Admins)
    <3>1. PICK page \in {"login", "dashboard"} : \E token : Push(s, page, token)
      BY <1>5, <2>3 DEF KnowMe
    <3> QED
      BY <2>1, <3>1, QuietShown, PushFresh
  <2> QED
    BY <2>2, <2>3
<1>6. CASE LoadSucceeds(s)
  <2>1. CASE calls[s].home = "page"
    BY <1>1, <1>6, <2>1 DEF Shows
  <2>2. CASE calls[s].home # "page"
    <3>1. ~Refreshes(calls[s]) /\ shown' = shown /\ (excused => excused') /\ SameData
          /\ calls' = [calls EXCEPT ![s] = Idle]
      BY <1>6, <2>2, NotRefreshing, SameView DEF LoadSucceeds, server, tables, shown
    <3> QED
      BY <3>1, EndFresh
  <2> QED
    BY <2>1, <2>2
<1>7. CASE LoadFails(s)
  <2>1. view' = FreshView("login") \/ excused'
    BY <1>7 DEF LoadFails
  <2> QED
    BY <2>1, LoginFresh
<1>8. CASE ChangeSucceeds(s)
  <2>1. Quietly /\ calls[s].op \in {"create", "delete", "toggle", "submit"}
    BY <1>8 DEF ChangeSucceeds
  <2>2. storage = NoToken \/ Issued(storage)
    BY <1>1 DEF TablesOK
  <2>3. PICK home \in Homes : home = calls[s].home
    BY <1>1 DEF CallOK
  <2>4. PICK op \in PlainOps : op = IF calls[s].op \in AdminOps THEN "loadAll" ELSE "load"
    BY DEF PlainOps
  <2>5. PICK token : token = storage
    OBVIOUS
  <2>6. PICK c : c = NewCall(op, Nothing, home, token)
    OBVIOUS
  <2>7. calls' = [calls EXCEPT ![s] = c]
    BY <1>8, <2>3, <2>4, <2>5, <2>6 DEF ChangeSucceeds, Reload
  <2>8. c.op = op /\ c.home = home
    BY <2>2, <2>5, <2>6, PlainCall
  <2>9. Refreshes(calls[s]) => Refreshes(c)
    BY <2>3, <2>4, <2>8 DEF Refreshes, Loads
  <2>10. ~Shows(s)
    BY <2>1 DEF Shows, LoadSucceeds, Loads
  <2>11. \A t \in Slots : Refreshes(calls[t]) => Refreshes(calls'[t])
    BY <2>7, <2>9, PutRefreshes
  <2> QED
    BY <1>2, <2>1, <2>10, <2>11, QuietShown DEF StillFresh
<1>9. CASE ChangeFails(s)
  <2>1. calls[s].op \in {"create", "delete", "toggle", "submit"} /\ Failed(s) /\ Quietly
        /\ calls' = [calls EXCEPT ![s] = Idle] /\ SameData
    BY <1>9, SameView DEF ChangeFails
  <2>2. DOMAIN calls[s].answer = {"main"}
    BY <1>1, <2>1 DEF CallOK, PartsOf, Loads
  <2>3. ~Refreshes(calls[s])
    BY <2>1, <2>2 DEF Failed, Refreshes, Good, Loads
  <2> QED
    BY <2>1, <2>3, QuietShown, EndFresh
<1>10. CASE PasswordAnswered(s)
  <2>1. ~Refreshes(calls[s]) /\ shown' = shown /\ (excused => excused') /\ SameData
        /\ calls' = [calls EXCEPT ![s] = Idle]
    BY <1>10, NotRefreshing, SameView DEF PasswordAnswered, Loads, server, tables, shown
  <2> QED
    BY <2>1, EndFresh
<1> QED
  BY <1>3, <1>4, <1>5, <1>6, <1>7, <1>8, <1>9, <1>10 DEF Continue

LEMMA ClickFresh ==
    ASSUME ConsoleInv, NEW op, NEW arg, Click(op, arg), SameData, Quietly
    PROVE  StillFresh
<1>0. PICK s \in Slots : ~Busy(s) /\ \E c : calls' = [calls EXCEPT ![s] = c]
  BY DEF Click, InUse
<1>1. PICK c : ~Busy(s) /\ calls' = [calls EXCEPT ![s] = c]
  BY <1>0
<1>2. ~Refreshes(calls[s])
  BY <1>1 DEF Busy, Refreshes
<1> QED
  BY <1>1, <1>2, QuietShown, EndFresh

LEMMA UserFresh ==
    ASSUME ConsoleInv, User
    PROVE  ~Loaded' \/ StillFresh
<1>1. ViewOK
  BY DEF ConsoleInv
<1>2. ASSUME NEW u, NEW p, NEW op, SubmitLogin(op, u, p)
      PROVE  StillFresh
  <2>1. SameData
    BY <1>1, <1>2 DEF SubmitLogin, LoginForm, On, SameData, ViewOK
  <2>2. PICK arg : Click(op, arg)
    BY <1>2 DEF SubmitLogin
  <2> QED
    BY <1>2, <2>1, <2>2, ClickFresh DEF SubmitLogin
<1>3. ASSUME NEW f, Fill(f)
      PROVE  StillFresh
  <2>1. SameData
    BY <1>1, <1>3 DEF Fill, FormPanel, On, SameData, ViewOK
  <2> QED
    BY <1>3, <2>1, QuietShown DEF Fill, StillFresh
<1>4. CASE \/ CreateKey \/ DeleteKey \/ \E old, new \in Passwords : ChangePassword(old, new)
           \/ \E r \in Rows : Toggle(r)
           \/ \E f \in Forms : Submit(f)
  <2>1. Quietly /\ view' = view /\ \E op, arg : Click(op, arg)
    BY <1>4 DEF CreateKey, DeleteKey, ChangePassword, Toggle, Submit
  <2> QED
    BY <2>1, SameView, ClickFresh
<1>5. CASE Logout
  BY <1>5, LoginFresh DEF Logout, LeaveSession
<1>6. CASE \E page \in Pages : Visit(page)
  BY <1>6, VisitFresh
<1> QED
  BY <1>2, <1>3, <1>4, <1>5, <1>6 DEF User, Pages

LEMMA OthersFresh ==
    ASSUME ConsoleInv, Others
    PROVE  excused' \/ StillFresh \/ \E s \in Slots : Refreshes(calls'[s])
<1>1. ASSUME NEW s \in Slots, Fails(s)
      PROVE  StillFresh
  <2>1. PICK part \in DOMAIN calls[s].answer, a \in Refusals :
           calls[s].answer[part].status = 0 /\ calls' = Reply(s, part, a)
    BY <1>1 DEF Fails
  <2>2. PICK c : c = calls[s]
    OBVIOUS
  <2>4. PICK d : d = [c EXCEPT !.answer[part] = a]
    OBVIOUS
  <2>5. CallOK(c)
    BY <1>1, <2>2, SlotFacts DEF Fails
  <2>6. Refreshes(c) => Refreshes(d)
    BY <2>1, <2>2, <2>4, <2>5, ReplyRefreshes
  <2>7. calls' = [calls EXCEPT ![s] = d]
    BY <2>1, <2>2, <2>4 DEF Reply
  <2>8. \A t \in Slots : Refreshes(calls[t]) => Refreshes(calls'[t])
    BY <2>2, <2>6, <2>7, PutRefreshes
  <2> QED
    BY <1>1, <2>8, SameView DEF Fails, StillFresh, server, tables, shown
<1>2. ASSUME NEW s \in Slots, ServeAndLose(s)
      PROVE  excused' \/ StillFresh \/ Refreshes(calls'[s])
  <2>1. PICK lost \in BOOLEAN : lost = TRUE
    OBVIOUS
  <2> QED
    BY <1>2, <2>1, HandleFresh DEF ServeAndLose
<1>3. ASSUME NEW u, OtherClient(u)
      PROVE  excused'
  BY <1>3 DEF OtherClient
<1>4. CASE (\E u \in Users : OtherTabSignsIn(u)) \/ OtherTabSignsOut \/ DaysPass
  BY <1>4, SameView
  DEF OtherTabSignsIn, OtherTabSignsOut, DaysPass, StillFresh, server, tables, session, shown
<1>5. ASSUME NEW s \in Slots, FailCall(s) \/ WriteFails(s) \/ WriteAndLose(s)
      PROVE  StillFresh
  BY <1>1, <1>5, FailsCall, WritesPassword, WriteFresh
<1> QED
  BY <1>2, <1>3, <1>4, <1>5 DEF Others

LEMMA FreshStep ==
    ASSUME ConsoleInv, FreshOrRefreshing, [Next]_vars
    PROVE  FreshOrRefreshing'
<1>1. CASE ~Loaded'
  BY <1>1 DEF FreshOrRefreshing
<1>2. CASE excused'
  BY <1>2 DEF FreshOrRefreshing
<1>3. CASE \E s \in Slots : Refreshes(calls'[s])
  BY <1>3 DEF FreshOrRefreshing
<1>4. CASE StillFresh
  <2>1. SameData /\ rows' = rows /\ apiKeys' = apiKeys
    BY <1>4 DEF StillFresh, shown
  <2>2. Loaded' => Loaded /\ view'.table = view.table /\ Current' = Current
    BY <2>1 DEF SameData, Loaded, Current, On, TotalsShown, KeysOf
  <2> QED
    BY <1>4, <2>2 DEF StillFresh, FreshOrRefreshing
<1>5. ASSUME NEW s \in Slots, Shows(s)
      PROVE  FreshOrRefreshing'
  <2>1. CASE calls[s].tainted
    BY <1>5, <2>1, ShownFacts DEF FreshOrRefreshing
  <2>2. CASE ~calls[s].tainted
    <3>1. rows' = rows /\ apiKeys' = apiKeys
      BY <1>5, ShownFacts
    <3>2. \A u : KeysOf(u)' = KeysOf(u)
      BY <3>1 DEF KeysOf
    <3>3. CASE calls[s].op = "load"
      <4>1. view'.page = "dashboard" /\ view'.totals = calls[s].by.user
            /\ view'.table = KeysOf(calls[s].by.user)
        BY <1>5, <2>2, <3>3, ShownFacts DEF DataOK
      <4>2. Current' = KeysOf(view.totals)'
        BY <4>1 DEF Current, On, TotalsShown
      <4>3. PICK u : u = view'.totals
        OBVIOUS
      <4>4. KeysOf(view.totals)' = KeysOf(u)
        BY <3>2, <4>3
      <4> QED
        BY <4>1, <4>2, <4>3, <4>4 DEF FreshOrRefreshing
    <3>4. CASE calls[s].op = "loadAll"
      <4>1. view'.page = "admin" /\ view'.table = rows
        BY <1>5, <2>2, <3>4, ShownFacts DEF DataOK
      <4> QED
        BY <3>1, <4>1 DEF FreshOrRefreshing, Current, On
    <3> QED
      BY <1>5, <3>3, <3>4, ShownFacts DEF Loads
  <2> QED
    BY <2>1, <2>2
<1>6. CASE UNCHANGED vars
  <2>1. StillFresh
    BY <1>6, SameView DEF vars, server, tables, session, shown, StillFresh
  <2> QED
    BY <1>4, <2>1
<1> QED
  BY <1>1, <1>2, <1>3, <1>4, <1>5, <1>6, NetworkFresh, ContinueFresh, UserFresh, OthersFresh DEF Next

-----------------------------------------------------------------------------
(* A form takes effect at most as often as its owner is owed it. *)

LEMMA OpenFinite ==
    ASSUME NEW f
    PROVE  IsFiniteSet(Open(f)) /\ Cardinality(Open(f)) \in Nat
<1>1. Open(f) \subseteq Slots
  BY DEF Open
<1> QED
  BY <1>1, SlotsAssumption, FS_Subset, FS_CardinalityType

LEMMA OpenNext ==
    ASSUME NEW f
    PROVE  IsFiniteSet(Open(f)') /\ Cardinality(Open(f)') \in Nat
<1>1. Open(f)' \subseteq Slots
  BY DEF Open
<1> QED
  BY <1>1, SlotsAssumption, FS_Subset, FS_CardinalityType

LEMMA OpenShrinks ==
    ASSUME NEW f, \A t \in Slots : OpenCall(calls'[t], f) => OpenCall(calls[t], f)
    PROVE  Cardinality(Open(f)') <= Cardinality(Open(f))
<1>1. Open(f)' \subseteq Open(f)
  BY DEF Open
<1> QED
  BY <1>1, OpenFinite, FS_Subset

LEMMA OpenDrops ==
    ASSUME NEW f, \A t \in Slots : OpenCall(calls'[t], f) => OpenCall(calls[t], f),
           NEW s \in Slots, OpenCall(calls[s], f), ~OpenCall(calls'[s], f)
    PROVE  Cardinality(Open(f)') + 1 <= Cardinality(Open(f))
<1>1. Open(f)' \subseteq Open(f) \ {s} /\ s \in Open(f)
  BY DEF Open
<1>2. IsFiniteSet(Open(f) \ {s}) /\ Cardinality(Open(f) \ {s}) = Cardinality(Open(f)) - 1
  BY <1>1, OpenFinite, FS_RemoveElement
<1>3. Cardinality(Open(f)') <= Cardinality(Open(f) \ {s})
  BY <1>1, <1>2, FS_Subset
<1> QED
  BY <1>2, <1>3, OpenFinite, OpenNext

LEMMA OpenGrows ==
    ASSUME NEW f, NEW s \in Slots,
           \A t \in Slots \ {s} : OpenCall(calls'[t], f) => OpenCall(calls[t], f)
    PROVE  Cardinality(Open(f)') <= Cardinality(Open(f)) + 1
<1>1. Open(f)' \subseteq Open(f) \cup {s}
  BY DEF Open
<1>2. /\ IsFiniteSet(Open(f) \cup {s})
      /\ Cardinality(Open(f) \cup {s}) <= Cardinality(Open(f)) + 1
  BY OpenFinite, FS_AddElement
<1>3. Cardinality(Open(f)') <= Cardinality(Open(f) \cup {s})
  BY <1>1, <1>2, FS_Subset
<1>4. Cardinality(Open(f) \cup {s}) \in Nat
  BY <1>2, FS_CardinalityType
<1> QED
  BY <1>2, <1>3, <1>4, OpenFinite, OpenNext

\* A step that spends nothing of form f.
Spares(f) ==
    /\ applied'[f] = applied[f] /\ owed[f] <= owed'[f]
    /\ \A t \in Slots : OpenCall(calls'[t], f) => OpenCall(calls[t], f)
    /\ Waiting(f)' => Waiting(f)

LEMMA CountFacts ==
    ASSUME ConsoleInv, ConsoleInv', NEW f \in Forms
    PROVE  /\ applied[f] \in Nat /\ applied'[f] \in Nat /\ owed[f] \in Nat /\ owed'[f] \in Nat
           /\ Cardinality(Open(f)) \in Nat /\ Cardinality(Open(f)') \in Nat
  BY OpenFinite, OpenNext DEF ConsoleInv, TablesOK

LEMMA SparesReserved ==
    ASSUME ConsoleInv, ConsoleInv', NEW f \in Forms, Reserved(f), Spares(f)
    PROVE  Reserved(f)'
<1>1. Cardinality(Open(f)') <= Cardinality(Open(f))
  BY OpenShrinks DEF Spares
<1>2. PICK n \in Nat, m \in Nat : n = Cardinality(Open(f)) /\ m = Cardinality(Open(f)')
  BY CountFacts
<1>3. applied[f] + n + (IF Waiting(f) THEN 1 ELSE 0) <= owed[f]
  BY <1>2 DEF Reserved
<1>4. applied'[f] + m + (IF Waiting(f)' THEN 1 ELSE 0) <= owed'[f]
  BY <1>1, <1>2, <1>3, CountFacts DEF Spares
<1> QED
  BY <1>2, <1>4 DEF Reserved

\* The ways a step spares a form: it leaves the page, or keeps its submissions.
FormStays(f) == view'.page = "admin" => view.page = "admin" /\ (view'.filled[f] => view.filled[f])
NoForms == view'.page = "admin" => \A f \in Forms : ~view'.filled[f]

LEMMA WaitsOn ==
    ASSUME NEW f \in Forms,
           \/ NoForms
           \/ FormStays(f) /\ \A t \in Slots : HomeSubmit(calls[t], f) => HomeSubmit(calls'[t], f)
    PROVE  Waiting(f)' => Waiting(f)
  BY DEF NoForms, FormStays, Waiting

LEMMA PutSpares ==
    ASSUME ConsoleInv, NEW f \in Forms, NEW s \in Slots, NEW c, calls' = [calls EXCEPT ![s] = c],
           applied'[f] = applied[f], owed[f] <= owed'[f],
           ~OpenCall(c, f) \/ OpenCall(calls[s], f),
           FormStays(f), ~HomeSubmit(calls[s], f) \/ HomeSubmit(c, f)
    PROVE  Spares(f)
<1>1. \A t \in Slots : calls'[t] = IF t = s THEN c ELSE calls[t]
  BY DEF ConsoleInv, CallsSound
<1>2. \A t \in Slots : OpenCall(calls'[t], f) => OpenCall(calls[t], f)
  BY <1>1
<1>3. \A t \in Slots : HomeSubmit(calls[t], f) => HomeSubmit(calls'[t], f)
  BY <1>1
<1> QED
  BY <1>2, <1>3, WaitsOn DEF Spares

\* A call keeps its place in the count when only its home changes.
LEMMA HomeOpen ==
    ASSUME NEW c, CallOK(c), NEW h, NEW f, OpenCall([c EXCEPT !.home = h], f)
    PROVE  OpenCall(c, f)
<1>1. DOMAIN c = Fields
  BY DEF CallOK
<1>2. /\ [c EXCEPT !.home = h].op = c.op /\ [c EXCEPT !.home = h].arg = c.arg
      /\ [c EXCEPT !.home = h].answer = c.answer
  BY <1>1 DEF Fields
<1> QED
  BY <1>2 DEF OpenCall, Submits

LEMMA NoSubmit ==
    ASSUME NEW c, c.op # "submit", NEW f
    PROVE  ~OpenCall(c, f) /\ ~HomeSubmit(c, f)
  BY DEF OpenCall, HomeSubmit, Submits

LEMMA LeftOpen ==
    ASSUME ConsoleInv, NEW f, NEW t \in Slots, OpenCall(Left[t], f)
    PROVE  OpenCall(calls[t], f)
<1>1. CASE Busy(t) /\ calls[t].home = "page"
  BY <1>1, SlotFacts, HomeOpen DEF Left
<1>2. CASE ~(Busy(t) /\ calls[t].home = "page")
  BY <1>2 DEF Left
<1> QED
  BY <1>1, <1>2

LEMMA AbortedOpen ==
    ASSUME ConsoleInv, NEW f, NEW t \in Slots, OpenCall(Aborted(calls)[t], f)
    PROVE  OpenCall(calls[t], f)
<1>1. CASE calls[t].op \in Mutations /\ calls[t].answer["main"].status = 0
  <2>1. CallOK(calls[t])
    BY <1>1, SlotFacts DEF Mutations, Busy
  <2> QED
    BY <1>1, <2>1, HomeOpen DEF Aborted
<1>2. CASE ~(calls[t].op \in Mutations /\ calls[t].answer["main"].status = 0)
  BY <1>2, IdleFacts, NoSubmit DEF Aborted
<1> QED
  BY <1>1, <1>2

\* Leaving a page spends nothing.
LEMMA LeavingSpares ==
    ASSUME ConsoleInv, NEW f \in Forms, NoForms, applied'[f] = applied[f], owed[f] <= owed'[f],
           \/ calls' = Aborted(calls)
           \/ \E s \in Slots : \E c :
                  /\ c.op # "submit"
                  /\ calls' \in {[Aborted(calls) EXCEPT ![s] = c], [Left EXCEPT ![s] = c]}
    PROVE  Spares(f)
<1>1. DOMAIN Aborted(calls) = Slots /\ DOMAIN Left = Slots
  BY DEF Aborted, Left
<1>2. \A t \in Slots : OpenCall(calls'[t], f) => OpenCall(calls[t], f)
  <2>1. CASE calls' = Aborted(calls)
    BY <2>1, AbortedOpen
  <2>2. ASSUME NEW s \in Slots, NEW c, c.op # "submit", calls' = [Aborted(calls) EXCEPT ![s] = c]
        PROVE  \A t \in Slots : OpenCall(calls'[t], f) => OpenCall(calls[t], f)
    <3>1. \A t \in Slots : calls'[t] = IF t = s THEN c ELSE Aborted(calls)[t]
      BY <1>1, <2>2
    <3> QED
      BY <2>2, <3>1, AbortedOpen, NoSubmit
  <2>3. ASSUME NEW s \in Slots, NEW c, c.op # "submit", calls' = [Left EXCEPT ![s] = c]
        PROVE  \A t \in Slots : OpenCall(calls'[t], f) => OpenCall(calls[t], f)
    <3>1. \A t \in Slots : calls'[t] = IF t = s THEN c ELSE Left[t]
      BY <1>1, <2>3
    <3> QED
      BY <2>3, <3>1, LeftOpen, NoSubmit
  <2> QED
    BY <2>1, <2>2, <2>3
<1> QED
  BY <1>2, WaitsOn DEF Spares

LEMMA AnswersOpen ==
    ASSUME ConsoleInv, NEW s \in Slots, Busy(s), NEW part \in DOMAIN calls[s].answer,
           NEW lost \in BOOLEAN, Answers(s, part, lost), NEW f \in Forms
    PROVE  /\ \A t \in Slots : OpenCall(calls'[t], f) => OpenCall(calls[t], f)
           /\ \A t \in Slots : HomeSubmit(calls[t], f) => HomeSubmit(calls'[t], f)
           /\ Submits(calls[s], f) /\ Status(calls[s]) = 200 =>
                 OpenCall(calls[s], f) /\ ~OpenCall(calls'[s], f)
<1>1. PICK c : c = calls[s]
  OBVIOUS
<1>2. PICK a : a = Answer(c, part, lost)
  OBVIOUS
<1>3. PICK d : d = [c EXCEPT !.answer[part] = a]
  OBVIOUS
<1>4. CallOK(c) /\ calls'[s] = d /\ c.answer[part].status = 0 /\ part \in DOMAIN c.answer
  BY <1>1, <1>2, <1>3, SlotFacts DEF Answers
<1>5. d.op = c.op /\ d.arg = c.arg /\ d.home = c.home /\ d.answer[part] = a
  BY <1>3, <1>4, ReplyFacts
<1>6. c.op = "submit" => part = "main"
  BY <1>4 DEF CallOK, PartsOf, Loads
<1>7. /\ OpenCall(d, f) => OpenCall(c, f)
      /\ HomeSubmit(c, f) => HomeSubmit(d, f)
  BY <1>4, <1>5, <1>6 DEF OpenCall, HomeSubmit, Submits
<1>8. Submits(c, f) /\ Status(c) = 200 => OpenCall(c, f) /\ ~OpenCall(d, f)
  <2>1. Status(c) = 200 => a.status \in {200, 500}
    BY <1>2, AnswerFacts
  <2> QED
    BY <1>4, <1>5, <1>6, <2>1 DEF OpenCall, Submits
<1>9. ASSUME NEW t \in Slots \ {s}
      PROVE  /\ OpenCall(calls'[t], f) => OpenCall(calls[t], f)
             /\ HomeSubmit(calls[t], f) => HomeSubmit(calls'[t], f)
  <2>1. CASE Read(calls[t]) /\ shown' # shown
    <3>1. calls'[t] = [calls[t] EXCEPT !.tainted = TRUE] /\ calls[t].op \in Loads /\ Busy(t)
      BY <2>1 DEF Answers, Read, Busy, Loads
    <3>2. CallOK(calls[t])
      BY <3>1, SlotFacts
    <3>3. [calls[t] EXCEPT !.tainted = TRUE].op = calls[t].op
      BY <3>2 DEF CallOK, Fields
    <3> QED
      BY <3>1, <3>3, NoSubmit DEF Loads
  <2>2. CASE ~(Read(calls[t]) /\ shown' # shown)
    BY <2>2 DEF Answers
  <2> QED
    BY <2>1, <2>2
<1> QED
  BY <1>1, <1>4, <1>7, <1>8, <1>9

LEMMA HandleReserved ==
    ASSUME ConsoleInv, ConsoleInv', NEW s \in Slots, Busy(s), NEW part \in DOMAIN calls[s].answer,
           NEW lost \in BOOLEAN, Handle(s, part, lost), owed' = owed, NEW f \in Forms, Reserved(f)
    PROVE  Reserved(f)'
<1>1. TablesOK /\ CallOK(calls[s]) /\ clock' = clock /\ view' = view
  BY SlotFacts DEF ConsoleInv, Handle
<1>2. FormStays(f) /\ owed[f] <= owed'[f]
  BY <1>1, CountFacts DEF FormStays
<1>3. CASE Compares(s)
  <2>1. PICK c : c = [calls[s] EXCEPT !.checked = TRUE]
    OBVIOUS
  <2>2. c.op = "password" /\ calls[s].op = "password"
    BY <1>1, <1>3, <2>1 DEF CallOK, Fields, Compares
  <2>3. calls' = [calls EXCEPT ![s] = c] /\ applied' = applied
    BY <1>3, <2>1 DEF Compares, tables
  <2>4. Spares(f)
    BY <1>2, <2>2, <2>3, NoSubmit, PutSpares
  <2> QED
    BY <2>4, SparesReserved
<1>4. CASE Answers(s, part, lost)
  <2>1. /\ \A t \in Slots : OpenCall(calls'[t], f) => OpenCall(calls[t], f)
        /\ \A t \in Slots : HomeSubmit(calls[t], f) => HomeSubmit(calls'[t], f)
        /\ Submits(calls[s], f) /\ Status(calls[s]) = 200 =>
              OpenCall(calls[s], f) /\ ~OpenCall(calls'[s], f)
    BY <1>4, AnswersOpen
  <2>2. Waiting(f)' => Waiting(f)
    BY <1>2, <2>1, WaitsOn
  <2>3. PICK c : c = calls[s]
    OBVIOUS
  <2>4. applied' = IF c.op = "submit" /\ Status(c) = 200
                   THEN [applied EXCEPT ![c.arg.form] = @ + 1] ELSE applied
    BY <1>1, <1>4, <2>3, ApplyFacts DEF Answers
  <2>5. CASE Submits(c, f) /\ Status(c) = 200
    <3>1. applied'[f] = applied[f] + 1
      BY <1>1, <2>4, <2>5 DEF Submits, TablesOK
    <3>2. Cardinality(Open(f)') + 1 <= Cardinality(Open(f))
      BY <2>1, <2>3, <2>5, OpenDrops
    <3>3. PICK n \in Nat, m \in Nat : n = Cardinality(Open(f)) /\ m = Cardinality(Open(f)')
      BY CountFacts
    <3>4. applied[f] + n + (IF Waiting(f) THEN 1 ELSE 0) <= owed[f]
      BY <3>3 DEF Reserved
    <3>5. applied'[f] + m + (IF Waiting(f)' THEN 1 ELSE 0) <= owed'[f]
      BY <1>2, <2>2, <3>1, <3>2, <3>3, <3>4, CountFacts
    <3> QED
      BY <3>3, <3>5 DEF Reserved
  <2>6. CASE ~(Submits(c, f) /\ Status(c) = 200)
    <3>1. applied'[f] = applied[f]
      BY <1>1, <2>4, <2>6 DEF Submits, TablesOK
    <3> QED
      BY <1>2, <2>1, <2>2, <3>1, SparesReserved DEF Spares
  <2> QED
    BY <2>5, <2>6
<1> QED
  BY <1>3, <1>4, HandleFacts

LEMMA WriteReserved ==
    ASSUME ConsoleInv, ConsoleInv', NEW s \in Slots, Writes(s), owed' = owed,
           NEW f \in Forms, Reserved(f)
    PROVE  Reserved(f)'
<1>0. PICK a \in Outcomes : UpdatePassword(s, a)
  BY DEF Writes
<1>3. owed[f] <= owed'[f]
  BY CountFacts
<1>1. ASSUME NEW t \in Slots
      PROVE  /\ OpenCall(calls'[t], f) => OpenCall(calls[t], f)
             /\ HomeSubmit(calls[t], f) => HomeSubmit(calls'[t], f)
  <2>1. CASE calls[t].op \in {"password", "login", "register"}
    <3>1. CallOK(calls[t])
      BY <2>1, SlotFacts DEF Busy
    <3>2. calls'[t].op = calls[t].op
      <4>1. CASE t = s
        <5>1. calls'[s] = [calls[s] EXCEPT !.answer["main"] = a]
          BY <1>0, WriteFacts
        <5> QED
          BY <3>1, <4>1, <5>1 DEF CallOK, Fields
      <4>2. CASE t # s
        <5>1. calls'[t] = [calls[t] EXCEPT !.tainted = TRUE]
          BY <2>1, <4>2, <1>0, WriteFacts
        <5> QED
          BY <3>1, <5>1 DEF CallOK, Fields
      <4> QED
        BY <4>1, <4>2
    <3> QED
      BY <2>1, <3>2, NoSubmit
  <2>2. CASE calls[t].op \notin {"password", "login", "register"}
    <3>1. t # s
      BY <2>2, <1>0, WriteFacts
    <3> QED
      BY <2>2, <3>1, <1>0, WriteFacts
  <2> QED
    BY <2>1, <2>2
<1>2. FormStays(f) /\ applied' = applied
  BY <1>0 DEF UpdatePassword, FormStays
<1> QED
  BY <1>3, <1>1, <1>2, WaitsOn, SparesReserved DEF Spares

LEMMA NetworkReserved ==
    ASSUME ConsoleInv, ConsoleInv', NEW s \in Slots, Network(s), NEW f \in Forms, Reserved(f)
    PROVE  Reserved(f)'
<1>1. owed' = owed /\ owed[f] <= owed'[f]
  BY CountFacts DEF Network, history
<1>2. CASE Serve(s)
  <2>1. PICK lost \in BOOLEAN : lost = FALSE
    OBVIOUS
  <2> QED
    BY <1>1, <1>2, <2>1, HandleReserved DEF Serve
<1>3. CASE WritePassword(s)
  BY <1>1, <1>3, WritesPassword, WriteReserved
<1>4. CASE Unauthorized(s)
  <2>1. view' = FreshView("login") /\ calls' = Aborted(calls) /\ applied' = applied
    BY <1>4 DEF Unauthorized, LeaveSession, server, tables
  <2>2. NoForms
    BY <2>1 DEF FreshView, NoForms
  <2> QED
    BY <1>1, <2>1, <2>2, LeavingSpares, SparesReserved
<1>5. CASE Forget(s)
  <2>1. calls' = [calls EXCEPT ![s] = Idle] /\ view' = view /\ applied' = applied
        /\ calls[s].home = "gone"
    BY <1>5 DEF Forget, server, tables
  <2>2. FormStays(f) /\ ~HomeSubmit(calls[s], f)
    BY <2>1 DEF FormStays, HomeSubmit
  <2>3. ~OpenCall(Idle, f)
    BY IdleFacts, NoSubmit
  <2> QED
    BY <1>1, <2>1, <2>2, <2>3, PutSpares, SparesReserved
<1> QED
  BY <1>2, <1>3, <1>4, <1>5 DEF Network

\* A call that is no submission makes way for another that is none.
LEMMA PlainReserved ==
    ASSUME ConsoleInv, ConsoleInv', NEW s \in Slots, calls[s].op # "submit",
           NEW c, c.op # "submit", calls' = [calls EXCEPT ![s] = c],
           UNCHANGED <<applied, owed>>, NEW f \in Forms, FormStays(f), Reserved(f)
    PROVE  Reserved(f)'
<1>1. owed[f] <= owed'[f]
  BY CountFacts
<1> QED
  BY <1>1, NoSubmit, PutSpares, SparesReserved

LEMMA PushReserved ==
    ASSUME ConsoleInv, ConsoleInv', NEW s \in Slots, calls[s].op # "submit",
           NEW page \in {"login", "dashboard"}, NEW token, token = NoToken \/ Issued(token),
           Push(s, page, token), UNCHANGED <<applied, owed>>, NEW f \in Forms, Reserved(f)
    PROVE  Reserved(f)'
<1>1. CASE view.page = Landing(page, token)
  <2>1. view' = view /\ calls' = [calls EXCEPT ![s] = Idle]
    BY <1>1 DEF Push
  <2> QED
    BY <2>1, IdleFacts, PlainReserved DEF FormStays
<1>2. CASE view.page # Landing(page, token)
  <2>1. PICK to \in {"login", "dashboard"} : to = Landing(page, token)
    BY DEF Landing
  <2>2. view' = FreshView(to)
    BY <1>2, <2>1 DEF Push
  <2>3. NoForms
    BY <2>2 DEF FreshView, NoForms
  <2>4. PICK c : c = MountCall(page, token)
    OBVIOUS
  <2>5. c.op # "submit"
    BY <2>4, IdleFacts, MountFacts DEF Pages
  <2>6. calls' = [Left EXCEPT ![s] = c]
    BY <1>2, <2>4 DEF Push, Left
  <2>7. applied'[f] = applied[f] /\ owed[f] <= owed'[f]
    BY CountFacts
  <2> QED
    BY <2>3, <2>5, <2>6, <2>7, LeavingSpares, SparesReserved
<1> QED
  BY <1>1, <1>2

LEMMA ContinueReserved ==
    ASSUME ConsoleInv, ConsoleInv', NEW s \in Slots, Continue(s), NEW f \in Forms, Reserved(f)
    PROVE  Reserved(f)'
<1>1. /\ Busy(s) /\ CallOK(calls[s]) /\ Fits(calls[s], view.page) /\ ViewOK /\ TablesOK
      /\ DOMAIN calls = Slots
  BY SlotFacts DEF Continue, ConsoleInv
<1>2. applied' = applied
  BY ContinueWrites
<1>3. Idle.op # "submit" /\ ~OpenCall(Idle, f)
  BY IdleFacts, NoSubmit
<1>4. CASE SignedIn(s)
  <2>1. calls[s].op # "submit" /\ owed' = owed
    BY <1>4 DEF SignedIn, Sessionless, history
  <2>2. PICK token : token = storage'
    OBVIOUS
  <2>3. Issued(token) /\ Push(s, "dashboard", token)
    BY <1>1, <1>4, <2>2, SignedInFacts
  <2>4. PICK page \in {"login", "dashboard"} : page = "dashboard"
    OBVIOUS
  <2> QED
    BY <1>2, <2>1, <2>3, <2>4, PushReserved
<1>5. CASE SignInFails(s)
  <2>1. calls[s].op # "submit" /\ owed' = owed /\ calls' = [calls EXCEPT ![s] = Idle]
    BY <1>5 DEF SignInFails, Sessionless, history
  <2>2. FormStays(f)
    BY <1>1, <1>5 DEF SignInFails, On, FormStays, ViewOK
  <2> QED
    BY <1>2, <1>3, <2>1, <2>2, PlainReserved
<1>6. CASE KnowMe(s)
  <2>1. calls[s].op # "submit" /\ owed' = owed /\ (storage = NoToken \/ Issued(storage))
    BY <1>1, <1>6 DEF KnowMe, history, TablesOK
  <2>2. CASE Succeeded(s) /\ calls[s].answer["main"].body \in Admins
    <3>1. PICK home \in Homes : home = calls[s].home
      BY <1>1 DEF CallOK
    <3>2. PICK op \in PlainOps : op = "loadAll"
      BY DEF PlainOps
    <3>3. PICK token : token = storage
      OBVIOUS
    <3>4. PICK c : c = NewCall(op, Nothing, home, token)
      OBVIOUS
    <3>5. view' = view /\ calls' = [calls EXCEPT ![s] = c]
      BY <1>6, <2>2, <3>1, <3>2, <3>3, <3>4 DEF KnowMe
    <3>6. c.op = op
      BY <2>1, <3>3, <3>4, PlainCall
    <3> QED
      BY <1>2, <2>1, <3>2, <3>5, <3>6, PlainReserved DEF FormStays
  <2>3. CASE ~(Succeeded(s) /\ calls[s].answer["main"].body \in Admins)
    <3>1. PICK page \in {"login", "dashboard"} : Push(s, page, storage)
      BY <1>6, <2>3 DEF KnowMe
    <3>2. PICK token : token = storage
      OBVIOUS
    <3> QED
      BY <1>2, <2>1, <3>1, <3>2, PushReserved
  <2> QED
    BY <2>2, <2>3
<1>7. CASE LoadSucceeds(s)
  <2>1. calls[s].op # "submit" /\ owed' = owed /\ calls' = [calls EXCEPT ![s] = Idle]
    BY <1>7 DEF LoadSucceeds, Loads, history
  <2>2. FormStays(f)
    BY <1>1, <1>7
    DEF LoadSucceeds, ShowData, FormStays, ViewOK, Fits, Offers, Loads, PageOps, PanelOps
  <2> QED
    BY <1>2, <1>3, <2>1, <2>2, PlainReserved
<1>8. CASE LoadFails(s)
  <2>1. PICK c : c = Remainder(s)
    OBVIOUS
  <2>2. c.op # "submit" /\ calls[s].op # "submit" /\ owed' = owed
    BY <1>1, <1>3, <1>8, <2>1, RemainderFacts DEF LoadFails, Loads, history
  <2>3. CASE calls[s].op = "load" /\ ~On("login")
    <3>1. /\ view' = FreshView("login")
          /\ calls' = [t \in Slots |-> IF t = s THEN c ELSE Left[t]]
      BY <1>8, <2>1, <2>3 DEF LoadFails, Left
    <3>2. calls' = [Left EXCEPT ![s] = c]
      BY <3>1 DEF Left
    <3>3. NoForms
      BY <3>1 DEF FreshView, NoForms
    <3>4. applied'[f] = applied[f] /\ owed[f] <= owed'[f]
      BY <1>2, <2>2, CountFacts
    <3> QED
      BY <2>2, <3>2, <3>3, <3>4, LeavingSpares, SparesReserved
  <2>4. CASE ~(calls[s].op = "load" /\ ~On("login"))
    <3>1. /\ calls' = [calls EXCEPT ![s] = c]
          /\ (view' = [view EXCEPT !.error = TRUE] /\ view.page = "admin") \/ view' = view
      BY <1>8, <2>1, <2>4 DEF LoadFails, On
    <3>2. FormStays(f)
      BY <1>1, <3>1 DEF FormStays, ViewOK
    <3> QED
      BY <1>2, <2>2, <3>1, <3>2, PlainReserved
  <2> QED
    BY <2>3, <2>4
<1>9. CASE SettledEnds(s) \/ PasswordAnswered(s)
  <2>1. calls[s].op # "submit" /\ owed' = owed /\ calls' = [calls EXCEPT ![s] = Idle] /\ view' = view
    BY <1>9 DEF SettledEnds, PasswordAnswered, history
  <2> QED
    BY <1>2, <1>3, <2>1, PlainReserved DEF FormStays
<1>10. CASE ChangeSucceeds(s)
  <2>1. storage = NoToken \/ Issued(storage)
    BY <1>1 DEF TablesOK
  <2>2. PICK home \in Homes : home = calls[s].home
    BY <1>1 DEF CallOK
  <2>3. PICK op \in PlainOps : op = IF calls[s].op \in AdminOps THEN "loadAll" ELSE "load"
    BY DEF PlainOps
  <2>4. PICK token : token = storage
    OBVIOUS
  <2>5. PICK c : c = NewCall(op, Nothing, home, token)
    OBVIOUS
  <2>6. calls' = [calls EXCEPT ![s] = c] /\ view' = Cleared(calls[s]) /\ owed' = owed
    BY <1>10, <2>2, <2>3, <2>4, <2>5 DEF ChangeSucceeds, Reload, history
  <2>7. c.op = op
    BY <2>1, <2>4, <2>5, PlainCall
  <2>8. c.op # "submit" /\ ~OpenCall(c, f)
    BY <2>3, <2>7, NoSubmit
  <2>9. view'.page = view.page /\ (view'.page = "admin" => FormStays(f))
        /\ (HomeSubmit(calls[s], f) => ~view'.filled[f] /\ view.page = "admin")
    <3>1. CASE calls[s].op = "submit" /\ calls[s].home = "page"
      <4>1. view.page = "admin" /\ calls[s].arg.form \in Forms /\ view.filled \in [Forms -> BOOLEAN]
            /\ DOMAIN view = {"page", "totals", "table", "error", "filled"}
        BY <1>1, <3>1 DEF Fits, Offers, PanelOps, CallOK, ArgOK, ViewOK
      <4>2. view' = [view EXCEPT !.filled[calls[s].arg.form] = FALSE]
        BY <2>6, <3>1 DEF Cleared
      <4>3. view'.page = view.page
            /\ \A g \in Forms : view'.filled[g] = IF g = calls[s].arg.form THEN FALSE ELSE view.filled[g]
        BY <4>1, <4>2
      <4> QED
        BY <4>1, <4>3 DEF FormStays, HomeSubmit, Submits
    <3>2. CASE ~(calls[s].op = "submit" /\ calls[s].home = "page")
      BY <2>6, <3>2 DEF Cleared, FormStays, HomeSubmit, Submits
    <3> QED
      BY <3>1, <3>2
  <2>10. FormStays(f)
    BY <2>9 DEF FormStays
  <2>11. \A t \in Slots : calls'[t] = IF t = s THEN c ELSE calls[t]
    BY <1>1, <2>6
  <2>12. \A t \in Slots : OpenCall(calls'[t], f) => OpenCall(calls[t], f)
    BY <2>8, <2>11
  <2>13. Waiting(f)' => Waiting(f)
    <3>1. CASE HomeSubmit(calls[s], f)
      BY <2>9, <3>1 DEF Waiting
    <3>2. CASE ~HomeSubmit(calls[s], f)
      BY <2>10, <2>11, <3>2, WaitsOn
    <3> QED
      BY <3>1, <3>2
  <2>14. applied'[f] = applied[f] /\ owed[f] <= owed'[f]
    BY <1>2, <2>6, CountFacts
  <2> QED
    BY <2>12, <2>13, <2>14, SparesReserved DEF Spares
<1>11. CASE ChangeFails(s)
  <2>1. /\ calls' = [calls EXCEPT ![s] = Idle] /\ view' = view /\ Failed(s)
        /\ calls[s].op \in {"create", "delete", "toggle", "submit"}
        /\ owed' = IF calls[s].op = "submit" /\ calls[s].answer["main"].status = 500
                   THEN [owed EXCEPT ![calls[s].arg.form] = @ + 1] ELSE owed
    BY <1>11 DEF ChangeFails
  <2>2. FormStays(f)
    BY <2>1 DEF FormStays
  <2>3. \A t \in Slots : calls'[t] = IF t = s THEN Idle ELSE calls[t]
    BY <1>1, <2>1
  <2>4. \A t \in Slots : OpenCall(calls'[t], f) => OpenCall(calls[t], f)
    BY <1>3, <2>3
  <2>5. owed[f] <= owed'[f]
    BY <1>1, <2>1, CountFacts DEF TablesOK, CallOK, ArgOK
  <2>6. CASE Submits(calls[s], f)
    <3>1. PICK n \in Nat, m \in Nat : n = Cardinality(Open(f)) /\ m = Cardinality(Open(f)')
      BY CountFacts
    <3>2. applied[f] + n + (IF Waiting(f) THEN 1 ELSE 0) <= owed[f]
      BY <3>1 DEF Reserved
    <3>3. CASE calls[s].answer["main"].status = 500
      <4>1. owed'[f] = owed[f] + 1
        BY <1>1, <2>1, <2>6, <3>3 DEF Submits, TablesOK
      <4>2. m <= n
        BY <2>4, <3>1, OpenShrinks
      <4>3. applied'[f] + m + (IF Waiting(f)' THEN 1 ELSE 0) <= owed'[f]
        BY <1>2, <3>1, <3>2, <4>1, <4>2, CountFacts
      <4> QED
        BY <3>1, <4>3 DEF Reserved
    <3>4. CASE calls[s].answer["main"].status # 500
      <4>1. DOMAIN calls[s].answer = {"main"}
        BY <1>1, <2>6 DEF Submits, CallOK, PartsOf, Loads
      <4>2. OpenCall(calls[s], f)
        BY <2>1, <2>6, <3>4, <4>1 DEF Failed, OpenCall
      <4>3. ~OpenCall(calls'[s], f)
        BY <1>3, <2>3
      <4>4. m + 1 <= n
        BY <2>4, <3>1, <4>2, <4>3, OpenDrops
      <4>5. applied'[f] + m + (IF Waiting(f)' THEN 1 ELSE 0) <= owed'[f]
        BY <1>2, <2>5, <3>1, <3>2, <4>4, CountFacts
      <4> QED
        BY <3>1, <4>5 DEF Reserved
    <3> QED
      BY <3>3, <3>4
  <2>7. CASE ~Submits(calls[s], f)
    <3>1. ~HomeSubmit(calls[s], f)
      BY <2>7 DEF HomeSubmit
    <3>2. Waiting(f)' => Waiting(f)
      BY <2>2, <2>3, <3>1, WaitsOn
    <3> QED
      BY <1>2, <2>4, <2>5, <3>2, SparesReserved DEF Spares
  <2> QED
    BY <2>6, <2>7
<1> QED
  BY <1>4, <1>5, <1>6, <1>7, <1>8, <1>9, <1>10, <1>11 DEF Continue

\* A click that submits no form.
LEMMA ClickReserved ==
    ASSUME ConsoleInv, ConsoleInv', NEW op \in CallOps, NEW arg, ArgOK(op, arg), Click(op, arg),
           op # "submit", UNCHANGED <<applied, owed>>, NEW f \in Forms, FormStays(f), Reserved(f)
    PROVE  Reserved(f)'
<1>0. PICK s \in Slots : calls[s] = Idle /\ \E c : calls' = [calls EXCEPT ![s] = c] /\ c.op = op
  BY ClickFacts
<1>1. PICK c : calls[s] = Idle /\ calls' = [calls EXCEPT ![s] = c] /\ c.op = op
  BY <1>0
<1> QED
  BY <1>1, IdleFacts, PlainReserved

LEMMA QuietApplied ==
    ASSUME Quietly
    PROVE  applied' = applied
  BY DEF Quietly, server, tables

LEMMA FillReserved ==
    ASSUME ConsoleInv, ConsoleInv', NEW g \in Forms, Fill(g), NEW f \in Forms, Reserved(f)
    PROVE  Reserved(f)'
<1>1. /\ applied' = applied /\ calls' = calls /\ owed' = [owed EXCEPT ![g] = @ + 1] /\ ~view.filled[g]
      /\ view' = [view EXCEPT !.filled[g] = TRUE] /\ view.page = "admin" /\ ViewOK /\ TablesOK
  BY QuietApplied DEF Fill, FormPanel, On, ConsoleInv
<1>2. DOMAIN view = {"page", "totals", "table", "error", "filled"} /\ view.filled \in [Forms -> BOOLEAN]
  BY <1>1 DEF ViewOK
<1>3. view'.page = view.page /\ \A h \in Forms : h # g => view'.filled[h] = view.filled[h]
  BY <1>1, <1>2
<1>4. owed[f] <= owed'[f] /\ (f = g => owed'[f] = owed[f] + 1)
  BY <1>1, CountFacts DEF TablesOK
<1>5. CASE f = g
  <2>1. PICK n \in Nat : n = Cardinality(Open(f)) /\ n = Cardinality(Open(f)')
    BY <1>1, CountFacts DEF Open
  <2>2. ~Waiting(f)
    BY <1>1, <1>5 DEF Waiting
  <2>3. applied[f] + n + 0 <= owed[f]
    BY <2>1, <2>2 DEF Reserved
  <2>4. applied'[f] + n + (IF Waiting(f)' THEN 1 ELSE 0) <= owed'[f]
    BY <1>1, <1>4, <1>5, <2>1, <2>3, CountFacts
  <2> QED
    BY <2>1, <2>4 DEF Reserved
<1>6. CASE f # g
  <2>1. FormStays(f)
    BY <1>3, <1>6 DEF FormStays
  <2>2. Waiting(f)' => Waiting(f)
    BY <1>1, <2>1, WaitsOn
  <2> QED
    BY <1>1, <1>4, <2>2, SparesReserved DEF Spares
<1> QED
  BY <1>5, <1>6

LEMMA SubmitReserved ==
    ASSUME ConsoleInv, ConsoleInv', NEW g \in Forms, Submit(g), NEW f \in Forms, Reserved(f)
    PROVE  Reserved(f)'
<1>1. /\ applied' = applied /\ view' = view /\ view.page = "admin" /\ view.filled[g] /\ TablesOK
      /\ DOMAIN calls = Slots /\ Click("submit", [form |-> g])
      /\ owed' = owed \/ owed' = [owed EXCEPT ![g] = @ + 1]
  BY QuietApplied DEF Submit, FormPanel, On, ConsoleInv, CallsSound
<1>2a. PICK op \in CallOps : op = "submit"
  BY DEF CallOps, PanelOps
<1>2. PICK arg : op = "submit" /\ arg = [form |-> g]
  BY <1>2a
<1>3. ArgOK(op, arg)
  BY <1>2 DEF ArgOK, Sessionless
<1>4a. PICK s \in Slots : \E c : /\ calls[s] = Idle /\ calls' = [calls EXCEPT ![s] = c]
                                  /\ c.op = op /\ c.arg = arg /\ c.home = "page"
  BY <1>1, <1>2, <1>3, ClickFacts
<1>4. PICK c : /\ calls[s] = Idle /\ calls' = [calls EXCEPT ![s] = c]
               /\ c.op = op /\ c.arg = arg /\ c.home = "page"
  BY <1>4a
<1>5. c.op = "submit" /\ c.arg.form = g
  BY <1>2, <1>4
<1>6. \A t \in Slots : calls'[t] = IF t = s THEN c ELSE calls[t]
  BY <1>1, <1>4
<1>7. ~HomeSubmit(Idle, f)
  BY IdleFacts, NoSubmit
<1>8. Waiting(f)' => Waiting(f)
  <2>1. FormStays(f)
    BY <1>1 DEF FormStays
  <2>2. \A t \in Slots : HomeSubmit(calls[t], f) => HomeSubmit(calls'[t], f)
    BY <1>4, <1>6, <1>7
  <2> QED
    BY <2>1, <2>2, WaitsOn
<1>9. owed[f] <= owed'[f]
  <2>1. owed'[f] = owed[f] \/ owed'[f] = owed[f] + 1
    BY <1>1 DEF TablesOK
  <2> QED
    BY <2>1, CountFacts
<1>10. CASE f # g
  <2>1. ~OpenCall(c, f)
    BY <1>5, <1>10 DEF OpenCall, Submits
  <2>2. \A t \in Slots : OpenCall(calls'[t], f) => OpenCall(calls[t], f)
    BY <1>6, <2>1
  <2> QED
    BY <1>1, <1>8, <1>9, <2>2, SparesReserved DEF Spares
<1>11. CASE f = g
  <2>1. PICK n \in Nat, m \in Nat : n = Cardinality(Open(f)) /\ m = Cardinality(Open(f)')
    BY CountFacts
  <2>2. m <= n + 1
    BY <1>6, <2>1, OpenGrows
  <2>3. applied[f] + n + (IF Waiting(f) THEN 1 ELSE 0) <= owed[f]
    BY <2>1 DEF Reserved
  <2>4. ~Waiting(f)'
    <3>1. HomeSubmit(calls'[s], f)
      BY <1>4, <1>5, <1>6, <1>11 DEF HomeSubmit, Submits
    <3> QED
      BY <3>1 DEF Waiting
  <2>5. CASE \E t \in InUse : calls[t].op = "submit" /\ calls[t].arg.form = f
    <3>1. owed'[f] = owed[f] + 1
      BY <1>1, <1>11, <2>5 DEF Submit, TablesOK
    <3>2. applied'[f] + m + 0 <= owed'[f]
      BY <1>1, <2>1, <2>2, <2>3, <3>1, CountFacts
    <3> QED
      BY <2>1, <2>4, <3>2 DEF Reserved
  <2>6. CASE ~ \E t \in InUse : calls[t].op = "submit" /\ calls[t].arg.form = f
    <3>1. Waiting(f)
      BY <1>1, <1>11, <2>6 DEF Waiting, HomeSubmit, Submits, InUse, Busy
    <3>2. applied'[f] + m + 0 <= owed'[f]
      BY <1>1, <1>9, <2>1, <2>2, <2>3, <3>1, CountFacts
    <3> QED
      BY <2>1, <2>4, <3>2 DEF Reserved
  <2> QED
    BY <2>5, <2>6
<1> QED
  BY <1>10, <1>11

LEMMA UserReserved ==
    ASSUME ConsoleInv, ConsoleInv', User, NEW f \in Forms, Reserved(f)
    PROVE  Reserved(f)'
<1>1. ViewOK /\ TablesOK /\ owed[f] <= owed[f]
  BY CountFacts DEF ConsoleInv
<1>2. ASSUME NEW u \in Visitors, NEW p \in Typed, NEW op \in Sessionless, SubmitLogin(op, u, p)
      PROVE  Reserved(f)'
  <2>1. PICK arg : arg = [user |-> u, password |-> p]
    OBVIOUS
  <2>2. u \in Users /\ p \in Passwords
    BY PasswordsAssumption DEF Visitors, Typed
  <2>3. op \in CallOps /\ ArgOK(op, arg) /\ op # "submit"
    BY <2>1, <2>2 DEF CallOps, ArgOK, Sessionless
  <2>4. Click(op, arg) /\ Quietly /\ owed' = owed
    BY <1>2, <2>1 DEF SubmitLogin, history
  <2>5. FormStays(f)
    BY <1>1, <1>2 DEF SubmitLogin, LoginForm, On, ViewOK, FormStays
  <2> QED
    BY <2>3, <2>4, <2>5, QuietApplied, ClickReserved
<1>3. ASSUME NEW op \in {"create", "delete", "password", "toggle"}, NEW arg, ArgOK(op, arg),
             Click(op, arg), Quietly, view' = view, UNCHANGED history
      PROVE  Reserved(f)'
  <2>1. op \in CallOps /\ op # "submit"
    BY <1>3 DEF CallOps, PageOps, PanelOps
  <2>2. FormStays(f) /\ owed' = owed
    BY <1>3 DEF FormStays, history
  <2> QED
    BY <1>3, <2>1, <2>2, QuietApplied, ClickReserved
<1>4. CASE CreateKey
  <2>1. ArgOK("create", Nothing)
    BY DEF ArgOK, Sessionless
  <2> QED
    BY <1>3, <1>4, <2>1 DEF CreateKey
<1>5. CASE DeleteKey
  <2>1. PICK k \in KeysShown : Click("delete", [key |-> k])
    BY <1>5 DEF DeleteKey
  <2>2. ArgOK("delete", [key |-> k])
    BY DEF ArgOK, Sessionless
  <2> QED
    BY <1>3, <1>5, <2>1, <2>2 DEF DeleteKey
<1>6. ASSUME NEW old \in Passwords, NEW new \in Passwords, ChangePassword(old, new)
      PROVE  Reserved(f)'
  <2>1. ArgOK("password", [old |-> old, new |-> new])
    BY DEF ArgOK, Sessionless
  <2> QED
    BY <1>3, <1>6, <2>1 DEF ChangePassword
<1>7. ASSUME NEW r \in Rows, Toggle(r)
      PROVE  Reserved(f)'
  <2>1. ArgOK("toggle", [row |-> r, value |-> ~view.table[r]])
    BY DEF ArgOK, Sessionless
  <2> QED
    BY <1>3, <1>7, <2>1 DEF Toggle
<1>8. CASE Logout
  <2>1. view' = FreshView("login") /\ calls' = Aborted(calls) /\ applied' = applied /\ owed' = owed
    BY <1>8 DEF Logout, LeaveSession, server, tables, history
  <2>2. NoForms
    BY <2>1 DEF FreshView, NoForms
  <2> QED
    BY <1>1, <2>1, <2>2, LeavingSpares, SparesReserved
<1>9. ASSUME NEW page \in Pages, Visit(page), UNCHANGED history
      PROVE  Reserved(f)'
  <2>1. NoForms /\ applied' = applied /\ owed' = owed
    BY <1>9, VisitFresh DEF NoForms, Visit, server, tables, history
  <2>2. storage = NoToken \/ Issued(storage)
    BY <1>1 DEF TablesOK
  <2>3. PICK c : c = MountCall(page, storage)
    OBVIOUS
  <2>4. c.op # "submit"
    BY <2>2, <2>3, IdleFacts, MountFacts
  <2>5. PICK s \in Slots : calls' = [Aborted(calls) EXCEPT ![s] = c]
    BY <1>9, <2>3 DEF Visit
  <2> QED
    BY <1>1, <2>1, <2>4, <2>5, LeavingSpares, SparesReserved
<1> QED
  BY <1>2, <1>4, <1>5, <1>6, <1>7, <1>8, <1>9, FillReserved, SubmitReserved DEF User, Pages

LEMMA OthersReserved ==
    ASSUME ConsoleInv, ConsoleInv', Others, NEW f \in Forms, Reserved(f)
    PROVE  Reserved(f)'
<1>1. owed' = owed /\ owed[f] <= owed'[f]
  BY CountFacts DEF Others, history
<1>2. ASSUME NEW s \in Slots, Fails(s)
      PROVE  Reserved(f)'
  <2>1. PICK part \in DOMAIN calls[s].answer, a \in Refusals :
           /\ calls[s].answer[part].status = 0 /\ calls' = Reply(s, part, a)
           /\ calls[s].op = "submit" => a.status = 500
    BY <1>2 DEF Fails
  <2>2. PICK c : c = calls[s]
    OBVIOUS
  <2>4. PICK d : d = [c EXCEPT !.answer[part] = a]
    OBVIOUS
  <2>5. CallOK(c)
    BY <1>2, <2>2, SlotFacts DEF Fails
  <2>6. d.op = c.op /\ d.arg = c.arg /\ d.home = c.home /\ d.answer[part] = a
    BY <2>1, <2>2, <2>4, <2>5, ReplyFacts
  <2>7. c.op = "submit" => part = "main"
    BY <2>1, <2>2, <2>5 DEF CallOK, PartsOf, Loads
  <2>8. ~OpenCall(d, f) /\ (HomeSubmit(c, f) => HomeSubmit(d, f))
    BY <2>1, <2>2, <2>6, <2>7 DEF OpenCall, HomeSubmit, Submits
  <2>9. calls' = [calls EXCEPT ![s] = d]
    BY <2>1, <2>2, <2>4 DEF Reply
  <2>10. FormStays(f) /\ applied' = applied
    BY <1>2 DEF Fails, FormStays, server, tables
  <2> QED
    BY <1>1, <2>2, <2>8, <2>9, <2>10, PutSpares, SparesReserved
<1>3. ASSUME NEW s \in Slots, ServeAndLose(s)
      PROVE  Reserved(f)'
  <2>1. PICK lost \in BOOLEAN : lost = TRUE
    OBVIOUS
  <2> QED
    BY <1>1, <1>3, <2>1, HandleReserved DEF ServeAndLose
<1>4. ASSUME NEW u \in Users, OtherClient(u)
      PROVE  Reserved(f)'
  <2>1. calls' = Taint(calls) /\ view' = view /\ applied' = applied
    BY <1>4 DEF OtherClient
  <2>2. ASSUME NEW t \in Slots
        PROVE  /\ OpenCall(calls'[t], f) => OpenCall(calls[t], f)
               /\ HomeSubmit(calls[t], f) => HomeSubmit(calls'[t], f)
    <3>1. CASE Read(calls[t])
      <4>1. calls'[t] = [calls[t] EXCEPT !.tainted = TRUE] /\ calls[t].op \in Loads /\ Busy(t)
        BY <2>1, <3>1 DEF Taint, Read, Busy, Loads
      <4>2. CallOK(calls[t])
        BY <4>1, SlotFacts
      <4>3. [calls[t] EXCEPT !.tainted = TRUE].op = calls[t].op
        BY <4>2 DEF CallOK, Fields
      <4> QED
        BY <4>1, <4>3, NoSubmit DEF Loads
    <3>2. CASE ~Read(calls[t])
      BY <2>1, <3>2 DEF Taint
    <3> QED
      BY <3>1, <3>2
  <2>3. FormStays(f)
    BY <2>1 DEF FormStays
  <2> QED
    BY <1>1, <2>1, <2>2, <2>3, WaitsOn, SparesReserved DEF Spares
<1>5. CASE (\E u \in Users : OtherTabSignsIn(u)) \/ OtherTabSignsOut \/ DaysPass
  <2>1. calls' = calls /\ view' = view /\ applied' = applied
    BY <1>5 DEF OtherTabSignsIn, OtherTabSignsOut, DaysPass, server, tables, session
  <2> QED
    BY <1>1, <2>1, SparesReserved DEF Spares, Waiting
<1>6. ASSUME NEW s \in Slots, FailCall(s) \/ WriteFails(s) \/ WriteAndLose(s)
      PROVE  Reserved(f)'
  <2>1. CASE FailCall(s) \/ WriteFails(s)
    BY <1>2, <2>1, FailsCall
  <2>2. CASE WriteAndLose(s)
    BY <1>1, <2>2, WritesPassword, WriteReserved
  <2> QED
    BY <1>6, <2>1, <2>2
<1> QED
  BY <1>3, <1>4, <1>5, <1>6 DEF Others

LEMMA CreditsStep ==
    ASSUME ConsoleInv, ConsoleInv', CreditsReserved, [Next]_vars
    PROVE  CreditsReserved'
<1> SUFFICES ASSUME NEW f \in Forms
             PROVE  Reserved(f)'
  BY DEF CreditsReserved
<1>1. Reserved(f)
  BY DEF CreditsReserved
<1>2. CASE UNCHANGED vars
  <2>1. calls' = calls /\ view' = view /\ applied' = applied /\ owed' = owed
    BY <1>2 DEF vars, server, tables, session, history
  <2> QED
    BY <1>1, <2>1 DEF Reserved, Open, Waiting
<1> QED
  BY <1>1, <1>2, NetworkReserved, ContinueReserved, UserReserved, OthersReserved DEF Next

-----------------------------------------------------------------------------
(* The steps that deactivate a key, and those that end a session. *)

LEMMA KeyStep ==
    ASSUME ConsoleInv, [Next]_vars, NEW k \in DOMAIN apiKeys,
           apiKeys[k].active, ~apiKeys'[k].active
    PROVE  \/ OtherClient(apiKeys[k].owner)
           \/ \E s \in InUse : /\ calls[s].op = "delete"
                               /\ calls[s].by # NoToken /\ calls[s].by.user = apiKeys[k].owner
<1>1. TablesOK /\ apiKeys \in Seq(KeyRows) /\ apiKeys'[k] # apiKeys[k]
  BY DEF ConsoleInv, TablesOK
<1>2. ASSUME NEW s \in Slots, Busy(s), NEW part \in DOMAIN calls[s].answer,
             NEW lost \in BOOLEAN, Handle(s, part, lost)
      PROVE  /\ s \in InUse /\ calls[s].op = "delete"
             /\ calls[s].by # NoToken /\ calls[s].by.user = apiKeys[k].owner
  <2>1. Answers(s, part, lost)
    <3>1. ~Compares(s)
      BY <1>1 DEF Compares, tables
    <3> QED
      BY <1>2, <3>1, HandleFacts
  <2>2. PICK c : c = calls[s]
    OBVIOUS
  <2>3. Apply(c) /\ CallOK(c)
    BY <1>2, <2>1, <2>2, SlotFacts DEF Answers
  <2>4. apiKeys' # apiKeys
    BY <1>1
  <2>5. ~CreateAPIKey(c)
    BY <1>1 DEF CreateAPIKey
  <2>6. c.op = "delete" /\ Status(c) = 200 /\ Deactivate(c)
    BY <2>3, <2>4, <2>5 DEF Apply, tables
  <2>7. c.by # NoToken
    BY <2>3, <2>6, StatusFacts DEF Sessionless, Valid
  <2>8. apiKeys[k].owner = c.by.user
    BY <1>1, <2>6 DEF Deactivate
  <2> QED
    BY <1>2, <2>2, <2>6, <2>7, <2>8 DEF InUse
<1>3. CASE Handles
  BY <1>2, <1>3 DEF Handles
<1>4. CASE Records
  BY <1>1, <1>4 DEF Records, SignedIn, PasswordAnswered, Writes, UpdatePassword, server, tables
<1>5. ASSUME NEW u \in Users, OtherClient(u)
      PROVE  apiKeys[k].owner = u
  BY <1>1, <1>5 DEF OtherClient, Deactivate
<1> QED
  BY <1>1, <1>3, <1>4, <1>5, Writers

LEMMA SessionStep ==
    ASSUME ConsoleInv, [Next]_vars, storage # NoToken, storage' = NoToken, Valid(storage)
    PROVE  \/ Logout \/ OtherTabSignsOut
           \/ \E s \in InUse : Refused(s) /\ (calls[s].op = "login" \/ calls[s].by # storage)
<1>1. TablesOK
  BY DEF ConsoleInv
<1>2. storage' # storage
  OBVIOUS
<1>3. ASSUME NEW s \in Slots, Network(s)
      PROVE  \E t \in InUse : Refused(t) /\ (calls[t].op = "login" \/ calls[t].by # storage)
  <2>1. Unauthorized(s)
    BY <1>2, <1>3 DEF Network, Serve, Handle, WritePassword, UpdatePassword, Forget
  <2>2. Busy(s) /\ Refused(s)
    BY <2>1 DEF Unauthorized, EndsSession
  <2>3. CallOK(calls[s]) /\ RefusalOK(calls[s])
    BY <2>2, SlotFacts DEF Sound
  <2>4. calls[s].op = "login" \/ calls[s].by = NoToken \/ calls[s].by.issued < clock
    BY <2>2, <2>3 DEF Refused, RefusalOK
  <2>5. storage.issued = clock /\ clock \in Nat
    BY <1>1, MaxClockAssumption DEF Valid, TablesOK
  <2>6. calls[s].op = "login" \/ calls[s].by # storage
    BY <2>4, <2>5
  <2> QED
    BY <2>2, <2>6 DEF InUse
<1>4. ASSUME NEW s \in Slots, Continue(s)
      PROVE  FALSE
  <2>1. SignedIn(s) /\ Busy(s)
    BY <1>2, <1>4
    DEF Continue, SignInFails, KnowMe, LoadSucceeds, LoadFails, SettledEnds, ChangeSucceeds,
        ChangeFails, PasswordAnswered, Quietly
  <2> QED
    BY <2>1, SignedInFacts
<1>5. CASE User
  BY <1>2, <1>5
  DEF User, SubmitLogin, CreateKey, DeleteKey, ChangePassword, Toggle, Fill, Submit, Visit, Quietly
<1>6. CASE Others
  <2>1. ASSUME NEW u \in Users, OtherTabSignsIn(u)
        PROVE  FALSE
    <3>1. Generate(u) \in Tokens
      BY <1>1 DEF Generate, Tokens, TablesOK
    <3> QED
      BY <2>1, <3>1, TokensAssumption DEF OtherTabSignsIn
  <2> QED
    BY <1>2, <1>6, <2>1
    DEF Others, FailCall, ServeAndLose, WriteAndLose, UpdatePassword, WriteFails, Handle, OtherClient, DaysPass, session
<1>7. CASE UNCHANGED vars
  BY <1>2, <1>7 DEF vars, session
<1> QED
  BY <1>3, <1>4, <1>5, <1>6, <1>7 DEF Next

-----------------------------------------------------------------------------
(* The theorems. *)

\* The base: the tables have their types, the page its shape, and what every call
\* in flight has been answered is sound.
THEOREM ConsoleInvariant == Spec => []ConsoleInv
<1>1. Init => ConsoleInv
  BY ConsoleInit
<1>2. ConsoleInv /\ [Next]_vars => ConsoleInv'
  BY ConsoleStep
<1> QED
  BY <1>1, <1>2, PTL DEF Spec

\* The keys on the dashboard belong to the user whose totals are above them, also
\* when another tab signs somebody else in while a load is in flight.
THEOREM OneUsersDataHolds == Spec => []OneUsersData
<1>1. Init => TableOwned
  BY DEF Init, FreshView, TableOwned
<1>2. ConsoleInv /\ TableOwned /\ [Next]_vars => TableOwned'
  BY TableStep
<1>3. ConsoleInv /\ TableOwned => OneUsersData
  BY DEF OneUsersData, TableOwned, OwnedBy, KeysTab, KeysShown, TotalsShown, On, Loaded
<1> QED
  BY <1>1, <1>2, <1>3, ConsoleInvariant, PTL DEF Spec

\* A password the user was told is set is the one in the table, until a later change
\* is carried out: an UPDATE that fails, a change that is refused and a second
\* registration leave it.  Where a change was carried out and its answer lost, or was
\* overlapped by the answer to another call, the user counts as not told.
THEOREM ToldPasswordWorksHolds == Spec => []ToldPasswordWorks
<1>1. Init => ToldOK
  BY DEF Init, ToldOK
<1>2. ConsoleInv /\ ToldOK /\ [Next]_vars => ToldOK'
  BY ToldStep
<1>3. ConsoleInv /\ ToldOK => ToldPasswordWorks
  BY DEF ToldOK, ToldPasswordWorks, Matches
<1> QED
  BY <1>1, <1>2, <1>3, ConsoleInvariant, PTL DEF Spec

\* A page with nothing in flight and no excuse shows what the tables hold: every
\* change is followed by a load that reads after it.
THEOREM FreshWhenQuietHolds == Spec => []FreshWhenQuiet
<1>1. Init => FreshOrRefreshing
  BY DEF Init, FreshView, FreshOrRefreshing, Loaded
<1>2. ConsoleInv /\ FreshOrRefreshing /\ [Next]_vars => FreshOrRefreshing'
  BY FreshStep
<1>3. ConsoleInv /\ FreshOrRefreshing => FreshWhenQuiet
  BY DEF FreshOrRefreshing, FreshWhenQuiet, Refreshes, InUse, Busy
<1> QED
  BY <1>1, <1>2, <1>3, ConsoleInvariant, PTL DEF Spec

\* An admin form takes effect at most as often as it was filled, submitted twice or
\* failed without a clear answer.
THEOREM CreditsAccountedHolds == Spec => []CreditsAccounted
<1>1. Init => CreditsReserved
  <2> SUFFICES ASSUME Init, NEW f \in Forms
               PROVE  Reserved(f)
    BY DEF CreditsReserved
  <2>1. Open(f) = {}
    BY IdleFacts, NoSubmit DEF Init, Open
  <2>2. ~Waiting(f)
    BY DEF Init, FreshView, Waiting
  <2>3. Cardinality(Open(f)) = 0
    BY <2>1, FS_EmptySet
  <2>4. applied[f] = 0 /\ owed[f] = 0
    BY DEF Init, AccountsInit
  <2> QED
    BY <2>2, <2>3, <2>4 DEF Reserved
<1>2. ConsoleInv /\ CreditsReserved /\ [Next]_vars => CreditsReserved'
  BY ConsoleStep, CreditsStep
<1>3. ConsoleInv /\ CreditsReserved => CreditsAccounted
  <2> SUFFICES ASSUME ConsoleInv, CreditsReserved, NEW f \in Forms
               PROVE  applied[f] <= owed[f]
    BY DEF CreditsAccounted
  <2>1. applied[f] \in Nat /\ owed[f] \in Nat
    BY DEF ConsoleInv, TablesOK
  <2>2. PICK n \in Nat : n = Cardinality(Open(f))
    BY OpenFinite
  <2>3. applied[f] + n + (IF Waiting(f) THEN 1 ELSE 0) <= owed[f]
    BY <2>2 DEF CreditsReserved, Reserved
  <2> QED
    BY <2>1, <2>2, <2>3
<1> QED
  BY <1>1, <1>2, <1>3, ConsoleInvariant, PTL DEF Spec

\* Only a call that carries its owner's token, or another client of the owner,
\* deactivates a key, whatever the page shows.
THEOREM OwnKeysOnlyHolds == Spec => OwnKeysOnly
<1>1. ConsoleInv /\ [Next]_vars =>
         [\A k \in DOMAIN apiKeys :
             apiKeys[k].active /\ ~apiKeys'[k].active =>
                 \/ OtherClient(apiKeys[k].owner)
                 \/ \E s \in InUse : /\ calls[s].op = "delete"
                                  /\ calls[s].by # NoToken /\ calls[s].by.user = apiKeys[k].owner]_vars
  BY KeyStep
<1> QED
  BY <1>1, ConsoleInvariant, PTL DEF Spec, OwnKeysOnly

\* A valid token is removed by a logout, by the refusal of a login, or by that of a
\* call that carried another token or none.
THEOREM SessionEndsForAReasonHolds == Spec => SessionEndsForAReason
<1>1. ConsoleInv /\ [Next]_vars =>
         [storage # NoToken /\ storage' = NoToken /\ Valid(storage) =>
             \/ Logout \/ OtherTabSignsOut
             \/ \E s \in InUse : Refused(s) /\ (calls[s].op = "login" \/ calls[s].by # storage)]_vars
  BY SessionStep
<1> QED
  BY <1>1, ConsoleInvariant, PTL DEF Spec, SessionEndsForAReason

=============================================================================
