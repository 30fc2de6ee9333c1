------------------------------ MODULE Accounts ------------------------------
(***************************************************************************)
(* The dashboard and admin API: accounts, JWTs, API keys and the tables    *)
(* the administrators edit, one handler at a time.                         *)
(*                                                                         *)
(* A request is a record with the operation, the token it carries and an   *)
(* argument.  Status and Body are what its handler answers, Apply what it  *)
(* does to the tables.  A user is identified by the email address, an API  *)
(* key by its id, which is its place in apiKeys.  Passwords are compared   *)
(* as bcrypt compares them; a short password never reaches the table.      *)
(***************************************************************************)
EXTENDS Naturals, Sequences, FiniteSets

CONSTANTS
    Users,       \* email addresses
    Admins,      \* users whose row has the role "admin"
    Passwords,   \* passwords of at least eight characters
    First,       \* the password the administrators start with
    NoPassword,  \* there is no row for this email address
    NoToken,     \* no "token" in local storage
    Rows,        \* provider and model rows with an is_active column
    Forms,       \* the admin forms: balance and provider key
    MaxClock     \* bound of the model: the clock stops here

ASSUME AdminsAssumption == Admins \subseteq Users /\ IsFiniteSet(Users)
ASSUME PasswordsAssumption == First \in Passwords /\ NoPassword \notin Passwords
ASSUME MaxClockAssumption == MaxClock \in Nat

VARIABLES
    password,  \* users.password_hash
    apiKeys,   \* api_keys: owner and is_active of each id
    rows,      \* is_active of each provider and model row
    applied,   \* how often each admin form took effect (credits, key rows)
    clock      \* time in units of 72 hours, the life of a token

tables == <<password, apiKeys, rows, applied>>
server == <<tables, clock>>

Tokens == [user : Users, issued : 0 .. MaxClock]

ASSUME TokensAssumption == NoToken \notin Tokens

AccountsInit ==
    /\ password = [u \in Users |-> IF u \in Admins THEN First ELSE NoPassword]
    /\ apiKeys = <<>>
    /\ rows = [r \in Rows |-> TRUE]
    /\ applied = [f \in Forms |-> 0]
    /\ clock = 0

\* Generate: a token carries its user and the time it was issued.
Generate(u) == [user |-> u, issued |-> clock]

\* Mutant of Valid: a token never expires.
ValidForEver(token) == token # NoToken

\* Parse: the token is one of ours and its 72 hours are not over.
Valid(token) == token # NoToken /\ token.issued = clock

\* Login: the email address is known and the password is its password.
Matches(u, p) == password[u] # NoPassword /\ password[u] = p

\* ListByUserID: all keys of the user, deactivated ones too.
KeysOf(u) == {<<k, apiKeys[k].active>> : k \in {k \in DOMAIN apiKeys : apiKeys[k].owner = u}}

Sessionless == {"login", "register"}
AdminOps == {"loadAll", "toggle", "submit"}

\* The status of the answer: first the handler of login and register, then
\* JWTAuth, then AdminOnly, then the comparison in ChangePassword.
Status(r) ==
    IF r.op = "login" THEN IF Matches(r.arg.user, r.arg.password) THEN 200 ELSE 401
    ELSE IF r.op = "register" THEN IF password[r.arg.user] = NoPassword THEN 201 ELSE 409
    ELSE IF ~Valid(r.by) THEN 401
    ELSE IF r.op \in AdminOps /\ r.by.user \notin Admins THEN 403
    ELSE IF r.op = "password" /\ ~Matches(r.by.user, r.arg.old) THEN 400
    ELSE 200

\* The body of a successful answer: a token, the id of a new key, the role, or
\* one part of the data of a page.
Body(r, part) ==
    IF r.op \in Sessionless THEN Generate(r.arg.user)
    ELSE IF r.op = "create" THEN Len(apiKeys) + 1
    ELSE IF part = "totals" \/ r.op = "me" THEN r.by.user
    ELSE IF r.op = "load" THEN KeysOf(r.by.user)
    ELSE IF r.op = "loadAll" THEN rows
    ELSE TRUE

\* Mutant of RegisterRow: a row that is there already is overwritten.
RegisterRowUpsert(r) == password' = [password EXCEPT ![r.arg.user] = r.arg.password]

\* Register: FindByEmail and the unique email column refuse a second account.
RegisterRow(r) ==
    password' = IF password[r.arg.user] = NoPassword
                THEN [password EXCEPT ![r.arg.user] = r.arg.password] ELSE password

CreateAPIKey(r) ==
    apiKeys' = Append(apiKeys, [owner |-> r.by.user, active |-> TRUE])

\* Mutant of Deactivate: the row is chosen by its id alone.
DeactivateAny(r) ==
    apiKeys' = [k \in DOMAIN apiKeys |->
                   IF k = r.arg.key THEN [apiKeys[k] EXCEPT !.active = FALSE] ELSE apiKeys[k]]

\* DeleteAPIKey deactivates the row with this id and this owner, if there is one.
Deactivate(r) ==
    apiKeys' = [k \in DOMAIN apiKeys |->
                   IF k = r.arg.key /\ apiKeys[k].owner = r.by.user
                   THEN [apiKeys[k] EXCEPT !.active = FALSE] ELSE apiKeys[k]]

\* ToggleProvider and UpdateModel set is_active to what the request says.
SetActive(r) == rows' = [rows EXCEPT ![r.arg.row] = r.arg.value]

\* UpdateUserBalance and AddProviderKey.
SubmitForm(r) == applied' = [applied EXCEPT ![r.arg.form] = @ + 1]

\* What a request does to the tables.  ChangePassword's UPDATE, which comes
\* after its comparison, is WritePassword in Session.
Apply(r) ==
    LET Done(op) == r.op = op /\ Status(r) = 200
    IN  \/ r.op = "register" /\ RegisterRow(r) /\ UNCHANGED <<apiKeys, rows, applied>>
        \/ Done("create") /\ CreateAPIKey(r) /\ UNCHANGED <<password, rows, applied>>
        \/ Done("delete") /\ Deactivate(r) /\ UNCHANGED <<password, rows, applied>>
        \/ Done("toggle") /\ SetActive(r) /\ UNCHANGED <<password, apiKeys, applied>>
        \/ Done("submit") /\ SubmitForm(r) /\ UNCHANGED <<password, apiKeys, rows>>
        \/ /\ ~ \E op \in {"create", "delete", "toggle", "submit"} : Done(op)
           /\ r.op # "register"
           /\ UNCHANGED tables

=============================================================================
