------------------------------ MODULE Accounts ------------------------------
(***************************************************************************)
(* Sign-up, enrolment and revocation: backend/routes/auth.py, devices.py   *)
(* and deps.py behind the middleware of csrf.py, used from the tabs of     *)
(* browsers that keep a cookie jar.  A request is split where another one  *)
(* can come between: the header is read, the cookies are attached, rows    *)
(* are SELECTed, the transaction commits, the answer is computed, and it   *)
(* arrives or is lost.                                                     *)
(***************************************************************************)
EXTENDS Naturals, Sequences, FiniteSetsExt

CONSTANTS
    Browsers, Tabs, Emails,
    BrowserOf,      \* the browser each tab belongs to
    ReusesIds,      \* SQLite, which gives the id of a deleted last row to the next one
    MaxDevices,     \* bounds how many device tokens are generated
    None            \* no cookie, no header, no request

ASSUME AccountAssumption ==
    /\ IsFiniteSet(Browsers) /\ IsFiniteSet(Tabs) /\ IsFiniteSet(Emails)
    /\ BrowserOf \in [Tabs -> Browsers] /\ ReusesIds \in BOOLEAN
    /\ MaxDevices \in Nat /\ None \notin Nat

VARIABLES
    users,          \* the users table: the address of each user id
    devices,        \* registered_devices: the user and the token of each row id
    issued,         \* how many device tokens were generated
    told,           \* the tokens that enroll's answers gave to the user
    jar,            \* cookies: csrf_token, access_token, device_token
    page,           \* what each tab shows
    call            \* the request of each tab, or None

rows == <<users, devices, issued>>
vars == <<users, devices, issued, told, jar, page, call>>

Tokens == 1..MaxDevices
UserIds == 1..Cardinality(Emails)
Expired == 0                        \* an access cookie whose JWT is no longer valid
Csrf == 0..(Cardinality(Browsers) + 2 * Cardinality(Tabs))
Jar == [csrf : Csrf \cup {None},
        access : UserIds \cup {Expired, None},     \* the user the JWT names
        device : Tokens \cup {None}]               \* device_enrolled comes and goes with it
Pages == {"blank", "register", "login", "home"}
NoCookies == [csrf |-> None, access |-> None, device |-> None]

Ops == {"page", "register", "lookup", "enroll", "revoke"}
Arguments(op) ==
    CASE op = "page" -> Pages
      [] op = "revoke" -> Tokens
      [] op = "enroll" -> {None}
      [] OTHER -> Emails

\* A request on its way: its argument, the X-CSRF-Token header, whether no first CSRF
\* cookie was on its way when the header was read, the cookies attached, how far it is,
\* the id and the user of the row its handler loaded, the id and the token of the row it
\* inserted.
Request(op) ==
    [op : {op}, arg : Arguments(op), header : Csrf \cup {None}, settled : BOOLEAN, cookies : Jar,
     stage : {"read", "sent", "loaded", "committed"}, row : Tokens \cup {None},
     user : UserIds \cup {None}, new : Tokens \cup {None}, token : Tokens \cup {None}]

\* Its answer: the page, the status, the token, whether it brings a first CSRF cookie.
Response(op) ==
    [op : {op}, page : Pages \cup {None}, stage : {"answered"}, settled : BOOLEAN,
     first : BOOLEAN, token : Tokens \cup {None},
     status : {200, 201, 401, 403, 404, 409, 500}]

TypeOK ==
    /\ users \in Seq(Emails) /\ issued \in 0..MaxDevices /\ told \subseteq 1..issued
    /\ DOMAIN devices \subseteq Tokens
    /\ \A i \in DOMAIN devices : devices[i].user \in DOMAIN users /\ devices[i].token \in 1..issued
    /\ jar \in [Browsers -> Jar] /\ page \in [Tabs -> Pages]
    /\ \A t \in Tabs : call[t] # None =>
        call[t].op \in Ops /\ call[t] \in Request(call[t].op) \cup Response(call[t].op)

Init ==
    /\ users = <<>> /\ devices = <<>> /\ issued = 0 /\ told = {}
    /\ jar = [b \in Browsers |-> NoCookies]
    /\ page = [t \in Tabs |-> "blank"] /\ call = [t \in Tabs |-> None]

---------------------------------------------------------------------------
(* The pages.                                                              *)

CookiesOf(t) == jar[BrowserOf[t]]

At(t, stage) == call[t] # None /\ call[t].stage = stage

\* The answer to this tab's request will bring a CSRF cookie.
BringsCookie(t) ==
    /\ call[t] # None /\ call[t].stage # "read"
    /\ IF call[t].stage = "answered" THEN call[t].first ELSE call[t].cookies.csrf = None

\* Some page load of the same browser will bring one.
FirstCookieDue(t) == \E o \in Tabs : BrowserOf[o] = BrowserOf[t] /\ BringsCookie(o)

Begin(t, op, arg, header, stage) ==
    /\ call[t] = None
    /\ call' = [call EXCEPT ![t] =
            [op |-> op, arg |-> arg, header |-> header, settled |-> ~FirstCookieDue(t),
             cookies |-> IF stage = "sent" THEN CookiesOf(t) ELSE NoCookies,
             stage |-> stage, row |-> None, user |-> None, new |-> None, token |-> None]]
    /\ UNCHANGED <<rows, told, jar, page>>

Open(t, p) == p # "blank" /\ Begin(t, "page", p, None, "sent")

\* register.js sends no X-CSRF-Token.
RegisterForm(t) ==
    page[t] = "register" /\ \E e \in Emails : Begin(t, "register", e, None, "read")

Echoes(t, op, arg) == Begin(t, op, arg, CookiesOf(t).csrf, "read")

\* The sign-up form of login.js does not ask whether this browser is enrolled already.
SignupForm(t) == page[t] = "login" /\ \E e \in Emails : Echoes(t, "register", e)

SigninForm(t) == page[t] = "login" /\ \E e \in Emails : Echoes(t, "lookup", e)

\* The list the home page shows may be old: any id may be asked for.
revokeDevice(t) == page[t] = "home" /\ \E i \in Tokens : Echoes(t, "revoke", i)

btnAddDevice(t) == page[t] = "home" /\ CookiesOf(t).device # None /\ Echoes(t, "enroll", None)

\* The browser attaches its cookies when it sends the request.
Send(t) ==
    /\ At(t, "read")
    /\ call' = [call EXCEPT ![t].stage = "sent", ![t].cookies = CookiesOf(t)]
    /\ UNCHANGED <<rows, told, jar, page>>

---------------------------------------------------------------------------
(* The server.                                                             *)

\* The middleware's refusal and an error set no cookie.
Respond(t, status, token) ==
    LET c == call[t] IN
    call' = [call EXCEPT ![t] =
        [op |-> c.op, page |-> IF c.op = "page" THEN c.arg ELSE None, stage |-> "answered",
         settled |-> c.settled, token |-> token, status |-> status,
         first |-> c.cookies.csrf = None /\ status \notin {403, 500}]]

Answer(t, status) == Respond(t, status, None)

\* dispatch: an unsafe request with an auth cookie has to echo the CSRF cookie.
Passes(c) ==
    \/ c.op = "page"
    \/ c.cookies.access = None /\ c.cookies.device = None
    \/ c.cookies.csrf # None /\ c.header = c.cookies.csrf

current_user(c) == c.cookies.access \in DOMAIN users

current_device(c) == {i \in DOMAIN devices : devices[i].token = c.cookies.device}

OwnDevice(c) == {i \in DOMAIN devices : i = c.arg /\ devices[i].user = c.cookies.access}

Registered(e) == \E u \in DOMAIN users : users[u] = e

\* The middleware refuses: the handler is not called.
Refuse(t) ==
    /\ At(t, "sent") /\ ~Passes(call[t]) /\ Answer(t, 403)
    /\ UNCHANGED <<rows, told, jar, page>>

Arrives(t, op) ==
    /\ At(t, "sent") /\ call[t].op = op /\ Passes(call[t])
    /\ UNCHANGED <<rows, told, jar, page>>

ServePage(t) == Arrives(t, "page") /\ Answer(t, 200)

lookup(t) == Arrives(t, "lookup") /\ Answer(t, IF Registered(call[t].arg) THEN 200 ELSE 404)

\* Up to the first write, the handlers SELECT a row, or find that there is none.
Loads(t, row, user) ==
    call' = [call EXCEPT ![t].stage = "loaded", ![t].header = None, ![t].row = row, ![t].user = user]

LoadRegister(t) ==
    /\ Arrives(t, "register")
    /\ IF Registered(call[t].arg) THEN Answer(t, 409) ELSE Loads(t, None, None)

LoadEnroll(t) ==
    /\ Arrives(t, "enroll")
    /\ \/ current_device(call[t]) = {} /\ Answer(t, 401)
       \/ \E i \in current_device(call[t]) : Loads(t, i, devices[i].user)

LoadRevoke(t) ==
    /\ Arrives(t, "revoke")
    /\ \/ ~current_user(call[t]) /\ Answer(t, 401)
       \/ current_user(call[t]) /\ OwnDevice(call[t]) = {} /\ Answer(t, 404)
       \/ current_user(call[t]) /\ \E i \in OwnDevice(call[t]) : Loads(t, i, devices[i].user)

\* Mutant: the id after the largest, whatever was deleted.
NewRow_Reused == Max(DOMAIN devices \cup {0}) + 1

\* SQLite gives a new row the id after the largest; a sequence never goes back.
NewRow == IF ReusesIds THEN Max(DOMAIN devices \cup {0}) + 1 ELSE issued + 1

InsertDevice(user) ==
    /\ issued < MaxDevices /\ issued' = issued + 1
    /\ devices' = [i \in DOMAIN devices \cup {NewRow} |->
            IF i = NewRow THEN [user |-> user, token |-> issued'] ELSE devices[i]]

\* Mutant: email has an index that is not unique.
CommitRegister_NotUnique(t) ==
    /\ At(t, "loaded") /\ call[t].op = "register"
    /\ users' = Append(users, call[t].arg) /\ InsertDevice(Len(users'))
    /\ Respond(t, 201, issued')
    /\ UNCHANGED <<told, jar, page>>

\* The unique index on users.email is what decides between two registrations.
CommitRegister(t) ==
    /\ At(t, "loaded") /\ call[t].op = "register"
    /\ IF Registered(call[t].arg)
       THEN Answer(t, 500) /\ UNCHANGED rows
       ELSE /\ users' = Append(users, call[t].arg)
            /\ InsertDevice(Len(users'))
            /\ Respond(t, 201, issued')
    /\ UNCHANGED <<told, jar, page>>

\* Mutant: the new row is for the user who is signed in.
CommitEnroll_SignedIn(t) ==
    /\ At(t, "loaded") /\ call[t].op = "enroll"
    /\ InsertDevice(call[t].cookies.access)
    /\ call' = [call EXCEPT ![t].stage = "committed", ![t].new = NewRow, ![t].token = issued']
    /\ UNCHANGED <<users, told, jar, page>>

\* The new row is for the user of the device that was loaded, revoked or not.
CommitEnroll(t) ==
    /\ At(t, "loaded") /\ call[t].op = "enroll"
    /\ InsertDevice(call[t].user)
    /\ call' = [call EXCEPT ![t].stage = "committed", ![t].new = NewRow, ![t].token = issued']
    /\ UNCHANGED <<users, told, jar, page>>

\* Mutant: the log line does not use the row that authorised the enrolment.
AnswerEnroll_Unread(t) ==
    /\ At(t, "committed") /\ UNCHANGED <<rows, told, jar, page>>
    /\ IF call[t].new \in DOMAIN devices THEN Respond(t, 200, call[t].token) ELSE Answer(t, 500)

\* The commit expired both objects: the log line and the answer SELECT them again,
\* and a row that was deleted meanwhile raises.
AnswerEnroll(t) ==
    /\ At(t, "committed") /\ UNCHANGED <<rows, told, jar, page>>
    /\ IF {call[t].row, call[t].new} \subseteq DOMAIN devices
       THEN Respond(t, 200, call[t].token) ELSE Answer(t, 500)

\* Mutant: every device of the user is deleted.
CommitRevoke_All(t) ==
    /\ At(t, "loaded") /\ call[t].op = "revoke"
    /\ devices' = [i \in {j \in DOMAIN devices : devices[j].user # call[t].user} |-> devices[i]]
    /\ Answer(t, 200)
    /\ UNCHANGED <<users, issued, told, jar, page>>

\* DELETE ... WHERE id: no row is found if it was deleted meanwhile, and that is no error.
CommitRevoke(t) ==
    /\ At(t, "loaded") /\ call[t].op = "revoke"
    /\ devices' = [i \in DOMAIN devices \ {call[t].row} |-> devices[i]]
    /\ Answer(t, 200)
    /\ UNCHANGED <<users, issued, told, jar, page>>

---------------------------------------------------------------------------
(* The browser.                                                            *)

FreshCsrf == CHOOSE k \in Csrf :
    /\ \A b \in Browsers : jar[b].csrf # k
    /\ \A t \in Tabs : call[t] = None \/ At(t, "answered")
                      \/ k \notin {call[t].header, call[t].cookies.csrf}

\* Mutant: every answer sets a new CSRF cookie.
Stored_Rotating(c, cookies) ==
    [csrf |-> FreshCsrf,
     access |-> cookies.access,
     device |-> IF c.status = 201 THEN c.token ELSE cookies.device]

\* The cookies after the answer to c.
Stored(c, cookies) ==
    [csrf |-> IF c.first THEN FreshCsrf ELSE cookies.csrf,
     access |-> cookies.access,
     device |-> IF c.status = 201 THEN c.token ELSE cookies.device]

\* The page an answer leads to: register sends an enrolled browser away, home one
\* that is not signed in, and both sign-up forms are done after an account was created.
Shown(t, c, cookies) ==
    CASE c.op = "page" -> IF \/ c.page = "register" /\ cookies.device # None
                             \/ c.page = "home" /\ cookies.access \notin DOMAIN users
                          THEN "blank" ELSE c.page
      [] c.status = 201 -> "blank"
      [] OTHER -> page[t]

Receive(t) ==
    /\ At(t, "answered")
    /\ LET c == call[t]
           cookies == Stored(c, CookiesOf(t)) IN
        /\ jar' = [jar EXCEPT ![BrowserOf[t]] = cookies]
        /\ page' = [page EXCEPT ![t] = Shown(t, c, cookies)]
        /\ told' = IF c.op = "enroll" /\ c.status = 200 THEN told \cup {c.token} ELSE told
    /\ call' = [call EXCEPT ![t] = None]
    /\ UNCHANGED <<rows>>

\* The answer never arrives.
Lose(t) ==
    /\ At(t, "answered")
    /\ call' = [call EXCEPT ![t] = None]
    /\ UNCHANGED <<rows, told, jar, page>>

\* The tokens that somebody holds: as a cookie, or copied from enroll's answer.
Held == told \cup {jar[b].device : b \in Browsers}

\* The QR login, modelled in QRSessions: a device of user u that somebody holds approved
\* this browser.
SignIn(b, u) ==
    /\ \E i \in DOMAIN devices : devices[i].user = u /\ devices[i].token \in Held
    /\ \E t \in Tabs : BrowserOf[t] = b /\ page[t] = "login" /\ call[t] = None
    /\ jar[b].access # u
    /\ jar' = [jar EXCEPT ![b].access = u]
    /\ UNCHANGED <<rows, told, page, call>>

\* The JWT is cut off to whole seconds, so it ends before its cookie does.
Expire(b) ==
    /\ jar[b].access # None
    /\ jar' = [jar EXCEPT ![b].access = IF @ = Expired THEN None ELSE Expired]
    /\ UNCHANGED <<rows, told, page, call>>

\* The browser is closed and opened: only the CSRF cookie has no Max-Age.
Restart(b) ==
    /\ \A t \in Tabs : BrowserOf[t] = b => call[t] = None
    /\ jar[b].csrf # None
    /\ jar' = [jar EXCEPT ![b].csrf = None]
    /\ page' = [t \in Tabs |-> IF BrowserOf[t] = b THEN "blank" ELSE page[t]]
    /\ UNCHANGED <<rows, told, call>>

Acts(t) ==
    \/ \E p \in Pages : Open(t, p)
    \/ RegisterForm(t) \/ SignupForm(t) \/ SigninForm(t) \/ revokeDevice(t) \/ btnAddDevice(t)
    \/ Send(t) \/ Receive(t) \/ Lose(t)
    \/ Refuse(t) \/ ServePage(t) \/ lookup(t)
    \/ LoadRegister(t) \/ LoadEnroll(t) \/ LoadRevoke(t)
    \/ CommitRegister(t) \/ CommitEnroll(t) \/ AnswerEnroll(t) \/ CommitRevoke(t)

Next ==
    \/ \E t \in Tabs : Acts(t)
    \/ \E b \in Browsers : Expire(b) \/ Restart(b) \/ \E u \in DOMAIN users : SignIn(b, u)

Spec == Init /\ [][Next]_vars

---------------------------------------------------------------------------
(* Properties.                                                             *)

\* Two registrations that both found an address free create one user
\* (routes/auth.py, register).
UniqueEmails == \A u, v \in DOMAIN users : users[u] = users[v] => u = v

\* The middleware refuses a page that echoes the CSRF cookie only when the header was
\* read while a page load was still to bring the browser its first CSRF cookie
\* (csrf.py, dispatch; util.js, withCsrf).
EchoIsAccepted ==
    \A t \in Tabs : At(t, "answered") /\ call[t].status = 403 =>
        page[t] = "register" \/ ~call[t].settled

Revoked(d) ==
    /\ \E i \in DOMAIN devices : devices[i].token = d
    /\ \A i \in DOMAIN devices' : devices'[i].token # d

\* A device disappears only by a request that its owner signed, even though the DELETE
\* names only an id that was looked up earlier (routes/devices.py, revoke_device).
\* SQLite gives the id away again, and there it does not hold.
OnlyOwnerRevokes ==
    [][~ReusesIds => \A d \in Tokens : Revoked(d) =>
        \E t \in Tabs, i \in DOMAIN devices :
            /\ At(t, "loaded") /\ call'[t] # call[t]
            /\ devices[i] = [user |-> call[t].cookies.access, token |-> d]]_vars

\* A token that enroll answers with was enrolled before the device that asked for it was
\* revoked (routes/devices.py, enroll_additional_device: the row is read again).
EnrolledByTrusted ==
    [][~ReusesIds => \A t \in Tabs :
        At(t, "committed") /\ At(t, "answered")' /\ call'[t].status = 200 =>
            \E i \in DOMAIN devices : devices[i].token = call[t].cookies.device]_vars

\* The tables are an account book: rows map to tokens, ids to addresses.
Trusted == [e \in {users[u] : u \in DOMAIN users} |->
    {devices[i].token : i \in {j \in DOMAIN devices : users[devices[j].user] = e}}]
Gone == (1..issued) \ {devices[i].token : i \in DOMAIN devices}
Book == INSTANCE AccountBook WITH trusted <- Trusted, revoked <- Gone
BookSpec == Book!Spec

\* "JavaScript reads it and echoes it back in the X-CSRF-Token header on every
\* state-changing request" (csrf.py:9): the pages are not refused.  Here the browser is
\* not enrolled and no CSRF cookie was still on its way, so that register.html is open
\* to it and the header could have been sent.  Signed in by a phone, it is refused.
PagesEcho ==
    \A t \in Tabs : At(t, "answered") /\ call[t].status = 403 /\ call[t].settled =>
        CookiesOf(t).device # None
=============================================================================
