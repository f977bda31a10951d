# Verification of the passwordless QR authentication server

TLA+ models, model-checking runs and machine-checked proofs for the server and
the pages of this repository. The source is read as the reference: paths and
line numbers below are relative to `src/`.

## The system

| part | state it keeps | operations | talks to |
| --- | --- | --- | --- |
| QR login sessions (`backend/routes/qr.py`, `models.QRSession`) | one row per session: status, user, client, redirect URI, raw code, code hash and deadline, lifetime | create, refresh QR, poll status, scan, approve, deny, exchange for a token | the database only; device identity from `deps.current_device` |
| OAuth provider (`backend/routes/oauth.py`) | none of its own; reads `oauth_clients`, spends `qr_sessions` rows | authorize (redirect), token (redeem a code), userinfo, discovery | session rows by code hash |
| Devices and accounts (`routes/auth.py`, `routes/devices.py`, `deps.py`) | `users`, `registered_devices` | register, enroll, list, revoke, whoami | a device's user is what a scan claims a session for |
| Access tokens (`security.py`) | none (signed JWT) | create, decode | cookie of the browser, OAuth client |
| QR challenge (`security.py`) | none (HMAC of session and time) | sign into the QR image, verify at scan | clock |
| CSRF (`backend/csrf.py`, `frontend/util.js`) | the browser's cookies | middleware check, cookie issue, header echo | every unsafe request |
| Login page (`frontend/login.js`) | session id, poll timer, rotation timer, elapsed time, what it shows | create session, rotate, poll, exchange or redirect, expire | the QR endpoints |
| Scan page (`frontend/scan.js`) | what it shows | scan, approve, deny | the QR endpoints |
| Migrations (`alembic/versions`) | the schema | upgrade, downgrade | the database |
| Shell (`main.py`, `config.py`, `rate_limit.py`, `pages.py`) | settings | wiring | - |

### How the parts run

The endpoints are plain (not `async`) functions, so the server runs each request
on a thread of a pool, with a database session of its own (`database.get_db`).
A handler SELECTs a row, decides on the Python object, and later commits. Facts
that decide what can interleave:

* the UPDATE names a row by primary key and sets only changed columns; nothing
  re-checks the status the handler decided on, and no SELECT locks
  (no `with_for_update`);
* isolation is read committed on PostgreSQL, and on SQLite the driver opens a
  transaction only at the first UPDATE, so the earlier SELECT protects nothing;
* a commit expires loaded objects (`expire_on_commit` is on): the next use of an
  attribute SELECTs the row again. `_get_session` commits when it expires a
  session, and `exchange_token` and `token` read `session.user_id` after theirs;
* scan and approve set `device.last_used_at` in the same transaction: if the
  device row was deleted meanwhile, the UPDATE matches no row, the flush raises
  `StaleDataError`, and everything is rolled back. deny writes no device row;
* a request that dies leaves what it committed, and nothing else (`get_db`
  closes the session).

### What is hard, and what makes each part correct

`PROJECT.json` lists every hazard at its line. In short: decisions on stale rows
(exchange, redeem, poll, scan, approve, deny), the once-only delivery of the raw
code, a crash between a commit and its answer, revocation of a device in use,
expiry that is lazy and limited to pending rows, and on the page side timers and
polls that overlap with answers in flight.

* Sessions: a session yields at most one token, for the user who approved it;
  stages are never skipped; a denial or an expiry is final; the code columns
  agree; a revoked device is inert.
* OAuth: a code is sent once and is redeemed only by a client, for an allowed
  redirect URI, after an approval.
* Login page: it follows its own session only, and an approved login is noticed.
* QR challenge: a code on the screen is accepted, one that left it soon is not.
* Devices: one user per address; a device comes by one that is still trusted and
  goes by its owner.
* CSRF: what the pages send with the cookies they hold is accepted.
* Migrations: the version number tells what the tables are, and the server always
  starts on the newest ones.

## Modules

| module | what it is |
| --- | --- |
| `LoginAttempt` | what one login attempt promises: open, claim, confirm, redeem, at most one token for the confirmed user; closing is final |
| `QRSessions` | the session endpoints and `/oauth/token` as interleaving requests, their invariants, and the mapping to `LoginAttempt` |
| `MCQRSessions` | a small instance for TLC |
| `QRSessionsProofs` | the inductive invariant and the theorems that hold however requests interleave |
| `QRSerialProofs` | the stronger invariant and the theorems for requests that do not overlap, among them the refinement of `LoginAttempt` |
| `LoginServer` | the same endpoints as the pages see them, each answered in one step |
| `LoginPage` | `login.js`: one tab, its timers and its fetches in flight |
| `SignIn` | the composition: the tab, the server, the scan page on a phone, the OAuth client; its properties |
| `MCSignIn` | symmetry for TLC |
| `SignInProofs` | the invariant and the theorems of `SignIn` that hold however late answers are |
| `SignInPromptProofs` | the stronger invariant and the theorems of `SignIn` for prompt answers |
| `AccountBook` | what accounts promise: an address signs up once, devices are enrolled and revoked, accounts never merge |
| `Accounts` | sign-up, lookup, enrolment and revocation behind the CSRF middleware, from the tabs of browsers with a cookie jar; the mapping to `AccountBook` |
| `MCAccounts` | two tabs of one browser and two addresses for TLC |
| `AccountsProofs` | the invariant and the theorems of `Accounts`, among them the refinement of `AccountBook` |
| `QRChallenge` | how long a displayed code can be used: the server's stamps against the page's countdown |
| `QRChallengeProofs` | its invariant and theorems, for all limits and delays |
| `Migrations` | the four migrations, statement by statement, and alembic running them |
| `MigrationsProofs` | what every script makes of every schema it may find, the invariant and the theorems of `Migrations` |

### QRSessions

State: `now` (the clock), `sessions` (the table; status `"absent"` before the
row exists), `challenge` (the time of the newest signed QR challenge),
`devices` (device rows that still exist), `req` (one slot per request in
progress, with where it is, the operation, the session, the device and the code
it will send). `approvals`, `denied`, `delivered` and `grants` record what the
outside was told; no action reads them except `FreshCode` (codes are never
generated twice) and `LoadRedeem` (a client only knows a code that was sent).

A request is the steps between its database statements:

* `Load` is the SELECT with the checks of the handler (`RefreshAccepts`,
  `ScanAccepts`, ...), after `Authenticates` (`current_device`, and the challenge
  for scan). A pending row past `expires_at` goes to `CommitExpire` and then to
  `Reload`, the second SELECT that the commit causes.
* `MintChallenge`, `CommitScan`, `CommitApprove`/`ApproveRollsBack`,
  `CommitDeny`, `CommitDelivery`, `CommitConsume` are the UPDATE and COMMIT of
  the seven handlers (refresh only signs a challenge).
* `SendCode` and `IssueToken` are what happens after the commit: the answer with
  the raw code, and the token for the user that the row names by then.
* `LoadRedeem` is the lookup and the checks of `/oauth/token`; it shares
  `CommitConsume` and `IssueToken` with the exchange.
* `CreateSession`, `RevokeDevice`, `Abort` (the request dies), `Tick`.

A refused request changes nothing and is not a step. Abstracted: scopes, names,
messages, JWT text, the client secret (wrong credentials are refused before any
session is read), and the device row's SELECT, which is taken with the session's:
no decision falls between them, and a revocation there is found by the commit
exactly as in the model. A challenge is the time it was signed; only the newest
of a session is kept, because it is the last to be refused.

`hash_token` is an injective tag, so a code and its hash are never equal.

### LoginServer, LoginPage and SignIn

`QRSessions` splits a handler into its database statements; `LoginServer` takes
it in one step and keeps what an answer depends on: `status`, whether the raw
code still waits for its one delivery (`codeWaiting`), and whether the sessions
were opened by an OAuth client (`redirects`). It forgets users (the phone is that
of the user who scans), clients, URIs, devices and clocks. What it forgets may still
refuse (`Refuses`): a session may not be created (400 for the scope, the client or the
redirect URI), and a phone may be refused whatever the status is (401 once its device
is revoked, 403 for the CSRF header, 400 for an old challenge). `Lapse` may expire a
pending session at any time. The pages' clock is no measure of the server's, because a browser
slows the timers of a hidden tab.

`page` holds the variables of `login.js`: `sessionId`, what is shown (`view`,
`warned`, the session of `qrImg`), `rotateCountdown`, `totalElapsed`, and the
delayed assignments to `window.location` (`leaving`). `pollTimer` and
`rotateTimer` say whether the variable refers to a running timer. A timer that
runs on after its variable was overwritten cannot be cleared any more; these are
counted in `strayPolls` and `strayTicks`. `calls` has a slot for each fetch: sent,
then answered or failed, then seen by the continuation.

* `Tick`, `PollFires`, `Click`, `Navigate` are the timers, the button and the
  navigation. A function of the script that an action calls is an operator on
  `page` with its name (`setQRState`, `clearTimers`, `startCountdown`, ...).
* `Serve` is the handling of a request, `Lose` its failure.
* `Created`, `Refreshed`, `PolledNews`, `PolledRedirect`, `PolledApproved`,
  `Exchanged` are what runs after each `await`, on whatever the page has become.
* `Open`, `TapApprove`, `TapDeny`, `PhoneAnswered`, `PhoneLoses` are `scan.js`.
  Its request is answered and shown in one step: the script waits for nothing
  else. `ClientRedeems` is the client's `/oauth/token`.

`Spec` allows every order of answers. `PromptSpec` lets a timer fire, or a button
be used, only when the fetches before it were answered or failed: a server that
answers within a second. Both have the same actions.

A scan or an approval may take effect and still be shown as an error
(`PhoneLoses`): the log line after the commit reads the device row again, and
raises if the device was revoked meanwhile. A denial is shown as "denied" for every
answer, refusals and errors included (`Shown`, `PhoneLoses`; `scan.js:94-100`).

Abstracted: layout and texts, except that `warned` is a status message of the
"warn" variant, as the view "expired", a refused create and a failed exchange set it; the sign-up and lookup forms of the same page, which are in
`Accounts`; the server's time limits, as above; a reload of the tab, which starts
over with an empty script. One phone opens each session's page once.

### Accounts and AccountBook

State: `users` and `devices` (the tables; a device row has an id, a user and a
token), `issued` (how many device tokens were generated), `told` (the tokens that
enroll's answers gave to the user), `jar` (the `csrf_token`, `access_token` and
`device_token` cookies of each browser; `device_enrolled` comes and goes with the
last), `page` (what each tab shows) and `call` (the request of each tab, if any).

A request goes through `read` (the script has read the CSRF cookie for the header),
`sent` (the browser has attached its cookies), `loaded` (the handler has SELECTed),
`committed` (enroll only) and `answered`. Between any two of them the other tab can
act, so the header and the cookie may come from different moments, as may the row a
handler decided on and the row it writes.

* `Open`, `RegisterForm`, `SignupForm`, `SigninForm`, `revokeDevice`,
  `btnAddDevice` are what the pages do; `Echoes` is `withCsrf`, which register.js
  does not use. `Refuse`/`Passes` is the middleware.
* `LoadRegister`, `LoadEnroll`, `LoadRevoke`, `CommitRegister`, `CommitEnroll`,
  `AnswerEnroll`, `CommitRevoke`, `lookup`, `ServePage` are the handlers. The unique
  index decides in `CommitRegister`; `AnswerEnroll` reads both device rows again
  after the commit; `CommitRevoke` deletes by id.
* `Receive` and `Lose` end a request; `SignIn` stands for the whole QR login, which
  can give a browser the access cookie of any user one of whose device tokens somebody
  holds (`Held`: as a cookie of any browser, or copied from enroll's answer); `Expire` ends first
  the token and then its cookie; `Restart` closes the browser, which forgets the one
  cookie without Max-Age.

`NewRow` is where the databases differ: a PostgreSQL sequence never gives an id away
again, SQLite without AUTOINCREMENT reuses the id of a deleted last row
(`ReusesIds`). The run is about PostgreSQL, the deployment of `docker-compose.yml`;
the proofs are about both. With `ReusesIds = TRUE`, and without the condition in front of
them, `OnlyOwnerRevokes` and `EnrolledByTrusted` are false: a DELETE that was decided
before the row went hits the row that came in its place.

CSRF tokens are random; `FreshCsrf` takes one that nothing holds any more, so a few
suffice. Logging out is no action: the assignment of home.js:141 cannot change an
HttpOnly cookie. The list of devices and whoami only read.

### QRChallenge

Time is counted in fractions of a second (`Second` per second). `now` is the clock;
`view`, `rotateCountdown`, `totalElapsed`, `shown`, `due` and `late` are the page and
its chain of one-second timeouts; `minted` is the stamp in the answer on its way;
`created` the opening of the session; `gone` the last code that left the screen;
`scan` the code a phone is bringing. `Mint` is the server's signing of a code, with
the time cut off to whole seconds (`stamped`); `Show`, `Timeout`, `GiveUp`, `Fails`
the page; `Read` and `Verdict` the phone and the server, which accepts a stamp by
`Accepts`. `Advance` lets time pass while nothing is overdue: `RoundTrip`, `Lateness`
(per countdown) and `ScanDelay` bound the delays, and `MarginAssumption` says what
they may add up to, rounding included. With the source's limits that is 5 seconds.
Outside it, as in a hidden tab whose timers are throttled, a code can be refused
while it is displayed; the page then shows the phone's refusal and the next code.

### Migrations

A schema maps tables to required and optional columns, indexes and references.
The four upgrades and downgrades are sequences of statements, `Possible` and `Apply`
say what a database does with one. `run` is alembic's progress towards a revision;
`schema` and `revision` are what the connection sees and `durable` what remains when
the process ends: on PostgreSQL the whole run is one transaction, as
`alembic/env.py:42` has it; on SQLite every DDL statement is final, and the version
number moves with the end of each migration. `Execute`, `FinishMigration`, `Fail`
and `Crash` are the run, `StartServer` the `alembic upgrade head` in front of uvicorn,
`AskFor` an operator. `ModelSchema` is written from `models.py`, not from the
migrations, and `HeadMatchesModels` compares them.

## Runs

All bounds are in the `.cfg` files: `Requests` bounds concurrency, `Codes` bounds
approvals, `MaxTime` bounds the clock. `CHECK_DEADLOCK FALSE`: a server whose
sessions are all used up has nothing to do, nor has a page that gave up and whose
codes no longer matter, nor a database at the newest revision that nobody wants
changed.

| run | question | bounds | result |
| --- | --- | --- | --- |
| `overlap` | what holds however requests interleave | 1 session, 2 users, one of them with 2 devices, a client with one allowed and one foreign URI, 2 requests, 2 codes, time 0..2 with all lifetimes 1 | holds, 3.42 million states up to symmetry |
| `serial` | does the server keep its promises when requests on a session do not overlap | the same with a device for each user and 2 sessions, time 0..1 with lifetimes 0 | holds, 1.15 million states |
| `user_approved` | does a token name the user who approved, with overlapping requests | as `overlap`, a device for each user | violated |
| `lifetime` | is a session dead after `expires_at` | as `serial` | violated, with no overlap |
| `prompt` | is the page right when answers are prompt | 2 sessions, 1 fetch in flight, rotation after 2 ticks and expiry after 5, 1 failure | holds, 132 thousand states, with liveness |
| `late` | what holds however late answers are | 2 sessions, 2 fetches in flight, rotation after 1 tick and expiry after 3, 1 failure | holds, 3.12 million states up to symmetry |
| `notice` | is an approval noticed | as `prompt`, no failure | violated |
| `accounts` | are accounts an account book, and are the pages' requests accepted | 1 browser with 2 tabs, 2 addresses, 2 device tokens, unique ids | holds, 2.02 million states up to symmetry |
| `echo` | does every page of a browser that is not enrolled echo the CSRF cookie | as `accounts`, but 2 browsers with a tab each | violated |
| `window` | is a displayed code accepted and a replaced one refused | the source's 30, 35, 90 and 300 s in half seconds; a request takes up to 1 s, the timers of a countdown are up to 1 s late, a scan takes up to 1.5 s: the margin exactly | holds, 485 thousand states |
| `restart` | do version number, tables and models agree, and does the server get to the newest revision | 3 detours by an operator, 2 kills, both databases | holds, 6250 states, with liveness |
| `downgrade` | can what a downgrade leaves be downgraded | as `restart`, no kill | violated |

Two requests are enough for the read-decide-write conflicts (each is a pair), one
session is enough because requests on different sessions share only the device
rows and the fresh-code supply, a second device of one user tells the revoked device
from the others of its owner, and two codes give a second approval. Lifetimes
of 0 and 1 put the clock on both sides of every deadline. The proofs below do
without these bounds.

Two sessions are what a page needs to start over, two fetches in flight what it
needs for answers to overtake each other, and any rotation period shorter than
the expiry has the page rotate before it gives up. `prompt` needs one slot only,
by its definition.

Two tabs are what two requests need to overtake each other. One browser is enough
for the conflicts of accounts, because a request in flight keeps the cookies it was
sent with: the browser may meanwhile have signed in as another user or enrolled
again, so the two requests can be those of two people. `echo` needs a second browser,
whose device signs the first one in. Two device tokens give a
revocation and an enrolment around it; a third enrolment repeats the second.

`restart` starts from an empty database. Three detours lead down and up again through
every pair of neighbouring revisions; a second kill hits the recovery from the first.

`serial` uses `SerialSpec`, which forbids two requests in progress on one
session. That is how the test suite drives the server (`tests/test_qr.py`), not
something the code enforces; the run shows that overlap is the only cause of
`user_approved` and of what else is false in `overlap`, as listed below.

### What the violations say

* `TokenUserApproved`: a late scan by another user commits its `user_id` after
  the first user approved; the token is signed for whoever the row names, although
  "the server validates the challenge, and the user taps Approve" (`README.md:26`).
* `LifetimeHonoured`: "expired (any stage if past expires_at)"
  (`backend/models.py:71`), but only pending rows are ever expired. No overlap is
  needed.
* `ApprovalNoticed`: approve lets "the browser poll receive the signal"
  (`backend/routes/qr.py:186`). If the code rotates after the scan, the server refuses
  the rotation with 409, and `login.js:213` takes that for the end of the session,
  shows "expired" and stops polling. The property asks only about a page whose poll
  timer still runs when the session is approved, so the trace has the approval between
  the refusal and its arrival; an approval after that is, all the more, not noticed. It
  needs no failure and no late answer.
* `PagesEcho`: "JavaScript reads it and echoes it back in the X-CSRF-Token header on
  every state-changing request" (`backend/csrf.py:9`), but `register.js:24` sends no
  such header. The property is about a browser without a device cookie, because
  `register.js:10` sends an enrolled one away, and about a header read when no first
  CSRF cookie was on its way, so that it could have been sent. In the trace one browser
  registers, its device signs the other one in, and that one, which has an access
  cookie and a CSRF cookie and which `home.js:121` tells to register, is refused
  with 403.
* `DowngradesWork`: the downgrade of 0003 is to "restore minimal previous schema"
  (`alembic/versions/0003_passwordless_qr_auth.py:96`), but it restores no index, so
  the downgrade of 0002 fails when it drops one. `UpgradesAlwaysRun` says that this
  is the only statement that ever fails, and that no upgrade is affected.

Properties that hold in one run are false under the weaker specification of
another; naming the property in that run's configuration (without its symmetry, for
the liveness property) shows a trace:

* in `overlap`: `SingleUse`, `CodeSentOnce`, `DeniedIsFinal` and `AttemptSpec`, which
  `serial` shows. Each has two requests that decide on the same row before either
  commits: two exchanges both read `approved` and both sign a token, although
  `exchange_token` "marks the session 'consumed' so it cannot be reused"
  (`backend/routes/qr.py:246`).
* in `late`: `NoDeadEnd` (a poll answered "scanned" that arrives after the page
  expired puts the QR view back, with no timer left; `login.js:239`),
  `CodeIsTheClients` (of two polls in flight, the first takes the redirect URL, the
  second is told "approved" without one and exchanges the session as if it were a
  direct login, `login.js:252`; losing the answer with the URL leads there too),
  `WarnedIsOver` (a poll that was in flight when the page gave up may still take the tab
  to `/home`), and `ExchangeAfterApproval`, `ShownCodeIsFollowed` and `ClosedIsQuiet`
  (continuations read `sessionId`, set `qrImg` and start timers without asking
  whether the page has started over);
* in `prompt`: `DeniedIsBlocked`, written down at the end of `SignIn`. scan.html shows
  "The sign-in attempt was blocked." (`frontend/scan.html:144`) whatever the answer to
  deny is (`frontend/scan.js:94-100`). A device that is revoked after its scan gets 401,
  the session stays scanned, and another device of the same user may still confirm
  it. No run is about it.

The same can happen inside one request: the commit of the lazy expiry makes the next
use of `session.status` read the row again (`Reload`), so the status can change under
a handler although `qr.py:44` says that it "cannot flip". `QRSessions` models it, and
`NoStageSkipped` holds all the same.

### Fairness

Only `NoDeadEnd`, `ApprovalNoticed` and `ReachesHead` need it. For the first two, a fetch is answered or fails and
its continuation runs (weak fairness of `Serve`, `Answered`), a delayed
navigation happens (weak fairness of `Navigate`), and a browser runs due timers
in turn, so a timer that keeps running is not passed over for ever although other
events keep the script busy (strong fairness of `Tick` and of `PollFires`). Nobody
has to scan, tap or click, no request has to fail, and no session has to lapse.

For `ReachesHead`, a run of alembic that was started goes on to its next statement,
its end or its failure, and the server is started again after a run that ended
elsewhere (weak fairness of both): every start and every deploy runs
`alembic upgrade head` (`start.sh:17`, `docker-compose.yml:36`, `README.md:113`).
Nobody has to ask for a downgrade, and nothing has to be killed.

## Proofs

`QRSessionsProofs` proves, for every value of the constants that satisfies the
named assumptions of `QRSessions` (`OwnerAssumption`: every device has an owner;
`ClientAssumption`: allow-lists are sets of URIs; `NoneAssumption`: NULL is not a
value; `TimeAssumption`: times are naturals):

| theorem | statement |
| --- | --- |
| `TypeCorrect` | `Spec => []TypeOK` |
| `CodeColumns` | `Spec => []CodeColumnsAgree` |
| `NoGrantUnapproved` | `Spec => []GrantNeedsApproval` |
| `ClientGrants` | `Spec => []ClientGrantsBound` |
| `StagesInOrder` | `Spec => NoStageSkipped` |
| `RevocationHolds` | `Spec => RevokedDeviceInert` |

None of these is inductive, because what a request commits depends on a row that
may have changed since it was read. The inductive invariant `IInv` adds to
`TypeOK` what a row always satisfies (`RowInv`) and what a request in progress
can rely on whatever the others do (`ReqInv`): for example that a request about
to commit an approval works on a row that names a user and is no longer pending,
though perhaps no longer scanned. `Advance` states how a single step may change
rows under the others; `OthersKeep` shows that this leaves `ReqInv` of every
other request intact, so each action's lemma only looks at its own request and
its own row. The two action properties follow from `RowMoves`, the ways one step
can change a row's status and user: a new user or the status "scanned" comes only with
the end of a scan, "approved" only with the end of an approve, and the device that this
very request authenticated with is still registered (`EndsFor`). So what
`RevokedDeviceInert` says of a revoked device does not depend on how many devices its
user has.

`QRSerialProofs` proves, under the same assumptions, what holds when requests on
one session do not overlap (`SerialSpec`):

| theorem | statement |
| --- | --- |
| `OneToken` | `SerialSpec => []SingleUse` |
| `CodeOnce` | `SerialSpec => []CodeSentOnce` |
| `UserApproved` | `SerialSpec => []TokenUserApproved` |
| `DenialFinal` | `SerialSpec => []DeniedIsFinal` |
| `ServesAttempts` | `SerialSpec => AttemptSpec` (the refinement) |

Its invariant `SInv` strengthens `IInv`: `Settled` says that what a request read
is still in the row when it commits, which is exactly what overlap destroys;
`SerialRow` relates a row's status to the approvals, the denials and the tokens;
`CodesUnique` says that a code belongs to one session. `OwnSession` reduces a
step to its own request and its own row: a request on another session finds its
row, and the count of its code, untouched. The refinement maps each commit to
one step of `LoginAttempt` and the other steps to stutters.

`SignInProofs` proves, for every number of sessions and of fetches in flight
(`SessionAssumption`: a session identifier is neither null nor a place;
`PageAssumption`: the page's constants are naturals):

| theorem | statement |
| --- | --- |
| `SignInTypes` | `Spec => []TypeOK` |
| `HomeByApproval` | `Spec => []HomeIsApproved` |

`HomeIsApproved` relates the tab to the phone, which never talk to each other. The
invariant follows the approval on its way: a request to approve is in flight only
from a phone with disabled buttons (`AskedAfterTap`), so only such a session is
approved or consumed (`ApprovedAfterTap`), so the answer of an exchange with a
token (`TokenIsSpent`) and the decision to go home (`HomeIsSpent`) come after a
spent approval, which no step takes back (`Keeps`).

`QRChallengeProofs` proves, for every value of the limits and the delays:

| theorem | statement |
| --- | --- |
| `ChallengeTypes` | `Spec => []TypeOK` |
| `ScansInTime` | `Spec => []ReadIsAccepted` |
| `OldCodesDie` | `Spec => []GoneIsRefused` |

Its assumptions are `DelayAssumption` (times are naturals, limits positive),
`MarginAssumption` (rotation period, two round trips, late timers, the phone's delay
and the rounded second fit into the maximal age), `LifetimeAssumption` (the session
outlives a page all of whose seconds take the longest) and `RotationAssumption` (the
page's end is a multiple of the rotation period, as 90 is of 30). The invariant says
how old the displayed code is by where the page is in its countdown (`Asking`,
`Waiting`), from below for `OldCodesDie` and from above for `ScansInTime`; `Rotation`
says that countdowns end when the page does, so that the last code, too, had its full
time; `Lifetime` adds up the page's age. Products of constants are hidden behind names
(`Ticks`, `PageTime`), with lemmas for what one timeout adds, so each step is linear.

`SignInPromptProofs` proves, for every number of sessions, of slots for fetches and of
failures, and every rotation period and page lifetime, what holds when answers are
prompt (`PromptSpec`):

| theorem | statement |
| --- | --- |
| `PromptTypes` | `PromptSpec => [](TypeOK /\ HomeIsApproved)` |
| `CodeIsFollowed` | `PromptSpec => []ShownCodeIsFollowed` |
| `ClosedPageIsQuiet` | `PromptSpec => []ClosedIsQuiet` |
| `ExchangeFindsApproval` | `PromptSpec => []ExchangeAfterApproval` |
| `CodeReachesClient` | `PromptSpec => []CodeIsTheClients` |
| `WarningIsFinal` | `PromptSpec => []WarnedIsOver` |

None is inductive, because the continuations of `login.js` look at nothing but the
answer: whether they are right depends on what the page was when it asked. The
invariant `PInv` adds to that of `SignInProofs` that there is one fetch at most
(`OneFetch`) although there may be many slots, and for each kind of fetch the view in
which it may be in flight and what its answer still says about the row (`FetchOK`): a
refresh only while the countdown stands still, an exchange only in the view "success"
and of a session that is approved until the server answers. `ViewOK` says which timers
run in which view, `LeavingOK` that a page that has decided to leave asks nothing any
more, which is why nobody spends the code it carries, and each of them says that the
page it describes has not warned, so that a page that has is left with nothing. A step
of the server or of a phone leaves the page as it is; `PageWaits` shows that no such step takes an approval back. Whether the page
gets a code or a token, and when it gives up, does not matter to any of this, so the
page's time limits need no assumption but that they are naturals.

`AccountsProofs` proves, for every number of browsers, tabs, addresses and device
tokens, and for both values of `ReusesIds`:

| theorem | statement |
| --- | --- |
| `TypesHold` | `Spec => []TypeOK` |
| `EmailsStayUnique` | `Spec => []UniqueEmails` |
| `EchoesPass` | `Spec => []EchoIsAccepted` |
| `OwnersRevoke` | `Spec => OnlyOwnerRevokes` |
| `TrustedEnroll` | `Spec => EnrolledByTrusted` |
| `KeepsTheBook` | `Spec => BookSpec` (the refinement) |

`AccountAssumption` says that there are finitely many browsers, tabs and addresses, as
there are at any time. Finiteness is needed for the fresh CSRF token: the server takes
one that no jar and no request holds, and that there is one left is a counting argument
(`FreshExists`). The invariant has a part for the rows (`RowsOK`: tokens belong to one
row, and without reuse a row's id is the number of its token) and one for the request
of each tab. `LoadedOK` is the part that the theorems on revocation and enrolment rest
on: the row that a handler loaded may be gone when it writes, but if ids are not used
again, a row that still has that id is the same row, with the same owner. `CookieOK`
and `EchoOK` follow the CSRF cookie: once a page is shown its browser has one until it
restarts, and the header of a request that is settled equals the cookie it is sent with.
`OthersKeep` shows that a step of one tab leaves these facts about the other tabs
intact. `KeepsTheBook` has no condition on `ReusesIds`: reused ids make a request hit
the wrong row, but every commit is still one sign-up, one enrolment or one revocation.

`MigrationsProofs` proves, for every number of requests for another revision and of
kills:

| theorem | statement |
| --- | --- |
| `TypesHold` | `Spec => []TypeOK` |
| `HeadMatches` | `Spec => []HeadMatchesModels` |
| `ColumnsAreTold` | `Spec => []RevisionTellsColumns` |
| `UpgradesRun` | `Spec => []UpgradesAlwaysRun` |

What a statement does is one lemma per kind (`RunsCreate`, `RunsDropColumn`, ...), for
any schema and any names. With them each of the eight scripts is followed statement by
statement from every schema at rest that it may find (`Between0And1`, `From2To3`,
`From3To2`, ...), on both databases; `Chain` puts the statements together. There are two
schemas at rest at revision 2, because the downgrade from 3 restores no index, and from
the bare one the downgrade to 1 is refused at its first statement (`BareIsStuck`). The
inductive invariant `MInv` says that on an intact database the schema is what the
statements done so far make of a schema at rest (`Progress`), and what of it survives
(`Kept`): on PostgreSQL a schema at rest however often the process is killed, on SQLite
the schema as it is. `HeadIs` compares the end of the last upgrade with `ModelSchema`,
and `FreshIs` computes `Fresh` at each of the five revisions. That
`After` has a value for a script of any length is shown by a least counterexample
(`AfterExists`).

Only model-checked, on the instances above: the liveness properties `NoDeadEnd` and
`ReachesHead`, because fairness and `ENABLED` are out of the prover's reach. The five
violations are counterexamples that TLC finds. Every invariant and every safety property
of the passing runs is proved.

## Plan

Built, in this order: `QRSessions` and `LoginAttempt`, the core, with their proofs;
the login page (`LoginServer`, `LoginPage`, `SignIn`); `Accounts` with `AccountBook`;
`QRChallenge`; `Migrations`; the proofs of `SignIn`, `QRChallenge`, `Accounts` and
`Migrations`. What is left to prove is not a property of a run but what would relate
the modules: that `LoginServer`, the server as the login page sees it, follows from
`QRSessions` when one session is looked at.

## Not modelled

* `authorize`, which writes nothing and redirects after the checks that
  `create_session` repeats; the `state` parameter it passes on, which login.js drops;
  userinfo, whoami, the list of devices and the discovery document, which only read.
* Callers that send a device token in an Authorization header: to the handlers it is
  the same device, and the middleware lets them pass as it lets a browser without
  cookies.
* Logging out (home.js:141 has no effect on an HttpOnly cookie), a reload of the login
  page, the expiry of the one-year device cookie.
* The reuse of row ids by SQLite in `QRSessions`, where a revoked device's id never
  comes back; `Accounts` has it as `ReusesIds`.
* JWT and HMAC as such, page layout, QR images, logging, settings that nothing reads
  (lockout, SMTP, TOTP), and the rate limiter, which has no limit configured
  (`backend/rate_limit.py:4`) although `README.md:37` lists limits.
