----------------------------- MODULE QRSessions -----------------------------
(***************************************************************************)
(* The QR login sessions of backend/routes/qr.py and the redemption of     *)
(* their authorization codes at /oauth/token, as requests that interleave  *)
(* between their database statements.                                      *)
(*                                                                         *)
(* The handlers are plain functions, so the server runs them on a pool of  *)
(* threads, each with a database session of its own (database.get_db).  A  *)
(* handler SELECTs the row, decides on the copy it read, and later commits *)
(* an UPDATE that names the row only by primary key: nothing re-checks the *)
(* status the decision was based on.  A request is therefore two or more   *)
(* steps: Load (SELECT and decision), Commit... (UPDATE and COMMIT) and,   *)
(* where the handler reads the row again after its commit, an answer step. *)
(* The engine's isolation is read committed (PostgreSQL's default; the     *)
(* SQLite driver opens a transaction only at the first UPDATE).            *)
(*                                                                         *)
(* A request that is refused and changes nothing is not a step.            *)
(***************************************************************************)
EXTENDS Naturals, Sequences

CONSTANTS
    SessionIds,     \* identifiers secrets.token_urlsafe(32) may return
    Users,          \* rows of the users table
    Devices,        \* rows of the registered_devices table at the start
    Owner,          \* Owner[d] = RegisteredDevice.user_id of d
    Clients,        \* active rows of the oauth_clients table
    Uris,           \* redirect URIs that requests name
    WebUris,        \* those with an http(s) scheme and a network location
    RedirectUris,   \* RedirectUris[c] = the allow-list of client c
    Codes,          \* raw codes new_opaque_token may return (bounds approvals)
    Requests,       \* slots for requests in progress (bounds concurrency)
    None,           \* SQL NULL, and an argument a request does not have
    SESSION_TTL,    \* lifetime of a session
    CODE_TTL,       \* lifetime of an authorization code
    MAX_AGE,        \* age at which a QR challenge is refused
    MaxTime         \* bound on the clock

ASSUME OwnerAssumption == Owner \in [Devices -> Users]

ASSUME ClientAssumption ==
    /\ WebUris \subseteq Uris
    /\ RedirectUris \in [Clients -> SUBSET Uris]

\* NULL is none of the values a column can hold.
ASSUME NoneAssumption ==
    /\ None \notin Users \cup Clients \cup Uris \cup Codes \cup Nat
    /\ None \notin Devices
    /\ \A c \in Codes : None # [sha256 |-> c]

ASSUME TimeAssumption ==
    SESSION_TTL \in Nat /\ CODE_TTL \in Nat /\ MAX_AGE \in Nat /\ MaxTime \in Nat

VARIABLES
    now,            \* the server's clock
    sessions,       \* the qr_sessions table
    challenge,      \* time of the newest QR challenge signed for each session
    devices,        \* the devices whose row still exists
    req,            \* the requests in progress
    \* What the outside has been told; no handler reads these.
    approvals,      \* every "approve" that was committed
    denied,         \* sessions whose "deny" was committed
    delivered,      \* how often each raw code was sent to a login page
    grants          \* access tokens handed out, per session and in order

vars == <<now, sessions, challenge, devices, req, approvals, denied, delivered, grants>>
history == <<approvals, denied, delivered, grants>>

----------------------------------------------------------------------------
(* Rows and requests *)

Status == {"pending", "scanned", "approved", "consumed", "expired"}

\* security.hash_token: a different value for every code, never the code.
hash_token(raw) == [sha256 |-> raw]

Row == [status : Status \cup {"absent"},
        user_id : Users \cup {None},
        client_id : Clients \cup {None},
        redirect_uri : Uris \cup {None},
        auth_code : Codes \cup {None},
        auth_code_hash : {hash_token(c) : c \in Codes} \cup {None},
        auth_code_expires_at : Nat \cup {None},
        expires_at : Nat]

AbsentRow == [status |-> "absent", user_id |-> None, client_id |-> None,
              redirect_uri |-> None, auth_code |-> None, auth_code_hash |-> None,
              auth_code_expires_at |-> None, expires_at |-> 0]

NewRow(c, uri) == [AbsentRow EXCEPT !.status = "pending",
                                    !.client_id = c,
                                    !.redirect_uri = uri,
                                    !.expires_at = now + SESSION_TTL]

DeviceOps == {"scan", "approve", "deny"}    \* authenticated by current_device
BrowserOps == {"refresh", "status", "exchange"}
Ops == DeviceOps \cup BrowserOps \cup {"redeem"}

\* A request keeps what its later steps use: where it is, which operation on
\* which session, the device it authenticated, and the raw code it will send.
Idle == [pc |-> "idle", op |-> None, sid |-> None, device |-> None, code |-> None]
Busy == [pc : {"expire", "reload", "commit", "reply"}, op : Ops, sid : SessionIds,
         device : Devices \cup {None}, code : Codes \cup {None}]

Approval == [sid : SessionIds, device : Devices, code : Codes]
Grant == [user : Users, via : {"browser", "client"}]

At(r, pc, op) == req[r].pc = pc /\ req[r].op = op
Finish(r) == req' = [req EXCEPT ![r] = Idle]
Goto(r, pc) == req' = [req EXCEPT ![r].pc = pc]

Init ==
    /\ now = 0
    /\ sessions = [s \in SessionIds |-> AbsentRow]
    /\ challenge = [s \in SessionIds |-> 0]
    /\ devices = Devices
    /\ req = [r \in Requests |-> Idle]
    /\ approvals = {}
    /\ denied = {}
    /\ delivered = [c \in Codes |-> 0]
    /\ grants = [s \in SessionIds |-> <<>>]

----------------------------------------------------------------------------
(* Opening a session *)

redirect_uri_allowed(uri, c) == uri \in RedirectUris[c] /\ uri \in WebUris

\* create_session.  The allow-list is consulted only for a session that names
\* a client; validate_scope refuses before anything is written.
CreateSession(s, c, uri) ==
    /\ sessions[s].status = "absent"
    /\ (c # None /\ uri # None) => redirect_uri_allowed(uri, c)
    /\ sessions' = [sessions EXCEPT ![s] = NewRow(c, uri)]
    /\ challenge' = [challenge EXCEPT ![s] = now]
    /\ UNCHANGED <<now, devices, req, history>>

----------------------------------------------------------------------------
(* Loading the row and deciding *)

\* The lazy expiry test of _get_session: only a pending session can expire.
PastExpiry(row) == row.status = "pending" /\ row.expires_at < now

\* verify_qr_challenge for a challenge the server signed.  Of the challenges
\* shown for a session the newest is the last to be refused, so only its time
\* is kept.
verify_qr_challenge(s) == now - challenge[s] <= MAX_AGE

\* What each handler requires of the row it read.
RefreshAccepts(row) == row.status = "pending"

\* Mutant: tests the user instead of the status.
ScanAccepts_Unclaimed(row) == row.user_id = None

ScanAccepts(row) == row.status = "pending"

\* Mutant: accepts a session nobody scanned.
ApproveAccepts_Unscanned(row, d) ==
    /\ row.status \in {"pending", "scanned"}
    /\ row.user_id # None => row.user_id = Owner[d]

\* Mutant: does not compare the device's user with the session's.
ApproveAccepts_AnyUser(row, d) == row.status = "scanned"

ApproveAccepts(row, d) == row.status = "scanned" /\ row.user_id = Owner[d]

DenyAccepts(row, d) ==
    /\ row.status \in {"pending", "scanned"}
    /\ row.user_id # None => row.user_id = Owner[d]

\* get_status writes only when it has a code to hand over.
StatusDelivers(row) ==
    /\ row.status = "approved"
    /\ row.user_id # None
    /\ row.redirect_uri # None
    /\ row.auth_code # None

\* Mutant: does not wait for the approval.
ExchangeAccepts_Scanned(row) == row.status \in {"scanned", "approved"} /\ row.user_id # None

ExchangeAccepts(row) == row.status = "approved" /\ row.user_id # None

Accepts(op, row, d) ==
    \/ op = "refresh" /\ RefreshAccepts(row)
    \/ op = "scan" /\ ScanAccepts(row)
    \/ op = "approve" /\ ApproveAccepts(row, d)
    \/ op = "deny" /\ DenyAccepts(row, d)
    \/ op = "status" /\ StatusDelivers(row)
    \/ op = "exchange" /\ ExchangeAccepts(row)

\* The raw code get_status puts in its answer; the other handlers carry none.
CodeRead(op, row) == IF op = "status" THEN row.auth_code ELSE None

\* Before the row is read: current_device for the device's endpoints, then for
\* scan the challenge.  The device row is read in the same step as the session
\* row: no decision is taken in between, and a revocation that falls there is
\* noticed at the commit or not at all.
Authenticates(op, s, d) ==
    /\ IF op \in DeviceOps THEN d \in devices ELSE d = None
    /\ op = "scan" => verify_qr_challenge(s)

\* _get_session and the handler's checks.
Load(r, op, s, d) ==
    LET row == sessions[s] IN
    /\ req[r] = Idle
    /\ row.status # "absent"
    /\ Authenticates(op, s, d)
    /\ PastExpiry(row) \/ Accepts(op, row, d)
    /\ req' = [req EXCEPT ![r] =
                 [pc |-> IF PastExpiry(row) THEN "expire" ELSE "commit",
                  op |-> op, sid |-> s, device |-> d,
                  code |-> IF PastExpiry(row) THEN None ELSE CodeRead(op, row)]]
    /\ UNCHANGED <<now, sessions, challenge, devices, history>>

\* _get_session commits the expiry it decided on.
CommitExpire(r) ==
    /\ req[r].pc = "expire"
    /\ sessions' = [sessions EXCEPT ![req[r].sid].status = "expired"]
    /\ Goto(r, "reload")
    /\ UNCHANGED <<now, challenge, devices, history>>

\* A commit expires the loaded objects (expire_on_commit), so the handler's next
\* use of session.status SELECTs the row again, and its next use of the device
\* SELECTs that row.
Reload(r) ==
    LET q == req[r]
        row == sessions[q.sid]
    IN
    /\ q.pc = "reload"
    /\ IF Accepts(q.op, row, q.device) /\ (q.op \in DeviceOps => q.device \in devices)
       THEN req' = [req EXCEPT ![r].pc = "commit", ![r].code = CodeRead(q.op, row)]
       ELSE Finish(r)
    /\ UNCHANGED <<now, sessions, challenge, devices, history>>

----------------------------------------------------------------------------
(* Committing *)

\* scan and approve set last_used_at in the same transaction.  If the device's
\* row is gone that UPDATE matches no row, the flush raises StaleDataError, and
\* the whole transaction is rolled back.
DeviceRowUpdated_Unchecked(d) == TRUE   \* Mutant: last_used_at is not written.

DeviceRowUpdated(d) == d \in devices

\* refresh_qr signs a new challenge; it writes nothing to the database.
MintChallenge(r) ==
    /\ At(r, "commit", "refresh")
    /\ challenge' = [challenge EXCEPT ![req[r].sid] = now]
    /\ Finish(r)
    /\ UNCHANGED <<now, sessions, devices, history>>

\* scan: the session now belongs to the device's user.
CommitScan(r) ==
    /\ At(r, "commit", "scan")
    /\ sessions' = IF DeviceRowUpdated(req[r].device)
                   THEN [sessions EXCEPT ![req[r].sid].status = "scanned",
                                         ![req[r].sid].user_id = Owner[req[r].device]]
                   ELSE sessions
    /\ Finish(r)
    /\ UNCHANGED <<now, challenge, devices, history>>

\* new_opaque_token never returns a code twice.
FreshCode(c) == \A a \in approvals : a.code # c

\* approve, rolled back.
ApproveRollsBack(r) ==
    /\ At(r, "commit", "approve")
    /\ ~DeviceRowUpdated(req[r].device)
    /\ Finish(r)
    /\ UNCHANGED <<now, sessions, challenge, devices, history>>

\* Mutant: keeps the raw code where its hash belongs.
ApprovedRow_RawHash(row, c) ==
    [row EXCEPT !.auth_code = c, !.auth_code_hash = c,
                !.auth_code_expires_at = now + CODE_TTL, !.status = "approved"]

\* Mutant: a second approval keeps the first one's hash.
ApprovedRow_FirstHash(row, c) ==
    [row EXCEPT !.auth_code = c,
                !.auth_code_hash = IF @ = None THEN hash_token(c) ELSE @,
                !.auth_code_expires_at = now + CODE_TTL, !.status = "approved"]

\* A one-time code, its hash, its deadline and the new status, in one UPDATE.
ApprovedRow(row, c) ==
    [row EXCEPT !.auth_code = c,
                !.auth_code_hash = hash_token(c),
                !.auth_code_expires_at = now + CODE_TTL,
                !.status = "approved"]

\* approve, committed.
CommitApprove(r, c) ==
    LET s == req[r].sid IN
    /\ At(r, "commit", "approve")
    /\ DeviceRowUpdated(req[r].device)
    /\ FreshCode(c)
    /\ sessions' = [sessions EXCEPT ![s] = ApprovedRow(@, c)]
    /\ approvals' = approvals \cup {[sid |-> s, device |-> req[r].device, code |-> c]}
    /\ Finish(r)
    /\ UNCHANGED <<now, challenge, devices, denied, delivered, grants>>

\* deny writes no device row, so a revoked device's denial still counts.
CommitDeny(r) ==
    /\ At(r, "commit", "deny")
    /\ sessions' = [sessions EXCEPT ![req[r].sid].status = "expired"]
    /\ denied' = denied \cup {req[r].sid}
    /\ Finish(r)
    /\ UNCHANGED <<now, challenge, devices, approvals, delivered, grants>>

\* Mutant: leaves the raw code in the row.
CommitDelivery_Kept(r) ==
    /\ At(r, "commit", "status")
    /\ Goto(r, "reply")
    /\ UNCHANGED <<now, sessions, challenge, devices, history>>

\* get_status clears the raw code it is about to send.
CommitDelivery(r) ==
    /\ At(r, "commit", "status")
    /\ sessions' = [sessions EXCEPT ![req[r].sid].auth_code = None]
    /\ Goto(r, "reply")
    /\ UNCHANGED <<now, challenge, devices, history>>

\* ... and sends it.
SendCode(r) ==
    /\ At(r, "reply", "status")
    /\ delivered' = [delivered EXCEPT ![req[r].code] = @ + 1]
    /\ Finish(r)
    /\ UNCHANGED <<now, sessions, challenge, devices, approvals, denied, grants>>

\* Mutant: signs a token without spending the approval.
CommitConsume_Kept(r) ==
    /\ req[r].pc = "commit"
    /\ req[r].op \in {"exchange", "redeem"}
    /\ Goto(r, "reply")
    /\ UNCHANGED <<now, sessions, challenge, devices, history>>

\* exchange_token and token mark the session consumed ...
CommitConsume(r) ==
    /\ req[r].pc = "commit"
    /\ req[r].op \in {"exchange", "redeem"}
    /\ sessions' = [sessions EXCEPT ![req[r].sid].status = "consumed"]
    /\ Goto(r, "reply")
    /\ UNCHANGED <<now, challenge, devices, history>>

\* ... and then sign a token for the session's user, read again after the commit.
IssueToken(r) ==
    LET s == req[r].sid
        via == IF req[r].op = "exchange" THEN "browser" ELSE "client"
    IN
    /\ req[r].pc = "reply"
    /\ req[r].op \in {"exchange", "redeem"}
    /\ grants' = [grants EXCEPT ![s] =
                    Append(@, [user |-> sessions[s].user_id, via |-> via])]
    /\ Finish(r)
    /\ UNCHANGED <<now, sessions, challenge, devices, approvals, denied, delivered>>

----------------------------------------------------------------------------
(* The OAuth client *)

\* token's checks on the session it found by the code's hash.
CodeLive(row) ==
    row.auth_code_expires_at # None => ~(row.auth_code_expires_at < now)

IssuedTo_Unchecked(row, c) == TRUE      \* Mutant: any client may redeem the code.

IssuedTo(row, c) == row.client_id # None /\ row.client_id = c

\* A client presents a code that some login page was redirected with.  Its
\* credentials are the right ones: wrong ones are refused before any row is read.
LoadRedeem(r, s, c, code, uri) ==
    LET row == sessions[s] IN
    /\ req[r] = Idle
    /\ delivered[code] > 0
    /\ row.auth_code_hash = hash_token(code)
    /\ row.status = "approved"
    /\ CodeLive(row)
    /\ IssuedTo(row, c)
    /\ row.redirect_uri = uri
    /\ req' = [req EXCEPT ![r] = [pc |-> "commit", op |-> "redeem", sid |-> s,
                                  device |-> None, code |-> None]]
    /\ UNCHANGED <<now, sessions, challenge, devices, history>>

----------------------------------------------------------------------------
(* The rest of the world *)

\* devices.revoke_device deletes the device's row.
RevokeDevice(d) ==
    /\ d \in devices
    /\ devices' = devices \ {d}
    /\ UNCHANGED <<now, sessions, challenge, req, history>>

\* A request dies before its next statement: its connection fails, or the
\* server stops.  What it committed stays.
Abort(r) ==
    /\ req[r] # Idle
    /\ Finish(r)
    /\ UNCHANGED <<now, sessions, challenge, devices, history>>

Tick ==
    /\ now < MaxTime
    /\ now' = now + 1
    /\ UNCHANGED <<sessions, challenge, devices, req, history>>

----------------------------------------------------------------------------
(* Specifications *)

Step(r) ==
    \/ CommitExpire(r)
    \/ Reload(r)
    \/ MintChallenge(r)
    \/ CommitScan(r)
    \/ ApproveRollsBack(r)
    \/ \E c \in Codes : CommitApprove(r, c)
    \/ CommitDeny(r)
    \/ CommitDelivery(r)
    \/ SendCode(r)
    \/ CommitConsume(r)
    \/ IssueToken(r)
    \/ Abort(r)

Arrive(r) ==
    \E s \in SessionIds :
        \/ \E op \in DeviceOps, d \in Devices : Load(r, op, s, d)
        \/ \E op \in BrowserOps : Load(r, op, s, None)
        \/ \E c \in Clients, code \in Codes, uri \in Uris : LoadRedeem(r, s, c, code, uri)

Next ==
    \/ \E s \in SessionIds, c \in Clients \cup {None}, uri \in Uris \cup {None} :
          CreateSession(s, c, uri)
    \/ \E r \in Requests : Arrive(r) \/ Step(r)
    \/ \E d \in Devices : RevokeDevice(d)
    \/ Tick

Spec == Init /\ [][Next]_vars

\* The same server used one request at a time per session, which is how the
\* test suite uses it.
NoOverlap ==
    \A p, q \in Requests :
        (p # q /\ req[p] # Idle /\ req[q] # Idle) => req[p].sid # req[q].sid

SerialSpec == Init /\ [][Next /\ NoOverlap']_vars

----------------------------------------------------------------------------
(* What holds however requests interleave *)

\* Every variable holds what the columns and the request threads can hold; in
\* particular the hash column only ever holds a hash, and a token only ever
\* names a user.
TypeOK ==
    /\ now \in Nat
    /\ sessions \in [SessionIds -> Row]
    /\ challenge \in [SessionIds -> Nat]
    /\ devices \subseteq Devices
    /\ req \in [Requests -> Busy \cup {Idle}]
    /\ approvals \subseteq Approval
    /\ denied \subseteq SessionIds
    /\ delivered \in [Codes -> Nat]
    /\ grants \in [SessionIds -> Seq(Grant)]

\* However scans, approvals and polls overlap, an approved row names a user and
\* carries a code hash with its deadline, and the raw code waiting to be sent is
\* the one token() would recognise: a poll and a second approval never leave the
\* two code columns disagreeing.
CodeColumnsAgree ==
    \A s \in SessionIds :
        LET row == sessions[s] IN
        /\ row.status = "approved" =>
              row.user_id # None /\ row.auth_code_hash # None /\ row.auth_code_expires_at # None
        /\ row.auth_code # None => row.auth_code_hash = hash_token(row.auth_code)

\* Even a stale request cannot make a session jump a stage: the row of a session
\* nobody scanned can only become scanned or expired, it is never consumed
\* without an approval before it, and no session becomes pending a second time.
NoStageSkipped ==
    [][\A s \in SessionIds :
          LET before == sessions[s].status
              after == sessions'[s].status
          IN
          /\ before = "pending" => after \in {"pending", "scanned", "expired"}
          /\ after = "pending" => before \in {"absent", "pending"}
          /\ (after = "consumed" /\ before # "consumed") => \E a \in approvals : a.sid = s
      ]_vars

\* No token leaves the server for a session nobody approved, and none for a
\* session whose user is unknown, whichever endpoint spends the approval.
GrantNeedsApproval ==
    \A s \in SessionIds :
        grants[s] # <<>> => sessions[s].user_id # None /\ \E a \in approvals : a.sid = s

\* The row of session s gets another user, or becomes scanned or approved.
Claimed(s) ==
    \/ sessions'[s].user_id # sessions[s].user_id
    \/ sessions'[s].status # sessions[s].status /\ sessions'[s].status \in {"scanned", "approved"}

\* This step ends request r, an op on session s by a device whose row is there.
EndsFor(r, op, s) ==
    At(r, "commit", op) /\ req[r].sid = s /\ req[r].device \in devices /\ req'[r] = Idle

\* Once revoke_device has committed, that very device approves nothing and claims no
\* session, whatever other devices its user has and even through a request that
\* authenticated before the revocation: the step that gives a row its user is the scan
\* of a device of that user, the one that approves it an approve, and the device's row
\* is still there, because the last_used_at UPDATE rides in the same transaction.
RevokedDeviceInert ==
    [][/\ \A a \in approvals' \ approvals : a.device \in devices
       /\ \A s \in SessionIds : Claimed(s) =>
             \E r \in Requests :
                \/ EndsFor(r, "scan", s) /\ sessions'[s].user_id = Owner[req[r].device]
                \/ EndsFor(r, "approve", s) /\ sessions'[s].user_id = sessions[s].user_id]_vars

\* A token that an OAuth client obtained is for a session opened for a client,
\* with a redirect URI on that client's list, and the code it showed was sent to
\* a login page after an approval of that same session.
ClientGrantsBound ==
    \A s \in SessionIds : \A i \in DOMAIN grants[s] :
        grants[s][i].via = "client" =>
            /\ sessions[s].client_id # None
            /\ sessions[s].redirect_uri # None
            /\ redirect_uri_allowed(sessions[s].redirect_uri, sessions[s].client_id)
            /\ \E a \in approvals : a.sid = s /\ delivered[a.code] > 0

----------------------------------------------------------------------------
(* What the documentation promises, and requests that do not overlap keep *)

\* exchange_token "marks the session 'consumed' so it cannot be reused": a
\* session yields at most one access token, from either endpoint.
SingleUse == \A s \in SessionIds : Len(grants[s]) <= 1

\* get_status hands the raw code to the browser "exactly once".
CodeSentOnce == \A c \in Codes : delivered[c] <= 1

\* The user a token names is a user whose device approved the session.
TokenUserApproved ==
    \A s \in SessionIds : \A i \in DOMAIN grants[s] :
        \E a \in approvals : a.sid = s /\ Owner[a.device] = grants[s][i].user

\* A session whose denial was confirmed to the phone stays closed.
DeniedIsFinal == \A s \in denied : sessions[s].status = "expired"

\* A session past expires_at is expired at any stage: it is neither approved nor
\* exchanged by a request that looks it up after its lifetime.
LifetimeHonoured ==
    [][\A r \in Requests :
          (req[r] = Idle /\ req'[r].pc = "commit" /\ req'[r].op \in {"approve", "exchange"})
             => now <= sessions[req'[r].sid].expires_at]_vars

\* The login attempt this server carries out for each session.
Attempt == INSTANCE LoginAttempt WITH
    phase <- [s \in SessionIds |-> sessions[s].status],
    owner <- [s \in SessionIds |-> sessions[s].user_id],
    confirmedBy <- [s \in SessionIds |->
                      {Owner[a.device] : a \in {b \in approvals : b.sid = s}}],
    tokens <- grants

\* Requests that do not overlap carry out login attempts and nothing else.
AttemptSpec == Attempt!Spec
=============================================================================
