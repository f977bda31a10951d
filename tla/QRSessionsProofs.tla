-------------------------- MODULE QRSessionsProofs --------------------------
(***************************************************************************)
(* Proofs about QRSessions, for every set of sessions, users, devices,     *)
(* clients, codes and requests in progress, and every value of the times.  *)
(*                                                                         *)
(* None of the invariants is inductive by itself: what a request may       *)
(* commit depends on what the row looked like when it was loaded, and the  *)
(* row may have changed since.  ReqInv states what a request in progress   *)
(* can still rely on, whatever the others did in between; Advance states   *)
(* how the others may change a row, and is what makes ReqInv stable.       *)
(***************************************************************************)
EXTENDS QRSessions, TLAPS

Approved(s) == \E a \in approvals : a.sid = s

\* What token() needs to be true of a session whose code a client redeems.
ClientBound(s) ==
    /\ sessions[s].client_id # None
    /\ sessions[s].redirect_uri # None
    /\ redirect_uri_allowed(sessions[s].redirect_uri, sessions[s].client_id)
    /\ \E a \in approvals : a.sid = s /\ delivered[a.code] > 0

RowInv(s) ==
    LET row == sessions[s] IN
    /\ row.status = "absent" => row.user_id = None /\ grants[s] = <<>>
    /\ row.status \in {"scanned", "approved", "consumed"} => row.user_id # None
    /\ row.status \in {"approved", "consumed"} => Approved(s)
    /\ row.status = "approved" => row.auth_code_hash # None /\ row.auth_code_expires_at # None
    /\ row.auth_code # None => row.auth_code_hash = hash_token(row.auth_code)
    /\ row.auth_code_hash # None =>
          \E a \in approvals : a.sid = s /\ row.auth_code_hash = hash_token(a.code)
    /\ (row.client_id # None /\ row.redirect_uri # None) =>
          redirect_uri_allowed(row.redirect_uri, row.client_id)

\* What a request in progress can rely on until it is done.
ReqInv(r) ==
    LET q == req[r] IN
    q # Idle =>
        /\ sessions[q.sid].status # "absent"
        /\ q.op \in DeviceOps => q.device # None
        /\ (q.pc \in {"commit", "reply"} /\ q.op \in {"approve", "status", "exchange", "redeem"}) =>
              sessions[q.sid].status # "pending" /\ sessions[q.sid].user_id # None
        /\ (q.pc \in {"commit", "reply"} /\ q.op \in {"status", "exchange", "redeem"}) =>
              Approved(q.sid)
        /\ (q.pc \in {"commit", "reply"} /\ q.op = "status") => q.code # None
        /\ q.op = "redeem" => ClientBound(q.sid)

\* The inductive invariant.
IInv ==
    /\ TypeOK
    /\ \A s \in SessionIds : RowInv(s)
    /\ \A r \in Requests : ReqInv(r)
    /\ GrantNeedsApproval
    /\ ClientGrantsBound

\* How one step may change the rows under the other requests.
Advance ==
    /\ \A s \in SessionIds :
          LET before == sessions[s]
              after == sessions'[s]
          IN
          before.status # "absent" =>
              /\ after.status # "absent"
              /\ before.status # "pending" => after.status # "pending"
              /\ before.user_id # None => after.user_id # None
              /\ after.client_id = before.client_id
              /\ after.redirect_uri = before.redirect_uri
    /\ approvals \subseteq approvals'
    /\ \A c \in Codes : delivered[c] > 0 => delivered'[c] > 0

----------------------------------------------------------------------------
(* Lemmas *)

\* The server starts in a state that satisfies the invariant: there are no
\* sessions, no requests and no history.
LEMMA InitIInv == Init => IInv
<1> SUFFICES ASSUME Init PROVE IInv
  OBVIOUS
<1> USE NoneAssumption
<1>1. AbsentRow \in Row
  BY DEF AbsentRow, Row
<1>2. TypeOK
  <2>1. grants \in [SessionIds -> Seq(Grant)]
    BY DEF Init
  <2> QED
    BY <1>1, <2>1 DEF Init, TypeOK
<1>3. ASSUME NEW s \in SessionIds PROVE RowInv(s)
  BY <1>3 DEF Init, RowInv, AbsentRow
<1>4. ASSUME NEW r \in Requests PROVE ReqInv(r)
  BY <1>4 DEF Init, ReqInv
<1>5. GrantNeedsApproval /\ ClientGrantsBound
  BY DEF Init, GrantNeedsApproval, ClientGrantsBound
<1> QED
  BY <1>2, <1>3, <1>4, <1>5 DEF IInv

\* A redeemable session stays one.
LEMMA ClientBoundKeeps ==
    ASSUME IInv, Advance, NEW s \in SessionIds,
           sessions[s].status # "absent", ClientBound(s)
    PROVE  ClientBound(s)'
<1>1. PICK a \in approvals : a.sid = s /\ delivered[a.code] > 0
  BY DEF ClientBound
<1>2. a \in approvals' /\ a.code \in Codes
  BY DEF IInv, TypeOK, Approval, Advance
<1>3. delivered'[a.code] > 0
  BY <1>1, <1>2 DEF Advance
<1>4. sessions'[s].client_id = sessions[s].client_id /\ sessions'[s].redirect_uri = sessions[s].redirect_uri
  BY DEF Advance
<1> QED
  BY <1>1, <1>2, <1>3, <1>4 DEF ClientBound, redirect_uri_allowed

\* A step that advances the rows leaves every other request what it relies on.
LEMMA OthersKeep ==
    ASSUME IInv, Advance, NEW p \in Requests, req'[p] = req[p]
    PROVE  ReqInv(p)'
<1>1. CASE req[p] = Idle
  BY <1>1 DEF ReqInv
<1>2. ASSUME req[p] # Idle, NEW s \in SessionIds, s = req[p].sid
      PROVE  ReqInv(p)'
  <2>1. sessions[s].status # "absent"
    BY <1>2 DEF IInv, ReqInv
  <2>2. /\ sessions'[s].status # "absent"
        /\ sessions[s].status # "pending" => sessions'[s].status # "pending"
        /\ sessions[s].user_id # None => sessions'[s].user_id # None
    BY <2>1 DEF Advance
  <2>3. Approved(s) => Approved(s)'
    BY DEF Advance, Approved
  <2>4. ClientBound(s) => ClientBound(s)'
    BY <2>1, ClientBoundKeeps
  <2>5. ReqInv(p)
    BY DEF IInv
  <2>6. s = req'[p].sid
    BY <1>2
  <2>7. Approved(req[p].sid) => Approved(s)
    BY <1>2
  <2>8. Approved(s)' => Approved(req[p].sid)'
    BY <2>6
  <2>9. ClientBound(req[p].sid) => ClientBound(s)
    BY <1>2
  <2>10. ClientBound(s)' => ClientBound(req[p].sid)'
    BY <2>6
  <2> QED
    BY <1>2, <2>2, <2>3, <2>4, <2>5, <2>7, <2>8, <2>9, <2>10 DEF ReqInv
<1>3. req[p] # Idle => req[p].sid \in SessionIds
  BY DEF IInv, TypeOK, Busy
<1> QED
  BY <1>1, <1>2, <1>3

\* ... and every token that was handed out remains covered.
LEMMA GrantsKeep ==
    ASSUME IInv, Advance, grants' = grants
    PROVE  GrantNeedsApproval' /\ ClientGrantsBound'
<1>1. ASSUME NEW s \in SessionIds, grants[s] # <<>>
      PROVE  /\ sessions[s].status # "absent"
             /\ sessions'[s].user_id # None
             /\ Approved(s)'
  <2>1. sessions[s].status # "absent" /\ sessions[s].user_id # None /\ Approved(s)
    BY <1>1 DEF IInv, RowInv, GrantNeedsApproval, Approved
  <2> QED
    BY <2>1 DEF Advance, Approved
<1>2. GrantNeedsApproval'
  BY <1>1 DEF GrantNeedsApproval, Approved
<1>3. ASSUME NEW s \in SessionIds, NEW i \in DOMAIN grants[s], grants[s][i].via = "client"
      PROVE  ClientBound(s)'
  <2>1. grants[s] # <<>>
    BY <1>3
  <2>2. ClientBound(s)
    BY <1>3 DEF IInv, ClientGrantsBound, ClientBound
  <2> QED
    BY <1>1, <2>1, <2>2, ClientBoundKeeps
<1>4. ClientGrantsBound'
  BY <1>3 DEF ClientGrantsBound, ClientBound
<1> QED
  BY <1>2, <1>4

\* What is left to show for a step of request r that issues no token.
LEMMA StepKeeps ==
    ASSUME IInv, Advance, TypeOK', grants' = grants,
           NEW r \in Requests,
           \A p \in Requests : p # r => req'[p] = req[p],
           ReqInv(r)',
           \A s \in SessionIds : RowInv(s)'
    PROVE  IInv'
<1>1. ASSUME NEW p \in Requests PROVE ReqInv(p)'
  BY <1>1, OthersKeep
<1> QED
  BY <1>1, GrantsKeep DEF IInv

\* A row that a step does not touch keeps its part of the invariant.
LEMMA RowKeeps ==
    ASSUME IInv, Advance, NEW s \in SessionIds,
           sessions'[s] = sessions[s], grants'[s] = grants[s]
    PROVE  RowInv(s)'
<1>1. RowInv(s)
  BY DEF IInv
<1>2. Approved(s) => Approved(s)'
  BY DEF Advance, Approved
<1>3. (\E a \in approvals : a.sid = s /\ sessions[s].auth_code_hash = hash_token(a.code))
      => (\E a \in approvals' : a.sid = s /\ sessions'[s].auth_code_hash = hash_token(a.code))
  BY DEF Advance
<1> QED
  BY <1>1, <1>2, <1>3 DEF RowInv, hash_token, redirect_uri_allowed

\* What is left to show for a step of request r that writes no row.
LEMMA QuietStep ==
    ASSUME IInv, TypeOK', UNCHANGED <<sessions, approvals, delivered, grants>>,
           NEW r \in Requests,
           \A p \in Requests : p # r => req'[p] = req[p],
           ReqInv(r)'
    PROVE  IInv'
<1>1. Advance
  BY DEF Advance
<1>2. \A s \in SessionIds : RowInv(s)'
  BY <1>1, RowKeeps
<1> QED
  BY <1>1, <1>2, StepKeeps

\* The same when nothing but the clock, the challenges or the devices change.
LEMMA NoRequestStep ==
    ASSUME IInv, TypeOK', UNCHANGED <<sessions, approvals, delivered, grants, req>>
    PROVE  IInv'
<1>1. Advance
  BY DEF Advance
<1>2. \A s \in SessionIds : RowInv(s)'
  BY <1>1, RowKeeps
<1>3. \A r \in Requests : ReqInv(r)'
  BY <1>1, OthersKeep
<1> QED
  BY <1>1, <1>2, <1>3, GrantsKeep DEF IInv

----------------------------------------------------------------------------
(* Every action preserves the invariant *)

\* Abort, ApproveRollsBack and MintChallenge end a request without a write to
\* the database.
LEMMA EndKeeps ==
    ASSUME IInv, NEW r \in Requests,
           Abort(r) \/ ApproveRollsBack(r) \/ MintChallenge(r)
    PROVE  IInv'
<1>1. /\ req' = [req EXCEPT ![r] = Idle]
      /\ UNCHANGED <<now, sessions, devices, approvals, denied, delivered, grants>>
      /\ challenge' = challenge \/ (req[r].pc = "commit" /\ challenge' = [challenge EXCEPT ![req[r].sid] = now])
  BY DEF Abort, ApproveRollsBack, MintChallenge, Finish, At, history
<1>2. TypeOK'
  BY <1>1 DEF IInv, TypeOK
<1>3. req'[r] = Idle
  BY <1>1 DEF IInv, TypeOK
<1>4. ReqInv(r)'
  BY <1>3 DEF ReqInv
<1> QED
  BY <1>1, <1>2, <1>4, QuietStep DEF IInv, TypeOK

LEMMA WorldKeeps ==
    ASSUME IInv, Tick \/ \E d \in Devices : RevokeDevice(d)
    PROVE  IInv'
<1>1. TypeOK'
  BY DEF IInv, TypeOK, Tick, RevokeDevice, history
<1> QED
  BY <1>1, NoRequestStep DEF Tick, RevokeDevice, history

\* What a handler's checks on the row it read give it.
LEMMA AcceptsGives ==
    ASSUME IInv, NEW s \in SessionIds, NEW op \in Ops, NEW d \in Devices \cup {None},
           Accepts(op, sessions[s], d)
    PROVE  /\ op \in {"approve", "status", "exchange", "redeem"} =>
                 sessions[s].status # "pending" /\ sessions[s].user_id # None
           /\ op \in {"status", "exchange", "redeem"} => Approved(s)
           /\ op = "status" => sessions[s].auth_code # None
           /\ op # "redeem"
           /\ CodeRead(op, sessions[s]) \in Codes \cup {None}
<1>1. RowInv(s) /\ sessions[s] \in Row
  BY DEF IInv, TypeOK
<1> QED
  BY <1>1 DEF RowInv, Row, Accepts, RefreshAccepts, ScanAccepts, ApproveAccepts, DenyAccepts,
              StatusDelivers, ExchangeAccepts, CodeRead

LEMMA LoadKeeps ==
    ASSUME IInv, NEW r \in Requests, NEW s \in SessionIds, NEW op \in DeviceOps \cup BrowserOps,
           NEW d \in Devices \cup {None}, Load(r, op, s, d)
    PROVE  IInv'
<1> DEFINE q == [pc |-> IF PastExpiry(sessions[s]) THEN "expire" ELSE "commit",
                 op |-> op, sid |-> s, device |-> d,
                 code |-> IF PastExpiry(sessions[s]) THEN None ELSE CodeRead(op, sessions[s])]
<1>1. /\ sessions[s].status # "absent"
      /\ Authenticates(op, s, d)
      /\ PastExpiry(sessions[s]) \/ Accepts(op, sessions[s], d)
      /\ req' = [req EXCEPT ![r] = q]
      /\ UNCHANGED <<now, sessions, challenge, devices, approvals, denied, delivered, grants>>
  BY DEF Load, history
<1>2. ~PastExpiry(sessions[s]) => Accepts(op, sessions[s], d)
  BY <1>1
<1>3. q \in Busy /\ op \in Ops /\ op # "redeem"
  <2>1. op \in Ops /\ op # "redeem"
    BY DEF Ops, DeviceOps, BrowserOps
  <2> QED
    BY <1>2, <2>1, AcceptsGives DEF Busy
<1>4. TypeOK'
  BY <1>1, <1>3 DEF IInv, TypeOK
<1>5. req'[r] = q
  BY <1>1 DEF IInv, TypeOK
<1>6. ReqInv(r)'
  <2>1. op \in DeviceOps => d # None
    BY <1>1, NoneAssumption DEF Authenticates, IInv, TypeOK
  <2>2. CASE PastExpiry(sessions[s])
    BY <1>1, <1>3, <1>5, <2>1, <2>2 DEF ReqInv
  <2>3. CASE ~PastExpiry(sessions[s])
    <3>1. Accepts(op, sessions[s], d)
      BY <1>2, <2>3
    <3> QED
      BY <1>1, <1>3, <1>5, <2>1, <2>3, <3>1, AcceptsGives DEF ReqInv, Approved, CodeRead
  <2> QED
    BY <2>2, <2>3
<1> QED
  BY <1>1, <1>4, <1>6, QuietStep DEF IInv, TypeOK

LEMMA LoadRedeemKeeps ==
    ASSUME IInv, NEW r \in Requests, NEW s \in SessionIds, NEW c \in Clients,
           NEW code \in Codes, NEW uri \in Uris, LoadRedeem(r, s, c, code, uri)
    PROVE  IInv'
<1> DEFINE q == [pc |-> "commit", op |-> "redeem", sid |-> s, device |-> None, code |-> None]
<1>1. /\ delivered[code] > 0
      /\ sessions[s].auth_code_hash = hash_token(code)
      /\ sessions[s].status = "approved"
      /\ sessions[s].client_id # None
      /\ sessions[s].redirect_uri = uri
      /\ req' = [req EXCEPT ![r] = q]
      /\ UNCHANGED <<now, sessions, challenge, devices, approvals, denied, delivered, grants>>
  BY DEF LoadRedeem, IssuedTo, history
<1>2. q \in Busy
  BY DEF Busy, Ops
<1>3. TypeOK'
  BY <1>1, <1>2 DEF IInv, TypeOK
<1>4. req'[r] = q
  BY <1>1 DEF IInv, TypeOK
<1>5. RowInv(s)
  BY DEF IInv
<1>6. sessions[s].user_id # None /\ Approved(s)
  BY <1>1, <1>5 DEF RowInv
<1>7. ClientBound(s)
  <2>1. uri # None
    BY NoneAssumption
  <2>2. sessions[s].auth_code_hash # None
    BY <1>1, NoneAssumption DEF hash_token
  <2>3. PICK a \in approvals : a.sid = s /\ sessions[s].auth_code_hash = hash_token(a.code)
    BY <1>5, <2>2 DEF RowInv
  <2>4. a.code = code
    BY <1>1, <2>3 DEF hash_token
  <2> QED
    BY <1>1, <1>5, <2>1, <2>3, <2>4 DEF RowInv, ClientBound
<1>8. ReqInv(r)'
  BY <1>1, <1>4, <1>6, <1>7 DEF ReqInv, Approved, ClientBound, redirect_uri_allowed, DeviceOps
<1> QED
  BY <1>1, <1>3, <1>8, QuietStep DEF IInv, TypeOK

LEMMA ReloadKeeps ==
    ASSUME IInv, NEW r \in Requests, Reload(r)
    PROVE  IInv'
<1>1. /\ req[r] \in Busy /\ req[r] # Idle /\ req[r].pc = "reload"
      /\ UNCHANGED <<now, sessions, challenge, devices, approvals, denied, delivered, grants>>
  BY DEF Reload, history, IInv, TypeOK, Idle
<1>2. PICK s \in SessionIds, op \in Ops, d \in Devices \cup {None} :
          s = req[r].sid /\ op = req[r].op /\ d = req[r].device
  BY <1>1 DEF Busy
<1>3. CASE req' = [req EXCEPT ![r] = Idle]
  <2>1. TypeOK' /\ req'[r] = Idle
    BY <1>1, <1>3 DEF IInv, TypeOK
  <2>2. ReqInv(r)'
    BY <2>1 DEF ReqInv
  <2> QED
    BY <1>1, <1>3, <2>1, <2>2, QuietStep DEF IInv, TypeOK
<1>4. CASE /\ Accepts(op, sessions[s], d)
           /\ req' = [req EXCEPT ![r].pc = "commit", ![r].code = CodeRead(op, sessions[s])]
  <2>1. CodeRead(op, sessions[s]) \in Codes \cup {None}
    BY <1>4, AcceptsGives
  <2>2. /\ req'[r] \in Busy
        /\ req'[r].pc = "commit" /\ req'[r].op = op /\ req'[r].sid = s /\ req'[r].device = d
        /\ req'[r].code = CodeRead(op, sessions[s])
    BY <1>1, <1>2, <1>4, <2>1 DEF IInv, TypeOK, Busy
  <2>3. TypeOK'
    BY <1>1, <1>4, <2>2 DEF IInv, TypeOK
  <2>4. sessions[s].status # "absent" /\ (op \in DeviceOps => d # None)
    BY <1>1, <1>2 DEF IInv, ReqInv
  <2>5. /\ op \in {"approve", "status", "exchange", "redeem"} =>
              sessions[s].status # "pending" /\ sessions[s].user_id # None
        /\ op \in {"status", "exchange", "redeem"} => Approved(s)
        /\ op = "status" => CodeRead(op, sessions[s]) # None
        /\ op # "redeem"
    BY <1>4, AcceptsGives DEF CodeRead
  <2>6. Approved(s) => Approved(req[r].sid)'
    BY <1>1, <2>2 DEF Approved
  <2>7. ReqInv(r)'
    BY <1>1, <2>2, <2>4, <2>5, <2>6 DEF ReqInv
  <2> QED
    BY <1>1, <1>4, <2>3, <2>7, QuietStep DEF IInv, TypeOK
<1> QED
  BY <1>2, <1>3, <1>4 DEF Reload, Finish

\* A status written into a row leaves a table of rows.
LEMMA StatusWriteType ==
    ASSUME TypeOK, NEW s \in SessionIds, NEW st \in Status
    PROVE  [sessions EXCEPT ![s].status = st] \in [SessionIds -> Row]
<1>1. sessions[s] \in Row /\ sessions \in [SessionIds -> Row]
  BY DEF TypeOK
<1>2. [sessions[s] EXCEPT !.status = st] \in Row
  BY <1>1 DEF Row
<1> QED
  BY <1>1, <1>2

\* The five UPDATEs.  A write of a status alone keeps everything but the parts
\* of the invariant that mention the status.
LEMMA StatusWriteKeeps ==
    ASSUME IInv, TypeOK', NEW s \in SessionIds, NEW st \in {"expired", "consumed"},
           sessions' = [sessions EXCEPT ![s].status = st],
           st = "consumed" => sessions[s].user_id # None /\ Approved(s),
           sessions[s].status # "absent",
           UNCHANGED <<approvals, delivered, grants>>
    PROVE  Advance /\ \A t \in SessionIds : RowInv(t)'
<1>1. sessions \in [SessionIds -> Row]
  BY DEF IInv, TypeOK
<1>2. /\ \A t \in SessionIds : t # s => sessions'[t] = sessions[t]
      /\ sessions'[s] = [sessions[s] EXCEPT !.status = st]
  BY <1>1
<1>3. Advance
  <2>1. sessions[s] \in Row
    BY <1>1
  <2>2. /\ sessions'[s].status = st
        /\ sessions'[s].user_id = sessions[s].user_id
        /\ sessions'[s].client_id = sessions[s].client_id
        /\ sessions'[s].redirect_uri = sessions[s].redirect_uri
    BY <1>2, <2>1 DEF Row
  <2> QED
    BY <1>2, <2>2 DEF Advance
<1>4. RowInv(s)'
  <2>1. sessions[s] \in Row /\ RowInv(s)
    BY <1>1 DEF IInv
  <2>2. Approved(s) => Approved(s)'
    BY DEF Approved
  <2> QED
    BY <1>2, <2>1, <2>2 DEF RowInv, Row, redirect_uri_allowed, hash_token
<1> QED
  BY <1>2, <1>3, <1>4, RowKeeps

LEMMA CommitExpireKeeps ==
    ASSUME IInv, NEW r \in Requests, CommitExpire(r)
    PROVE  IInv'
<1>1. PICK s \in SessionIds : s = req[r].sid
  BY DEF CommitExpire, IInv, TypeOK, Busy, Idle
<1>2. /\ req[r] \in Busy /\ req[r] # Idle /\ req[r].pc = "expire"
      /\ sessions' = [sessions EXCEPT ![s].status = "expired"]
      /\ req' = [req EXCEPT ![r].pc = "reload"]
      /\ UNCHANGED <<now, challenge, devices, approvals, denied, delivered, grants>>
  BY <1>1 DEF CommitExpire, Goto, history, IInv, TypeOK, Idle
<1>3. /\ req'[r] \in Busy
      /\ req'[r].pc = "reload" /\ req'[r].sid = s
      /\ req'[r].op = req[r].op /\ req'[r].device = req[r].device
  BY <1>1, <1>2 DEF IInv, TypeOK, Busy
<1>4. TypeOK'
  <2>1. sessions' \in [SessionIds -> Row]
    BY <1>2, StatusWriteType DEF IInv, Status
  <2> QED
    BY <1>2, <1>3, <2>1 DEF IInv, TypeOK
<1>5. ReqInv(r) /\ sessions[s].status # "absent"
  BY <1>1, <1>2 DEF IInv, ReqInv
<1>6. Advance /\ \A t \in SessionIds : RowInv(t)'
  BY <1>2, <1>4, <1>5, StatusWriteKeeps
<1>7. ReqInv(r)'
  <2>1. sessions'[s].status # "absent"
    BY <1>5, <1>6 DEF Advance
  <2>2. req[r].op = "redeem" => ClientBound(s)
    BY <1>1, <1>2, <1>5 DEF ReqInv
  <2>3. req[r].op = "redeem" => ClientBound(s)'
    BY <1>5, <1>6, <2>2, ClientBoundKeeps
  <2>4. ClientBound(s)' => ClientBound(req[r].sid)'
    BY <1>3
  <2> QED
    BY <1>1, <1>2, <1>3, <1>5, <2>1, <2>3, <2>4 DEF ReqInv
<1> QED
  BY <1>2, <1>4, <1>6, <1>7, StepKeeps DEF IInv, TypeOK

LEMMA CommitDenyKeeps ==
    ASSUME IInv, NEW r \in Requests, CommitDeny(r)
    PROVE  IInv'
<1>1. PICK s \in SessionIds : s = req[r].sid
  BY DEF CommitDeny, At, IInv, TypeOK, Busy, Idle
<1>2. /\ req[r] # Idle
      /\ sessions' = [sessions EXCEPT ![s].status = "expired"]
      /\ denied' = denied \cup {s}
      /\ req' = [req EXCEPT ![r] = Idle]
      /\ UNCHANGED <<now, challenge, devices, approvals, delivered, grants>>
  BY <1>1 DEF CommitDeny, At, Finish, Idle
<1>3. TypeOK' /\ req'[r] = Idle
  <2>1. sessions' \in [SessionIds -> Row]
    BY <1>2, StatusWriteType DEF IInv, Status
  <2> QED
    BY <1>2, <2>1 DEF IInv, TypeOK
<1>4. sessions[s].status # "absent"
  BY <1>1, <1>2 DEF IInv, ReqInv
<1>5. Advance /\ \A t \in SessionIds : RowInv(t)'
  BY <1>2, <1>3, <1>4, StatusWriteKeeps
<1>6. ReqInv(r)'
  BY <1>3 DEF ReqInv
<1> QED
  BY <1>2, <1>3, <1>5, <1>6, StepKeeps DEF IInv, TypeOK

LEMMA CommitConsumeKeeps ==
    ASSUME IInv, NEW r \in Requests, CommitConsume(r)
    PROVE  IInv'
<1>1. PICK s \in SessionIds : s = req[r].sid
  BY DEF CommitConsume, IInv, TypeOK, Busy, Idle
<1>2. /\ req[r] \in Busy /\ req[r] # Idle /\ req[r].pc = "commit"
      /\ req[r].op \in {"exchange", "redeem"}
      /\ sessions' = [sessions EXCEPT ![s].status = "consumed"]
      /\ req' = [req EXCEPT ![r].pc = "reply"]
      /\ UNCHANGED <<now, challenge, devices, approvals, denied, delivered, grants>>
  BY <1>1 DEF CommitConsume, Goto, history, IInv, TypeOK, Idle
<1>3. /\ req'[r] \in Busy
      /\ req'[r].pc = "reply" /\ req'[r].sid = s
      /\ req'[r].op = req[r].op /\ req'[r].device = req[r].device
  BY <1>1, <1>2 DEF IInv, TypeOK, Busy
<1>4. TypeOK'
  <2>1. sessions' \in [SessionIds -> Row]
    BY <1>2, StatusWriteType DEF IInv, Status
  <2> QED
    BY <1>2, <1>3, <2>1 DEF IInv, TypeOK
<1>5. /\ sessions[s].status # "absent" /\ sessions[s].status # "pending"
      /\ sessions[s].user_id # None /\ Approved(s)
      /\ req[r].op = "redeem" => ClientBound(s)
  BY <1>1, <1>2 DEF IInv, ReqInv
<1>6. Advance /\ \A t \in SessionIds : RowInv(t)'
  BY <1>2, <1>4, <1>5, StatusWriteKeeps
<1>7. ReqInv(r)'
  <2>1. sessions'[s].status # "absent" /\ sessions'[s].status # "pending" /\ sessions'[s].user_id # None
    BY <1>5, <1>6 DEF Advance
  <2>2. req[r].op = "redeem" => ClientBound(s)'
    BY <1>5, <1>6, ClientBoundKeeps
  <2>3. (ClientBound(s)' => ClientBound(req[r].sid)') /\ Approved(req[r].sid)'
    BY <1>2, <1>3, <1>5 DEF Approved
  <2>4. req[r].op \notin DeviceOps
    BY <1>2 DEF DeviceOps
  <2> QED
    BY <1>2, <1>3, <2>1, <2>2, <2>3, <2>4 DEF ReqInv
<1> QED
  BY <1>2, <1>4, <1>6, <1>7, StepKeeps DEF IInv, TypeOK

LEMMA CommitScanKeeps ==
    ASSUME IInv, NEW r \in Requests, CommitScan(r)
    PROVE  IInv'
<1>1. PICK s \in SessionIds, d \in Devices : s = req[r].sid /\ d = req[r].device
  BY DEF CommitScan, At, IInv, TypeOK, Busy, Idle, ReqInv, DeviceOps
<1>2. /\ req[r] # Idle
      /\ req' = [req EXCEPT ![r] = Idle]
      /\ UNCHANGED <<now, challenge, devices, approvals, denied, delivered, grants>>
  BY DEF CommitScan, At, Finish, Idle, history
<1>3. Owner[d] \in Users /\ Owner[d] # None
  BY OwnerAssumption, NoneAssumption
<1>4. ASSUME TypeOK', Advance, \A t \in SessionIds : RowInv(t)'
      PROVE  IInv'
  <2>1. req'[r] = Idle
    BY <1>2 DEF IInv, TypeOK
  <2>2. ReqInv(r)'
    BY <2>1 DEF ReqInv
  <2> QED
    BY <1>2, <1>4, <2>2, StepKeeps DEF IInv, TypeOK
<1>5. CASE sessions' = sessions
  <2>1. TypeOK'
    BY <1>2, <1>5 DEF IInv, TypeOK
  <2>2. Advance
    BY <1>2, <1>5 DEF Advance
  <2> QED
    BY <1>2, <1>4, <1>5, <2>1, <2>2, RowKeeps
<1>6. CASE sessions' = [sessions EXCEPT ![s].status = "scanned", ![s].user_id = Owner[d]]
  <2>1. sessions[s] \in Row /\ RowInv(s) /\ sessions[s].status # "absent"
    BY <1>1, <1>2 DEF IInv, TypeOK, ReqInv
  <2>2. /\ \A t \in SessionIds : t # s => sessions'[t] = sessions[t]
        /\ sessions'[s] = [sessions[s] EXCEPT !.status = "scanned", !.user_id = Owner[d]]
    BY <1>6 DEF IInv, TypeOK
  <2>3. TypeOK'
    <3>1. sessions'[s] \in Row
      BY <1>3, <2>1, <2>2 DEF Row, Status
    <3>2. sessions' \in [SessionIds -> Row]
      BY <1>6, <2>2, <3>1 DEF IInv, TypeOK
    <3> QED
      BY <1>2, <3>2 DEF IInv, TypeOK
  <2>4. Advance
    <3>1. /\ sessions'[s].status = "scanned" /\ sessions'[s].user_id = Owner[d]
          /\ sessions'[s].client_id = sessions[s].client_id
          /\ sessions'[s].redirect_uri = sessions[s].redirect_uri
      BY <2>1, <2>2 DEF Row
    <3> QED
      BY <1>2, <1>3, <2>2, <3>1 DEF Advance
  <2>5. RowInv(s)'
    BY <1>2, <1>3, <2>1, <2>2 DEF RowInv, Row, redirect_uri_allowed, hash_token
  <2> QED
    BY <1>2, <1>4, <2>2, <2>3, <2>4, <2>5, RowKeeps
<1> QED
  BY <1>1, <1>5, <1>6 DEF CommitScan

LEMMA CommitApproveKeeps ==
    ASSUME IInv, NEW r \in Requests, NEW c \in Codes, CommitApprove(r, c)
    PROVE  IInv'
<1>1. PICK s \in SessionIds, d \in Devices : s = req[r].sid /\ d = req[r].device
  BY DEF CommitApprove, At, IInv, TypeOK, Busy, Idle, ReqInv, DeviceOps
<1>2. /\ req[r] # Idle /\ req[r].pc = "commit" /\ req[r].op = "approve"
      /\ req' = [req EXCEPT ![r] = Idle]
      /\ sessions' = [sessions EXCEPT ![s] = ApprovedRow(@, c)]
      /\ approvals' = approvals \cup {[sid |-> s, device |-> d, code |-> c]}
      /\ UNCHANGED <<now, challenge, devices, denied, delivered, grants>>
  BY <1>1 DEF CommitApprove, At, Finish, Idle
<1>3. /\ sessions[s] \in Row /\ RowInv(s)
      /\ sessions[s].status # "absent" /\ sessions[s].status # "pending"
      /\ sessions[s].user_id # None
  BY <1>1, <1>2 DEF IInv, TypeOK, ReqInv
<1>4. /\ \A t \in SessionIds : t # s => sessions'[t] = sessions[t]
      /\ sessions'[s] = ApprovedRow(sessions[s], c)
  BY <1>2 DEF IInv, TypeOK
<1>5. /\ sessions'[s].status = "approved"
      /\ sessions'[s].user_id = sessions[s].user_id
      /\ sessions'[s].client_id = sessions[s].client_id
      /\ sessions'[s].redirect_uri = sessions[s].redirect_uri
      /\ sessions'[s].auth_code = c
      /\ sessions'[s].auth_code_hash = hash_token(c)
      /\ sessions'[s].auth_code_expires_at = now + CODE_TTL
  BY <1>3, <1>4 DEF ApprovedRow, Row
<1>6. TypeOK'
  <2>1. now + CODE_TTL \in Nat
    BY TimeAssumption DEF IInv, TypeOK
  <2>2. ApprovedRow(sessions[s], c) \in Row
    BY <1>3, <2>1 DEF ApprovedRow, Row, Status
  <2>3. sessions' \in [SessionIds -> Row]
    BY <1>2, <1>4, <2>2 DEF IInv, TypeOK
  <2>4. approvals' \subseteq Approval
    BY <1>2 DEF IInv, TypeOK, Approval
  <2> QED
    BY <1>2, <2>3, <2>4 DEF IInv, TypeOK
<1>7. Advance
  BY <1>2, <1>3, <1>4, <1>5 DEF Advance
<1>8. RowInv(s)'
  <2>1. [sid |-> s, device |-> d, code |-> c] \in approvals'
    BY <1>2
  <2>2. Approved(s)' /\ \E a \in approvals' : a.sid = s /\ sessions'[s].auth_code_hash = hash_token(a.code)
    BY <1>5, <2>1 DEF Approved
  <2>3. hash_token(c) # None /\ now + CODE_TTL # None
    BY NoneAssumption, TimeAssumption DEF hash_token, IInv, TypeOK
  <2>4. (sessions[s].client_id # None /\ sessions[s].redirect_uri # None) =>
            redirect_uri_allowed(sessions[s].redirect_uri, sessions[s].client_id)
    BY <1>3 DEF RowInv
  <2>5. sessions'[s].auth_code_hash = hash_token(sessions'[s].auth_code)
    BY <1>5
  <2> QED
    BY <1>3, <1>5, <2>2, <2>3, <2>4, <2>5 DEF RowInv, redirect_uri_allowed, hash_token
<1>9. ReqInv(r)'
  BY <1>2 DEF ReqInv, IInv, TypeOK
<1> QED
  BY <1>2, <1>4, <1>6, <1>7, <1>8, <1>9, RowKeeps, StepKeeps DEF IInv, TypeOK

LEMMA CommitDeliveryKeeps ==
    ASSUME IInv, NEW r \in Requests, CommitDelivery(r)
    PROVE  IInv'
<1>1. PICK s \in SessionIds : s = req[r].sid
  BY DEF CommitDelivery, At, IInv, TypeOK, Busy, Idle
<1>2. /\ req[r] \in Busy /\ req[r] # Idle /\ req[r].pc = "commit" /\ req[r].op = "status"
      /\ sessions' = [sessions EXCEPT ![s].auth_code = None]
      /\ req' = [req EXCEPT ![r].pc = "reply"]
      /\ UNCHANGED <<now, challenge, devices, approvals, denied, delivered, grants>>
  BY <1>1 DEF CommitDelivery, At, Goto, history, IInv, TypeOK, Idle
<1>3. /\ req'[r] \in Busy
      /\ req'[r].pc = "reply" /\ req'[r].sid = s /\ req'[r].op = "status"
      /\ req'[r].code = req[r].code
  BY <1>1, <1>2 DEF IInv, TypeOK, Busy
<1>4. /\ sessions[s] \in Row /\ RowInv(s)
      /\ sessions[s].status # "absent" /\ sessions[s].status # "pending"
      /\ sessions[s].user_id # None /\ Approved(s) /\ req[r].code # None
  BY <1>1, <1>2 DEF IInv, TypeOK, ReqInv
<1>5. /\ \A t \in SessionIds : t # s => sessions'[t] = sessions[t]
      /\ sessions'[s] = [sessions[s] EXCEPT !.auth_code = None]
  BY <1>2 DEF IInv, TypeOK
<1>6. /\ sessions'[s] \in Row
      /\ sessions'[s].status = sessions[s].status
      /\ sessions'[s].user_id = sessions[s].user_id
      /\ sessions'[s].client_id = sessions[s].client_id
      /\ sessions'[s].redirect_uri = sessions[s].redirect_uri
      /\ sessions'[s].auth_code = None
      /\ sessions'[s].auth_code_hash = sessions[s].auth_code_hash
      /\ sessions'[s].auth_code_expires_at = sessions[s].auth_code_expires_at
  BY <1>4, <1>5 DEF Row
<1>7. TypeOK'
  <2>1. sessions' \in [SessionIds -> Row]
    BY <1>2, <1>5, <1>6 DEF IInv, TypeOK
  <2> QED
    BY <1>2, <1>3, <2>1 DEF IInv, TypeOK
<1>8. Advance
  BY <1>2, <1>4, <1>5, <1>6 DEF Advance
<1>9. RowInv(s)'
  <2>1. Approved(s)'
    BY <1>2, <1>4 DEF Approved
  <2>2. sessions'[s].auth_code_hash # None =>
          \E a \in approvals' : a.sid = s /\ sessions'[s].auth_code_hash = hash_token(a.code)
    BY <1>2, <1>4, <1>6 DEF RowInv, hash_token
  <2>3. (sessions[s].client_id # None /\ sessions[s].redirect_uri # None) =>
            redirect_uri_allowed(sessions[s].redirect_uri, sessions[s].client_id)
    BY <1>4 DEF RowInv
  <2> QED
    BY <1>4, <1>6, <2>1, <2>2, <2>3 DEF RowInv, redirect_uri_allowed, hash_token
<1>10. ReqInv(r)'
  <2>1. Approved(req[r].sid)'
    BY <1>2, <1>3, <1>4 DEF Approved
  <2> QED
    BY <1>3, <1>4, <1>6, <2>1 DEF ReqInv, DeviceOps
<1> QED
  BY <1>2, <1>5, <1>7, <1>8, <1>9, <1>10, RowKeeps, StepKeeps DEF IInv, TypeOK

LEMMA SendCodeKeeps ==
    ASSUME IInv, NEW r \in Requests, SendCode(r)
    PROVE  IInv'
<1>1. PICK c \in Codes : c = req[r].code
  BY DEF SendCode, At, IInv, TypeOK, Busy, Idle, ReqInv
<1>2. /\ delivered' = [delivered EXCEPT ![c] = @ + 1]
      /\ req' = [req EXCEPT ![r] = Idle]
      /\ UNCHANGED <<now, sessions, challenge, devices, approvals, denied, grants>>
  BY <1>1 DEF SendCode, Finish
<1>3. TypeOK' /\ req'[r] = Idle
  BY <1>2 DEF IInv, TypeOK
<1>4. Advance
  BY <1>2 DEF Advance, IInv, TypeOK
<1>5. ReqInv(r)'
  BY <1>3 DEF ReqInv
<1> QED
  BY <1>2, <1>3, <1>4, <1>5, RowKeeps, StepKeeps DEF IInv, TypeOK

LEMMA IssueTokenKeeps ==
    ASSUME IInv, NEW r \in Requests, IssueToken(r)
    PROVE  IInv'
<1> DEFINE via == IF req[r].op = "exchange" THEN "browser" ELSE "client"
<1>1. PICK s \in SessionIds : s = req[r].sid
  BY DEF IssueToken, IInv, TypeOK, Busy, Idle
<1>2. PICK g : g = [user |-> sessions[s].user_id, via |-> via]
  OBVIOUS
<1>3. /\ req[r] # Idle /\ req[r].pc = "reply" /\ req[r].op \in {"exchange", "redeem"}
      /\ grants' = [grants EXCEPT ![s] = Append(@, g)]
      /\ req' = [req EXCEPT ![r] = Idle]
      /\ UNCHANGED <<now, sessions, challenge, devices, approvals, denied, delivered>>
  BY <1>1, <1>2 DEF IssueToken, Finish, Idle
<1>4. /\ sessions[s].status # "absent" /\ sessions[s].user_id # None /\ Approved(s)
      /\ req[r].op = "redeem" => ClientBound(s)
  BY <1>1, <1>3 DEF IInv, ReqInv
<1>5. g \in Grant /\ (g.via = "client" => ClientBound(s))
  BY <1>2, <1>3, <1>4 DEF IInv, TypeOK, Row, Grant
<1>6. TypeOK' /\ req'[r] = Idle
  <2>1. grants' \in [SessionIds -> Seq(Grant)]
    BY <1>3, <1>5 DEF IInv, TypeOK
  <2> QED
    BY <1>3, <2>1 DEF IInv, TypeOK
<1>7. Advance
  BY <1>3 DEF Advance
<1>8. /\ \A t \in SessionIds : t # s => grants'[t] = grants[t]
      /\ grants'[s] = Append(grants[s], g)
      /\ grants[s] \in Seq(Grant)
  BY <1>3 DEF IInv, TypeOK
<1>9. ASSUME NEW t \in SessionIds PROVE RowInv(t)'
  <2>1. CASE t # s
    BY <1>3, <1>7, <1>8, <2>1, RowKeeps
  <2>2. CASE t = s
    <3>1. RowInv(s)
      BY DEF IInv
    <3> QED
      BY <1>3, <1>4, <2>2, <3>1 DEF RowInv, Approved, hash_token, redirect_uri_allowed
  <2> QED
    BY <2>1, <2>2
<1>10. ASSUME NEW p \in Requests PROVE ReqInv(p)'
  <2>1. CASE p = r
    BY <1>6, <2>1 DEF ReqInv
  <2>2. CASE p # r
    BY <1>3, <1>7, <2>2, OthersKeep DEF IInv, TypeOK
  <2> QED
    BY <2>1, <2>2
<1>11. GrantNeedsApproval'
  BY <1>3, <1>4, <1>8 DEF IInv, GrantNeedsApproval, Approved
<1>12. ASSUME NEW t \in SessionIds, NEW i \in DOMAIN grants'[t], grants'[t][i].via = "client"
       PROVE  ClientBound(t)
  <2>1. CASE t = s /\ i = Len(grants[s]) + 1
    BY <1>5, <1>8, <1>12, <2>1
  <2>2. CASE ~(t = s /\ i = Len(grants[s]) + 1)
    <3>1. i \in DOMAIN grants[t] /\ grants'[t][i] = grants[t][i]
      BY <1>8, <1>12, <2>2
    <3> QED
      BY <1>12, <3>1 DEF IInv, ClientGrantsBound, ClientBound
  <2> QED
    BY <2>1, <2>2
<1>13. ClientGrantsBound'
  BY <1>3, <1>12 DEF ClientGrantsBound, ClientBound, redirect_uri_allowed
<1> QED
  BY <1>6, <1>9, <1>10, <1>11, <1>13 DEF IInv

LEMMA CreateSessionKeeps ==
    ASSUME IInv, NEW s \in SessionIds, NEW c \in Clients \cup {None},
           NEW uri \in Uris \cup {None}, CreateSession(s, c, uri)
    PROVE  IInv'
<1>1. /\ sessions[s].status = "absent"
      /\ (c # None /\ uri # None) => redirect_uri_allowed(uri, c)
      /\ sessions' = [sessions EXCEPT ![s] = NewRow(c, uri)]
      /\ challenge' = [challenge EXCEPT ![s] = now]
      /\ UNCHANGED <<now, devices, req, approvals, denied, delivered, grants>>
  BY DEF CreateSession, history
<1>2. /\ \A t \in SessionIds : t # s => sessions'[t] = sessions[t]
      /\ sessions'[s] = NewRow(c, uri)
  BY <1>1 DEF IInv, TypeOK
<1>3. TypeOK'
  <2>1. now + SESSION_TTL \in Nat
    BY TimeAssumption DEF IInv, TypeOK
  <2>2. NewRow(c, uri) \in Row
    BY <2>1 DEF NewRow, AbsentRow, Row, Status
  <2>3. sessions' \in [SessionIds -> Row]
    BY <1>1, <1>2, <2>2 DEF IInv, TypeOK
  <2> QED
    BY <1>1, <2>3 DEF IInv, TypeOK
<1>4. Advance
  BY <1>1, <1>2 DEF Advance
<1>5. RowInv(s)'
  <2>1. /\ sessions'[s].status = "pending"
        /\ sessions'[s].client_id = c /\ sessions'[s].redirect_uri = uri
        /\ sessions'[s].auth_code = None /\ sessions'[s].auth_code_hash = None
    BY <1>2 DEF NewRow, AbsentRow
  <2> QED
    BY <1>1, <2>1 DEF RowInv, redirect_uri_allowed
<1>6. \A t \in SessionIds : RowInv(t)'
  BY <1>1, <1>2, <1>4, <1>5, RowKeeps
<1>7. \A r \in Requests : ReqInv(r)'
  BY <1>1, <1>4, OthersKeep
<1> QED
  BY <1>1, <1>3, <1>4, <1>6, <1>7, GrantsKeep DEF IInv

----------------------------------------------------------------------------
(* The theorems *)

LEMMA NextIInv == IInv /\ [Next]_vars => IInv'
<1> SUFFICES ASSUME IInv, [Next]_vars PROVE IInv'
  OBVIOUS
<1>1. CASE UNCHANGED vars
  BY <1>1, NoRequestStep DEF vars, IInv, TypeOK
<1>2. ASSUME NEW s \in SessionIds, NEW c \in Clients \cup {None}, NEW uri \in Uris \cup {None},
             CreateSession(s, c, uri)
      PROVE  IInv'
  BY <1>2, CreateSessionKeeps
<1>3. ASSUME NEW r \in Requests, Arrive(r)
      PROVE  IInv'
  <2>1. ASSUME NEW s \in SessionIds, NEW op \in DeviceOps, NEW d \in Devices, Load(r, op, s, d)
        PROVE  IInv'
    BY <1>3, <2>1, LoadKeeps
  <2>2. ASSUME NEW s \in SessionIds, NEW op \in BrowserOps, Load(r, op, s, None)
        PROVE  IInv'
    BY <1>3, <2>2, LoadKeeps
  <2>3. ASSUME NEW s \in SessionIds, NEW c \in Clients, NEW code \in Codes, NEW uri \in Uris,
               LoadRedeem(r, s, c, code, uri)
        PROVE  IInv'
    BY <1>3, <2>3, LoadRedeemKeeps
  <2> QED
    BY <1>3, <2>1, <2>2, <2>3 DEF Arrive
<1>4. ASSUME NEW r \in Requests, Step(r)
      PROVE  IInv'
  <2>1. CASE CommitExpire(r)
    BY <1>4, <2>1, CommitExpireKeeps
  <2>2. CASE Reload(r)
    BY <1>4, <2>2, ReloadKeeps
  <2>3. CASE MintChallenge(r) \/ ApproveRollsBack(r) \/ Abort(r)
    BY <1>4, <2>3, EndKeeps
  <2>4. CASE CommitScan(r)
    BY <1>4, <2>4, CommitScanKeeps
  <2>5. CASE \E c \in Codes : CommitApprove(r, c)
    BY <1>4, <2>5, CommitApproveKeeps
  <2>6. CASE CommitDeny(r)
    BY <1>4, <2>6, CommitDenyKeeps
  <2>7. CASE CommitDelivery(r)
    BY <1>4, <2>7, CommitDeliveryKeeps
  <2>8. CASE SendCode(r)
    BY <1>4, <2>8, SendCodeKeeps
  <2>9. CASE CommitConsume(r)
    BY <1>4, <2>9, CommitConsumeKeeps
  <2>10. CASE IssueToken(r)
    BY <1>4, <2>10, IssueTokenKeeps
  <2> QED
    BY <1>4, <2>1, <2>2, <2>3, <2>4, <2>5, <2>6, <2>7, <2>8, <2>9, <2>10 DEF Step
<1>5. CASE Tick \/ \E d \in Devices : RevokeDevice(d)
  BY <1>5, WorldKeeps
<1> QED
  BY <1>1, <1>2, <1>3, <1>4, <1>5 DEF Next

\* What one step can do to the status and the user of a row.
RowMoves(s) ==
    LET before == sessions[s]
        after == sessions'[s]
    IN
    \/ after.status = before.status /\ after.user_id = before.user_id
    \/ before.status = "absent" /\ after.status = "pending" /\ after.user_id = before.user_id
    \/ /\ before.status # "absent" /\ after.status = "scanned"
       /\ \E r \in Requests : EndsFor(r, "scan", s) /\ after.user_id = Owner[req[r].device]
    \/ /\ before.status # "pending" /\ after.status = "approved"
       /\ after.user_id = before.user_id
       /\ \E r \in Requests : EndsFor(r, "approve", s)
    \/ before.status # "absent" /\ after.status = "expired" /\ after.user_id = before.user_id
    \/ /\ before.status # "pending" /\ after.status = "consumed" /\ Approved(s)
       /\ after.user_id = before.user_id

\* A write of one status into the row of request r's session.
LEMMA StatusWriteMoves ==
    ASSUME IInv, NEW r \in Requests, req[r] # Idle, NEW st \in {"expired", "consumed"},
           st = "consumed" => /\ sessions[req[r].sid].status # "pending"
                              /\ Approved(req[r].sid),
           sessions' = [sessions EXCEPT ![req[r].sid].status = st],
           NEW s \in SessionIds
    PROVE  RowMoves(s)
<1>1. req[r].sid \in SessionIds /\ sessions[req[r].sid].status # "absent"
  BY DEF IInv, TypeOK, Busy, ReqInv
<1>2. sessions \in [SessionIds -> Row] /\ sessions[s] \in Row
  BY DEF IInv, TypeOK
<1>3. CASE s # req[r].sid
  BY <1>1, <1>2, <1>3 DEF RowMoves
<1>4. CASE s = req[r].sid
  <2>1. sessions'[s] = [sessions[s] EXCEPT !.status = st]
    BY <1>1, <1>2, <1>4
  <2>2. sessions'[s].status = st /\ sessions'[s].user_id = sessions[s].user_id
    BY <1>2, <2>1 DEF Row
  <2> QED
    BY <1>1, <1>4, <2>2 DEF RowMoves
<1> QED
  BY <1>3, <1>4

LEMMA Finishes ==
    ASSUME IInv, NEW r \in Requests, Finish(r)
    PROVE  req'[r] = Idle
BY DEF Finish, IInv, TypeOK

LEMMA ScanMoves ==
    ASSUME IInv, NEW r \in Requests, CommitScan(r), NEW s \in SessionIds
    PROVE  RowMoves(s)
<1>1. PICK t \in SessionIds, d \in Devices : t = req[r].sid /\ d = req[r].device
  BY DEF CommitScan, At, IInv, TypeOK, Busy, Idle, ReqInv, DeviceOps
<1>2. sessions[s] \in Row /\ sessions \in [SessionIds -> Row]
  BY DEF IInv, TypeOK
<1>3. CASE sessions' = sessions
  BY <1>3 DEF RowMoves
<1>4. CASE d \in devices /\ sessions' = [sessions EXCEPT ![t].status = "scanned", ![t].user_id = Owner[d]]
  <2>1. CASE s # t
    BY <1>2, <1>4, <2>1 DEF RowMoves
  <2>2. CASE s = t
    <3>1. sessions[s].status # "absent"
      BY <1>1, <2>2 DEF CommitScan, At, Idle, IInv, ReqInv
    <3>2. sessions'[s] = [sessions[s] EXCEPT !.status = "scanned", !.user_id = Owner[d]]
      BY <1>2, <1>4, <2>2
    <3>3. sessions'[s].status = "scanned" /\ sessions'[s].user_id = Owner[d]
      BY <1>2, <3>2 DEF Row
    <3>4. EndsFor(r, "scan", s)
      BY <1>1, <1>4, <2>2, Finishes DEF CommitScan, EndsFor
    <3> QED
      BY <1>1, <3>1, <3>3, <3>4 DEF RowMoves
  <2> QED
    BY <2>1, <2>2
<1> QED
  BY <1>1, <1>3, <1>4 DEF CommitScan, DeviceRowUpdated

LEMMA ApproveMoves ==
    ASSUME IInv, NEW r \in Requests, NEW c \in Codes, CommitApprove(r, c), NEW s \in SessionIds
    PROVE  RowMoves(s)
<1>1. PICK t \in SessionIds : t = req[r].sid
  BY DEF CommitApprove, At, IInv, TypeOK, Busy, Idle
<1>2. sessions[s] \in Row /\ sessions \in [SessionIds -> Row]
  BY DEF IInv, TypeOK
<1>3. sessions' = [sessions EXCEPT ![t] = ApprovedRow(@, c)]
  BY <1>1 DEF CommitApprove
<1>4. CASE s # t
  BY <1>2, <1>3, <1>4 DEF RowMoves
<1>5. CASE s = t
  <2>1. sessions[s].status # "pending"
    BY <1>1, <1>5 DEF CommitApprove, At, Idle, IInv, ReqInv
  <2>2. sessions'[s] = ApprovedRow(sessions[s], c)
    BY <1>2, <1>3, <1>5
  <2>3. sessions'[s].status = "approved" /\ sessions'[s].user_id = sessions[s].user_id
    BY <1>2, <2>2 DEF ApprovedRow, Row
  <2>4. EndsFor(r, "approve", s)
    BY <1>1, <1>5, Finishes DEF CommitApprove, DeviceRowUpdated, EndsFor
  <2> QED
    BY <2>1, <2>3, <2>4 DEF RowMoves
<1> QED
  BY <1>4, <1>5

LEMMA DeliveryMoves ==
    ASSUME IInv, NEW r \in Requests, CommitDelivery(r), NEW s \in SessionIds
    PROVE  RowMoves(s)
<1>1. sessions \in [SessionIds -> Row] /\ sessions[s] \in Row
  BY DEF IInv, TypeOK
<1>2. sessions' = [sessions EXCEPT ![req[r].sid].auth_code = None]
  BY DEF CommitDelivery
<1>3. sessions'[s] = sessions[s] \/ sessions'[s] = [sessions[s] EXCEPT !.auth_code = None]
  BY <1>1, <1>2
<1>4. sessions'[s].status = sessions[s].status /\ sessions'[s].user_id = sessions[s].user_id
  BY <1>1, <1>3 DEF Row
<1> QED
  BY <1>4 DEF RowMoves

LEMMA CreateMoves ==
    ASSUME IInv, NEW t \in SessionIds, NEW c \in Clients \cup {None},
           NEW uri \in Uris \cup {None}, CreateSession(t, c, uri), NEW s \in SessionIds
    PROVE  RowMoves(s)
<1>1. sessions \in [SessionIds -> Row] /\ RowInv(s)
  BY DEF IInv, TypeOK
<1>2. sessions[t].status = "absent" /\ sessions' = [sessions EXCEPT ![t] = NewRow(c, uri)]
  BY DEF CreateSession
<1>3. CASE s # t
  BY <1>1, <1>2, <1>3 DEF RowMoves
<1>4. CASE s = t
  <2>1. sessions'[s] = NewRow(c, uri)
    BY <1>1, <1>2, <1>4
  <2>2. sessions'[s].status = "pending" /\ sessions'[s].user_id = None
    BY <2>1 DEF NewRow, AbsentRow
  <2> QED
    BY <1>1, <1>2, <1>4, <2>2 DEF RowMoves, RowInv
<1> QED
  BY <1>3, <1>4

LEMMA NextMoves ==
    ASSUME IInv, Next, NEW s \in SessionIds
    PROVE  RowMoves(s)
<1>1. ASSUME sessions' = sessions PROVE RowMoves(s)
  BY <1>1 DEF RowMoves
<1>2. ASSUME NEW t \in SessionIds, NEW c \in Clients \cup {None}, NEW uri \in Uris \cup {None},
             CreateSession(t, c, uri)
      PROVE  RowMoves(s)
  BY <1>2, CreateMoves
<1>3. ASSUME NEW r \in Requests, Arrive(r)
      PROVE  RowMoves(s)
  BY <1>1, <1>3 DEF Arrive, Load, LoadRedeem
<1>4. ASSUME NEW r \in Requests, Step(r)
      PROVE  RowMoves(s)
  <2>1. CASE CommitExpire(r)
    <3>1. req[r] # Idle /\ sessions' = [sessions EXCEPT ![req[r].sid].status = "expired"]
      BY <2>1 DEF CommitExpire, Idle
    <3> QED
      BY <1>4, <3>1, StatusWriteMoves
  <2>2. CASE Reload(r) \/ MintChallenge(r) \/ ApproveRollsBack(r) \/ Abort(r) \/ SendCode(r) \/ IssueToken(r)
    BY <1>1, <2>2 DEF Reload, MintChallenge, ApproveRollsBack, Abort, SendCode, IssueToken
  <2>3. CASE CommitScan(r)
    BY <1>4, <2>3, ScanMoves
  <2>4. CASE \E c \in Codes : CommitApprove(r, c)
    BY <1>4, <2>4, ApproveMoves
  <2>5. CASE CommitDeny(r)
    <3>1. req[r] # Idle /\ sessions' = [sessions EXCEPT ![req[r].sid].status = "expired"]
      BY <2>5 DEF CommitDeny, At, Idle
    <3> QED
      BY <1>4, <3>1, StatusWriteMoves
  <2>6. CASE CommitDelivery(r)
    BY <1>4, <2>6, DeliveryMoves
  <2>7. CASE CommitConsume(r)
    <3>1. /\ req[r] # Idle /\ sessions[req[r].sid].status # "pending" /\ Approved(req[r].sid)
          /\ sessions' = [sessions EXCEPT ![req[r].sid].status = "consumed"]
      BY <1>4, <2>7 DEF CommitConsume, Idle, IInv, ReqInv
    <3> QED
      BY <1>4, <3>1, StatusWriteMoves
  <2> QED
    BY <1>4, <2>1, <2>2, <2>3, <2>4, <2>5, <2>6, <2>7 DEF Step
<1>5. CASE Tick \/ \E d \in Devices : RevokeDevice(d)
  BY <1>1, <1>5 DEF Tick, RevokeDevice
<1> QED
  BY <1>2, <1>3, <1>4, <1>5 DEF Next

\* Approvals are added by devices that are still there.
LEMMA NextApprovals ==
    ASSUME IInv, Next, NEW a \in approvals' \ approvals
    PROVE  a.device \in devices
<1>1. PICK r \in Requests, c \in Codes : CommitApprove(r, c)
  <2>1. \A s \in SessionIds, c \in Clients \cup {None}, uri \in Uris \cup {None} :
            ~CreateSession(s, c, uri)
    BY DEF CreateSession, history
  <2>2. \A r \in Requests : ~Arrive(r)
    BY DEF Arrive, Load, LoadRedeem, history
  <2>3. ~Tick /\ \A d \in Devices : ~RevokeDevice(d)
    BY DEF Tick, RevokeDevice, history
  <2>4. PICK r \in Requests : Step(r)
    BY <2>1, <2>2, <2>3 DEF Next
  <2>5. ~CommitExpire(r) /\ ~Reload(r) /\ ~MintChallenge(r) /\ ~CommitScan(r) /\ ~ApproveRollsBack(r)
    BY DEF CommitExpire, Reload, MintChallenge, CommitScan, ApproveRollsBack, history
  <2>6. ~CommitDeny(r) /\ ~CommitDelivery(r) /\ ~SendCode(r) /\ ~CommitConsume(r)
    BY DEF CommitDeny, CommitDelivery, SendCode, CommitConsume, history
  <2>7. ~IssueToken(r) /\ ~Abort(r)
    BY DEF IssueToken, Abort, history
  <2> QED
    BY <2>4, <2>5, <2>6, <2>7 DEF Step
<1> QED
  BY <1>1 DEF CommitApprove, DeviceRowUpdated

\* However requests interleave, the variables hold what their columns and
\* threads can hold.
THEOREM TypeCorrect == Spec => []TypeOK
<1>1. IInv => TypeOK
  BY DEF IInv
<1> QED
  BY <1>1, InitIInv, NextIInv, PTL DEF Spec

\* However requests interleave, the columns of an approved row belong together:
\* it names a user, and the raw code and the stored hash are of one approval.
THEOREM CodeColumns == Spec => []CodeColumnsAgree
<1>1. IInv => CodeColumnsAgree
  BY DEF IInv, RowInv, CodeColumnsAgree
<1> QED
  BY <1>1, InitIInv, NextIInv, PTL DEF Spec

\* However requests interleave, no token leaves the server for a session that
\* nobody approved or that names no user.
THEOREM NoGrantUnapproved == Spec => []GrantNeedsApproval
<1>1. IInv => GrantNeedsApproval
  BY DEF IInv
<1> QED
  BY <1>1, InitIInv, NextIInv, PTL DEF Spec

\* However requests interleave, an OAuth client gets tokens only for sessions
\* opened for a client, with an allowed redirect URI, through a code that was
\* sent out after an approval of the same session.
THEOREM ClientGrants == Spec => []ClientGrantsBound
<1>1. IInv => ClientGrantsBound
  BY DEF IInv
<1> QED
  BY <1>1, InitIInv, NextIInv, PTL DEF Spec

\* A stale request cannot make a session jump a stage, whatever happened to the
\* row since the request read it.
THEOREM StagesInOrder == Spec => NoStageSkipped
<1> DEFINE Stage(s) ==
        LET before == sessions[s].status
            after == sessions'[s].status
        IN
        /\ before = "pending" => after \in {"pending", "scanned", "expired"}
        /\ after = "pending" => before \in {"absent", "pending"}
        /\ (after = "consumed" /\ before # "consumed") => \E a \in approvals : a.sid = s
<1>1. ASSUME IInv, Next PROVE \A s \in SessionIds : Stage(s)
  BY <1>1, NextMoves DEF RowMoves, Approved
<1>2. ASSUME UNCHANGED vars PROVE \A s \in SessionIds : Stage(s)
  BY <1>2 DEF vars
<1>3. IInv /\ [Next]_vars => [\A s \in SessionIds : Stage(s)]_vars
  BY <1>1, <1>2
<1> QED
  BY <1>3, InitIInv, NextIInv, PTL DEF Spec, NoStageSkipped

\* A revoked device approves nothing and claims no session, even through a
\* request that authenticated before it was revoked, and whatever other devices
\* its user has: every claim of a session is the step of a request whose own
\* device is still registered.
THEOREM RevocationHolds == Spec => RevokedDeviceInert
<1> DEFINE Inert ==
        /\ \A a \in approvals' \ approvals : a.device \in devices
        /\ \A s \in SessionIds : Claimed(s) =>
              \E r \in Requests :
                 \/ EndsFor(r, "scan", s) /\ sessions'[s].user_id = Owner[req[r].device]
                 \/ EndsFor(r, "approve", s) /\ sessions'[s].user_id = sessions[s].user_id
<1>1. ASSUME IInv, Next PROVE Inert
  <2>1. ASSUME NEW s \in SessionIds, Claimed(s)
        PROVE  \E r \in Requests :
                  \/ EndsFor(r, "scan", s) /\ sessions'[s].user_id = Owner[req[r].device]
                  \/ EndsFor(r, "approve", s) /\ sessions'[s].user_id = sessions[s].user_id
    BY <1>1, <2>1, NextMoves DEF RowMoves, Claimed
  <2> QED
    BY <1>1, <2>1, NextApprovals
<1>2. IInv /\ [Next]_vars => [Inert]_vars
  BY <1>1
<1> QED
  BY <1>2, InitIInv, NextIInv, PTL DEF Spec, RevokedDeviceInert
=============================================================================
