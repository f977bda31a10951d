--------------------------- MODULE QRSerialProofs ---------------------------
(***************************************************************************)
(* Proofs about QRSessions when requests on one session do not overlap     *)
(* (SerialSpec): what a handler read still holds when it commits.  From    *)
(* that follow the promises of the documentation, and that the server      *)
(* implements LoginAttempt.                                                *)
(***************************************************************************)
EXTENDS QRSessionsProofs

\* What a request in progress read is still so.
Settled(r) ==
    LET q == req[r]
        row == sessions[q.sid]
    IN
    q # Idle =>
        /\ q.pc = "expire" => row.status = "pending"
        /\ q.pc = "reload" => row.status = "expired"
        /\ At(r, "commit", "scan") => row.status = "pending"
        /\ At(r, "commit", "approve") => row.status = "scanned" /\ row.user_id = Owner[q.device]
        /\ At(r, "commit", "deny") => row.status \in {"pending", "scanned"}
        /\ At(r, "commit", "status") => row.status = "approved" /\ row.auth_code = q.code
        /\ At(r, "reply", "status") =>
              row.status = "approved" /\ row.auth_code = None /\ delivered[q.code] = 0
        /\ (q.pc = "commit" /\ q.op \in {"exchange", "redeem"}) => row.status = "approved"
        /\ (q.pc = "reply" /\ q.op \in {"exchange", "redeem"}) =>
              row.status = "consumed" /\ grants[q.sid] = <<>>

\* The code a request will send belongs to an approval of its own session.
CodeIsOwn(r) ==
    (At(r, "commit", "status") \/ At(r, "reply", "status")) =>
        \E a \in approvals : a.sid = req[r].sid /\ a.code = req[r].code

SerialRow(s) ==
    LET row == sessions[s] IN
    /\ row.status \notin {"approved", "consumed"} => ~Approved(s)
    /\ row.status # "consumed" => grants[s] = <<>>
    /\ grants[s] # <<>> => \E via \in {"browser", "client"} :
                              grants[s] = <<[user |-> row.user_id, via |-> via]>>
    /\ \A a \in approvals : a.sid = s => Owner[a.device] = row.user_id
    /\ s \in denied => row.status = "expired"
    /\ row.auth_code # None => delivered[row.auth_code] = 0

\* A code is generated once, and sent only if it was generated.
CodesUnique ==
    /\ \A a, b \in approvals : a.code = b.code => a.sid = b.sid
    /\ \A c \in Codes : delivered[c] > 0 => \E a \in approvals : a.code = c
    /\ CodeSentOnce

SInv ==
    /\ IInv
    /\ NoOverlap
    /\ \A r \in Requests : Settled(r) /\ CodeIsOwn(r)
    /\ \A s \in SessionIds : SerialRow(s)
    /\ CodesUnique

----------------------------------------------------------------------------
(* Lemmas *)

\* There are no requests, approvals or codes at the start.
LEMMA InitSInv == Init => SInv
<1> SUFFICES ASSUME Init PROVE SInv
  OBVIOUS
<1>1. IInv
  BY InitIInv
<1>2. NoOverlap
  BY DEF Init, NoOverlap
<1>3. \A r \in Requests : Settled(r) /\ CodeIsOwn(r)
  BY NoneAssumption DEF Init, Settled, CodeIsOwn, At, Idle
<1>4. \A s \in SessionIds : SerialRow(s)
  BY DEF Init, SerialRow, AbsentRow, Approved
<1>5. CodesUnique
  BY DEF Init, CodesUnique, CodeSentOnce
<1> QED
  BY <1>1, <1>2, <1>3, <1>4, <1>5 DEF SInv

\* What is known of a request in progress and of its session.
LEMMA Acting ==
    ASSUME SInv, NEW r \in Requests, req[r] # Idle
    PROVE  /\ req[r] \in Busy /\ req[r].sid \in SessionIds
           /\ sessions \in [SessionIds -> Row] /\ sessions[req[r].sid] \in Row
           /\ Settled(r) /\ CodeIsOwn(r) /\ ReqInv(r)
           /\ SerialRow(req[r].sid) /\ RowInv(req[r].sid)
           /\ \A p \in Requests : (p # r /\ req[p] # Idle) => req[p].sid # req[r].sid
BY DEF SInv, IInv, TypeOK, Busy, NoOverlap

\* A request whose session is left alone still finds what it read.
LEMMA OtherSettled ==
    ASSUME SInv, NEW p \in Requests, req'[p] = req[p],
           req[p] # Idle => /\ sessions'[req[p].sid] = sessions[req[p].sid]
                            /\ grants'[req[p].sid] = grants[req[p].sid],
           approvals \subseteq approvals',
           At(p, "reply", "status") => delivered'[req[p].code] = delivered[req[p].code]
    PROVE  Settled(p)' /\ CodeIsOwn(p)'
<1>1. Settled(p) /\ CodeIsOwn(p)
  BY DEF SInv
<1>2. Settled(p)'
  BY <1>1 DEF Settled, At
<1>3. CodeIsOwn(p)'
  BY <1>1 DEF CodeIsOwn, At
<1> QED
  BY <1>2, <1>3

\* A row that is left alone keeps its part of the invariant.
LEMMA OtherRow ==
    ASSUME SInv, NEW t \in SessionIds,
           sessions'[t] = sessions[t], grants'[t] = grants[t],
           \A a \in approvals' : a.sid = t => a \in approvals,
           t \in denied' => t \in denied,
           sessions[t].auth_code # None =>
               delivered'[sessions[t].auth_code] = delivered[sessions[t].auth_code]
    PROVE  SerialRow(t)'
<1>1. SerialRow(t)
  BY DEF SInv
<1>2. Approved(t)' => Approved(t)
  BY DEF Approved
<1> QED
  BY <1>1, <1>2 DEF SerialRow

\* A step that writes no row and tells the outside nothing.
LEMMA QuietSerial ==
    ASSUME SInv, IInv', NoOverlap',
           UNCHANGED <<sessions, approvals, denied, delivered, grants>>,
           NEW R \in SUBSET Requests,
           \A p \in Requests \ R : req'[p] = req[p],
           \A r \in R : Settled(r)' /\ CodeIsOwn(r)'
    PROVE  SInv'
<1>1. \A p \in Requests : Settled(p)' /\ CodeIsOwn(p)'
  BY OtherSettled
<1>2. \A t \in SessionIds : SerialRow(t)'
  BY OtherRow
<1>3. CodesUnique'
  BY DEF SInv, CodesUnique, CodeSentOnce
<1> QED
  BY <1>1, <1>2, <1>3 DEF SInv

\* The code waiting in a row, or in a request, is one of an approval of it.
LEMMA WaitingCode ==
    ASSUME SInv
    PROVE  /\ \A t \in SessionIds : sessions[t].auth_code # None =>
                 \E a \in approvals : a.sid = t /\ a.code = sessions[t].auth_code
           /\ \A p \in Requests : At(p, "reply", "status") =>
                 \E a \in approvals : a.sid = req[p].sid /\ a.code = req[p].code
<1>1. ASSUME NEW t \in SessionIds, sessions[t].auth_code # None
      PROVE  \E a \in approvals : a.sid = t /\ a.code = sessions[t].auth_code
  <2>1. RowInv(t) /\ sessions[t] \in Row
    BY DEF SInv, IInv, TypeOK
  <2>2. sessions[t].auth_code \in Codes /\ sessions[t].auth_code_hash = hash_token(sessions[t].auth_code)
    BY <1>1, <2>1 DEF RowInv, Row
  <2>3. sessions[t].auth_code_hash # None
    BY <2>2, NoneAssumption DEF hash_token
  <2>4. PICK a \in approvals : a.sid = t /\ sessions[t].auth_code_hash = hash_token(a.code)
    BY <2>1, <2>3 DEF RowInv
  <2>5. a.code = sessions[t].auth_code
    BY <2>2, <2>4 DEF hash_token
  <2> QED
    BY <2>4, <2>5
<1>2. ASSUME NEW p \in Requests, At(p, "reply", "status")
      PROVE  \E a \in approvals : a.sid = req[p].sid /\ a.code = req[p].code
  BY <1>2 DEF SInv, CodeIsOwn
<1> QED
  BY <1>1, <1>2

\* What is left to show for a step on session s that other requests do not use.
LEMMA OwnSession ==
    ASSUME SInv, IInv', NoOverlap', CodesUnique',
           NEW s \in SessionIds, NEW R \in SUBSET Requests,
           \A p \in Requests \ R : req'[p] = req[p] /\ (req[p] # Idle => req[p].sid # s),
           \A r \in R : Settled(r)' /\ CodeIsOwn(r)',
           SerialRow(s)',
           \A t \in SessionIds : t # s => sessions'[t] = sessions[t] /\ grants'[t] = grants[t],
           approvals \subseteq approvals',
           \A a \in approvals' : a.sid # s => a \in approvals,
           \A t \in SessionIds : t # s => (t \in denied' => t \in denied),
           \A c \in Codes : \/ delivered'[c] = delivered[c]
                            \/ \E a \in approvals : a.sid = s /\ a.code = c
    PROVE  SInv'
<1>1. ASSUME NEW p \in Requests \ R PROVE Settled(p)' /\ CodeIsOwn(p)'
  <2>1. req[p] # Idle => req[p].sid \in SessionIds /\ req[p].sid # s
    BY <1>1, Acting
  <2>2. At(p, "reply", "status") => delivered'[req[p].code] = delivered[req[p].code]
    <3> SUFFICES ASSUME At(p, "reply", "status")
                 PROVE  delivered'[req[p].code] = delivered[req[p].code]
      OBVIOUS
    <3>1. PICK a \in approvals : a.sid = req[p].sid /\ a.code = req[p].code
      BY WaitingCode
    <3>2. a.sid # s /\ a.code \in Codes
      BY <2>1, <3>1 DEF At, Idle, SInv, IInv, TypeOK, Approval
    <3>3. \A b \in approvals : b.code = a.code => b.sid = a.sid
      BY DEF SInv, CodesUnique
    <3> QED
      BY <3>1, <3>2, <3>3
  <2> QED
    BY <2>1, <2>2, OtherSettled
<1>2. ASSUME NEW t \in SessionIds, t # s PROVE SerialRow(t)'
  <2>1. sessions[t].auth_code # None =>
            delivered'[sessions[t].auth_code] = delivered[sessions[t].auth_code]
    <3> SUFFICES ASSUME sessions[t].auth_code # None
                 PROVE  delivered'[sessions[t].auth_code] = delivered[sessions[t].auth_code]
      OBVIOUS
    <3>1. PICK a \in approvals : a.sid = t /\ a.code = sessions[t].auth_code
      BY WaitingCode
    <3>2. a.sid # s /\ a.code \in Codes
      BY <1>2, <3>1 DEF SInv, IInv, TypeOK, Approval
    <3>3. \A b \in approvals : b.code = a.code => b.sid = a.sid
      BY DEF SInv, CodesUnique
    <3> QED
      BY <3>1, <3>2, <3>3
  <2> QED
    BY <1>2, <2>1, OtherRow
<1> QED
  BY <1>1, <1>2 DEF SInv

----------------------------------------------------------------------------
(* Every step that leaves requests on one session apart keeps SInv *)

\* Requests that end, the clock and a revocation change nothing that is relied on.
LEMMA QuietActions ==
    ASSUME SInv, IInv', NoOverlap',
           \/ Tick
           \/ \E d \in Devices : RevokeDevice(d)
           \/ \E r \in Requests : Abort(r) \/ ApproveRollsBack(r) \/ MintChallenge(r)
    PROVE  SInv'
<1>1. CASE Tick \/ \E d \in Devices : RevokeDevice(d)
  <2>1. UNCHANGED <<sessions, approvals, denied, delivered, grants, req>>
    BY <1>1 DEF Tick, RevokeDevice, history
  <2>2. \A p \in Requests \ {} : req'[p] = req[p]
    BY <2>1
  <2>3. \A r \in {} : Settled(r)' /\ CodeIsOwn(r)'
    OBVIOUS
  <2>4. {} \in SUBSET Requests
    OBVIOUS
  <2> QED
    BY <2>1, <2>2, <2>3, <2>4, QuietSerial
<1>2. ASSUME NEW r \in Requests, Abort(r) \/ ApproveRollsBack(r) \/ MintChallenge(r)
      PROVE  SInv'
  <2>1. /\ req' = [req EXCEPT ![r] = Idle]
        /\ UNCHANGED <<sessions, approvals, denied, delivered, grants>>
    BY <1>2 DEF Abort, ApproveRollsBack, MintChallenge, Finish, history
  <2>2. req'[r] = Idle
    BY <1>2, <2>1 DEF SInv, IInv, TypeOK
  <2>3. \A q \in {r} : Settled(q)' /\ CodeIsOwn(q)'
    BY <2>2, NoneAssumption DEF Settled, CodeIsOwn, At, Idle
  <2>4. \A p \in Requests \ {r} : req'[p] = req[p]
    BY <2>1
  <2>5. {r} \in SUBSET Requests
    BY <1>2
  <2> QED
    BY <2>1, <2>3, <2>4, <2>5, QuietSerial
<1> QED
  BY <1>1, <1>2

\* What Load decided on is what it read.
LEMMA LoadSerial ==
    ASSUME SInv, IInv', NoOverlap', NEW r \in Requests, NEW s \in SessionIds,
           NEW op \in DeviceOps \cup BrowserOps, NEW d \in Devices \cup {None},
           Load(r, op, s, d)
    PROVE  SInv'
<1> DEFINE q == [pc |-> IF PastExpiry(sessions[s]) THEN "expire" ELSE "commit",
                 op |-> op, sid |-> s, device |-> d,
                 code |-> IF PastExpiry(sessions[s]) THEN None ELSE CodeRead(op, sessions[s])]
<1>1. /\ PastExpiry(sessions[s]) \/ Accepts(op, sessions[s], d)
      /\ req' = [req EXCEPT ![r] = q]
      /\ UNCHANGED <<sessions, approvals, denied, delivered, grants>>
  BY DEF Load, history
<1>2. req'[r] = q /\ \A p \in Requests \ {r} : req'[p] = req[p]
  BY <1>1 DEF SInv, IInv, TypeOK
<1>3. CASE PastExpiry(sessions[s])
  <2>1. req'[r].pc = "expire" /\ req'[r].sid = s
    BY <1>2, <1>3
  <2>2. sessions'[s].status = "pending"
    BY <1>1, <1>3 DEF PastExpiry
  <2>3. Settled(r)' /\ CodeIsOwn(r)'
    BY <2>1, <2>2 DEF Settled, CodeIsOwn, At
  <2> QED
    BY <1>1, <1>2, <2>3, QuietSerial, {r} \in SUBSET Requests
<1>4. CASE ~PastExpiry(sessions[s])
  <2>1. /\ req'[r].pc = "commit" /\ req'[r].sid = s /\ req'[r].op = op /\ req'[r].device = d
        /\ req'[r].code = CodeRead(op, sessions[s])
    BY <1>2, <1>4
  <2>2. Accepts(op, sessions[s], d)
    BY <1>1, <1>4
  <2>3. /\ op = "scan" => sessions[s].status = "pending"
        /\ op = "approve" => sessions[s].status = "scanned" /\ sessions[s].user_id = Owner[d]
        /\ op = "deny" => sessions[s].status \in {"pending", "scanned"}
        /\ op = "status" => sessions[s].status = "approved" /\ sessions[s].auth_code # None
        /\ op = "exchange" => sessions[s].status = "approved"
        /\ op # "redeem"
    BY <2>2 DEF Accepts, RefreshAccepts, ScanAccepts, ApproveAccepts, DenyAccepts,
                StatusDelivers, ExchangeAccepts
  <2>4. Settled(r)'
    BY <1>1, <2>1, <2>3 DEF Settled, At, CodeRead
  <2>5. CodeIsOwn(r)'
    <3>1. op = "status" => \E a \in approvals : a.sid = s /\ a.code = sessions[s].auth_code
      BY <2>3, WaitingCode
    <3> QED
      BY <1>1, <2>1, <3>1 DEF CodeIsOwn, At, CodeRead
  <2> QED
    BY <1>1, <1>2, <2>4, <2>5, QuietSerial, {r} \in SUBSET Requests
<1> QED
  BY <1>3, <1>4

LEMMA LoadRedeemSerial ==
    ASSUME SInv, IInv', NoOverlap', NEW r \in Requests, NEW s \in SessionIds,
           NEW c \in Clients, NEW code \in Codes, NEW uri \in Uris,
           LoadRedeem(r, s, c, code, uri)
    PROVE  SInv'
<1>1. /\ sessions[s].status = "approved"
      /\ req' = [req EXCEPT ![r] = [pc |-> "commit", op |-> "redeem", sid |-> s,
                                    device |-> None, code |-> None]]
      /\ UNCHANGED <<sessions, approvals, denied, delivered, grants>>
  BY DEF LoadRedeem, history
<1>2. /\ req'[r] = [pc |-> "commit", op |-> "redeem", sid |-> s, device |-> None, code |-> None]
      /\ \A p \in Requests \ {r} : req'[p] = req[p]
  BY <1>1 DEF SInv, IInv, TypeOK
<1>3. Settled(r)' /\ CodeIsOwn(r)'
  BY <1>1, <1>2 DEF Settled, CodeIsOwn, At
<1> QED
  BY <1>1, <1>2, <1>3, QuietSerial, {r} \in SUBSET Requests

\* The row read after the expiry says "expired", so the request is refused.
LEMMA ReloadSerial ==
    ASSUME SInv, IInv', NoOverlap', NEW r \in Requests, Reload(r)
    PROVE  SInv'
<1>1. req[r].pc = "reload" /\ UNCHANGED <<sessions, approvals, denied, delivered, grants>>
  BY DEF Reload, history
<1>2. sessions[req[r].sid].status = "expired"
  BY <1>1 DEF SInv, Settled, Idle
<1>3. ~Accepts(req[r].op, sessions[req[r].sid], req[r].device)
  BY <1>2 DEF Accepts, RefreshAccepts, ScanAccepts, ApproveAccepts, DenyAccepts,
              StatusDelivers, ExchangeAccepts
<1>4. req' = [req EXCEPT ![r] = Idle]
  BY <1>3 DEF Reload, Finish
<1>5. req'[r] = Idle /\ \A p \in Requests \ {r} : req'[p] = req[p]
  BY <1>4 DEF SInv, IInv, TypeOK
<1>6. Settled(r)' /\ CodeIsOwn(r)'
  BY <1>5, NoneAssumption DEF Settled, CodeIsOwn, At, Idle
<1> QED
  BY <1>1, <1>5, <1>6, QuietSerial, {r} \in SUBSET Requests

\* An Open session has no request in progress, and its row is new.
LEMMA CreateSerial ==
    ASSUME SInv, IInv', NoOverlap', NEW s \in SessionIds,
           NEW c \in Clients \cup {None}, NEW uri \in Uris \cup {None},
           CreateSession(s, c, uri)
    PROVE  SInv'
<1>1. /\ sessions[s].status = "absent"
      /\ sessions' = [sessions EXCEPT ![s] = NewRow(c, uri)]
      /\ UNCHANGED <<req, approvals, denied, delivered, grants>>
  BY DEF CreateSession, history
<1>2. SerialRow(s) /\ RowInv(s)
  BY DEF SInv, IInv
<1>3. /\ sessions'[s] = NewRow(c, uri)
      /\ \A t \in SessionIds : t # s => sessions'[t] = sessions[t]
  BY <1>1 DEF SInv, IInv, TypeOK
<1>4. NewRow(c, uri).status = "pending" /\ NewRow(c, uri).auth_code = None
  BY DEF NewRow, AbsentRow
<1>5. ~Approved(s) /\ grants[s] = <<>> /\ s \notin denied
  BY <1>1, <1>2 DEF SerialRow
<1>6. SerialRow(s)'
  BY <1>1, <1>3, <1>4, <1>5 DEF SerialRow, Approved
<1>7. \A p \in Requests \ {} : req'[p] = req[p] /\ (req[p] # Idle => req[p].sid # s)
  BY <1>1 DEF SInv, IInv, ReqInv
<1>8. CodesUnique'
  BY <1>1 DEF SInv, CodesUnique, CodeSentOnce
<1>9. \A r \in {} : Settled(r)' /\ CodeIsOwn(r)'
  OBVIOUS
<1>10. {} \in SUBSET Requests
  OBVIOUS
<1>11. /\ \A t \in SessionIds : t # s => sessions'[t] = sessions[t] /\ grants'[t] = grants[t]
       /\ approvals \subseteq approvals'
       /\ \A a \in approvals' : a.sid # s => a \in approvals
       /\ \A t \in SessionIds : t # s => (t \in denied' => t \in denied)
       /\ \A k \in Codes : delivered'[k] = delivered[k] \/ \E a \in approvals : a.sid = s /\ a.code = k
  BY <1>1, <1>3
<1> QED
  BY <1>6, <1>7, <1>8, <1>9, <1>10, <1>11, OwnSession

\* A request that ends or moves on alone: what OwnSession asks about the others.
LEMMA OnlyActs ==
    ASSUME SInv, NEW r \in Requests, req[r] # Idle, NEW q,
           req' = [req EXCEPT ![r] = q]
    PROVE  /\ req'[r] = q
           /\ \A p \in Requests \ {r} : req'[p] = req[p] /\ (req[p] # Idle => req[p].sid # req[r].sid)
           /\ q = Idle => Settled(r)' /\ CodeIsOwn(r)'
           /\ {r} \in SUBSET Requests
<1>1. req'[r] = q /\ \A p \in Requests \ {r} : req'[p] = req[p]
  BY DEF SInv, IInv, TypeOK
<1>2. \A p \in Requests \ {r} : req[p] # Idle => req[p].sid # req[r].sid
  BY Acting
<1>3. q = Idle => Settled(r)' /\ CodeIsOwn(r)'
  BY <1>1, NoneAssumption DEF Settled, CodeIsOwn, At, Idle
<1> QED
  BY <1>1, <1>2, <1>3

\* A step of r that ends or moves on and writes only its session's row.
LEMMA RowStep ==
    ASSUME SInv, IInv', NoOverlap', NEW r \in Requests, req[r] # Idle,
           NEW s \in SessionIds, s = req[r].sid,
           NEW q, req' = [req EXCEPT ![r] = q],
           NEW row, sessions' = [sessions EXCEPT ![s] = row],
           UNCHANGED <<approvals, delivered, grants>>,
           denied' \subseteq denied \cup {s},
           q # Idle => Settled(r)' /\ CodeIsOwn(r)',
           SerialRow(s)'
    PROVE  SInv'
<1>1. PICK R \in SUBSET Requests : R = {r}
  OBVIOUS
<1>2. \A p \in Requests \ R : req'[p] = req[p] /\ (req[p] # Idle => req[p].sid # s)
  BY <1>1, OnlyActs
<1>3. \A p \in R : Settled(p)' /\ CodeIsOwn(p)'
  <2>1. q = Idle => Settled(r)' /\ CodeIsOwn(r)'
    BY OnlyActs
  <2> QED
    BY <1>1, <2>1
<1>4. \A t \in SessionIds : t # s => sessions'[t] = sessions[t] /\ grants'[t] = grants[t]
  BY DEF SInv, IInv, TypeOK
<1>5. CodesUnique'
  BY DEF SInv, CodesUnique, CodeSentOnce
<1>6. approvals \subseteq approvals' /\ \A a \in approvals' : a.sid # s => a \in approvals
  OBVIOUS
<1>7. \A t \in SessionIds : t # s => (t \in denied' => t \in denied)
  OBVIOUS
<1>8. \A c \in Codes : delivered'[c] = delivered[c] \/ \E a \in approvals : a.sid = s /\ a.code = c
  OBVIOUS
<1>9. SerialRow(s)'
  OBVIOUS
<1> QED
  BY <1>2, <1>3, <1>4, <1>5, <1>6, <1>7, <1>8, <1>9, OwnSession

\* Expiry closes a session nobody had claimed.
LEMMA ExpireSerial ==
    ASSUME SInv, IInv', NoOverlap', NEW r \in Requests, CommitExpire(r)
    PROVE  SInv'
<1>1. req[r].pc = "expire" /\ req[r] # Idle
  BY DEF CommitExpire, Idle
<1>2. PICK s \in SessionIds : s = req[r].sid
  BY <1>1, Acting
<1>3. PICK q : q = [req[r] EXCEPT !.pc = "reload"]
  OBVIOUS
<1>4. PICK row : row = [sessions[s] EXCEPT !.status = "expired"]
  OBVIOUS
<1>5. /\ req' = [req EXCEPT ![r] = q]
      /\ sessions' = [sessions EXCEPT ![s] = row]
      /\ UNCHANGED <<approvals, denied, delivered, grants>>
  BY <1>2, <1>3, <1>4 DEF CommitExpire, Goto, history
<1>6. SerialRow(s) /\ sessions[s].status = "pending" /\ sessions[s] \in Row /\ req[r] \in Busy
  BY <1>1, <1>2, Acting DEF Settled
<1>7. /\ row.status = "expired" /\ row.user_id = sessions[s].user_id
      /\ row.auth_code = sessions[s].auth_code
  BY <1>4, <1>6 DEF Row
<1>8. sessions'[s] = row /\ req'[r] = q /\ q.pc = "reload" /\ q.sid = s
  BY <1>1, <1>2, <1>3, <1>5, <1>6, OnlyActs DEF SInv, IInv, TypeOK, Busy
<1>9. SerialRow(s)'
  BY <1>5, <1>6, <1>7, <1>8 DEF SerialRow, Approved
<1>10. Settled(r)' /\ CodeIsOwn(r)'
  BY <1>7, <1>8 DEF Settled, CodeIsOwn, At
<1> QED
  BY <1>1, <1>2, <1>5, <1>9, <1>10, RowStep

\* A scan claims a session nobody had claimed, for the device's user.
LEMMA ScanSerial ==
    ASSUME SInv, IInv', NoOverlap', NEW r \in Requests, CommitScan(r)
    PROVE  SInv'
<1>1. At(r, "commit", "scan") /\ req[r] # Idle
  BY DEF CommitScan, At, Idle
<1>2. PICK s \in SessionIds : s = req[r].sid
  BY <1>1, Acting
<1>3. PICK row : row = IF DeviceRowUpdated(req[r].device)
                       THEN [sessions[s] EXCEPT !.status = "scanned",
                                                !.user_id = Owner[req[r].device]]
                       ELSE sessions[s]
  OBVIOUS
<1>4. SerialRow(s) /\ sessions[s].status = "pending" /\ sessions[s] \in Row /\ sessions \in [SessionIds -> Row]
  BY <1>1, <1>2, Acting DEF Settled
<1>5. /\ req' = [req EXCEPT ![r] = Idle]
      /\ sessions' = [sessions EXCEPT ![s] = row]
      /\ UNCHANGED <<approvals, denied, delivered, grants>>
  BY <1>2, <1>3, <1>4 DEF CommitScan, Finish, history
<1>6. row.status \in {"pending", "scanned"} /\ row.auth_code = sessions[s].auth_code
  BY <1>3, <1>4 DEF Row
<1>7. sessions'[s] = row
  BY <1>4, <1>5
<1>8. SerialRow(s)'
  BY <1>4, <1>5, <1>6, <1>7 DEF SerialRow, Approved
<1> QED
  BY <1>1, <1>2, <1>5, <1>8, RowStep

\* A denial closes a session that was not yet approved.
LEMMA DenySerial ==
    ASSUME SInv, IInv', NoOverlap', NEW r \in Requests, CommitDeny(r)
    PROVE  SInv'
<1>1. At(r, "commit", "deny") /\ req[r] # Idle
  BY DEF CommitDeny, At, Idle
<1>2. PICK s \in SessionIds : s = req[r].sid
  BY <1>1, Acting
<1>3. PICK row : row = [sessions[s] EXCEPT !.status = "expired"]
  OBVIOUS
<1>4. /\ SerialRow(s) /\ sessions[s].status \in {"pending", "scanned"}
      /\ sessions[s] \in Row /\ sessions \in [SessionIds -> Row]
  BY <1>1, <1>2, Acting DEF Settled
<1>5. /\ req' = [req EXCEPT ![r] = Idle]
      /\ sessions' = [sessions EXCEPT ![s] = row]
      /\ denied' = denied \cup {s}
      /\ UNCHANGED <<approvals, delivered, grants>>
  BY <1>2, <1>3 DEF CommitDeny, Finish
<1>6. row.status = "expired" /\ row.auth_code = sessions[s].auth_code
  BY <1>3, <1>4 DEF Row
<1>7. sessions'[s] = row
  BY <1>4, <1>5
<1>8. SerialRow(s)'
  BY <1>4, <1>5, <1>6, <1>7 DEF SerialRow, Approved
<1> QED
  BY <1>1, <1>2, <1>5, <1>8, RowStep

\* The poll that takes the code away leaves the session approved.
LEMMA DeliverySerial ==
    ASSUME SInv, IInv', NoOverlap', NEW r \in Requests, CommitDelivery(r)
    PROVE  SInv'
<1>1. At(r, "commit", "status") /\ req[r] # Idle
  BY DEF CommitDelivery, At, Idle
<1>2. PICK s \in SessionIds : s = req[r].sid
  BY <1>1, Acting
<1>3. PICK row : row = [sessions[s] EXCEPT !.auth_code = None]
  OBVIOUS
<1>4. PICK q : q = [req[r] EXCEPT !.pc = "reply"]
  OBVIOUS
<1>5. /\ SerialRow(s) /\ sessions[s].status = "approved" /\ sessions[s].auth_code = req[r].code
      /\ sessions[s] \in Row /\ sessions \in [SessionIds -> Row] /\ req[r] \in Busy
      /\ CodeIsOwn(r) /\ ReqInv(r)
  BY <1>1, <1>2, Acting DEF Settled
<1>6. /\ req' = [req EXCEPT ![r] = q]
      /\ sessions' = [sessions EXCEPT ![s] = row]
      /\ UNCHANGED <<approvals, denied, delivered, grants>>
  BY <1>2, <1>3, <1>4 DEF CommitDelivery, Goto, history
<1>7. row.status = "approved" /\ row.auth_code = None /\ row.user_id = sessions[s].user_id
  BY <1>3, <1>5 DEF Row
<1>8. sessions'[s] = row
  BY <1>5, <1>6
<1>9. req'[r] = q /\ q.pc = "reply" /\ q.op = "status" /\ q.sid = s /\ q.code = req[r].code
  BY <1>1, <1>2, <1>4, <1>5, <1>6, OnlyActs DEF At, Busy
<1>10. SerialRow(s)'
  BY <1>5, <1>6, <1>7, <1>8 DEF SerialRow, Approved
<1>11. req[r].code # None
  BY <1>1, <1>5 DEF ReqInv, At
<1>12. delivered[req[r].code] = 0
  BY <1>5, <1>11 DEF SerialRow
<1>13. Settled(r)'
  BY <1>6, <1>7, <1>8, <1>9, <1>12 DEF Settled, At
<1>14. CodeIsOwn(r)'
  BY <1>1, <1>2, <1>5, <1>6, <1>9 DEF CodeIsOwn, At
<1> QED
  BY <1>1, <1>2, <1>6, <1>10, <1>13, <1>14, RowStep

\* The exchange that spends the approval finds no token issued before.
LEMMA ConsumeSerial ==
    ASSUME SInv, IInv', NoOverlap', NEW r \in Requests, CommitConsume(r)
    PROVE  SInv'
<1>1. req[r].pc = "commit" /\ req[r].op \in {"exchange", "redeem"} /\ req[r] # Idle
  BY DEF CommitConsume, Idle
<1>2. PICK s \in SessionIds : s = req[r].sid
  BY <1>1, Acting
<1>3. PICK row : row = [sessions[s] EXCEPT !.status = "consumed"]
  OBVIOUS
<1>4. PICK q : q = [req[r] EXCEPT !.pc = "reply"]
  OBVIOUS
<1>5. /\ SerialRow(s) /\ sessions[s].status = "approved"
      /\ sessions[s] \in Row /\ sessions \in [SessionIds -> Row] /\ req[r] \in Busy
  BY <1>1, <1>2, Acting DEF Settled
<1>6. /\ req' = [req EXCEPT ![r] = q]
      /\ sessions' = [sessions EXCEPT ![s] = row]
      /\ UNCHANGED <<approvals, denied, delivered, grants>>
  BY <1>2, <1>3, <1>4 DEF CommitConsume, Goto, history
<1>7. /\ row.status = "consumed" /\ row.user_id = sessions[s].user_id
      /\ row.auth_code = sessions[s].auth_code
  BY <1>3, <1>5 DEF Row
<1>8. sessions'[s] = row
  BY <1>5, <1>6
<1>9. req'[r] = q /\ q.pc = "reply" /\ q.op \in {"exchange", "redeem"} /\ q.sid = s
  BY <1>1, <1>2, <1>4, <1>5, <1>6, OnlyActs DEF Busy
<1>10. grants[s] = <<>> /\ s \notin denied
  BY <1>5 DEF SerialRow
<1>11. SerialRow(s)'
  BY <1>5, <1>6, <1>7, <1>8, <1>10 DEF SerialRow, Approved
<1>12. Settled(r)' /\ CodeIsOwn(r)'
  BY <1>6, <1>7, <1>8, <1>9, <1>10 DEF Settled, CodeIsOwn, At
<1> QED
  BY <1>1, <1>2, <1>6, <1>11, <1>12, RowStep

\* The first approval of a session, with a code nobody has seen.
LEMMA ApproveSerial ==
    ASSUME SInv, IInv', NoOverlap', NEW r \in Requests, NEW c \in Codes, CommitApprove(r, c)
    PROVE  SInv'
<1>1. At(r, "commit", "approve") /\ req[r] # Idle
  BY DEF CommitApprove, At, Idle
<1>2. PICK s \in SessionIds : s = req[r].sid
  BY <1>1, Acting
<1>3. PICK row : row = ApprovedRow(sessions[s], c)
  OBVIOUS
<1>4. PICK new : new = [sid |-> s, device |-> req[r].device, code |-> c]
  OBVIOUS
<1>5. /\ SerialRow(s) /\ sessions[s].status = "scanned" /\ sessions[s].user_id = Owner[req[r].device]
      /\ sessions[s] \in Row /\ sessions \in [SessionIds -> Row]
  BY <1>1, <1>2, Acting DEF Settled
<1>6. /\ req' = [req EXCEPT ![r] = Idle]
      /\ sessions' = [sessions EXCEPT ![s] = row]
      /\ approvals' = approvals \cup {new}
      /\ FreshCode(c)
      /\ UNCHANGED <<denied, delivered, grants>>
  BY <1>2, <1>3, <1>4 DEF CommitApprove, Finish
<1>7. row.status = "approved" /\ row.auth_code = c /\ row.user_id = sessions[s].user_id
  BY <1>3, <1>5 DEF Row, ApprovedRow
<1>8. sessions'[s] = row /\ \A t \in SessionIds : t # s => sessions'[t] = sessions[t]
  BY <1>5, <1>6
<1>9. new.sid = s /\ new.device = req[r].device /\ new.code = c
  BY <1>4
<1>10. ~Approved(s) /\ grants[s] = <<>> /\ s \notin denied
  BY <1>5 DEF SerialRow
<1>11. delivered[c] = 0
  <2>1. delivered[c] \in Nat /\ (delivered[c] > 0 => \E a \in approvals : a.code = c)
    BY DEF SInv, CodesUnique, IInv, TypeOK
  <2> QED
    BY <1>6, <2>1 DEF FreshCode
<1>12. SerialRow(s)'
  <2>1. \A a \in approvals' : a.sid = s => Owner[a.device] = sessions'[s].user_id
    BY <1>5, <1>6, <1>7, <1>8, <1>9, <1>10 DEF Approved
  <2> QED
    BY <1>6, <1>7, <1>8, <1>10, <1>11, <2>1 DEF SerialRow
<1>13. CodesUnique'
  <2>1. CodesUnique /\ CodeSentOnce'
    BY <1>6 DEF SInv, CodesUnique, CodeSentOnce
  <2>2. \A a, b \in approvals' : a.code = b.code => a.sid = b.sid
    BY <1>6, <1>9, <2>1 DEF CodesUnique, FreshCode
  <2>3. \A k \in Codes : delivered'[k] > 0 => \E a \in approvals' : a.code = k
    BY <1>6, <2>1 DEF CodesUnique
  <2> QED
    BY <2>1, <2>2, <2>3 DEF CodesUnique
<1>14. PICK R \in SUBSET Requests : R = {r}
  OBVIOUS
<1>15. \A p \in Requests \ R : req'[p] = req[p] /\ (req[p] # Idle => req[p].sid # s)
  BY <1>1, <1>2, <1>6, <1>14, OnlyActs
<1>16. \A p \in R : Settled(p)' /\ CodeIsOwn(p)'
  <2>1. Settled(r)' /\ CodeIsOwn(r)'
    BY <1>1, <1>6, OnlyActs
  <2> QED
    BY <1>14, <2>1
<1>17. \A t \in SessionIds : t # s => sessions'[t] = sessions[t] /\ grants'[t] = grants[t]
  BY <1>6, <1>8
<1>18. approvals \subseteq approvals' /\ \A a \in approvals' : a.sid # s => a \in approvals
  BY <1>6, <1>9
<1>19. \A t \in SessionIds : t # s => (t \in denied' => t \in denied)
  BY <1>6
<1>20. \A k \in Codes : delivered'[k] = delivered[k] \/ \E a \in approvals : a.sid = s /\ a.code = k
  BY <1>6
<1> QED
  BY <1>12, <1>13, <1>15, <1>16, <1>17, <1>18, <1>19, <1>20, OwnSession

\* The one poll that took the code sends it for the first time.
LEMMA SendSerial ==
    ASSUME SInv, IInv', NoOverlap', NEW r \in Requests, SendCode(r)
    PROVE  SInv'
<1>1. At(r, "reply", "status") /\ req[r] # Idle
  BY DEF SendCode, At, Idle
<1>2. PICK s \in SessionIds : s = req[r].sid
  BY <1>1, Acting
<1>3. PICK c : c = req[r].code
  OBVIOUS
<1>4. /\ SerialRow(s) /\ sessions[s].auth_code = None /\ delivered[c] = 0
  BY <1>1, <1>2, <1>3, Acting DEF Settled
<1>5. PICK a \in approvals : a.sid = s /\ a.code = c
  BY <1>1, <1>2, <1>3, Acting DEF CodeIsOwn
<1>6. c \in Codes
  BY <1>5 DEF SInv, IInv, TypeOK, Approval
<1>7. /\ req' = [req EXCEPT ![r] = Idle]
      /\ delivered' = [delivered EXCEPT ![c] = delivered[c] + 1]
      /\ UNCHANGED <<sessions, approvals, denied, grants>>
  BY <1>3 DEF SendCode, Finish
<1>8. delivered'[c] = 1 /\ \A k \in Codes : k # c => delivered'[k] = delivered[k]
  BY <1>4, <1>6, <1>7 DEF SInv, IInv, TypeOK
<1>9. SerialRow(s)'
  BY <1>4, <1>7 DEF SerialRow, Approved
<1>10. CodesUnique'
  BY <1>5, <1>7, <1>8 DEF SInv, CodesUnique, CodeSentOnce
<1>11. PICK R \in SUBSET Requests : R = {r}
  OBVIOUS
<1>12. \A p \in Requests \ R : req'[p] = req[p] /\ (req[p] # Idle => req[p].sid # s)
  BY <1>1, <1>2, <1>7, <1>11, OnlyActs
<1>13. \A p \in R : Settled(p)' /\ CodeIsOwn(p)'
  <2>1. Settled(r)' /\ CodeIsOwn(r)'
    BY <1>1, <1>7, OnlyActs
  <2> QED
    BY <1>11, <2>1
<1>14. /\ \A t \in SessionIds : t # s => sessions'[t] = sessions[t] /\ grants'[t] = grants[t]
       /\ \A t \in SessionIds : t # s => (t \in denied' => t \in denied)
       /\ approvals \subseteq approvals' /\ \A b \in approvals' : b.sid # s => b \in approvals
  BY <1>7
<1>15. \A k \in Codes : delivered'[k] = delivered[k] \/ \E b \in approvals : b.sid = s /\ b.code = k
  BY <1>5, <1>8
<1> QED
  BY <1>9, <1>10, <1>12, <1>13, <1>14, <1>15, OwnSession

\* The token is the session's first, and names the user of its row.
LEMMA IssueSerial ==
    ASSUME SInv, IInv', NoOverlap', NEW r \in Requests, IssueToken(r)
    PROVE  SInv'
<1>1. req[r].pc = "reply" /\ req[r].op \in {"exchange", "redeem"} /\ req[r] # Idle
  BY DEF IssueToken, Idle
<1>2. PICK s \in SessionIds : s = req[r].sid
  BY <1>1, Acting
<1>3. PICK via \in {"browser", "client"} : via = IF req[r].op = "exchange" THEN "browser" ELSE "client"
  OBVIOUS
<1>4. SerialRow(s) /\ sessions[s].status = "consumed" /\ grants[s] = <<>>
  BY <1>1, <1>2, Acting DEF Settled
<1>5. /\ req' = [req EXCEPT ![r] = Idle]
      /\ grants' = [grants EXCEPT ![s] = Append(grants[s], [user |-> sessions[s].user_id, via |-> via])]
      /\ UNCHANGED <<sessions, approvals, denied, delivered>>
  BY <1>2, <1>3 DEF IssueToken, Finish
<1>6. /\ grants'[s] = Append(grants[s], [user |-> sessions[s].user_id, via |-> via])
      /\ \A t \in SessionIds : t # s => grants'[t] = grants[t]
  BY <1>5 DEF SInv, IInv, TypeOK
<1>7. grants'[s] = <<[user |-> sessions[s].user_id, via |-> via]>>
  BY <1>4, <1>6
<1>8. SerialRow(s)'
  BY <1>4, <1>5, <1>7 DEF SerialRow, Approved
<1>9. CodesUnique'
  BY <1>5 DEF SInv, CodesUnique, CodeSentOnce
<1>10. PICK R \in SUBSET Requests : R = {r}
  OBVIOUS
<1>11. \A p \in Requests \ R : req'[p] = req[p] /\ (req[p] # Idle => req[p].sid # s)
  BY <1>1, <1>2, <1>5, <1>10, OnlyActs
<1>12. \A p \in R : Settled(p)' /\ CodeIsOwn(p)'
  <2>1. Settled(r)' /\ CodeIsOwn(r)'
    BY <1>1, <1>5, OnlyActs
  <2> QED
    BY <1>10, <2>1
<1>13. /\ \A t \in SessionIds : t # s => sessions'[t] = sessions[t] /\ grants'[t] = grants[t]
       /\ \A t \in SessionIds : t # s => (t \in denied' => t \in denied)
       /\ approvals \subseteq approvals' /\ \A b \in approvals' : b.sid # s => b \in approvals
       /\ \A k \in Codes : delivered'[k] = delivered[k] \/ \E b \in approvals : b.sid = s /\ b.code = k
  BY <1>5, <1>6
<1> QED
  BY <1>8, <1>9, <1>11, <1>12, <1>13, OwnSession

----------------------------------------------------------------------------
(* Theorems about SerialSpec *)

LEMMA NextSInv == SInv /\ [Next /\ NoOverlap']_vars => SInv'
<1> SUFFICES ASSUME SInv, [Next /\ NoOverlap']_vars PROVE SInv'
  OBVIOUS
<1>1. IInv'
  BY NextIInv DEF SInv
<1>2. CASE UNCHANGED vars
  <2>1. NoOverlap'
    BY <1>2 DEF SInv, NoOverlap, vars
  <2>2. UNCHANGED <<sessions, approvals, denied, delivered, grants, req>>
    BY <1>2 DEF vars
  <2>3. \A p \in Requests \ {} : req'[p] = req[p]
    BY <2>2
  <2>4. \A r \in {} : Settled(r)' /\ CodeIsOwn(r)'
    OBVIOUS
  <2>5. {} \in SUBSET Requests
    OBVIOUS
  <2> QED
    BY <1>1, <2>1, <2>2, <2>3, <2>4, <2>5, QuietSerial
<1>3. CASE Next /\ NoOverlap'
  <2>1. NoOverlap' /\ Next
    BY <1>3
  <2>2. ASSUME NEW s \in SessionIds, NEW c \in Clients \cup {None}, NEW uri \in Uris \cup {None},
               CreateSession(s, c, uri)
        PROVE  SInv'
    BY <1>1, <2>1, <2>2, CreateSerial
  <2>3. CASE Tick \/ \E d \in Devices : RevokeDevice(d)
    BY <1>1, <2>1, <2>3, QuietActions
  <2>4. ASSUME NEW r \in Requests, Arrive(r) PROVE SInv'
    <3>1. ASSUME NEW s \in SessionIds, NEW op \in DeviceOps, NEW d \in Devices, Load(r, op, s, d)
          PROVE  SInv'
      BY <1>1, <2>1, <3>1, LoadSerial
    <3>2. ASSUME NEW s \in SessionIds, NEW op \in BrowserOps, Load(r, op, s, None)
          PROVE  SInv'
      BY <1>1, <2>1, <3>2, LoadSerial
    <3>3. ASSUME NEW s \in SessionIds, NEW c \in Clients, NEW code \in Codes, NEW uri \in Uris,
                 LoadRedeem(r, s, c, code, uri)
          PROVE  SInv'
      BY <1>1, <2>1, <3>3, LoadRedeemSerial
    <3> QED
      BY <2>4, <3>1, <3>2, <3>3 DEF Arrive
  <2>5. ASSUME NEW r \in Requests, Step(r) PROVE SInv'
    <3>1. CASE Abort(r) \/ ApproveRollsBack(r) \/ MintChallenge(r)
      BY <1>1, <2>1, <3>1, QuietActions
    <3>2. CASE \E c \in Codes : CommitApprove(r, c)
      BY <1>1, <2>1, <3>2, ApproveSerial
    <3> QED
      BY <1>1, <2>1, <2>5, <3>1, <3>2, ExpireSerial, ReloadSerial, ScanSerial, DenySerial,
         DeliverySerial, SendSerial, ConsumeSerial, IssueSerial DEF Step
  <2> QED
    BY <2>1, <2>2, <2>3, <2>4, <2>5 DEF Next
<1> QED
  BY <1>2, <1>3

\* Used one request at a time, a session yields at most one access token, as
\* exchange_token's comment says.
THEOREM OneToken == SerialSpec => []SingleUse
<1>1. SInv => SingleUse
  <2> SUFFICES ASSUME SInv, NEW s \in SessionIds PROVE Len(grants[s]) <= 1
    BY DEF SingleUse
  <2>1. CASE grants[s] = <<>>
    BY <2>1
  <2>2. CASE grants[s] # <<>>
    <3>1. SerialRow(s)
      BY DEF SInv
    <3>2. PICK via : grants[s] = <<[user |-> sessions[s].user_id, via |-> via]>>
      BY <2>2, <3>1 DEF SerialRow
    <3> QED
      BY <3>2
  <2> QED
    BY <2>1, <2>2
<1> QED
  BY <1>1, InitSInv, NextSInv, PTL DEF SerialSpec

\* Used one request at a time, get_status sends a raw code once.
THEOREM CodeOnce == SerialSpec => []CodeSentOnce
<1>1. SInv => CodeSentOnce
  BY DEF SInv, CodesUnique
<1> QED
  BY <1>1, InitSInv, NextSInv, PTL DEF SerialSpec

\* Used one request at a time, a token names a user whose own device approved.
THEOREM UserApproved == SerialSpec => []TokenUserApproved
<1>1. SInv => TokenUserApproved
  <2> SUFFICES ASSUME SInv, NEW s \in SessionIds, NEW i \in DOMAIN grants[s]
               PROVE  \E a \in approvals : a.sid = s /\ Owner[a.device] = grants[s][i].user
    BY DEF TokenUserApproved
  <2>1. SerialRow(s) /\ grants[s] # <<>>
    BY DEF SInv
  <2>2. PICK via : grants[s] = <<[user |-> sessions[s].user_id, via |-> via]>>
    BY <2>1 DEF SerialRow
  <2>3. grants[s][i].user = sessions[s].user_id
    BY <2>2
  <2>4. PICK a \in approvals : a.sid = s
    BY <2>1 DEF SInv, IInv, GrantNeedsApproval
  <2> QED
    BY <2>1, <2>3, <2>4 DEF SerialRow
<1> QED
  BY <1>1, InitSInv, NextSInv, PTL DEF SerialSpec

\* Used one request at a time, a session whose denial was confirmed stays closed.
THEOREM DenialFinal == SerialSpec => []DeniedIsFinal
<1>1. SInv => DeniedIsFinal
  <2> SUFFICES ASSUME SInv, NEW s \in denied PROVE sessions[s].status = "expired"
    BY DEF DeniedIsFinal
  <2>1. s \in SessionIds
    BY DEF SInv, IInv, TypeOK
  <2> QED
    BY <2>1 DEF SInv, SerialRow
<1> QED
  BY <1>1, InitSInv, NextSInv, PTL DEF SerialSpec

----------------------------------------------------------------------------
(* The server carries out login attempts *)

\* A step that changes neither a row's status or user, nor the approvals, nor
\* the tokens is not a step of any attempt.
LEMMA AttemptStutters ==
    ASSUME \A s \in SessionIds : /\ sessions'[s].status = sessions[s].status
                                 /\ sessions'[s].user_id = sessions[s].user_id,
           UNCHANGED <<approvals, grants>>
    PROVE  UNCHANGED Attempt!vars
BY DEF Attempt!vars

\* Opening, claiming, confirming, closing, redeeming: the request's commit is the
\* attempt's step.
LEMMA CreateOpens ==
    ASSUME SInv, NEW s \in SessionIds, NEW c \in Clients \cup {None}, NEW uri \in Uris \cup {None},
           CreateSession(s, c, uri)
    PROVE  Attempt!Next
<1>1. /\ sessions[s].status = "absent"
      /\ sessions' = [sessions EXCEPT ![s] = NewRow(c, uri)]
      /\ UNCHANGED <<approvals, grants>>
  BY DEF CreateSession, history
<1>2. sessions[s].user_id = None /\ sessions \in [SessionIds -> Row]
  BY <1>1 DEF SInv, IInv, TypeOK, RowInv
<1>3. NewRow(c, uri).status = "pending" /\ NewRow(c, uri).user_id = None
  BY DEF NewRow, AbsentRow
<1>4. Attempt!Open(s)
  BY <1>1, <1>2, <1>3 DEF Attempt!Open
<1> QED
  BY <1>4 DEF Attempt!Next

LEMMA ClosesAttempt ==
    ASSUME SInv, NEW r \in Requests, CommitExpire(r) \/ CommitDeny(r)
    PROVE  Attempt!Next
<1>1. /\ req[r] # Idle /\ (req[r].pc = "expire" \/ At(r, "commit", "deny"))
      /\ sessions' = [sessions EXCEPT ![req[r].sid].status = "expired"]
      /\ UNCHANGED <<approvals, grants>>
  BY DEF CommitExpire, CommitDeny, At, Idle, history
<1>2. PICK s \in SessionIds : s = req[r].sid
  BY <1>1, Acting
<1>3. /\ sessions[s].status \in {"pending", "scanned"}
      /\ sessions[s] \in Row /\ sessions \in [SessionIds -> Row]
  BY <1>1, <1>2, Acting DEF Settled
<1>4. /\ sessions'[s].status = "expired" /\ sessions'[s].user_id = sessions[s].user_id
      /\ \A t \in SessionIds : t # s => sessions'[t] = sessions[t]
  BY <1>1, <1>2, <1>3 DEF Row
<1>5. Attempt!Close(s)
  BY <1>1, <1>3, <1>4 DEF Attempt!Close
<1> QED
  BY <1>5 DEF Attempt!Next

LEMMA ScanClaims ==
    ASSUME SInv, NEW r \in Requests, CommitScan(r)
    PROVE  Attempt!Next \/ UNCHANGED Attempt!vars
<1>1. At(r, "commit", "scan") /\ req[r] # Idle /\ UNCHANGED <<approvals, grants>>
  BY DEF CommitScan, At, Idle, history
<1>2. PICK s \in SessionIds : s = req[r].sid
  BY <1>1, Acting
<1>3. /\ sessions[s].status = "pending"
      /\ sessions[s] \in Row /\ sessions \in [SessionIds -> Row]
      /\ req[r].device \in Devices
  BY <1>1, <1>2, Acting DEF Settled, ReqInv, Busy, DeviceOps, At
<1>4. CASE DeviceRowUpdated(req[r].device)
  <2>1. PICK u \in Users : u = Owner[req[r].device]
    BY <1>3, OwnerAssumption
  <2>2. sessions' = [sessions EXCEPT ![s].status = "scanned", ![s].user_id = u]
    BY <1>2, <1>4, <2>1 DEF CommitScan
  <2>3. /\ sessions'[s].status = "scanned" /\ sessions'[s].user_id = u
        /\ \A t \in SessionIds : t # s => sessions'[t] = sessions[t]
    BY <1>3, <2>2 DEF Row
  <2>4. Attempt!Claim(s, u)
    BY <1>1, <1>3, <2>3 DEF Attempt!Claim
  <2> QED
    BY <2>1, <2>4 DEF Attempt!Next
<1>5. CASE ~DeviceRowUpdated(req[r].device)
  BY <1>1, <1>5, AttemptStutters DEF CommitScan
<1> QED
  BY <1>4, <1>5

\* The user who claimed the session is the only one who confirmed it.
LEMMA ApproveConfirms ==
    ASSUME SInv, NEW r \in Requests, NEW c \in Codes, CommitApprove(r, c)
    PROVE  Attempt!Next
<1>1. At(r, "commit", "approve") /\ req[r] # Idle /\ UNCHANGED grants
  BY DEF CommitApprove, At, Idle
<1>2. PICK s \in SessionIds : s = req[r].sid
  BY <1>1, Acting
<1>3. PICK new : new = [sid |-> s, device |-> req[r].device, code |-> c]
  OBVIOUS
<1>4. /\ SerialRow(s) /\ sessions[s].status = "scanned" /\ sessions[s].user_id = Owner[req[r].device]
      /\ sessions[s] \in Row /\ sessions \in [SessionIds -> Row]
  BY <1>1, <1>2, Acting DEF Settled
<1>5. /\ sessions' = [sessions EXCEPT ![s] = ApprovedRow(sessions[s], c)]
      /\ approvals' = approvals \cup {new}
  BY <1>2, <1>3 DEF CommitApprove
<1>6. /\ sessions'[s].status = "approved" /\ sessions'[s].user_id = sessions[s].user_id
      /\ \A t \in SessionIds : t # s => sessions'[t] = sessions[t]
  BY <1>4, <1>5 DEF Row, ApprovedRow
<1>7. \A a \in approvals : a.sid # s
  BY <1>4 DEF SerialRow, Approved
<1>8. new.sid = s /\ Owner[new.device] = sessions[s].user_id
  BY <1>3, <1>4
<1>9. {b \in approvals' : b.sid = s} = {new}
  BY <1>5, <1>7, <1>8
<1>10. {Owner[a.device] : a \in {b \in approvals' : b.sid = s}} = {sessions[s].user_id}
  BY <1>8, <1>9
<1>11. \A t \in SessionIds : t # s =>
          {b \in approvals' : b.sid = t} = {b \in approvals : b.sid = t}
  BY <1>5, <1>8
<1>12. \A t \in SessionIds : t # s =>
          {Owner[a.device] : a \in {b \in approvals' : b.sid = t}}
            = {Owner[a.device] : a \in {b \in approvals : b.sid = t}}
  BY <1>11
<1>13. PICK before : before = [t \in SessionIds |->
                               {Owner[a.device] : a \in {b \in approvals : b.sid = t}}]
  OBVIOUS
<1>14. PICK after : after = [t \in SessionIds |->
                               {Owner[a.device] : a \in {b \in approvals' : b.sid = t}}]
  OBVIOUS
<1>15. after[s] = {sessions[s].user_id} /\ \A t \in SessionIds : t # s => after[t] = before[t]
  BY <1>10, <1>12, <1>13, <1>14
<1>16. after = [before EXCEPT ![s] = {sessions[s].user_id}]
  <2>1. DOMAIN after = SessionIds /\ DOMAIN before = SessionIds
    BY <1>13, <1>14
  <2>2. after = [t \in SessionIds |-> after[t]] /\ before = [t \in SessionIds |-> before[t]]
    BY <1>13, <1>14
  <2> QED
    BY ONLY <1>15, <2>1, <2>2
<1>17. [t \in SessionIds |-> sessions'[t].status]
          = [[t \in SessionIds |-> sessions[t].status] EXCEPT ![s] = "approved"]
  BY <1>6
<1>18. [t \in SessionIds |-> sessions'[t].user_id] = [t \in SessionIds |-> sessions[t].user_id]
  BY <1>6
<1>19. Attempt!Confirm(s)
  BY <1>1, <1>4, <1>13, <1>14, <1>16, <1>17, <1>18 DEF Attempt!Confirm
<1> QED
  BY <1>19 DEF Attempt!Next

LEMMA ConsumeRedeems ==
    ASSUME SInv, NEW r \in Requests, CommitConsume(r)
    PROVE  Attempt!Next
<1>1. /\ req[r].pc = "commit" /\ req[r].op \in {"exchange", "redeem"} /\ req[r] # Idle
      /\ UNCHANGED <<approvals, grants>>
  BY DEF CommitConsume, Idle, history
<1>2. PICK s \in SessionIds : s = req[r].sid
  BY <1>1, Acting
<1>3. /\ sessions[s].status = "approved"
      /\ sessions[s] \in Row /\ sessions \in [SessionIds -> Row]
  BY <1>1, <1>2, Acting DEF Settled
<1>4. /\ sessions'[s].status = "consumed" /\ sessions'[s].user_id = sessions[s].user_id
      /\ \A t \in SessionIds : t # s => sessions'[t] = sessions[t]
  BY <1>2, <1>3 DEF Row, CommitConsume
<1>5. Attempt!Redeem(s)
  BY <1>1, <1>3, <1>4 DEF Attempt!Redeem
<1> QED
  BY <1>5 DEF Attempt!Next

LEMMA TokenIssues ==
    ASSUME SInv, NEW r \in Requests, IssueToken(r)
    PROVE  Attempt!Next
<1>1. /\ req[r].pc = "reply" /\ req[r].op \in {"exchange", "redeem"} /\ req[r] # Idle
      /\ UNCHANGED <<sessions, approvals>>
  BY DEF IssueToken, Idle
<1>2. PICK s \in SessionIds : s = req[r].sid
  BY <1>1, Acting
<1>3. sessions[s].status = "consumed" /\ grants[s] = <<>> /\ grants \in [SessionIds -> Seq(Grant)]
  BY <1>1, <1>2, Acting DEF Settled, SInv, IInv, TypeOK
<1>4. PICK via \in {"browser", "client"} : via = IF req[r].op = "exchange" THEN "browser" ELSE "client"
  OBVIOUS
<1>5. grants' = [grants EXCEPT ![s] = Append(grants[s], [user |-> sessions[s].user_id, via |-> via])]
  BY <1>2, <1>4 DEF IssueToken
<1>6. /\ grants'[s] = <<[user |-> sessions[s].user_id, via |-> via]>>
      /\ grants' = [grants EXCEPT ![s] = grants'[s]]
  BY <1>3, <1>5
<1>7. Attempt!Issue(s)
  BY <1>1, <1>3, <1>4, <1>6 DEF Attempt!Issue, Attempt!Channel
<1> QED
  BY <1>7 DEF Attempt!Next

LEMMA NextAttempts ==
    SInv /\ [Next /\ NoOverlap']_vars => [Attempt!Next]_(Attempt!vars)
<1> SUFFICES ASSUME SInv, [Next /\ NoOverlap']_vars
             PROVE  Attempt!Next \/ UNCHANGED Attempt!vars
  OBVIOUS
<1>1. CASE UNCHANGED vars \/ Tick \/ \E d \in Devices : RevokeDevice(d)
  <2>1. UNCHANGED <<sessions, approvals, grants>>
    BY <1>1 DEF vars, Tick, RevokeDevice, history
  <2> QED
    BY <2>1, AttemptStutters
<1>2. ASSUME NEW s \in SessionIds, NEW c \in Clients \cup {None}, NEW uri \in Uris \cup {None},
             CreateSession(s, c, uri)
      PROVE  Attempt!Next
  BY <1>2, CreateOpens
<1>3. ASSUME NEW r \in Requests, Arrive(r) PROVE UNCHANGED Attempt!vars
  <2>1. UNCHANGED <<sessions, approvals, grants>>
    BY <1>3 DEF Arrive, Load, LoadRedeem, history
  <2> QED
    BY <2>1, AttemptStutters
<1>4. ASSUME NEW r \in Requests, Step(r) PROVE Attempt!Next \/ UNCHANGED Attempt!vars
  <2>1. CASE Abort(r) \/ ApproveRollsBack(r) \/ MintChallenge(r) \/ Reload(r) \/ SendCode(r)
    <3>1. UNCHANGED <<sessions, approvals, grants>>
      BY <2>1 DEF Abort, ApproveRollsBack, MintChallenge, Reload, SendCode, history
    <3> QED
      BY <3>1, AttemptStutters
  <2>2. CASE CommitDelivery(r)
    <3>1. /\ sessions' = [sessions EXCEPT ![req[r].sid].auth_code = None]
          /\ UNCHANGED <<approvals, grants>>
      BY <2>2 DEF CommitDelivery, history
    <3>2. \A s \in SessionIds : sessions[s] \in Row /\ sessions \in [SessionIds -> Row]
      BY DEF SInv, IInv, TypeOK
    <3>3. \A s \in SessionIds : /\ sessions'[s].status = sessions[s].status
                                /\ sessions'[s].user_id = sessions[s].user_id
      BY <3>1, <3>2 DEF Row
    <3> QED
      BY <3>1, <3>3, AttemptStutters
  <2>3. CASE \E c \in Codes : CommitApprove(r, c)
    BY <2>3, ApproveConfirms
  <2>4. CASE CommitExpire(r) \/ CommitDeny(r)
    BY <2>4, ClosesAttempt
  <2>5. CASE CommitScan(r) \/ CommitConsume(r) \/ IssueToken(r)
    BY <2>5, ScanClaims, ConsumeRedeems, TokenIssues
  <2> QED
    BY <1>4, <2>1, <2>2, <2>3, <2>4, <2>5 DEF Step
<1> QED
  BY <1>1, <1>2, <1>3, <1>4 DEF Next

\* Used one request at a time, the server carries out login attempts and does
\* nothing else to a session: each commit of the handlers in qr.py and of token()
\* is one step of an attempt or none.
THEOREM ServesAttempts == SerialSpec => AttemptSpec
<1>1. Init => Attempt!Init
  <2> SUFFICES ASSUME Init PROVE Attempt!Init
    OBVIOUS
  <2>1. \A s \in SessionIds : {Owner[a.device] : a \in {b \in approvals : b.sid = s}} = {}
    BY DEF Init
  <2> QED
    BY <2>1 DEF Init, AbsentRow, Attempt!Init
<1> QED
  BY <1>1, InitSInv, NextSInv, NextAttempts, PTL DEF SerialSpec, AttemptSpec, Attempt!Spec
=============================================================================
