---------------------------- MODULE SignInProofs ----------------------------
(***************************************************************************)
(* Proofs about SignIn, for every number of sessions and of fetches in     *)
(* flight, however late their answers are.                                 *)
(*                                                                         *)
(* HomeIsApproved speaks of the tab and the phone, which never talk to     *)
(* each other.  The invariant follows the approval on its way: a tap, the  *)
(* status of a row, the answer to an exchange, the page's decision to go.  *)
(***************************************************************************)
EXTENDS SignIn, TLAPS

Spent == \E s \in Sessions : status[s] = "consumed" /\ phone[s].disabled

\* A fetch names a session; only an exchange may be asked for "null".
CallsNameSessions ==
    \A c \in Calls : calls[c].kind \in {"create", "refresh", "poll"} => calls[c].sid \in Sessions

\* The server hears of an approval only from a phone whose buttons are disabled.
AskedAfterTap == \A s \in Sessions : "approve" \in phone[s].asked => phone[s].disabled
ApprovedAfterTap == \A s \in Sessions : status[s] \in {"approved", "consumed"} => phone[s].disabled

TokenIsSpent == (\E c \in Calls : calls[c].kind = "exchange" /\ calls[c].answer = "token") => Spent

HomeIsSpent == (place = "home" \/ "home" \in page.leaving) => Spent

IInv ==
    /\ TypeOK
    /\ CallsNameSessions
    /\ AskedAfterTap /\ ApprovedAfterTap
    /\ TokenIsSpent /\ HomeIsSpent

\* What no step takes back.
Keeps ==
    \A s \in Sessions :
        /\ status[s] = "consumed" => status'[s] = "consumed"
        /\ phone[s].disabled => phone'[s].disabled

LEMMA SpentStays == Keeps /\ Spent => Spent'
BY DEF Keeps, Spent

----------------------------------------------------------------------------
(* The functions of the script *)

LEMMA ScriptTypes ==
    ASSUME PageAssumption, NEW p \in Page
    PROVE  /\ clearTimers(p) \in Page /\ clearTimers(p).leaving = p.leaving
           /\ warn(p) \in Page /\ warn(p).leaving = p.leaving
           /\ startTick(p) \in Page /\ startTick(p).leaving = p.leaving
           /\ startPolling(p) \in Page /\ startPolling(p).leaving = p.leaving
<1>1. clearTimers(p) \in Page /\ clearTimers(p).leaving = p.leaving
    BY DEF Page, clearTimers
<1>2. warn(p) \in Page /\ warn(p).leaving = p.leaving
    BY DEF Page, warn
<1>3. p.strayTicks + 1 \in Nat /\ p.strayTicks \in Nat /\ p.strayPolls + 1 \in Nat /\ p.strayPolls \in Nat
    BY DEF Page
<1>4. startTick(p) \in Page /\ startTick(p).leaving = p.leaving
    <2> DEFINE n == IF p.rotateTimer THEN p.strayTicks + 1 ELSE p.strayTicks
    <2>1. n \in Nat
        BY <1>3
    <2>2. startTick(p) = [p EXCEPT !.rotateTimer = TRUE, !.strayTicks = n]
        BY DEF startTick
    <2> HIDE DEF n
    <2> QED BY <2>1, <2>2 DEF Page
<1>5. startPolling(p) \in Page /\ startPolling(p).leaving = p.leaving
    <2> DEFINE n == IF p.pollTimer THEN p.strayPolls + 1 ELSE p.strayPolls
    <2>1. n \in Nat
        BY <1>3
    <2>2. startPolling(p) = [p EXCEPT !.pollTimer = TRUE, !.strayPolls = n]
        BY DEF startPolling
    <2> HIDE DEF n
    <2> QED BY <2>1, <2>2 DEF Page
<1> QED BY <1>1, <1>2, <1>4, <1>5

LEMMA SetQRState ==
    ASSUME PageAssumption, NEW p \in Page, NEW view \in Views
    PROVE  setQRState(p, view) \in Page /\ setQRState(p, view).leaving = p.leaving
<1> DEFINE q == IF view \in {"expired", "success"} THEN clearTimers(p) ELSE p
<1>1. q \in Page /\ q.leaving = p.leaving
    BY ScriptTypes
<1>2. setQRState(p, view) = [q EXCEPT !.view = view, !.warned = (view = "expired")]
    BY DEF setQRState
<1>3. (view = "expired") \in BOOLEAN
    OBVIOUS
<1> QED BY <1>1, <1>2, <1>3 DEF Page, Views

LEMMA StartCountdown ==
    ASSUME PageAssumption, NEW p \in Page
    PROVE  startCountdown(p) \in Page /\ startCountdown(p).leaving = p.leaving
<1>1. startTick(p) \in Page /\ startTick(p).leaving = p.leaving
    BY ScriptTypes
<1>2. startCountdown(p) = [startTick(p) EXCEPT !.rotateCountdown = QR_ROTATE_SECS]
    BY DEF startCountdown
<1> QED BY <1>1, <1>2 DEF Page, PageAssumption

LEMMA CreateSession ==
    ASSUME PageAssumption, NEW p \in Page
    PROVE  createSession(p) \in Page /\ createSession(p).leaving = p.leaving
<1> DEFINE q == [clearTimers(p) EXCEPT !.sessionId = None, !.totalElapsed = 0]
<1>1. q \in Page /\ q.leaving = p.leaving
    BY ScriptTypes DEF Page
<1>2. createSession(p) = setQRState(q, "loading")
    BY DEF createSession
<1> HIDE DEF q
<1> QED BY <1>1, <1>2, SetQRState DEF Views

----------------------------------------------------------------------------
(* Fetches in flight *)

CallsTypeOK == calls \in [Calls -> Call \cup {NoCall}] /\ CallsNameSessions

\* The tokens the page has yet to see are those it had, at most.
TokensKept ==
    \A c \in Calls : calls'[c].kind = "exchange" /\ calls'[c].answer = "token"
                        => calls'[c] = calls[c]

LEMMA SlotSet ==
    ASSUME CallsTypeOK, NEW c \in Calls, NEW call \in Call \cup {NoCall},
           calls' = [calls EXCEPT ![c] = call],
           call.kind \in {"create", "refresh", "poll"} => call.sid \in Sessions,
           ~(call.kind = "exchange" /\ call.answer = "token")
    PROVE  CallsTypeOK' /\ TokensKept
<1>1. calls' \in [Calls -> Call \cup {NoCall}]
    BY DEF CallsTypeOK
<1>2. \A d \in Calls : calls'[d] = IF d = c THEN call ELSE calls[d]
    BY DEF CallsTypeOK
<1>3. CallsNameSessions'
    BY <1>2 DEF CallsTypeOK, CallsNameSessions
<1>4. TokensKept
    BY <1>2 DEF TokensKept
<1> QED BY <1>1, <1>3, <1>4 DEF CallsTypeOK

LEMMA SentIsCall ==
    ASSUME NEW kind \in {"create", "refresh", "poll", "exchange"}, NEW s \in Sessions \cup {None}
    PROVE  /\ Sent(kind, s) \in Call
           /\ Sent(kind, s).kind = kind /\ Sent(kind, s).sid = s
           /\ Sent(kind, s).answer = "sent"
BY DEF Sent, Call

LEMMA IssueKeeps ==
    ASSUME CallsTypeOK, NEW kind \in {"create", "refresh", "poll", "exchange"},
           NEW s \in Sessions \cup {None}, kind # "exchange" => s \in Sessions,
           Issue(Sent(kind, s))
    PROVE  CallsTypeOK' /\ TokensKept
<1>1. PICK c \in Calls : calls' = [calls EXCEPT ![c] = Sent(kind, s)]
    BY DEF Issue
<1>2. /\ Sent(kind, s) \in Call
      /\ Sent(kind, s).kind = kind /\ Sent(kind, s).sid = s
      /\ Sent(kind, s).answer = "sent"
    BY SentIsCall
<1> QED BY <1>1, <1>2, SlotSet

LEMMA DoneKeeps ==
    ASSUME CallsTypeOK, NEW c \in Calls, Done(c)
    PROVE  CallsTypeOK' /\ TokensKept
<1>1. calls' = [calls EXCEPT ![c] = NoCall] /\ NoCall.kind = "none"
    BY DEF Done, NoCall
<1> QED BY <1>1, SlotSet

\* A step of the page alone keeps the invariant if it decides to go home only
\* on a spent approval.
LEMMA PageOnly ==
    ASSUME IInv, UNCHANGED <<serverVars, phone>>, PageTypeOK', CallsNameSessions', TokensKept,
           (place' = "home" \/ "home" \in page'.leaving) => Spent
    PROVE  IInv'
<1>1. Spent' <=> Spent
    BY DEF Spent, serverVars
<1>2. TypeOK'
    BY DEF IInv, TypeOK, ServerTypeOK, serverVars
<1>3. AskedAfterTap' /\ ApprovedAfterTap'
    BY DEF IInv, AskedAfterTap, ApprovedAfterTap, serverVars
<1>4. TokenIsSpent'
    BY <1>1 DEF IInv, TokenIsSpent, TokensKept
<1>5. HomeIsSpent'
    BY <1>1 DEF HomeIsSpent
<1> QED BY <1>2, <1>3, <1>4, <1>5 DEF IInv

LEMMA Facts ==
    ASSUME IInv
    PROVE  /\ CallsTypeOK /\ PageTypeOK /\ ServerTypeOK
           /\ page \in Page /\ page.leaving \subseteq Sessions \cup {"home"}
           /\ (place = "home" \/ "home" \in page.leaving) => Spent
BY DEF IInv, TypeOK, PageTypeOK, CallsTypeOK, HomeIsSpent, Page

----------------------------------------------------------------------------
(* Timers, the button, leaving *)

LEMMA Counting ==
    ASSUME NEW p \in Page
    PROVE  /\ [p EXCEPT !.rotateCountdown = @ - 1, !.totalElapsed = @ + 1] \in Page
           /\ [p EXCEPT !.rotateCountdown = @ - 1, !.totalElapsed = @ + 1].leaving = p.leaving
<1>1. PICK i \in Int, n \in Nat : i = p.rotateCountdown - 1 /\ n = p.totalElapsed + 1
    BY DEF Page
<1>2. [p EXCEPT !.rotateCountdown = @ - 1, !.totalElapsed = @ + 1]
        = [p EXCEPT !.rotateCountdown = i, !.totalElapsed = n]
    BY <1>1
<1>3. [p EXCEPT !.rotateCountdown = i, !.totalElapsed = n] \in Page
    BY DEF Page
<1> QED BY <1>2, <1>3 DEF Page

LEMMA TickKeeps ==
    ASSUME PageAssumption, IInv, Tick, UNCHANGED phone
    PROVE  IInv'
<1> DEFINE fired(stray) == IF stray THEN [page EXCEPT !.strayTicks = @ - 1]
                           ELSE [page EXCEPT !.rotateTimer = FALSE]
           counted(stray) == [fired(stray) EXCEPT !.rotateCountdown = @ - 1, !.totalElapsed = @ + 1]
<1>1. PICK stray \in BOOLEAN :
        /\ stray => page.strayTicks > 0
        /\ \/ page' = setQRState(counted(stray), "expired") /\ UNCHANGED calls
           \/ page' = startTick(counted(stray)) /\ UNCHANGED calls
           \/ /\ page' = counted(stray)
              /\ IF page.sessionId = None THEN UNCHANGED calls
                 ELSE Issue(Sent("refresh", page.sessionId))
    BY DEF Tick
<1>2. fired(stray) \in Page /\ fired(stray).leaving = page.leaving
    <2>1. CASE stray
        <3>1. page.strayTicks - 1 \in Nat
            BY <1>1, <2>1, Facts DEF Page
        <3> QED BY <2>1, <3>1, Facts DEF Page
    <2>2. CASE ~stray
        BY <2>2, Facts DEF Page
    <2> QED BY <2>1, <2>2
<1> HIDE DEF fired
<1>3. counted(stray) \in Page /\ counted(stray).leaving = page.leaving
    BY <1>2, Counting
<1> HIDE DEF counted
<1>4. page' \in Page /\ page'.leaving = page.leaving
    BY <1>1, <1>3, ScriptTypes, SetQRState DEF Views
<1>5. page.sessionId # None => page.sessionId \in Sessions
    BY Facts DEF Page
<1>6. CallsTypeOK' /\ TokensKept
    <2>1. CASE UNCHANGED calls
        BY <2>1, Facts DEF CallsTypeOK, CallsNameSessions, TokensKept
    <2>2. CASE page.sessionId # None /\ Issue(Sent("refresh", page.sessionId))
        BY <2>2, <1>5, Facts, IssueKeeps
    <2> QED BY <1>1, <2>1, <2>2
<1>7. PageTypeOK'
    BY <1>4, <1>6, Facts DEF PageTypeOK, CallsTypeOK, Tick
<1> QED BY <1>4, <1>6, <1>7, Facts, PageOnly DEF CallsTypeOK, Tick

LEMMA PollFiresKeeps ==
    ASSUME IInv, PollFires, UNCHANGED phone
    PROVE  IInv'
<1>1. page.sessionId \in Sessions
    BY Facts DEF Page, PollFires
<1>2. CallsTypeOK' /\ TokensKept
    BY <1>1, Facts, IssueKeeps DEF PollFires
<1>3. PageTypeOK'
    BY <1>2, Facts DEF PageTypeOK, CallsTypeOK, PollFires
<1> QED BY <1>2, <1>3, Facts, PageOnly DEF CallsTypeOK, PollFires

LEMMA ClickKeeps ==
    ASSUME PageAssumption, IInv, NEW s \in Sessions, Click(s), UNCHANGED phone
    PROVE  IInv'
<1>1. page' \in Page /\ page'.leaving = page.leaving
    BY Facts, CreateSession DEF Click
<1>2. CallsTypeOK' /\ TokensKept
    BY Facts, IssueKeeps DEF Click
<1>3. PageTypeOK'
    BY <1>1, <1>2, Facts DEF PageTypeOK, CallsTypeOK, Click
<1> QED BY <1>1, <1>2, <1>3, Facts, PageOnly DEF CallsTypeOK, Click

LEMMA NavigateKeeps ==
    ASSUME IInv, Navigate, UNCHANGED phone
    PROVE  IInv'
<1>1. CallsTypeOK' /\ TokensKept
    BY Facts DEF CallsTypeOK, CallsNameSessions, TokensKept, Navigate
<1>2. PageTypeOK'
    BY <1>1, Facts DEF PageTypeOK, CallsTypeOK, Navigate
<1> QED BY <1>1, <1>2, Facts, PageOnly DEF CallsTypeOK, Navigate

----------------------------------------------------------------------------
(* Answers that the page gets to see *)

\* Every continuation ends with its slot free, or with an exchange in it.
LEMMA AnsweredPage ==
    ASSUME IInv, NEW c \in Calls, NEW p \in Page, page' = p,
           Done(c) \/ calls' = [calls EXCEPT ![c] = Sent("exchange", page.sessionId)],
           UNCHANGED <<place, failures, serverVars, phone>>,
           "home" \in p.leaving => "home" \in page.leaving \/ Spent
    PROVE  IInv'
<1>1. page.sessionId \in Sessions \cup {None}
    BY Facts DEF Page
<1>2. CallsTypeOK' /\ TokensKept
    <2>1. CASE Done(c)
        BY <2>1, Facts, DoneKeeps
    <2>2. CASE calls' = [calls EXCEPT ![c] = Sent("exchange", page.sessionId)]
        BY <2>2, <1>1, Facts, SentIsCall, SlotSet
    <2> QED BY <2>1, <2>2
<1>3. PageTypeOK'
    BY <1>2, Facts DEF PageTypeOK, CallsTypeOK
<1> QED BY <1>2, <1>3, Facts, PageOnly DEF CallsTypeOK

LEMMA CreatedKeeps ==
    ASSUME PageAssumption, IInv, NEW c \in Calls, Created(c), UNCHANGED phone
    PROVE  IInv'
<1>1. calls[c].sid \in Sessions
    BY Facts DEF CallsTypeOK, CallsNameSessions, Created, Settles
<1> DEFINE opened == [page EXCEPT !.sessionId = calls[c].sid, !.qrImg = calls[c].sid]
<1>2. opened \in Page /\ opened.leaving = page.leaving
    BY <1>1, Facts DEF Page
<1>3. page' = warn(page) \/ page' = startPolling(startCountdown(setQRState(opened, "active")))
    BY DEF Created
<1> HIDE DEF opened
<1>4. /\ setQRState(opened, "active") \in Page
      /\ setQRState(opened, "active").leaving = page.leaving
    BY <1>2, SetQRState DEF Views
<1>5. /\ startCountdown(setQRState(opened, "active")) \in Page
      /\ startCountdown(setQRState(opened, "active")).leaving = page.leaving
    BY <1>4, StartCountdown
<1>6. page' \in Page /\ page'.leaving = page.leaving
    BY <1>3, <1>5, ScriptTypes, Facts
<1> QED BY <1>6, AnsweredPage DEF Created

LEMMA RefreshedKeeps ==
    ASSUME PageAssumption, IInv, NEW c \in Calls, Refreshed(c), UNCHANGED phone
    PROVE  IInv'
<1>1. calls[c].sid \in Sessions
    BY Facts DEF CallsTypeOK, CallsNameSessions, Refreshed, Settles
<1> DEFINE shown == [page EXCEPT !.qrImg = calls[c].sid]
<1>2. shown \in Page /\ shown.leaving = page.leaving
    BY <1>1, Facts DEF Page
<1>3. page' = startCountdown(shown) \/ page' = setQRState(page, "expired")
    BY DEF Refreshed
<1> HIDE DEF shown
<1>4. page' \in Page /\ page'.leaving = page.leaving
    BY <1>2, <1>3, StartCountdown, SetQRState, Facts DEF Views
<1> QED BY <1>4, AnsweredPage DEF Refreshed

LEMMA PolledNewsKeeps ==
    ASSUME PageAssumption, IInv, NEW c \in Calls, PolledNews(c), UNCHANGED phone
    PROVE  IInv'
<1>1. page' \in Page /\ page'.leaving = page.leaving
    BY SetQRState, Facts DEF Views, PolledNews
<1> QED BY <1>1, AnsweredPage DEF PolledNews

LEMMA PolledRedirectKeeps ==
    ASSUME PageAssumption, SessionAssumption, IInv, NEW c \in Calls, PolledRedirect(c), UNCHANGED phone
    PROVE  IInv'
<1>1. calls[c].sid \in Sessions /\ calls[c].sid # "home"
    BY Facts, SessionAssumption DEF CallsTypeOK, CallsNameSessions, PolledRedirect, Settles
<1> DEFINE q == setQRState(page, "success")
<1>2. q \in Page /\ q.leaving = page.leaving
    BY SetQRState, Facts DEF Views
<1>3. page' = [q EXCEPT !.leaving = @ \cup {calls[c].sid}]
    BY DEF PolledRedirect
<1> HIDE DEF q
<1>4. page' \in Page /\ page'.leaving = page.leaving \cup {calls[c].sid}
    BY <1>1, <1>2, <1>3 DEF Page
<1> QED BY <1>1, <1>4, AnsweredPage DEF PolledRedirect

LEMMA PolledApprovedKeeps ==
    ASSUME PageAssumption, IInv, NEW c \in Calls, PolledApproved(c), UNCHANGED phone
    PROVE  IInv'
<1>1. page' \in Page /\ page'.leaving = page.leaving
    BY SetQRState, Facts DEF Views, PolledApproved
<1> QED BY <1>1, AnsweredPage DEF PolledApproved

\* The only way home: the answer to the exchange has a token.
LEMMA ExchangedKeeps ==
    ASSUME PageAssumption, IInv, NEW c \in Calls, Exchanged(c), UNCHANGED phone
    PROVE  IInv'
<1>1. CASE calls[c].answer = "token"
    <2>1. Spent
        BY <1>1 DEF IInv, TokenIsSpent, Exchanged, Settles
    <2>2. page' = [page EXCEPT !.leaving = @ \cup {"home"}]
        BY <1>1 DEF Exchanged
    <2>3. page' \in Page
        BY <2>2, Facts DEF Page
    <2> QED BY <2>1, <2>3, AnsweredPage DEF Exchanged
<1>2. CASE calls[c].answer # "token"
    <2>1. page' \in Page /\ page'.leaving = page.leaving
        BY <1>2, ScriptTypes, Facts DEF Exchanged
    <2> QED BY <2>1, AnsweredPage DEF Exchanged
<1> QED BY <1>1, <1>2

LEMMA LoseKeeps ==
    ASSUME PageAssumption, IInv, NEW c \in Calls, Lose(c), UNCHANGED phone
    PROVE  IInv'
<1> DEFINE lost == [calls[c] EXCEPT !.answer = "failed"]
<1>1. calls[c] \in Call
    BY Facts DEF CallsTypeOK, Lose
<1>2. lost \in Call /\ lost.kind = calls[c].kind /\ lost.sid = calls[c].sid /\ lost.answer = "failed"
    BY <1>1 DEF Call
<1>3. calls' = [calls EXCEPT ![c] = lost]
    BY DEF Lose
<1> HIDE DEF lost
<1>4. CallsTypeOK' /\ TokensKept
    <2>1. lost.kind \in {"create", "refresh", "poll"} => lost.sid \in Sessions
        BY <1>2, Facts DEF CallsTypeOK, CallsNameSessions
    <2> QED BY <1>2, <1>3, <2>1, Facts, SlotSet
<1>5. failures' \in 0..MaxFailures
    BY Facts DEF Lose, PageTypeOK, PageAssumption
<1>6. PageTypeOK'
    BY <1>4, <1>5, Facts DEF PageTypeOK, CallsTypeOK, Lose
<1> QED BY <1>4, <1>6, Facts, PageOnly DEF CallsTypeOK, Lose

----------------------------------------------------------------------------
(* The server *)

\* A step that approves no session and takes no consumed one back.
NoApproval ==
    \A s \in Sessions :
        /\ status[s] = "consumed" => status'[s] = "consumed"
        /\ status'[s] \in {"approved", "consumed"} => status[s] \in {"approved", "consumed"}

LEMMA Moves ==
    ASSUME ServerTypeOK, NEW s \in Sessions, NEW new \in Status, Becomes(s, new)
    PROVE  /\ status' \in [Sessions -> Status]
           /\ \A t \in Sessions : status'[t] = IF t = s THEN new ELSE status[t]
BY DEF ServerTypeOK, Becomes

LEMMA Unmoved ==
    ASSUME ServerTypeOK, UNCHANGED serverVars
    PROVE  ServerTypeOK' /\ NoApproval
BY DEF ServerTypeOK, serverVars, NoApproval

\* A move to "approved" is the phone's; a move to "consumed" starts there.
LEMMA OtherMoves ==
    ASSUME ServerTypeOK, NEW s \in Sessions, NEW new \in Status \ {"approved"}, Becomes(s, new),
           status[s] # "consumed", new = "consumed" => status[s] = "approved",
           UNCHANGED <<redirects, codeWaiting>>
    PROVE  ServerTypeOK' /\ NoApproval
<1>1. /\ status' \in [Sessions -> Status]
      /\ \A t \in Sessions : status'[t] = IF t = s THEN new ELSE status[t]
    BY Moves
<1>2. ServerTypeOK'
    BY <1>1 DEF ServerTypeOK
<1>3. NoApproval
    BY <1>1 DEF NoApproval
<1> QED BY <1>2, <1>3

LEMMA Endpoints ==
    ASSUME ServerTypeOK, NEW s \in Sessions \cup {None}, NEW answer,
           \/ s \in Sessions /\ create_session(s, answer)
           \/ s \in Sessions /\ refresh_qr(s, answer)
           \/ s \in Sessions /\ get_status(s, answer)
           \/ s \in Sessions /\ scan(s, answer)
           \/ s \in Sessions /\ deny(s, answer)
           \/ exchange_token(s, answer)
    PROVE  ServerTypeOK' /\ NoApproval
<1>1. CASE s \in Sessions /\ create_session(s, answer)
    BY <1>1, OtherMoves, Unmoved DEF create_session, Status, Refuses
<1>2. CASE s \in Sessions /\ refresh_qr(s, answer)
    BY <1>2, Unmoved DEF refresh_qr, Refuses
<1>3. CASE s \in Sessions /\ get_status(s, answer)
    BY <1>3 DEF get_status, ServerTypeOK, NoApproval
<1>4. CASE s \in Sessions /\ scan(s, answer)
    BY <1>4, OtherMoves, Unmoved DEF scan, Status, Refuses
<1>5. CASE s \in Sessions /\ deny(s, answer)
    BY <1>5, OtherMoves, Unmoved DEF deny, Status, Refuses
<1>6. CASE exchange_token(s, answer)
    <2>1. CASE s \in Sessions /\ status[s] = "approved" /\ Becomes(s, "consumed")
               /\ UNCHANGED <<redirects, codeWaiting>>
        BY <2>1, OtherMoves DEF Status
    <2>2. CASE UNCHANGED serverVars
        BY <2>2, Unmoved
    <2> QED BY <1>6, <2>1, <2>2 DEF exchange_token, Refuses
<1> QED BY <1>1, <1>2, <1>3, <1>4, <1>5, <1>6

LEMMA ExchangeSpends ==
    ASSUME ServerTypeOK, NEW s, exchange_token(s, "token")
    PROVE  s \in Sessions /\ status'[s] = "consumed"
<1>1. s \in Sessions /\ Becomes(s, "consumed")
    BY DEF exchange_token, Refuses
<1> QED BY <1>1, Moves DEF Status

\* When the phones keep their buttons, what the phones did stays done.
LEMMA ServerKeeps ==
    ASSUME IInv, ServerTypeOK', NoApproval,
           \A s \in Sessions : phone[s].disabled => phone'[s].disabled
    PROVE  ApprovedAfterTap' /\ Keeps
BY DEF IInv, ApprovedAfterTap, NoApproval, Keeps

LEMMA ServeKeeps ==
    ASSUME IInv, NEW c \in Calls, Serve(c), UNCHANGED phone
    PROVE  IInv'
<1> DEFINE s == calls[c].sid
           kind == calls[c].kind
<1>1. PICK answer \in Answers :
        /\ \/ kind = "create" /\ create_session(s, answer)
           \/ kind = "refresh" /\ refresh_qr(s, answer)
           \/ kind = "poll" /\ get_status(s, answer)
           \/ kind = "exchange" /\ exchange_token(s, answer)
        /\ calls' = [calls EXCEPT ![c].answer = answer]
    BY DEF Serve
<1>2. calls[c] \in Call
    BY <1>1, Facts DEF CallsTypeOK, NoCall
<1>3. s \in Sessions \cup {None} /\ (kind # "exchange" => s \in Sessions)
    BY <1>2, Facts DEF Call, CallsTypeOK, CallsNameSessions
<1>4. ServerTypeOK' /\ NoApproval
    BY <1>1, <1>3, Facts, Endpoints
<1>5. ApprovedAfterTap' /\ Keeps
    BY <1>4, ServerKeeps
<1> DEFINE served == [calls[c] EXCEPT !.answer = answer]
<1>6. served \in Call /\ served.kind = kind /\ served.sid = s /\ served.answer = answer
    BY <1>2 DEF Call
<1>7. calls' = [calls EXCEPT ![c] = served]
    BY <1>1
<1>8. (kind = "exchange" /\ answer = "token") => Spent'
    <2>1. SUFFICES ASSUME kind = "exchange", answer = "token" PROVE Spent'
        OBVIOUS
    <2>2. s \in Sessions /\ status'[s] = "consumed"
        BY <1>1, <2>1, Facts, ExchangeSpends
    <2>3. phone'[s].disabled
        BY <1>5, <2>2 DEF ApprovedAfterTap
    <2> QED BY <2>2, <2>3 DEF Spent
<1> HIDE DEF served
<1>9. /\ calls' \in [Calls -> Call \cup {NoCall}]
      /\ \A d \in Calls : calls'[d] = IF d = c THEN served ELSE calls[d]
    BY <1>6, <1>7, Facts DEF CallsTypeOK
<1>10. CallsNameSessions'
    BY <1>3, <1>6, <1>9, Facts DEF CallsTypeOK, CallsNameSessions
<1>11. Spent => Spent'
    BY <1>5, SpentStays
<1>12. TokenIsSpent'
    BY <1>6, <1>8, <1>9, <1>11 DEF IInv, TokenIsSpent
<1>13. HomeIsSpent'
    BY <1>11, Facts DEF HomeIsSpent, Serve
<1>14. TypeOK'
    BY <1>4, <1>9, Facts DEF IInv, TypeOK, PageTypeOK, Serve
<1> QED BY <1>5, <1>10, <1>12, <1>13, <1>14 DEF IInv, AskedAfterTap

\* The steps of the server and the phones that leave the page alone.
LEMMA PageAlone ==
    ASSUME IInv, UNCHANGED <<place, page, calls>>, failures' \in 0..MaxFailures,
           ServerTypeOK', phone' \in [Sessions -> Phone],
           AskedAfterTap', ApprovedAfterTap', Keeps
    PROVE  IInv'
<1>1. Spent => Spent'
    BY SpentStays
<1>2. TypeOK'
    BY Facts DEF TypeOK, PageTypeOK
<1>3. CallsNameSessions'
    BY Facts DEF CallsTypeOK, CallsNameSessions
<1>4. TokenIsSpent' /\ HomeIsSpent'
    BY <1>1 DEF IInv, TokenIsSpent, HomeIsSpent
<1> QED BY <1>2, <1>3, <1>4 DEF IInv

----------------------------------------------------------------------------
(* The phones *)

\* A phone's buttons stay disabled, and it asks for an approval only then.
LEMMA PhoneSet ==
    ASSUME phone \in [Sessions -> Phone], AskedAfterTap, NEW s \in Sessions, NEW row \in Phone,
           phone' = [phone EXCEPT ![s] = row],
           phone[s].disabled => row.disabled,
           "approve" \in row.asked => row.disabled
    PROVE  /\ phone' \in [Sessions -> Phone] /\ AskedAfterTap'
           /\ \A t \in Sessions : phone[t].disabled => phone'[t].disabled
BY DEF AskedAfterTap

LEMMA PhoneFacts ==
    ASSUME IInv
    PROVE  phone \in [Sessions -> Phone] /\ AskedAfterTap
BY DEF IInv, TypeOK

\* A step of a phone alone.
LEMMA PhoneOnly ==
    ASSUME IInv, NEW s \in Sessions, NEW row \in Phone,
           phone' = [phone EXCEPT ![s] = row],
           phone[s].disabled => row.disabled,
           "approve" \in row.asked => row.disabled,
           UNCHANGED <<serverVars, pageVars>>
    PROVE  IInv'
<1>1. /\ phone' \in [Sessions -> Phone] /\ AskedAfterTap'
      /\ \A t \in Sessions : phone[t].disabled => phone'[t].disabled
    BY PhoneFacts, PhoneSet
<1>2. ServerTypeOK' /\ NoApproval
    BY Facts, Unmoved
<1>3. ApprovedAfterTap' /\ Keeps
    BY <1>1, <1>2, ServerKeeps
<1>4. failures' \in 0..MaxFailures
    BY Facts DEF PageTypeOK, pageVars
<1> QED BY <1>1, <1>2, <1>3, <1>4, PageAlone DEF pageVars

LEMMA OpenKeeps ==
    ASSUME IInv, NEW s \in Sessions, Open(s)
    PROVE  IInv'
<1> DEFINE row == [phone[s] EXCEPT !.view = "loading", !.asked = {"scan"}]
<1>1. row \in Phone /\ row.disabled = phone[s].disabled /\ "approve" \notin row.asked
    BY PhoneFacts DEF Phone
<1>2. phone' = [phone EXCEPT ![s] = row]
    BY DEF Open
<1>3. "approve" \in row.asked => row.disabled
    BY <1>1
<1> HIDE DEF row
<1>4. UNCHANGED <<serverVars, pageVars>>
    BY DEF Open
<1> QED BY <1>1, <1>2, <1>3, <1>4, PhoneOnly

LEMMA TapApproveKeeps ==
    ASSUME IInv, NEW s \in Sessions, TapApprove(s)
    PROVE  IInv'
<1> DEFINE row == [phone[s] EXCEPT !.disabled = TRUE, !.asked = @ \cup {"approve"}]
<1>1. row \in Phone /\ row.disabled
    BY PhoneFacts DEF Phone
<1>2. phone' = [phone EXCEPT ![s] = row]
    BY DEF TapApprove
<1> HIDE DEF row
<1> QED BY <1>1, <1>2, PhoneOnly DEF TapApprove

LEMMA TapDenyKeeps ==
    ASSUME IInv, NEW s \in Sessions, TapDeny(s)
    PROVE  IInv'
<1> DEFINE row == [phone[s] EXCEPT !.asked = @ \cup {"deny"}]
<1>1. row \in Phone /\ row.disabled = phone[s].disabled /\ row.asked = phone[s].asked \cup {"deny"}
    BY PhoneFacts DEF Phone
<1>2. phone' = [phone EXCEPT ![s] = row]
    BY DEF TapDeny
<1>3. "approve" \in row.asked => row.disabled
    BY <1>1, PhoneFacts DEF AskedAfterTap
<1> HIDE DEF row
<1> QED BY <1>1, <1>2, <1>3, PhoneOnly DEF TapDeny

LEMMA ServedKeeps ==
    ASSUME IInv, NEW s \in Sessions, NEW op, NEW answer, PhoneServed(s, op, answer),
           \A t \in Sessions : phone[t].disabled => phone'[t].disabled
    PROVE  ServerTypeOK' /\ ApprovedAfterTap' /\ Keeps
<1>1. CASE scan(s, answer) \/ deny(s, answer)
    <2>1. ServerTypeOK' /\ NoApproval
        BY <1>1, Facts, Endpoints
    <2> QED BY <2>1, ServerKeeps
<1>2. CASE op = "approve" /\ approve(s, answer)
    <2>1. CASE status[s] = "scanned" /\ answer = "ok"
        <3>1. phone'[s].disabled
            BY <1>2, PhoneFacts DEF PhoneServed, AskedAfterTap
        <3>2. Becomes(s, "approved")
              /\ codeWaiting' = (IF redirects THEN codeWaiting \cup {s} ELSE codeWaiting)
              /\ UNCHANGED redirects
            BY <1>2, <2>1 DEF approve, Refuses
        <3>3. /\ status' \in [Sessions -> Status]
              /\ \A t \in Sessions : status'[t] = IF t = s THEN "approved" ELSE status[t]
            BY <3>2, Facts, Moves DEF Status
        <3>4. ServerTypeOK'
            BY <3>2, <3>3, Facts DEF ServerTypeOK
        <3>5. ApprovedAfterTap'
            BY <3>1, <3>3 DEF IInv, ApprovedAfterTap
        <3>6. Keeps
            BY <2>1, <3>3 DEF Keeps
        <3> QED BY <3>4, <3>5, <3>6
    <2>2. CASE UNCHANGED serverVars
        <3>1. ServerTypeOK' /\ NoApproval
            BY <2>2, Facts, Unmoved
        <3> QED BY <3>1, ServerKeeps
    <2> QED BY <1>2, <2>1, <2>2 DEF approve, Refuses
<1> QED BY <1>1, <1>2 DEF PhoneServed

\* One request of a phone is done with, served or not.
LEMMA PhoneRequestKeeps ==
    ASSUME IInv, NEW s \in Sessions, NEW op,
           NEW view \in {"away", "loading", "approve", "success", "denied", "error"},
           UNCHANGED serverVars \/ \E answer \in {"ok", "refused"} : PhoneServed(s, op, answer),
           phone' = [phone EXCEPT ![s].view = view, ![s].asked = @ \ {op}],
           UNCHANGED <<place, page, calls>>, failures' \in 0..MaxFailures
    PROVE  IInv'
<1> DEFINE row == [phone[s] EXCEPT !.view = view, !.asked = @ \ {op}]
<1>1. row \in Phone /\ row.disabled = phone[s].disabled /\ row.asked = phone[s].asked \ {op}
    BY PhoneFacts DEF Phone
<1>2. phone' = [phone EXCEPT ![s] = row]
    OBVIOUS
<1>3. "approve" \in row.asked => row.disabled
    BY <1>1, PhoneFacts DEF AskedAfterTap
<1> HIDE DEF row
<1>4. /\ phone' \in [Sessions -> Phone] /\ AskedAfterTap'
      /\ \A t \in Sessions : phone[t].disabled => phone'[t].disabled
    BY <1>1, <1>2, <1>3, PhoneFacts, PhoneSet
<1>5. ServerTypeOK' /\ ApprovedAfterTap' /\ Keeps
    <2>1. CASE UNCHANGED serverVars
        <3>1. ServerTypeOK' /\ NoApproval
            BY <2>1, Facts, Unmoved
        <3> QED BY <1>4, <3>1, ServerKeeps
    <2>2. CASE \E answer \in {"ok", "refused"} : PhoneServed(s, op, answer)
        BY <1>4, <2>2, ServedKeeps
    <2> QED BY <2>1, <2>2
<1> QED BY <1>4, <1>5, PageAlone

LEMMA ShownIsView ==
    ASSUME NEW op, NEW answer
    PROVE  Shown(op, answer) \in {"away", "loading", "approve", "success", "denied", "error"}
BY DEF Shown

LEMMA PhoneAnsweredKeeps ==
    ASSUME IInv, NEW s \in Sessions, PhoneAnswered(s)
    PROVE  IInv'
<1>1. PICK op \in phone[s].asked, answer \in {"ok", "refused"} :
        /\ PhoneServed(s, op, answer)
        /\ phone' = [phone EXCEPT ![s].view = Shown(op, answer), ![s].asked = @ \ {op}]
    BY DEF PhoneAnswered
<1>2. Shown(op, answer) \in {"away", "loading", "approve", "success", "denied", "error"}
    BY ShownIsView
<1>3. failures' \in 0..MaxFailures
    BY Facts DEF PageTypeOK, pageVars, PhoneAnswered
<1> QED BY <1>1, <1>2, <1>3, PhoneRequestKeeps DEF PhoneAnswered, pageVars

LEMMA PhoneLosesKeeps ==
    ASSUME PageAssumption, IInv, NEW s \in Sessions, PhoneLoses(s)
    PROVE  IInv'
<1>1. PICK op \in phone[s].asked :
        /\ UNCHANGED serverVars \/ \E answer \in {"ok", "refused"} : PhoneServed(s, op, answer)
        /\ \E view \in {phone[s].view, Shown(op, "refused")} :
              phone' = [phone EXCEPT ![s].view = view, ![s].asked = @ \ {op}]
    BY DEF PhoneLoses
<1>2. PICK view \in {phone[s].view, Shown(op, "refused")} :
        phone' = [phone EXCEPT ![s].view = view, ![s].asked = @ \ {op}]
    BY <1>1
<1>3. view \in {"away", "loading", "approve", "success", "denied", "error"}
    BY PhoneFacts, ShownIsView DEF Phone
<1>4. failures' \in 0..MaxFailures
    BY Facts DEF PageTypeOK, PageAssumption, PhoneLoses
<1>5. UNCHANGED <<place, page, calls>>
    BY DEF PhoneLoses
<1>6. UNCHANGED serverVars \/ \E answer \in {"ok", "refused"} : PhoneServed(s, op, answer)
    BY <1>1
<1> QED BY <1>2, <1>3, <1>4, <1>5, <1>6, PhoneRequestKeeps

LEMMA ClientRedeemsKeeps ==
    ASSUME IInv, NEW s \in Sessions, ClientRedeems(s)
    PROVE  IInv'
<1>1. ServerTypeOK' /\ NoApproval
    BY Facts, OtherMoves DEF ClientRedeems, token, Status
<1>2. ApprovedAfterTap' /\ Keeps
    BY <1>1, ServerKeeps DEF ClientRedeems
<1>3. phone' \in [Sessions -> Phone] /\ AskedAfterTap' /\ failures' \in 0..MaxFailures
    BY PhoneFacts, Facts DEF ClientRedeems, AskedAfterTap, PageTypeOK, pageVars
<1> QED BY <1>1, <1>2, <1>3, PageAlone DEF ClientRedeems, pageVars

LEMMA ExpiresKeeps ==
    ASSUME IInv, NEW s \in Sessions, Expires(s)
    PROVE  IInv'
<1>1. ServerTypeOK' /\ NoApproval
    BY Facts, OtherMoves DEF Expires, Lapse, Status
<1>2. ApprovedAfterTap' /\ Keeps
    BY <1>1, ServerKeeps DEF Expires
<1>3. phone' \in [Sessions -> Phone] /\ AskedAfterTap' /\ failures' \in 0..MaxFailures
    BY PhoneFacts, Facts DEF Expires, AskedAfterTap, PageTypeOK, pageVars
<1> QED BY <1>1, <1>2, <1>3, PageAlone DEF Expires, pageVars

----------------------------------------------------------------------------
(* The invariant *)

LEMMA InitIInv ==
    ASSUME PageAssumption, SessionAssumption, Init
    PROVE  IInv
<1> USE DEF Init, ServerInit, PageInit
<1>1. ServerTypeOK
    BY DEF ServerTypeOK, Status
<1>2. page \in Page /\ page.leaving = {}
    BY DEF PageAssumption, Page, Views
<1>3. PICK c \in Calls, s \in Sessions :
        calls = [d \in Calls |-> IF d = c THEN Sent("create", s) ELSE NoCall]
    OBVIOUS
<1>4. Sent("create", s) \in Call /\ Sent("create", s).sid = s /\ Sent("create", s).answer = "sent"
      /\ Sent("create", s).kind = "create"
    BY SentIsCall
<1>5. calls \in [Calls -> Call \cup {NoCall}] /\ CallsNameSessions
    BY <1>3, <1>4 DEF CallsNameSessions, NoCall
<1>6. phone \in [Sessions -> Phone] /\ \A t \in Sessions : phone[t].asked = {}
    BY DEF Phone
<1>7. TypeOK
    BY <1>1, <1>2, <1>5, <1>6 DEF TypeOK, PageTypeOK, PageAssumption
<1>8. AskedAfterTap /\ ApprovedAfterTap
    BY <1>6 DEF AskedAfterTap, ApprovedAfterTap
<1>9. TokenIsSpent
    BY <1>3, <1>4 DEF TokenIsSpent, NoCall
<1>10. HomeIsSpent
    BY <1>2 DEF HomeIsSpent
<1> QED BY <1>5, <1>7, <1>8, <1>9, <1>10 DEF IInv

LEMMA NextIInv ==
    ASSUME PageAssumption, SessionAssumption, IInv, [Next]_vars
    PROVE  IInv'
<1>1. CASE TimerFires
    BY <1>1, TickKeeps, PollFiresKeeps DEF TimerFires
<1>2. CASE User
    BY <1>2, ClickKeeps DEF User
<1>3. CASE Navigate /\ UNCHANGED phone
    BY <1>3, NavigateKeeps
<1>4. ASSUME NEW c \in Calls, Network(c), UNCHANGED phone
      PROVE  IInv'
    <2>1. CASE Serve(c)
        BY <1>4, <2>1, ServeKeeps
    <2>2. CASE Lose(c)
        BY <1>4, <2>2, LoseKeeps
    <2>3. CASE Answered(c)
        BY <1>4, <2>3, CreatedKeeps, RefreshedKeeps, PolledNewsKeeps, PolledRedirectKeeps,
           PolledApprovedKeeps, ExchangedKeeps DEF Answered
    <2> QED BY <1>4, <2>1, <2>2, <2>3 DEF Network
<1>5. ASSUME NEW s \in Sessions,
             \/ Open(s) \/ PhoneAnswered(s) \/ PhoneLoses(s) \/ ClientRedeems(s) \/ Expires(s)
      PROVE  IInv'
    BY <1>5, OpenKeeps, PhoneAnsweredKeeps, PhoneLosesKeeps, ClientRedeemsKeeps, ExpiresKeeps
<1>6. ASSUME NEW s \in Sessions, Taps(s)
      PROVE  IInv'
    BY <1>6, TapApproveKeeps, TapDenyKeeps DEF Taps
<1>7. CASE UNCHANGED vars
    <2>1. UNCHANGED <<serverVars, phone>> /\ UNCHANGED <<place, page, calls, failures>>
        BY <1>7 DEF vars, pageVars
    <2>2. PageTypeOK' /\ CallsNameSessions' /\ TokensKept
        BY <2>1, Facts DEF PageTypeOK, CallsTypeOK, CallsNameSessions, TokensKept
    <2> QED BY <2>1, <2>2, Facts, PageOnly
<1> QED BY <1>1, <1>2, <1>3, <1>4, <1>5, <1>6, <1>7 DEF Next, Elsewhere

LEMMA Invariance == Spec => []IInv
<1>1. Init => IInv
    BY InitIInv, PageAssumption, SessionAssumption
<1>2. IInv /\ [Next]_vars => IInv'
    BY NextIInv, PageAssumption, SessionAssumption
<1> QED BY <1>1, <1>2, PTL DEF Spec

----------------------------------------------------------------------------
(* Theorems *)

\* The page's variables, its fetches, the rows and the phones have their types.
THEOREM SignInTypes == Spec => []TypeOK
<1>1. IInv => TypeOK
    BY DEF IInv
<1> QED BY <1>1, Invariance, PTL

\* A tab reaches /home only after a phone's approval was spent, whatever answers
\* come late, out of order or not at all.
THEOREM HomeByApproval == Spec => []HomeIsApproved
<1>1. IInv => HomeIsApproved
    BY DEF IInv, HomeIsSpent, Spent, HomeIsApproved
<1> QED BY <1>1, Invariance, PTL
=============================================================================
