----------------------------- MODULE LoginPage -----------------------------
(***************************************************************************)
(* frontend/login.js: one tab that shows a QR code, rotates it, polls the  *)
(* session and signs in.  The script is single-threaded, but every fetch   *)
(* is a request in flight, and the continuation after its await runs       *)
(* whenever the answer arrives, on whatever the page has become by then.   *)
(*                                                                         *)
(* page holds the script's variables.  pollTimer and rotateTimer say       *)
(* whether the variable refers to a timer that still runs; a timer that    *)
(* runs although no variable refers to it any more cannot be cleared and   *)
(* is counted as a stray.                                                  *)
(***************************************************************************)
EXTENDS LoginServer, Integers

CONSTANTS
    Calls,              \* slots for fetches in flight (bounds concurrency)
    QR_ROTATE_SECS,     \* the page's constants, in ticks
    SESSION_EXPIRE,
    MaxFailures         \* bound on fetches that fail

ASSUME PageAssumption == QR_ROTATE_SECS \in Nat /\ SESSION_EXPIRE \in Nat /\ MaxFailures \in Nat

VARIABLES
    place,      \* "login", "home", or the session whose code the client was given
    page,
    calls,
    failures

pageVars == <<place, page, calls, failures>>

Views == {"loading", "active", "scanned", "expired", "success"}

Page == [sessionId : Sessions \cup {None}, view : Views, warned : BOOLEAN,
         qrImg : Sessions \cup {None},
         pollTimer : BOOLEAN, strayPolls : Nat, rotateTimer : BOOLEAN, strayTicks : Nat,
         rotateCountdown : Int, totalElapsed : Nat,
         leaving : SUBSET (Sessions \cup {"home"})]

NoCall == [kind |-> "none", sid |-> None, answer |-> None]
Answers == Status \cup {"created", "fresh", "refused", "redirect", "token"}
Call == [kind : {"create", "refresh", "poll", "exchange"},
         sid : Sessions \cup {None}, answer : Answers \cup {"sent", "failed"}]

Sent(kind, s) == [kind |-> kind, sid |-> s, answer |-> "sent"]
Issue(call) == \E c \in Calls : calls[c] = NoCall /\ calls' = [calls EXCEPT ![c] = call]
Done(c) == calls' = [calls EXCEPT ![c] = NoCall]

\* The fetch is settled with one of the answers, and the page is open to see it.
Settles(c, kind, answers) ==
    place = "login" /\ calls[c].kind = kind /\ calls[c].answer \in answers

PageTypeOK ==
    /\ place \in Sessions \cup {"login", "home"}
    /\ page \in Page
    /\ calls \in [Calls -> Call \cup {NoCall}]
    /\ failures \in 0..MaxFailures

----------------------------------------------------------------------------
(* Functions of the script, as what they make of its variables *)

clearTimers(p) == [p EXCEPT !.pollTimer = FALSE, !.rotateTimer = FALSE]

\* Mutant: the phone's scan stops the timers.
setQRState_ScannedClears(p, view) ==
    [(IF view \in {"scanned", "expired", "success"} THEN clearTimers(p) ELSE p)
       EXCEPT !.view = view, !.warned = (view = "expired")]

\* Mutant: an expired page keeps its timers.
setQRState_ExpiredKeeps(p, view) ==
    [(IF view = "success" THEN clearTimers(p) ELSE p)
       EXCEPT !.view = view, !.warned = (view = "expired")]

\* Every state has its status message; that of "expired" is a warning.
setQRState(p, view) ==
    [(IF view \in {"expired", "success"} THEN clearTimers(p) ELSE p)
       EXCEPT !.view = view, !.warned = (view = "expired")]

\* setStatus("warn", ...): a message, and nothing else happens.
warn(p) == [p EXCEPT !.warned = TRUE]

\* rotateTimer = setTimeout(...), whatever the variable referred to before.
startTick(p) ==
    [p EXCEPT !.rotateTimer = TRUE, !.strayTicks = IF p.rotateTimer THEN @ + 1 ELSE @]

startCountdown(p) == [startTick(p) EXCEPT !.rotateCountdown = QR_ROTATE_SECS]

startPolling(p) ==
    [p EXCEPT !.pollTimer = TRUE, !.strayPolls = IF p.pollTimer THEN @ + 1 ELSE @]

\* createSession up to its fetch.
createSession(p) ==
    setQRState([clearTimers(p) EXCEPT !.sessionId = None, !.totalElapsed = 0], "loading")

\* An identifier the server may choose; no other fetch in flight is to get it.
Unused(s) == status[s] = "absent" /\ \A c \in Calls : calls[c] # Sent("create", s)

\* The script starts by opening a session.
PageInit ==
    /\ place = "login"
    /\ page = [sessionId |-> None, view |-> "loading", warned |-> FALSE, qrImg |-> None,
               pollTimer |-> FALSE, strayPolls |-> 0, rotateTimer |-> FALSE, strayTicks |-> 0,
               rotateCountdown |-> QR_ROTATE_SECS, totalElapsed |-> 0, leaving |-> {}]
    /\ \E c \in Calls, s \in Sessions :
          calls = [d \in Calls |-> IF d = c THEN Sent("create", s) ELSE NoCall]
    /\ failures = 0

----------------------------------------------------------------------------
(* Timers, the button, leaving *)

\* tick, from startCountdown.  The timer that fires is spent.
Tick ==
    /\ place = "login"
    /\ \E stray \in BOOLEAN :
          LET fired == IF stray THEN [page EXCEPT !.strayTicks = @ - 1]
                       ELSE [page EXCEPT !.rotateTimer = FALSE]
              counted == [fired EXCEPT !.rotateCountdown = @ - 1, !.totalElapsed = @ + 1]
              over == counted.totalElapsed >= SESSION_EXPIRE
              rotate == counted.rotateCountdown <= 0
          IN
          /\ IF stray THEN page.strayTicks > 0 ELSE page.rotateTimer
          /\ \/ over /\ page' = setQRState(counted, "expired") /\ UNCHANGED calls
             \/ ~over /\ ~rotate /\ page' = startTick(counted) /\ UNCHANGED calls
             \/ /\ ~over /\ rotate /\ page' = counted      \* refreshQR
                /\ IF page.sessionId = None THEN UNCHANGED calls
                   ELSE Issue(Sent("refresh", page.sessionId))
    /\ UNCHANGED <<place, failures, serverVars>>

\* setInterval starts a poll whether or not the last one was answered.
PollFires ==
    /\ place = "login"
    /\ page.pollTimer \/ page.strayPolls > 0
    /\ page.sessionId # None
    /\ Issue(Sent("poll", page.sessionId))
    /\ UNCHANGED <<place, page, failures, serverVars>>

\* The button is in the "expired" overlay; every other state hides it.
Click(s) ==
    /\ place = "login"
    /\ page.view = "expired"
    /\ Unused(s)
    /\ page' = createSession(page)
    /\ Issue(Sent("create", s))
    /\ UNCHANGED <<place, failures, serverVars>>

\* The delayed assignment to window.location: the page and its script are gone.
Navigate ==
    /\ place = "login"
    /\ place' \in page.leaving
    /\ UNCHANGED <<page, calls, failures, serverVars>>

----------------------------------------------------------------------------
(* Fetches *)

\* The server handles a request; the page may be gone by then.
Serve(c) ==
    LET s == calls[c].sid IN
    /\ calls[c].answer = "sent"
    /\ \E answer \in Answers :
          /\ \/ calls[c].kind = "create" /\ create_session(s, answer)
             \/ calls[c].kind = "refresh" /\ refresh_qr(s, answer)
             \/ calls[c].kind = "poll" /\ get_status(s, answer)
             \/ calls[c].kind = "exchange" /\ exchange_token(s, answer)
          /\ calls' = [calls EXCEPT ![c].answer = answer]
    /\ UNCHANGED <<place, page, failures>>

\* The request or its answer is lost, or the answer is an error of the server.
Lose(c) ==
    /\ calls[c] # NoCall /\ calls[c].answer # "failed"
    /\ failures < MaxFailures
    /\ failures' = failures + 1
    /\ calls' = [calls EXCEPT ![c].answer = "failed"]
    /\ UNCHANGED <<place, page, serverVars>>

\* Mutant: does not look at res.ok; the answer has no session_id.
Created_Unchecked(c) ==
    /\ Settles(c, "create", {"created", "refused", "failed"})
    /\ page' = LET sid == IF calls[c].answer # "created" THEN "undefined" ELSE calls[c].sid
               IN startPolling(startCountdown(setQRState(
                    [page EXCEPT !.sessionId = sid, !.qrImg = sid], "active")))
    /\ Done(c)
    /\ UNCHANGED <<place, failures, serverVars>>

\* createSession after its await.
Created(c) ==
    /\ Settles(c, "create", {"created", "refused", "failed"})
    /\ page' = IF calls[c].answer # "created" THEN warn(page)
               ELSE LET opened == [page EXCEPT !.sessionId = calls[c].sid,
                                               !.qrImg = calls[c].sid]
                    IN startPolling(startCountdown(setQRState(opened, "active")))
    /\ Done(c)
    /\ UNCHANGED <<place, failures, serverVars>>

\* Mutant: keeps the old image when the server refuses a new one.
Refreshed_Keeps(c) ==
    /\ Settles(c, "refresh", {"fresh", "refused", "failed"})
    /\ page' = IF calls[c].answer = "fresh"
               THEN startCountdown([page EXCEPT !.qrImg = calls[c].sid])
               ELSE page
    /\ Done(c)
    /\ UNCHANGED <<place, failures, serverVars>>

\* refreshQR after its await; it does not look at sessionId again.
Refreshed(c) ==
    /\ Settles(c, "refresh", {"fresh", "refused", "failed"})
    /\ page' = IF calls[c].answer = "fresh"
               THEN startCountdown([page EXCEPT !.qrImg = calls[c].sid])
               ELSE setQRState(page, "expired")
    /\ Done(c)
    /\ UNCHANGED <<place, failures, serverVars>>

\* poll after its await: no news, the phone scanned, the session is closed.
PolledNews(c) ==
    /\ Settles(c, "poll", {"pending", "consumed", "failed", "scanned", "expired"})
    /\ page' = IF calls[c].answer \in {"scanned", "expired"}
               THEN setQRState(page, calls[c].answer)
               ELSE page
    /\ Done(c)
    /\ UNCHANGED <<place, failures, serverVars>>

\* Mutant: goes on to the exchange although it has a redirect URL.
PolledRedirect_Exchanges(c) ==
    /\ Settles(c, "poll", {"redirect"})
    /\ page' = [setQRState(page, "success") EXCEPT !.leaving = @ \cup {calls[c].sid}]
    /\ calls' = [calls EXCEPT ![c] = Sent("exchange", page.sessionId)]
    /\ UNCHANGED <<place, failures, serverVars>>

\* An OAuth flow: the tab goes to the client with the code.
PolledRedirect(c) ==
    /\ Settles(c, "poll", {"redirect"})
    /\ page' = [setQRState(page, "success") EXCEPT !.leaving = @ \cup {calls[c].sid}]
    /\ Done(c)
    /\ UNCHANGED <<place, failures, serverVars>>

\* Mutant: does not wait for the approval.
PolledApproved_Scanned(c) ==
    /\ Settles(c, "poll", {"approved", "scanned"})
    /\ page' = setQRState(page, "success")
    /\ calls' = [calls EXCEPT ![c] = Sent("exchange", page.sessionId)]
    /\ UNCHANGED <<place, failures, serverVars>>

\* No URL: exchange the session the page has now.
PolledApproved(c) ==
    /\ Settles(c, "poll", {"approved"})
    /\ page' = setQRState(page, "success")
    /\ calls' = [calls EXCEPT ![c] = Sent("exchange", page.sessionId)]
    /\ UNCHANGED <<place, failures, serverVars>>

\* Mutant: tries the exchange again when it failed.
Exchanged_Retries(c) ==
    /\ Settles(c, "exchange", {"token", "refused", "failed"})
    /\ IF calls[c].answer = "token"
       THEN page' = [page EXCEPT !.leaving = @ \cup {"home"}] /\ Done(c)
       ELSE page' = warn(page) /\ calls' = [calls EXCEPT ![c] = Sent("exchange", page.sessionId)]
    /\ UNCHANGED <<place, failures, serverVars>>

\* poll after the await of the exchange.
Exchanged(c) ==
    /\ Settles(c, "exchange", {"token", "refused", "failed"})
    /\ page' = IF calls[c].answer = "token" THEN [page EXCEPT !.leaving = @ \cup {"home"}]
               ELSE warn(page)
    /\ Done(c)
    /\ UNCHANGED <<place, failures, serverVars>>

Answered(c) ==
    \/ Created(c)
    \/ Refreshed(c)
    \/ PolledNews(c)
    \/ PolledRedirect(c)
    \/ PolledApproved(c)
    \/ Exchanged(c)

TimerOrClick == Tick \/ PollFires \/ \E s \in Sessions : Click(s)
Network(c) == Serve(c) \/ Lose(c) \/ Answered(c)
=============================================================================
