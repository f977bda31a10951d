------------------------- MODULE SignInPromptProofs -------------------------
(***************************************************************************)
(* Proofs about SignIn when answers are prompt, for every number of        *)
(* sessions and of slots.  The page is then always in step with its fetch: *)
(* there is one at most, it is about the session the page shows, and what  *)
(* the server answered still holds when the page reads it.                 *)
(***************************************************************************)
EXTENDS SignInProofs

Following == page.view \in {"active", "scanned"}

\* Nothing is asked while an answer is awaited.
OneFetch == \A c, d \in Calls : calls[c] # NoCall /\ calls[d] # NoCall => c = d

\* The view says which timers run, and whose code is on the screen.
ViewOK ==
    /\ ClosedIsQuiet
    /\ Following => ~page.warned
    /\ Following => /\ page.sessionId \in Sessions /\ page.qrImg = page.sessionId
                    /\ page.pollTimer

\* A page that has decided to leave is done.
LeavingOK ==
    /\ page.leaving # {} => page.view = "success" /\ ~page.warned
    /\ place # "login" => place \in page.leaving
    /\ CodeIsTheClients

\* The fetch belongs to the view, and an approval it reported is not spent meanwhile.
FetchOK(c) ==
    calls[c] # NoCall =>
        /\ page.leaving = {} /\ ~page.warned
        /\ calls[c].kind = "create" => page.view = "loading"
        /\ calls[c].kind \in {"refresh", "poll"} => Following /\ calls[c].sid = page.sessionId
        /\ calls[c].kind = "refresh" => ~page.rotateTimer
        /\ calls[c].kind = "poll" /\ calls[c].answer \in {"approved", "redirect"} =>
                status[calls[c].sid] = "approved"
        /\ calls[c].kind = "exchange" =>
                /\ page.view = "success" /\ calls[c].sid \in Sessions
                /\ calls[c].answer \in {"sent", "token", "failed"}
                /\ calls[c].answer = "sent" => status[calls[c].sid] = "approved"

PageInv == OneFetch /\ ViewOK /\ LeavingOK /\ \A c \in Calls : FetchOK(c)

PInv == IInv /\ PageInv

----------------------------------------------------------------------------
(* The functions of the script, field by field *)

LEMMA PageFields ==
    ASSUME IInv
    PROVE  /\ page \in Page /\ page.sessionId \in Sessions \cup {None} /\ page.view \in Views
           /\ page.strayPolls \in Nat /\ page.strayTicks \in Nat
           /\ page.pollTimer \in BOOLEAN /\ page.rotateTimer \in BOOLEAN
           /\ page.warned \in BOOLEAN
BY PageAssumption DEF IInv, TypeOK, PageTypeOK, Page

LEMMA SetFields ==
    ASSUME NEW p \in Page, NEW view \in Views
    PROVE  /\ setQRState(p, view) \in Page /\ setQRState(p, view).leaving = p.leaving
           /\ setQRState(p, view).view = view /\ setQRState(p, view).warned = (view = "expired")
           /\ setQRState(p, view).sessionId = p.sessionId /\ setQRState(p, view).qrImg = p.qrImg
           /\ setQRState(p, view).strayPolls = p.strayPolls
           /\ setQRState(p, view).strayTicks = p.strayTicks
           /\ view \in {"expired", "success"} =>
                ~setQRState(p, view).pollTimer /\ ~setQRState(p, view).rotateTimer
           /\ view \notin {"expired", "success"} =>
                /\ setQRState(p, view).pollTimer = p.pollTimer
                /\ setQRState(p, view).rotateTimer = p.rotateTimer
<1>1. setQRState(p, view) \in Page /\ setQRState(p, view).leaving = p.leaving
    BY SetQRState, PageAssumption
<1>2. CASE view \in {"expired", "success"}
    <2>1. setQRState(p, view) = [[p EXCEPT !.pollTimer = FALSE, !.rotateTimer = FALSE]
                                    EXCEPT !.view = view, !.warned = (view = "expired")]
        BY <1>2 DEF setQRState, clearTimers
    <2> QED BY <1>1, <1>2, <2>1 DEF Page
<1>3. CASE view \notin {"expired", "success"}
    <2>1. setQRState(p, view) = [p EXCEPT !.view = view, !.warned = (view = "expired")]
        BY <1>3 DEF setQRState
    <2> QED BY <1>1, <1>3, <2>1 DEF Page
<1> QED BY <1>2, <1>3

LEMMA CreateFields ==
    ASSUME NEW p \in Page
    PROVE  /\ createSession(p).leaving = p.leaving /\ createSession(p).view = "loading"
           /\ createSession(p).warned = FALSE
           /\ createSession(p).strayPolls = p.strayPolls
           /\ createSession(p).strayTicks = p.strayTicks
           /\ ~createSession(p).pollTimer /\ ~createSession(p).rotateTimer
<1> DEFINE q == [[p EXCEPT !.pollTimer = FALSE, !.rotateTimer = FALSE]
                    EXCEPT !.sessionId = None, !.totalElapsed = 0]
<1>1. createSession(p) = setQRState(q, "loading")
    BY DEF createSession, clearTimers
<1>2. /\ q \in Page /\ q.leaving = p.leaving /\ q.strayPolls = p.strayPolls
      /\ q.strayTicks = p.strayTicks /\ ~q.pollTimer /\ ~q.rotateTimer
    BY DEF Page
<1>3. "loading" \in Views
    BY DEF Views
<1> HIDE DEF q
<1>4. /\ setQRState(q, "loading").leaving = q.leaving
      /\ setQRState(q, "loading").view = "loading" /\ setQRState(q, "loading").warned = FALSE
      /\ setQRState(q, "loading").strayPolls = q.strayPolls
      /\ setQRState(q, "loading").strayTicks = q.strayTicks
      /\ setQRState(q, "loading").pollTimer = q.pollTimer
      /\ setQRState(q, "loading").rotateTimer = q.rotateTimer
    BY <1>2, <1>3, SetFields
<1> QED BY <1>1, <1>2, <1>4

\* A countdown started when no other runs leaves no stray.
LEMMA TickFields ==
    ASSUME NEW p \in Page, ~p.rotateTimer
    PROVE  /\ startTick(p) \in Page /\ startTick(p).leaving = p.leaving
           /\ startTick(p).view = p.view /\ startTick(p).warned = p.warned
           /\ startTick(p).sessionId = p.sessionId /\ startTick(p).qrImg = p.qrImg
           /\ startTick(p).strayPolls = p.strayPolls /\ startTick(p).strayTicks = p.strayTicks
           /\ startTick(p).pollTimer = p.pollTimer /\ startTick(p).rotateTimer = TRUE
<1>1. startTick(p) = [p EXCEPT !.rotateTimer = TRUE]
    BY DEF startTick, Page
<1> QED BY <1>1 DEF Page

LEMMA CountdownFields ==
    ASSUME NEW p \in Page, ~p.rotateTimer
    PROVE  /\ startCountdown(p) \in Page /\ startCountdown(p).leaving = p.leaving
           /\ startCountdown(p).view = p.view /\ startCountdown(p).warned = p.warned
           /\ startCountdown(p).sessionId = p.sessionId /\ startCountdown(p).qrImg = p.qrImg
           /\ startCountdown(p).strayPolls = p.strayPolls
           /\ startCountdown(p).strayTicks = p.strayTicks
           /\ startCountdown(p).pollTimer = p.pollTimer
<1>1. startCountdown(p) = [startTick(p) EXCEPT !.rotateCountdown = QR_ROTATE_SECS]
    BY DEF startCountdown
<1> DEFINE q == startTick(p)
<1>2. /\ q \in Page /\ q.leaving = p.leaving /\ q.view = p.view /\ q.warned = p.warned
      /\ q.sessionId = p.sessionId /\ q.qrImg = p.qrImg /\ q.strayPolls = p.strayPolls
      /\ q.strayTicks = p.strayTicks /\ q.pollTimer = p.pollTimer
    BY TickFields
<1>3. startCountdown(p) = [q EXCEPT !.rotateCountdown = QR_ROTATE_SECS] /\ QR_ROTATE_SECS \in Int
    BY <1>1, PageAssumption
<1> HIDE DEF q
<1> QED BY <1>2, <1>3 DEF Page

LEMMA PollingFields ==
    ASSUME NEW p \in Page, ~p.pollTimer
    PROVE  /\ startPolling(p).leaving = p.leaving
           /\ startPolling(p).view = p.view /\ startPolling(p).warned = p.warned
           /\ startPolling(p).sessionId = p.sessionId /\ startPolling(p).qrImg = p.qrImg
           /\ startPolling(p).strayPolls = p.strayPolls
           /\ startPolling(p).strayTicks = p.strayTicks
           /\ startPolling(p).pollTimer = TRUE
<1>1. startPolling(p) = [p EXCEPT !.pollTimer = TRUE]
    BY DEF startPolling, Page
<1> QED BY <1>1 DEF Page

LEMMA WarnFields ==
    ASSUME NEW p \in Page
    PROVE  /\ warn(p).leaving = p.leaving /\ warn(p).view = p.view
           /\ warn(p).sessionId = p.sessionId /\ warn(p).qrImg = p.qrImg
           /\ warn(p).strayPolls = p.strayPolls /\ warn(p).strayTicks = p.strayTicks
           /\ warn(p).pollTimer = p.pollTimer /\ warn(p).rotateTimer = p.rotateTimer
BY DEF warn, Page

----------------------------------------------------------------------------
(* Slots *)

LEMMA SlotFacts ==
    ASSUME IInv
    PROVE  /\ calls \in [Calls -> Call \cup {NoCall}] /\ NoCall.kind = "none" /\ NoCall.answer = None
           /\ \A c \in Calls : calls[c] # NoCall =>
                /\ calls[c] \in Call /\ calls[c].kind \in {"create", "refresh", "poll", "exchange"}
                /\ calls[c].sid \in Sessions \cup {None}
                /\ calls[c].kind # "exchange" => calls[c].sid \in Sessions
BY DEF IInv, TypeOK, PageTypeOK, CallsNameSessions, NoCall, Call

\* The slots after a fetch that starts while no other is in flight.
LEMMA IssueAlone ==
    ASSUME IInv, Prompt, NEW call, Issue(call)
    PROVE  \E c \in Calls : calls'[c] = call /\ \A d \in Calls : d # c => calls'[d] = NoCall
<1>1. PICK c \in Calls : calls' = [calls EXCEPT ![c] = call]
    BY DEF Issue
<1> QED BY <1>1, SlotFacts DEF Prompt

\* The slots after the only fetch has got an answer, or made way to the next.
LEMMA SlotAlone ==
    ASSUME IInv, OneFetch, NEW c \in Calls, calls[c] # NoCall, NEW call,
           calls' = [calls EXCEPT ![c] = call]
    PROVE  calls'[c] = call /\ \A d \in Calls : d # c => calls'[d] = NoCall
BY SlotFacts DEF OneFetch

LEMMA DoneAlone ==
    ASSUME IInv, OneFetch, NEW c \in Calls, calls[c] # NoCall, Done(c)
    PROVE  \A d \in Calls : calls'[d] = NoCall
BY SlotFacts DEF OneFetch, Done

LEMMA IdleOK ==
    ASSUME \A d \in Calls : calls'[d] = NoCall, ViewOK', LeavingOK'
    PROVE  PageInv'
BY DEF PageInv, OneFetch, FetchOK

LEMMA OneCallOK ==
    ASSUME NEW c \in Calls, \A d \in Calls : d # c => calls'[d] = NoCall,
           FetchOK(c)', ViewOK', LeavingOK'
    PROVE  PageInv'
<1>1. OneFetch'
    BY DEF OneFetch
<1>2. \A d \in Calls : FetchOK(d)'
    BY DEF FetchOK
<1> QED BY <1>1, <1>2 DEF PageInv

LEMMA StaysHere ==
    ASSUME place' = "login", page'.leaving = {}
    PROVE  LeavingOK'
BY DEF LeavingOK, CodeIsTheClients

LEMMA AwaitsHere ==
    ASSUME PageInv, NEW c \in Calls, calls[c] # NoCall
    PROVE  place = "login" /\ page.leaving = {}
BY DEF PageInv, LeavingOK, FetchOK

----------------------------------------------------------------------------
(* Timers, the button, leaving *)

\* The timer that fired is not cleared by mistake, and one that asks for a new image
\* is not started before the answer.
LEMMA TickStep ==
    ASSUME IInv, PageInv, Prompt, Tick
    PROVE  PageInv'
<1> DEFINE counted == [[page EXCEPT !.rotateTimer = FALSE]
                          EXCEPT !.rotateCountdown = @ - 1, !.totalElapsed = @ + 1]
<1>1. /\ page.strayTicks = 0 /\ page.strayPolls = 0 /\ page.rotateTimer /\ place = "login"
      /\ place' = place /\ status' = status
      /\ \/ page' = setQRState(counted, "expired") /\ UNCHANGED calls
         \/ page' = startTick(counted) /\ UNCHANGED calls
         \/ /\ page' = counted
            /\ IF page.sessionId = None THEN UNCHANGED calls
               ELSE Issue(Sent("refresh", page.sessionId))
    <2>1. page.strayTicks = 0 /\ page.strayPolls = 0
        BY DEF PageInv, ViewOK, ClosedIsQuiet
    <2>2. \A stray \in BOOLEAN :
            (IF stray THEN page.strayTicks > 0 ELSE page.rotateTimer) => ~stray /\ page.rotateTimer
        BY <2>1
    <2> QED BY <2>1, <2>2 DEF Tick, serverVars
<1>2. /\ page \in Page /\ Following /\ page.sessionId \in Sessions /\ page.qrImg = page.sessionId
      /\ page.pollTimer /\ page.leaving = {} /\ ~page.warned
    BY <1>1, PageFields DEF PageInv, ViewOK, ClosedIsQuiet, Following, LeavingOK
<1>3. /\ counted \in Page /\ counted.leaving = {} /\ ~counted.rotateTimer
      /\ counted.view = page.view /\ counted.warned = page.warned
      /\ counted.sessionId = page.sessionId /\ counted.qrImg = page.qrImg
      /\ counted.strayPolls = 0 /\ counted.strayTicks = 0 /\ counted.pollTimer
    <2> DEFINE fired == [page EXCEPT !.rotateTimer = FALSE]
    <2>1. /\ fired \in Page /\ fired.leaving = {} /\ ~fired.rotateTimer
          /\ fired.view = page.view /\ fired.warned = page.warned
          /\ fired.sessionId = page.sessionId /\ fired.qrImg = page.qrImg
          /\ fired.strayPolls = 0 /\ fired.strayTicks = 0 /\ fired.pollTimer
        BY <1>1, <1>2 DEF Page
    <2> HIDE DEF fired
    <2>2. counted = [fired EXCEPT !.rotateCountdown = @ - 1, !.totalElapsed = @ + 1]
        BY DEF fired
    <2>3. counted \in Page
        BY <2>1, <2>2, Counting
    <2> QED BY <2>1, <2>2, <2>3 DEF Page
<1> HIDE DEF counted
<1>4. CASE page' = setQRState(counted, "expired") /\ UNCHANGED calls
    <2>1. "expired" \in Views
        BY DEF Views
    <2>2. /\ page'.view = "expired" /\ ~page'.pollTimer /\ ~page'.rotateTimer
          /\ page'.strayPolls = 0 /\ page'.strayTicks = 0 /\ page'.leaving = {}
        BY <1>3, <1>4, <2>1, SetFields
    <2>3. ViewOK'
        BY <2>2 DEF ViewOK, ClosedIsQuiet, Following
    <2> QED BY <1>1, <1>4, <2>2, <2>3, StaysHere, IdleOK DEF Prompt
<1>5. CASE page' = startTick(counted) /\ UNCHANGED calls
    <2>1. /\ page'.view = page.view /\ page'.warned = page.warned
          /\ page'.sessionId = page.sessionId /\ page'.qrImg = page.qrImg /\ page'.pollTimer
          /\ page'.strayPolls = 0 /\ page'.strayTicks = 0 /\ page'.leaving = {}
        BY <1>3, <1>5, TickFields
    <2>2. ViewOK'
        BY <1>1, <1>2, <2>1 DEF ViewOK, ClosedIsQuiet, Following
    <2> QED BY <1>1, <1>5, <2>1, <2>2, StaysHere, IdleOK DEF Prompt
<1>6. CASE page' = counted /\ Issue(Sent("refresh", page.sessionId))
    <2>1. PICK c \in Calls :
            calls'[c] = Sent("refresh", page.sessionId) /\ \A d \in Calls : d # c => calls'[d] = NoCall
        BY <1>6, IssueAlone
    <2>2. /\ calls'[c].kind = "refresh" /\ calls'[c].sid = page.sessionId
          /\ calls'[c].answer = "sent"
        BY <1>2, <2>1, SentIsCall
    <2>3. ViewOK'
        BY <1>1, <1>2, <1>3, <1>6 DEF ViewOK, ClosedIsQuiet, Following
    <2>4. FetchOK(c)'
        BY <1>2, <1>3, <1>6, <2>2 DEF FetchOK, Following
    <2> QED BY <1>1, <1>3, <1>6, <2>1, <2>3, <2>4, StaysHere, OneCallOK
<1> QED BY <1>1, <1>2, <1>4, <1>5, <1>6, SessionAssumption

LEMMA PollFiresStep ==
    ASSUME IInv, PageInv, Prompt, PollFires
    PROVE  PageInv'
<1>1. /\ place = "login" /\ page.sessionId # None /\ Issue(Sent("poll", page.sessionId))
      /\ place' = place /\ page' = page /\ status' = status
    BY DEF PollFires, serverVars
<1>2. Following /\ page.sessionId \in Sessions /\ page.leaving = {} /\ ~page.warned
    BY DEF PollFires, PageInv, ViewOK, ClosedIsQuiet, Following, LeavingOK
<1>3. PICK c \in Calls :
        calls'[c] = Sent("poll", page.sessionId) /\ \A d \in Calls : d # c => calls'[d] = NoCall
    BY <1>1, IssueAlone
<1>4. calls'[c].kind = "poll" /\ calls'[c].sid = page.sessionId /\ calls'[c].answer = "sent"
    BY <1>2, <1>3, SentIsCall
<1>5. FetchOK(c)'
    BY <1>1, <1>2, <1>4 DEF FetchOK, Following
<1>6. ViewOK'
    BY <1>1 DEF PageInv, ViewOK, ClosedIsQuiet, Following
<1> QED BY <1>1, <1>2, <1>3, <1>5, <1>6, StaysHere, OneCallOK

LEMMA ClickStep ==
    ASSUME IInv, PageInv, Prompt, NEW s \in Sessions, Click(s)
    PROVE  PageInv'
<1>1. /\ place = "login" /\ page.view = "expired" /\ Issue(Sent("create", s))
      /\ page' = createSession(page) /\ place' = place
    BY DEF Click
<1>2. page.leaving = {} /\ page.strayPolls = 0 /\ page.strayTicks = 0
    BY <1>1 DEF PageInv, ViewOK, ClosedIsQuiet, LeavingOK
<1>3. /\ page'.leaving = {} /\ page'.view = "loading" /\ page'.warned = FALSE
      /\ page'.strayPolls = 0 /\ page'.strayTicks = 0
      /\ ~page'.pollTimer /\ ~page'.rotateTimer
    BY <1>1, <1>2, CreateFields, PageFields
<1>4. PICK c \in Calls :
        calls'[c] = Sent("create", s) /\ \A d \in Calls : d # c => calls'[d] = NoCall
    BY <1>1, IssueAlone
<1>5. calls'[c].kind = "create" /\ calls'[c].sid = s /\ calls'[c].answer = "sent"
    BY <1>4, SentIsCall
<1>6. FetchOK(c)'
    BY <1>3, <1>5 DEF FetchOK
<1>7. ViewOK'
    BY <1>3 DEF ViewOK, ClosedIsQuiet, Following
<1> QED BY <1>1, <1>3, <1>4, <1>6, <1>7, StaysHere, OneCallOK

\* The tab leaves for the place the page decided on, and stays there.
LEMMA NavigateStep ==
    ASSUME IInv, PageInv, Navigate
    PROVE  PageInv'
<1>1. /\ place' \in page.leaving /\ page' = page /\ calls' = calls
      /\ status' = status /\ place = "login"
    BY DEF Navigate, serverVars
<1>2. CodeIsTheClients'
    BY <1>1, SessionAssumption DEF PageInv, LeavingOK, CodeIsTheClients
<1>3. LeavingOK'
    BY <1>1, <1>2 DEF PageInv, LeavingOK
<1>4. OneFetch' /\ ViewOK'
    BY <1>1 DEF PageInv, OneFetch, ViewOK, ClosedIsQuiet, Following
<1>5. \A c \in Calls : FetchOK(c)'
    BY <1>1 DEF PageInv, FetchOK, Following
<1> QED BY <1>3, <1>4, <1>5 DEF PageInv

----------------------------------------------------------------------------
(* Answers that the page gets to see *)

\* The page reads the answer it waits for, in the state in which it asked.
LEMMA ReadsAnswer ==
    ASSUME IInv, PageInv, NEW c \in Calls, Answered(c)
    PROVE  /\ calls[c] # NoCall /\ FetchOK(c) /\ calls[c].sid \in Sessions \cup {None}
           /\ place = "login" /\ place' = "login" /\ page.leaving = {}
           /\ page.strayPolls = 0 /\ page.strayTicks = 0
           /\ status' = status
           /\ \/ \A d \in Calls : calls'[d] = NoCall
              \/ PolledApproved(c)
<1>1. /\ calls[c].kind # "none" /\ place = "login" /\ place' = "login"
      /\ status' = status
    BY DEF Answered, Created, Refreshed, PolledNews, PolledRedirect, PolledApproved, Exchanged,
           Settles, serverVars
<1>2. calls[c] # NoCall
    BY <1>1, SlotFacts
<1>3. Done(c) \/ PolledApproved(c)
    BY DEF Answered, Created, Refreshed, PolledNews, PolledRedirect, Exchanged
<1>4. (\A d \in Calls : calls'[d] = NoCall) \/ PolledApproved(c)
    BY <1>2, <1>3, DoneAlone DEF PageInv
<1> QED BY <1>1, <1>2, <1>4, SlotFacts, AwaitsHere DEF PageInv, ViewOK, ClosedIsQuiet

LEMMA CreatedStep ==
    ASSUME IInv, PageInv, NEW c \in Calls, Created(c)
    PROVE  PageInv'
<1>1. /\ FetchOK(c) /\ calls[c] # NoCall /\ calls[c].kind = "create" /\ calls[c].sid \in Sessions
      /\ place' = "login" /\ page.leaving = {} /\ page.strayPolls = 0 /\ page.strayTicks = 0
      /\ (\A d \in Calls : calls'[d] = NoCall)
    BY ReadsAnswer, SlotFacts DEF Answered, Created, PolledApproved, Settles
<1>2. page.view = "loading" /\ ~page.pollTimer /\ ~page.rotateTimer
    BY <1>1 DEF FetchOK, PageInv, ViewOK, ClosedIsQuiet
<1>3. CASE page' = warn(page) /\ calls[c].answer # "created"
    <2>1. /\ page'.view = page.view /\ page'.leaving = {} /\ ~page'.pollTimer /\ ~page'.rotateTimer
          /\ page'.strayPolls = 0 /\ page'.strayTicks = 0
        BY <1>1, <1>2, <1>3, PageFields, WarnFields
    <2>2. ViewOK'
        BY <1>1, <1>2, <1>3, <2>1 DEF FetchOK, ViewOK, ClosedIsQuiet, Following
    <2> QED BY <1>1, <2>1, <2>2, StaysHere, IdleOK
<1>4. CASE calls[c].answer = "created"
    <2> DEFINE opened == [page EXCEPT !.sessionId = calls[c].sid, !.qrImg = calls[c].sid]
               active == setQRState(opened, "active")
               counting == startCountdown(active)
    <2>1. page' = startPolling(counting)
        BY <1>4 DEF Created
    <2>2. /\ opened \in Page /\ opened.leaving = {} /\ ~opened.pollTimer /\ ~opened.rotateTimer
          /\ opened.strayPolls = 0 /\ opened.strayTicks = 0
          /\ opened.sessionId = calls[c].sid /\ opened.qrImg = calls[c].sid
        BY <1>1, <1>2, PageFields DEF Page
    <2> HIDE DEF opened
    <2>3. "active" \in Views
        BY DEF Views
    <2>4. /\ active \in Page /\ active.leaving = {} /\ ~active.pollTimer /\ ~active.rotateTimer
          /\ active.strayPolls = 0 /\ active.strayTicks = 0 /\ ~active.warned
          /\ active.sessionId = calls[c].sid /\ active.qrImg = calls[c].sid
          /\ active.view = "active"
        BY <2>2, <2>3, SetFields
    <2> HIDE DEF active
    <2>5. /\ counting \in Page /\ counting.leaving = {} /\ ~counting.pollTimer
          /\ counting.strayPolls = 0 /\ counting.strayTicks = 0 /\ ~counting.warned
          /\ counting.sessionId = calls[c].sid /\ counting.qrImg = calls[c].sid
          /\ counting.view = "active"
        BY <2>4, CountdownFields
    <2> HIDE DEF counting
    <2>6. /\ page'.leaving = {} /\ page'.pollTimer
          /\ page'.strayPolls = 0 /\ page'.strayTicks = 0 /\ ~page'.warned
          /\ page'.sessionId = calls[c].sid /\ page'.qrImg = calls[c].sid
          /\ page'.view = "active"
        BY <2>1, <2>5, PollingFields
    <2>7. ViewOK'
        BY <1>1, <2>6 DEF ViewOK, ClosedIsQuiet, Following
    <2> QED BY <1>1, <2>6, <2>7, StaysHere, IdleOK
<1> QED BY <1>3, <1>4 DEF Created

\* The image that arrives is of the session the page follows, and no countdown runs yet.
LEMMA RefreshedStep ==
    ASSUME IInv, PageInv, NEW c \in Calls, Refreshed(c)
    PROVE  PageInv'
<1>1. /\ FetchOK(c) /\ calls[c] # NoCall /\ calls[c].kind = "refresh" /\ calls[c].sid \in Sessions
      /\ place' = "login" /\ page.leaving = {} /\ page.strayPolls = 0 /\ page.strayTicks = 0
      /\ (\A d \in Calls : calls'[d] = NoCall)
    BY ReadsAnswer, SlotFacts DEF Answered, Refreshed, PolledApproved, Settles
<1>2. /\ Following /\ calls[c].sid = page.sessionId /\ ~page.rotateTimer /\ page.pollTimer
      /\ ~page.warned /\ page \in Page
    BY <1>1, PageFields DEF FetchOK, PageInv, ViewOK
<1>3. CASE page' = startCountdown([page EXCEPT !.qrImg = calls[c].sid])
    <2> DEFINE shown == [page EXCEPT !.qrImg = calls[c].sid]
    <2>1. /\ shown \in Page /\ shown.leaving = {} /\ shown.pollTimer /\ ~shown.rotateTimer
          /\ shown.strayPolls = 0 /\ shown.strayTicks = 0 /\ shown.view = page.view
          /\ shown.sessionId = page.sessionId /\ shown.qrImg = page.sessionId
          /\ shown.warned = page.warned
        BY <1>1, <1>2 DEF Page
    <2>2. page' = startCountdown(shown)
        BY <1>3
    <2> HIDE DEF shown
    <2>3. /\ page'.leaving = {} /\ page'.pollTimer
          /\ page'.strayPolls = 0 /\ page'.strayTicks = 0 /\ page'.view = page.view
          /\ page'.sessionId = page.sessionId /\ page'.qrImg = page.sessionId
          /\ page'.warned = page.warned
        BY <2>1, <2>2, CountdownFields
    <2>4. ViewOK'
        BY <1>1, <1>2, <2>3 DEF ViewOK, ClosedIsQuiet, Following
    <2> QED BY <1>1, <2>3, <2>4, StaysHere, IdleOK
<1>4. CASE page' = setQRState(page, "expired")
    <2>1. "expired" \in Views
        BY DEF Views
    <2>2. /\ page'.view = "expired" /\ ~page'.pollTimer /\ ~page'.rotateTimer
          /\ page'.strayPolls = 0 /\ page'.strayTicks = 0 /\ page'.leaving = {}
        <3> DEFINE q == setQRState(page, "expired")
        <3>1. /\ q.view = "expired" /\ q.leaving = page.leaving
              /\ q.strayPolls = page.strayPolls /\ q.strayTicks = page.strayTicks
              /\ ~q.pollTimer /\ ~q.rotateTimer
            BY <1>2, <2>1, SetFields
        <3>2. page' = q
            BY <1>4
        <3> HIDE DEF q
        <3> QED BY <1>1, <1>2, <3>1, <3>2
    <2>3. ViewOK'
        BY <2>2 DEF ViewOK, ClosedIsQuiet, Following
    <2> QED BY <1>1, <2>2, <2>3, StaysHere, IdleOK
<1> QED BY <1>3, <1>4 DEF Refreshed

LEMMA PolledNewsStep ==
    ASSUME IInv, PageInv, NEW c \in Calls, PolledNews(c)
    PROVE  PageInv'
<1>1. /\ FetchOK(c) /\ calls[c] # NoCall /\ calls[c].kind = "poll"
      /\ place' = "login" /\ page.leaving = {} /\ page.strayPolls = 0 /\ page.strayTicks = 0
      /\ (\A d \in Calls : calls'[d] = NoCall)
    BY ReadsAnswer DEF Answered, PolledNews, PolledApproved, Settles
<1>2. /\ Following /\ page.sessionId \in Sessions /\ page.qrImg = page.sessionId
      /\ page.pollTimer /\ ~page.warned /\ page \in Page
    BY <1>1, PageFields DEF FetchOK, PageInv, ViewOK
<1>3. CASE page' = page
    <2>1. ViewOK'
        BY <1>1, <1>3 DEF PageInv, ViewOK, ClosedIsQuiet, Following
    <2> QED BY <1>1, <1>3, <2>1, StaysHere, IdleOK
<1>4. ASSUME NEW view \in {"scanned", "expired"}, page' = setQRState(page, view)
      PROVE  PageInv'
    <2>1. view \in Views
        BY <1>4 DEF Views
    <2>2. /\ page'.view = view /\ page'.warned = (view = "expired") /\ page'.leaving = {}
          /\ page'.strayPolls = 0 /\ page'.strayTicks = 0
          /\ page'.sessionId = page.sessionId /\ page'.qrImg = page.sessionId
        <3> DEFINE q == setQRState(page, view)
        <3>1. /\ q.view = view /\ q.warned = (view = "expired") /\ q.leaving = page.leaving
              /\ q.strayPolls = page.strayPolls /\ q.strayTicks = page.strayTicks
              /\ q.sessionId = page.sessionId /\ q.qrImg = page.qrImg
            BY <1>2, <2>1, SetFields
        <3>2. page' = q
            BY <1>4
        <3> HIDE DEF q
        <3> QED BY <1>1, <1>2, <3>1, <3>2
    <2>3. view = "expired" => ~page'.pollTimer /\ ~page'.rotateTimer
        BY <1>2, <1>4, <2>1, SetFields
    <2>4. view = "scanned" => page'.pollTimer
        <3>1. SUFFICES ASSUME view = "scanned" PROVE page'.pollTimer
            OBVIOUS
        <3>2. setQRState(page, view).pollTimer = page.pollTimer
            BY <1>2, <2>1, <3>1, SetFields
        <3> QED BY <1>2, <1>4, <3>2
    <2>5. ViewOK'
        BY <1>2, <2>2, <2>3, <2>4 DEF ViewOK, ClosedIsQuiet, Following
    <2> QED BY <1>1, <2>2, <2>5, StaysHere, IdleOK
<1> QED BY <1>3, <1>4 DEF PolledNews

\* The code the tab brings to the client is still good.
LEMMA PolledRedirectStep ==
    ASSUME IInv, PageInv, NEW c \in Calls, PolledRedirect(c)
    PROVE  PageInv'
<1>1. /\ FetchOK(c) /\ calls[c] # NoCall /\ calls[c].kind = "poll" /\ calls[c].answer = "redirect"
      /\ calls[c].sid \in Sessions /\ status' = status
      /\ place' = "login" /\ page.leaving = {} /\ page.strayPolls = 0 /\ page.strayTicks = 0
      /\ (\A d \in Calls : calls'[d] = NoCall) /\ page \in Page
    BY ReadsAnswer, SlotFacts, PageFields DEF Answered, PolledRedirect, PolledApproved, Settles
<1> DEFINE q == setQRState(page, "success")
<1>2. "success" \in Views
    BY DEF Views
<1>3. /\ q \in Page /\ q.view = "success" /\ ~q.warned /\ q.leaving = {}
      /\ q.strayPolls = 0 /\ q.strayTicks = 0 /\ ~q.pollTimer /\ ~q.rotateTimer
    BY <1>1, <1>2, SetFields
<1>4. page' = [q EXCEPT !.leaving = @ \cup {calls[c].sid}]
    BY DEF PolledRedirect
<1> HIDE DEF q
<1>5. /\ page'.view = "success" /\ ~page'.warned /\ page'.leaving = {calls[c].sid}
      /\ page'.strayPolls = 0 /\ page'.strayTicks = 0 /\ ~page'.pollTimer /\ ~page'.rotateTimer
    BY <1>3, <1>4 DEF Page
<1>6. ViewOK'
    BY <1>5 DEF ViewOK, ClosedIsQuiet, Following
<1>7. status[calls[c].sid] = "approved" /\ calls[c].sid # "home"
    BY <1>1, SessionAssumption DEF FetchOK
<1>8. LeavingOK'
    BY <1>1, <1>5, <1>7 DEF LeavingOK, CodeIsTheClients
<1> QED BY <1>1, <1>6, <1>8, IdleOK

\* The exchange is for the session whose approval the page has just read.
LEMMA PolledApprovedStep ==
    ASSUME IInv, PageInv, NEW c \in Calls, PolledApproved(c)
    PROVE  PageInv'
<1>1. /\ FetchOK(c) /\ calls[c] # NoCall /\ calls[c].kind = "poll" /\ calls[c].answer = "approved"
      /\ calls[c].sid \in Sessions /\ status' = status
      /\ place' = "login" /\ page.leaving = {} /\ page.strayPolls = 0 /\ page.strayTicks = 0
      /\ page \in Page /\ page' = setQRState(page, "success")
      /\ calls' = [calls EXCEPT ![c] = Sent("exchange", page.sessionId)]
    BY ReadsAnswer, SlotFacts, PageFields DEF Answered, PolledApproved, Settles
<1>2. "success" \in Views
    BY DEF Views
<1>3. /\ page'.view = "success" /\ ~page'.warned /\ page'.leaving = {}
      /\ page'.strayPolls = 0 /\ page'.strayTicks = 0 /\ ~page'.pollTimer /\ ~page'.rotateTimer
    BY <1>1, <1>2, SetFields
<1>4. page.sessionId \in Sessions /\ status[page.sessionId] = "approved"
    BY <1>1 DEF FetchOK
<1>5. calls'[c] = Sent("exchange", page.sessionId) /\ \A d \in Calls : d # c => calls'[d] = NoCall
    BY <1>1, SlotAlone DEF PageInv
<1>6. /\ calls'[c].kind = "exchange" /\ calls'[c].sid = page.sessionId
      /\ calls'[c].answer = "sent"
    BY <1>4, <1>5, SentIsCall
<1>7. FetchOK(c)'
    BY <1>1, <1>3, <1>4, <1>6 DEF FetchOK
<1>8. ViewOK'
    BY <1>3 DEF ViewOK, ClosedIsQuiet, Following
<1> QED BY <1>1, <1>3, <1>5, <1>7, <1>8, StaysHere, OneCallOK

LEMMA ExchangedStep ==
    ASSUME IInv, PageInv, NEW c \in Calls, Exchanged(c)
    PROVE  PageInv'
<1>1. /\ FetchOK(c) /\ calls[c] # NoCall /\ calls[c].kind = "exchange"
      /\ place' = "login" /\ page.leaving = {} /\ page.strayPolls = 0 /\ page.strayTicks = 0
      /\ (\A d \in Calls : calls'[d] = NoCall) /\ page \in Page
    BY ReadsAnswer, PageFields DEF Answered, Exchanged, PolledApproved, Settles
<1>2. /\ page.view = "success" /\ ~page.pollTimer /\ ~page.rotateTimer
      /\ ~page.warned
      /\ calls[c].answer \in {"token", "failed"}
    BY <1>1 DEF FetchOK, PageInv, ViewOK, ClosedIsQuiet, Exchanged, Settles
<1>3. CASE page' = [page EXCEPT !.leaving = @ \cup {"home"}]
    <2>1. /\ page'.view = "success" /\ page'.warned = page.warned /\ page'.leaving = {"home"}
          /\ page'.strayPolls = 0 /\ page'.strayTicks = 0 /\ ~page'.pollTimer /\ ~page'.rotateTimer
        BY <1>1, <1>2, <1>3 DEF Page
    <2>2. ViewOK'
        BY <1>1, <1>2, <2>1 DEF ViewOK, ClosedIsQuiet, Following
    <2>3. LeavingOK'
        BY <1>1, <1>2, <2>1, SessionAssumption DEF LeavingOK, CodeIsTheClients
    <2> QED BY <1>1, <2>2, <2>3, IdleOK
<1>4. CASE page' = warn(page) /\ calls[c].answer = "failed"
    <2>1. /\ page'.view = "success" /\ page'.leaving = {}
          /\ page'.strayPolls = 0 /\ page'.strayTicks = 0 /\ ~page'.pollTimer /\ ~page'.rotateTimer
        BY <1>1, <1>2, <1>4, WarnFields
    <2>2. ViewOK'
        BY <1>1, <1>2, <1>4, <2>1 DEF ViewOK, ClosedIsQuiet, Following
    <2> QED BY <1>1, <2>1, <2>2, StaysHere, IdleOK
<1> QED BY <1>2, <1>3, <1>4 DEF Exchanged

LEMMA AnsweredStep ==
    ASSUME IInv, PageInv, NEW c \in Calls, Answered(c)
    PROVE  PageInv'
BY CreatedStep, RefreshedStep, PolledNewsStep, PolledRedirectStep, PolledApprovedStep,
   ExchangedStep DEF Answered

----------------------------------------------------------------------------
(* Fetches on their way *)

\* What an endpoint answers is what the row says when it answers.
LEMMA AnswerIsTrue ==
    ASSUME IInv, NEW c \in Calls, NEW answer \in Answers, FetchOK(c), calls[c] # NoCall,
           calls[c].answer = "sent",
           \/ calls[c].kind = "create" /\ create_session(calls[c].sid, answer)
           \/ calls[c].kind = "refresh" /\ refresh_qr(calls[c].sid, answer)
           \/ calls[c].kind = "poll" /\ get_status(calls[c].sid, answer)
           \/ calls[c].kind = "exchange" /\ exchange_token(calls[c].sid, answer)
    PROVE  /\ answer \notin {"sent", "failed"}
           /\ calls[c].kind = "poll" /\ answer \in {"approved", "redirect"} =>
                status'[calls[c].sid] = "approved"
           /\ calls[c].kind = "exchange" => answer = "token"
<1>1. answer \notin {"sent", "failed"}
    BY DEF Answers, Status
<1>2. ASSUME calls[c].kind = "poll", answer \in {"approved", "redirect"}
      PROVE  status'[calls[c].sid] = "approved"
    <2>1. get_status(calls[c].sid, answer)
        BY <1>2
    <2>2. status[calls[c].sid] \in Status
        BY <1>2, SlotFacts, Facts DEF ServerTypeOK
    <2>3. status' = status /\ (status[calls[c].sid] = "approved" \/ answer = status[calls[c].sid])
        BY <2>1 DEF get_status
    <2> QED BY <1>2, <2>2, <2>3 DEF Status
<1>3. ASSUME calls[c].kind = "exchange"
      PROVE  answer = "token"
    BY <1>3 DEF exchange_token, FetchOK
<1> QED BY <1>1, <1>2, <1>3

LEMMA ServeStep ==
    ASSUME IInv, PageInv, NEW c \in Calls, Serve(c)
    PROVE  PageInv'
<1>1. PICK answer \in Answers :
        /\ \/ calls[c].kind = "create" /\ create_session(calls[c].sid, answer)
           \/ calls[c].kind = "refresh" /\ refresh_qr(calls[c].sid, answer)
           \/ calls[c].kind = "poll" /\ get_status(calls[c].sid, answer)
           \/ calls[c].kind = "exchange" /\ exchange_token(calls[c].sid, answer)
        /\ calls' = [calls EXCEPT ![c].answer = answer]
    BY DEF Serve
<1>2. calls[c] # NoCall /\ calls[c].answer = "sent" /\ FetchOK(c)
    BY <1>1, SlotFacts DEF Serve, PageInv
<1>3. /\ answer \notin {"sent", "failed"}
      /\ calls[c].kind = "poll" /\ answer \in {"approved", "redirect"} =>
           status'[calls[c].sid] = "approved"
      /\ calls[c].kind = "exchange" => answer = "token"
    BY <1>1, <1>2, AnswerIsTrue
<1> DEFINE served == [calls[c] EXCEPT !.answer = answer]
<1>4. served.kind = calls[c].kind /\ served.sid = calls[c].sid /\ served.answer = answer
    BY <1>2, SlotFacts DEF Call
<1>5. calls' = [calls EXCEPT ![c] = served]
    BY <1>1
<1> HIDE DEF served
<1>6. calls'[c] = served /\ \A d \in Calls : d # c => calls'[d] = NoCall
    BY <1>2, <1>5, SlotAlone DEF PageInv
<1>7. place' = "login" /\ page' = page /\ page.leaving = {}
    BY <1>2, AwaitsHere DEF Serve
<1>8. FetchOK(c)'
    BY <1>2, <1>3, <1>4, <1>6, <1>7 DEF FetchOK, Following
<1>9. ViewOK'
    BY <1>7 DEF PageInv, ViewOK, ClosedIsQuiet, Following
<1> QED BY <1>6, <1>7, <1>8, <1>9, StaysHere, OneCallOK

LEMMA LoseStep ==
    ASSUME IInv, PageInv, NEW c \in Calls, Lose(c)
    PROVE  PageInv'
<1>1. calls[c] # NoCall /\ FetchOK(c) /\ status' = status
    BY DEF Lose, PageInv, serverVars
<1> DEFINE lost == [calls[c] EXCEPT !.answer = "failed"]
<1>2. lost.kind = calls[c].kind /\ lost.sid = calls[c].sid /\ lost.answer = "failed"
    BY <1>1, SlotFacts DEF Call
<1>3. calls' = [calls EXCEPT ![c] = lost]
    BY DEF Lose
<1> HIDE DEF lost
<1>4. calls'[c] = lost /\ \A d \in Calls : d # c => calls'[d] = NoCall
    BY <1>1, <1>3, SlotAlone DEF PageInv
<1>5. place' = "login" /\ page' = page /\ page.leaving = {}
    BY <1>1, AwaitsHere DEF Lose
<1>6. FetchOK(c)'
    BY <1>1, <1>2, <1>4, <1>5 DEF FetchOK, Following
<1>7. ViewOK'
    BY <1>5 DEF PageInv, ViewOK, ClosedIsQuiet, Following
<1> QED BY <1>4, <1>5, <1>6, <1>7, StaysHere, OneCallOK

----------------------------------------------------------------------------
(* Steps that leave the page alone *)

\* Nothing but the page's own exchange or its client spends an approval.
LEMMA PageWaits ==
    ASSUME IInv, PageInv, UNCHANGED <<place, page, calls>>,
           \A s \in Sessions : status[s] \in {"approved", "consumed"} => status'[s] = status[s]
    PROVE  PageInv'
<1>1. OneFetch' /\ ViewOK'
    BY DEF PageInv, OneFetch, ViewOK, ClosedIsQuiet, Following
<1>2. LeavingOK'
    BY DEF PageInv, LeavingOK, CodeIsTheClients
<1>3. \A c \in Calls : FetchOK(c)'
    BY SlotFacts DEF PageInv, FetchOK, Following
<1> QED BY <1>1, <1>2, <1>3 DEF PageInv

LEMMA ClientRedeemsStep ==
    ASSUME IInv, PageInv, NEW s \in Sessions, ClientRedeems(s)
    PROVE  PageInv'
<1>1. /\ place = s /\ place' = s /\ page' = page /\ calls' = calls
      /\ status[s] = "approved" /\ Becomes(s, "consumed") /\ s # "login"
    BY SessionAssumption DEF ClientRedeems, token, pageVars
<1>2. \A t \in Sessions : status'[t] = IF t = s THEN "consumed" ELSE status[t]
    BY <1>1, Facts, Moves DEF Status
<1>3. page.leaving # {} /\ \A c \in Calls : calls[c] = NoCall
    BY <1>1 DEF PageInv, LeavingOK, FetchOK
<1>4. CodeIsTheClients'
    BY <1>1, <1>2 DEF PageInv, LeavingOK, CodeIsTheClients
<1>5. LeavingOK'
    BY <1>1, <1>4 DEF PageInv, LeavingOK
<1>6. ViewOK'
    BY <1>1 DEF PageInv, ViewOK, ClosedIsQuiet, Following
<1> QED BY <1>1, <1>3, <1>5, <1>6, IdleOK

LEMMA ExpiresStep ==
    ASSUME IInv, PageInv, NEW s \in Sessions, Expires(s)
    PROVE  PageInv'
<1>1. /\ UNCHANGED <<place, page, calls>>
      /\ status[s] = "pending" /\ Becomes(s, "expired")
    BY DEF Expires, Lapse, pageVars
<1>2. \A t \in Sessions : status'[t] = IF t = s THEN "expired" ELSE status[t]
    BY <1>1, Facts, Moves DEF Status
<1> QED BY <1>1, <1>2, PageFields, PageWaits

----------------------------------------------------------------------------
(* The phones *)

\* A phone's request leaves the page alone and takes no approval back.
LEMMA PhoneRequestStep ==
    ASSUME IInv, PageInv, UNCHANGED <<place, page, calls>>, NEW s \in Sessions, NEW op, NEW answer,
           UNCHANGED serverVars \/ PhoneServed(s, op, answer)
    PROVE  PageInv'
<1>1. status \in [Sessions -> Status]
    BY Facts DEF ServerTypeOK
<1>2. \/ status' = status
      \/ status[s] = "pending" /\ Becomes(s, "scanned")
      \/ status[s] = "scanned" /\ Becomes(s, "approved")
      \/ status[s] \in {"pending", "scanned"} /\ Becomes(s, "expired")
    BY DEF PhoneServed, scan, approve, deny, Refuses, serverVars
<1>3. \A t \in Sessions : status[t] \in {"approved", "consumed"} => status'[t] = status[t]
    BY <1>1, <1>2 DEF Becomes
<1> QED BY <1>3, PageWaits

LEMMA PhoneStep ==
    ASSUME IInv, PageInv, NEW s \in Sessions,
           Open(s) \/ Taps(s) \/ PhoneAnswered(s) \/ PhoneLoses(s)
    PROVE  PageInv'
<1>1. UNCHANGED <<place, page, calls>>
    BY DEF Open, Taps, TapApprove, TapDeny, PhoneAnswered, PhoneLoses, pageVars
<1>2. PICK op, answer : UNCHANGED serverVars \/ PhoneServed(s, op, answer)
    BY DEF Open, Taps, TapApprove, TapDeny, PhoneAnswered, PhoneLoses
<1> QED BY <1>1, <1>2, PhoneRequestStep

----------------------------------------------------------------------------
(* The invariant *)

LEMMA InitPInv ==
    ASSUME Init
    PROVE  PInv
<1>1. IInv
    BY InitIInv, PageAssumption, SessionAssumption
<1>2. /\ place = "login" /\ page.leaving = {} /\ page.view = "loading" /\ ~page.warned
      /\ page.strayPolls = 0 /\ page.strayTicks = 0 /\ ~page.pollTimer /\ ~page.rotateTimer
    BY DEF Init, PageInit
<1>3. PICK c \in Calls, s \in Sessions :
        calls = [d \in Calls |-> IF d = c THEN Sent("create", s) ELSE NoCall]
    BY DEF Init, PageInit
<1>4. Sent("create", s).kind = "create" /\ Sent("create", s).answer = "sent"
    BY SentIsCall
<1>5. calls[c] = Sent("create", s) /\ \A d \in Calls : d # c => calls[d] = NoCall
    BY <1>3
<1>6. OneFetch /\ \A d \in Calls : FetchOK(d)
    BY <1>2, <1>4, <1>5 DEF OneFetch, FetchOK
<1>7. ViewOK /\ LeavingOK
    BY <1>2 DEF ViewOK, ClosedIsQuiet, Following, LeavingOK, CodeIsTheClients
<1> QED BY <1>1, <1>6, <1>7 DEF PInv, PageInv

LEMMA NextPInv ==
    ASSUME PInv, [PromptNext]_vars
    PROVE  PInv'
<1>1. IInv /\ PageInv
    BY DEF PInv
<1>2. IInv'
    <2>1. PromptNext => Next
        BY DEF PromptNext, Next
    <2> QED BY <1>1, <2>1, NextIInv, PageAssumption, SessionAssumption
<1> SUFFICES PageInv'
    BY <1>2 DEF PInv
<1>3. CASE Prompt /\ TimerFires
    BY <1>1, <1>3, TickStep, PollFiresStep DEF TimerFires
<1>4. CASE Prompt /\ User
    BY <1>1, <1>4, ClickStep DEF User
<1>5. CASE Navigate /\ UNCHANGED phone
    BY <1>1, <1>5, NavigateStep
<1>6. ASSUME NEW c \in Calls, Network(c)
      PROVE  PageInv'
    BY <1>1, <1>6, ServeStep, LoseStep, AnsweredStep DEF Network
<1>7. ASSUME NEW s \in Sessions, Open(s) \/ Taps(s) \/ PhoneAnswered(s) \/ PhoneLoses(s)
      PROVE  PageInv'
    BY <1>1, <1>7, PhoneStep
<1>8. ASSUME NEW s \in Sessions, ClientRedeems(s) \/ Expires(s)
      PROVE  PageInv'
    BY <1>1, <1>8, ClientRedeemsStep, ExpiresStep
<1>9. CASE UNCHANGED vars
    <2>1. UNCHANGED <<place, page, calls>> /\ status' = status
        BY <1>9 DEF vars, pageVars, serverVars
    <2> QED BY <1>1, <2>1, PageWaits
<1> QED BY <1>3, <1>4, <1>5, <1>6, <1>7, <1>8, <1>9 DEF PromptNext, Elsewhere

LEMMA PromptInvariance == PromptSpec => []PInv
<1>1. Init => PInv
    BY InitPInv
<1>2. PInv /\ [PromptNext]_vars => PInv'
    BY NextPInv
<1> QED BY <1>1, <1>2, PTL DEF PromptSpec

----------------------------------------------------------------------------
(* Theorems *)

\* Answers in time change nothing about the types, or about the way to /home.
THEOREM PromptTypes == PromptSpec => [](TypeOK /\ HomeIsApproved)
<1>1. PInv => TypeOK /\ HomeIsApproved
    BY DEF PInv, IInv, HomeIsSpent, Spent, HomeIsApproved
<1> QED BY <1>1, PromptInvariance, PTL

\* The image on the screen is that of the session the page polls: no refresh that
\* was asked for an earlier session replaces it.
THEOREM CodeIsFollowed == PromptSpec => []ShownCodeIsFollowed
<1>1. PInv => ShownCodeIsFollowed
    <2>1. SUFFICES ASSUME PInv, Following PROVE ShownCodeIsFollowed
        BY DEF ShownCodeIsFollowed, Following
    <2>2. page.sessionId \in Sessions /\ page.qrImg = page.sessionId /\ page.pollTimer
        BY <2>1 DEF PInv, PageInv, ViewOK
    <2> QED BY <2>2, SessionAssumption DEF ShownCodeIsFollowed
<1> QED BY <1>1, PromptInvariance, PTL

\* The variables of the script refer to every timer that runs, and clearTimers
\* leaves none on a page that is closed.
THEOREM ClosedPageIsQuiet == PromptSpec => []ClosedIsQuiet
<1>1. PInv => ClosedIsQuiet
    BY DEF PInv, PageInv, ViewOK
<1> QED BY <1>1, PromptInvariance, PTL

\* An exchange on its way to the server finds the approval the poll reported:
\* nothing spends it in between.
THEOREM ExchangeFindsApproval == PromptSpec => []ExchangeAfterApproval
<1>1. PInv => ExchangeAfterApproval
    BY SlotFacts DEF PInv, PageInv, FetchOK, ExchangeAfterApproval
<1> QED BY <1>1, PromptInvariance, PTL

\* The tab that brings a code to the OAuth client does not spend it for a cookie.
THEOREM CodeReachesClient == PromptSpec => []CodeIsTheClients
<1>1. PInv => CodeIsTheClients
    BY DEF PInv, PageInv, LeavingOK
<1> QED BY <1>1, PromptInvariance, PTL

\* A page that has warned asks nothing, times nothing and goes nowhere, until the
\* button is pressed.
THEOREM WarningIsFinal == PromptSpec => []WarnedIsOver
<1>1. PInv => WarnedIsOver
    <2>1. SUFFICES ASSUME PInv, page.warned PROVE WarnedIsOver
        BY DEF WarnedIsOver
    <2>2. page.leaving = {} /\ place = "login"
        BY <2>1 DEF PInv, PageInv, LeavingOK
    <2>3. ~page.pollTimer /\ ~page.rotateTimer
        BY <2>1 DEF PInv, PageInv, ViewOK, ClosedIsQuiet, Following
    <2>4. Prompt
        BY <2>1 DEF PInv, PageInv, FetchOK, Prompt
    <2> QED BY <2>2, <2>3, <2>4 DEF WarnedIsOver
<1> QED BY <1>1, PromptInvariance, PTL
=============================================================================
