------------------------------- MODULE SignIn -------------------------------
(***************************************************************************)
(* A sign-in as people see it: the login page, the scan page on a phone    *)
(* (frontend/scan.js), the server between them, and the OAuth client that  *)
(* the login page may be redirected to.                                    *)
(***************************************************************************)
EXTENDS LoginPage

VARIABLE phone      \* the scan page opened for each session

vars == <<serverVars, pageVars, phone>>

\* What the scan page shows, whether its buttons are disabled, and its requests
\* in flight.
Phone == [view : {"away", "loading", "approve", "success", "denied", "error"},
          disabled : BOOLEAN, asked : SUBSET {"scan", "approve", "deny"}]

Init ==
    /\ ServerInit
    /\ PageInit
    /\ phone = [s \in Sessions |-> [view |-> "away", disabled |-> FALSE, asked |-> {}]]

----------------------------------------------------------------------------
(* The scan page *)

\* The camera reads the image on the screen; the scan page opens and scans.
Open(s) ==
    /\ place = "login" /\ page.view \in {"active", "scanned"} /\ page.qrImg = s
    /\ phone[s].view = "away"
    /\ phone' = [phone EXCEPT ![s].view = "loading", ![s].asked = {"scan"}]
    /\ UNCHANGED <<serverVars, pageVars>>

\* approve disables both buttons, deny neither.
TapApprove(s) ==
    /\ phone[s].view = "approve" /\ ~phone[s].disabled
    /\ phone' = [phone EXCEPT ![s].disabled = TRUE, ![s].asked = @ \cup {"approve"}]
    /\ UNCHANGED <<serverVars, pageVars>>

TapDeny(s) ==
    /\ phone[s].view = "approve" /\ ~phone[s].disabled
    /\ phone' = [phone EXCEPT ![s].asked = @ \cup {"deny"}]
    /\ UNCHANGED <<serverVars, pageVars>>

\* The server handles a request of the phone.
PhoneServed(s, op, answer) ==
    /\ op \in phone[s].asked
    /\ \/ op = "scan" /\ scan(s, answer)
       \/ op = "approve" /\ approve(s, answer)
       \/ op = "deny" /\ deny(s, answer)

\* What the scan page shows then.  deny does not look at the answer: a session it
\* did not close is shown as blocked.
Shown(op, answer) ==
    CASE op = "deny" -> "denied"
      [] op = "scan" /\ answer = "ok" -> "approve"
      [] op = "approve" /\ answer = "ok" -> "success"
      [] OTHER -> "error"

PhoneAnswered(s) ==
    /\ \E op \in phone[s].asked, answer \in {"ok", "refused"} :
          /\ PhoneServed(s, op, answer)
          /\ phone' = [phone EXCEPT ![s].view = Shown(op, answer), ![s].asked = @ \ {op}]
    /\ UNCHANGED pageVars

\* A request or its answer is lost, and nobody catches the exception: the page stays
\* as it is.  Or the answer is an error, whether or not the server did it: the lookup
\* of the user that follows a scan fails, or the log line after the commit finds the
\* device revoked.
PhoneLoses(s) ==
    /\ failures < MaxFailures
    /\ failures' = failures + 1
    /\ \E op \in phone[s].asked :
          /\ UNCHANGED serverVars \/ \E answer \in {"ok", "refused"} : PhoneServed(s, op, answer)
          /\ \E view \in {phone[s].view, Shown(op, "refused")} :
                phone' = [phone EXCEPT ![s].view = view, ![s].asked = @ \ {op}]
    /\ UNCHANGED <<place, page, calls>>

----------------------------------------------------------------------------
(* Specifications *)

\* The OAuth client exchanges the code the tab arrived with.
ClientRedeems(s) ==
    /\ place = s
    /\ token(s)
    /\ UNCHANGED <<pageVars, phone>>

Expires(s) == Lapse(s) /\ UNCHANGED <<pageVars, phone>>

TimerFires == (Tick \/ PollFires) /\ UNCHANGED phone
User == \E s \in Sessions : Click(s) /\ UNCHANGED phone
Taps(s) == TapApprove(s) \/ TapDeny(s)

Elsewhere ==
    \/ Navigate /\ UNCHANGED phone
    \/ \E c \in Calls : Network(c) /\ UNCHANGED phone
    \/ \E s \in Sessions : Open(s) \/ PhoneAnswered(s) \/ PhoneLoses(s)
    \/ \E s \in Sessions : ClientRedeems(s) \/ Expires(s)

Next == TimerFires \/ User \/ Elsewhere \/ \E s \in Sessions : Taps(s)

\* The same with answers that arrive before the next timer fires or the next
\* button is used.
Prompt == \A c \in Calls : calls[c] = NoCall
PromptNext ==
    \/ Prompt /\ (TimerFires \/ User)
    \/ Elsewhere
    \/ \E s \in Sessions : phone[s].asked = {} /\ Taps(s)

\* A request is answered or fails, and its continuation runs.
FairAnswers ==
    /\ \A c \in Calls : WF_vars(Serve(c) /\ UNCHANGED phone)
    /\ \A c \in Calls : WF_vars(Answered(c) /\ UNCHANGED phone)
    /\ WF_vars(Navigate /\ UNCHANGED phone)

\* A browser runs due timers in turn, so one that runs is not passed over for
\* ever.  Nobody has to scan, tap or click.
Spec == /\ Init /\ [][Next]_vars
        /\ FairAnswers
        /\ SF_vars(Tick /\ UNCHANGED phone) /\ SF_vars(PollFires /\ UNCHANGED phone)

PromptSpec == /\ Init /\ [][PromptNext]_vars
              /\ FairAnswers
              /\ SF_vars(Prompt /\ Tick /\ UNCHANGED phone)
              /\ SF_vars(Prompt /\ PollFires /\ UNCHANGED phone)

----------------------------------------------------------------------------
(* What holds however late the answers are *)

TypeOK ==
    /\ ServerTypeOK
    /\ PageTypeOK
    /\ phone \in [Sessions -> Phone]

\* A tab that is signed in got there through a session that a phone was asked to
\* approve, and whose approval is spent: stale answers of older sessions never
\* open /home by themselves.
HomeIsApproved ==
    (place = "home" \/ "home" \in page.leaving) =>
        \E s \in Sessions : status[s] = "consumed" /\ phone[s].disabled

----------------------------------------------------------------------------
(* What holds when answers are prompt *)

\* The image on the screen is that of the session the page polls, so a scan of
\* it is noticed.
ShownCodeIsFollowed ==
    (place = "login" /\ page.view \in {"active", "scanned"}) =>
        page.sessionId # None /\ page.qrImg = page.sessionId /\ page.pollTimer

\* clearTimers leaves no timer running: never two countdowns or two polls, and
\* none on a page that is closed or starting over.
ClosedIsQuiet ==
    /\ page.strayPolls = 0 /\ page.strayTicks = 0
    /\ page.view \notin {"active", "scanned"} => ~page.pollTimer /\ ~page.rotateTimer

\* The page exchanges a session only once it is approved, and the approval is
\* still there when the request arrives.
ExchangeAfterApproval ==
    \A c \in Calls :
        calls[c].kind = "exchange" /\ calls[c].answer = "sent" =>
            calls[c].sid \in Sessions /\ status[calls[c].sid] = "approved"

\* A tab that brings a code to the OAuth client finds it good, or already used by
\* the client itself: the page does not spend the approval for a cookie.
CodeIsTheClients ==
    \A s \in Sessions :
        s \in page.leaving =>
            /\ "home" \notin page.leaving
            /\ status[s] = "approved" \/ (status[s] = "consumed" /\ place = s)

\* A page that has warned (the session expired, could not be created, or could not be
\* exchanged) has given up: nothing is asked or timed any more that could sign the tab
\* in behind the back of somebody who read the warning and left.
WarnedIsOver ==
    page.warned =>
        /\ place = "login" /\ page.leaving = {}
        /\ ~page.pollTimer /\ ~page.rotateTimer /\ Prompt

\* The page does not leave people waiting: it ends up at the place it signs in to, or
\* with a warning, which the overlay that has the button comes with.
NoDeadEnd ==
    (place = "login") ~> (place # "login" \/ page.warned)

----------------------------------------------------------------------------
(* What the sources promise *)

\* approve marks the session "so the browser poll receives the signal": a page that is
\* still polling the session when it is approved notices.  It does not when the rotation
\* of the image was refused and the refusal is on its way.
ApprovalNoticed ==
    \A s \in Sessions :
        (status[s] = "approved" /\ page.sessionId = s /\ page.pollTimer)
            ~> (page.view = "success" \/ place # "login")

\* A phone that shows "The sign-in attempt was blocked" (scan.html) is right.  No run
\* checks it, because it is not: the README shows how.
DeniedIsBlocked == \A s \in Sessions : phone[s].view = "denied" => status[s] = "expired"
=============================================================================
