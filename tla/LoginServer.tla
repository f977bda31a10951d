---------------------------- MODULE LoginServer ----------------------------
(***************************************************************************)
(* The endpoints of backend/routes/qr.py and /oauth/token as the pages see *)
(* them: a request is answered in one step.  (QRSessions splits the same   *)
(* handlers into their database statements.)  Each operator says what the  *)
(* endpoint answers and what it writes; an answer is the part the pages    *)
(* look at.  The phone is that of the user who scans, so the server's      *)
(* comparison of users always succeeds here, but a device may be revoked.  *)
(***************************************************************************)
CONSTANTS
    Sessions,       \* session identifiers (bounds how often a page can start over)
    None            \* JavaScript null

\* A session identifier is not mistaken for null or for a place of the page.
ASSUME SessionAssumption == Sessions \cap {None, "login", "home"} = {}

VARIABLES
    redirects,      \* whether sessions are opened with a redirect URI (OAuth flow)
    status,         \* QRSession.status
    codeWaiting     \* sessions whose raw code get_status has yet to hand out

serverVars == <<redirects, status, codeWaiting>>

Status == {"absent", "pending", "scanned", "approved", "consumed", "expired"}

ServerTypeOK ==
    /\ redirects \in BOOLEAN
    /\ status \in [Sessions -> Status]
    /\ codeWaiting \subseteq Sessions

ServerInit ==
    /\ redirects \in BOOLEAN
    /\ status = [s \in Sessions |-> "absent"]
    /\ codeWaiting = {}

Becomes(s, new) == status' = [status EXCEPT ![s] = new]

Refuses(answer) == answer = "refused" /\ UNCHANGED serverVars

\* The scope, the client or the redirect URI of the page's address may be refused,
\* and a client may be deactivated at any time.
create_session(s, answer) ==
    \/ /\ status[s] = "absent"
       /\ answer = "created"
       /\ Becomes(s, "pending")
       /\ UNCHANGED <<redirects, codeWaiting>>
    \/ Refuses(answer)

refresh_qr(s, answer) ==
    \/ status[s] = "pending" /\ answer = "fresh" /\ UNCHANGED serverVars
    \/ status[s] # "pending" /\ Refuses(answer)

\* The answer that carries the raw code is "redirect"; the others are the status.
get_status(s, answer) ==
    LET delivers == status[s] = "approved" /\ s \in codeWaiting IN
    /\ answer = IF delivers THEN "redirect" ELSE status[s]
    /\ codeWaiting' = IF delivers THEN codeWaiting \ {s} ELSE codeWaiting
    /\ UNCHANGED <<redirects, status>>

\* Mutant: a session that is only scanned can be exchanged.
exchange_token_Scanned(s, answer) ==
    \/ /\ s \in Sessions /\ status[s] \in {"scanned", "approved"}
       /\ answer = "token"
       /\ Becomes(s, "consumed")
       /\ UNCHANGED <<redirects, codeWaiting>>
    \/ s \notin Sessions /\ Refuses(answer)

\* The page may ask for session "null", which does not exist.
exchange_token(s, answer) ==
    \/ /\ s \in Sessions /\ status[s] = "approved"
       /\ answer = "token"
       /\ Becomes(s, "consumed")
       /\ UNCHANGED <<redirects, codeWaiting>>
    \/ (s \in Sessions => status[s] # "approved") /\ Refuses(answer)

\* The phone's endpoints may refuse whatever the status is: the device was revoked
\* since the last request (401), the CSRF header does not match (403), or, for a
\* scan, the challenge is too old (400).  Neither devices nor ages are kept here.
scan(s, answer) ==
    \/ status[s] = "pending" /\ answer = "ok"
       /\ Becomes(s, "scanned") /\ UNCHANGED <<redirects, codeWaiting>>
    \/ Refuses(answer)

approve(s, answer) ==
    \/ /\ status[s] = "scanned" /\ answer = "ok"
       /\ Becomes(s, "approved")
       /\ codeWaiting' = IF redirects THEN codeWaiting \cup {s} ELSE codeWaiting
       /\ UNCHANGED redirects
    \/ Refuses(answer)

deny(s, answer) ==
    \/ status[s] \in {"pending", "scanned"} /\ answer = "ok"
       /\ Becomes(s, "expired") /\ UNCHANGED <<redirects, codeWaiting>>
    \/ Refuses(answer)

\* token, for a client that shows the code of session s.
token(s) ==
    /\ status[s] = "approved"
    /\ Becomes(s, "consumed")
    /\ UNCHANGED <<redirects, codeWaiting>>

\* _get_session: a pending session lapses.  The write is made by the next lookup,
\* and nothing else looks at the row; the page's clock is no measure of the
\* server's, because a browser slows the timers of a hidden tab.
Lapse(s) ==
    /\ status[s] = "pending"
    /\ Becomes(s, "expired")
    /\ UNCHANGED <<redirects, codeWaiting>>
=============================================================================
