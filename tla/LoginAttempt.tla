---------------------------- MODULE LoginAttempt ----------------------------
(***************************************************************************)
(* What one QR login attempt promises, without requests, clocks or the     *)
(* database: a session is opened, claimed by one user, confirmed by that   *)
(* user, redeemed once, and then at most one access token is issued, to    *)
(* that user.  Closing (expiry or a denial) is final.                      *)
(*                                                                         *)
(* The status names and their order are those the handlers of              *)
(* backend/routes/qr.py test and assign.  QRSessions refines this module   *)
(* when requests on a session do not overlap, and not otherwise.           *)
(***************************************************************************)
EXTENDS Sequences

CONSTANTS
    SessionIds,     \* identifiers a session may be created with
    Users,          \* user accounts
    None            \* SQL NULL

VARIABLES
    phase,          \* status of each attempt, "absent" before it is opened
    owner,          \* the user who claimed it, or None
    confirmedBy,    \* the users who confirmed it
    tokens          \* the access tokens issued for it, in order

vars == <<phase, owner, confirmedBy, tokens>>

\* How a token reaches its holder: the login page's cookie or an OAuth client.
Channel == {"browser", "client"}

Init ==
    /\ phase = [s \in SessionIds |-> "absent"]
    /\ owner = [s \in SessionIds |-> None]
    /\ confirmedBy = [s \in SessionIds |-> {}]
    /\ tokens = [s \in SessionIds |-> <<>>]

\* A login page opens an attempt.
Open(s) ==
    /\ phase[s] = "absent"
    /\ phase' = [phase EXCEPT ![s] = "pending"]
    /\ UNCHANGED <<owner, confirmedBy, tokens>>

\* A device of user u scans the code: the attempt is u's from now on.
Claim(s, u) ==
    /\ phase[s] = "pending"
    /\ phase' = [phase EXCEPT ![s] = "scanned"]
    /\ owner' = [owner EXCEPT ![s] = u]
    /\ UNCHANGED <<confirmedBy, tokens>>

\* The user who claimed the attempt approves it.
Confirm(s) ==
    /\ phase[s] = "scanned"
    /\ phase' = [phase EXCEPT ![s] = "approved"]
    /\ confirmedBy' = [confirmedBy EXCEPT ![s] = {owner[s]}]
    /\ UNCHANGED <<owner, tokens>>

\* The attempt expires or is denied.
Close(s) ==
    /\ phase[s] \in {"pending", "scanned"}
    /\ phase' = [phase EXCEPT ![s] = "expired"]
    /\ UNCHANGED <<owner, confirmedBy, tokens>>

\* The approval is spent.
Redeem(s) ==
    /\ phase[s] = "approved"
    /\ phase' = [phase EXCEPT ![s] = "consumed"]
    /\ UNCHANGED <<owner, confirmedBy, tokens>>

\* The one token a spent approval pays for.  It may never come: the handler
\* may die between its commit and its answer.
Issue(s) ==
    /\ phase[s] = "consumed"
    /\ tokens[s] = <<>>
    /\ \E via \in Channel :
          tokens' = [tokens EXCEPT ![s] = <<[user |-> owner[s], via |-> via]>>]
    /\ UNCHANGED <<phase, owner, confirmedBy>>

Next ==
    \E s \in SessionIds :
        \/ Open(s)
        \/ \E u \in Users : Claim(s, u)
        \/ Confirm(s)
        \/ Close(s)
        \/ Redeem(s)
        \/ Issue(s)

Spec == Init /\ [][Next]_vars
=============================================================================
