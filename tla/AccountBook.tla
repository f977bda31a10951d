---------------------------- MODULE AccountBook ----------------------------
(***************************************************************************)
(* What routes/auth.py and routes/devices.py promise, without requests,    *)
(* rows or cookies: an address signs up once and gets a first device; an   *)
(* account gains and loses devices; accounts are never merged, and what    *)
(* was revoked stays revoked.                                              *)
(***************************************************************************)
CONSTANTS
    Emails,         \* addresses one may sign up with
    Tokens          \* device tokens

VARIABLES
    trusted,        \* the device tokens of each account that signed up
    revoked         \* the device tokens that were taken back

Init == trusted = <<>> /\ revoked = {}

Everyone == revoked \cup UNION {trusted[e] : e \in DOMAIN trusted}

SignUp(e, d) ==
    /\ e \notin DOMAIN trusted /\ d \notin Everyone
    /\ trusted' = [x \in DOMAIN trusted \cup {e} |-> IF x = e THEN {d} ELSE trusted[x]]
    /\ UNCHANGED revoked

Enroll(e, d) ==
    /\ e \in DOMAIN trusted /\ d \notin Everyone
    /\ trusted' = [trusted EXCEPT ![e] = @ \cup {d}]
    /\ UNCHANGED revoked

Revoke(e, d) ==
    /\ e \in DOMAIN trusted /\ d \in trusted[e]
    /\ trusted' = [trusted EXCEPT ![e] = @ \ {d}]
    /\ revoked' = revoked \cup {d}

Next == \E e \in Emails, d \in Tokens : SignUp(e, d) \/ Enroll(e, d) \/ Revoke(e, d)

Spec == Init /\ [][Next]_<<trusted, revoked>>
=============================================================================
