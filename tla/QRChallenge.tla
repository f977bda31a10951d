---------------------------- MODULE QRChallenge ----------------------------
(***************************************************************************)
(* How long a displayed QR code can be used.  The server stamps a code     *)
(* with whole seconds and compares the stamp with a clock that has         *)
(* fractions (backend/security.py); the login page replaces the code by a  *)
(* chain of one-second timeouts and a request, and gives up in the end     *)
(* (frontend/login.js); the phone takes a while to bring a code back.      *)
(*                                                                         *)
(* Time is counted in fractions of a second.  Delays are bounded: this     *)
(* module is about the seconds that are left when the network, the         *)
(* browser's timers and the user are quick.                                *)
(***************************************************************************)
EXTENDS Integers

CONSTANTS
    Second,         \* fractions in a second
    QR_TTL,         \* seconds a code is displayed, told to the page by the server
    max_age,        \* seconds a stamp is accepted
    SESSION_EXPIRE, \* seconds after which the page gives up
    SESSION_TTL,    \* seconds the server keeps a session open
    RoundTrip,      \* the longest a request of the page takes
    Lateness,       \* how late the timeouts of one countdown are, together
    ScanDelay,      \* the longest from reading a code to the server's verdict
    None

ASSUME DelayAssumption ==
    /\ {Second, QR_TTL, max_age, SESSION_EXPIRE, SESSION_TTL} \subseteq Nat \ {0}
    /\ {RoundTrip, Lateness, ScanDelay} \subseteq Nat /\ None \notin Int

\* What the network, the timers and the phone take fits between the two limits.
ASSUME MarginAssumption ==
    QR_TTL * Second + 2 * RoundTrip + Lateness + ScanDelay + Second - 1 <= max_age * Second

\* The session outlives the page, even if every second of the page takes the longest.
ASSUME LifetimeAssumption ==
    RoundTrip + SESSION_EXPIRE * (Second + Lateness + RoundTrip) + ScanDelay
        <= SESSION_TTL * Second

\* The page gives up when a code has had its full time (login.js: 30 and 90 seconds).
ASSUME RotationAssumption == \E k \in 1..SESSION_EXPIRE : SESSION_EXPIRE = k * QR_TTL

VARIABLES
    now,            \* the time
    view,           \* of the page: "asking" for a code, "waiting" for a timeout, "gone"
    due,            \* when that request was sent, or when the next timeout may fire
    late,           \* how late the timeouts of this countdown were so far
    rotateCountdown, totalElapsed,
    created,        \* when the session was opened, or None
    minted,         \* the stamp in the answer to the request, or None
    shown,          \* the stamp of the displayed code, or None
    gone,           \* the last code that was displayed before: its stamp, and when it left
    scan            \* the code a phone brings: its stamp, and when it was read; or None

vars == <<now, view, due, late, rotateCountdown, totalElapsed, created, minted, shown, gone, scan>>

TypeOK ==
    /\ now \in Nat /\ view \in {"asking", "waiting", "gone"}
    /\ due \in Nat /\ late \in 0..Lateness
    /\ rotateCountdown \in 0..QR_TTL /\ totalElapsed \in 0..SESSION_EXPIRE
    /\ {created, minted, shown} \subseteq Nat \cup {None}
    /\ gone = None \/ gone \in [stamp : Nat, at : Nat]
    /\ scan = None \/ scan \in [stamp : Nat, read : Nat]

\* createSession has sent its request.
Init ==
    /\ now \in 0..(Second - 1) /\ view = "asking" /\ due = now /\ late = 0
    /\ rotateCountdown = 0 /\ totalElapsed = 0
    /\ created = None /\ minted = None /\ shown = None /\ gone = None /\ scan = None

\* Mutant: the stamp is rounded to the next second.
stamped_Up(t) == t + Second - 1 - ((t + Second - 1) % Second)

\* build_scan_url: int(time.time()).
stamped(t) == t - (t % Second)

\* verify_qr_challenge and, for a session that is pending, its lifetime.
Accepts(stamp) ==
    /\ -max_age * Second <= now - stamp /\ now - stamp <= max_age * Second
    /\ now <= created + SESSION_TTL * Second

\* The server handles the page's request: a session or a fresh code.
Mint ==
    /\ view = "asking" /\ minted = None
    /\ minted' = stamped(now)
    /\ created' = IF created = None THEN now ELSE created
    /\ UNCHANGED <<now, view, due, late, rotateCountdown, totalElapsed, shown, gone, scan>>

LeavesScreen == gone' = IF shown = None THEN gone ELSE [stamp |-> shown, at |-> now]

\* Mutant: the countdown is not set again.
Show_Kept ==
    /\ view = "asking" /\ minted # None
    /\ shown' = minted /\ minted' = None /\ LeavesScreen
    /\ view' = "waiting" /\ due' = now + Second /\ late' = 0
    /\ rotateCountdown' = IF shown = None THEN QR_TTL ELSE rotateCountdown
    /\ UNCHANGED <<now, totalElapsed, created, scan>>

\* The answer arrives: the image is replaced and the countdown starts.
Show ==
    /\ view = "asking" /\ minted # None
    /\ shown' = minted /\ minted' = None /\ LeavesScreen
    /\ view' = "waiting" /\ due' = now + Second /\ late' = 0 /\ rotateCountdown' = QR_TTL
    /\ UNCHANGED <<now, totalElapsed, created, scan>>

GiveUp == view' = "gone" /\ shown' = None /\ LeavesScreen

\* The request fails, or is refused because the session is no longer pending.
Fails ==
    /\ view = "asking" /\ GiveUp /\ minted' = None
    /\ UNCHANGED <<now, due, late, rotateCountdown, totalElapsed, created, scan>>

\* Mutant: the code is replaced one timeout later.
Timeout_Longer ==
    /\ view = "waiting" /\ now >= due
    /\ late' = late + (now - due)
    /\ rotateCountdown' = rotateCountdown - 1 /\ totalElapsed' = totalElapsed + 1
    /\ \/ totalElapsed' >= SESSION_EXPIRE /\ GiveUp /\ UNCHANGED due
       \/ totalElapsed' < SESSION_EXPIRE /\ UNCHANGED <<shown, gone>>
          /\ \/ rotateCountdown' < 0 /\ view' = "asking" /\ due' = now
             \/ rotateCountdown' >= 0 /\ view' = "waiting" /\ due' = now + Second
    /\ UNCHANGED <<now, created, minted, scan>>

\* One timeout of the chain: the page gives up, asks for a new code, or goes on.
Timeout ==
    /\ view = "waiting" /\ now >= due
    /\ late' = late + (now - due)
    /\ rotateCountdown' = rotateCountdown - 1 /\ totalElapsed' = totalElapsed + 1
    /\ \/ totalElapsed' >= SESSION_EXPIRE /\ GiveUp /\ UNCHANGED due
       \/ totalElapsed' < SESSION_EXPIRE /\ UNCHANGED <<shown, gone>>
          /\ \/ rotateCountdown' <= 0 /\ view' = "asking" /\ due' = now
             \/ rotateCountdown' > 0 /\ view' = "waiting" /\ due' = now + Second
    /\ UNCHANGED <<now, created, minted, scan>>

Read ==
    /\ scan = None /\ shown # None
    /\ scan' = [stamp |-> shown, read |-> now]
    /\ UNCHANGED <<now, view, due, late, rotateCountdown, totalElapsed, created, minted, shown, gone>>

\* The server's verdict; an accepted scan ends the life of the codes.
Verdict ==
    /\ scan # None /\ scan' = None
    /\ UNCHANGED <<now, view, due, late, rotateCountdown, totalElapsed, created, minted, shown, gone>>

\* Time passes while nothing is overdue; after the page gave up, only as long as its last
\* code could matter.
Advance ==
    /\ view = "asking"  => now < due + RoundTrip
    /\ view = "waiting" => now < due + Lateness - late
    /\ view = "gone"    => gone # None /\ now <= gone.at + max_age * Second
    /\ scan # None => now < scan.read + ScanDelay
    /\ now' = now + 1
    /\ UNCHANGED <<view, due, late, rotateCountdown, totalElapsed, created, minted, shown, gone, scan>>

Next == Mint \/ Show \/ Fails \/ Timeout \/ Read \/ Verdict \/ Advance

Spec == Init /\ [][Next]_vars

---------------------------------------------------------------------------
(* Properties.                                                             *)

\* A code that was on the screen when the phone read it is still accepted when the phone
\* delivers it, up to the last moment of its display (verify_qr_challenge against
\* startCountdown and refreshQR): rounding down costs a second of the margin.
ReadIsAccepted == scan # None => Accepts(scan.stamp)

\* A code that left the screen, because it was replaced or because the page gave up, is
\* accepted for the difference of the two limits and no longer.  So nobody can claim the
\* session of a page that gave up by a code it showed (login.js:3).
GoneIsRefused ==
    gone # None /\ now > gone.at + (max_age - QR_TTL) * Second => ~Accepts(gone.stamp)
=============================================================================
