------------------------- MODULE QRChallengeProofs -------------------------
(***************************************************************************)
(* The invariant of QRChallenge and its theorems, for every rotation       *)
(* period, maximal age and delay that the assumptions admit.               *)
(***************************************************************************)
EXTENDS QRChallenge, TLAPS

---------------------------------------------------------------------------
(* The inductive invariant.                                                *)

\* Products are hidden behind names, so that the steps below are linear.
Ticks(n) == n * Second
Display  == Ticks(QR_TTL)
Age      == Ticks(max_age)
PageTime(n) == n * (Second + Lateness + RoundTrip)

\* The code on the screen while its successor is asked for.
Asking ==
    view = "asking" =>
        /\ due <= now /\ now <= due + RoundTrip /\ totalElapsed < SESSION_EXPIRE
        /\ shown = None => totalElapsed = 0
        /\ shown # None =>
            /\ shown + Display <= due
            /\ due <= shown + Second - 1 + RoundTrip + Display + Lateness

\* The code on the screen during its countdown.
Waiting ==
    view = "waiting" =>
        /\ shown # None /\ minted = None
        /\ rotateCountdown >= 1 /\ totalElapsed < SESSION_EXPIRE
        /\ now + late <= due + Lateness
        /\ shown + Display + Second <= due + Ticks(rotateCountdown)
        /\ due + Ticks(rotateCountdown)
            <= shown + Second - 1 + RoundTrip + Display + Second + late

\* The stamps on their way, and those that left the screen.
Stamps ==
    /\ minted # None => view = "asking" /\ due - (Second - 1) <= minted /\ minted <= now
    /\ shown # None => shown <= now
    /\ view = "gone" => shown = None
    /\ gone # None => gone.stamp + Display <= gone.at /\ gone.at <= now
    /\ scan # None =>
        /\ scan.stamp <= scan.read /\ scan.read <= now /\ now <= scan.read + ScanDelay
        /\ scan.read <= scan.stamp + Second - 1 + 2 * RoundTrip + Display + Lateness

\* Countdowns are whole.
Rotation ==
    /\ view = "asking"  => \E k \in Nat : totalElapsed = k * QR_TTL
    /\ view = "waiting" => \E k \in Nat : totalElapsed + rotateCountdown = k * QR_TTL

\* The page is not older than its timeouts can make it.
Lifetime ==
    /\ minted # None \/ shown # None \/ scan # None => created # None
    /\ created # None => created <= now
    /\ created # None /\ view = "asking" => due <= created + PageTime(totalElapsed)
    /\ view = "waiting" => due <= created + RoundTrip + PageTime(totalElapsed) + Second
    /\ scan # None => scan.read <= created + RoundTrip + PageTime(SESSION_EXPIRE)

IInv == TypeOK /\ Asking /\ Waiting /\ Stamps /\ Rotation /\ Lifetime

---------------------------------------------------------------------------
(* Arithmetic.                                                             *)

\* Times are integers, and the names above stand for naturals.
LEMMA Limits ==
    /\ Second \in Nat /\ Second >= 1 /\ QR_TTL \in Nat /\ QR_TTL >= 1
    /\ max_age \in Nat /\ SESSION_EXPIRE \in Nat /\ SESSION_EXPIRE >= 1 /\ SESSION_TTL \in Nat
    /\ RoundTrip \in Nat /\ Lateness \in Nat /\ ScanDelay \in Nat /\ None \notin Int
    /\ Display \in Nat /\ Age \in Nat
<1>1. /\ Second \in Nat /\ Second >= 1 /\ QR_TTL \in Nat /\ QR_TTL >= 1
      /\ max_age \in Nat /\ SESSION_EXPIRE \in Nat /\ SESSION_EXPIRE >= 1 /\ SESSION_TTL \in Nat
      /\ RoundTrip \in Nat /\ Lateness \in Nat /\ ScanDelay \in Nat /\ None \notin Int
    BY DelayAssumption
<1>2. \A m, n \in Nat : m * n \in Nat
    OBVIOUS
<1>3. Display \in Nat /\ Age \in Nat
    BY <1>1, <1>2 DEF Display, Age, Ticks
<1> QED BY <1>1, <1>3

\* A timeout is one second of the countdown.
LEMMA TicksStep ==
    ASSUME NEW n \in Nat, n >= 1
    PROVE  /\ Ticks(n) \in Nat /\ Ticks(n - 1) \in Nat
           /\ Ticks(n) = Ticks(n - 1) + Second /\ Ticks(n) >= Second
           /\ n = 1 => Ticks(n) = Second
<1>1. \A m, k \in Nat : m * k \in Nat
    OBVIOUS
<1>2. \A m, k \in Nat : m >= 1 => m * k = (m - 1) * k + k
    OBVIOUS
<1>3. Second \in Nat
    BY Limits
<1>4. n - 1 \in Nat
    OBVIOUS
<1>5. Ticks(n) \in Nat /\ Ticks(n - 1) \in Nat /\ Ticks(n) = Ticks(n - 1) + Second
    BY <1>1, <1>2, <1>3, <1>4 DEF Ticks
<1>6. n = 1 => Ticks(n) = Second
    BY <1>3 DEF Ticks
<1> QED BY <1>3, <1>5, <1>6

\* So is it at most of the page's time.
LEMMA PageTimeStep ==
    ASSUME NEW n \in Nat
    PROVE  /\ PageTime(n) \in Nat
           /\ PageTime(n + 1) = PageTime(n) + Second + Lateness + RoundTrip
           /\ \A m \in Nat : n <= m => PageTime(n) <= PageTime(m)
<1> DEFINE most == Second + Lateness + RoundTrip
<1>1. most \in Nat
    BY Limits
<1>2. \A m, k \in Nat : m * k \in Nat /\ (m + 1) * k = m * k + k
    OBVIOUS
<1>3. \A m, k \in Nat : n <= m => n * k <= m * k
    <2>1. SUFFICES ASSUME NEW m \in Nat, NEW k \in Nat, n <= m
                   PROVE  n * k <= m * k
        OBVIOUS
    <2>2. (m - n) \in Nat /\ m = n + (m - n)
        BY <2>1
    <2>3. (m - n) * k \in Nat /\ m * k = n * k + (m - n) * k
        BY <2>1, <2>2
    <2>4. n * k \in Nat /\ m * k \in Nat
        BY <2>1
    <2> QED BY <2>3, <2>4
<1>4. PageTime(n) = n * most /\ PageTime(n + 1) = (n + 1) * most
    BY DEF PageTime
<1>5. PageTime(n + 1) = PageTime(n) + most
    BY <1>1, <1>2, <1>4
<1>6. PageTime(n) \in Nat
    BY <1>1, <1>2, <1>4
<1>7. \A m \in Nat : n <= m => PageTime(n) <= PageTime(m)
    BY <1>1, <1>3 DEF PageTime
<1>8. PageTime(n + 1) = PageTime(n) + Second + Lateness + RoundTrip
    BY <1>5, <1>6, Limits
<1> QED BY <1>6, <1>7, <1>8

\* What is left of the limits.
LEMMA Margins ==
    /\ Display + 2 * RoundTrip + Lateness + ScanDelay + Second - 1 <= Age
    /\ RoundTrip + PageTime(SESSION_EXPIRE) + ScanDelay <= SESSION_TTL * Second
    /\ (max_age - QR_TTL) * Second = Age - Display
<1>1. \A m, n, k \in Nat : (m - n) * k = m * k - n * k
    OBVIOUS
<1>2. (max_age - QR_TTL) * Second = Age - Display
    BY <1>1, Limits DEF Age, Display, Ticks
<1>3. Display + 2 * RoundTrip + Lateness + ScanDelay + Second - 1 <= Age
    BY MarginAssumption DEF Age, Display, Ticks
<1>4. RoundTrip + PageTime(SESSION_EXPIRE) + ScanDelay <= SESSION_TTL * Second
    BY LifetimeAssumption DEF PageTime
<1> QED BY <1>2, <1>3, <1>4

\* The stamp is at most the time, and less than a second before it.
LEMMA StampedDown ==
    ASSUME NEW t \in Nat
    PROVE  stamped(t) \in Nat /\ stamped(t) <= t /\ t - (Second - 1) <= stamped(t)
<1>1. t % Second \in 0..(Second - 1) /\ t % Second <= t
    BY Limits
<1> QED BY <1>1, Limits DEF stamped

\* A page that reaches its limit has just ended a countdown.
LEMMA GivesUpBetweenCodes ==
    ASSUME NEW e \in Nat, NEW r \in Nat, NEW k \in Nat,
           e + r = k * QR_TTL, r < QR_TTL, e = SESSION_EXPIRE
    PROVE  r = 0
<1>1. PICK j \in Nat : SESSION_EXPIRE = j * QR_TTL
    BY RotationAssumption, Limits
<1>2. r = (k - j) * QR_TTL
    BY <1>1, Limits
<1>3. CASE k - j <= 0
    BY <1>2, <1>3, Limits
<1>4. CASE k - j >= 1
    BY <1>2, <1>4, Limits
<1> QED BY <1>3, <1>4

---------------------------------------------------------------------------
(* Every step keeps the invariant.                                         *)

LEMMA Starts ==
    ASSUME Init
    PROVE  IInv
<1> USE DEF Init
<1>1. TypeOK /\ Asking /\ Waiting /\ Stamps /\ Lifetime
    BY Limits DEF TypeOK, Asking, Waiting, Stamps, Lifetime
<1>2. Rotation
    <2>1. totalElapsed = 0 * QR_TTL
        BY Limits
    <2> QED BY <2>1 DEF Rotation
<1> QED BY <1>1, <1>2 DEF IInv

LEMMA MintKeeps ==
    ASSUME IInv, Mint
    PROVE  IInv'
<1> USE DEF IInv, Mint
<1>1. now \in Nat /\ due \in Nat
    BY DEF TypeOK
<1>2. minted' \in Nat /\ minted' <= now /\ now - (Second - 1) <= minted'
    BY <1>1, StampedDown
<1>3. TypeOK'
    BY <1>1, <1>2 DEF TypeOK
<1>4. Asking' /\ Waiting' /\ Rotation'
    BY DEF Asking, Waiting, Rotation
<1>5. due <= now
    BY DEF Asking
<1>6. Stamps'
    BY <1>1, <1>2, <1>5, Limits DEF Stamps
<1>7. Lifetime'
    <2>1. created' # None /\ created' <= now
        BY <1>1, Limits DEF Lifetime
    <2>2. PageTime(totalElapsed) \in Nat
        <3>1. totalElapsed \in Nat
            BY Limits DEF TypeOK
        <3> QED BY <3>1, PageTimeStep
    <2>3. due <= created' + PageTime(totalElapsed)
        BY <1>1, <1>5, <2>2, Limits DEF Lifetime, TypeOK
    <2>4. created # None => created' = created
        OBVIOUS
    <2> QED BY <2>1, <2>3, <2>4 DEF Lifetime
<1> QED BY <1>3, <1>4, <1>6, <1>7

LEMMA ShowKeeps ==
    ASSUME IInv, Show
    PROVE  IInv'
<1> USE DEF IInv, Show
<1>1. /\ now \in Nat /\ due \in Nat /\ minted \in Nat /\ late \in 0..Lateness
      /\ totalElapsed \in 0..SESSION_EXPIRE /\ totalElapsed \in Nat /\ now + Second \in Nat
    BY Limits DEF TypeOK
<1>2. /\ due - (Second - 1) <= minted /\ minted <= now /\ due <= now /\ now <= due + RoundTrip
      /\ totalElapsed < SESSION_EXPIRE
    BY DEF Asking, Stamps
<1>3. gone' = gone \/ (shown # None /\ gone' = [stamp |-> shown, at |-> now])
    BY DEF LeavesScreen
<1>4. TypeOK'
    BY <1>1, <1>3, Limits DEF TypeOK
<1>5. Asking'
    BY DEF Asking
<1>6. Ticks(QR_TTL) = Display
    BY DEF Display
<1>7. Waiting'
    BY <1>1, <1>2, <1>6, Limits DEF Waiting
<1>8. Stamps'
    <2>1. shown # None => shown + Display <= now
        BY <1>1, <1>2, Limits DEF Asking, TypeOK
    <2>2. gone' # None => gone'.stamp + Display <= gone'.at /\ gone'.at <= now
        BY <1>1, <1>3, <2>1 DEF Stamps
    <2> QED BY <1>1, <1>2, <2>2, Limits DEF Stamps
<1>9. Rotation'
    <2>1. PICK k \in Nat : totalElapsed = k * QR_TTL
        BY DEF Rotation
    <2>2. totalElapsed + QR_TTL = (k + 1) * QR_TTL
        BY <2>1, Limits
    <2> QED BY <2>2 DEF Rotation
<1>10. Lifetime'
    <2>1. created # None /\ due <= created + PageTime(totalElapsed)
        BY <1>1, Limits DEF Lifetime
    <2>2. created \in Nat /\ PageTime(totalElapsed) \in Nat
        BY <1>1, <2>1, PageTimeStep DEF TypeOK
    <2>3. due' <= created + RoundTrip + PageTime(totalElapsed) + Second
        BY <1>1, <1>2, <2>1, <2>2, Limits
    <2> QED BY <2>1, <2>3 DEF Lifetime
<1> QED BY <1>4, <1>5, <1>7, <1>8, <1>9, <1>10

LEMMA FailsKeeps ==
    ASSUME IInv, Fails
    PROVE  IInv'
<1> USE DEF IInv, Fails, GiveUp
<1>1. gone' = gone \/ (shown # None /\ gone' = [stamp |-> shown, at |-> now])
    BY DEF LeavesScreen
<1>2. TypeOK'
    BY <1>1 DEF TypeOK
<1>3. Asking' /\ Waiting' /\ Rotation'
    BY DEF Asking, Waiting, Rotation
<1>4. Stamps'
    <2>1. shown # None => shown + Display <= now
        BY Limits DEF Asking, TypeOK
    <2>2. gone' # None => gone'.stamp + Display <= gone'.at /\ gone'.at <= now
        BY <1>1, <2>1 DEF Stamps, TypeOK
    <2> QED BY <2>2 DEF Stamps
<1>5. Lifetime'
    BY DEF Lifetime
<1> QED BY <1>2, <1>3, <1>4, <1>5

LEMMA TimeoutKeeps ==
    ASSUME IInv, Timeout
    PROVE  IInv'
<1> USE DEF IInv, Timeout
<1>1. /\ now \in Nat /\ due \in Nat /\ shown \in Nat /\ late \in 0..Lateness
      /\ totalElapsed \in Nat /\ rotateCountdown \in 1..QR_TTL /\ rotateCountdown \in Nat
      /\ now + Second \in Nat /\ minted = None /\ shown # None
    BY Limits DEF TypeOK, Waiting
<1>2. /\ due <= now /\ now + late <= due + Lateness /\ late' = late + (now - due)
      /\ totalElapsed < SESSION_EXPIRE
      /\ rotateCountdown' = rotateCountdown - 1 /\ totalElapsed' = totalElapsed + 1
      /\ shown + Display + Second <= due + Ticks(rotateCountdown)
      /\ due + Ticks(rotateCountdown)
            <= shown + Second - 1 + RoundTrip + Display + Second + late
    BY DEF Waiting
<1>3. /\ late' \in 0..Lateness /\ totalElapsed' \in 0..SESSION_EXPIRE /\ totalElapsed' \in Nat
      /\ rotateCountdown' \in 0..(QR_TTL - 1) /\ rotateCountdown' \in Nat
    BY <1>1, <1>2, Limits
<1>3a. rotateCountdown' <= 0 => rotateCountdown' = 0
    <2> HIDE DEF Timeout
    <2> QED BY <1>3
<1>4. /\ Ticks(rotateCountdown) \in Nat /\ Ticks(rotateCountdown') \in Nat
      /\ Ticks(rotateCountdown) = Ticks(rotateCountdown') + Second
      /\ rotateCountdown' = 0 => Ticks(rotateCountdown) = Second
    BY <1>1, <1>2, TicksStep
<1>5. PICK k \in Nat : totalElapsed + rotateCountdown = k * QR_TTL
    BY DEF Rotation
<1>6. totalElapsed' + rotateCountdown' = k * QR_TTL
    BY <1>1, <1>2, <1>5
<1>7. created # None /\ due <= created + RoundTrip + PageTime(totalElapsed) + Second
    BY <1>1 DEF Lifetime
<1>8. created \in Nat /\ PageTime(totalElapsed) \in Nat /\ PageTime(totalElapsed') \in Nat
    BY <1>1, <1>2, <1>3, <1>7, PageTimeStep DEF TypeOK
<1>9. PageTime(totalElapsed') = PageTime(totalElapsed) + Second + Lateness + RoundTrip
    BY <1>1, <1>2, PageTimeStep
<1>10. now <= created + PageTime(totalElapsed')
    BY <1>1, <1>2, <1>7, <1>8, <1>9, Limits
<1>11. rotateCountdown' = 0 =>
        /\ shown + Display <= now
        /\ now <= shown + Second - 1 + RoundTrip + Display + Lateness
    BY <1>1, <1>2, <1>4, Limits
<1>12. CASE totalElapsed' >= SESSION_EXPIRE /\ GiveUp /\ UNCHANGED due
    <2> USE <1>12 DEF GiveUp
    <2>1. totalElapsed' = SESSION_EXPIRE
        BY <1>3, Limits
    <2>2. rotateCountdown' = 0
        <3>1. rotateCountdown' < QR_TTL
            BY <1>3, Limits
        <3> HIDE DEF Timeout
        <3> QED BY <1>3, <1>5, <1>6, <2>1, <3>1, GivesUpBetweenCodes
    <2>3. gone' = [stamp |-> shown, at |-> now]
        BY <1>1 DEF LeavesScreen
    <2>4. gone'.stamp + Display <= gone'.at /\ gone'.at <= now
        BY <1>1, <1>11, <2>2, <2>3
    <2>5. TypeOK'
        BY <1>1, <1>3, <2>3, Limits DEF TypeOK
    <2>6. Asking' /\ Waiting' /\ Rotation'
        BY DEF Asking, Waiting, Rotation
    <2>7. Stamps'
        BY <1>1, <2>4 DEF Stamps
    <2>8. Lifetime'
        BY DEF Lifetime
    <2> QED BY <2>5, <2>6, <2>7, <2>8
<1>13. CASE /\ totalElapsed' < SESSION_EXPIRE /\ UNCHANGED <<shown, gone>>
            /\ rotateCountdown' <= 0 /\ view' = "asking" /\ due' = now
    <2> USE <1>13
    <2>1. rotateCountdown' = 0
        BY <1>3a
    <2>2. TypeOK'
        BY <1>1, <1>3, Limits DEF TypeOK
    <2>3. Asking'
        BY <1>1, <1>11, <2>1, Limits DEF Asking
    <2>4. Waiting'
        BY DEF Waiting
    <2>5. Stamps'
        BY <1>1 DEF Stamps
    <2>6. Rotation'
        <3>1. totalElapsed' = k * QR_TTL
            BY <1>3, <1>6, <2>1
        <3> QED BY <1>5, <3>1 DEF Rotation
    <2>7. Lifetime'
        BY <1>10 DEF Lifetime
    <2> QED BY <2>2, <2>3, <2>4, <2>5, <2>6, <2>7
<1>14. CASE /\ totalElapsed' < SESSION_EXPIRE /\ UNCHANGED <<shown, gone>>
            /\ rotateCountdown' > 0 /\ view' = "waiting" /\ due' = now + Second
    <2> USE <1>14
    <2>1. TypeOK'
        BY <1>1, <1>3, Limits DEF TypeOK
    <2>2. Asking'
        BY DEF Asking
    <2>3. Waiting'
        <3>1. now + late' <= due' + Lateness
            BY <1>1, <1>3, Limits
        <3>2. shown + Display + Second <= due' + Ticks(rotateCountdown')
            BY <1>1, <1>2, <1>4, Limits
        <3>3. due' + Ticks(rotateCountdown')
                <= shown + Second - 1 + RoundTrip + Display + Second + late'
            BY <1>1, <1>2, <1>4, Limits
        <3>4. rotateCountdown' >= 1
            BY <1>3, Limits
        <3> QED BY <1>1, <3>1, <3>2, <3>3, <3>4 DEF Waiting
    <2>4. Stamps'
        BY <1>1 DEF Stamps
    <2>5. Rotation'
        BY <1>5, <1>6 DEF Rotation
    <2>6. due' <= created + RoundTrip + PageTime(totalElapsed') + Second
        BY <1>1, <1>8, <1>10, Limits
    <2>7. Lifetime'
        BY <1>7, <2>6 DEF Lifetime
    <2> QED BY <2>1, <2>2, <2>3, <2>4, <2>5, <2>7
<1> QED BY <1>12, <1>13, <1>14

LEMMA ReadKeeps ==
    ASSUME IInv, Read
    PROVE  IInv'
<1> USE DEF IInv, Read
<1>1. /\ now \in Nat /\ due \in Nat /\ shown \in Nat /\ late \in 0..Lateness
      /\ totalElapsed \in Nat /\ rotateCountdown \in Nat
    BY Limits DEF TypeOK
<1>2. view \in {"asking", "waiting"} /\ shown <= now
    BY DEF TypeOK, Stamps
<1>3. created # None /\ created \in Nat
    BY DEF Lifetime, TypeOK
<1>4. totalElapsed < SESSION_EXPIRE /\ totalElapsed + 1 \in Nat /\ SESSION_EXPIRE \in Nat
    BY <1>1, <1>2, Limits DEF Asking, Waiting
<1>5. /\ PageTime(totalElapsed) \in Nat /\ PageTime(SESSION_EXPIRE) \in Nat
      /\ PageTime(totalElapsed) + Second + Lateness + RoundTrip <= PageTime(SESSION_EXPIRE)
    <2>1. PageTime(totalElapsed + 1) <= PageTime(SESSION_EXPIRE)
        BY <1>1, <1>4, PageTimeStep
    <2> QED BY <1>1, <1>4, <2>1, PageTimeStep
<1>6. /\ now <= shown + Second - 1 + 2 * RoundTrip + Display + Lateness
      /\ now <= created + RoundTrip + PageTime(SESSION_EXPIRE)
    <2>1. CASE view = "asking"
        BY <1>1, <1>3, <1>5, <2>1, Limits DEF Asking, Lifetime
    <2>2. CASE view = "waiting"
        <3>1. rotateCountdown >= 1 /\ Ticks(rotateCountdown) \in Nat
              /\ Ticks(rotateCountdown) >= Second
            BY <1>1, <2>2, TicksStep DEF Waiting
        <3>2. now + late <= due + Lateness
            BY <2>2 DEF Waiting
        <3>3. due + Ticks(rotateCountdown)
                <= shown + Second - 1 + RoundTrip + Display + Second + late
            BY <2>2 DEF Waiting
        <3>4. due <= created + RoundTrip + PageTime(totalElapsed) + Second
            BY <2>2 DEF Lifetime
        <3>5. now <= shown + Second - 1 + 2 * RoundTrip + Display + Lateness
            BY <1>1, <3>1, <3>2, <3>3, Limits
        <3>6. now <= created + RoundTrip + PageTime(SESSION_EXPIRE)
            BY <1>1, <1>3, <1>5, <3>2, <3>4, Limits
        <3> QED BY <3>5, <3>6
    <2> QED BY <1>2, <2>1, <2>2
<1>7. scan' # None => scan'.stamp = shown /\ scan'.read = now
    OBVIOUS
<1>8. TypeOK'
    BY <1>1 DEF TypeOK
<1>9. Asking' /\ Waiting' /\ Rotation'
    BY DEF Asking, Waiting, Rotation
<1>10. Stamps'
    BY <1>1, <1>2, <1>6, <1>7, Limits DEF Stamps
<1>11. Lifetime'
    BY <1>3, <1>6, <1>7 DEF Lifetime
<1> QED BY <1>8, <1>9, <1>10, <1>11

LEMMA VerdictKeeps ==
    ASSUME IInv, Verdict
    PROVE  IInv'
BY DEF IInv, Verdict, TypeOK, Asking, Waiting, Stamps, Rotation, Lifetime

LEMMA AdvanceKeeps ==
    ASSUME IInv, Advance
    PROVE  IInv'
<1> USE DEF IInv, Advance
<1>1. now \in Nat /\ now' = now + 1 /\ now' \in Nat /\ due \in Nat /\ late \in 0..Lateness
    BY DEF TypeOK
<1>2. TypeOK'
    BY <1>1 DEF TypeOK
<1>3. Asking'
    BY <1>1, Limits DEF Asking
<1>4. Waiting'
    BY <1>1, Limits DEF Waiting
<1>5. Stamps'
    BY <1>1, Limits DEF Stamps, TypeOK
<1>6. Rotation'
    BY DEF Rotation
<1>7. Lifetime'
    BY <1>1, Limits DEF Lifetime, TypeOK
<1> QED BY <1>2, <1>3, <1>4, <1>5, <1>6, <1>7

LEMMA Keeps ==
    ASSUME IInv, [Next]_vars
    PROVE  IInv'
<1>1. CASE UNCHANGED vars
    BY <1>1 DEF vars, IInv, TypeOK, Asking, Waiting, Stamps, Rotation, Lifetime
<1> QED BY <1>1, MintKeeps, ShowKeeps, FailsKeeps, TimeoutKeeps, ReadKeeps, VerdictKeeps,
        AdvanceKeeps DEF Next

LEMMA Invariant == Spec => []IInv
<1>1. Init => IInv
    BY Starts
<1>2. IInv /\ [Next]_vars => IInv'
    BY Keeps
<1> QED BY <1>1, <1>2, PTL DEF Spec

---------------------------------------------------------------------------
(* The theorems.                                                           *)

\* The clock, the page's counters and the stamps have their types, for every limit and
\* every delay: the countdown never falls below zero and the page never outlives its end
\* (startCountdown, login.js).
THEOREM ChallengeTypes == Spec => []TypeOK
BY Invariant, PTL DEF IInv

\* Whatever the rotation period, the maximal age and the delays, as long as they leave the
\* margin: a code read off the screen is accepted when the phone delivers it
\* (verify_qr_challenge against startCountdown and refreshQR).
THEOREM ScansInTime == Spec => []ReadIsAccepted
<1>1. IInv => ReadIsAccepted
    <2>1. SUFFICES ASSUME IInv, scan # None PROVE Accepts(scan.stamp)
        BY DEF ReadIsAccepted
    <2>2. /\ now \in Nat /\ scan.stamp \in Nat /\ scan.read \in Nat /\ created \in Nat
        BY <2>1 DEF IInv, TypeOK, Lifetime
    <2>3. /\ scan.stamp <= scan.read /\ scan.read <= now /\ now <= scan.read + ScanDelay
          /\ scan.read <= scan.stamp + Second - 1 + 2 * RoundTrip + Display + Lateness
          /\ scan.read <= created + RoundTrip + PageTime(SESSION_EXPIRE)
        BY <2>1 DEF IInv, Stamps, Lifetime
    <2>4. now - scan.stamp <= Age /\ 0 <= now - scan.stamp
        BY <2>2, <2>3, Margins, Limits
    <2>5. PageTime(SESSION_EXPIRE) \in Nat /\ SESSION_TTL * Second \in Nat
        BY PageTimeStep, Limits
    <2>6. now <= created + SESSION_TTL * Second
        BY <2>2, <2>3, <2>5, Margins, Limits
    <2>7. Age = max_age * Second /\ -max_age * Second <= 0
        BY Limits DEF Age, Ticks
    <2> QED BY <2>2, <2>4, <2>6, <2>7 DEF Accepts
<1> QED BY <1>1, Invariant, PTL

\* Whatever the limits: a code that left the screen is refused once the difference of the
\* two limits has passed, also the last one of a page that gave up (login.js:3).
THEOREM OldCodesDie == Spec => []GoneIsRefused
<1>1. IInv => GoneIsRefused
    <2>1. SUFFICES ASSUME IInv, gone # None, now > gone.at + (max_age - QR_TTL) * Second
                   PROVE  ~Accepts(gone.stamp)
        BY DEF GoneIsRefused
    <2>2. now \in Nat /\ gone.stamp \in Nat /\ gone.at \in Nat
        BY <2>1 DEF IInv, TypeOK
    <2>3. gone.stamp + Display <= gone.at
        BY <2>1 DEF IInv, Stamps
    <2>4. now > gone.at + (Age - Display)
        BY <2>1, Margins
    <2>5. now - gone.stamp > Age
        BY <2>2, <2>3, <2>4, Limits
    <2>6. Age = max_age * Second
        BY DEF Age, Ticks
    <2> QED BY <2>2, <2>5, <2>6, Limits DEF Accepts
<1> QED BY <1>1, Invariant, PTL
=============================================================================
