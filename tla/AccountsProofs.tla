--------------------------- MODULE AccountsProofs ---------------------------
(***************************************************************************)
(* The invariant of Accounts and its theorems, for any number of browsers, *)
(* tabs, addresses and device tokens, and for both ways in which databases *)
(* give ids to rows.                                                       *)
(***************************************************************************)
EXTENDS Accounts, FiniteSetTheorems, WellFoundedInduction, TLAPS

---------------------------------------------------------------------------
(* The inductive invariant.                                                *)

\* Every row has a token of its own; where ids are not used again, the id of a row is
\* the number of its token.
RowsOK ==
    /\ users \in Seq(Emails) /\ UniqueEmails /\ issued \in 0..MaxDevices
    /\ devices \in [DOMAIN devices -> [user : DOMAIN users, token : 1..issued]]
    /\ DOMAIN devices \subseteq 1..issued
    /\ \A i, j \in DOMAIN devices : devices[i].token = devices[j].token => i = j
    /\ ~ReusesIds => \A i \in DOMAIN devices : devices[i].token = i

PlacesOK ==
    /\ told \subseteq 1..issued /\ jar \in [Browsers -> Jar] /\ page \in [Tabs -> Pages]
    /\ call = [t \in Tabs |-> call[t]]

Typed(t) ==
    call[t] # None =>
        call[t].op \in Ops /\ call[t] \in Request(call[t].op) \cup Response(call[t].op)

\* What a handler loaded: whoever else wrote since, the row is gone or still its user's.
LoadedOK(t) ==
    /\ At(t, "loaded") => call[t].op \in {"register", "enroll", "revoke"}
    /\ At(t, "committed") =>
        call[t].op = "enroll" /\ call[t].new \in 1..issued /\ call[t].token \in 1..issued
    /\ (At(t, "loaded") \/ At(t, "committed")) /\ call[t].op # "register" =>
        /\ call[t].row \in 1..issued /\ call[t].user \in DOMAIN users
        /\ call[t].op = "revoke" => call[t].user = call[t].cookies.access
        /\ ~ReusesIds /\ call[t].op = "enroll" => call[t].row = call[t].cookies.device
        /\ ~ReusesIds /\ call[t].row \in DOMAIN devices =>
            devices[call[t].row].user = call[t].user

\* What an answer says.
AnswerOK(t) ==
    At(t, "answered") =>
        /\ call[t].op = "enroll" /\ call[t].status = 200 => call[t].token \in 1..issued
        /\ call[t].status = 403 => page[t] = "register" \/ ~call[t].settled
        /\ call[t].op = "page" =>
            call[t].page \in Pages /\ (call[t].first \/ CookiesOf(t).csrf # None)

\* A page that is shown came with a CSRF cookie, or found one, and only a new start of
\* the browser takes it away.
CookieOK(t) ==
    /\ page[t] # "blank" => CookiesOf(t).csrf # None
    /\ At(t, "read") => call[t].op # "page"
    /\ call[t] # None /\ ~At(t, "answered") /\ call[t].op # "page" => page[t] # "blank"
    /\ (At(t, "sent") \/ At(t, "loaded") \/ At(t, "committed")) /\ call[t].cookies.csrf # None =>
        CookiesOf(t).csrf # None

\* The header of a settled request is the cookie it is sent with.
EchoOK(t) ==
    (At(t, "read") \/ At(t, "sent")) /\ call[t].op # "page" /\ call[t].settled
            /\ page[t] # "register" =>
        /\ call[t].header = CookiesOf(t).csrf /\ ~FirstCookieDue(t)
        /\ At(t, "sent") => call[t].cookies.csrf = call[t].header

CallOK(t) == Typed(t) /\ LoadedOK(t) /\ AnswerOK(t) /\ CookieOK(t) /\ EchoOK(t)

IInv == RowsOK /\ PlacesOK /\ \A t \in Tabs : CallOK(t)

---------------------------------------------------------------------------
(* Counting: ids and cookies never run out.                                *)

\* A function on a finite set has no more values than arguments.
LEMMA ImageFits ==
    ASSUME NEW S, IsFiniteSet(S), NEW f, DOMAIN f = S
    PROVE  /\ IsFiniteSet({f[x] : x \in S})
           /\ Cardinality({f[x] : x \in S}) <= Cardinality(S)
<1>1. [x \in S |-> f[x]] \in Surjection(S, {f[x] : x \in S})
  BY DEF Surjection
<1> QED
  BY <1>1, FS_Surjection

LEMMA Sizes ==
    /\ Cardinality(Emails) \in Nat /\ Cardinality(Browsers) \in Nat /\ Cardinality(Tabs) \in Nat
    /\ Csrf \subseteq Nat /\ None \notin Csrf
<1>1. /\ Cardinality(Emails) \in Nat /\ Cardinality(Browsers) \in Nat /\ Cardinality(Tabs) \in Nat
  BY AccountAssumption, FS_CardinalityType
<1> QED
  BY <1>1, AccountAssumption DEF Csrf

\* Ids of users are as many as there are addresses, because no two users share one.
LEMMA UsersFit ==
    ASSUME users \in Seq(Emails), UniqueEmails
    PROVE  Len(users) \in Nat /\ DOMAIN users = 1..Len(users) /\ DOMAIN users \subseteq UserIds
<1>1. Len(users) \in Nat /\ DOMAIN users = 1..Len(users) /\ users \in [1..Len(users) -> Emails]
  OBVIOUS
<1>2. users \in Injection(1..Len(users), Emails)
  BY <1>1 DEF UniqueEmails, Injection, IsInjective
<1>3. Cardinality(1..Len(users)) <= Cardinality(Emails)
  BY <1>2, FS_Injection, AccountAssumption
<1>4. Cardinality(1..Len(users)) = Len(users)
  BY <1>1, FS_Interval
<1>5. Len(users) <= Cardinality(Emails) /\ Cardinality(Emails) \in Nat
  BY <1>3, <1>4, Sizes
<1> QED
  BY <1>1, <1>5 DEF UserIds

\* A finite set of row ids has a largest one: Max is it.
LEMMA MaxIsLargest ==
    ASSUME NEW n \in Nat, NEW S \in SUBSET (0..n), S # {}
    PROVE  Max(S) \in S /\ \A x \in S : x <= Max(S)
<1> DEFINE Bounds == {k \in Nat : \A x \in S : x <= k}
<1>1. n \in Bounds
  OBVIOUS
<1>2. PICK m \in Bounds : \A k \in Bounds : ~(<<k, m>> \in OpToRel(<, Nat))
  BY <1>1, NatLessThanWellFounded, WFMin
<1>3. m \in Nat /\ \A x \in S : x <= m
  BY <1>2
<1>4. m \in S
  <2>1. SUFFICES ASSUME m \notin S PROVE FALSE
    OBVIOUS
  <2>2. \A x \in S : x \in Nat /\ x < m
    BY <1>3, <2>1
  <2>3. m > 0 /\ m - 1 \in Nat
    <3>1. PICK x \in S : TRUE
      OBVIOUS
    <3>2. x \in Nat /\ x < m /\ m \in Nat
      BY <1>3, <2>2
    <3> QED
      BY <3>2
  <2>5. \A x \in S : x <= m - 1
    BY <1>3, <2>2
  <2>4. m - 1 \in Bounds /\ <<m - 1, m>> \in OpToRel(<, Nat)
    BY <1>3, <2>3, <2>5 DEF OpToRel
  <2> QED
    BY <1>2, <2>4
<1>5. \E x \in S : \A y \in S : x >= y
  BY <1>3, <1>4
<1>6. Max(S) \in S /\ \A y \in S : Max(S) >= y
  BY <1>5 DEF Max
<1> QED
  BY <1>6

\* A new row gets an id that no row has, and with ids that are not given again the
\* number of its token.
LEMMA NewRowIsNew ==
    ASSUME RowsOK
    PROVE  /\ NewRow \in 1..(issued + 1) /\ NewRow \notin DOMAIN devices
           /\ ~ReusesIds => NewRow = issued + 1
<1>1. issued \in Nat /\ DOMAIN devices \cup {0} \in SUBSET (0..issued)
  BY AccountAssumption DEF RowsOK
<1>2. /\ Max(DOMAIN devices \cup {0}) \in 0..issued
      /\ \A i \in DOMAIN devices : i <= Max(DOMAIN devices \cup {0})
  BY <1>1, MaxIsLargest
<1>3. CASE ReusesIds
  <2>1. NewRow = Max(DOMAIN devices \cup {0}) + 1
    BY <1>3 DEF NewRow
  <2> QED
    BY <1>1, <1>2, <1>3, <2>1
<1>4. CASE ~ReusesIds
  BY <1>1, <1>4 DEF NewRow
<1> QED
  BY <1>3, <1>4

\* Some CSRF token is in no jar and in no request.
LEMMA FreshExists == FreshCsrf \in Csrf
<1> DEFINE InJars == [b \in Browsers |-> jar[b].csrf]
           Headers == [t \in Tabs |-> call[t].header]
           Sent == [t \in Tabs |-> call[t].cookies.csrf]
           J == {InJars[b] : b \in Browsers}
           H == {Headers[t] : t \in Tabs}
           K == {Sent[t] : t \in Tabs}
<1>1. /\ IsFiniteSet(J) /\ Cardinality(J) <= Cardinality(Browsers)
      /\ IsFiniteSet(H) /\ Cardinality(H) <= Cardinality(Tabs)
      /\ IsFiniteSet(K) /\ Cardinality(K) <= Cardinality(Tabs)
  <2>1. IsFiniteSet(J) /\ Cardinality(J) <= Cardinality(Browsers)
    BY AccountAssumption, ImageFits
  <2>2. IsFiniteSet(H) /\ Cardinality(H) <= Cardinality(Tabs)
    BY AccountAssumption, ImageFits
  <2>3. IsFiniteSet(K) /\ Cardinality(K) <= Cardinality(Tabs)
    BY AccountAssumption, ImageFits
  <2> QED
    BY <2>1, <2>2, <2>3
<1>2. PICK k \in Csrf : k \notin J \cup (H \cup K)
  <2> HIDE DEF J, H, K
  <2>1. /\ IsFiniteSet(H \cup K) /\ IsFiniteSet(J \cup (H \cup K))
        /\ Cardinality(H \cup K) = Cardinality(H) + Cardinality(K) - Cardinality(H \cap K)
        /\ Cardinality(J \cup (H \cup K)) = Cardinality(J) + Cardinality(H \cup K)
                                              - Cardinality(J \cap (H \cup K))
    BY <1>1, FS_Union
  <2>2. /\ Cardinality(J) \in Nat /\ Cardinality(H) \in Nat /\ Cardinality(K) \in Nat
        /\ Cardinality(H \cap K) \in Nat /\ Cardinality(J \cap (H \cup K)) \in Nat
    <3>1. IsFiniteSet(H \cap K) /\ IsFiniteSet(J \cap (H \cup K))
      BY <1>1, FS_Subset
    <3> QED
      BY <1>1, <3>1, FS_CardinalityType
  <2>3. Cardinality(J \cup (H \cup K)) <= Cardinality(Browsers) + 2 * Cardinality(Tabs)
    BY <1>1, <2>1, <2>2, Sizes
  <2>4. Cardinality(Csrf) = Cardinality(Browsers) + 2 * Cardinality(Tabs) + 1
    <3>1. Cardinality(Browsers) + 2 * Cardinality(Tabs) \in Nat
      BY Sizes
    <3> QED
      BY <3>1, FS_Interval DEF Csrf
  <2>5. ASSUME Csrf \subseteq J \cup (H \cup K) PROVE FALSE
    <3>1. Cardinality(Csrf) <= Cardinality(J \cup (H \cup K))
      BY <2>1, <2>5, FS_Subset
    <3>2. Cardinality(J \cup (H \cup K)) \in Nat
      BY <2>1, FS_CardinalityType
    <3> QED
      BY <2>3, <2>4, <3>1, <3>2, Sizes
  <2> QED
    BY <2>5
<1>3. /\ \A b \in Browsers : jar[b].csrf # k
      /\ \A t \in Tabs : call[t] = None \/ At(t, "answered")
                           \/ k \notin {call[t].header, call[t].cookies.csrf}
  BY <1>2
<1> QED
  BY <1>3 DEF FreshCsrf

---------------------------------------------------------------------------
(* What a request and an answer are made of.                               *)

LEMMA RequestFields ==
    ASSUME NEW t, Typed(t), call[t] # None, call[t].stage # "answered"
    PROVE  /\ call[t].op \in Ops /\ call[t] \in Request(call[t].op)
           /\ call[t].stage \in {"read", "sent", "loaded", "committed"}
           /\ call[t].arg \in Arguments(call[t].op) /\ call[t].header \in Csrf \cup {None}
           /\ call[t].settled \in BOOLEAN /\ call[t].cookies \in Jar
           /\ call[t].row \in Tokens \cup {None} /\ call[t].user \in UserIds \cup {None}
           /\ call[t].new \in Tokens \cup {None} /\ call[t].token \in Tokens \cup {None}
BY DEF Typed, Request, Response

LEMMA AnswerFields ==
    ASSUME NEW t, Typed(t), At(t, "answered")
    PROVE  /\ call[t].op \in Ops /\ call[t].page \in Pages \cup {None}
           /\ call[t].settled \in BOOLEAN /\ call[t].first \in BOOLEAN
           /\ call[t].token \in Tokens \cup {None}
           /\ call[t].status \in {200, 201, 401, 403, 404, 409, 500}
BY DEF Typed, At, Request, Response

LEMMA JarFields ==
    ASSUME PlacesOK, NEW b \in Browsers
    PROVE  /\ jar[b] \in Jar /\ jar[b].csrf \in Csrf \cup {None}
           /\ jar[b].access \in UserIds \cup {Expired, None} /\ jar[b].device \in Tokens \cup {None}
BY DEF PlacesOK, Jar

---------------------------------------------------------------------------
(* A step of one tab.                                                      *)

\* Users and tokens are only added, and where ids are not given again a row that was
\* numbered before the step is the row it was, or gone.
Grows ==
    /\ DOMAIN users \subseteq DOMAIN users' /\ issued' \in Nat /\ issued <= issued'
    /\ ~ReusesIds => \A i \in DOMAIN devices' :
        i <= issued => i \in DOMAIN devices /\ devices'[i] = devices[i]

\* What a step of tab t leaves to the other tabs: only an answer that brings a first
\* CSRF cookie changes the CSRF cookie of their browser, and no such answer gets on its
\* way while the browser has one.
TabStep(t) ==
    /\ Grows
    /\ \A o \in Tabs : o # t => call'[o] = call[o] /\ page'[o] = page[o]
    /\ \A b \in Browsers : \/ jar'[b].csrf = jar[b].csrf
                           \/ b = BrowserOf[t] /\ BringsCookie(t) /\ jar'[b].csrf # None
    /\ BringsCookie(t)' => BringsCookie(t) \/ CookiesOf(t).csrf = None

LEMMA OthersKeep ==
    ASSUME IInv, NEW t \in Tabs, TabStep(t), NEW o \in Tabs, o # t
    PROVE  CallOK(o)'
<1>1. CallOK(o) /\ RowsOK /\ BrowserOf[o] \in Browsers /\ BrowserOf[t] \in Browsers
  BY AccountAssumption DEF IInv
<1>2. call'[o] = call[o] /\ page'[o] = page[o]
  BY DEF TabStep
<1>3. \/ jar'[BrowserOf[o]].csrf = jar[BrowserOf[o]].csrf
      \/ BrowserOf[o] = BrowserOf[t] /\ BringsCookie(t) /\ jar'[BrowserOf[o]].csrf # None
  BY <1>1 DEF TabStep
<1>4. /\ DOMAIN users \subseteq DOMAIN users' /\ issued \in Nat
      /\ ~ReusesIds => \A i \in DOMAIN devices' :
            i <= issued => i \in DOMAIN devices /\ devices'[i] = devices[i]
  BY <1>1, AccountAssumption DEF TabStep, Grows, RowsOK
<1>5. 1..issued \subseteq 1..issued'
  <2>1. issued' \in Nat /\ issued <= issued'
    BY DEF TabStep, Grows
  <2>2. SUFFICES ASSUME NEW i \in 1..issued PROVE i \in 1..issued'
    OBVIOUS
  <2> QED
    BY <1>4, <2>1
<1>6. Typed(o)'
  BY <1>1, <1>2 DEF CallOK, Typed
<1>7. LoadedOK(o)'
  BY <1>1, <1>2, <1>4, <1>5 DEF CallOK, LoadedOK, At
<1>8. AnswerOK(o)'
  BY <1>1, <1>2, <1>3, <1>5 DEF CallOK, AnswerOK, At, CookiesOf
<1>9. CookieOK(o)'
  BY <1>1, <1>2, <1>3 DEF CallOK, CookieOK, At, CookiesOf
<1>10. EchoOK(o)'
  <2>1. SUFFICES ASSUME At(o, "read") \/ At(o, "sent"), call[o].op # "page",
                        call[o].settled, page[o] # "register"
                 PROVE  /\ call[o].header = CookiesOf(o)'.csrf /\ ~FirstCookieDue(o)'
                        /\ At(o, "sent") => call[o].cookies.csrf = call[o].header
    BY <1>2 DEF EchoOK, At
  <2>2. /\ call[o].header = CookiesOf(o).csrf /\ ~FirstCookieDue(o)
        /\ At(o, "sent") => call[o].cookies.csrf = call[o].header
    BY <1>1, <2>1 DEF CallOK, EchoOK
  <2>3. CookiesOf(o).csrf # None
    BY <1>1, <2>1 DEF CallOK, CookieOK, At
  <2>4. CookiesOf(o)'.csrf = CookiesOf(o).csrf
    BY <1>3, <2>2 DEF FirstCookieDue, CookiesOf
  <2>5. ASSUME NEW q \in Tabs, BrowserOf[q] = BrowserOf[o], BringsCookie(q)' PROVE FALSE
    <3>1. ~BringsCookie(q)
      BY <2>2, <2>5 DEF FirstCookieDue
    <3>2. CASE q = t
      <4>1. CookiesOf(t).csrf = None
        BY <2>5, <3>1, <3>2 DEF TabStep
      <4> QED
        BY <2>3, <2>5, <3>2, <4>1 DEF CookiesOf
    <3>3. CASE q # t
      <4>1. call'[q] = call[q]
        BY <3>3 DEF TabStep
      <4> QED
        BY <2>5, <3>1, <4>1 DEF BringsCookie
    <3> QED
      BY <3>2, <3>3
  <2> QED
    BY <2>2, <2>4, <2>5 DEF FirstCookieDue
<1> QED
  BY <1>6, <1>7, <1>8, <1>9, <1>10 DEF CallOK

LEMMA StepKeeps ==
    ASSUME IInv, NEW t \in Tabs, TabStep(t), RowsOK', PlacesOK', CallOK(t)'
    PROVE  IInv'
BY OthersKeep DEF IInv

LEMMA RowsSame ==
    ASSUME IInv, UNCHANGED rows
    PROVE  RowsOK' /\ Grows
<1>1. users' = users /\ devices' = devices /\ issued' = issued
  BY DEF rows
<1>2. RowsOK /\ issued \in Nat
  BY AccountAssumption DEF IInv, RowsOK
<1>3. RowsOK'
  BY <1>1, <1>2 DEF RowsOK, UniqueEmails
<1> QED
  BY <1>1, <1>2, <1>3 DEF Grows

\* A step that changes a request and nothing else.
LEMMA QuietKeeps ==
    ASSUME IInv, NEW t \in Tabs, UNCHANGED <<rows, told, jar, page>>,
           NEW c, call' = [call EXCEPT ![t] = c], CallOK(t)',
           BringsCookie(t)' => BringsCookie(t) \/ CookiesOf(t).csrf = None
    PROVE  IInv'
<1>1. RowsOK' /\ Grows
  BY RowsSame
<1>2. PlacesOK'
  <2>1. PlacesOK /\ issued' = issued /\ told' = told /\ jar' = jar /\ page' = page
    BY DEF IInv, rows
  <2>2. DOMAIN call = Tabs
    BY <2>1 DEF PlacesOK
  <2>3. call' = [o \in Tabs |-> call'[o]]
    BY <2>2
  <2> QED
    BY <2>1, <2>3 DEF PlacesOK
<1>3. TabStep(t)
  BY <1>1 DEF TabStep
<1> QED
  BY <1>1, <1>2, <1>3, StepKeeps

---------------------------------------------------------------------------
(* The pages.                                                              *)

\* A new request echoes the CSRF cookie, unless it loads a page or comes from the
\* register page, which sends no header.
LEMMA BeginKeeps ==
    ASSUME IInv, NEW t \in Tabs, NEW op \in Ops, NEW arg \in Arguments(op), NEW header,
           NEW stage \in {"read", "sent"}, (op = "page") <=> (stage = "sent"),
           header \in {None, CookiesOf(t).csrf}, op # "page" => page[t] # "blank",
           op # "page" => page[t] = "register" \/ header = CookiesOf(t).csrf,
           Begin(t, op, arg, header, stage)
    PROVE  IInv'
<1> DEFINE c == [op |-> op, arg |-> arg, header |-> header, settled |-> ~FirstCookieDue(t),
             cookies |-> IF stage = "sent" THEN CookiesOf(t) ELSE NoCookies,
             stage |-> stage, row |-> None, user |-> None, new |-> None, token |-> None]
<1>1. /\ CallOK(t) /\ PlacesOK /\ BrowserOf[t] \in Browsers /\ CookiesOf(t) \in Jar
      /\ CookiesOf(t).csrf \in Csrf \cup {None} /\ NoCookies \in Jar
  BY AccountAssumption, JarFields DEF IInv, CookiesOf, NoCookies, Jar
<1>2. call' = [call EXCEPT ![t] = c] /\ UNCHANGED <<rows, told, jar, page>>
  BY DEF Begin
<1>3. /\ call'[t] = c /\ jar' = jar /\ page' = page /\ CookiesOf(t)' = CookiesOf(t)
      /\ \A o \in Tabs : o # t => call'[o] = call[o]
  BY <1>1, <1>2 DEF PlacesOK, CookiesOf
<1>4. c \in Request(op)
  BY <1>1 DEF Request
<1>5. /\ call'[t].op = op /\ call'[t].header = header /\ call'[t].settled = ~FirstCookieDue(t)
      /\ call'[t].stage = stage /\ call'[t] \in Request(op)
      /\ stage = "sent" => call'[t].cookies = CookiesOf(t)
  BY <1>3, <1>4
<1> HIDE DEF c
<1>6. BringsCookie(t)' => CookiesOf(t).csrf = None
  BY <1>5 DEF BringsCookie
<1>7. Typed(t)'
  BY <1>5 DEF Typed
<1>8. LoadedOK(t)' /\ AnswerOK(t)'
  BY <1>5 DEF LoadedOK, AnswerOK, At
<1>9. CookieOK(t)'
  BY <1>1, <1>3, <1>5 DEF CallOK, CookieOK, At
<1>10. EchoOK(t)'
  <2>1. SUFFICES ASSUME op # "page", ~FirstCookieDue(t), page[t] # "register"
                 PROVE  header = CookiesOf(t).csrf /\ ~FirstCookieDue(t)'
    BY <1>3, <1>5 DEF EchoOK, At
  <2>2. \A o \in Tabs : o # t => (BringsCookie(o)' <=> BringsCookie(o))
    BY <1>3 DEF BringsCookie
  <2>3. ~BringsCookie(t)'
    BY <1>5, <2>1 DEF BringsCookie
  <2> QED
    BY <2>1, <2>2, <2>3 DEF FirstCookieDue
<1> QED
  BY <1>2, <1>6, <1>7, <1>8, <1>9, <1>10, QuietKeeps DEF CallOK

LEMMA PagesKeep ==
    ASSUME IInv, NEW t \in Tabs,
           \/ \E p \in Pages : Open(t, p)
           \/ RegisterForm(t) \/ SignupForm(t) \/ SigninForm(t) \/ revokeDevice(t) \/ btnAddDevice(t)
    PROVE  IInv'
<1>1. CASE \E p \in Pages : Open(t, p)
  BY <1>1, BeginKeeps DEF Open, Ops, Arguments
<1>2. CASE RegisterForm(t)
  BY <1>2, BeginKeeps DEF RegisterForm, Ops, Arguments
<1>3. CASE SignupForm(t)
  BY <1>3, BeginKeeps DEF SignupForm, Echoes, Ops, Arguments
<1>4. CASE SigninForm(t)
  BY <1>4, BeginKeeps DEF SigninForm, Echoes, Ops, Arguments
<1>5. CASE revokeDevice(t)
  BY <1>5, BeginKeeps DEF revokeDevice, Echoes, Ops, Arguments
<1>6. CASE btnAddDevice(t)
  BY <1>6, BeginKeeps DEF btnAddDevice, Echoes, Ops, Arguments
<1> QED
  BY <1>1, <1>2, <1>3, <1>4, <1>5, <1>6

LEMMA SendKeeps ==
    ASSUME IInv, NEW t \in Tabs, Send(t)
    PROVE  IInv'
<1> DEFINE c == [call[t] EXCEPT !.stage = "sent", !.cookies = CookiesOf(t)]
<1>1. /\ CallOK(t) /\ PlacesOK /\ CookiesOf(t) \in Jar /\ At(t, "read")
      /\ CookiesOf(t).csrf \in Csrf \cup {None}
  BY AccountAssumption, JarFields DEF IInv, CookiesOf, Send
<1>2. call' = [call EXCEPT ![t] = c] /\ UNCHANGED <<rows, told, jar, page>>
  BY DEF Send
<1>3. /\ call'[t] = c /\ jar' = jar /\ page' = page /\ CookiesOf(t)' = CookiesOf(t)
      /\ \A o \in Tabs : o # t => call'[o] = call[o]
  BY <1>1, <1>2 DEF PlacesOK, CookiesOf
<1>4. call[t].op \in Ops /\ call[t] \in Request(call[t].op) /\ call[t] # None
  BY <1>1, RequestFields DEF CallOK, At
<1>5. /\ c.op = call[t].op /\ c.header = call[t].header /\ c.settled = call[t].settled
      /\ c.stage = "sent" /\ c.cookies = CookiesOf(t) /\ c \in Request(call[t].op)
  BY <1>1, <1>4 DEF Request
<1> HIDE DEF c
<1>6. BringsCookie(t)' => CookiesOf(t).csrf = None
  BY <1>3, <1>5 DEF BringsCookie
<1>7. Typed(t)'
  BY <1>3, <1>4, <1>5 DEF Typed
<1>8. LoadedOK(t)' /\ AnswerOK(t)'
  BY <1>3, <1>5 DEF LoadedOK, AnswerOK, At
<1>9. CookieOK(t)'
  BY <1>1, <1>3, <1>4, <1>5 DEF CallOK, CookieOK, At
<1>10. EchoOK(t)'
  <2>1. SUFFICES ASSUME call[t].op # "page", call[t].settled, page[t] # "register"
                 PROVE  /\ call[t].header = CookiesOf(t).csrf /\ ~FirstCookieDue(t)'
                        /\ CookiesOf(t).csrf = call[t].header
    BY <1>3, <1>5 DEF EchoOK, At
  <2>2. call[t].header = CookiesOf(t).csrf /\ ~FirstCookieDue(t)
    BY <1>1, <2>1 DEF CallOK, EchoOK
  <2>3. CookiesOf(t).csrf # None
    BY <1>1, <1>4, <2>1 DEF CallOK, CookieOK, At
  <2>4. \A o \in Tabs : o # t => (BringsCookie(o)' <=> BringsCookie(o))
    BY <1>3 DEF BringsCookie
  <2> QED
    BY <1>6, <2>2, <2>3, <2>4 DEF FirstCookieDue
<1> QED
  BY <1>2, <1>6, <1>7, <1>8, <1>9, <1>10, QuietKeeps DEF CallOK

---------------------------------------------------------------------------
(* The server.                                                             *)

\* However a handler or the middleware answers, and whatever it committed with it.
LEMMA AnswerKeeps ==
    ASSUME IInv, NEW t \in Tabs, call[t] # None, call[t].stage \in {"sent", "loaded", "committed"},
           NEW token \in Tokens \cup {None}, NEW status \in {200, 201, 401, 403, 404, 409, 500},
           Respond(t, status, token), UNCHANGED <<told, jar, page>>, RowsOK', Grows,
           call[t].op = "enroll" /\ status = 200 => token \in 1..issued',
           call[t].op = "page" => status = 200,
           status = 403 => page[t] = "register" \/ ~call[t].settled
    PROVE  IInv'
<1> DEFINE c == [op |-> call[t].op, page |-> IF call[t].op = "page" THEN call[t].arg ELSE None,
        stage |-> "answered", settled |-> call[t].settled, token |-> token, status |-> status,
        first |-> call[t].cookies.csrf = None /\ status \notin {403, 500}]
<1>1. /\ CallOK(t) /\ PlacesOK /\ RowsOK /\ call[t].op \in Ops /\ call[t].settled \in BOOLEAN
      /\ call[t].arg \in Arguments(call[t].op)
  BY RequestFields DEF IInv, CallOK
<1>2. call' = [call EXCEPT ![t] = c]
  BY DEF Respond
<1>3. /\ call'[t] = c /\ jar' = jar /\ page' = page /\ CookiesOf(t)' = CookiesOf(t)
      /\ \A o \in Tabs : o # t => call'[o] = call[o]
  BY <1>1, <1>2 DEF PlacesOK, CookiesOf
<1>4. c \in Response(call[t].op)
  BY <1>1 DEF Response, Arguments
<1>5. /\ call'[t].op = call[t].op /\ call'[t].stage = "answered" /\ call'[t].status = status
      /\ call'[t].settled = call[t].settled /\ call'[t].token = token
      /\ call'[t].first = (call[t].cookies.csrf = None /\ status \notin {403, 500})
      /\ call'[t] \in Response(call[t].op)
  BY <1>3, <1>4
<1> HIDE DEF c
<1>6. Typed(t)'
  BY <1>1, <1>5 DEF Typed
<1>7. LoadedOK(t)' /\ EchoOK(t)'
  BY <1>5 DEF LoadedOK, EchoOK, At
<1>8. AnswerOK(t)'
  <2>1. call[t].op = "page" => call'[t].first \/ CookiesOf(t).csrf # None
    <3>1. CASE call[t].cookies.csrf # None
      BY <1>1, <3>1 DEF CallOK, CookieOK, At
    <3>2. ASSUME call[t].cookies.csrf = None, status = 200 PROVE call'[t].first
      <4>1. (call[t].cookies.csrf = None /\ status \notin {403, 500}) = TRUE
        BY <3>2
      <4> QED
        BY <1>5, <4>1
    <3> QED
      BY <3>1, <3>2
  <2>2. call[t].op = "page" => call'[t].page \in Pages
    BY <1>1, <1>3 DEF c, Arguments
  <2> QED
    BY <1>3, <1>5, <2>1, <2>2 DEF AnswerOK, At
<1>9. CookieOK(t)'
  BY <1>1, <1>3, <1>5 DEF CallOK, CookieOK, At
<1>10. TabStep(t)
  <2>1. BringsCookie(t)' => BringsCookie(t)
    BY <1>5 DEF BringsCookie
  <2> QED
    BY <1>3, <2>1 DEF TabStep
<1>11. PlacesOK'
  <2>1. DOMAIN call = Tabs
    BY <1>1 DEF PlacesOK
  <2>2. call' = [o \in Tabs |-> call'[o]]
    BY <1>2, <2>1
  <2>3. 1..issued \subseteq 1..issued'
    <3>1. issued \in Nat /\ issued' \in Nat /\ issued <= issued'
      BY <1>1, AccountAssumption DEF Grows, RowsOK
    <3> QED
      BY <3>1
  <2> QED
    BY <1>1, <2>2, <2>3 DEF PlacesOK
<1> QED
  BY <1>6, <1>7, <1>8, <1>9, <1>10, <1>11, StepKeeps DEF CallOK

LEMMA QuietAnswerKeeps ==
    ASSUME IInv, NEW t \in Tabs, call[t] # None, call[t].stage \in {"sent", "loaded", "committed"},
           NEW token \in Tokens \cup {None}, NEW status \in {200, 201, 401, 403, 404, 409, 500},
           Respond(t, status, token), UNCHANGED <<rows, told, jar, page>>,
           call[t].op = "enroll" /\ status = 200 => token \in 1..issued,
           call[t].op = "page" => status = 200,
           status = 403 => page[t] = "register" \/ ~call[t].settled
    PROVE  IInv'
<1>1. RowsOK' /\ Grows /\ issued' = issued
  BY RowsSame DEF rows
<1> QED
  BY <1>1, AnswerKeeps

\* The middleware refuses no settled request of a page other than register.
LEMMA RefuseKeeps ==
    ASSUME IInv, NEW t \in Tabs, Refuse(t)
    PROVE  IInv'
<1>1. CallOK(t) /\ At(t, "sent") /\ call[t].op # "page" /\ ~Passes(call[t])
  BY DEF Refuse, IInv, Passes
<1>2. page[t] = "register" \/ ~call[t].settled
  <2>1. SUFFICES ASSUME page[t] # "register", call[t].settled PROVE FALSE
    BY <1>1, RequestFields DEF CallOK, At
  <2>2. /\ call[t].header = CookiesOf(t).csrf /\ call[t].cookies.csrf = call[t].header
        /\ CookiesOf(t).csrf # None
    BY <1>1, <2>1 DEF CallOK, EchoOK, CookieOK, At
  <2> QED
    BY <1>1, <2>2 DEF Passes
<1> QED
  BY <1>1, <1>2, QuietAnswerKeeps DEF Refuse, Answer, At

LEMMA ReadsKeep ==
    ASSUME IInv, NEW t \in Tabs, ServePage(t) \/ lookup(t)
    PROVE  IInv'
<1>1. CASE ServePage(t)
  BY <1>1, QuietAnswerKeeps DEF ServePage, Arrives, Answer, At
<1>2. CASE lookup(t)
  <2>1. CASE Registered(call[t].arg)
    BY <1>2, <2>1, QuietAnswerKeeps DEF lookup, Arrives, Answer, At
  <2>2. CASE ~Registered(call[t].arg)
    BY <1>2, <2>2, QuietAnswerKeeps DEF lookup, Arrives, Answer, At
  <2> QED
    BY <2>1, <2>2
<1> QED
  BY <1>1, <1>2

\* What a handler loads is true when it loads it.
LEMMA LoadKeeps ==
    ASSUME IInv, NEW t \in Tabs, At(t, "sent"), call[t].op \in {"register", "enroll", "revoke"},
           NEW row \in Tokens \cup {None}, NEW user \in UserIds \cup {None},
           Loads(t, row, user), UNCHANGED <<rows, told, jar, page>>,
           call[t].op # "register" =>
               /\ row \in DOMAIN devices /\ user = devices[row].user
               /\ call[t].op = "revoke" => user = call[t].cookies.access
               /\ call[t].op = "enroll" => devices[row].token = call[t].cookies.device
    PROVE  IInv'
<1> DEFINE c == [call[t] EXCEPT !.stage = "loaded", !.header = None, !.row = row, !.user = user]
<1>1. CallOK(t) /\ PlacesOK /\ RowsOK
  BY DEF IInv
<1>2. call' = [call EXCEPT ![t] = c]
  BY DEF Loads
<1>3. /\ call'[t] = c /\ jar' = jar /\ page' = page /\ CookiesOf(t)' = CookiesOf(t)
      /\ users' = users /\ devices' = devices /\ issued' = issued
  BY <1>1, <1>2 DEF PlacesOK, CookiesOf, rows
<1>4. call[t].op \in Ops /\ call[t] \in Request(call[t].op) /\ call[t] # None
  BY <1>1, RequestFields DEF CallOK, At
<1>5. /\ c.op = call[t].op /\ c.stage = "loaded" /\ c.cookies = call[t].cookies
      /\ c.row = row /\ c.user = user /\ c \in Request(call[t].op)
  BY <1>4 DEF Request
<1> HIDE DEF c
<1>6. BringsCookie(t)' => BringsCookie(t)
  BY <1>3, <1>4, <1>5 DEF BringsCookie, At
<1>7. Typed(t)'
  BY <1>3, <1>4, <1>5 DEF Typed
<1>8. LoadedOK(t)'
  <2>1. call[t].op # "register" =>
          /\ row \in 1..issued /\ user \in DOMAIN users
          /\ ~ReusesIds => devices[row].token = row
    BY <1>1 DEF RowsOK
  <2> QED
    BY <1>3, <1>5, <2>1 DEF LoadedOK, At
<1>9. AnswerOK(t)' /\ EchoOK(t)'
  BY <1>3, <1>5 DEF AnswerOK, EchoOK, At
<1>10. CookieOK(t)'
  BY <1>1, <1>3, <1>4, <1>5 DEF CallOK, CookieOK, At
<1> QED
  BY <1>2, <1>6, <1>7, <1>8, <1>9, <1>10, QuietKeeps DEF CallOK

LEMMA LoadsKeep ==
    ASSUME IInv, NEW t \in Tabs, LoadRegister(t) \/ LoadEnroll(t) \/ LoadRevoke(t)
    PROVE  IInv'
<1>1. /\ DOMAIN devices \subseteq Tokens
      /\ \A i \in DOMAIN devices : devices[i].user \in UserIds
  <2>1. RowsOK /\ issued \in Nat /\ issued <= MaxDevices
    BY AccountAssumption DEF IInv, RowsOK
  <2>2. DOMAIN users \subseteq UserIds
    BY <2>1, UsersFit DEF RowsOK
  <2> QED
    BY <2>1, <2>2, AccountAssumption DEF RowsOK, Tokens
<1>2. CASE LoadRegister(t)
  <2>1. At(t, "sent") /\ call[t].op = "register" /\ UNCHANGED <<rows, told, jar, page>>
    BY <1>2 DEF LoadRegister, Arrives
  <2>2. CASE Respond(t, 409, None)
    BY <2>1, <2>2, QuietAnswerKeeps DEF At
  <2>3. CASE Loads(t, None, None)
    BY <2>1, <2>3, LoadKeeps
  <2> QED
    BY <1>2, <2>2, <2>3 DEF LoadRegister, Answer
<1>3. CASE LoadEnroll(t)
  <2>1. At(t, "sent") /\ call[t].op = "enroll" /\ UNCHANGED <<rows, told, jar, page>>
    BY <1>3 DEF LoadEnroll, Arrives
  <2>2. CASE Respond(t, 401, None)
    BY <2>1, <2>2, QuietAnswerKeeps DEF At
  <2>3. ASSUME NEW i \in current_device(call[t]), Loads(t, i, devices[i].user) PROVE IInv'
    BY <1>1, <2>1, <2>3, LoadKeeps DEF current_device
  <2> QED
    BY <1>3, <2>2, <2>3 DEF LoadEnroll, Answer
<1>4. CASE LoadRevoke(t)
  <2>1. At(t, "sent") /\ call[t].op = "revoke" /\ UNCHANGED <<rows, told, jar, page>>
    BY <1>4 DEF LoadRevoke, Arrives
  <2>2. CASE Respond(t, 401, None) \/ Respond(t, 404, None)
    BY <2>1, <2>2, QuietAnswerKeeps DEF At
  <2>3. ASSUME NEW i \in OwnDevice(call[t]), Loads(t, i, devices[i].user) PROVE IInv'
    BY <1>1, <2>1, <2>3, LoadKeeps DEF OwnDevice
  <2> QED
    BY <1>4, <2>2, <2>3 DEF LoadRevoke, Answer
<1> QED
  BY <1>2, <1>3, <1>4

\* An insert: the ids and the tokens stay apart, and nothing that was there moves.
LEMMA InsertKeepsRows ==
    ASSUME RowsOK, NEW user, InsertDevice(user), user \in DOMAIN users',
           \/ users' = users
           \/ \E e \in Emails : ~Registered(e) /\ users' = Append(users, e)
    PROVE  RowsOK' /\ Grows /\ issued' \in Tokens /\ issued' \in 1..issued'
<1>1. /\ issued \in Nat /\ issued < MaxDevices /\ issued' = issued + 1 /\ MaxDevices \in Nat
      /\ DOMAIN devices \subseteq 1..issued
      /\ devices' = [i \in DOMAIN devices \cup {NewRow} |->
            IF i = NewRow THEN [user |-> user, token |-> issued'] ELSE devices[i]]
  BY AccountAssumption DEF RowsOK, InsertDevice
<1>2. /\ NewRow \in 1..(issued + 1) /\ NewRow \notin DOMAIN devices
      /\ ~ReusesIds => NewRow = issued + 1
  BY NewRowIsNew
<1>3. /\ users' \in Seq(Emails) /\ UniqueEmails' /\ DOMAIN users \subseteq DOMAIN users'
  <2>1. users \in Seq(Emails) /\ UniqueEmails
    BY DEF RowsOK
  <2>2. CASE users' = users
    BY <2>1, <2>2 DEF UniqueEmails
  <2>3. ASSUME NEW e \in Emails, ~Registered(e), users' = Append(users, e)
        PROVE  /\ users' \in Seq(Emails) /\ UniqueEmails' /\ DOMAIN users \subseteq DOMAIN users'
    <3>1. /\ users' \in Seq(Emails) /\ Len(users) \in Nat
          /\ DOMAIN users = 1..Len(users) /\ DOMAIN users' = 1..(Len(users) + 1)
          /\ users'[Len(users) + 1] = e /\ \A u \in DOMAIN users : users'[u] = users[u]
      BY <2>1, <2>3
    <3>2. \A u \in DOMAIN users : users[u] # e
      BY <2>3 DEF Registered
    <3>3. \A u \in DOMAIN users' : u \in DOMAIN users \/ u = Len(users) + 1
      BY <3>1
    <3>4. UniqueEmails'
      BY <2>1, <3>1, <3>2, <3>3 DEF UniqueEmails
    <3> QED
      BY <3>1, <3>4
  <2> QED
    BY <2>2, <2>3
<1>4. /\ DOMAIN devices' = DOMAIN devices \cup {NewRow}
      /\ devices'[NewRow] = [user |-> user, token |-> issued + 1]
      /\ \A i \in DOMAIN devices : devices'[i] = devices[i]
  BY <1>1, <1>2
<1>5. \A i \in DOMAIN devices :
        /\ devices[i] \in [user : DOMAIN users, token : 1..issued]
        /\ devices[i].user \in DOMAIN users /\ devices[i].token \in 1..issued
  BY DEF RowsOK
<1>6. devices' \in [DOMAIN devices' -> [user : DOMAIN users', token : 1..issued']]
  <2>1. devices' = [i \in DOMAIN devices' |-> devices'[i]]
    BY <1>1
  <2>2. \A i \in DOMAIN devices : devices'[i] \in [user : DOMAIN users', token : 1..issued']
    BY <1>1, <1>3, <1>4, <1>5
  <2>3. devices'[NewRow] \in [user : DOMAIN users', token : 1..issued']
    BY <1>1, <1>4
  <2> QED
    BY <1>4, <2>1, <2>2, <2>3
<1>7. \A i, j \in DOMAIN devices' : devices'[i].token = devices'[j].token => i = j
  <2>1. \A i, j \in DOMAIN devices : devices[i].token = devices[j].token => i = j
    BY DEF RowsOK
  <2>2. \A i \in DOMAIN devices : devices'[i].token # issued + 1
    BY <1>1, <1>4, <1>5
  <2>3. devices'[NewRow].token = issued + 1
    BY <1>4
  <2> QED
    BY <1>4, <2>1, <2>2, <2>3
<1>8. ~ReusesIds => \A i \in DOMAIN devices' : devices'[i].token = i
  BY <1>2, <1>4 DEF RowsOK
<1>9. DOMAIN devices' \subseteq 1..issued'
  BY <1>1, <1>2, <1>4
<1>10. ~ReusesIds => \A i \in DOMAIN devices' :
            i <= issued => i \in DOMAIN devices /\ devices'[i] = devices[i]
  BY <1>1, <1>2, <1>4
<1>11. issued' \in Nat /\ issued' \in 0..MaxDevices /\ issued <= issued'
  BY <1>1
<1>12. RowsOK'
  BY <1>3, <1>6, <1>7, <1>8, <1>9, <1>11 DEF RowsOK
<1>13. issued' \in Tokens /\ issued' \in 1..issued'
  BY <1>1 DEF Tokens
<1>14. Grows
  BY <1>3, <1>10, <1>11 DEF Grows
<1> QED
  BY <1>12, <1>13, <1>14

LEMMA CommitRegisterKeeps ==
    ASSUME IInv, NEW t \in Tabs, CommitRegister(t)
    PROVE  IInv'
<1>1. /\ At(t, "loaded") /\ call[t].op = "register" /\ UNCHANGED <<told, jar, page>>
      /\ call[t].arg \in Emails
  BY RequestFields DEF CommitRegister, IInv, CallOK, At, Arguments
<1>2. CASE Registered(call[t].arg)
  BY <1>1, <1>2, QuietAnswerKeeps DEF CommitRegister, Answer, At
<1>3. CASE ~Registered(call[t].arg)
  <2>1. /\ users' = Append(users, call[t].arg) /\ InsertDevice(Len(users'))
        /\ Respond(t, 201, issued')
    BY <1>3 DEF CommitRegister
  <2>2. RowsOK /\ Len(users') \in DOMAIN users'
    <3>1. users \in Seq(Emails) /\ RowsOK
      BY DEF IInv, RowsOK
    <3>2. users' \in Seq(Emails) /\ Len(users') = Len(users) + 1 /\ Len(users) \in Nat
      BY <1>1, <2>1, <3>1
    <3> QED
      BY <3>1, <3>2
  <2>3. RowsOK' /\ Grows /\ issued' \in Tokens /\ issued' \in 1..issued'
    BY <1>1, <1>3, <2>1, <2>2, InsertKeepsRows
  <2> QED
    BY <1>1, <2>1, <2>3, AnswerKeeps DEF At
<1> QED
  BY <1>2, <1>3

LEMMA CommitEnrollKeeps ==
    ASSUME IInv, NEW t \in Tabs, CommitEnroll(t)
    PROVE  IInv'
<1> DEFINE c == [call[t] EXCEPT !.stage = "committed", !.new = NewRow, !.token = issued']
<1>1. /\ At(t, "loaded") /\ call[t].op = "enroll" /\ InsertDevice(call[t].user)
      /\ call' = [call EXCEPT ![t] = c] /\ UNCHANGED <<users, told, jar, page>>
  BY DEF CommitEnroll
<1>2. CallOK(t) /\ PlacesOK /\ RowsOK /\ issued \in Nat /\ issued' = issued + 1
  BY <1>1, AccountAssumption DEF IInv, RowsOK, InsertDevice
<1>3. /\ call[t].user \in DOMAIN users /\ call[t].row \in 1..issued
      /\ ~ReusesIds => call[t].row = call[t].cookies.device
      /\ ~ReusesIds /\ call[t].row \in DOMAIN devices => devices[call[t].row].user = call[t].user
  BY <1>1, <1>2 DEF CallOK, LoadedOK
<1>4. RowsOK' /\ Grows /\ issued' \in Tokens /\ issued' \in 1..issued'
  BY <1>1, <1>2, <1>3, InsertKeepsRows
<1>5. NewRow \in 1..issued' /\ NewRow \in Tokens
  <2>1. issued' \in Nat /\ issued' <= MaxDevices /\ NewRow \in 1..(issued + 1)
    BY <1>2, <1>4, NewRowIsNew DEF Tokens
  <2> QED
    BY <1>2, <2>1, AccountAssumption DEF Tokens
<1>6. call[t] \in Request("enroll") /\ call[t] # None /\ "enroll" \in Ops
  BY <1>1, <1>2, RequestFields DEF CallOK, At, Ops
<1>7. /\ call'[t] = c /\ jar' = jar /\ page' = page /\ CookiesOf(t)' = CookiesOf(t)
      /\ \A o \in Tabs : o # t => call'[o] = call[o]
  BY <1>1, <1>2 DEF PlacesOK, CookiesOf
<1>8. /\ c.op = "enroll" /\ c.stage = "committed" /\ c.cookies = call[t].cookies
      /\ c.row = call[t].row /\ c.user = call[t].user /\ c.new = NewRow /\ c.token = issued'
      /\ c \in Request("enroll")
  BY <1>1, <1>4, <1>5, <1>6 DEF Request
<1> HIDE DEF c
<1>9. Typed(t)'
  BY <1>6, <1>7, <1>8 DEF Typed
<1>10. LoadedOK(t)'
  <2>1. call[t].row \in 1..issued' /\ call[t].user \in DOMAIN users'
    BY <1>1, <1>2, <1>3
  <2>2. ~ReusesIds /\ call[t].row \in DOMAIN devices' => devices'[call[t].row].user = call[t].user
    BY <1>2, <1>3, <1>4 DEF Grows
  <2> QED
    BY <1>3, <1>4, <1>5, <1>7, <1>8, <2>1, <2>2 DEF LoadedOK, At
<1>11. AnswerOK(t)' /\ EchoOK(t)'
  BY <1>7, <1>8 DEF AnswerOK, EchoOK, At
<1>12. CookieOK(t)'
  BY <1>1, <1>2, <1>6, <1>7, <1>8 DEF CallOK, CookieOK, At
<1>13. TabStep(t)
  <2>1. BringsCookie(t)' => BringsCookie(t)
    BY <1>1, <1>6, <1>7, <1>8 DEF BringsCookie, At
  <2> QED
    BY <1>4, <1>7, <2>1 DEF TabStep
<1>14. PlacesOK'
  <2>1. DOMAIN call = Tabs
    BY <1>2 DEF PlacesOK
  <2>2. call' = [o \in Tabs |-> call'[o]]
    BY <1>1, <2>1
  <2> QED
    BY <1>1, <1>2, <1>7, <2>2 DEF PlacesOK
<1> QED
  BY <1>4, <1>9, <1>10, <1>11, <1>12, <1>13, <1>14, StepKeeps DEF CallOK

LEMMA AnswerEnrollKeeps ==
    ASSUME IInv, NEW t \in Tabs, AnswerEnroll(t)
    PROVE  IInv'
<1>1. /\ At(t, "committed") /\ UNCHANGED <<rows, told, jar, page>> /\ CallOK(t)
      /\ call[t].op = "enroll" /\ call[t].token \in 1..issued
  BY DEF AnswerEnroll, IInv, CallOK, LoadedOK
<1>2. call[t].token \in Tokens
  BY <1>1, AccountAssumption DEF IInv, RowsOK, Tokens
<1> QED
  BY <1>1, <1>2, QuietAnswerKeeps DEF AnswerEnroll, Answer, At

LEMMA CommitRevokeKeeps ==
    ASSUME IInv, NEW t \in Tabs, CommitRevoke(t)
    PROVE  IInv'
<1>1. /\ At(t, "loaded") /\ call[t].op = "revoke" /\ Respond(t, 200, None)
      /\ UNCHANGED <<users, issued, told, jar, page>>
      /\ devices' = [i \in DOMAIN devices \ {call[t].row} |-> devices[i]]
  BY DEF CommitRevoke, Answer
<1>2. RowsOK /\ issued \in Nat
  BY AccountAssumption DEF IInv, RowsOK
<1>3. /\ DOMAIN devices' = DOMAIN devices \ {call[t].row}
      /\ \A i \in DOMAIN devices' : devices'[i] = devices[i]
  BY <1>1
<1>4. devices' \in [DOMAIN devices' -> [user : DOMAIN users, token : 1..issued]]
  BY <1>1, <1>2 DEF RowsOK
<1>5. RowsOK'
  BY <1>1, <1>2, <1>3, <1>4 DEF RowsOK, UniqueEmails
<1>6. Grows
  BY <1>1, <1>2, <1>3 DEF Grows
<1> QED
  BY <1>1, <1>5, <1>6, AnswerKeeps DEF At

---------------------------------------------------------------------------
(* The browser.                                                            *)

\* An answer that arrives, or is lost: the first CSRF cookie is in the jar before the
\* page that brought it is shown.
LEMMA ReceiveKeeps ==
    ASSUME IInv, NEW t \in Tabs, Receive(t)
    PROVE  IInv'
<1> DEFINE cookies == Stored(call[t], CookiesOf(t))
           shown == Shown(t, call[t], cookies)
<1>1. /\ At(t, "answered") /\ UNCHANGED rows /\ call' = [call EXCEPT ![t] = None]
      /\ jar' = [jar EXCEPT ![BrowserOf[t]] = cookies] /\ page' = [page EXCEPT ![t] = shown]
      /\ told' = IF call[t].op = "enroll" /\ call[t].status = 200
                 THEN told \cup {call[t].token} ELSE told
  BY DEF Receive
<1>2. /\ CallOK(t) /\ PlacesOK /\ BrowserOf[t] \in Browsers
      /\ CookiesOf(t) \in Jar /\ CookiesOf(t).csrf \in Csrf \cup {None}
      /\ CookiesOf(t).access \in UserIds \cup {Expired, None}
      /\ CookiesOf(t).device \in Tokens \cup {None} /\ page[t] \in Pages
  BY AccountAssumption, JarFields DEF IInv, CookiesOf, PlacesOK
<1>3. /\ call[t].op \in Ops /\ call[t].first \in BOOLEAN /\ call[t].token \in Tokens \cup {None}
      /\ call[t] # None /\ call[t].stage = "answered"
  BY <1>1, <1>2, AnswerFields DEF CallOK, At
<1>4. /\ cookies.csrf = IF call[t].first THEN FreshCsrf ELSE CookiesOf(t).csrf
      /\ cookies \in Jar
  BY <1>2, <1>3, FreshExists DEF Stored, Jar
<1>5. /\ cookies.csrf # CookiesOf(t).csrf => call[t].first /\ cookies.csrf # None
      /\ CookiesOf(t).csrf # None => cookies.csrf # None
      /\ call[t].first => cookies.csrf # None
  BY <1>2, <1>4, FreshExists, Sizes
<1>6. /\ call[t].op = "page" =>
            call[t].page \in Pages /\ (call[t].first \/ CookiesOf(t).csrf # None)
      /\ call[t].op = "enroll" /\ call[t].status = 200 => call[t].token \in 1..issued
      /\ page[t] # "blank" => CookiesOf(t).csrf # None
  BY <1>1, <1>2 DEF CallOK, AnswerOK, CookieOK
<1>7. shown \in Pages /\ (shown # "blank" => cookies.csrf # None)
  <2>1. shown \in {"blank", call[t].page, page[t]}
    BY DEF Shown
  <2>2. CASE call[t].op = "page"
    <3>1. shown \in {"blank", call[t].page}
      BY <2>2 DEF Shown
    <3> QED
      BY <1>5, <1>6, <2>2, <3>1 DEF Pages
  <2>3. CASE call[t].op # "page"
    <3>1. shown \in {"blank", page[t]}
      BY <2>3 DEF Shown
    <3> QED
      BY <1>2, <1>5, <1>6, <3>1 DEF Pages
  <2> QED
    BY <2>2, <2>3
<1> HIDE DEF cookies, shown
<1>8. /\ call'[t] = None /\ page'[t] = shown /\ CookiesOf(t)' = cookies
      /\ \A o \in Tabs : o # t => call'[o] = call[o] /\ page'[o] = page[o]
      /\ \A b \in Browsers : b # BrowserOf[t] => jar'[b] = jar[b]
  BY <1>1, <1>2 DEF PlacesOK, CookiesOf
<1>9. CallOK(t)'
  <2>1. Typed(t)' /\ LoadedOK(t)' /\ AnswerOK(t)' /\ EchoOK(t)'
    BY <1>8 DEF Typed, LoadedOK, AnswerOK, EchoOK, At
  <2>2. CookieOK(t)'
    BY <1>7, <1>8 DEF CookieOK, At
  <2> QED
    BY <2>1, <2>2 DEF CallOK
<1>10. RowsOK' /\ Grows /\ issued' = issued
  BY <1>1, RowsSame DEF rows
<1>11. TabStep(t)
  <2>1. ~BringsCookie(t)'
    BY <1>8 DEF BringsCookie
  <2>2. call[t].first => BringsCookie(t)
    BY <1>3 DEF BringsCookie
  <2>3. \A b \in Browsers : \/ jar'[b].csrf = jar[b].csrf
                            \/ b = BrowserOf[t] /\ BringsCookie(t) /\ jar'[b].csrf # None
    BY <1>5, <1>8, <2>2 DEF CookiesOf
  <2> QED
    BY <1>8, <1>10, <2>1, <2>3 DEF TabStep
<1>12. PlacesOK'
  <2>1. DOMAIN call = Tabs
    BY <1>2 DEF PlacesOK
  <2>2. call' = [o \in Tabs |-> call'[o]]
    BY <1>1, <2>1
  <2>3. jar' \in [Browsers -> Jar] /\ page' \in [Tabs -> Pages]
    BY <1>1, <1>2, <1>4, <1>7 DEF PlacesOK
  <2>4. told' \subseteq 1..issued
    BY <1>1, <1>2, <1>6 DEF PlacesOK
  <2> QED
    BY <1>10, <2>2, <2>3, <2>4 DEF PlacesOK
<1> QED
  BY <1>9, <1>10, <1>11, <1>12, StepKeeps

LEMMA LoseKeeps ==
    ASSUME IInv, NEW t \in Tabs, Lose(t)
    PROVE  IInv'
<1>1. call' = [call EXCEPT ![t] = None] /\ UNCHANGED <<rows, told, jar, page>>
  BY DEF Lose
<1>2. CallOK(t) /\ PlacesOK
  BY DEF IInv
<1>3. call'[t] = None /\ jar' = jar /\ page' = page /\ CookiesOf(t)' = CookiesOf(t)
  BY <1>1, <1>2 DEF PlacesOK, CookiesOf
<1>4. CallOK(t)'
  BY <1>2, <1>3 DEF CallOK, Typed, LoadedOK, AnswerOK, CookieOK, EchoOK, At
<1>5. ~BringsCookie(t)'
  BY <1>3 DEF BringsCookie
<1> QED
  BY <1>1, <1>4, <1>5, QuietKeeps

\* The access cookie takes part in nothing that a page or a request waits for.
LEMMA AccessKeeps ==
    ASSUME IInv, NEW b \in Browsers, NEW a \in UserIds \cup {Expired, None},
           jar' = [jar EXCEPT ![b].access = a], UNCHANGED <<rows, told, page, call>>
    PROVE  IInv'
<1>1. /\ PlacesOK /\ jar[b] \in Jar /\ users' = users /\ devices' = devices
      /\ issued' = issued /\ told' = told /\ page' = page /\ call' = call
  BY JarFields DEF IInv, rows
<1>2. RowsOK'
  BY RowsSame
<1>3. jar' \in [Browsers -> Jar] /\ \A x \in Browsers : jar'[x].csrf = jar[x].csrf
  <2>1. [jar[b] EXCEPT !.access = a] \in Jar /\ [jar[b] EXCEPT !.access = a].csrf = jar[b].csrf
    BY <1>1 DEF Jar
  <2> QED
    BY <1>1, <2>1 DEF PlacesOK
<1>4. PlacesOK'
  BY <1>1, <1>3 DEF PlacesOK
<1>5. ASSUME NEW t \in Tabs PROVE CallOK(t)'
  <2>1. CallOK(t) /\ CookiesOf(t)'.csrf = CookiesOf(t).csrf
    BY <1>3, AccountAssumption DEF IInv, CookiesOf
  <2>2. FirstCookieDue(t)' <=> FirstCookieDue(t)
    BY <1>1 DEF FirstCookieDue, BringsCookie
  <2>3. Typed(t)' /\ LoadedOK(t)' /\ AnswerOK(t)'
    BY <1>1, <2>1 DEF CallOK, Typed, LoadedOK, AnswerOK, At
  <2>4. CookieOK(t)' /\ EchoOK(t)'
    BY <1>1, <2>1, <2>2 DEF CallOK, CookieOK, EchoOK, At
  <2> QED
    BY <2>3, <2>4 DEF CallOK
<1> QED
  BY <1>2, <1>4, <1>5 DEF IInv

\* A browser is closed only without a request in flight, and shows no page after it.
LEMMA RestartKeeps ==
    ASSUME IInv, NEW b \in Browsers, Restart(b)
    PROVE  IInv'
<1>1. /\ PlacesOK /\ jar[b] \in Jar /\ users' = users /\ devices' = devices
      /\ issued' = issued /\ told' = told /\ call' = call
      /\ \A t \in Tabs : BrowserOf[t] = b => call[t] = None
      /\ jar' = [jar EXCEPT ![b].csrf = None]
      /\ page' = [t \in Tabs |-> IF BrowserOf[t] = b THEN "blank" ELSE page[t]]
  BY JarFields DEF IInv, rows, Restart
<1>2. RowsOK'
  BY RowsSame DEF Restart
<1>3. jar' \in [Browsers -> Jar] /\ \A x \in Browsers : x # b => jar'[x] = jar[x]
  <2>1. [jar[b] EXCEPT !.csrf = None] \in Jar
    BY <1>1 DEF Jar
  <2> QED
    BY <1>1, <2>1 DEF PlacesOK
<1>4. PlacesOK'
  <2>1. page' \in [Tabs -> Pages]
    BY <1>1 DEF PlacesOK, Pages
  <2> QED
    BY <1>1, <1>3, <2>1 DEF PlacesOK
<1>5. ASSUME NEW t \in Tabs PROVE CallOK(t)'
  <2>1. CallOK(t) /\ BrowserOf[t] \in Browsers /\ call'[t] = call[t]
    BY <1>1, AccountAssumption DEF IInv
  <2>2. CASE BrowserOf[t] = b
    BY <1>1, <2>1, <2>2 DEF CallOK, Typed, LoadedOK, AnswerOK, CookieOK, EchoOK, At
  <2>3. CASE BrowserOf[t] # b
    <3>1. CookiesOf(t)' = CookiesOf(t) /\ page'[t] = page[t]
      BY <1>1, <1>3, <2>1, <2>3 DEF CookiesOf
    <3>2. FirstCookieDue(t)' <=> FirstCookieDue(t)
      BY <1>1 DEF FirstCookieDue, BringsCookie
    <3>3. Typed(t)' /\ LoadedOK(t)' /\ AnswerOK(t)'
      BY <1>1, <2>1, <3>1 DEF CallOK, Typed, LoadedOK, AnswerOK, At
    <3>4. CookieOK(t)' /\ EchoOK(t)'
      BY <1>1, <2>1, <3>1, <3>2 DEF CallOK, CookieOK, EchoOK, At
    <3> QED
      BY <2>1, <3>3, <3>4 DEF CallOK
  <2> QED
    BY <2>2, <2>3
<1> QED
  BY <1>2, <1>4, <1>5 DEF IInv

---------------------------------------------------------------------------
(* The invariant, and the properties it implies.                           *)

LEMMA InitIInv == Init => IInv
<1> SUFFICES ASSUME Init PROVE IInv
  OBVIOUS
<1>1. RowsOK
  BY AccountAssumption DEF Init, RowsOK, UniqueEmails
<1>2. PlacesOK
  BY DEF Init, PlacesOK, NoCookies, Jar, Pages
<1>3. ASSUME NEW t \in Tabs PROVE CallOK(t)
  <2>1. call[t] = None /\ page[t] = "blank"
    BY DEF Init
  <2> QED
    BY <2>1 DEF CallOK, Typed, LoadedOK, AnswerOK, CookieOK, EchoOK, At
<1> QED
  BY <1>1, <1>2, <1>3 DEF IInv

LEMMA StutterKeeps == IInv /\ UNCHANGED vars => IInv'
<1> SUFFICES ASSUME IInv, UNCHANGED vars PROVE IInv'
  OBVIOUS
<1>1. /\ users' = users /\ devices' = devices /\ issued' = issued /\ told' = told
      /\ jar' = jar /\ page' = page /\ call' = call /\ UNCHANGED rows
  BY DEF vars, rows
<1>2. RowsOK' /\ PlacesOK'
  BY <1>1, RowsSame DEF IInv, PlacesOK
<1>3. ASSUME NEW t \in Tabs PROVE CallOK(t)'
  <2>1. CallOK(t)
    BY DEF IInv
  <2>2. FirstCookieDue(t)' <=> FirstCookieDue(t)
    BY <1>1 DEF FirstCookieDue, BringsCookie
  <2> QED
    BY <1>1, <2>1, <2>2
       DEF CallOK, Typed, LoadedOK, AnswerOK, CookieOK, EchoOK, At, CookiesOf
<1> QED
  BY <1>2, <1>3 DEF IInv

LEMMA ActsKeep ==
    ASSUME IInv, NEW t \in Tabs, Acts(t)
    PROVE  IInv'
BY PagesKeep, SendKeeps, ReceiveKeeps, LoseKeeps, RefuseKeeps, ReadsKeep, LoadsKeep,
   CommitRegisterKeeps, CommitEnrollKeeps, AnswerEnrollKeeps, CommitRevokeKeeps DEF Acts

LEMMA BrowserKeeps ==
    ASSUME IInv, NEW b \in Browsers,
           Expire(b) \/ Restart(b) \/ (\E u \in DOMAIN users : SignIn(b, u))
    PROVE  IInv'
<1>1. CASE Expire(b)
  <2>1. (IF jar[b].access = Expired THEN None ELSE Expired) \in UserIds \cup {Expired, None}
    OBVIOUS
  <2>2. jar' = [jar EXCEPT ![b].access = IF jar[b].access = Expired THEN None ELSE Expired]
    BY <1>1 DEF Expire
  <2> QED
    BY <1>1, <2>1, <2>2, AccessKeeps DEF Expire
<1>2. CASE Restart(b)
  BY <1>2, RestartKeeps
<1>3. ASSUME NEW u \in DOMAIN users, SignIn(b, u) PROVE IInv'
  <2>1. u \in UserIds
    BY UsersFit DEF IInv, RowsOK
  <2> QED
    BY <1>3, <2>1, AccessKeeps DEF SignIn
<1> QED
  BY <1>1, <1>2, <1>3

LEMMA NextIInv == IInv /\ [Next]_vars => IInv'
<1> SUFFICES ASSUME IInv, [Next]_vars PROVE IInv'
  OBVIOUS
<1>1. ASSUME NEW t \in Tabs, Acts(t) PROVE IInv'
  BY <1>1, ActsKeep
<1>2. ASSUME NEW b \in Browsers,
             Expire(b) \/ Restart(b) \/ (\E u \in DOMAIN users : SignIn(b, u)) PROVE IInv'
  BY <1>2, BrowserKeeps
<1>3. CASE UNCHANGED vars
  BY <1>3, StutterKeeps
<1> QED
  BY <1>1, <1>2, <1>3 DEF Next

\* The invariant is inductive, for any number of browsers, tabs, addresses and tokens.
THEOREM Invariant == Spec => []IInv
BY InitIInv, NextIInv, PTL DEF Spec

\* Users, rows, cookies, pages and requests stay of their types: a row of the devices
\* table always names a user and a token that exist, and there are always a user id and
\* a CSRF token to give (models.py; csrf.py).
THEOREM TypesHold == Spec => []TypeOK
<1>1. IInv => TypeOK
  <2> SUFFICES ASSUME IInv PROVE TypeOK
    OBVIOUS
  <2>1. DOMAIN devices \subseteq Tokens
    BY AccountAssumption DEF IInv, RowsOK, Tokens
  <2>2. \A i \in DOMAIN devices : devices[i].user \in DOMAIN users /\ devices[i].token \in 1..issued
    BY DEF IInv, RowsOK
  <2>3. \A t \in Tabs : call[t] # None =>
            call[t].op \in Ops /\ call[t] \in Request(call[t].op) \cup Response(call[t].op)
    BY DEF IInv, CallOK, Typed
  <2> QED
    BY <2>1, <2>2, <2>3 DEF IInv, RowsOK, PlacesOK, TypeOK
<1> QED
  BY <1>1, Invariant, PTL

\* No two users have the same address, however many registrations found it free before
\* the first of them committed (routes/auth.py, register).
THEOREM EmailsStayUnique == Spec => []UniqueEmails
<1>1. IInv => UniqueEmails
  BY DEF IInv, RowsOK
<1> QED
  BY <1>1, Invariant, PTL

\* A page that echoes the CSRF cookie is refused only when it read the header while the
\* first CSRF cookie of its browser was still on its way (csrf.py, dispatch).
THEOREM EchoesPass == Spec => []EchoIsAccepted
<1>1. IInv => EchoIsAccepted
  BY DEF IInv, CallOK, AnswerOK, EchoIsAccepted
<1> QED
  BY <1>1, Invariant, PTL

---------------------------------------------------------------------------
(* What a step may not do.                                                 *)

\* Only the three commits write a row.
LEMMA OnlyCommitsWrite ==
    ASSUME NEW t \in Tabs, Acts(t)
    PROVE  UNCHANGED rows \/ CommitRegister(t) \/ CommitEnroll(t) \/ CommitRevoke(t)
<1>1. CASE \/ \E p \in Pages : Open(t, p)
           \/ RegisterForm(t) \/ SignupForm(t) \/ SigninForm(t) \/ revokeDevice(t) \/ btnAddDevice(t)
  BY <1>1 DEF Open, RegisterForm, SignupForm, SigninForm, revokeDevice, btnAddDevice, Echoes, Begin
<1>2. CASE Send(t) \/ Receive(t) \/ Lose(t) \/ Refuse(t) \/ ServePage(t) \/ lookup(t)
  BY <1>2 DEF Send, Receive, Lose, Refuse, ServePage, lookup, Arrives
<1>3. CASE LoadRegister(t) \/ LoadEnroll(t) \/ LoadRevoke(t) \/ AnswerEnroll(t)
  BY <1>3 DEF LoadRegister, LoadEnroll, LoadRevoke, Arrives, AnswerEnroll
<1> QED
  BY <1>1, <1>2, <1>3 DEF Acts

\* A step of one tab leaves the requests of the others.
LEMMA OthersWait ==
    ASSUME IInv, NEW t \in Tabs, Acts(t), NEW o \in Tabs, o # t
    PROVE  call'[o] = call[o]
<1>1. DOMAIN call = Tabs
  BY DEF IInv, PlacesOK
<1>2. CASE \/ \E p \in Pages : Open(t, p)
           \/ RegisterForm(t) \/ SignupForm(t) \/ SigninForm(t) \/ revokeDevice(t) \/ btnAddDevice(t)
  BY <1>1, <1>2 DEF Open, RegisterForm, SignupForm, SigninForm, revokeDevice, btnAddDevice, Echoes, Begin
<1>3. CASE Send(t) \/ Receive(t) \/ Lose(t) \/ Refuse(t) \/ ServePage(t) \/ lookup(t)
  BY <1>1, <1>3 DEF Send, Receive, Lose, Refuse, ServePage, lookup, Answer, Respond
<1>4. CASE LoadRegister(t) \/ LoadEnroll(t) \/ LoadRevoke(t)
  <2>1. ASSUME NEW status, Answer(t, status) PROVE call'[o] = call[o]
    BY <1>1, <2>1 DEF Answer, Respond
  <2>2. ASSUME NEW row, NEW user, Loads(t, row, user) PROVE call'[o] = call[o]
    BY <1>1, <2>2 DEF Loads
  <2>3. CASE LoadRegister(t)
    BY <2>1, <2>2, <2>3 DEF LoadRegister
  <2>4. CASE LoadEnroll(t)
    BY <2>1, <2>2, <2>4 DEF LoadEnroll
  <2>5. CASE LoadRevoke(t)
    BY <2>1, <2>2, <2>5 DEF LoadRevoke
  <2> QED
    BY <1>4, <2>3, <2>4, <2>5
<1>5. CASE CommitRegister(t) \/ CommitEnroll(t) \/ AnswerEnroll(t) \/ CommitRevoke(t)
  BY <1>1, <1>5 DEF CommitRegister, CommitEnroll, AnswerEnroll, CommitRevoke, Answer, Respond
<1> QED
  BY <1>2, <1>3, <1>4, <1>5 DEF Acts

\* What a commit does to the devices: one more row, or one less.
LEMMA InsertedRow ==
    ASSUME RowsOK, NEW user, InsertDevice(user)
    PROVE  /\ issued \in Nat /\ issued' = issued + 1 /\ issued' \in Tokens
           /\ NewRow \notin DOMAIN devices /\ DOMAIN devices' = DOMAIN devices \cup {NewRow}
           /\ devices'[NewRow].user = user /\ devices'[NewRow].token = issued + 1
           /\ \A i \in DOMAIN devices : devices'[i] = devices[i]
<1>1. issued \in Nat /\ issued < MaxDevices /\ issued' = issued + 1 /\ MaxDevices \in Nat
  BY AccountAssumption DEF RowsOK, InsertDevice
<1>2. NewRow \notin DOMAIN devices
  BY NewRowIsNew
<1>3. issued' \in Tokens
  BY <1>1 DEF Tokens
<1> QED
  BY <1>1, <1>2, <1>3 DEF InsertDevice

LEMMA RevokedRow ==
    ASSUME NEW t \in Tabs, CommitRevoke(t)
    PROVE  /\ users' = users /\ issued' = issued
           /\ DOMAIN devices' = DOMAIN devices \ {call[t].row}
           /\ \A i \in DOMAIN devices' : devices'[i] = devices[i]
BY DEF CommitRevoke

\* A token disappears only with the row that a revocation deletes.
LEMMA OnlyRevokeRevokes ==
    ASSUME IInv, NEW d \in Tokens, Revoked(d), NEW t \in Tabs, Acts(t)
    PROVE  CommitRevoke(t) /\ call[t].row \in DOMAIN devices /\ devices[call[t].row].token = d
<1>1. PICK i \in DOMAIN devices : devices[i].token = d
  BY DEF Revoked
<1>2. ~(i \in DOMAIN devices' /\ devices'[i] = devices[i])
  BY <1>1 DEF Revoked
<1>3. ~UNCHANGED rows
  BY <1>1, <1>2 DEF rows
<1>4. \A u : ~InsertDevice(u)
  BY <1>1, <1>2, InsertedRow DEF IInv
<1>5. CommitRevoke(t)
  BY <1>3, <1>4, OnlyCommitsWrite DEF CommitRegister, CommitEnroll
<1>6. i = call[t].row
  BY <1>1, <1>2, <1>5, RevokedRow
<1> QED
  BY <1>1, <1>5, <1>6

\* A device is only ever deleted for its owner: the row that revoke_device found is still
\* the owner's when the DELETE by its id commits, or is gone (routes/devices.py).
THEOREM OwnersRevoke == Spec => OnlyOwnerRevokes
<1>1. ASSUME IInv, [Next]_vars
      PROVE  [~ReusesIds => \A d \in Tokens : Revoked(d) =>
                \E t \in Tabs, i \in DOMAIN devices :
                    /\ At(t, "loaded") /\ call'[t] # call[t]
                    /\ devices[i] = [user |-> call[t].cookies.access, token |-> d]]_vars
  <2>1. SUFFICES ASSUME Next, ~ReusesIds, NEW d \in Tokens, Revoked(d)
                 PROVE  \E t \in Tabs, i \in DOMAIN devices :
                            /\ At(t, "loaded") /\ call'[t] # call[t]
                            /\ devices[i] = [user |-> call[t].cookies.access, token |-> d]
    BY <1>1
  <2>2. ~UNCHANGED rows
    BY <2>1 DEF Revoked, rows
  <2>3. PICK t \in Tabs : Acts(t)
    BY <2>1, <2>2 DEF Next, Expire, Restart, SignIn
  <2>4. CommitRevoke(t) /\ call[t].row \in DOMAIN devices /\ devices[call[t].row].token = d
    BY <1>1, <2>1, <2>3, OnlyRevokeRevokes
  <2>5. At(t, "loaded") /\ call[t].op = "revoke" /\ call'[t].stage = "answered"
    <3>1. DOMAIN call = Tabs
      BY <1>1 DEF IInv, PlacesOK
    <3> QED
      BY <2>4, <3>1 DEF CommitRevoke, Answer, Respond
  <2>6. devices[call[t].row].user = call[t].cookies.access
    BY <1>1, <2>1, <2>4, <2>5 DEF IInv, CallOK, LoadedOK
  <2>7. devices[call[t].row] \in [user : DOMAIN users, token : 1..issued]
    BY <1>1, <2>4 DEF IInv, RowsOK
  <2>8. devices[call[t].row] = [user |-> call[t].cookies.access, token |-> d]
    BY <2>4, <2>6, <2>7
  <2> QED
    BY <2>4, <2>5, <2>8 DEF At
<1> QED
  BY <1>1, Invariant, PTL DEF Spec, OnlyOwnerRevokes

\* enroll answers with a token only while the device that asked for it is still enrolled:
\* a revocation that commits between the two makes it fail (routes/devices.py).
THEOREM TrustedEnroll == Spec => EnrolledByTrusted
<1>1. ASSUME IInv, [Next]_vars
      PROVE  [~ReusesIds => \A t \in Tabs :
                At(t, "committed") /\ At(t, "answered")' /\ call'[t].status = 200 =>
                    \E i \in DOMAIN devices : devices[i].token = call[t].cookies.device]_vars
  <2>1. SUFFICES ASSUME Next, ~ReusesIds, NEW t \in Tabs,
                        At(t, "committed"), At(t, "answered")', call'[t].status = 200
                 PROVE  \E i \in DOMAIN devices : devices[i].token = call[t].cookies.device
    BY <1>1
  <2>2. call'[t] # call[t]
    BY <2>1 DEF At
  <2>3. Acts(t)
    BY <1>1, <2>1, <2>2, OthersWait DEF Next, Expire, Restart, SignIn
  <2>4. AnswerEnroll(t)
    <3>1. ~ \E p \in Pages : Open(t, p)
      BY <2>1 DEF Open, Begin, At
    <3>2. ~(RegisterForm(t) \/ SignupForm(t) \/ SigninForm(t) \/ revokeDevice(t) \/ btnAddDevice(t))
      BY <2>1 DEF RegisterForm, SignupForm, SigninForm, revokeDevice, btnAddDevice, Echoes, Begin, At
    <3>3. ~(Send(t) \/ Receive(t) \/ Lose(t) \/ Refuse(t) \/ ServePage(t) \/ lookup(t))
      BY <2>1 DEF Send, Receive, Lose, Refuse, ServePage, lookup, Arrives, At
    <3>4. ~(LoadRegister(t) \/ LoadEnroll(t) \/ LoadRevoke(t))
      BY <2>1 DEF LoadRegister, LoadEnroll, LoadRevoke, Arrives, At
    <3>5. ~(CommitRegister(t) \/ CommitEnroll(t) \/ CommitRevoke(t))
      BY <2>1 DEF CommitRegister, CommitEnroll, CommitRevoke, At
    <3> QED
      BY <2>3, <3>1, <3>2, <3>3, <3>4, <3>5 DEF Acts
  <2>5. call[t].row \in DOMAIN devices
    <3>1. SUFFICES ASSUME ~({call[t].row, call[t].new} \subseteq DOMAIN devices) PROVE FALSE
      OBVIOUS
    <3>2. Answer(t, 500) /\ DOMAIN call = Tabs
      BY <1>1, <2>4, <3>1 DEF AnswerEnroll, IInv, PlacesOK
    <3>3. call'[t].status = 500
      BY <3>2 DEF Answer, Respond
    <3> QED
      BY <2>1, <3>3
  <2>6. call[t].row = call[t].cookies.device
    BY <1>1, <2>1 DEF IInv, CallOK, LoadedOK
  <2>7. devices[call[t].row].token = call[t].row
    BY <1>1, <2>1, <2>5 DEF IInv, RowsOK
  <2> QED
    BY <2>5, <2>6, <2>7
<1> QED
  BY <1>1, Invariant, PTL DEF Spec, EnrolledByTrusted

---------------------------------------------------------------------------
(* The tables are an account book.                                         *)

\* The devices of an address, now and after the step.
LEMMA TrustedDevices ==
    /\ DOMAIN Trusted = {users[u] : u \in DOMAIN users}
    /\ \A e \in DOMAIN Trusted : \A d :
        d \in Trusted[e] <=> \E i \in DOMAIN devices : /\ users[devices[i].user] = e
                                                       /\ devices[i].token = d
    /\ DOMAIN Trusted' = {users'[u] : u \in DOMAIN users'}
    /\ \A e \in DOMAIN Trusted' : \A d :
        d \in Trusted'[e] <=> \E i \in DOMAIN devices' : /\ users'[devices'[i].user] = e
                                                         /\ devices'[i].token = d
BY DEF Trusted

LEMMA BookStutters ==
    ASSUME UNCHANGED rows
    PROVE  Trusted' = Trusted /\ Gone' = Gone
BY DEF rows, Trusted, Gone

\* The tokens in the book are the tokens that were issued.
LEMMA EveryoneIsIssued ==
    ASSUME RowsOK
    PROVE  Gone \cup UNION {Trusted[e] : e \in DOMAIN Trusted} = 1..issued
<1>1. \A i \in DOMAIN devices :
        /\ devices[i].user \in DOMAIN users /\ devices[i].token \in 1..issued
  BY DEF RowsOK
<1>2. \A e \in DOMAIN Trusted : Trusted[e] \subseteq 1..issued
  BY <1>1, TrustedDevices
<1>3. ASSUME NEW d \in 1..issued, d \notin Gone
      PROVE  d \in UNION {Trusted[e] : e \in DOMAIN Trusted}
  <2>1. PICK i \in DOMAIN devices : devices[i].token = d
    BY <1>3 DEF Gone
  <2>2. users[devices[i].user] \in DOMAIN Trusted
    BY <1>1, TrustedDevices
  <2>3. d \in Trusted[users[devices[i].user]]
    BY <2>1, <2>2, TrustedDevices
  <2> QED
    BY <2>2, <2>3
<1>4. Gone \subseteq 1..issued
  BY DEF Gone
<1> QED
  BY <1>2, <1>3, <1>4

\* An insert for a user of address e adds its token to the book and takes none back.
LEMMA InsertInBook ==
    ASSUME RowsOK, NEW user, InsertDevice(user), user \in DOMAIN users',
           DOMAIN users \subseteq DOMAIN users', \A u \in DOMAIN users : users'[u] = users[u]
    PROVE  /\ Gone' = Gone
           /\ \A e \in DOMAIN Trusted' : \A d :
                d \in Trusted'[e] <=> \/ e \in DOMAIN Trusted /\ d \in Trusted[e]
                                      \/ e = users'[user] /\ d = issued + 1
<1>1. /\ issued \in Nat /\ issued' = issued + 1
      /\ NewRow \notin DOMAIN devices /\ DOMAIN devices' = DOMAIN devices \cup {NewRow}
      /\ devices'[NewRow].user = user /\ devices'[NewRow].token = issued + 1
      /\ \A i \in DOMAIN devices : devices'[i] = devices[i]
  BY InsertedRow
<1>2. \A i \in DOMAIN devices :
        /\ devices[i].user \in DOMAIN users /\ devices[i].token \in 1..issued
        /\ users'[devices[i].user] = users[devices[i].user]
  BY DEF RowsOK
<1>3. Gone' = Gone
  <2> DEFINE kept == {devices[i].token : i \in DOMAIN devices}
             after == {devices'[i].token : i \in DOMAIN devices'}
  <2>1. \A d : d \in after <=> d \in kept \/ d = issued + 1
    BY <1>1
  <2>2. \A d : d \in 1..issued' <=> d \in 1..issued \/ d = issued + 1
    BY <1>1
  <2>3. issued + 1 \notin 1..issued
    BY <1>1
  <2>4. Gone = (1..issued) \ kept /\ Gone' = (1..issued') \ after
    BY DEF Gone
  <2> HIDE DEF kept, after
  <2> QED
    BY <2>1, <2>2, <2>3, <2>4
<1>4. ASSUME NEW e \in DOMAIN Trusted', NEW d
      PROVE  d \in Trusted'[e] <=> \/ e \in DOMAIN Trusted /\ d \in Trusted[e]
                                   \/ e = users'[user] /\ d = issued + 1
  <2>1. ASSUME NEW i \in DOMAIN devices', users'[devices'[i].user] = e, devices'[i].token = d
        PROVE  \/ e \in DOMAIN Trusted /\ d \in Trusted[e]
               \/ e = users'[user] /\ d = issued + 1
    <3>1. CASE i = NewRow
      BY <1>1, <2>1, <3>1
    <3>2. CASE i \in DOMAIN devices
      <4>1. users[devices[i].user] = e /\ devices[i].token = d /\ devices[i].user \in DOMAIN users
        BY <1>1, <1>2, <2>1, <3>2
      <4>2. e \in DOMAIN Trusted
        BY <4>1, TrustedDevices
      <4> QED
        BY <3>2, <4>1, <4>2, TrustedDevices
    <3> QED
      BY <1>1, <3>1, <3>2
  <2>2. ASSUME e \in DOMAIN Trusted, d \in Trusted[e] PROVE d \in Trusted'[e]
    <3>1. PICK i \in DOMAIN devices : users[devices[i].user] = e /\ devices[i].token = d
      BY <2>2, TrustedDevices
    <3>2. i \in DOMAIN devices' /\ users'[devices'[i].user] = e /\ devices'[i].token = d
      BY <1>1, <1>2, <3>1
    <3> QED
      BY <1>4, <3>2, TrustedDevices
  <2>3. ASSUME e = users'[user], d = issued + 1 PROVE d \in Trusted'[e]
    <3>1. NewRow \in DOMAIN devices' /\ users'[devices'[NewRow].user] = e /\ devices'[NewRow].token = d
      BY <1>1, <2>3
    <3> QED
      BY <1>4, <3>1, TrustedDevices
  <2> QED
    BY <1>4, <2>1, <2>2, <2>3, TrustedDevices
<1> QED
  BY <1>3, <1>4

LEMMA FunctionsAgree ==
    ASSUME NEW f, NEW g, NEW S, f = [x \in S |-> f[x]], g = [x \in S |-> g[x]],
           \A x \in S : f[x] = g[x]
    PROVE  f = g
OBVIOUS

LEMMA TrustedIsFunction ==
    /\ Trusted = [e \in DOMAIN Trusted |-> Trusted[e]]
    /\ Trusted' = [e \in DOMAIN Trusted' |-> Trusted'[e]]
BY DEF Trusted

\* The commit of register signs an address up with its first device.
LEMMA RegisterSignsUp ==
    ASSUME IInv, NEW t \in Tabs, CommitRegister(t)
    PROVE  Book!Next \/ UNCHANGED <<Trusted, Gone>>
<1>1. /\ RowsOK /\ users \in Seq(Emails) /\ call[t].op = "register" /\ call[t].arg \in Emails
  BY RequestFields DEF CommitRegister, IInv, RowsOK, CallOK, At, Arguments
<1>2. CASE Registered(call[t].arg)
  BY <1>2, BookStutters DEF CommitRegister
<1>3. CASE ~Registered(call[t].arg)
  <2> DEFINE e == call[t].arg
  <2>1. users' = Append(users, e) /\ InsertDevice(Len(users'))
    BY <1>3 DEF CommitRegister
  <2>2. /\ Len(users) \in Nat /\ Len(users') = Len(users) + 1
        /\ DOMAIN users = 1..Len(users) /\ DOMAIN users' = 1..(Len(users) + 1)
        /\ users'[Len(users')] = e /\ \A u \in DOMAIN users : users'[u] = users[u]
    BY <1>1, <2>1
  <2>3. Len(users') \in DOMAIN users' /\ DOMAIN users \subseteq DOMAIN users'
    BY <2>2
  <2>4. /\ issued \in Nat /\ issued' = issued + 1 /\ issued' \in Tokens
    BY <1>1, <2>1, InsertedRow
  <2>5. /\ Gone' = Gone
        /\ \A x \in DOMAIN Trusted' : \A d :
            d \in Trusted'[x] <=> \/ x \in DOMAIN Trusted /\ d \in Trusted[x]
                                  \/ x = e /\ d = issued + 1
    BY <1>1, <2>1, <2>2, <2>3, InsertInBook
  <2>6. e \notin DOMAIN Trusted
    BY <1>3, TrustedDevices DEF Registered
  <2>7. issued + 1 \notin Gone \cup UNION {Trusted[x] : x \in DOMAIN Trusted}
    BY <1>1, <2>4, EveryoneIsIssued
  <2>8. DOMAIN Trusted' = DOMAIN Trusted \cup {e}
    <3>1. \A u \in DOMAIN users' : u \in DOMAIN users \/ u = Len(users')
      BY <2>2
    <3> QED
      BY <2>2, <2>3, <3>1, TrustedDevices
  <2>9. ASSUME NEW x \in DOMAIN Trusted'
        PROVE  Trusted'[x] = IF x = e THEN {issued + 1} ELSE Trusted[x]
    <3>1. CASE x = e
      BY <2>5, <2>6, <2>9, <3>1
    <3>2. CASE x # e
      BY <2>5, <2>8, <2>9, <3>2
    <3> QED
      BY <3>1, <3>2
  <2>10. Trusted' = [x \in DOMAIN Trusted \cup {e} |-> IF x = e THEN {issued + 1} ELSE Trusted[x]]
    BY <2>8, <2>9, TrustedIsFunction
  <2>11. Book!SignUp(e, issued + 1)
    BY <2>5, <2>6, <2>7, <2>10 DEF Book!SignUp, Book!Everyone
  <2> QED
    BY <1>1, <2>4, <2>11 DEF Book!Next
<1> QED
  BY <1>2, <1>3

\* The commit of enroll gives the account of the device that was loaded one more.
LEMMA EnrollEnrolls ==
    ASSUME IInv, NEW t \in Tabs, CommitEnroll(t)
    PROVE  Book!Next
<1> DEFINE e == users[call[t].user]
<1>1. /\ RowsOK /\ users \in Seq(Emails) /\ call[t].user \in DOMAIN users
      /\ InsertDevice(call[t].user) /\ users' = users
  BY DEF CommitEnroll, IInv, RowsOK, CallOK, LoadedOK
<1>2. e \in Emails /\ e \in DOMAIN Trusted
  BY <1>1, TrustedDevices
<1>3. issued \in Nat /\ issued' = issued + 1 /\ issued' \in Tokens
  BY <1>1, InsertedRow
<1>4. /\ Gone' = Gone
      /\ \A x \in DOMAIN Trusted' : \A d :
            d \in Trusted'[x] <=> \/ x \in DOMAIN Trusted /\ d \in Trusted[x]
                                  \/ x = e /\ d = issued + 1
  BY <1>1, InsertInBook
<1>5. issued + 1 \notin Gone \cup UNION {Trusted[x] : x \in DOMAIN Trusted}
  BY <1>1, <1>3, EveryoneIsIssued
<1>6. DOMAIN Trusted' = DOMAIN Trusted
  BY <1>1, TrustedDevices
<1>7. ASSUME NEW x \in DOMAIN Trusted
      PROVE  Trusted'[x] = IF x = e THEN Trusted[e] \cup {issued + 1} ELSE Trusted[x]
  BY <1>4, <1>6
<1>8. Trusted' = [Trusted EXCEPT ![e] = Trusted[e] \cup {issued + 1}]
  BY <1>2, <1>6, <1>7, TrustedIsFunction
<1>9. Book!Enroll(e, issued + 1)
  BY <1>2, <1>4, <1>5, <1>8 DEF Book!Enroll, Book!Everyone
<1> QED
  BY <1>2, <1>3, <1>9 DEF Book!Next

\* The commit of revoke takes one device back, unless it is gone already.
LEMMA RevokeRevokes ==
    ASSUME IInv, NEW t \in Tabs, CommitRevoke(t)
    PROVE  Book!Next \/ UNCHANGED <<Trusted, Gone>>
<1> DEFINE r == call[t].row
           e == users[devices[r].user]
           d == devices[r].token
<1>1. /\ RowsOK /\ users \in Seq(Emails) /\ issued \in Nat /\ issued <= MaxDevices
      /\ DOMAIN devices \subseteq 1..issued
      /\ \A i, j \in DOMAIN devices : devices[i].token = devices[j].token => i = j
  BY AccountAssumption DEF IInv, RowsOK
<1>2. /\ users' = users /\ issued' = issued /\ DOMAIN devices' = DOMAIN devices \ {r}
      /\ \A i \in DOMAIN devices' : devices'[i] = devices[i]
  BY RevokedRow
<1>3. CASE r \notin DOMAIN devices
  <2>1. devices' = devices
    <3>1. /\ devices = [i \in DOMAIN devices |-> devices[i]]
          /\ devices' = [i \in DOMAIN devices \ {r} |-> devices[i]]
      BY <1>1 DEF RowsOK, CommitRevoke
    <3>2. DOMAIN devices \ {r} = DOMAIN devices
      BY <1>3
    <3> QED
      BY <3>1, <3>2
  <2> QED
    BY <1>2, <2>1, BookStutters DEF rows
<1>4. CASE r \in DOMAIN devices
  <2>1. devices[r].user \in DOMAIN users /\ d \in 1..issued
    BY <1>1, <1>4 DEF RowsOK
  <2>2. e \in Emails /\ e \in DOMAIN Trusted /\ d \in Tokens
    BY <1>1, <2>1, TrustedDevices, AccountAssumption DEF Tokens
  <2>3. d \in Trusted[e]
    BY <1>4, <2>2, TrustedDevices
  <2>4. DOMAIN Trusted' = DOMAIN Trusted
    BY <1>2, TrustedDevices
  <2>5. ASSUME NEW x \in DOMAIN Trusted, NEW c
        PROVE  c \in Trusted'[x] <=> c \in Trusted[x] /\ ~(x = e /\ c = d)
    <3>1. ASSUME c \in Trusted'[x] PROVE c \in Trusted[x] /\ c # d
      <4>1. PICK i \in DOMAIN devices' : users'[devices'[i].user] = x /\ devices'[i].token = c
        BY <2>4, <2>5, <3>1, TrustedDevices
      <4>2. i \in DOMAIN devices /\ i # r /\ users[devices[i].user] = x /\ devices[i].token = c
        BY <1>2, <4>1
      <4>3. c # d
        BY <1>1, <1>4, <4>2
      <4> QED
        BY <2>5, <4>2, <4>3, TrustedDevices
    <3>2. ASSUME c \in Trusted[x], ~(x = e /\ c = d) PROVE c \in Trusted'[x]
      <4>1. PICK i \in DOMAIN devices : users[devices[i].user] = x /\ devices[i].token = c
        BY <2>5, <3>2, TrustedDevices
      <4>2. i \in DOMAIN devices' /\ users'[devices'[i].user] = x /\ devices'[i].token = c
        BY <1>2, <3>2, <4>1
      <4> QED
        BY <2>4, <2>5, <4>2, TrustedDevices
    <3> QED
      BY <3>1, <3>2
  <2>6. \A x \in DOMAIN Trusted :
            Trusted'[x] = IF x = e THEN Trusted[e] \ {d} ELSE Trusted[x]
    BY <2>5
  <2>7. Trusted' = [Trusted EXCEPT ![e] = Trusted[e] \ {d}]
    BY <2>2, <2>4, <2>6, TrustedIsFunction
  <2>8. Gone' = Gone \cup {d}
    <3> DEFINE before == {devices[i].token : i \in DOMAIN devices}
               after == {devices'[i].token : i \in DOMAIN devices'}
    <3>1. \A c : c \in after <=> c \in before /\ c # d
      BY <1>1, <1>2, <1>4
    <3>2. Gone = (1..issued) \ before /\ Gone' = (1..issued) \ after /\ d \in before
      BY <1>2, <1>4 DEF Gone
    <3> HIDE DEF before, after
    <3> QED
      BY <2>1, <3>1, <3>2
  <2>9. Book!Revoke(e, d)
    BY <2>2, <2>3, <2>7, <2>8 DEF Book!Revoke
  <2> QED
    BY <2>2, <2>9 DEF Book!Next
<1> QED
  BY <1>3, <1>4

\* The tables are an account book: an address signs up once, an account gains and loses
\* devices one at a time, and no token is given twice, whatever the requests of the tabs
\* do to each other and whichever way ids are given (routes/auth.py, routes/devices.py).
THEOREM KeepsTheBook == Spec => BookSpec
<1>1. Init => Book!Init
  <2> SUFFICES ASSUME Init PROVE Trusted = <<>> /\ Gone = {}
    BY DEF Book!Init
  <2>1. users = <<>> /\ issued = 0
    BY DEF Init
  <2>2. Gone = {}
    BY <2>1 DEF Gone
  <2>3. Trusted = <<>>
    BY <2>1 DEF Trusted
  <2> QED
    BY <2>2, <2>3
<1>2. IInv /\ [Next]_vars => [Book!Next]_<<Trusted, Gone>>
  <2> SUFFICES ASSUME IInv, [Next]_vars PROVE Book!Next \/ UNCHANGED <<Trusted, Gone>>
    OBVIOUS
  <2>1. CASE UNCHANGED rows
    BY <2>1, BookStutters
  <2>2. ASSUME NEW t \in Tabs, Acts(t) PROVE Book!Next \/ UNCHANGED <<Trusted, Gone>>
    BY <2>1, <2>2, OnlyCommitsWrite, RegisterSignsUp, EnrollEnrolls, RevokeRevokes
  <2> QED
    BY <2>1, <2>2 DEF Next, Expire, Restart, SignIn, vars, rows
<1> QED
  BY <1>1, <1>2, Invariant, PTL DEF Spec, BookSpec, Book!Spec
=============================================================================
