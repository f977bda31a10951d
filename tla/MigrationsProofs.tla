-------------------------- MODULE MigrationsProofs --------------------------
(***************************************************************************)
(* The invariants of Migrations, for every number of runs and of kills.    *)
(* First what one statement does to a schema, then what each script makes  *)
(* of a schema at rest, then the inductive invariant: a run on an intact   *)
(* database is somewhere on the way from one such schema to the next.      *)
(***************************************************************************)
EXTENDS Migrations, SequenceTheorems, WellFoundedInduction, TLAPS

---------------------------------------------------------------------------
(* What one statement does.                                                *)

Table(required, optional, indexes, parents) ==
    [required |-> required, optional |-> optional, indexes |-> indexes, parents |-> parents]

\* The schema db with table t, in place of the one it had or next to the others.
With(db, t, table) == [x \in DOMAIN db \cup {t} |-> IF x = t THEN table ELSE db[x]]

IsSchema(db) == db = [x \in DOMAIN db |-> db[x]]

\* Both databases carry the statement out, and this is what they have then.
Runs(s, db, new) == (\A b \in {"postgres", "sqlite"} : Possible(s, db, b)) /\ Apply(s, db) = new

LEMMA WithIs ==
    ASSUME NEW db, NEW t, NEW table
    PROVE  /\ DOMAIN With(db, t, table) = DOMAIN db \cup {t}
           /\ With(db, t, table)[t] = table
           /\ \A x \in DOMAIN db : x # t => With(db, t, table)[x] = db[x]
           /\ IsSchema(With(db, t, table))
BY DEF With, IsSchema

LEMMA Swap ==
    ASSUME NEW db, NEW t, NEW u, NEW a, NEW b, t # u
    PROVE  With(With(db, t, a), u, b) = With(With(db, u, b), t, a)
BY DEF With

LEMMA Replace ==
    ASSUME NEW db, NEW t, NEW a, NEW b
    PROVE  [With(db, t, a) EXCEPT ![t] = b] = With(db, t, b)
BY DEF With

LEMMA RunsCreate ==
    ASSUME NEW db, NEW t, NEW R, NEW O, NEW P, t \notin DOMAIN db
    PROVE  Runs(CreateTable(t, R, O, P), db, With(db, t, Table(R, O, {}, P)))
<1> DEFINE s == CreateTable(t, R, O, P)
<1>1. s.op = "create_table" /\ s.table = t /\ s.arg = Table(R, O, {}, P)
    BY DEF CreateTable, Statement, Table
<1> HIDE DEF s
<1>2. Apply(s, db) = [x \in DOMAIN db \cup {t} |-> IF x = t THEN Table(R, O, {}, P) ELSE db[x]]
    BY <1>1 DEF Apply
<1>3. Apply(s, db) = With(db, t, Table(R, O, {}, P))
    BY <1>2 DEF With
<1>4. \A b : Possible(s, db, b)
    BY <1>1 DEF Possible
<1> QED BY <1>3, <1>4 DEF Runs, s

LEMMA RunsDrop ==
    ASSUME NEW db, NEW t, NEW table, IsSchema(db), t \notin DOMAIN db,
           t \notin table.parents, \A x \in DOMAIN db : t \notin db[x].parents
    PROVE  Runs(DropTable(t), With(db, t, table), db)
<1> DEFINE s == DropTable(t)
           old == With(db, t, table)
<1>1. s.op = "drop_table" /\ s.table = t
    BY DEF DropTable, Statement
<1>2. /\ DOMAIN old = DOMAIN db \cup {t} /\ old[t] = table
      /\ \A x \in DOMAIN db : x # t => old[x] = db[x]
    BY DEF With
<1> HIDE DEF s, old
<1>3. Apply(s, old) = [x \in DOMAIN old \ {t} |-> old[x]]
    BY <1>1 DEF Apply
<1>4. DOMAIN old \ {t} = DOMAIN db
    BY <1>2
<1>5. Apply(s, old) = [x \in DOMAIN db |-> db[x]]
    BY <1>2, <1>3, <1>4
<1>6. \A b : Possible(s, old, b)
    BY <1>1, <1>2 DEF Possible
<1> QED BY <1>5, <1>6 DEF Runs, s, old, IsSchema

LEMMA RunsIndex ==
    ASSUME NEW db, NEW t, NEW c, NEW R, NEW O, NEW I, NEW P, NEW s, NEW J,
           s.op = "create_index", s.table = t, s.arg.column = c,
           c \in R \cup O, \A i \in I : i.column # c, J = I \cup {s.arg}
    PROVE  Runs(s, With(db, t, Table(R, O, I, P)), With(db, t, Table(R, O, J, P)))
<1> DEFINE a == Table(R, O, I, P)
           old == With(db, t, a)
<1>1. s.op = "create_index" /\ s.table = t /\ s.arg.column = c /\ J = I \cup {s.arg}
    OBVIOUS
<1>2. DOMAIN old = DOMAIN db \cup {t} /\ old[t] = a
    BY DEF With
<1>3. a.required = R /\ a.optional = O /\ a.indexes = I /\ a.parents = P
    BY DEF Table
<1>4. [a EXCEPT !.indexes = J] = Table(R, O, J, P)
    BY DEF Table
<1>5. [old EXCEPT ![t] = Table(R, O, J, P)] = With(db, t, Table(R, O, J, P))
    BY Replace
<1> HIDE DEF old, a
<1>6. Apply(s, old) = [old EXCEPT ![s.table].indexes = @ \cup {s.arg}]
    BY <1>1, Zenon DEF Apply
<1>7. Apply(s, old) = [old EXCEPT ![t] = [a EXCEPT !.indexes = J]]
    BY <1>1, <1>2, <1>3, <1>6, Zenon
<1>8. \A b : Possible(s, old, b)
    BY <1>1, <1>2, <1>3 DEF Possible, Columns, Indexed
<1> QED BY <1>4, <1>5, <1>7, <1>8 DEF Runs, old, a

LEMMA RunsCreateIndex ==
    ASSUME NEW db, NEW t, NEW c, NEW R, NEW O, NEW I, NEW P, NEW J,
           c \in R \cup O, \A i \in I : i.column # c, J = I \cup {Index(c)}
    PROVE  Runs(CreateIndex(t, c), With(db, t, Table(R, O, I, P)), With(db, t, Table(R, O, J, P)))
<1> DEFINE s == CreateIndex(t, c)
<1>1. /\ s.op = "create_index" /\ s.table = t /\ s.arg = Index(c)
      /\ s.arg.column = c /\ J = I \cup {s.arg}
    BY DEF CreateIndex, Statement, Index
<1> HIDE DEF s
<1>2. Runs(s, With(db, t, Table(R, O, I, P)), With(db, t, Table(R, O, J, P)))
    BY <1>1, RunsIndex
<1> QED BY <1>2 DEF s

LEMMA RunsCreateUnique ==
    ASSUME NEW db, NEW t, NEW c, NEW R, NEW O, NEW I, NEW P, NEW J,
           c \in R \cup O, \A i \in I : i.column # c, J = I \cup {Unique(c)}
    PROVE  Runs(CreateUnique(t, c), With(db, t, Table(R, O, I, P)), With(db, t, Table(R, O, J, P)))
<1> DEFINE s == CreateUnique(t, c)
<1>1. /\ s.op = "create_index" /\ s.table = t /\ s.arg = Unique(c)
      /\ s.arg.column = c /\ J = I \cup {s.arg}
    BY DEF CreateUnique, Statement, Unique
<1> HIDE DEF s
<1>2. Runs(s, With(db, t, Table(R, O, I, P)), With(db, t, Table(R, O, J, P)))
    BY <1>1, RunsIndex
<1> QED BY <1>2 DEF s

LEMMA RunsDropIndex ==
    ASSUME NEW db, NEW t, NEW c, NEW R, NEW O, NEW I, NEW P, NEW J,
           \E i \in I : i.column = c, J = {i \in I : i.column # c}
    PROVE  Runs(DropIndex(t, c), With(db, t, Table(R, O, I, P)),
                With(db, t, Table(R, O, J, P)))
<1> DEFINE a == Table(R, O, I, P)
           old == With(db, t, a)
           s == DropIndex(t, c)
<1>1. s.op = "drop_index" /\ s.table = t /\ s.arg = c /\ J = {i \in I : i.column # c}
    BY DEF DropIndex, Statement
<1>2. DOMAIN old = DOMAIN db \cup {t} /\ old[t] = a
    BY DEF With
<1>3. a.required = R /\ a.optional = O /\ a.indexes = I /\ a.parents = P
    BY DEF Table
<1>4. [a EXCEPT !.indexes = J] = Table(R, O, J, P)
    BY DEF Table
<1>5. [old EXCEPT ![t] = Table(R, O, J, P)] = With(db, t, Table(R, O, J, P))
    BY Replace
<1> HIDE DEF old, a, s
<1>6. Apply(s, old) = [old EXCEPT ![s.table].indexes = {i \in @ : i.column # s.arg}]
    BY <1>1, Zenon DEF Apply
<1>7. Apply(s, old) = [old EXCEPT ![t] = [a EXCEPT !.indexes = J]]
    BY <1>1, <1>2, <1>3, <1>6, Zenon
<1>8. \A b : Possible(s, old, b)
    BY <1>1, <1>2, <1>3 DEF Possible, Columns, Indexed
<1> QED BY <1>4, <1>5, <1>7, <1>8 DEF Runs, old, a, s

LEMMA RunsAddRequired ==
    ASSUME NEW db, NEW t, NEW c, NEW R, NEW O, NEW I, NEW P, NEW S,
           c \notin R \cup O, S = R \cup {c}
    PROVE  Runs(AddRequired(t, c), With(db, t, Table(R, O, I, P)),
                With(db, t, Table(S, O, I, P)))
<1> DEFINE a == Table(R, O, I, P)
           old == With(db, t, a)
           s == AddRequired(t, c)
<1>1. s.op = "add_required" /\ s.table = t /\ s.arg = c /\ S = R \cup {c}
    BY DEF AddRequired, Statement
<1>2. DOMAIN old = DOMAIN db \cup {t} /\ old[t] = a
    BY DEF With
<1>3. a.required = R /\ a.optional = O /\ a.indexes = I /\ a.parents = P
    BY DEF Table
<1>4. [a EXCEPT !.required = S] = Table(S, O, I, P)
    BY DEF Table
<1>5. [old EXCEPT ![t] = Table(S, O, I, P)] = With(db, t, Table(S, O, I, P))
    BY Replace
<1> HIDE DEF old, a, s
<1>6. Apply(s, old) = [old EXCEPT ![s.table].required = @ \cup {s.arg}]
    BY <1>1, Zenon DEF Apply
<1>7. Apply(s, old) = [old EXCEPT ![t] = [a EXCEPT !.required = S]]
    BY <1>1, <1>2, <1>3, <1>6, Zenon
<1>8. \A b : Possible(s, old, b)
    BY <1>1, <1>2, <1>3 DEF Possible, Columns, Indexed
<1> QED BY <1>4, <1>5, <1>7, <1>8 DEF Runs, old, a, s

LEMMA RunsAddOptional ==
    ASSUME NEW db, NEW t, NEW c, NEW R, NEW O, NEW I, NEW P, NEW Q,
           c \notin R \cup O, Q = O \cup {c}
    PROVE  Runs(AddOptional(t, c), With(db, t, Table(R, O, I, P)),
                With(db, t, Table(R, Q, I, P)))
<1> DEFINE a == Table(R, O, I, P)
           old == With(db, t, a)
           s == AddOptional(t, c)
<1>1. s.op = "add_optional" /\ s.table = t /\ s.arg = c /\ Q = O \cup {c}
    BY DEF AddOptional, Statement
<1>2. DOMAIN old = DOMAIN db \cup {t} /\ old[t] = a
    BY DEF With
<1>3. a.required = R /\ a.optional = O /\ a.indexes = I /\ a.parents = P
    BY DEF Table
<1>4. [a EXCEPT !.optional = Q] = Table(R, Q, I, P)
    BY DEF Table
<1>5. [old EXCEPT ![t] = Table(R, Q, I, P)] = With(db, t, Table(R, Q, I, P))
    BY Replace
<1> HIDE DEF old, a, s
<1>6. Apply(s, old) = [old EXCEPT ![s.table].optional = @ \cup {s.arg}]
    BY <1>1, Zenon DEF Apply
<1>7. Apply(s, old) = [old EXCEPT ![t] = [a EXCEPT !.optional = Q]]
    BY <1>1, <1>2, <1>3, <1>6, Zenon
<1>8. \A b : Possible(s, old, b)
    BY <1>1, <1>2, <1>3 DEF Possible, Columns, Indexed
<1> QED BY <1>4, <1>5, <1>7, <1>8 DEF Runs, old, a, s

LEMMA RunsDropColumn ==
    ASSUME NEW db, NEW t, NEW c, NEW R, NEW O, NEW I, NEW P, NEW S, NEW Q,
           c \in R \cup O, \A i \in I : i.column # c, S = R \ {c}, Q = O \ {c}
    PROVE  Runs(DropColumn(t, c), With(db, t, Table(R, O, I, P)),
                With(db, t, Table(S, Q, I, P)))
<1> DEFINE a == Table(R, O, I, P)
           old == With(db, t, a)
           s == DropColumn(t, c)
<1> DEFINE b == Table(S, O, I, P)
           mid == With(db, t, b)
<1>1. s.op = "drop_column" /\ s.table = t /\ s.arg = c /\ S = R \ {c} /\ Q = O \ {c}
    BY DEF DropColumn, Statement
<1>2. /\ DOMAIN old = DOMAIN db \cup {t} /\ old[t] = a
      /\ DOMAIN mid = DOMAIN db \cup {t} /\ mid[t] = b
    BY DEF With
<1>3. /\ a.required = R /\ a.optional = O /\ a.indexes = I /\ a.parents = P
      /\ b.required = S /\ b.optional = O /\ b.indexes = I /\ b.parents = P
    BY DEF Table
<1>4. [a EXCEPT !.required = S] = b
    BY DEF Table
<1>5. [b EXCEPT !.optional = Q] = Table(S, Q, I, P)
    BY DEF Table
<1>6. [old EXCEPT ![t] = b] = mid
    BY Replace
<1>7. [mid EXCEPT ![t] = Table(S, Q, I, P)] = With(db, t, Table(S, Q, I, P))
    BY Replace
<1> HIDE DEF old, a, s, mid, b
<1>8. Apply(s, old) = [old EXCEPT ![s.table].required = @ \ {s.arg}, ![s.table].optional = @ \ {s.arg}]
    BY <1>1, Zenon DEF Apply
<1>9. [old EXCEPT ![s.table].required = @ \ {s.arg}] = mid
    <2>1. [old EXCEPT ![s.table].required = @ \ {s.arg}] = [old EXCEPT ![t] = [a EXCEPT !.required = S]]
        BY <1>1, <1>2, <1>3, Zenon
    <2> QED BY <1>4, <1>6, <2>1, Zenon
<1>10. Apply(s, old) = [mid EXCEPT ![s.table].optional = @ \ {s.arg}]
    <2>1. ASSUME NEW m, m = [old EXCEPT ![s.table].required = @ \ {s.arg}]
          PROVE  Apply(s, old) = [m EXCEPT ![s.table].optional = @ \ {s.arg}]
        BY <1>8, <2>1
    <2> QED BY <1>9, <2>1
<1>11. Apply(s, old) = [mid EXCEPT ![t] = [b EXCEPT !.optional = Q]]
    BY <1>1, <1>2, <1>3, <1>10, Zenon
<1>12. \A d : Possible(s, old, d)
    BY <1>1, <1>2, <1>3 DEF Possible, Columns, Indexed
<1> QED BY <1>5, <1>7, <1>11, <1>12 DEF Runs, old, a, s

---------------------------------------------------------------------------
(* The schemas at rest, written out.                                       *)

OldUsers(required, optional, indexes) ==
    Table({"id", "full_name", "email", "password_hash", "totp_enabled", "failed_login_count",
           "created_at"} \cup required, {"totp_secret", "locked_until"} \cup optional, indexes, {})
Refresh(indexes) ==
    Table({"id", "user_id", "token_hash", "expires_at", "created_at"}, {"revoked_at"}, indexes,
          {"users"})
Two(users, refresh) == With(With(<<>>, "users", users), "refresh_tokens", refresh)

Hashes == {"verification_token_hash", "verification_token_expires", "reset_token_hash",
           "reset_token_expires"}

Schema1 ==
    Two(OldUsers({}, {}, {Unique("email")}), Refresh({Index("user_id"), Unique("token_hash")}))
\* Revision 2 after the upgrade to it, and after the downgrade to it.
Full2 ==
    Two(OldUsers({"email_verified"}, Hashes,
            {Unique("email"), Unique("verification_token_hash"), Unique("reset_token_hash")}),
        Refresh({Index("user_id"), Unique("token_hash")}))
Bare2 == Two(OldUsers({"email_verified"}, Hashes, {}), Refresh({}))

NewUsers(indexes) ==
    Table({"id", "email", "full_name", "is_active", "created_at"}, {}, indexes, {})
Devices(indexes) ==
    Table({"id", "user_id", "name", "token_hash", "created_at"}, {"last_used_at"}, indexes,
          {"users"})
Sessions(more, indexes) ==
    Table({"id", "session_id", "status", "scope", "expires_at", "created_at"},
          {"user_id", "client_id", "redirect_uri", "auth_code_hash", "auth_code_expires_at"}
              \cup more, indexes, {"users"})
Clients(indexes) ==
    Table({"id", "client_id", "client_secret_hash", "name", "redirect_uris", "is_active",
           "created_at"}, {}, indexes, {})
OnlyUsers  == With(<<>>, "users", NewUsers({Index("id"), Unique("email")}))
AndDevices ==
    With(OnlyUsers, "registered_devices", Devices({Index("user_id"), Unique("token_hash")}))
AndSessions(more) ==
    With(AndDevices, "qr_sessions",
        Sessions(more, {Unique("session_id"), Index("user_id"), Unique("auth_code_hash")}))
AndClients(more) ==
    With(AndSessions(more), "oauth_clients", Clients({Unique("client_id")}))
Schema3 == AndClients({})
Schema4 == AndClients({"auth_code"})

Schemas == {<<>>, Schema1, Full2, Bare2, Schema3, Schema4}

\* The schemas that a database may have at revision r between two migrations.
AtRest(r, db) ==
    \/ r = 0 /\ db = <<>>
    \/ r = 1 /\ db = Schema1
    \/ r = 2 /\ db \in {Full2, Bare2}
    \/ r = 3 /\ db = Schema3
    \/ r = 4 /\ db = Schema4

---------------------------------------------------------------------------
(* The inductive invariant.                                                *)

Names == {"users", "refresh_tokens", "registered_devices", "qr_sessions", "oauth_clients"}
ThisScript == Script(revision, run.target)

\* The downgrade from revision 2 that the downgrade from 3 has made impossible.
Stuck(start) == start = Bare2 /\ revision = 2 /\ run.target < 2

\* k statements of this migration are done; on an intact database the schema is
\* what they make of a schema at rest.
Progress(k) ==
    /\ run.left = SubSeq(ThisScript, k + 1, Len(ThisScript))
    /\ Intact => \E start \in Schemas :
        /\ AtRest(revision, start)
        /\ schema = After(ThisScript, start)[k]
        /\ Stuck(start) => k = 0

Basic ==
    /\ backend \in {"postgres", "sqlite"}
    /\ revision \in Revisions /\ durable.revision \in Revisions
    /\ durable = State(durable.schema, durable.revision)
    /\ DOMAIN schema \subseteq Names /\ DOMAIN durable.schema \subseteq Names
    /\ run = [target |-> run.target, left |-> run.left] /\ run.target \in Revisions
    /\ runs \in 0..MaxRuns /\ crashes \in 0..MaxCrashes

\* What survives: on PostgreSQL a schema at rest, on SQLite what there is.
Kept ==
    /\ Idle => durable = State(schema, revision)
    /\ backend = "postgres" => AtRest(durable.revision, durable.schema)
    /\ backend = "sqlite" /\ crashes = 0 => durable = State(schema, revision)

MInv == Basic /\ Kept /\ \E k \in 0..Len(ThisScript) : Progress(k)

---------------------------------------------------------------------------
(* What scripts do, statement by statement.                                *)

\* A set of numbers that is not empty has a least one.
LEMMA Least ==
    ASSUME NEW S, S \subseteq Nat, NEW n \in S
    PROVE  \E m \in S : \A k \in 0..(m - 1) : k \notin S
<1>1. PICK m \in S : \A k \in S : ~(<<k, m>> \in OpToRel(<, Nat))
    BY WFMin, NatLessThanWellFounded
<1>2. \A k \in 0..(m - 1) : <<k, m>> \in OpToRel(<, Nat)
    BY DEF OpToRel
<1> QED BY <1>1, <1>2

\* The recursive definition of After has a solution.
LEMMA AfterExists ==
    ASSUME NEW script, Len(script) \in Nat, NEW db
    PROVE  \E f : f = [k \in 0..Len(script) |-> IF k = 0 THEN db ELSE Apply(script[k], f[k - 1])]
<1> DEFINE Solves(f, n) == f = [k \in 0..n |-> IF k = 0 THEN db ELSE Apply(script[k], f[k - 1])]
           Bad == {n \in Nat : \A f : ~Solves(f, n)}
<1> SUFFICES ASSUME Len(script) \in Bad PROVE FALSE
    OBVIOUS
<1>1. PICK m \in Bad : \A k \in 0..(m - 1) : k \notin Bad
    BY Least
<1>2. m # 0
    <2>1. Solves([k \in 0..0 |-> db], 0)
        OBVIOUS
    <2> QED BY <2>1
<1>3. PICK f : Solves(f, m - 1)
    BY <1>1, <1>2
<1> DEFINE g == [k \in 0..m |-> IF k = m THEN Apply(script[m], f[m - 1]) ELSE f[k]]
<1>4. Solves(g, m)
    <2>1. ASSUME NEW k \in 0..m
          PROVE  g[k] = IF k = 0 THEN db ELSE Apply(script[k], g[k - 1])
        <3>1. CASE k = m
            BY <1>1, <1>2, <3>1
        <3>2. CASE k # m
            BY <1>1, <1>2, <1>3, <3>2
        <3> QED BY <3>1, <3>2
    <2>2. g = [k \in 0..m |-> g[k]]
        OBVIOUS
    <2> HIDE DEF g
    <2> QED BY <2>1, <2>2
<1> QED BY <1>1, <1>4

LEMMA AfterIs ==
    ASSUME NEW script, Len(script) \in Nat, NEW db
    PROVE  /\ After(script, db)[0] = db
           /\ \A k \in 1..Len(script) :
                 After(script, db)[k] = Apply(script[k], After(script, db)[k - 1])
<1> DEFINE a == After(script, db)
<1>1. a = [k \in 0..Len(script) |-> IF k = 0 THEN db ELSE Apply(script[k], a[k - 1])]
    BY AfterExists DEF After
<1> HIDE DEF a
<1>2. a[0] = db /\ \A k \in 1..Len(script) : a[k] = Apply(script[k], a[k - 1])
    BY <1>1
<1> QED BY <1>2 DEF a

\* Both databases carry the first k statements out, and new is what comes of them.
Leads(script, db, k, new) ==
    /\ Len(script) \in Nat /\ k \in 0..Len(script)
    /\ After(script, db)[k] = new
    /\ \A i \in 1..k : \A b \in {"postgres", "sqlite"} :
            Possible(script[i], After(script, db)[i - 1], b)

\* Statements that run one after the other, through the schemas of tr.
LEMMA Chain ==
    ASSUME NEW script, NEW tr, NEW n \in Nat, Len(script) = n,
           \A k \in 1..n : Runs(script[k], tr[k], tr[k + 1]),
           NEW first, tr[1] = first, NEW last, tr[n + 1] = last
    PROVE  Leads(script, first, n, last)
<1> DEFINE a == After(script, first)
           Bad == {k \in Nat : k \in 0..n /\ a[k] # tr[k + 1]}
<1>0. a[0] = tr[1] /\ \A k \in 1..n : a[k] = Apply(script[k], a[k - 1])
    BY AfterIs
<1> HIDE DEF a
<1>1. ASSUME NEW l \in Bad PROVE FALSE
    <2>1. PICK m \in Bad : \A k \in 0..(m - 1) : k \notin Bad
        BY <1>1, Least
    <2>2. m # 0
        BY <1>0
    <2>3. m \in 1..n /\ a[m - 1] = tr[m]
        BY <2>1, <2>2
    <2> QED BY <1>0, <2>1, <2>3 DEF Runs
<1>2. \A k \in 0..n : a[k] = tr[k + 1]
    BY <1>1
<1>3. ASSUME NEW k \in 1..n, NEW b \in {"postgres", "sqlite"}
      PROVE  Possible(script[k], a[k - 1], b)
    <2>1. a[k - 1] = tr[k]
        BY <1>2
    <2> QED BY <2>1 DEF Runs
<1> QED BY <1>2, <1>3 DEF Leads, a

---------------------------------------------------------------------------
(* What each script makes of a schema at rest.                             *)

LEMMA IndexIs == \A c : Index(c).column = c /\ Unique(c).column = c
BY DEF Index, Unique

LEMMA NoTables == DOMAIN <<>> = {} /\ IsSchema(<<>>)
BY DEF IsSchema

\* The upgrade to revision 1 and, through the same schemas, the downgrade from it.
LEMMA Between0And1 ==
    Leads(upgrade_0001, <<>>, 5, Schema1) /\ Leads(downgrade_0001, Schema1, 5, <<>>)
<1> DEFINE up == upgrade_0001   down == downgrade_0001
           R == {"id", "full_name", "email", "password_hash", "totp_enabled",
                 "failed_login_count", "created_at"}
           O == {"totp_secret", "locked_until"}
           S == {"id", "user_id", "token_hash", "expires_at", "created_at"}
           Q == {"revoked_at"}
           a == {Unique("email")}
           b == {Index("user_id")}
           c == {Index("user_id"), Unique("token_hash")}
           u(I) == With(<<>>, "users", Table(R, O, I, {}))
           r(I) == With(u(a), "refresh_tokens", Table(S, Q, I, {"users"}))
           s0 == <<>>   s1 == u({})   s2 == u(a)   s3 == r({})   s4 == r(b)   s5 == r(c)
<1>1. /\ Len(up) = 5
      /\ up[1] = CreateTable("users", R, O, {})
      /\ up[2] = CreateUnique("users", "email")
      /\ up[3] = CreateTable("refresh_tokens", S, Q, {"users"})
      /\ up[4] = CreateIndex("refresh_tokens", "user_id")
      /\ up[5] = CreateUnique("refresh_tokens", "token_hash")
    BY DEF upgrade_0001, RefreshTokens
<1>2. /\ Len(down) = 5
      /\ down[1] = DropIndex("refresh_tokens", "token_hash")
      /\ down[2] = DropIndex("refresh_tokens", "user_id")
      /\ down[3] = DropTable("refresh_tokens")
      /\ down[4] = DropIndex("users", "email")
      /\ down[5] = DropTable("users")
    BY DEF downgrade_0001
<1>3. Schema1 = s5
    BY DEF Schema1, Two, OldUsers, Refresh
<1>4. "email" \in R /\ "user_id" \in S /\ "token_hash" \in S
    OBVIOUS
<1>5. /\ a = {} \cup {Unique("email")} /\ b = {} \cup {Index("user_id")}
      /\ c = b \cup {Unique("token_hash")}
      /\ \A i \in b : i.column # "token_hash"
    BY IndexIs
<1>6. /\ {} = {i \in a : i.column # "email"} /\ {} = {i \in b : i.column # "user_id"}
      /\ b = {i \in c : i.column # "token_hash"}
      /\ \E i \in a : i.column = "email"
      /\ \E i \in b : i.column = "user_id"
      /\ \E i \in c : i.column = "token_hash"
    BY IndexIs
<1>7. /\ "refresh_tokens" \notin DOMAIN u(a) /\ IsSchema(u(a))
      /\ \A t \in DOMAIN u(a) : "refresh_tokens" \notin u(a)[t].parents
      /\ "refresh_tokens" \notin Table(S, Q, {}, {"users"}).parents
      /\ "users" \notin Table(R, O, {}, {}).parents
    BY NoTables DEF With, Table, IsSchema
<1> HIDE DEF up, down, R, O, S, Q, a, b, c
<1>8. Runs(up[1], s0, s1)
    BY <1>1, NoTables, RunsCreate
<1>9. Runs(up[2], s1, s2)
    BY <1>1, <1>4, <1>5, RunsCreateUnique
<1>10. Runs(up[3], s2, s3)
    BY <1>1, <1>7, RunsCreate
<1>11. Runs(up[4], s3, s4)
    BY <1>1, <1>4, <1>5, RunsCreateIndex
<1>12. Runs(up[5], s4, s5)
    BY <1>1, <1>4, <1>5, RunsCreateUnique
<1>13. Runs(down[1], s5, s4)
    BY <1>2, <1>6, RunsDropIndex
<1>14. Runs(down[2], s4, s3)
    BY <1>2, <1>6, RunsDropIndex
<1>15. Runs(down[3], s3, s2)
    BY <1>2, <1>7, RunsDrop
<1>16. Runs(down[4], s2, s1)
    BY <1>2, <1>6, RunsDropIndex
<1>17. Runs(down[5], s1, s0)
    BY <1>2, <1>7, NoTables, RunsDrop
<1> DEFINE tr == <<s0, s1, s2, s3, s4, s5>>
<1>18. /\ tr[1] = s0 /\ tr[2] = s1 /\ tr[3] = s2 /\ tr[4] = s3 /\ tr[5] = s4
      /\ tr[6] = s5
    OBVIOUS
<1> DEFINE back == <<s5, s4, s3, s2, s1, s0>>
<1>19. /\ back[1] = s5 /\ back[2] = s4 /\ back[3] = s3 /\ back[4] = s2 /\ back[5] = s1
      /\ back[6] = s0
    OBVIOUS
<1> HIDE DEF u, r, s0, s1, s2, s3, s4, s5, tr, back
<1>20. \A k \in 1..5 : Runs(up[k], tr[k], tr[k + 1])
    BY <1>18, <1>8, <1>9, <1>10, <1>11, <1>12
<1>21. Len(up) = 5 /\ tr[5 + 1] = s5
    BY <1>1, <1>18
<1>22. Leads(up, s0, 5, s5)
    BY <1>18, <1>20, <1>21, Chain
<1>23. \A k \in 1..5 : Runs(down[k], back[k], back[k + 1])
    BY <1>19, <1>13, <1>14, <1>15, <1>16, <1>17
<1>24. Len(down) = 5 /\ back[5 + 1] = s0
    BY <1>2, <1>19
<1>25. Leads(down, s5, 5, s0)
    BY <1>19, <1>23, <1>24, Chain
<1> QED BY <1>3, <1>22, <1>25 DEF up, down, s0

\* The upgrade to revision 2 and, through the same schemas, the downgrade from it.
LEMMA Between1And2 ==
    Leads(upgrade_0002, Schema1, 7, Full2) /\ Leads(downgrade_0002, Full2, 7, Schema1)
<1> DEFINE up == upgrade_0002   down == downgrade_0002
           R == {"id", "full_name", "email", "password_hash", "totp_enabled",
                 "failed_login_count", "created_at"}
           S == R \cup {"email_verified"}
           O == {"totp_secret", "locked_until"}
           O1 == O \cup {"verification_token_hash"}
           O2 == O1 \cup {"verification_token_expires"}
           O3 == O2 \cup {"reset_token_hash"}
           O4 == O3 \cup {"reset_token_expires"}
           a == {Unique("email")}
           b == {Unique("email"), Unique("verification_token_hash")}
           c == {Unique("email"), Unique("verification_token_hash"), Unique("reset_token_hash")}
           base == With(<<>>, "refresh_tokens", Refresh({Index("user_id"), Unique("token_hash")}))
           u(P, Q, I) == With(base, "users", Table(P, Q, I, {}))
           s0 == u(R, O, a)    s1 == u(S, O, a)    s2 == u(S, O1, a)   s3 == u(S, O2, a)
           s4 == u(S, O3, a)   s5 == u(S, O4, a)   s6 == u(S, O4, b)   s7 == u(S, O4, c)
<1>1. /\ Len(up) = 7
      /\ up[1] = AddRequired("users", "email_verified")
      /\ up[2] = AddOptional("users", "verification_token_hash")
      /\ up[3] = AddOptional("users", "verification_token_expires")
      /\ up[4] = AddOptional("users", "reset_token_hash")
      /\ up[5] = AddOptional("users", "reset_token_expires")
      /\ up[6] = CreateUnique("users", "verification_token_hash")
      /\ up[7] = CreateUnique("users", "reset_token_hash")
    BY DEF upgrade_0002
<1>2. /\ Len(down) = 7
      /\ down[1] = DropIndex("users", "reset_token_hash")
      /\ down[2] = DropIndex("users", "verification_token_hash")
      /\ down[3] = DropColumn("users", "reset_token_expires")
      /\ down[4] = DropColumn("users", "reset_token_hash")
      /\ down[5] = DropColumn("users", "verification_token_expires")
      /\ down[6] = DropColumn("users", "verification_token_hash")
      /\ down[7] = DropColumn("users", "email_verified")
    BY DEF downgrade_0002
<1>3. Schema1 = s0 /\ Full2 = s7
    BY Swap DEF Schema1, Full2, Two, OldUsers, Hashes
<1>4. /\ "email_verified" \notin R \cup O /\ "verification_token_hash" \notin S \cup O
      /\ "verification_token_expires" \notin S \cup O1 /\ "reset_token_hash" \notin S \cup O2
      /\ "reset_token_expires" \notin S \cup O3
      /\ "verification_token_hash" \in O4 /\ "reset_token_hash" \in O4
    OBVIOUS
<1>5. /\ b = a \cup {Unique("verification_token_hash")} /\ c = b \cup {Unique("reset_token_hash")}
      /\ \A i \in a : i.column # "verification_token_hash"
      /\ \A i \in b : i.column # "reset_token_hash"
    BY IndexIs
<1>6. /\ b = {i \in c : i.column # "reset_token_hash"}
      /\ a = {i \in b : i.column # "verification_token_hash"}
      /\ \E i \in c : i.column = "reset_token_hash"
      /\ \E i \in b : i.column = "verification_token_hash"
    BY IndexIs
<1>7. /\ O3 = O4 \ {"reset_token_expires"} /\ O2 = O3 \ {"reset_token_hash"}
      /\ O1 = O2 \ {"verification_token_expires"} /\ O = O1 \ {"verification_token_hash"}
      /\ O = O \ {"email_verified"} /\ R = S \ {"email_verified"}
    OBVIOUS
<1>8. /\ S = S \ {"reset_token_expires"} /\ S = S \ {"reset_token_hash"}
      /\ S = S \ {"verification_token_expires"} /\ S = S \ {"verification_token_hash"}
    OBVIOUS
<1>9. /\ S = R \cup {"email_verified"} /\ O1 = O \cup {"verification_token_hash"}
      /\ O2 = O1 \cup {"verification_token_expires"} /\ O3 = O2 \cup {"reset_token_hash"}
      /\ O4 = O3 \cup {"reset_token_expires"}
    OBVIOUS
<1>10. \A i \in a : /\ i.column # "reset_token_expires" /\ i.column # "reset_token_hash"
                  /\ i.column # "verification_token_expires" /\ i.column # "email_verified"
    BY IndexIs
<1> HIDE DEF up, down, R, S, O, O1, O2, O3, O4, a, b, c, base
<1>11. Runs(up[1], s0, s1)
    BY <1>1, <1>4, <1>9, RunsAddRequired
<1>12. Runs(up[2], s1, s2)
    BY <1>1, <1>4, <1>9, RunsAddOptional
<1>13. Runs(up[3], s2, s3)
    BY <1>1, <1>4, <1>9, RunsAddOptional
<1>14. Runs(up[4], s3, s4)
    BY <1>1, <1>4, <1>9, RunsAddOptional
<1>15. Runs(up[5], s4, s5)
    BY <1>1, <1>4, <1>9, RunsAddOptional
<1>16. Runs(up[6], s5, s6)
    BY <1>1, <1>4, <1>5, RunsCreateUnique
<1>17. Runs(up[7], s6, s7)
    BY <1>1, <1>4, <1>5, RunsCreateUnique
<1>18. Runs(down[1], s7, s6)
    BY <1>2, <1>6, RunsDropIndex
<1>19. Runs(down[2], s6, s5)
    BY <1>2, <1>6, RunsDropIndex
<1>20. Runs(down[3], s5, s4)
    BY <1>2, <1>9, <1>7, <1>8, <1>10, <1>5, RunsDropColumn
<1>21. Runs(down[4], s4, s3)
    BY <1>2, <1>9, <1>7, <1>8, <1>10, <1>5, RunsDropColumn
<1>22. Runs(down[5], s3, s2)
    BY <1>2, <1>9, <1>7, <1>8, <1>10, <1>5, RunsDropColumn
<1>23. Runs(down[6], s2, s1)
    BY <1>2, <1>9, <1>7, <1>8, <1>10, <1>5, RunsDropColumn
<1>24. Runs(down[7], s1, s0)
    BY <1>2, <1>9, <1>7, <1>8, <1>10, <1>5, RunsDropColumn
<1> DEFINE tr == <<s0, s1, s2, s3, s4, s5, s6, s7>>
<1>25. /\ tr[1] = s0 /\ tr[2] = s1 /\ tr[3] = s2 /\ tr[4] = s3 /\ tr[5] = s4
      /\ tr[6] = s5 /\ tr[7] = s6 /\ tr[8] = s7
    OBVIOUS
<1> DEFINE back == <<s7, s6, s5, s4, s3, s2, s1, s0>>
<1>26. /\ back[1] = s7 /\ back[2] = s6 /\ back[3] = s5 /\ back[4] = s4 /\ back[5] = s3
      /\ back[6] = s2 /\ back[7] = s1 /\ back[8] = s0
    OBVIOUS
<1> HIDE DEF u, s0, s1, s2, s3, s4, s5, s6, s7, tr, back
<1>27. \A k \in 1..7 : Runs(up[k], tr[k], tr[k + 1])
    BY <1>25, <1>11, <1>12, <1>13, <1>14, <1>15, <1>16, <1>17
<1>28. Len(up) = 7 /\ tr[7 + 1] = s7
    BY <1>1, <1>25
<1>29. Leads(up, s0, 7, s7)
    BY <1>25, <1>27, <1>28, Chain
<1>30. \A k \in 1..7 : Runs(down[k], back[k], back[k + 1])
    BY <1>26, <1>18, <1>19, <1>20, <1>21, <1>22, <1>23, <1>24
<1>31. Len(down) = 7 /\ back[7 + 1] = s0
    BY <1>2, <1>26
<1>32. Leads(down, s7, 7, s0)
    BY <1>26, <1>30, <1>31, Chain
<1> QED BY <1>3, <1>29, <1>32 DEF up, down

\* The upgrade to revision 3, from either schema that revision 2 may have.
LEMMA From2To3 ==
    ASSUME NEW s0 \in {Full2, Bare2}
    PROVE  Leads(upgrade_0003, s0, 14, Schema3)
<1> DEFINE up == upgrade_0003
           R1 == {"id", "email", "full_name", "is_active", "created_at"}
           R2 == {"id", "user_id", "name", "token_hash", "created_at"}
           R3 == {"id", "session_id", "status", "scope", "expires_at", "created_at"}
           R4 == {"id", "client_id", "client_secret_hash", "name", "redirect_uris",
                  "is_active", "created_at"}
           O2 == {"last_used_at"}
           O3 == {"user_id", "client_id", "redirect_uri", "auth_code_hash",
                  "auth_code_expires_at"}
           a1 == {Index("id")}                 a2 == {Index("id"), Unique("email")}
           b1 == {Index("user_id")}            b2 == {Index("user_id"), Unique("token_hash")}
           c1 == {Unique("session_id")}        c2 == {Unique("session_id"), Index("user_id")}
           c3 == {Unique("session_id"), Index("user_id"), Unique("auth_code_hash")}
           d1 == {Unique("client_id")}
           u(I) == With(<<>>, "users", Table(R1, {}, I, {}))
           d(I) == With(u(a2), "registered_devices", Table(R2, O2, I, {"users"}))
           q(I) == With(d(b2), "qr_sessions", Table(R3, O3, I, {"users"}))
           c(I) == With(q(c3), "oauth_clients", Table(R4, {}, I, {}))
           s2 == <<>>    s3 == u({})   s4 == u(a1)    s5 == u(a2)
           s6 == d({})   s7 == d(b1)   s8 == d(b2)
           s9 == q({})   s10 == q(c1)  s11 == q(c2)   s12 == q(c3)
           s13 == c({})  s14 == c(d1)
<1>1. /\ Len(up) = 14
      /\ up[1] = DropTable("refresh_tokens") /\ up[2] = DropTable("users")
      /\ up[3] = CreateTable("users", R1, {}, {})
      /\ up[4] = CreateIndex("users", "id")
      /\ up[5] = CreateUnique("users", "email")
      /\ up[6] = CreateTable("registered_devices", R2, O2, {"users"})
      /\ up[7] = CreateIndex("registered_devices", "user_id")
      /\ up[8] = CreateUnique("registered_devices", "token_hash")
      /\ up[9] = CreateTable("qr_sessions", R3, O3, {"users"})
      /\ up[10] = CreateUnique("qr_sessions", "session_id")
      /\ up[11] = CreateIndex("qr_sessions", "user_id")
      /\ up[12] = CreateUnique("qr_sessions", "auth_code_hash")
      /\ up[13] = CreateTable("oauth_clients", R4, {}, {})
      /\ up[14] = CreateUnique("oauth_clients", "client_id")
    BY DEF upgrade_0003, NewTables
<1>2. Schema3 = s14
    BY DEF Schema3, AndClients, AndSessions, AndDevices, OnlyUsers, NewUsers, Devices, Sessions,
           Clients
<1>3. /\ "id" \in R1 /\ "email" \in R1 /\ "user_id" \in R2 /\ "token_hash" \in R2
      /\ "session_id" \in R3 /\ "user_id" \in O3 /\ "auth_code_hash" \in O3 /\ "client_id" \in R4
    OBVIOUS
<1>4. /\ a1 = {} \cup {Index("id")} /\ a2 = a1 \cup {Unique("email")}
      /\ b1 = {} \cup {Index("user_id")} /\ b2 = b1 \cup {Unique("token_hash")}
      /\ \A i \in a1 : i.column # "email"
      /\ \A i \in b1 : i.column # "token_hash"
    BY IndexIs
<1>5. /\ c1 = {} \cup {Unique("session_id")} /\ c2 = c1 \cup {Index("user_id")}
      /\ c3 = c2 \cup {Unique("auth_code_hash")} /\ d1 = {} \cup {Unique("client_id")}
      /\ \A i \in c1 : i.column # "user_id"
      /\ \A i \in c2 : i.column # "auth_code_hash"
    BY IndexIs
<1>6. /\ "users" \notin DOMAIN s2 /\ "registered_devices" \notin DOMAIN s5
      /\ "qr_sessions" \notin DOMAIN s8 /\ "oauth_clients" \notin DOMAIN s12
    BY NoTables DEF With
<1>7. \E U, T :
        /\ s0 = With(With(<<>>, "users", U), "refresh_tokens", T)
        /\ U.parents = {} /\ T.parents = {"users"}
    BY DEF Full2, Bare2, Two, OldUsers, Refresh, Table
<1>8. PICK U, T :
      /\ s0 = With(With(<<>>, "users", U), "refresh_tokens", T)
      /\ U.parents = {} /\ T.parents = {"users"}
    BY <1>7
<1>9. /\ IsSchema(With(<<>>, "users", U)) /\ DOMAIN With(<<>>, "users", U) = {"users"}
      /\ With(<<>>, "users", U)["users"] = U
    BY NoTables DEF With, IsSchema
<1> HIDE DEF up, R1, R2, R3, R4, O2, O3, a1, a2, b1, b2, c1, c2, c3, d1
<1> DEFINE s1 == With(<<>>, "users", U)
<1>10. Runs(up[1], s0, s1)
    BY <1>1, <1>8, <1>9, RunsDrop
<1>11. Runs(up[2], s1, s2)
    BY <1>1, <1>8, NoTables, RunsDrop
<1>12. Runs(up[3], s2, s3)
    BY <1>1, <1>6, RunsCreate
<1>13. Runs(up[4], s3, s4)
    BY <1>1, <1>3, <1>4, RunsCreateIndex
<1>14. Runs(up[5], s4, s5)
    BY <1>1, <1>3, <1>4, RunsCreateUnique
<1>15. Runs(up[6], s5, s6)
    BY <1>1, <1>6, RunsCreate
<1>16. Runs(up[7], s6, s7)
    BY <1>1, <1>3, <1>4, RunsCreateIndex
<1>17. Runs(up[8], s7, s8)
    BY <1>1, <1>3, <1>4, RunsCreateUnique
<1>18. Runs(up[9], s8, s9)
    BY <1>1, <1>6, RunsCreate
<1>19. Runs(up[10], s9, s10)
    BY <1>1, <1>3, <1>5, RunsCreateUnique
<1>20. Runs(up[11], s10, s11)
    BY <1>1, <1>3, <1>5, RunsCreateIndex
<1>21. Runs(up[12], s11, s12)
    BY <1>1, <1>3, <1>5, RunsCreateUnique
<1>22. Runs(up[13], s12, s13)
    BY <1>1, <1>6, RunsCreate
<1>23. Runs(up[14], s13, s14)
    BY <1>1, <1>3, <1>5, RunsCreateUnique
<1> DEFINE tr == <<s0, s1, s2, s3, s4, s5, s6, s7, s8, s9, s10, s11, s12, s13, s14>>
<1>24. /\ tr[1] = s0 /\ tr[2] = s1 /\ tr[3] = s2 /\ tr[4] = s3 /\ tr[5] = s4
      /\ tr[6] = s5 /\ tr[7] = s6 /\ tr[8] = s7 /\ tr[9] = s8 /\ tr[10] = s9
      /\ tr[11] = s10 /\ tr[12] = s11 /\ tr[13] = s12 /\ tr[14] = s13 /\ tr[15] = s14
    OBVIOUS
<1> HIDE DEF u, d, q, c, s1, s2, s3, s4, s5, s6, s7, s8, s9, s10, s11, s12, s13, s14, tr
<1>25. \A k \in 1..14 : Runs(up[k], tr[k], tr[k + 1])
    BY <1>24, <1>10, <1>11, <1>12, <1>13, <1>14, <1>15, <1>16, <1>17, <1>18, <1>19,
       <1>20, <1>21, <1>22, <1>23
<1>26. Len(up) = 14 /\ tr[14 + 1] = s14
    BY <1>1, <1>24
<1>27. Leads(up, s0, 14, s14)
    BY <1>24, <1>25, <1>26, Chain
<1> QED BY <1>2, <1>27 DEF up

\* The downgrade to revision 2, which restores no index.
LEMMA From3To2 ==
    Leads(downgrade_0003, Schema3, 6, Bare2)
<1> DEFINE down == downgrade_0003
           s0 == Schema3   s1 == AndSessions({})   s2 == AndDevices   s3 == OnlyUsers   s4 == <<>>
           R == {"id", "full_name", "email", "password_hash", "totp_enabled",
                 "email_verified", "failed_login_count", "created_at"}
           O == {"totp_secret", "verification_token_hash", "verification_token_expires",
                 "reset_token_hash", "reset_token_expires", "locked_until"}
           S == {"id", "user_id", "token_hash", "expires_at", "created_at"}
           Q == {"revoked_at"}
           s5 == With(<<>>, "users", Table(R, O, {}, {}))
           s6 == With(s5, "refresh_tokens", Table(S, Q, {}, {"users"}))
<1>1. /\ Len(down) = 6
      /\ down[1] = DropTable("oauth_clients") /\ down[2] = DropTable("qr_sessions")
      /\ down[3] = DropTable("registered_devices") /\ down[4] = DropTable("users")
      /\ down[5] = CreateTable("users", R, O, {})
      /\ down[6] = CreateTable("refresh_tokens", S, Q, {"users"})
    BY DEF downgrade_0003, RefreshTokens
<1>2. Bare2 = s6
    <2>1. R = {"id", "full_name", "email", "password_hash", "totp_enabled",
                 "failed_login_count", "created_at"} \cup {"email_verified"}
        OBVIOUS
    <2>2. O = {"totp_secret", "locked_until"} \cup Hashes
        BY DEF Hashes
    <2> HIDE DEF R, O
    <2> QED BY <2>1, <2>2 DEF Bare2, Two, OldUsers, Refresh
<1>3. \A I, m : /\ NewUsers(I).parents = {} /\ Devices(I).parents = {"users"}
                   /\ Sessions(m, I).parents = {"users"} /\ Clients(I).parents = {}
    BY DEF NewUsers, Devices, Sessions, Clients, Table
<1>4. /\ IsSchema(s3) /\ DOMAIN s3 = {"users"} /\ s3["users"].parents = {}
    BY <1>3, NoTables DEF OnlyUsers, With, IsSchema
<1>5. /\ IsSchema(s2) /\ DOMAIN s2 = {"users", "registered_devices"}
      /\ \A t \in DOMAIN s2 : s2[t].parents \in {{}, {"users"}}
    BY <1>3, <1>4 DEF AndDevices, With, IsSchema
<1>6. /\ IsSchema(s1) /\ DOMAIN s1 = {"users", "registered_devices", "qr_sessions"}
      /\ \A t \in DOMAIN s1 : s1[t].parents \in {{}, {"users"}}
    BY <1>3, <1>5 DEF AndSessions, With, IsSchema
<1>7. "refresh_tokens" \notin DOMAIN s5
    BY NoTables DEF With
<1> HIDE DEF down, R, O, S, Q
<1>8. Runs(down[1], s0, s1)
    BY <1>1, <1>3, <1>6, RunsDrop DEF Schema3, AndClients
<1>9. Runs(down[2], s1, s2)
    BY <1>1, <1>3, <1>5, RunsDrop DEF AndSessions
<1>10. Runs(down[3], s2, s3)
    BY <1>1, <1>3, <1>4, RunsDrop DEF AndDevices
<1>11. Runs(down[4], s3, s4)
    BY <1>1, <1>3, NoTables, RunsDrop DEF OnlyUsers
<1>12. Runs(down[5], s4, s5)
    BY <1>1, NoTables, RunsCreate
<1>13. Runs(down[6], s5, s6)
    BY <1>1, <1>7, RunsCreate
<1> DEFINE back == <<s0, s1, s2, s3, s4, s5, s6>>
<1>14. /\ back[1] = s0 /\ back[2] = s1 /\ back[3] = s2 /\ back[4] = s3 /\ back[5] = s4
      /\ back[6] = s5 /\ back[7] = s6
    OBVIOUS
<1> HIDE DEF s0, s1, s2, s3, s4, s5, s6, back
<1>15. \A k \in 1..6 : Runs(down[k], back[k], back[k + 1])
    BY <1>14, <1>8, <1>9, <1>10, <1>11, <1>12, <1>13
<1>16. Len(down) = 6 /\ back[6 + 1] = s6
    BY <1>1, <1>14
<1>17. Leads(down, s0, 6, s6)
    BY <1>14, <1>15, <1>16, Chain
<1> QED BY <1>2, <1>17 DEF down, s0

\* The upgrade to revision 4 and the downgrade from it.
LEMMA Between3And4 ==
    Leads(upgrade_0004, Schema3, 1, Schema4) /\ Leads(downgrade_0004, Schema4, 1, Schema3)
<1> DEFINE up == upgrade_0004   down == downgrade_0004
           base == With(AndDevices, "oauth_clients", Clients({Unique("client_id")}))
           R == {"id", "session_id", "status", "scope", "expires_at", "created_at"}
           O == {"user_id", "client_id", "redirect_uri", "auth_code_hash",
                 "auth_code_expires_at"} \cup {}
           Q == {"user_id", "client_id", "redirect_uri", "auth_code_hash",
                 "auth_code_expires_at"} \cup {"auth_code"}
           c == {Unique("session_id"), Index("user_id"), Unique("auth_code_hash")}
           s0 == With(base, "qr_sessions", Table(R, O, c, {"users"}))
           s1 == With(base, "qr_sessions", Table(R, Q, c, {"users"}))
<1>1. /\ Len(up) = 1 /\ up[1] = AddOptional("qr_sessions", "auth_code")
      /\ Len(down) = 1 /\ down[1] = DropColumn("qr_sessions", "auth_code")
    BY DEF upgrade_0004, downgrade_0004
<1>2. Schema3 = s0 /\ Schema4 = s1
    BY Swap DEF Schema3, Schema4, AndClients, AndSessions, Sessions
<1>3. /\ "auth_code" \notin R \cup O /\ Q = O \cup {"auth_code"} /\ O = Q \ {"auth_code"}
      /\ R = R \ {"auth_code"} /\ "auth_code" \in Q
    OBVIOUS
<1>4. \A i \in c : i.column # "auth_code"
    BY IndexIs
<1> HIDE DEF up, down, base, R, O, Q, c
<1>5. Runs(up[1], s0, s1)
    BY <1>1, <1>3, RunsAddOptional
<1>6. Runs(down[1], s1, s0)
    BY <1>1, <1>3, <1>4, RunsDropColumn
<1> DEFINE tr == <<s0, s1>>
<1>7. /\ tr[1] = s0 /\ tr[2] = s1
    OBVIOUS
<1> DEFINE back == <<s1, s0>>
<1>8. /\ back[1] = s1 /\ back[2] = s0
    OBVIOUS
<1> HIDE DEF s0, s1, tr, back
<1>9. \A k \in 1..1 : Runs(up[k], tr[k], tr[k + 1])
    BY <1>7, <1>5
<1>10. Len(up) = 1 /\ tr[1 + 1] = s1
    BY <1>1, <1>7
<1>11. Leads(up, s0, 1, s1)
    BY <1>7, <1>9, <1>10, Chain
<1>12. \A k \in 1..1 : Runs(down[k], back[k], back[k + 1])
    BY <1>8, <1>6
<1>13. Len(down) = 1 /\ back[1 + 1] = s0
    BY <1>1, <1>8
<1>14. Leads(down, s1, 1, s0)
    BY <1>8, <1>12, <1>13, Chain
<1> QED BY <1>2, <1>11, <1>14 DEF up, down

---------------------------------------------------------------------------
(* Scripts and how far a run is in one.                                    *)

\* A sequence of statements, none of which creates a table of another name.
IsScript(script) ==
    \E S : script \in Seq(S) /\ \A s \in S : s.op = "create_table" => s.table \in Names

LEMMA Lengths ==
    /\ HeadRevision = 4 /\ Revisions = 0..4
    /\ Upgrades[1] = upgrade_0001 /\ Upgrades[2] = upgrade_0002
    /\ Upgrades[3] = upgrade_0003 /\ Upgrades[4] = upgrade_0004
    /\ Downgrades[1] = downgrade_0001 /\ Downgrades[2] = downgrade_0002
    /\ Downgrades[3] = downgrade_0003 /\ Downgrades[4] = downgrade_0004
BY DEF HeadRevision, Revisions, Upgrades, Downgrades

LEMMA StatementsAre ==
    \A t, c, R, O, P :
        /\ CreateTable(t, R, O, P).op = "create_table" /\ CreateTable(t, R, O, P).table = t
        /\ DropTable(t).op = "drop_table" /\ CreateIndex(t, c).op = "create_index"
        /\ CreateUnique(t, c).op = "create_index" /\ DropIndex(t, c).op = "drop_index"
        /\ AddRequired(t, c).op = "add_required" /\ AddOptional(t, c).op = "add_optional"
        /\ DropColumn(t, c).op = "drop_column"
BY DEF CreateTable, DropTable, CreateIndex, CreateUnique, DropIndex, AddRequired, AddOptional,
       DropColumn, Statement

LEMMA ScriptsAre ==
    ASSUME NEW r \in Revisions, NEW t \in Revisions
    PROVE  IsScript(Script(r, t))
<1>1. IsScript(upgrade_0001)
    <2> DEFINE S == {upgrade_0001[i] : i \in 1..5}
    <2>1. upgrade_0001 \in Seq(S)
        BY DEF upgrade_0001
    <2>2. \A s \in S : s.op = "create_table" => s.table \in Names
        BY StatementsAre DEF upgrade_0001, RefreshTokens, Names
    <2> QED BY <2>1, <2>2 DEF IsScript
<1>2. IsScript(downgrade_0001)
    <2> DEFINE S == {downgrade_0001[i] : i \in 1..5}
    <2>1. downgrade_0001 \in Seq(S)
        BY DEF downgrade_0001
    <2>2. \A s \in S : s.op = "create_table" => s.table \in Names
        BY StatementsAre DEF downgrade_0001
    <2> QED BY <2>1, <2>2 DEF IsScript
<1>3. IsScript(upgrade_0002)
    <2> DEFINE S == {upgrade_0002[i] : i \in 1..7}
    <2>1. upgrade_0002 \in Seq(S)
        BY DEF upgrade_0002
    <2>2. \A s \in S : s.op = "create_table" => s.table \in Names
        BY StatementsAre DEF upgrade_0002
    <2> QED BY <2>1, <2>2 DEF IsScript
<1>4. IsScript(downgrade_0002)
    <2> DEFINE S == {downgrade_0002[i] : i \in 1..7}
    <2>1. downgrade_0002 \in Seq(S)
        BY DEF downgrade_0002
    <2>2. \A s \in S : s.op = "create_table" => s.table \in Names
        BY StatementsAre DEF downgrade_0002
    <2> QED BY <2>1, <2>2 DEF IsScript
<1>5. IsScript(upgrade_0003)
    <2> DEFINE S == {upgrade_0003[i] : i \in 1..14}
    <2>1. upgrade_0003 \in Seq(S)
        BY DEF upgrade_0003, NewTables
    <2>2. \A s \in S : s.op = "create_table" => s.table \in Names
        BY StatementsAre DEF upgrade_0003, NewTables, Names
    <2> QED BY <2>1, <2>2 DEF IsScript
<1>6. IsScript(downgrade_0003)
    <2> DEFINE S == {downgrade_0003[i] : i \in 1..6}
    <2>1. downgrade_0003 \in Seq(S)
        BY DEF downgrade_0003
    <2>2. \A s \in S : s.op = "create_table" => s.table \in Names
        BY StatementsAre DEF downgrade_0003, RefreshTokens, Names
    <2> QED BY <2>1, <2>2 DEF IsScript
<1>7. IsScript(upgrade_0004)
    <2> DEFINE S == {upgrade_0004[i] : i \in 1..1}
    <2>1. upgrade_0004 \in Seq(S)
        BY DEF upgrade_0004
    <2>2. \A s \in S : s.op = "create_table" => s.table \in Names
        BY StatementsAre DEF upgrade_0004
    <2> QED BY <2>1, <2>2 DEF IsScript
<1>8. IsScript(downgrade_0004)
    <2> DEFINE S == {downgrade_0004[i] : i \in 1..1}
    <2>1. downgrade_0004 \in Seq(S)
        BY DEF downgrade_0004
    <2>2. \A s \in S : s.op = "create_table" => s.table \in Names
        BY StatementsAre DEF downgrade_0004
    <2> QED BY <2>1, <2>2 DEF IsScript
<1>9. IsScript(<<>>)
    <2> DEFINE S == {}
    <2>1. <<>> \in Seq(S)
        OBVIOUS
    <2>2. \A s \in S : s.op = "create_table" => s.table \in Names
        OBVIOUS
    <2> HIDE DEF S
    <2> QED BY <2>1, <2>2 DEF IsScript
<1>10. CASE r < t
    <2>1. r \in 0..3 /\ Script(r, t) = Upgrades[r + 1]
        BY <1>10, Lengths DEF Script
    <2> QED BY <1>1, <1>3, <1>5, <1>7, <2>1, Lengths
<1>11. CASE r > t
    <2>1. r \in 1..4 /\ Script(r, t) = Downgrades[r]
        BY <1>11, Lengths DEF Script
    <2> QED BY <1>2, <1>4, <1>6, <1>8, <2>1, Lengths
<1>12. CASE r = t
    BY <1>9, <1>12, Lengths DEF Script
<1> QED BY <1>10, <1>11, <1>12, Lengths

\* What is left of a script of which k statements are done.
LEMMA Rest ==
    ASSUME NEW script, IsScript(script), NEW k \in 0..Len(script), NEW left,
           left = SubSeq(script, k + 1, Len(script))
    PROVE  /\ Len(script) \in Nat
           /\ left = <<>> => k = Len(script)
           /\ left # <<>> =>
                /\ k + 1 \in 1..Len(script) /\ Head(left) = script[k + 1]
                /\ Tail(left) = SubSeq(script, k + 2, Len(script))
<1>1. PICK S : script \in Seq(S)
    BY DEF IsScript
<1>2. CASE k = Len(script)
    <2>1. left = <<>>
        BY <1>1, <1>2, SubSeqEmpty
    <2> QED BY <1>1, <1>2, <2>1
<1>3. CASE k < Len(script)
    <2>1. Len(script) \in Nat /\ k + 1 \in 1..Len(script) /\ Len(script) \in (k + 1)..Len(script)
        BY <1>1, <1>3
    <2>2. Head(left) = script[k + 1] /\ Tail(left) = SubSeq(script, k + 1 + 1, Len(script))
        BY <1>1, <2>1, HeadTailOfSubSeq
    <2>3. Len(left) = Len(script) - k
        <3>1. \A i \in (k + 1)..Len(script) : script[i] \in S
            BY <1>1
        <3> QED BY <2>1, <3>1, SubSeqProperties
    <2>4. k + 1 + 1 = k + 2 /\ k # Len(script)
        BY <1>3, <2>1
    <2>5. Tail(left) = SubSeq(script, k + 2, Len(script))
        BY <2>2, <2>4
    <2>6. ASSUME left = <<>> PROVE FALSE
        <3>1. Len(<<>>) = 0
            OBVIOUS
        <3>2. Len(left) = 0
            BY <2>6, <3>1, Zenon
        <3> QED BY <1>3, <2>1, <2>3, <3>2
    <2> QED BY <2>1, <2>2, <2>5, <2>6
<1> QED BY <1>1, <1>2, <1>3

LEMMA WholeScript ==
    ASSUME NEW script, IsScript(script)
    PROVE  Len(script) \in Nat /\ script = SubSeq(script, 0 + 1, Len(script))
<1>1. PICK S : script \in Seq(S)
    BY DEF IsScript
<1> QED BY <1>1, SubSeqFull

---------------------------------------------------------------------------
(* From one schema at rest to the next.                                    *)

\* Both databases carry the whole script out, and what comes of it is at rest.
Journey(script, start, r) ==
    \E end \in Schemas : AtRest(r, end) /\ Leads(script, start, Len(script), end)

LEMMA Journeys ==
    ASSUME NEW r \in Revisions, NEW t \in Revisions, r # t,
           NEW start \in Schemas, AtRest(r, start), ~(start = Bare2 /\ r = 2 /\ t < 2)
    PROVE  Journey(Script(r, t), start, IF r < t THEN r + 1 ELSE r - 1)
<1>1. \A script, n, end, q :
        Len(script) = n /\ Leads(script, start, n, end) /\ end \in Schemas /\ AtRest(q, end)
            => Journey(script, start, q)
    BY DEF Journey
<1>2. /\ Len(upgrade_0001) = 5 /\ Len(upgrade_0002) = 7 /\ Len(upgrade_0003) = 14
      /\ Len(upgrade_0004) = 1 /\ Len(downgrade_0001) = 5 /\ Len(downgrade_0002) = 7
      /\ Len(downgrade_0003) = 6 /\ Len(downgrade_0004) = 1
    BY DEF upgrade_0001, upgrade_0002, upgrade_0003, NewTables, upgrade_0004, downgrade_0001,
           downgrade_0002, downgrade_0003, downgrade_0004
<1>3. /\ AtRest(0, <<>>) /\ AtRest(1, Schema1) /\ AtRest(2, Full2) /\ AtRest(2, Bare2)
      /\ AtRest(3, Schema3) /\ AtRest(4, Schema4)
      /\ <<>> \in Schemas /\ Schema1 \in Schemas /\ Full2 \in Schemas /\ Bare2 \in Schemas
      /\ Schema3 \in Schemas /\ Schema4 \in Schemas
    BY DEF AtRest, Schemas
<1>4. CASE r < t
    <2>1. Script(r, t) = Upgrades[r + 1]
        BY <1>4, Lengths DEF Script
    <2>2. CASE r = 0
        <3>1. start = <<>> /\ Script(r, t) = upgrade_0001
            BY <2>1, <2>2, Lengths DEF AtRest
        <3>2. Journey(upgrade_0001, start, 1)
            BY <1>1, <1>2, <1>3, <3>1, Between0And1
        <3> QED BY <1>4, <2>2, <3>1, <3>2
    <2>3. CASE r = 1
        <3>1. start = Schema1 /\ Script(r, t) = upgrade_0002
            BY <2>1, <2>3, Lengths DEF AtRest
        <3>2. Journey(upgrade_0002, start, 2)
            BY <1>1, <1>2, <1>3, <3>1, Between1And2
        <3> QED BY <1>4, <2>3, <3>1, <3>2
    <2>4. CASE r = 2
        <3>1. start \in {Full2, Bare2} /\ Script(r, t) = upgrade_0003
            BY <2>1, <2>4, Lengths DEF AtRest
        <3>2. Journey(upgrade_0003, start, 3)
            BY <1>1, <1>2, <1>3, <3>1, From2To3
        <3> QED BY <1>4, <2>4, <3>1, <3>2
    <2>5. CASE r = 3
        <3>1. start = Schema3 /\ Script(r, t) = upgrade_0004
            BY <2>1, <2>5, Lengths DEF AtRest
        <3>2. Journey(upgrade_0004, start, 4)
            BY <1>1, <1>2, <1>3, <3>1, Between3And4
        <3> QED BY <1>4, <2>5, <3>1, <3>2
    <2> QED BY <1>4, <2>2, <2>3, <2>4, <2>5, Lengths
<1>5. CASE r > t
    <2>1. Script(r, t) = Downgrades[r]
        BY <1>5, Lengths DEF Script
    <2>2. CASE r = 1
        <3>1. start = Schema1 /\ Script(r, t) = downgrade_0001
            BY <2>1, <2>2, Lengths DEF AtRest
        <3>2. Journey(downgrade_0001, start, 0)
            BY <1>1, <1>2, <1>3, <3>1, Between0And1
        <3> QED BY <1>5, <2>2, <3>1, <3>2
    <2>3. CASE r = 2
        <3>1. start = Full2 /\ Script(r, t) = downgrade_0002
            BY <1>5, <2>1, <2>3, Lengths DEF AtRest
        <3>2. Journey(downgrade_0002, start, 1)
            BY <1>1, <1>2, <1>3, <3>1, Between1And2
        <3> QED BY <1>5, <2>3, <3>1, <3>2
    <2>4. CASE r = 3
        <3>1. start = Schema3 /\ Script(r, t) = downgrade_0003
            BY <2>1, <2>4, Lengths DEF AtRest
        <3>2. Journey(downgrade_0003, start, 2)
            BY <1>1, <1>2, <1>3, <3>1, From3To2
        <3> QED BY <1>5, <2>4, <3>1, <3>2
    <2>5. CASE r = 4
        <3>1. start = Schema4 /\ Script(r, t) = downgrade_0004
            BY <2>1, <2>5, Lengths DEF AtRest
        <3>2. Journey(downgrade_0004, start, 3)
            BY <1>1, <1>2, <1>3, <3>1, Between3And4
        <3> QED BY <1>5, <2>5, <3>1, <3>2
    <2> QED BY <1>5, <2>2, <2>3, <2>4, <2>5, Lengths
<1> QED BY <1>4, <1>5, Lengths

\* The schema without indexes has users, and none of their indexes.
LEMMA BareIs == DOMAIN Bare2 = {"users", "refresh_tokens"} /\ Bare2["users"].indexes = {}
BY NoTables DEF Bare2, Two, With, OldUsers, Table

\* Downgrading further begins with an index that is not there.
LEMMA BareIsStuck ==
    ASSUME NEW t \in Revisions, t < 2
    PROVE  /\ Script(2, t)[1].op = "drop_index" /\ Len(Script(2, t)) = 7
           /\ \A b : ~Possible(Script(2, t)[1], Bare2, b)
<1>1. Script(2, t) = downgrade_0002
    BY Lengths DEF Script
<1>2. /\ downgrade_0002[1] = DropIndex("users", "reset_token_hash")
      /\ Len(downgrade_0002) = 7
    BY DEF downgrade_0002
<1> DEFINE s == DropIndex("users", "reset_token_hash")
<1>3. s.op = "drop_index" /\ s.table = "users" /\ s.arg = "reset_token_hash"
    BY DEF DropIndex, Statement
<1> HIDE DEF s
<1>4. Indexed(Bare2["users"]) = {}
    BY BareIs DEF Indexed
<1>5. \A b : ~Possible(s, Bare2, b)
    BY <1>3, <1>4 DEF Possible
<1> QED BY <1>1, <1>2, <1>3, <1>5 DEF s

\* What upgrades alone produce.
LEMMA FreshIs ==
    /\ Fresh[0] = <<>> /\ Fresh[1] = Schema1 /\ Fresh[2] = Full2
    /\ Fresh[3] = Schema3 /\ Fresh[4] = Schema4
<1>1. /\ After(upgrade_0001, <<>>)[5] = Schema1 /\ After(upgrade_0002, Schema1)[7] = Full2
      /\ After(upgrade_0003, Full2)[14] = Schema3 /\ After(upgrade_0004, Schema3)[1] = Schema4
    BY Between0And1, Between1And2, From2To3, Between3And4 DEF Leads
<1>2. /\ Len(upgrade_0001) = 5 /\ Len(upgrade_0002) = 7 /\ Len(upgrade_0003) = 14
      /\ Len(upgrade_0004) = 1
    BY DEF upgrade_0001, upgrade_0002, upgrade_0003, NewTables, upgrade_0004
<1> DEFINE Step(r, db) == After(Upgrades[r], db)[Len(Upgrades[r])]
<1>3. /\ Step(1, <<>>) = Schema1 /\ Step(2, Schema1) = Full2 /\ Step(3, Full2) = Schema3
      /\ Step(4, Schema3) = Schema4
    BY <1>1, <1>2, Lengths
<1> DEFINE Solves(f) == f = [r \in 0..HeadRevision |-> IF r = 0 THEN <<>> ELSE Step(r, f[r - 1])]
<1>4. Fresh = CHOOSE f : Solves(f)
    BY DEF Fresh
<1> HIDE DEF Step
<1>5. \E f : Solves(f)
    <2> DEFINE g == [r \in 0..4 |-> <<<<>>, Schema1, Full2, Schema3, Schema4>>[r + 1]]
    <2>1. /\ g[0] = <<>> /\ g[1] = Schema1 /\ g[2] = Full2 /\ g[3] = Schema3
          /\ g[4] = Schema4 /\ g = [r \in 0..4 |-> g[r]]
        OBVIOUS
    <2> HIDE DEF g
    <2>2. \A r \in 0..4 : g[r] = IF r = 0 THEN <<>> ELSE Step(r, g[r - 1])
        BY <1>3, <2>1
    <2>3. Solves(g)
        BY <2>1, <2>2, Lengths
    <2> QED BY <2>3
<1>6. Solves(Fresh)
    BY <1>4, <1>5
<1>7. /\ Fresh[0] = <<>> /\ Fresh[1] = Step(1, Fresh[0]) /\ Fresh[2] = Step(2, Fresh[1])
      /\ Fresh[3] = Step(3, Fresh[2]) /\ Fresh[4] = Step(4, Fresh[3])
    BY <1>6, Lengths
<1> QED BY <1>3, <1>7

---------------------------------------------------------------------------
(* The invariant is inductive.                                             *)

LEMMA Beginning ==
    ASSUME NEW script, IsScript(script), NEW db
    PROVE  /\ script = SubSeq(script, 0 + 1, Len(script)) /\ 0 \in 0..Len(script)
           /\ After(script, db)[0] = db
BY WholeScript, AfterIs

LEMMA NoScript ==
    ASSUME NEW r \in Revisions
    PROVE  Script(r, r) = <<>> /\ Len(<<>>) = 0
BY Lengths DEF Script

\* Between two runs the database is at rest, and nothing is left to do.
LEMMA IdleIs ==
    ASSUME MInv, Idle
    PROVE  run.left = <<>> /\ (Intact => schema \in Schemas /\ AtRest(revision, schema))
<1>1. revision \in Revisions /\ ThisScript = <<>> /\ Len(<<>>) = 0 /\ IsScript(<<>>)
    BY NoScript, ScriptsAre DEF MInv, Basic, Idle, ThisScript
<1>2. PICK k \in 0..0 : Progress(k)
    BY <1>1 DEF MInv
<1>3. k = 0
    OBVIOUS
<1>4. run.left = <<>>
    BY <1>1, <1>2, <1>3, Beginning DEF Progress
<1>5. ASSUME Intact PROVE schema \in Schemas /\ AtRest(revision, schema)
    <2>1. PICK start \in Schemas : AtRest(revision, start) /\ schema = After(<<>>, start)[0]
        BY <1>1, <1>2, <1>3, <1>5 DEF Progress
    <2>2. schema = start
        BY <1>1, <2>1, Beginning
    <2> QED BY <2>1, <2>2
<1> QED BY <1>4, <1>5

LEMMA InitHolds ==
    ASSUME Init
    PROVE  MInv
<1>1. Basic
    BY NoTables, Lengths, MigrationBounds DEF Init, Basic, State
<1>2. Kept
    BY DEF Init, Kept, Idle, State, AtRest
<1>3. schema \in Schemas /\ AtRest(revision, schema)
    BY DEF Init, Schemas, AtRest
<1>4. run.left = ThisScript
    BY NoScript, Lengths DEF Init, ThisScript
<1>5. IsScript(ThisScript)
    BY <1>1, ScriptsAre DEF Basic, ThisScript
<1>6. Progress(0) /\ 0 \in 0..Len(ThisScript)
    BY <1>3, <1>4, <1>5, Beginning DEF Progress
<1> QED BY <1>1, <1>2, <1>6 DEF MInv

\* StartServer and AskFor.
LEMMA StartHolds ==
    ASSUME MInv, NEW target \in Revisions, Starts(target), runs' \in 0..MaxRuns
    PROVE  MInv'
<1>1. /\ revision' = revision /\ schema' = schema /\ backend' = backend /\ crashes' = crashes
      /\ durable' = durable /\ run' = [target |-> target, left |-> Script(revision, target)]
      /\ target # revision
    BY DEF Starts
<1>2. Basic'
    BY <1>1 DEF MInv, Basic
<1>3. Kept'
    BY <1>1 DEF MInv, Kept, Idle, Starts
<1>4. run'.left = ThisScript'
    BY <1>1 DEF ThisScript
<1>5. (Intact => schema \in Schemas /\ AtRest(revision, schema))'
    BY <1>1, IdleIs DEF Intact, Starts, AtRest
<1>6. IsScript(ThisScript')
    BY <1>2, ScriptsAre DEF Basic, ThisScript
<1>7. Progress(0)' /\ 0 \in 0..Len(ThisScript')
    BY <1>4, <1>5, <1>6, Beginning DEF Progress
<1> QED BY <1>2, <1>3, <1>7 DEF MInv

\* The run was for another revision, so it ends where it is at rest: RollsBack.
LEMMA RollBackHolds ==
    ASSUME MInv, RollsBack, crashes' \in 0..MaxCrashes,
           Intact' => durable.schema \in Schemas /\ AtRest(durable.revision, durable.schema)
    PROVE  MInv'
<1>1. /\ revision' = durable.revision /\ schema' = durable.schema /\ backend' = backend
      /\ durable' = durable /\ runs' = runs
      /\ run' = [target |-> durable.revision, left |-> <<>>]
    BY DEF RollsBack
<1>2. Basic'
    BY <1>1 DEF MInv, Basic
<1>3. Kept'
    BY <1>1 DEF MInv, Basic, Kept, State, AtRest
<1>4. run'.left = ThisScript'
    BY <1>1, NoScript DEF ThisScript, MInv, Basic
<1>5. (Intact => schema \in Schemas /\ AtRest(revision, schema))'
    BY <1>1 DEF AtRest
<1>6. IsScript(ThisScript')
    BY <1>2, ScriptsAre DEF Basic, ThisScript
<1>7. Progress(0)' /\ 0 \in 0..Len(ThisScript')
    BY <1>4, <1>5, <1>6, Beginning DEF Progress
<1> QED BY <1>2, <1>3, <1>7 DEF MInv

LEMMA AtRestIs ==
    ASSUME NEW r, NEW db, AtRest(r, db)
    PROVE  db \in Schemas
BY DEF AtRest, Schemas

\* On SQLite a killed run leaves half a migration; on PostgreSQL nothing of it.
LEMMA CrashHolds ==
    ASSUME MInv, Crash
    PROVE  MInv'
<1>1. backend' = backend /\ crashes' = crashes + 1 /\ crashes' \in 0..MaxCrashes /\ RollsBack
    BY MigrationBounds DEF Crash, RollsBack, MInv, Basic
<1>2. Intact' => backend = "postgres"
    BY <1>1 DEF Intact, MInv, Basic
<1> QED BY <1>1, <1>2, RollBackHolds, AtRestIs DEF MInv, Kept

\* Where a run on an intact database is, and what the next statement finds.
LEMMA Here ==
    ASSUME MInv, NEW k \in 0..Len(ThisScript), Progress(k), ~Idle, Intact
    PROVE  \E start \in Schemas :
              /\ AtRest(revision, start) /\ schema = After(ThisScript, start)[k]
              /\ \/ /\ ~Stuck(start)
                    /\ Journey(ThisScript, start,
                               IF revision < run.target THEN revision + 1 ELSE revision - 1)
                    /\ k + 1 \in 1..Len(ThisScript)
                            => Possible(ThisScript[k + 1], schema, backend)
                 \/ /\ Stuck(start) /\ k = 0 /\ schema = Bare2
                    /\ Len(ThisScript) = 7 /\ ThisScript[1].op = "drop_index"
                    /\ ~Possible(ThisScript[1], schema, backend)
<1>1. PICK start \in Schemas : /\ AtRest(revision, start) /\ schema = After(ThisScript, start)[k]
                               /\ Stuck(start) => k = 0
    BY DEF Progress
<1>2. /\ revision \in Revisions /\ run.target \in Revisions /\ revision # run.target
      /\ backend \in {"postgres", "sqlite"} /\ IsScript(ThisScript)
    BY ScriptsAre DEF MInv, Basic, Idle, ThisScript
<1>3. CASE ~Stuck(start)
    <2>1. Journey(ThisScript, start,
                  IF revision < run.target THEN revision + 1 ELSE revision - 1)
        BY <1>1, <1>2, <1>3, Journeys DEF Stuck, ThisScript
    <2>2. ASSUME k + 1 \in 1..Len(ThisScript)
          PROVE  Possible(ThisScript[k + 1], schema, backend)
        <3>1. PICK end : Leads(ThisScript, start, Len(ThisScript), end)
            BY <2>1 DEF Journey
        <3>2. Possible(ThisScript[k + 1], After(ThisScript, start)[k + 1 - 1], backend)
            BY <1>2, <2>2, <3>1 DEF Leads
        <3>3. k + 1 - 1 = k
            BY <1>2, WholeScript
        <3> QED BY <1>1, <3>2, <3>3
    <2> QED BY <1>1, <1>3, <2>1, <2>2
<1>4. CASE Stuck(start)
    <2>1. k = 0 /\ start = Bare2 /\ ThisScript = Script(2, run.target) /\ run.target < 2
        BY <1>1, <1>4 DEF Stuck, ThisScript
    <2>2. schema = Bare2
        BY <1>1, <1>2, <2>1, Beginning
    <2>3. /\ Len(ThisScript) = 7 /\ ThisScript[1].op = "drop_index"
          /\ ~Possible(ThisScript[1], schema, backend)
        BY <1>2, <2>1, <2>2, BareIsStuck
    <2> QED BY <1>1, <1>4, <2>1, <2>2, <2>3
<1> QED BY <1>3, <1>4

LEMMA ExceptDomain == \A f, x, v : DOMAIN [f EXCEPT ![x] = v] = DOMAIN f
OBVIOUS

\* A statement that is carried out adds at most the table that it creates.
LEMMA ApplyNames ==
    ASSUME NEW s, NEW db, NEW b, Possible(s, db, b), DOMAIN db \subseteq Names,
           s.op = "create_table" => s.table \in Names
    PROVE  DOMAIN Apply(s, db) \subseteq Names
<1>1. CASE s.op = "create_table"
    <2>1. Apply(s, db) = [t \in DOMAIN db \cup {s.table} |-> IF t = s.table THEN s.arg ELSE db[t]]
        BY <1>1 DEF Apply
    <2> QED BY <1>1, <2>1
<1>2. CASE s.op = "drop_table"
    <2>1. Apply(s, db) = [t \in DOMAIN db \ {s.table} |-> db[t]]
        BY <1>2 DEF Apply
    <2> QED BY <2>1
<1>3. CASE s.op = "create_index"
    <2>1. Apply(s, db) = [db EXCEPT ![s.table].indexes = @ \cup {s.arg}]
        BY <1>3, Zenon DEF Apply
    <2>2. DOMAIN Apply(s, db) = DOMAIN db
        BY <2>1, ExceptDomain, Zenon
    <2> QED BY <2>2
<1>4. CASE s.op = "drop_index"
    <2>1. Apply(s, db) = [db EXCEPT ![s.table].indexes = {i \in @ : i.column # s.arg}]
        BY <1>4, Zenon DEF Apply
    <2>2. DOMAIN Apply(s, db) = DOMAIN db
        BY <2>1, ExceptDomain, Zenon
    <2> QED BY <2>2
<1>5. CASE s.op = "add_required"
    <2>1. Apply(s, db) = [db EXCEPT ![s.table].required = @ \cup {s.arg}]
        BY <1>5, Zenon DEF Apply
    <2>2. DOMAIN Apply(s, db) = DOMAIN db
        BY <2>1, ExceptDomain, Zenon
    <2> QED BY <2>2
<1>6. CASE s.op = "add_optional"
    <2>1. Apply(s, db) = [db EXCEPT ![s.table].optional = @ \cup {s.arg}]
        BY <1>6, Zenon DEF Apply
    <2>2. DOMAIN Apply(s, db) = DOMAIN db
        BY <2>1, ExceptDomain, Zenon
    <2> QED BY <2>2
<1>7. CASE s.op = "drop_column"
    <2> DEFINE mid == [db EXCEPT ![s.table].required = @ \ {s.arg}]
    <2>1. Apply(s, db) = [db EXCEPT ![s.table].required = @ \ {s.arg}, ![s.table].optional = @ \ {s.arg}]
        BY <1>7, Zenon DEF Apply
    <2>2. DOMAIN mid = DOMAIN db
        BY ExceptDomain, Zenon
    <2>3. DOMAIN Apply(s, db) = DOMAIN mid
        BY <2>1, ExceptDomain, Zenon
    <2> QED BY <2>2, <2>3
<1> QED BY <1>1, <1>2, <1>3, <1>4, <1>5, <1>6, <1>7 DEF Possible

LEMMA ExecuteHolds ==
    ASSUME MInv, Execute
    PROVE  MInv'
<1>1. PICK k \in 0..Len(ThisScript) : Progress(k)
    BY DEF MInv
<1>2. /\ revision' = revision /\ backend' = backend /\ runs' = runs /\ crashes' = crashes
      /\ run' = [run EXCEPT !.left = Tail(@)] /\ run.left # <<>> /\ ~Idle
      /\ schema' = Apply(Head(run.left), schema) /\ Possible(Head(run.left), schema, backend)
      /\ durable' = IF backend = "sqlite" THEN State(schema', revision) ELSE durable
    BY DEF Execute
<1>3. run' = [target |-> run.target, left |-> Tail(run.left)] /\ run.target \in Revisions
    BY <1>2 DEF MInv, Basic
<1>4. IsScript(ThisScript)
    BY ScriptsAre DEF MInv, Basic, ThisScript
<1>5. /\ Len(ThisScript) \in Nat /\ k + 1 \in 1..Len(ThisScript)
      /\ Head(run.left) = ThisScript[k + 1]
      /\ Tail(run.left) = SubSeq(ThisScript, k + 2, Len(ThisScript))
    BY <1>1, <1>2, <1>4, Rest DEF Progress
<1>6. DOMAIN schema' \subseteq Names
    <2>1. PICK S : ThisScript \in Seq(S) /\ \A s \in S : s.op = "create_table" => s.table \in Names
        BY <1>4 DEF IsScript
    <2>2. ThisScript[k + 1] \in S
        BY <1>5, <2>1
    <2> QED BY <1>2, <1>5, <2>1, <2>2, ApplyNames DEF MInv, Basic
<1>7. Basic'
    <2>1. durable' = State(durable.schema, durable.revision)' /\ durable.revision' \in Revisions
        BY <1>2 DEF State, MInv, Basic
    <2>2. DOMAIN durable'.schema \subseteq Names
        BY <1>2, <1>6 DEF State, MInv, Basic
    <2> QED BY <1>2, <1>3, <1>6, <2>1, <2>2 DEF MInv, Basic
<1>8. Kept'
    BY <1>2, <1>3 DEF MInv, Basic, Kept, Idle, AtRest
<1>9. ThisScript' = ThisScript /\ Intact' = Intact
    BY <1>2, <1>3 DEF ThisScript, Intact
<1>10. Progress(k + 1)'
    <2>1. run'.left = SubSeq(ThisScript, (k + 1) + 1, Len(ThisScript))
        BY <1>3, <1>5
    <2>2. ASSUME Intact
          PROVE  \E start \in Schemas :
                    /\ AtRest(revision, start) /\ ~Stuck(start)
                    /\ schema' = After(ThisScript, start)[k + 1]
        <3>1. PICK start \in Schemas :
                 AtRest(revision, start) /\ schema = After(ThisScript, start)[k] /\ ~Stuck(start)
            BY <1>1, <1>2, <1>5, <2>2, Here
        <3>2. k + 1 - 1 = k
            OBVIOUS
        <3>3. After(ThisScript, start)[k + 1] = Apply(ThisScript[k + 1], schema)
            BY <1>5, <3>1, <3>2, AfterIs
        <3> QED BY <1>2, <1>5, <3>1, <3>3
    <2> QED BY <1>2, <1>3, <1>9, <2>1, <2>2 DEF Progress, Stuck, AtRest
<1> QED BY <1>5, <1>7, <1>8, <1>9, <1>10 DEF MInv

\* The schema at the end of a migration is at rest at the next revision.
LEMMA FinishHolds ==
    ASSUME MInv, FinishMigration
    PROVE  MInv'
<1>1. PICK k \in 0..Len(ThisScript) : Progress(k)
    BY DEF MInv
<1> DEFINE next == IF revision < run.target THEN revision + 1 ELSE revision - 1
<1>2. /\ revision' = next /\ schema' = schema /\ backend' = backend /\ runs' = runs
      /\ crashes' = crashes /\ run' = [run EXCEPT !.left = Script(next, run.target)]
      /\ run.left = <<>> /\ ~Idle
      /\ durable' = IF backend = "sqlite" \/ next = run.target THEN State(schema, next) ELSE durable
    BY DEF FinishMigration
<1>3. /\ run' = [target |-> run.target, left |-> Script(next, run.target)]
      /\ run.target \in Revisions /\ next \in Revisions
    BY <1>2, Lengths DEF MInv, Basic, Idle
<1>4. IsScript(ThisScript)
    BY ScriptsAre DEF MInv, Basic, ThisScript
<1>5. Len(ThisScript) \in Nat /\ k = Len(ThisScript)
    BY <1>1, <1>2, <1>4, Rest DEF Progress
<1>6. Intact => schema \in Schemas /\ AtRest(next, schema)
    <2>1. SUFFICES ASSUME Intact PROVE schema \in Schemas /\ AtRest(next, schema)
        OBVIOUS
    <2>2. PICK start \in Schemas :
            Journey(ThisScript, start, next) /\ schema = After(ThisScript, start)[k]
        BY <1>1, <1>2, <1>5, <2>1, Here
    <2>3. PICK end \in Schemas : AtRest(next, end) /\ Leads(ThisScript, start, k, end)
        BY <1>5, <2>2 DEF Journey
    <2> QED BY <2>2, <2>3 DEF Leads
<1> HIDE DEF next
<1>7. Basic'
    <2>1. durable' = State(durable.schema, durable.revision)' /\ durable.revision' \in Revisions
        BY <1>2, <1>3 DEF State, MInv, Basic
    <2>2. DOMAIN durable'.schema \subseteq Names
        BY <1>2 DEF State, MInv, Basic
    <2> QED BY <1>2, <1>3, <2>1, <2>2 DEF MInv, Basic
<1>8. Kept'
    <2>1. Idle' => durable' = State(schema, revision)'
        BY <1>2, <1>3 DEF Idle
    <2>2. (backend = "postgres" => AtRest(durable.revision, durable.schema))'
        BY <1>2, <1>6 DEF MInv, Kept, Intact, State, AtRest
    <2>3. (backend = "sqlite" /\ crashes = 0 => durable = State(schema, revision))'
        BY <1>2
    <2> QED BY <2>1, <2>2, <2>3 DEF Kept
<1>9. ThisScript' = Script(next, run.target) /\ run'.left = ThisScript' /\ Intact' = Intact
    BY <1>2, <1>3 DEF ThisScript, Intact
<1>10. IsScript(ThisScript')
    BY <1>3, <1>9, ScriptsAre
<1>11. Progress(0)' /\ 0 \in 0..Len(ThisScript')
    BY <1>2, <1>6, <1>9, <1>10, Beginning DEF Progress, AtRest
<1> QED BY <1>7, <1>8, <1>11 DEF MInv

\* A statement is only refused where a migration begins, and nothing was done.
LEMMA FailHolds ==
    ASSUME MInv, Fail
    PROVE  MInv'
<1>1. PICK k \in 0..Len(ThisScript) : Progress(k)
    BY DEF MInv
<1>2. /\ run.left # <<>> /\ ~Idle /\ ~Possible(Head(run.left), schema, backend)
      /\ RollsBack /\ crashes' = crashes /\ backend' = backend
    BY DEF Fail, RollsBack
<1>3. IsScript(ThisScript)
    BY ScriptsAre DEF MInv, Basic, ThisScript
<1>4. k + 1 \in 1..Len(ThisScript) /\ Head(run.left) = ThisScript[k + 1]
    BY <1>1, <1>2, <1>3, Rest DEF Progress
<1>5. ASSUME Intact PROVE AtRest(durable.revision, durable.schema)
    <2>1. CASE backend = "postgres"
        BY <2>1 DEF MInv, Kept
    <2>2. CASE backend # "postgres"
        <3>1. durable = State(schema, revision)
            BY <1>5, <2>2 DEF MInv, Basic, Kept, Intact
        <3>2. PICK start \in Schemas : AtRest(revision, start) /\ Stuck(start) /\ schema = Bare2
            BY <1>1, <1>2, <1>4, <1>5, Here
        <3> QED BY <3>1, <3>2 DEF Stuck, State
    <2> QED BY <2>1, <2>2
<1>6. Intact' = Intact /\ crashes' \in 0..MaxCrashes
    BY <1>2 DEF Intact, MInv, Basic
<1> QED BY <1>2, <1>5, <1>6, AtRestIs, RollBackHolds

LEMMA NextHolds ==
    ASSUME MInv, [Next]_vars
    PROVE  MInv'
<1>1. CASE StartServer
    <2>1. HeadRevision \in Revisions /\ Starts(HeadRevision) /\ runs' \in 0..MaxRuns
        BY <1>1, Lengths DEF StartServer, MInv, Basic
    <2> QED BY <2>1, StartHolds
<1>2. CASE \E target \in Revisions : AskFor(target)
    <2>1. PICK target \in Revisions : AskFor(target)
        BY <1>2
    <2>2. Starts(target) /\ runs' \in 0..MaxRuns
        BY <2>1, MigrationBounds DEF AskFor, MInv, Basic
    <2> QED BY <2>2, StartHolds
<1>3. CASE UNCHANGED vars
    <2>1. /\ backend' = backend /\ schema' = schema /\ revision' = revision
          /\ durable' = durable /\ run' = run /\ runs' = runs /\ crashes' = crashes
        BY <1>3 DEF vars
    <2>2. Basic' /\ Kept'
        BY <2>1 DEF MInv, Basic, Kept, Idle, State, AtRest
    <2>3. ThisScript' = ThisScript
        BY <2>1 DEF ThisScript
    <2>4. \A k \in 0..Len(ThisScript) : Progress(k) => Progress(k)'
        BY <2>1, <2>3 DEF Progress, Intact, AtRest, Stuck
    <2> QED BY <2>2, <2>3, <2>4 DEF MInv
<1> QED BY <1>1, <1>2, <1>3, ExecuteHolds, FinishHolds, FailHolds, CrashHolds DEF Next

\* In every reachable state a run on an intact database is somewhere on the way
\* from one schema at rest to the next.
THEOREM Invariant == Spec => []MInv
<1>1. Init => MInv
    BY InitHolds
<1>2. MInv /\ [Next]_vars => MInv'
    BY NextHolds
<1> QED BY <1>1, <1>2, PTL DEF Spec

---------------------------------------------------------------------------
(* What follows.                                                           *)

LEMMA HeadIs == Schema4 = ModelSchema
<1>1. /\ DOMAIN Schema4 = {"users", "registered_devices", "qr_sessions", "oauth_clients"}
      /\ IsSchema(Schema4)
      /\ Schema4["users"] = NewUsers({Index("id"), Unique("email")})
      /\ Schema4["registered_devices"] = Devices({Index("user_id"), Unique("token_hash")})
      /\ Schema4["qr_sessions"] =
            Sessions({"auth_code"}, {Unique("session_id"), Index("user_id"), Unique("auth_code_hash")})
      /\ Schema4["oauth_clients"] = Clients({Unique("client_id")})
    BY NoTables DEF Schema4, AndClients, AndSessions, AndDevices, OnlyUsers, With, IsSchema
<1>2. /\ DOMAIN ModelSchema = {"users", "registered_devices", "qr_sessions", "oauth_clients"}
      /\ IsSchema(ModelSchema)
      /\ ModelSchema["users"] = NewUsers({Index("id"), Unique("email")})
      /\ ModelSchema["registered_devices"] = Devices({Index("user_id"), Unique("token_hash")})
      /\ ModelSchema["qr_sessions"] =
            Sessions({"auth_code"}, {Unique("session_id"), Index("user_id"), Unique("auth_code_hash")})
      /\ ModelSchema["oauth_clients"] = Clients({Unique("client_id")})
    <2>1. {"user_id", "client_id", "redirect_uri", "auth_code", "auth_code_hash", "auth_code_expires_at"}
            = {"user_id", "client_id", "redirect_uri", "auth_code_hash", "auth_code_expires_at"}
                \cup {"auth_code"}
        OBVIOUS
    <2> QED BY <2>1 DEF ModelSchema, IsSchema, NewUsers, Devices, Sessions, Clients, Table
<1>3. \A t \in DOMAIN Schema4 : Schema4[t] = ModelSchema[t]
    BY <1>1, <1>2
<1> QED BY <1>1, <1>2, <1>3 DEF IsSchema

\* TypeOK: alembic ends with what it made durable, and every table is known.
THEOREM TypesHold == Spec => []TypeOK
<1>1. MInv => TypeOK
    <2> SUFFICES ASSUME MInv PROVE TypeOK
        OBVIOUS
    <2>1. DOMAIN ModelSchema \cup {"refresh_tokens"} = Names
        BY DEF ModelSchema, Names
    <2>2. Idle => durable = State(schema, revision) /\ run.left = <<>>
        BY IdleIs DEF MInv, Kept
    <2> QED BY <2>1, <2>2 DEF TypeOK, MInv, Basic
<1> QED BY <1>1, Invariant, PTL

\* At the newest revision the tables are those that models.py maps, however often
\* migrations were undone, repeated or killed (alembic/versions against backend/models.py).
THEOREM HeadMatches == Spec => []HeadMatchesModels
<1>1. MInv => HeadMatchesModels
    <2> SUFFICES ASSUME MInv, Intact, durable.revision = HeadRevision, Idle
                 PROVE  schema = ModelSchema
        BY DEF HeadMatchesModels
    <2>1. revision = 4 /\ AtRest(revision, schema)
        BY Lengths, IdleIs DEF MInv, Kept, State
    <2> QED BY <2>1, HeadIs DEF AtRest
<1> QED BY <1>1, Invariant, PTL

\* At rest the version number tells the columns: what the downgrade to revision 2
\* loses is indexes only (0003_..., downgrade).
THEOREM ColumnsAreTold == Spec => []RevisionTellsColumns
<1>1. MInv => RevisionTellsColumns
    <2> SUFFICES ASSUME MInv, Intact, Idle
                 PROVE  /\ DOMAIN schema = DOMAIN Fresh[revision]
                        /\ \A t \in DOMAIN schema :
                            /\ [schema[t] EXCEPT !.indexes = {}] = [Fresh[revision][t] EXCEPT !.indexes = {}]
                            /\ schema[t].indexes \subseteq Fresh[revision][t].indexes
        BY DEF RevisionTellsColumns
    <2>1. schema = Fresh[revision] \/ (schema = Bare2 /\ Fresh[revision] = Full2)
        BY IdleIs, FreshIs DEF AtRest
    <2>2. CASE schema = Fresh[revision]
        BY <2>2
    <2>3. CASE schema = Bare2 /\ Fresh[revision] = Full2
        <3> DEFINE R == {"id", "full_name", "email", "password_hash", "totp_enabled",
                         "failed_login_count", "created_at"} \cup {"email_verified"}
                   O == {"totp_secret", "locked_until"} \cup Hashes
                   S == {"id", "user_id", "token_hash", "expires_at", "created_at"}
        <3>1. PICK I, J :
                 /\ DOMAIN Full2 = {"users", "refresh_tokens"}
                 /\ Full2["users"] = Table(R, O, I, {})
                 /\ Full2["refresh_tokens"] = Table(S, {"revoked_at"}, J, {"users"})
            BY NoTables DEF Full2, Two, With, OldUsers, Refresh
        <3>2. /\ DOMAIN Bare2 = {"users", "refresh_tokens"}
              /\ Bare2["users"] = Table(R, O, {}, {})
              /\ Bare2["refresh_tokens"] = Table(S, {"revoked_at"}, {}, {"users"})
            BY NoTables DEF Bare2, Two, With, OldUsers, Refresh
        <3> HIDE DEF R, O, S
        <3>3. \A A, B, C, I1, I2 :
                 /\ [Table(A, B, I1, C) EXCEPT !.indexes = {}] = [Table(A, B, I2, C) EXCEPT !.indexes = {}]
                 /\ Table(A, B, I1, C).indexes = I1
            BY DEF Table
        <3> QED BY <2>3, <3>1, <3>2, <3>3
    <2> QED BY <2>1, <2>2, <2>3
<1> QED BY <1>1, Invariant, PTL

\* No statement of an upgrade is refused, and of the downgrades only the one that
\* drops an index which the downgrade to revision 2 did not restore.
THEOREM UpgradesRun == Spec => []UpgradesAlwaysRun
<1>1. MInv => UpgradesAlwaysRun
    <2> SUFFICES ASSUME MInv, Intact, Refused
                 PROVE  /\ run.target < revision /\ revision = 2
                        /\ Head(run.left).op = "drop_index" /\ schema["users"].indexes = {}
        BY DEF UpgradesAlwaysRun
    <2>1. PICK k \in 0..Len(ThisScript) : Progress(k)
        BY DEF MInv
    <2>2. IsScript(ThisScript)
        BY ScriptsAre DEF MInv, Basic, ThisScript
    <2>3. k + 1 \in 1..Len(ThisScript) /\ Head(run.left) = ThisScript[k + 1]
        BY <2>1, <2>2, Rest DEF Progress, Refused
    <2>4. PICK start \in Schemas :
             /\ Stuck(start) /\ k = 0 /\ schema = Bare2 /\ ThisScript[1].op = "drop_index"
        BY <2>1, <2>3, Here DEF Refused
    <2> QED BY <2>3, <2>4, BareIs DEF Stuck
<1> QED BY <1>1, Invariant, PTL
=============================================================================
