---------------------------- MODULE Migrations ----------------------------
(***************************************************************************)
(* The schema migrations of alembic/versions and how alembic runs them:    *)
(* statement after statement, in one transaction on PostgreSQL, where DDL  *)
(* is transactional, and one by one on SQLite, where every DDL statement   *)
(* is final.  Types, lengths and defaults of columns are left out.         *)
(***************************************************************************)
EXTENDS Naturals, SequencesExt

CONSTANTS
    MaxRuns,        \* bounds how often someone asks for another revision
    MaxCrashes      \* bounds how often a run is killed

ASSUME MigrationBounds == MaxRuns \in Nat /\ MaxCrashes \in Nat

---------------------------------------------------------------------------
(* A schema maps its tables to columns (NOT NULL or nullable), the indexes *)
(* on single columns, and the tables it refers to.                         *)

Statement(op, table, arg) == [op |-> op, table |-> table, arg |-> arg]

CreateTable(t, required, optional, parents) ==
    Statement("create_table", t,
        [required |-> required, optional |-> optional, indexes |-> {}, parents |-> parents])
Index(c)  == [column |-> c, unique |-> FALSE]
Unique(c) == [column |-> c, unique |-> TRUE]

DropTable(t)       == Statement("drop_table", t, {})
CreateIndex(t, c)  == Statement("create_index", t, Index(c))
CreateUnique(t, c) == Statement("create_index", t, Unique(c))
DropIndex(t, c)    == Statement("drop_index", t, c)
AddRequired(t, c)  == Statement("add_required", t, c)
AddOptional(t, c)  == Statement("add_optional", t, c)
DropColumn(t, c)   == Statement("drop_column", t, c)

Columns(table) == table.required \cup table.optional
Indexed(table) == {i.column : i \in table.indexes}

\* The database carries the statement out.  SQLite does not enforce foreign keys here.
Possible(s, db, backend) ==
    \/ s.op = "create_table" /\ s.table \notin DOMAIN db
    \/ /\ s.op = "drop_table" /\ s.table \in DOMAIN db
       /\ backend = "postgres" => \A t \in DOMAIN db : s.table \notin db[t].parents
    \/ /\ s.table \in DOMAIN db
       /\ LET table == db[s.table] IN
            \/ /\ s.op = "create_index"
               /\ s.arg.column \in Columns(table) \ Indexed(table)
            \/ s.op = "drop_index" /\ s.arg \in Indexed(table)
            \/ s.op \in {"add_required", "add_optional"} /\ s.arg \notin Columns(table)
            \/ s.op = "drop_column" /\ s.arg \in Columns(table) \ Indexed(table)

\* Dropping a table drops its indexes and its references.
Apply(s, db) ==
    CASE s.op = "create_table" ->
            [t \in DOMAIN db \cup {s.table} |-> IF t = s.table THEN s.arg ELSE db[t]]
      [] s.op = "drop_table"   -> [t \in DOMAIN db \ {s.table} |-> db[t]]
      [] s.op = "create_index" -> [db EXCEPT ![s.table].indexes = @ \cup {s.arg}]
      [] s.op = "drop_index"   ->
            [db EXCEPT ![s.table].indexes = {i \in @ : i.column # s.arg}]
      [] s.op = "add_required" -> [db EXCEPT ![s.table].required = @ \cup {s.arg}]
      [] s.op = "add_optional" -> [db EXCEPT ![s.table].optional = @ \cup {s.arg}]
      [] s.op = "drop_column"  ->
            [db EXCEPT ![s.table].required = @ \ {s.arg}, ![s.table].optional = @ \ {s.arg}]

---------------------------------------------------------------------------
(* The migrations.                                                         *)

RefreshTokens ==
    CreateTable("refresh_tokens", {"id", "user_id", "token_hash", "expires_at", "created_at"},
        {"revoked_at"}, {"users"})

upgrade_0001 == <<
    CreateTable("users", {"id", "full_name", "email", "password_hash", "totp_enabled",
        "failed_login_count", "created_at"}, {"totp_secret", "locked_until"}, {}),
    CreateUnique("users", "email"),
    RefreshTokens,
    CreateIndex("refresh_tokens", "user_id"),
    CreateUnique("refresh_tokens", "token_hash")>>

downgrade_0001 == <<
    DropIndex("refresh_tokens", "token_hash"), DropIndex("refresh_tokens", "user_id"),
    DropTable("refresh_tokens"), DropIndex("users", "email"), DropTable("users")>>

upgrade_0002 == <<
    AddRequired("users", "email_verified"),
    AddOptional("users", "verification_token_hash"),
    AddOptional("users", "verification_token_expires"),
    AddOptional("users", "reset_token_hash"),
    AddOptional("users", "reset_token_expires"),
    CreateUnique("users", "verification_token_hash"),
    CreateUnique("users", "reset_token_hash")>>

downgrade_0002 == <<
    DropIndex("users", "reset_token_hash"), DropIndex("users", "verification_token_hash"),
    DropColumn("users", "reset_token_expires"), DropColumn("users", "reset_token_hash"),
    DropColumn("users", "verification_token_expires"),
    DropColumn("users", "verification_token_hash"), DropColumn("users", "email_verified")>>

NewTables == <<
    CreateTable("users", {"id", "email", "full_name", "is_active", "created_at"}, {}, {}),
    CreateIndex("users", "id"), CreateUnique("users", "email"),
    CreateTable("registered_devices", {"id", "user_id", "name", "token_hash", "created_at"},
        {"last_used_at"}, {"users"}),
    CreateIndex("registered_devices", "user_id"),
    CreateUnique("registered_devices", "token_hash"),
    CreateTable("qr_sessions", {"id", "session_id", "status", "scope", "expires_at", "created_at"},
        {"user_id", "client_id", "redirect_uri", "auth_code_hash", "auth_code_expires_at"},
        {"users"}),
    CreateUnique("qr_sessions", "session_id"), CreateIndex("qr_sessions", "user_id"),
    CreateUnique("qr_sessions", "auth_code_hash"),
    CreateTable("oauth_clients", {"id", "client_id", "client_secret_hash", "name",
        "redirect_uris", "is_active", "created_at"}, {}, {}),
    CreateUnique("oauth_clients", "client_id")>>

\* Mutant: the parent table goes first.
upgrade_0003_Swapped == <<DropTable("users"), DropTable("refresh_tokens")>> \o NewTables
\* Mutant: the last index is forgotten.
upgrade_0003_Unindexed ==
    <<DropTable("refresh_tokens"), DropTable("users")>> \o Front(NewTables)

upgrade_0003 == <<DropTable("refresh_tokens"), DropTable("users")>> \o NewTables

\* Mutant: the tables of 0001 are restored, not those of 0002.
downgrade_0003_Older ==
    <<DropTable("oauth_clients"), DropTable("qr_sessions"), DropTable("registered_devices"),
      DropTable("users"), upgrade_0001[1], RefreshTokens>>

downgrade_0003 == <<
    DropTable("oauth_clients"), DropTable("qr_sessions"), DropTable("registered_devices"),
    DropTable("users"),
    CreateTable("users", {"id", "full_name", "email", "password_hash", "totp_enabled",
        "email_verified", "failed_login_count", "created_at"},
        {"totp_secret", "verification_token_hash", "verification_token_expires",
         "reset_token_hash", "reset_token_expires", "locked_until"}, {}),
    RefreshTokens>>

upgrade_0004   == <<AddOptional("qr_sessions", "auth_code")>>
downgrade_0004 == <<DropColumn("qr_sessions", "auth_code")>>

Upgrades   == <<upgrade_0001, upgrade_0002, upgrade_0003, upgrade_0004>>
Downgrades == <<downgrade_0001, downgrade_0002, downgrade_0003, downgrade_0004>>
HeadRevision == Len(Upgrades)

\* The schema after each statement of a script that begins in the schema db.
After(script, db) ==
    LET after[k \in 0..Len(script)] == IF k = 0 THEN db ELSE Apply(script[k], after[k - 1])
    IN  after

\* The schema that upgrades alone produce at each revision.
Fresh[r \in 0..HeadRevision] ==
    IF r = 0 THEN <<>> ELSE After(Upgrades[r], Fresh[r - 1])[Len(Upgrades[r])]

\* What the classes of models.py declare (index=True, unique=True, nullable, ForeignKey).
ModelSchema ==
    [users |-> [
        required |-> {"id", "email", "full_name", "is_active", "created_at"}, optional |-> {},
        indexes |-> {Index("id"), Unique("email")},
        parents |-> {}],
     registered_devices |-> [
        required |-> {"id", "user_id", "name", "token_hash", "created_at"},
        optional |-> {"last_used_at"},
        indexes |-> {Index("user_id"),
                     Unique("token_hash")},
        parents |-> {"users"}],
     qr_sessions |-> [
        required |-> {"id", "session_id", "status", "scope", "expires_at", "created_at"},
        optional |-> {"user_id", "client_id", "redirect_uri", "auth_code", "auth_code_hash",
                      "auth_code_expires_at"},
        indexes |-> {Unique("session_id"),
                     Index("user_id"),
                     Unique("auth_code_hash")},
        parents |-> {"users"}],
     oauth_clients |-> [
        required |-> {"id", "client_id", "client_secret_hash", "name", "redirect_uris",
                      "is_active", "created_at"}, optional |-> {},
        indexes |-> {Unique("client_id")},
        parents |-> {}]]

---------------------------------------------------------------------------
(* A run of alembic.                                                       *)

VARIABLES
    backend,        \* "postgres" or "sqlite"
    schema,         \* the tables as the running connection sees them
    revision,       \* alembic_version as it sees it; 0 is an empty database
    durable,        \* schema and revision that survive the end of the process
    run,            \* the revision asked for, and the statements left of this migration
    runs,           \* how often another revision was asked for
    crashes         \* how often a run was killed

vars == <<backend, schema, revision, durable, run, runs, crashes>>

Revisions == 0..HeadRevision
State(db, r) == [schema |-> db, revision |-> r]

\* The statements of the next migration on the way from revision r to target.
Script(r, target) ==
    CASE r < target -> Upgrades[r + 1]
      [] r > target -> Downgrades[r]
      [] OTHER -> <<>>

Idle == run.target = revision

TypeOK ==
    /\ backend \in {"postgres", "sqlite"}
    /\ revision \in Revisions /\ durable.revision \in Revisions
    /\ \A db \in {schema, durable.schema} : DOMAIN db \subseteq
            DOMAIN ModelSchema \cup {"refresh_tokens"}
    /\ run.target \in Revisions
    /\ Idle => durable = State(schema, revision) /\ run.left = <<>>
    /\ runs \in 0..MaxRuns /\ crashes \in 0..MaxCrashes

Init ==
    /\ backend \in {"postgres", "sqlite"}
    /\ schema = <<>> /\ revision = 0 /\ durable = State(<<>>, 0)
    /\ run = [target |-> 0, left |-> <<>>]
    /\ runs = 0 /\ crashes = 0

Starts(target) ==
    /\ Idle /\ target # revision
    /\ run' = [target |-> target, left |-> Script(revision, target)]
    /\ UNCHANGED <<backend, schema, revision, durable, crashes>>

\* The server starts: alembic upgrade head runs before uvicorn.
StartServer == Starts(HeadRevision) /\ UNCHANGED runs

\* Someone asks alembic for another revision, up or down.
AskFor(target) == runs < MaxRuns /\ target # HeadRevision /\ Starts(target) /\ runs' = runs + 1

\* One statement.  SQLite commits it at once.
Execute ==
    /\ ~Idle /\ run.left # <<>> /\ Possible(Head(run.left), schema, backend)
    /\ schema' = Apply(Head(run.left), schema)
    /\ run' = [run EXCEPT !.left = Tail(@)]
    /\ durable' = IF backend = "sqlite" THEN State(schema', revision) ELSE durable
    /\ UNCHANGED <<backend, revision, runs, crashes>>

\* Mutant: the transaction of the run is never committed.
FinishMigration_Uncommitted ==
    /\ ~Idle /\ run.left = <<>>
    /\ revision' = IF revision < run.target THEN revision + 1 ELSE revision - 1
    /\ run' = [run EXCEPT !.left = Script(revision', run.target)]
    /\ durable' = IF backend = "sqlite" THEN State(schema, revision') ELSE durable
    /\ UNCHANGED <<backend, schema, runs, crashes>>

\* The end of one migration: alembic_version moves.  SQLite commits here,
\* PostgreSQL after the last migration of the run.
FinishMigration ==
    /\ ~Idle /\ run.left = <<>>
    /\ revision' = IF revision < run.target THEN revision + 1 ELSE revision - 1
    /\ run' = [run EXCEPT !.left = Script(revision', run.target)]
    /\ durable' = IF backend = "sqlite" \/ revision' = run.target
                  THEN State(schema, revision') ELSE durable
    /\ UNCHANGED <<backend, schema, runs, crashes>>

\* Mutant: alembic_version is committed with the migration, the tables are not.
RollsBack_Revision ==
    /\ schema' = durable.schema /\ UNCHANGED <<revision, backend, runs>>
    /\ durable' = State(durable.schema, revision)
    /\ run' = [target |-> revision, left |-> <<>>]

\* The process ends and whatever is not durable is gone.
RollsBack ==
    /\ schema' = durable.schema /\ revision' = durable.revision
    /\ run' = [target |-> durable.revision, left |-> <<>>]
    /\ UNCHANGED <<backend, durable, runs>>

\* A statement raises, and so does alembic.
Fail ==
    /\ ~Idle /\ run.left # <<>> /\ ~Possible(Head(run.left), schema, backend)
    /\ RollsBack /\ UNCHANGED crashes

\* The process is killed.
Crash == ~Idle /\ crashes < MaxCrashes /\ RollsBack /\ crashes' = crashes + 1

Next ==
    \/ StartServer \/ Execute \/ FinishMigration \/ Fail \/ Crash
    \/ \E target \in Revisions : AskFor(target)

\* A run goes on, and the server is started again after a run that was not for it.
Spec == Init /\ [][Next]_vars /\ WF_vars(Execute \/ FinishMigration \/ Fail) /\ WF_vars(StartServer)

---------------------------------------------------------------------------
(* Properties.                                                             *)

\* SQLite keeps half a migration when the process is killed in it.
Intact == backend = "postgres" \/ crashes = 0

\* At the newest revision the tables, their columns and their indexes are those
\* that models.py maps (alembic/versions/0003, 0004 against backend/models.py),
\* however often migrations were undone, repeated or killed.
HeadMatchesModels == Intact /\ durable.revision = HeadRevision /\ Idle => schema = ModelSchema

\* At rest the version number names the columns that are there: a downgrade
\* restores them, and what it loses is indexes only (0003_..., downgrade).
RevisionTellsColumns ==
    Intact /\ Idle =>
        /\ DOMAIN schema = DOMAIN Fresh[revision]
        /\ \A t \in DOMAIN schema :
            /\ [schema[t] EXCEPT !.indexes = {}] = [Fresh[revision][t] EXCEPT !.indexes = {}]
            /\ schema[t].indexes \subseteq Fresh[revision][t].indexes

Refused == ~Idle /\ run.left # <<>> /\ ~Possible(Head(run.left), schema, backend)

\* No statement of an upgrade is ever refused, and the only downgrade that is
\* refused drops an index that an earlier downgrade did not restore
\* (0002_..., downgrade after 0003_..., downgrade).
UpgradesAlwaysRun ==
    Intact /\ Refused =>
        /\ run.target < revision /\ revision = 2
        /\ Head(run.left).op = "drop_index" /\ schema["users"].indexes = {}

\* However often a run fails or is killed, the server's own upgrade arrives at
\* the newest revision in the end, unless SQLite was left with half a migration.
ReachesHead == <>[](~Intact \/ (Idle /\ revision = HeadRevision))

\* "Restore minimal previous schema" (0003_passwordless_qr_auth.py:96): what a
\* downgrade leaves can be downgraded further.  It cannot.
DowngradesWork == Intact => ~Refused
=============================================================================
