-------------------------- MODULE DatabasePosture --------------------------
(***************************************************************************)
(* What the platform asks of PostgreSQL's catalogue before it serves: the    *)
(* posture of the runtime's role (src/src/db/runtime-posture.ts), its table   *)
(* grants (src/src/db/runtime-grant-contract.ts), and the readiness of the    *)
(* migrator's database (src/src/db/readiness.ts).  The catalogue and the       *)
(* command's environment drift in the hands of operators, the runtime starts   *)
(* if its configuration can be read and the posture allows it, and migrations  *)
(* then make new objects while it serves.                                     *)
(***************************************************************************)
EXTENDS DatabaseCatalogue, PlatformConfiguration

CONSTANT MaxDrift        \* bound: the operators' changes before the start

ASSUME DriftAssumption == MaxDrift \in Nat

\* RUNTIME_TABLE_GRANT_CONTRACT: what the runtime is granted, and no more.
Contract == {<<"accounts", "SELECT">>, <<"accounts", "INSERT">>}

VARIABLES
  env,        \* the environment the commands are given
  cat,        \* the catalogue
  drifts,     \* the operators' changes so far
  stage       \* "drift", "admitted" or "refused"

vars == <<env, cat, drifts, stage>>

CreatorEdge(r) == Edge("app", r, "control", TRUE, FALSE, FALSE)

\* The catalogue the migrations and the alignment leave.
Baseline ==
  [members |-> {CreatorEdge("runtime"), CreatorEdge("migrator")},
   attrs |-> {<<"control", "super">>, <<"app", "createrole">>, <<"other", "inherit">>}
             \cup {<<r, "login">> : r \in {"control", "app", "migrator", "runtime"}},
   exist |-> {"accounts", "ids", "status", "ledger", "db_tree", "reports"},
   owner |-> [t \in Things |->
                IF t \in {"db", "db_tree"} THEN "app"
                ELSE IF t = "public" THEN "database_owner"
                ELSE IF t = "drizzle" \/ (t \in Names /\ Objects[t].class = "canonical")
                     THEN "migrator" ELSE "control"],
   acl |-> {Grant(p[1], "runtime", p[2], FALSE, "migrator") : p \in Contract}
           \cup {Grant("public", r, "USAGE", FALSE, "database_owner") : r \in {"runtime", "migrator"}}
           \cup {Grant("public", "migrator", "CREATE", FALSE, "database_owner"),
                 Grant("db", "migrator", "CONNECT", FALSE, "app"),
                 Grant("db", "runtime", "CONNECT", FALSE, "app")},
   columns |-> {},          \* pg_attribute.attacl: <<table, grantee>>
   defaults |-> {},         \* pg_default_acl
   revoked |-> {"app", "migrator"},    \* creators whose routines PUBLIC may not execute
   builtin |-> {},          \* routines that have no ACL of their own
   odd |-> FALSE,           \* the retained routine is not of the shape that is retained
   migrated |-> TRUE]       \* the ledger holds the migrations expected

(***************************************************************************)
(* runtimeDatabasePostureSql and postureChecks.                              *)
(***************************************************************************)
SetAssumable(c) == Reached("runtime", {e \in c.members : e.set})

InheritsBySql(c, e) == e.inherit /\ <<e.member, "inherit">> \in c.attrs

Effective(c) == Reached("runtime", {e \in c.members : e.set \/ InheritsBySql(c, e)})

EdgesOf(c, r) == {e \in c.members : r \in {e.member, e.role, e.by}}

\* role_membership_absent .. bypassrls_absent, with runtime_creator_admin_edge_exact
\* MUTANT of AdministrativeAttributesAbsent: memberships are looked at from the granted role only.
OnlyItsMembers(c) ==
  /\ {e \in c.members : e.role = "runtime"} = {CreatorEdge("runtime")}
  /\ \A r \in SetAssumable(c) : ~\E a \in Administrative : <<r, a>> \in c.attrs

AdministrativeAttributesAbsent(c) ==
  /\ EdgesOf(c, "runtime") = {CreatorEdge("runtime")}
  /\ ~\E e \in c.members : e.member \in SetAssumable(c) /\ e.admin
  /\ \A r \in SetAssumable(c) :
       /\ ~IsMember(c, r, "neon")
       /\ ~\E a \in Administrative : <<r, a>> \in c.attrs

DatabaseAndSchemaCreateAbsent(c) ==
  \A r \in Effective(c) :
    /\ ~Has(c, r, "db", "CREATE")
    /\ \A s \in Schemas : ~Has(c, r, s, "CREATE") /\ ~Owns(c, r, s)
    /\ ~Has(c, r, "drizzle", "USAGE")

MigrationLedgerAccessDenied(c) ==
  "ledger" \in c.exist => \A r \in Effective(c) : ~Has(c, r, "ledger", "SELECT")

\* databaseAndSchemaOwnershipAbsent, application_table_ownership_absent,
\* runtime_routine_ownership_absent, runtime_sequence_ownership_absent
OwnershipAbsent(c) ==
  \A r \in Effective(c) :
    /\ ~Owns(c, r, "db")
    /\ \A s \in Schemas : ~Owns(c, r, s)
    /\ \A n \in c.exist : Objects[n].kind # "type" => ~Owns(c, r, n)

\* application_acl_schemas: the application's, and any other the runtime may use.
AclSchemas(c) == ApplicationSchemas \cup {s \in Schemas : Has(c, "runtime", s, "USAGE")}

\* The items of the ACLs of the objects of one kind that name the runtime, or
\* PUBLIC in one of these schemas.
Direct(c, kind) ==
  {g \in c.acl : g.on \in c.exist /\ Objects[g.on].kind = kind /\ g.to = "runtime"}
PublicIn(c, kind, schemas) ==
  {g \in c.acl : /\ g.on \in c.exist /\ Objects[g.on].kind = kind /\ g.to = "PUBLIC"
                 /\ Objects[g.on].schema \in schemas}

\* runtime_table_grant_option_absent and runtime_table_grant_set_exact, which counts
\* the rows too: one privilege granted by two grantors is two rows.
GrantSetExact(c) ==
  LET rows == Direct(c, "table")
  IN /\ \A g \in rows : ~g.grantable
     /\ Cardinality(rows) = Cardinality(Contract)
     /\ {<<g.on, g.priv>> : g \in rows} = Contract

RuntimeTableGrantsExact(c) == GrantSetExact(c) /\ PublicIn(c, "table", AclSchemas(c)) = {}

RuntimeColumnAuthorityAbsent(c) ==
  \A x \in c.columns :
    x[1] \in c.exist =>
      /\ x[2] # "runtime"
      /\ ~(x[2] = "PUBLIC" /\ Objects[x[1]].schema \in AclSchemas(c))

\* default_acl_creators: platform_app and platform_migrator, where they may create;
\* default_acl_context: their defaults for all schemas, or the built-in ones, and
\* those for the schema.
DefaultCreators(c) ==
  {p \in {"app", "migrator"} \X ApplicationSchemas : Has(c, p[1], p[2], "CREATE")}

EffectiveDefaults(c) ==
  {d \in c.defaults \cup RoutineDefaults(c) :
     \E p \in DefaultCreators(c) : d.creator = p[1] /\ d.schema \in {"*", p[2]}}

\* MUTANT of DefaultAuthorityAbsent: the built-in defaults are left out.
WrittenDefaultsOnly(c) ==
  ~\E d \in EffectiveDefaults(c) \cap c.defaults : d.to \in Effective(c) \cup {"PUBLIC"}

DefaultAuthorityAbsent(c) ==
  ~\E d \in EffectiveDefaults(c) : d.to \in Effective(c) \cup {"PUBLIC"}

\* A routine without an ACL of its own has no items: what is built in is not seen.
RoutineAndSequenceAuthorityAbsent(c) ==
  /\ Direct(c, "routine") \cup Direct(c, "sequence") = {}
  /\ PublicIn(c, "routine", AclSchemas(c)) \cup PublicIn(c, "sequence", AclSchemas(c)) = {}

\* assertRuntimeDatabasePosture; the client is the runtime's own, so that
\* current_user and session_user are the role expected.
RuntimePosture(c) ==
  /\ AdministrativeAttributesAbsent(c)
  /\ DatabaseAndSchemaCreateAbsent(c)
  /\ MigrationLedgerAccessDenied(c)
  /\ OwnershipAbsent(c)
  /\ RuntimeTableGrantsExact(c)
  /\ RuntimeColumnAuthorityAbsent(c)
  /\ DefaultAuthorityAbsent(c)
  /\ RoutineAndSequenceAuthorityAbsent(c)

(***************************************************************************)
(* assertRuntimeTableGrantSet: the same contract, checked in TypeScript over *)
(* the rows some harness or inspection read.                                 *)
(***************************************************************************)
Key(g) == <<g.on, g.priv>>

\* MUTANT of GrantSetError: a row that comes twice is not noticed.
WithoutDuplicates(rows) ==
  IF \E g \in rows : g.grantable THEN "grant_option"
  ELSE IF \E g \in rows : Objects[g.on].schema # "public" THEN "authority"
  ELSE IF ~(Contract \subseteq {Key(g) : g \in rows}) THEN "missing"
  ELSE IF ~({Key(g) : g \in rows} \subseteq Contract) THEN "extra"
  ELSE "none"

GrantSetError(rows) ==
  LET keys == {Key(g) : g \in rows}
  IN IF \E g \in rows : g.grantable THEN "grant_option"
     ELSE IF \E g \in rows : Objects[g.on].schema # "public" THEN "authority"
     ELSE IF Cardinality(keys) # Cardinality(rows) THEN "extra"
     ELSE IF Contract \ keys # {} /\ keys \ Contract # {} THEN "mismatch"
     ELSE IF Contract \ keys # {} THEN "missing"
     ELSE IF keys \ Contract # {} THEN "extra"
     ELSE "none"

(***************************************************************************)
(* migratorPostureSql: the fields of MIGRATOR_READINESS_FIELDS by subject;    *)
(* the identity of the connection and PostgreSQL's version are given.         *)
(***************************************************************************)
InApplication(n) == Objects[n].schema \in ApplicationSchemas
Canonical(c, kinds) ==
  {n \in c.exist : Objects[n].class = "canonical" /\ Objects[n].kind \in kinds}
Relations == {"table", "sequence"}

\* migrator_role_attributes_exact
MigratorAttributesExact(c) == {x \in c.attrs : x[1] = "migrator"} = {<<"migrator", "login">>}

\* migrator_creator_admin_edge_exact
MigratorEdgeExact(c) == EdgesOf(c, "migrator") = {CreatorEdge("migrator")}

\* migrator_database_connect_exact .. application_schema_authority_exact
MigratorSchemaAuthority(c) ==
  /\ Has(c, "migrator", "db", "CONNECT")
  /\ \A p \in {"CREATE", "TEMPORARY"} : ~Has(c, "migrator", "db", p)
  /\ c.owner["db"] = "app" /\ c.owner["public"] = "database_owner"
  /\ c.owner["drizzle"] = "migrator"
  /\ \A p \in {"USAGE", "CREATE"}, s \in ApplicationSchemas : Has(c, "migrator", s, p)

\* migration_ledger_owner_migrator, canonical_drizzle_ledger_relation_exact,
\* required_application_table_owner_exact, canonical_enum_presence_exact,
\* application_{namespace_relation,type}_owner_exact
MigratorOwns(c) ==
  /\ {"ledger", "accounts", "status"} \subseteq c.exist
  /\ \A n \in Canonical(c, Relations \cup {"type"}) : c.owner[n] = "migrator"

\* accepted_retained_operator_routines
Retained(c) ==
  {n \in c.exist : /\ Objects[n].class = "retained" /\ ~c.odd
                   /\ c.owner[n] = "app"
                   /\ n \notin c.builtin
                   /\ ~\E g \in c.acl : g.on = n /\ g.to = "PUBLIC"}

\* unknown_application_{relation,type,routine}_drift_absent
\* MUTANT of UnknownDriftAbsent: routines are not looked at.
RoutinesOverlooked(c) ==
  \A n \in c.exist : InApplication(n) /\ Objects[n].kind # "routine" =>
    Objects[n].class \in {"canonical", "extension"}

UnknownDriftAbsent(c) ==
  \A n \in c.exist : InApplication(n) =>
    Objects[n].class \in {"canonical", "extension"} \/ n \in Retained(c)

\* The items of pg_default_acl's rows: a row written for routines starts from what
\* is built in.
WrittenDefaults(c) ==
  c.defaults \cup {d \in RoutineDefaults(c) :
                     \E x \in c.defaults : x.creator = d.creator /\ x.kind = "routine" /\ x.schema = "*"}

\* public_relation_authority_absent .. public_schema_acl_least_privilege; the
\* platform has no routine of its own (CANONICAL_PLATFORM_ROUTINES).
PublicAuthorityAbsent(c) ==
  /\ ~\E g \in c.acl : g.to = "PUBLIC" /\ g.on \in Canonical(c, Relations) \cup {"drizzle"}
  /\ ~\E g \in c.acl : g.to = "PUBLIC" /\ g.on = "public" /\ g.priv = "CREATE"
  /\ ~\E d \in WrittenDefaults(c) : d.to = "PUBLIC"
  /\ ~\E g \in c.acl : g.to = "migrator" /\ g.grantable /\ g.on \in Canonical(c, Relations)

\* runtime_migration_ledger_access_absent, runtime_application_ownership_zero
RuntimeKeptOut(c) ==
  /\ "ledger" \in c.exist =>
       /\ ~Has(c, "runtime", "drizzle", "USAGE")
       /\ \A p \in TablePrivileges : ~Has(c, "runtime", "ledger", p)
  /\ \A n \in Canonical(c, Relations \cup {"type"}) : c.owner[n] # "runtime"

MigratorPosture(c) ==
  /\ MigratorAttributesExact(c)
  /\ MigratorEdgeExact(c)
  /\ MigratorSchemaAuthority(c)
  /\ MigratorOwns(c)
  /\ Retained(c) # {}
  /\ UnknownDriftAbsent(c)
  /\ PublicAuthorityAbsent(c)
  /\ RuntimeKeptOut(c)

(***************************************************************************)
(* createDatabaseReadinessReport and verifyCanonicalPlatformDatabase: three   *)
(* questions in a row, of which any may fail to be answered.                  *)
(***************************************************************************)
Faults == {"none", "config", "connect", "tables", "migrations", "posture"}
State(b) == IF b THEN "passed" ELSE "failed"

TablesPresent(c) == "accounts" \in c.exist
\* The ledger is read without asking whether it is there.
LedgerAnswers(c, fault) == "ledger" \in c.exist /\ fault # "migrations"

NotChecked == [reachability |-> "not_checked", schema |-> "not_checked",
               migrations |-> "not_checked", posture |-> "not_checked"]

\* The catch: what a failed posture query leaves is a failure only if nothing else is.
\* MUTANT of PostureUnanswered: it stays unchecked.
PostureUnchecked(schema, migrations) == "not_checked"

PostureUnanswered(schema, migrations) ==
  IF schema = "passed" /\ migrations = "passed" THEN "failed" ELSE "not_checked"

\* What the queries find, one after the other; the first that fails ends it, and
\* the report then says which check that was.  `fit' is MigratorPosture of c.
ReadinessReport(c, fit, expects, fault) ==
  LET schema == State(TablesPresent(c))
      asks == fault \notin {"config", "connect", "tables"}
      answered == ~expects \/ LedgerAnswers(c, fault)
      migrations == State(~expects \/ c.migrated)
      posture == State(fit)
      checks(s, m, p) == [reachability |-> "passed", schema |-> s, migrations |-> m, posture |-> p]
      notReady(s, m, p) == [status |-> "schema_not_ready", checks |-> checks(s, m, p)]
  IN CASE fault = "config" -> [status |-> "db_config_invalid", checks |-> NotChecked]
       [] fault = "connect" -> [status |-> "db_unreachable",
                                checks |-> [NotChecked EXCEPT !.reachability = "failed"]]
       [] fault = "tables" -> notReady("failed", IF expects THEN "failed" ELSE "not_checked", "not_checked")
       [] asks /\ ~answered -> notReady(schema, "failed", "not_checked")
       [] asks /\ answered /\ fault = "posture" ->
            notReady(schema, migrations, PostureUnanswered(schema, migrations))
       [] asks /\ answered /\ fault # "posture" ->
            IF {schema, migrations, posture} = {"passed"}
            THEN [status |-> "ready", checks |-> checks(schema, migrations, posture)]
            ELSE notReady(schema, migrations, posture)

\* MUTANT of CanonicalVerification: the posture is left to the caller.
VerifiedWithoutPosture(c, fit, expects) ==
  IF "ledger" \notin c.exist THEN "thrown"
  ELSE IF TablesPresent(c) /\ (~expects \/ c.migrated) THEN "ready" ELSE "schema_not_ready"

\* verifyCanonicalPlatformDatabase asks the ledger in any case, and lets errors out.
CanonicalVerification(c, fit, expects) ==
  IF "ledger" \notin c.exist THEN "thrown"
  ELSE IF TablesPresent(c) /\ (~expects \/ c.migrated) /\ fit THEN "ready"
  ELSE "schema_not_ready"

(***************************************************************************)
(* The operators' changes.                                                    *)
(***************************************************************************)
Drift(c) ==
  /\ stage = "drift" /\ drifts < MaxDrift
  /\ c # cat
  /\ cat' = c /\ drifts' = drifts + 1
  /\ UNCHANGED <<env, stage>>

\* One variable is set, mistyped or lost.
Configure ==
  /\ stage = "drift" /\ drifts < MaxDrift
  /\ \E v \in Variables : \E x \in Values(v) \ {env[v]} : env' = [env EXCEPT ![v] = x]
  /\ drifts' = drifts + 1
  /\ UNCHANGED <<cat, stage>>

\* Only a superuser or a role that has the ADMIN option grants a role; no cycles.
GrantRole ==
  \E m \in {"runtime", "migrator", "app", "other"}, r \in Roles \ {"control", "database_owner"},
     o \in {"admin", "inherit", "set"} :
    /\ m \notin Reached(r, cat.members)
    /\ \E b \in {"control", "app"} :
         /\ Super(cat, b) \/ \E e \in cat.members : e.member = b /\ e.role = r /\ e.admin
         /\ Drift([cat EXCEPT !.members =
                     {e \in @ : ~(e.member = m /\ e.role = r /\ e.by = b)}
                     \cup {Edge(m, r, b, o = "admin", o = "inherit", o = "set")}])

RevokeRole == \E e \in cat.members : Drift([cat EXCEPT !.members = @ \ {e}])

AlterRole ==
  \E r \in {"runtime", "migrator", "other"}, a \in Attributes :
    \/ Drift([cat EXCEPT !.attrs = @ \cup {<<r, a>>}])
    \/ Drift([cat EXCEPT !.attrs = @ \ {<<r, a>>}])

\* Who owns an object grants on it, or who holds the grant option.
GrantOn ==
  \E t \in (cat.exist \cap {"accounts", "ids", "ledger", "db_tree", "reports", "ext", "helper"})
            \cup Schemas \cup {"db"},
     to \in {"runtime", "migrator", "other", "PUBLIC"}, grantable \in BOOLEAN :
    \E p \in PrivilegesOn(t), b \in {cat.owner[t], "other"} :
      /\ grantable => to # "PUBLIC"
      /\ b = cat.owner[t]
         \/ \E g \in cat.acl : g.on = t /\ g.to = b /\ g.priv = p /\ g.grantable
      /\ Drift([cat EXCEPT
           !.acl = {g \in @ : ~(g.on = t /\ g.to = to /\ g.priv = p /\ g.by = b)}
                   \cup {Grant(t, to, p, grantable, b)}
                   \cup (IF t \in cat.builtin THEN {Grant(t, "PUBLIC", "EXECUTE", FALSE, cat.owner[t])}
                         ELSE {}),
           !.builtin = @ \ {t}])

RevokeOn == \E g \in cat.acl : Drift([cat EXCEPT !.acl = @ \ {g}])

GrantColumn ==
  \E t \in cat.exist \cap {"accounts", "ledger", "reports"}, to \in {"runtime", "PUBLIC"} :
    Drift([cat EXCEPT !.columns = @ \cup {<<t, to>>}])

AlterOwner ==
  \E t \in (cat.exist \ {"ext"}) \cup Schemas \cup {"db"}, r \in {"runtime", "app", "other"} :
    Drift([cat EXCEPT !.owner[t] = r])

AlterDefaults ==
  \/ \E r \in {"app", "migrator", "control"}, s \in {"*", "public"}, k \in {"table", "sequence", "routine"},
        to \in {"runtime", "other", "PUBLIC"} :
       Drift([cat EXCEPT !.defaults = @ \cup {Default(r, s, k, to)}])
  \/ \E r \in {"app", "migrator"} : Drift([cat EXCEPT !.revoked = @ \ {r}])

\* An object nobody planned; a routine has no ACL of its own until something is granted.
CreateObject ==
  \E n \in {"ext", "stray", "stray_type", "helper"} \ cat.exist :
    Drift([cat EXCEPT !.exist = @ \cup {n},
                      !.builtin = @ \cup ({n} \cap {"helper"})])

\* Dropping an object, replacing the routine that is kept, or restoring an old ledger.
DropObject ==
  \/ \E n \in cat.exist \cap {"accounts", "status", "ledger", "db_tree"} :
       Drift([cat EXCEPT !.exist = @ \ {n}, !.acl = {g \in @ : g.on # n}])
  \/ Drift([cat EXCEPT !.odd = TRUE])
  \/ Drift([cat EXCEPT !.migrated = FALSE])

(***************************************************************************)
(* The start of the runtime, and the migrations while it serves.              *)
(***************************************************************************)
\* start() of the bootstrap: what can be read is read before anything is connected,
\* and the pool is checked before anything is composed or listens.
Start ==
  /\ stage = "drift"
  /\ stage' = IF /\ ConfigurationAccepted(env)
                 /\ RuntimePosture(cat)
                 /\ DependenciesComposed(env)
              THEN "admitted" ELSE "refused"
  /\ UNCHANGED <<env, cat, drifts>>

\* MUTANT of Migrate: nobody waits for the start.
MigrateAnytime ==
  /\ Made \cap cat.exist = {}
  /\ \E r \in {"app", "migrator"} :
       /\ \A n \in Made : Has(cat, r, Objects[n].schema, "CREATE")
       /\ cat' = Created(cat, r, Made)
  /\ UNCHANGED <<env, drifts, stage>>

\* A migration makes a table, a sequence and a routine nobody has granted yet.
Migrate ==
  /\ stage = "admitted"
  /\ Made \cap cat.exist = {}
  /\ \E r \in {"app", "migrator"} :
       /\ \A n \in Made : Has(cat, r, Objects[n].schema, "CREATE")
       /\ cat' = Created(cat, r, Made)
  /\ UNCHANGED <<env, drifts, stage>>

Init == env \in Environments /\ cat = Baseline /\ drifts = 0 /\ stage = "drift"

Next ==
  \/ GrantRole \/ RevokeRole \/ AlterRole
  \/ GrantOn \/ RevokeOn \/ GrantColumn
  \/ AlterOwner \/ AlterDefaults
  \/ CreateObject \/ DropObject
  \/ Configure
  \/ Start \/ Migrate

Spec == Init /\ [][Next]_vars

(***************************************************************************)
(* Properties.                                                                *)
(***************************************************************************)
\* The catalogue stays one, and only an admitted start sees migrations.
TypeOK ==
  /\ IsCatalogue(cat)
  /\ drifts \in 0..MaxDrift
  /\ stage \in {"drift", "admitted", "refused"}
  /\ stage # "admitted" => cat.exist \cap Made = {}

\* Whatever the operators did to roles, grants, owners and defaults: once the
\* posture has let the runtime start, its sessions, in every role they can set, can
\* use nothing but what the contract grants (routines without an ACL of their own
\* aside, which the runbook leaves out), can make nothing and own nothing; and what
\* the migrations then make does not change that.
OnlyContract ==
  stage = "admitted" =>
    \A r \in Roles : MaySet(cat, "runtime", r) =>
      /\ \A x \in Usable(cat, r) : x \in Contract \/ x[1] \in cat.builtin
      /\ Creates(cat, r) = {} /\ Owned(cat, r) = {}

\* A runtime that was let in would be let in again: what migrations make under the
\* defaults that were checked fails no later start.
RestartStillAdmitted == stage = "admitted" => RuntimePosture(cat)

\* Whatever was mistyped: a hosted server that is up takes requests of its own origin
\* only, sends its session cookie over https only, signs in with one provider over
\* https, which sends browsers back to that same origin, and hands launches over to
\* SQAG alone, with a secret of some length; the role whose posture was checked is the
\* one it connects as.
HostedStart ==
  stage = "admitted" /\ Production(env) =>
    /\ AllowedOrigins(env) = {Origin(PublicBase(env))}
    /\ Origin(PublicBase(env)) \in HostedPlatformOrigins /\ CookieSecure(env)
    /\ AuthEnabled(env) =>
         /\ \A v \in ProviderUrls \ {"AUTH_USERINFO_URL"} : env[v].scheme = "https"
         /\ Origin(env.AUTH_REDIRECT_URI) \in AllowedOrigins(env)
    /\ Handoff(env) =>
         /\ Origin(env.PLATFORM_SQAG_APP_BASE_URL) = Origin(Sqag)
         /\ GrantsServed(env) /\ env.PLATFORM_SQAG_SERVICE_SECRET = "long"
    /\ env.DATABASE_EXPECTED_RUNTIME_ROLE # "other_role"

\* The configuration is refused before the database is connected, or not at all: what
\* the composition asks for again, it has.
RefusedBeforeConnecting == ConfigurationAccepted(env) => DependenciesComposed(env)

\* What the start lets in, now and at every later start.
PostureInvariant ==
  TypeOK /\ OnlyContract /\ RestartStillAdmitted /\ HostedStart /\ RefusedBeforeConnecting

\* The TypeScript check and the SQL check of the table grants accept the same rows.
GrantChecksAgree == (GrantSetError(Direct(cat, "table")) = "none") = GrantSetExact(cat)

\* Readiness says ready only of a database whose migrations can go on: no role but a
\* superuser acts as the migrator, which owns what it must alter and can create;
\* and the routines of the application's schemas, the extensions' aside, are not
\* executable by the runtime, built-in rights included.
ReadyForMigrations(fit) ==
  (\E e \in BOOLEAN : ReadinessReport(cat, fit, e, "none").status = "ready") =>
      /\ \A r \in Roles : r = "migrator" \/ Super(cat, r)
                          \/ ~(HasRole(cat, r, "migrator") \/ MaySet(cat, r, "migrator"))
      /\ \A n \in {"accounts", "ledger", "status"} : n \in cat.exist /\ Owns(cat, "migrator", n)
      /\ ApplicationSchemas \subseteq Creates(cat, "migrator")
      /\ RuntimePosture(cat) =>
           ~\E x \in Usable(cat, "runtime") :
              Objects[x[1]].kind = "routine" /\ InApplication(x[1]) /\ x[1] \notin Made

\* A report that is not ready names a check that failed, whichever query failed.
NotReadyNamesAFailure(fit) ==
  \A e \in BOOLEAN, f \in Faults \ {"config"} :
    LET r == ReadinessReport(cat, fit, e, f)
    IN (r.status # "ready") = (\E k \in DOMAIN r.checks : r.checks[k] = "failed")

\* The operations' verification and the readiness report agree on what is ready,
\* unless the ledger is missing: then one fails and the other reports it.
VerificationsAgree(fit) ==
  \A e \in BOOLEAN :
    IF "ledger" \in cat.exist
    THEN CanonicalVerification(cat, fit, e) = ReadinessReport(cat, fit, e, "none").status
    ELSE CanonicalVerification(cat, fit, e) = "thrown"
         /\ ReadinessReport(cat, fit, e, "none").status = "schema_not_ready"

\* What the start refuses of an environment the dry-run check passes: names that were
\* retired, a secret nobody asked for, another role.
OnlyStartRefuses ==
  \/ \E v \in Retired : Given(env, v)
  \/ env.PLATFORM_SQAG_SERVICE_SECRET = "short" /\ ~Handoff(env)
  \/ env.DATABASE_EXPECTED_RUNTIME_ROLE = "other_role"

\* What only the seed command refuses.
OnlySeedRefuses ==
  \/ env.PLATFORM_SEED_CONFIRM = "padded"
  \/ \E v \in SeedOverrides : Given(env, v)
  \/ env.PLATFORM_SEED_BOOTSTRAP_MODE = "first_admin" /\ SeedRole(env) # "admin"
  \/ env.PLATFORM_SEED_APP_LAUNCH_URL.scheme \in {"malformed", "other"}

\* The dry-run check and the commands it stands in for: an environment that passes is
\* one they accept, the cases above aside; and a hosted start with sign-in is of an
\* environment in which the check finds nothing invalid but what other commands use.
JudgementsAgree ==
  /\ ReadinessOk(env) => ConfigurationAccepted(env) = ~OnlyStartRefuses
  /\ ReadinessOk(env) /\ (\A v \in BootstrapOnly : Given(env, v)) => SeedStarts(env) = ~OnlySeedRefuses
  /\ ConfigurationAccepted(env) /\ Production(env) /\ AuthEnabled(env) =>
       ReadinessInvalid(env) \subseteq
         {"DATABASE_MIGRATIONS_CONFIRM", "PLATFORM_SEED_CONFIRM", "PLATFORM_SEED_BOOTSTRAP_MODE",
          "PLATFORM_SEED_MEMBERSHIP_ROLE"}

\* The reports of readiness, posture and verification: true, and of one mind, about
\* whatever the operators have made and of what migrations made of it (a refused start
\* leaves the catalogue it was refused for).
ReportsAgree ==
  stage # "refused" =>
    /\ GrantChecksAgree /\ JudgementsAgree
    /\ LET fit == MigratorPosture(cat)
       IN ReadyForMigrations(fit) /\ NotReadyNamesAFailure(fit) /\ VerificationsAgree(fit)
=============================================================================
