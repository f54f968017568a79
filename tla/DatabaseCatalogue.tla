------------------------- MODULE DatabaseCatalogue -------------------------
(***************************************************************************)
(* PostgreSQL's catalogue as far as the platform's checks read it, and what  *)
(* PostgreSQL itself lets a role do under it.  The catalogue is a value: the  *)
(* checks of DatabasePosture are predicates over it.                          *)
(***************************************************************************)
EXTENDS Naturals, FiniteSets

\* platform_runtime, platform_migrator, platform_app, cloud_admin, neon_superuser,
\* pg_database_owner, and some role of an operator's.
Roles == {"runtime", "migrator", "app", "control", "neon", "database_owner", "other"}

Administrative == {"super", "createdb", "createrole", "replication", "bypassrls"}
Attributes == Administrative \cup {"login", "inherit"}

Schemas == {"public", "drizzle", "extra"}
ApplicationSchemas == {"public", "drizzle"}

\* The objects there can be: what the migrations make, what the operators keep,
\* what belongs to an extension, and what nobody planned.  `extra' is the schema
\* of something else in the same database.
Object(s, k, c) == [schema |-> s, kind |-> k, class |-> c]
Objects ==
  [accounts |-> Object("public", "table", "canonical"),
   ids      |-> Object("public", "sequence", "canonical"),
   status   |-> Object("public", "type", "canonical"),
   ledger   |-> Object("drizzle", "table", "canonical"),
   db_tree  |-> Object("public", "routine", "retained"),
   reports  |-> Object("extra", "table", "unknown"),
   ext      |-> Object("public", "table", "extension"),
   stray    |-> Object("public", "table", "unknown"),
   stray_type   |-> Object("public", "type", "unknown"),
   helper       |-> Object("public", "routine", "unknown"),
   new_table    |-> Object("public", "table", "unknown"),
   new_sequence |-> Object("public", "sequence", "unknown"),
   new_routine  |-> Object("public", "routine", "unknown")]

Names == DOMAIN Objects
Made == {"new_table", "new_sequence", "new_routine"}
Things == Names \cup Schemas \cup {"db"}

TablePrivileges == {"SELECT", "INSERT"}
PrivilegesOn(t) ==
  CASE t = "db" -> {"CREATE", "CONNECT", "TEMPORARY"}
    [] t \in Schemas -> {"USAGE", "CREATE"}
    [] OTHER -> CASE Objects[t].kind = "table" -> TablePrivileges
                  [] Objects[t].kind = "routine" -> {"EXECUTE"}
                  [] OTHER -> {"USAGE"}
AllPrivileges == UNION {PrivilegesOn(t) : t \in Things}

\* A row of pg_auth_members, one item of an ACL, one item of pg_default_acl
\* ("*": for every schema).
Edge(m, r, b, a, i, s) ==
  [member |-> m, role |-> r, by |-> b, admin |-> a, inherit |-> i, set |-> s]
Grant(t, to, p, g, b) == [on |-> t, to |-> to, priv |-> p, grantable |-> g, by |-> b]
Default(c, s, k, to) == [creator |-> c, schema |-> s, kind |-> k, to |-> to]

Grantees == Roles \cup {"PUBLIC"}

\* What the types of the catalogue's parts are.
IsCatalogue(c) ==
  /\ \A e \in c.members : e = Edge(e.member, e.role, e.by, e.admin, e.inherit, e.set)
                          /\ {e.member, e.role, e.by} \subseteq Roles
  /\ c.attrs \subseteq Roles \X Attributes
  /\ c.exist \subseteq Names
  /\ c.owner \in [Things -> Roles]
  /\ \A g \in c.acl : g.on \in Things /\ g.to \in Grantees /\ g.priv \in PrivilegesOn(g.on)
  /\ c.columns \subseteq Names \X Grantees
  /\ \A d \in c.defaults : d.creator \in Roles /\ d.to \in Grantees
  /\ c.revoked \subseteq Roles
  /\ c.builtin \subseteq {n \in Names : Objects[n].kind = "routine"}
  /\ c.odd \in BOOLEAN /\ c.migrated \in BOOLEAN

\* PUBLIC's EXECUTE on new routines is built in, until it is revoked for the creator.
RoutineDefaults(c) ==
  {Default(r, "*", "routine", "PUBLIC") : r \in Roles \ c.revoked}

(***************************************************************************)
(* Roles.                                                                     *)
(***************************************************************************)
\* The roles reached from r over the memberships E (bound: paths of four).
Reached(r, E) ==
  LET step(S) == S \cup {e.role : e \in {x \in E : x.member \in S}}
  IN step(step(step(step({r}))))

\* The owner of a database is a member of pg_database_owner.
Memberships(c) ==
  c.members \cup {Edge(c.owner["db"], "database_owner", "control", FALSE, TRUE, TRUE)}

Super(c, r) == <<r, "super">> \in c.attrs

\* pg_has_role(r, x, 'USAGE') and (.., 'MEMBER'), and SET ROLE.
HasRole(c, r, x) == Super(c, r) \/ x \in Reached(r, {e \in Memberships(c) : e.inherit})
IsMember(c, r, x) == Super(c, r) \/ x \in Reached(r, Memberships(c))
MaySet(c, r, x) == Super(c, r) \/ x \in Reached(r, {e \in Memberships(c) : e.set})

(***************************************************************************)
(* Privileges.                                                                *)
(***************************************************************************)
Owns(c, r, t) == HasRole(c, r, c.owner[t])

\* has_database_privilege, has_schema_privilege, has_table_privilege
Has(c, r, t, p) ==
  \/ Super(c, r)
  \/ Owns(c, r, t)
  \/ \E g \in c.acl : g.on = t /\ g.priv = p /\ (g.to = "PUBLIC" \/ HasRole(c, r, g.to))

\* What a session acting as r can use: an object of a schema it may look into,
\* by a privilege on the object, on one of its columns, or built in.
Usable(c, r) ==
  {u \in c.exist \X AllPrivileges :
     LET n == u[1]
         p == u[2]
     IN /\ p \in PrivilegesOn(n)
        /\ Objects[n].kind # "type"
        /\ Has(c, r, Objects[n].schema, "USAGE")
        /\ \/ Has(c, r, n, p)
           \/ \E x \in c.columns : x[1] = n /\ (x[2] = "PUBLIC" \/ HasRole(c, r, x[2]))
           \/ n \in c.builtin}

\* What it can make or change: an object in a schema, a schema, and what it owns.
Creates(c, r) == {t \in Schemas \cup {"db"} : Has(c, r, t, "CREATE")}
Owned(c, r) ==
  {t \in c.exist \cup Schemas \cup {"db"} :
     (t \in Names => Objects[t].kind # "type") /\ Owns(c, r, t)}

\* A new object gets its creator's defaults, for its schema and for all.
DefaultAcl(c, creator, n) ==
  {d \in c.defaults \cup RoutineDefaults(c) :
     /\ d.creator = creator
     /\ d.schema \in {"*", Objects[n].schema}
     /\ d.kind = Objects[n].kind}

Created(c, creator, made) ==
  [c EXCEPT !.exist = @ \cup made,
            !.owner = [t \in Things |-> IF t \in made THEN creator ELSE @[t]],
            !.acl = @ \cup UNION {{Grant(n, d.to, p, FALSE, creator) :
                                    d \in DefaultAcl(c, creator, n), p \in PrivilegesOn(n)} :
                                  n \in made}]
=============================================================================
