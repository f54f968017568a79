--------------------------- MODULE MCDurablePlan ---------------------------
(***************************************************************************)
(* DurablePlan for TLC: five databases, every plan of one or two operations  *)
(* on the relation, one or two on the default privileges, and some others.    *)
(***************************************************************************)
EXTENDS DurablePlan

OwnersAll(t) == {Entry("migrator", "migrator", p, FALSE) : p \in PrivilegesOn[t]}
RuntimeReads == Entry("migrator", "runtime", "SELECT", FALSE)
AppReads(opt) == Entry("migrator", "app", "SELECT", opt)

Aligned ==
  [owner |-> [t \in Things |-> "migrator"],
   acl |-> [users |-> OwnersAll("users") \cup {RuntimeReads}, status |-> {}, defaults |-> {}],
   null |-> {"status"}, ledger |-> <<"crlf", "lf">>, strays |-> FALSE,
   active |-> FALSE, edge |-> FALSE, bound |-> TRUE]

\* app reads users, and grants it on; two of the migrator's defaults are written.
AppGrantsOn ==
  [Aligned EXCEPT !.acl["users"] = @ \cup {AppReads(TRUE)},
                  !.acl["defaults"] = OwnersAll("defaults") \cup {AppReads(FALSE)}]
AppGranted == [AppGrantsOn EXCEPT !.acl["users"] = @ \cup {Entry("app", "control", "SELECT", FALSE)},
                                  !.acl["defaults"] = {AppReads(FALSE)}]
ControlOwns == [Aligned EXCEPT !.owner["users"] = "control",
                  !.acl["users"] = {Entry("control", "control", "SELECT", FALSE),
                                    Entry("control", "runtime", "SELECT", FALSE)}]
Behind == [Aligned EXCEPT !.ledger = <<"lf">>]

MCCatalogues == {Aligned, AppGrantsOn, AppGranted, ControlOwns, Behind}

Option(c, t, to, p) == \E e \in c.acl[t] : e.to = to /\ e.priv = p /\ e.opt

\* previous_grant_option is what the database has, or would have after the first.
OnRelation(had) ==
  {Grants("users", r, "SELECT", g, had) : r \in {"app", "PUBLIC", "control"}, g \in BOOLEAN}
  \cup {Revokes("users", r, "SELECT", had) : r \in {"app", "control", "runtime", "migrator"}}
OnDefaults(had) ==
  {Grants("defaults", "app", "SELECT", g, had) : g \in BOOLEAN}
  \cup {Revokes("defaults", r, "SELECT", had) : r \in {"app", "migrator"}}
  \cup {Grants("defaults", "control", "SELECT", FALSE, had)}
OnType == {Grants("status", "app", "USAGE", FALSE, FALSE), Revokes("status", "PUBLIC", "USAGE", FALSE)}
Owners == {SetsOwner("users", "migrator", "control"), SetsOwner("users", "control", "migrator"),
           SetsOwner("status", "migrator", "app")}

Fitting(c, ops) ==
  LET had(op) == IF op.kind = "ownership" THEN TRUE ELSE op.had = Option(c, op.on, op.to, op.priv)
  IN {<<op>> : op \in {o \in ops : had(o)}}
     \cup {<<a, b>> : a \in {o \in ops : had(o)}, b \in ops}

MCPlansFor(c) ==
  [user : {"migrator", "control", "app"}, capability : {"none", "bound"},
   ops : Fitting(c, UNION {OnRelation(h) : h \in BOOLEAN})
         \cup Fitting(c, UNION {OnDefaults(h) : h \in BOOLEAN})
         \cup {<<op>> : op \in OnType \cup Owners}]
  \cup [user : {"migrator"}, capability : {"other"}, ops : {<<op>> : op \in OnType}]

MCByHandOps == {Grants("users", "app", "UPDATE", FALSE, FALSE), Revokes("users", "app", "SELECT", FALSE),
                Grants("defaults", "control", "SELECT", FALSE, FALSE)}
=============================================================================
