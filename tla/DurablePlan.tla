---------------------------- MODULE DurablePlan ----------------------------
(***************************************************************************)
(* What a durable plan does to the catalogue, statement by statement, and   *)
(* what executeDurablePlan (src/src/db/durable-operations.ts) believes it    *)
(* does: the ACLs it predicts, the inverse it freezes before the first       *)
(* statement, and the observation that tells done, undone and unknown apart.  *)
(* DurableOperation has the call's transactions, locks and receipts; here a   *)
(* right has a grantor and a grant option, an ACL may be NULL, and the         *)
(* statements are PostgreSQL's.  scripts/db-migrate.mjs and                    *)
(* scripts/platform-db-operation.mjs work on the same database.                *)
(***************************************************************************)
EXTENDS Naturals, SequencesExt

CONSTANTS
  Catalogues,   \* the databases a plan may be made for
  PlansFor(_),  \* the calls that may be made for one of them
  ByHandOps,    \* what an operator may type meanwhile, as cloud_admin
  Elsewhere,    \* what else may happen to the database: see ByHand
  Journal,      \* number of migrations the checkout has
  Historical,   \* those applied once from a file with CRLF line ends
  MaxDrift      \* bound: the operator's statements

ASSUME JournalAssumption == Journal \in Nat /\ Historical \subseteq 1..Journal
ASSUME DriftAssumption == MaxDrift \in Nat
ASSUME ElsewhereAssumption == Elsewhere \subseteq {"object", "activation", "membership", "failover"}

\* APPROVED_ROLE_NAMES; control is cloud_admin, a superuser.
Roles == {"migrator", "control", "app", "runtime"}

\* A relation, an enum type, and the migrator's default privileges on tables in
\* public: a row of pg_default_acl, which is there while it has entries.
Things == {"users", "status", "defaults"}
PrivilegesOn == [users |-> {"SELECT", "UPDATE"}, status |-> {"USAGE"}, defaults |-> {"SELECT"}]

\* AclAuthorityEntryV1: grantor, grantee, privilege, grant_option.
Entry(by, to, p, opt) == [by |-> by, to |-> to, priv |-> p, opt |-> opt]
Entries(t) == {Entry(b, r, p, g) : b \in Roles, r \in Roles \cup {"PUBLIC"}, p \in PrivilegesOn[t],
                                   g \in BOOLEAN}
AllEntries == UNION {Entries(t) : t \in Things}

IsCatalogue(c) ==
  /\ c \in [owner : [Things -> Roles], acl : [Things -> SUBSET AllEntries],
            null : SUBSET {"status"}, ledger : Seq({"lf", "crlf", "other"}),
            strays : BOOLEAN,      \* there is an object the repository does not know
            active : BOOLEAN,      \* platform_runtime may log in or has a membership
            edge : BOOLEAN,        \* platform_app is a member of platform_migrator
            bound : BOOLEAN]       \* the connection leads to the database of the binding
  /\ c.owner["defaults"] = "migrator"
  /\ \A t \in Things : c.acl[t] \subseteq Entries(t)
  /\ \A t \in c.null : c.acl[t] = {}
  /\ Len(c.ledger) <= Journal + 1

\* PostgreSQL keeps this of its lists: who grants is the owner or was granted the
\* option, and PUBLIC never has it.
WellGranted(c) ==
  \A t \in Things : \A e \in c.acl[t] :
    /\ e.opt => e.to # "PUBLIC"
    /\ e.by = c.owner[t] \/ \E x \in c.acl[t] : x.to = e.by /\ x.priv = e.priv /\ x.opt

ASSUME CataloguesAssumption == \A c \in Catalogues : IsCatalogue(c) /\ WellGranted(c)

\* PrivilegeOperationV1 and DefaultAclOperationV1; had is previous_grant_option,
\* only is revoke_grant_option_only, which inverses have.
Grants(t, to, p, opt, had) ==
  [kind |-> IF t = "defaults" THEN "default_acl" ELSE "privilege", on |-> t, grant |-> TRUE,
   to |-> to, priv |-> p, opt |-> opt, had |-> had, only |-> FALSE]
Revokes(t, to, p, had) == [Grants(t, to, p, FALSE, had) EXCEPT !.grant = FALSE]
\* OwnershipOperationV1.
SetsOwner(t, from, to) == [kind |-> "ownership", on |-> t, from |-> from, to |-> to]

\* DurableOperationV1, as far as a plan or an inverse may have it.
AclOperations(t) ==
  [kind : {IF t = "defaults" THEN "default_acl" ELSE "privilege"}, on : {t}, grant : BOOLEAN,
   to : Roles \cup {"PUBLIC"}, priv : PrivilegesOn[t], opt : BOOLEAN, had : BOOLEAN, only : BOOLEAN]
OwnerOperations == [kind : {"ownership"}, on : Things \ {"defaults"}, from : Roles, to : Roles]
Operations == (UNION {AclOperations(t) : t \in Things}) \cup OwnerOperations
IsPlanned(op) == op \in Operations /\ (op.kind # "ownership" => ~op.only)

ASSUME PlansAssumption ==
  \A c \in Catalogues : \A p \in PlansFor(c) :
    /\ p \in [user : Roles, capability : {"none", "bound", "other"}, ops : Seq(Operations)]
    /\ \A i \in DOMAIN p.ops : IsPlanned(p.ops[i])
ASSUME ByHandAssumption == ByHandOps \subseteq Operations

VARIABLES
  cat,         \* the catalogue: what is committed
  call,        \* the call: its user, its operations and its restore capability
  pre,         \* the prestate the plan was made from
  inverse,     \* the frozen inverse
  stage,       \* where the call is
  answer,      \* what it ended with
  command,     \* what scripts/platform-db-operation.mjs ended with
  drifts,      \* history: the operator's statements
  disturbed    \* history: somebody changed the catalogue while the call ran

planVars == <<cat, call, pre, inverse, stage, answer, command, drifts, disturbed>>

-----------------------------------------------------------------------------
(* PostgreSQL *)

Owns(c, u, t) == u = "control" \/ u = c.owner[t]

\* acldefault
BuiltIn(c, t) ==
  {Entry(c.owner[t], c.owner[t], p, FALSE) : p \in PrivilegesOn[t]}
  \cup {Entry(c.owner[t], "PUBLIC", p, FALSE) : p \in PrivilegesOn[t] \cap {"USAGE"}}
Acl(c, t) == IF t \in c.null THEN BuiltIn(c, t) ELSE c.acl[t]

\* The owner grants, also for a superuser; anybody else by a grant option of his.
Grantor(c, u, t) == IF Owns(c, u, t) THEN c.owner[t] ELSE u
HasOption(c, u, op) ==
  Owns(c, u, op.on) \/ \E e \in Acl(c, op.on) : e.to = u /\ e.priv = op.priv /\ e.opt

\* Without any privilege on the object it is an error; with one that cannot be
\* granted on, a warning.
Denied(c, u, op) ==
  /\ ~Owns(c, u, op.on)
  /\ op.kind = "default_acl" \/ ~\E e \in Acl(c, op.on) : e.to \in {u, "PUBLIC"}

Same(op, by) == {Entry(by, op.to, op.priv, g) : g \in BOOLEAN}
Optional(acl, by, op) == Entry(by, op.to, op.priv, TRUE) \in acl

Granted(acl, by, op) ==
  (acl \ Same(op, by)) \cup {Entry(by, op.to, op.priv, op.opt \/ Optional(acl, by, op))}

Revoked(acl, by, op) ==
  (acl \ Same(op, by))
  \cup IF op.only /\ acl \cap Same(op, by) # {} THEN {Entry(by, op.to, op.priv, FALSE)} ELSE {}

\* RESTRICT: what the grantee granted on stands in the way of taking his last option.
Dependents(c, by, op) ==
  LET left == Revoked(Acl(c, op.on), by, op)
  IN /\ op.to # c.owner[op.on] /\ Optional(Acl(c, op.on), by, op)
     /\ ~\E e \in left : e.to = op.to /\ e.priv = op.priv /\ e.opt
     /\ \E e \in left : e.by = op.to /\ e.priv = op.priv

\* ALTER .. OWNER TO: what the old owner granted and was granted is now the new one's.
Renamed(acl, from, to) ==
  LET name(r) == IF r = from THEN to ELSE r
      all == {Entry(name(e.by), name(e.to), e.priv, e.opt) : e \in acl}
  IN {e \in all : e.opt \/ ~([e EXCEPT !.opt = TRUE] \in all)}

Fails(c, u, op) ==
  IF op.kind = "ownership" THEN u # "control" /\ op.to # c.owner[op.on]
  ELSE \/ Denied(c, u, op)
       \/ op.grant /\ op.opt /\ op.to = "PUBLIC"
       \/ ~op.grant /\ HasOption(c, u, op) /\ Dependents(c, Grantor(c, u, op.on), op)

\* A GRANT or REVOKE writes the ACL out even if it changes nothing in it.
Effect(c, u, op) ==
  IF op.kind = "ownership"
  THEN [c EXCEPT !.owner[op.on] = op.to, !.acl[op.on] = Renamed(@, c.owner[op.on], op.to)]
  ELSE LET by == Grantor(c, u, op.on)
           acl == Acl(c, op.on)
       IN [c EXCEPT !.null = @ \ {op.on},
                    !.acl[op.on] = IF ~HasOption(c, u, op) THEN acl
                                   ELSE IF op.grant THEN Granted(acl, by, op)
                                   ELSE Revoked(acl, by, op)]

Statement(s, u, op) ==
  IF s.ok /\ ~Fails(s.cat, u, op) THEN [s EXCEPT !.cat = Effect(@, u, op)] ELSE [s EXCEPT !.ok = FALSE]

\* operationSql, one statement after the other, in one transaction: what there is after
\* the first i of them, and after all.
Applied(c, u, ops) ==
  LET after[i \in 0..Len(ops)] ==
        IF i = 0 THEN [ok |-> TRUE, cat |-> c] ELSE Statement(after[i - 1], u, ops[i])
  IN after
Apply(c, u, ops) == Applied(c, u, ops)[Len(ops)]

-----------------------------------------------------------------------------
(* What is observed of it *)

\* beginReadOnlyObservation: cluster, database, users and version are the binding's.
TargetBound(c) == c.bound

\* assertFixedRolePosture: the runtime cannot log in, has no membership, owns nothing.
RolesFixed(c) == ~c.active /\ c.owner["users"] # "runtime" /\ c.owner["status"] # "runtime"

\* classifyUnknownDrift
NoStrays(c) == ~c.strays

\* loadCanonicalMigrationJournal: the hash of the file, or the one it had with CRLF.
KnownHash(hash, i) == hash = "lf" \/ (hash = "crlf" /\ i \in Historical)

\* assertAppliedPrefix
AppliedPrefix(ledger) ==
  Len(ledger) <= Journal /\ \A i \in DOMAIN ledger : KnownHash(ledger[i], i)

\* RUNTIME_GRANT_STATE_SQL and assertRuntimeTableGrantSet: the runtime's table
\* grants are those of the contract, each granted once.
RuntimeGrants(c) == {e \in c.acl["users"] : e.to = "runtime"}
ContractHeld(c) ==
  \E e \in RuntimeGrants(c) : RuntimeGrants(c) = {e} /\ e.priv = "SELECT" /\ ~e.opt

\* normalizeObservedPrestate throws on anything else.
Observable(c) ==
  TargetBound(c) /\ AppliedPrefix(c.ledger) /\ ContractHeld(c) /\ NoStrays(c) /\ RolesFixed(c)

\* The sections of the prestate that differ between catalogues that can be observed.
\* They hold the rows of the catalogues, so that an ACL that is NULL and one that
\* is written out differ even if they grant the same.
Ownership(c) == c.owner
Privileges(c) == [t \in Things \ {"defaults"} |-> [null |-> t \in c.null, entries |-> c.acl[t]]]
DefaultAcls(c) == c.acl["defaults"]
Memberships(c) == c.edge
MigrationJournal(c) == c.ledger

\* normalizePrestate
Prestate(c) ==
  [ownership |-> Ownership(c), privileges |-> Privileges(c), default_acls |-> DefaultAcls(c),
   memberships |-> Memberships(c), migration_journal |-> MigrationJournal(c)]

\* canonicalReadinessPass; the checks are those of DatabasePosture.
Ready(c) ==
  /\ c.owner["users"] = "migrator" /\ c.owner["status"] = "migrator"
  /\ ~\E e \in c.acl["users"] : e.to = "PUBLIC" \/ (e.to = "migrator" /\ e.opt)
  /\ ~\E e \in c.acl["defaults"] : e.to \in {"PUBLIC", "runtime"} \/ e.opt
  /\ ~c.edge
  /\ Len(c.ledger) = Journal

\* authorityForOperation
Authority(c, op) ==
  IF op.kind = "ownership" THEN [owner |-> c.owner[op.on]]
  ELSE [null |-> op.on \in c.null, entries |-> c.acl[op.on]]

-----------------------------------------------------------------------------
(* The inverse *)

\* targetAclEntry; more than one of them fails.
Matching(acl, op) == {e \in acl : e.to = op.to /\ e.priv = op.priv}
Previous(acl, op) == CHOOSE e \in Matching(acl, op) : TRUE

\* Fits: the transition does not fail with PRESTATE_MISMATCH.
Fits(m, op) ==
  IF op.kind = "ownership" THEN op.from = m.owner[op.on]
  ELSE LET same == Matching(m.acl[op.on], op)
       IN \A e \in same : same = {e} /\ op.had = e.opt
          /\ (same = {} => ~op.had)

\* The entries after the operation: a new one is taken to be current_user's.
Entered(acl, u, op) ==
  LET same == Matching(acl, op)
  IN CASE ~op.grant -> acl \ same
       [] op.grant /\ same = {} -> acl \cup {Entry(u, op.to, op.priv, op.opt)}
       [] op.grant /\ same # {} ->
            (acl \ same) \cup {[e EXCEPT !.opt = @ \/ op.opt] : e \in same}

\* privilegeTransition
PrivilegeSupported(m, u, op) ==
  LET before == m.acl[op.on]
      after == Entered(before, u, op)
  IN /\ before # after => op.on \notin m.null /\ before # {} /\ after # {}
     /\ \A e \in Matching(before, op) : e.by = u

\* defaultAclTransition
DefaultAclSupported(m, u, op) ==
  LET before == m.acl["defaults"]
      after == Entered(before, u, op)
  IN /\ before # after => before # {}
     /\ before # after /\ ~op.grant => ~\E e \in before : before = {e}
     /\ \A e \in Matching(before, op) : e.by = "migrator"

Supported(m, u, op) ==
  CASE op.kind = "ownership" -> TRUE
    [] op.kind = "privilege" -> PrivilegeSupported(m, u, op)
    [] op.kind = "default_acl" -> DefaultAclSupported(m, u, op)

\* MUTANT of Inverted: taking a grant option back takes the privilege.
WithoutOptionOnly(m, op) ==
  IF op.kind = "ownership" THEN SetsOwner(op.on, op.to, m.owner[op.on])
  ELSE LET same == Matching(m.acl[op.on], op)
           option == same # {} /\ Previous(same, op).opt
       IN [op EXCEPT !.grant = same # {} /\ ~(op.grant /\ ~option /\ op.opt), !.opt = option]

\* The inverse of one operation: what was there is granted again, what was not is
\* revoked, and an option that was added is all that is taken away.
Inverted(m, op) ==
  IF op.kind = "ownership" THEN SetsOwner(op.on, op.to, m.owner[op.on])
  ELSE LET same == Matching(m.acl[op.on], op)
           option == same # {} /\ Previous(same, op).opt
           upgrade == same # {} /\ op.grant /\ ~option /\ op.opt
       IN [op EXCEPT !.grant = same # {} /\ ~upgrade, !.opt = option, !.had = op.opt,
                     !.only = upgrade]

Predicted(m, u, op) ==
  IF op.kind = "ownership" THEN [m EXCEPT !.owner[op.on] = op.to]
  ELSE [m EXCEPT !.acl[op.on] = Entered(@, u, op)]

Transition(s, u, op) ==
  IF s.fits /\ Fits(s.model, op)
  THEN [fits |-> TRUE, supported |-> s.supported /\ Supported(s.model, u, op),
        model |-> Predicted(s.model, u, op), steps |-> Append(s.steps, Inverted(s.model, op))]
  ELSE [s EXCEPT !.fits = FALSE]

\* deriveInverseModel; the steps are in the order of the operations.
Deriving(p, u, ops) ==
  LET after[i \in 0..Len(ops)] ==
        IF i = 0 THEN [fits |-> TRUE, supported |-> TRUE, model |-> p, steps |-> <<>>]
        ELSE Transition(after[i - 1], u, ops[i])
  IN after
Derived(p, u, ops) == Deriving(p, u, ops)[Len(ops)]

NoInverse == [external |-> TRUE, expected |-> <<>>, steps |-> <<>>]

\* createDurableInverse; MUTANT of Frozen: the steps in the order of the operations.
Unreversed(d, ops) ==
  IF ~d.supported THEN NoInverse
  ELSE [external |-> FALSE, expected |-> [i \in DOMAIN ops |-> Authority(d.model, ops[i])],
        steps |-> d.steps]

Frozen(d, ops) ==
  IF ~d.supported THEN NoInverse
  ELSE [external |-> FALSE, expected |-> [i \in DOMAIN ops |-> Authority(d.model, ops[i])],
        steps |-> Reverse(d.steps)]

-----------------------------------------------------------------------------
(* The call *)

Stages == {"planned", "committed", "rolled_back", "undo", "undone", "restore", "answered"}
Answers == {"none", "blocked", "passed", "restored", "unrestored", "ambiguous"}

PlanTypeOK ==
  /\ IsCatalogue(cat) /\ IsCatalogue(pre)
  /\ call.user \in Roles /\ call.capability \in {"none", "bound", "other"}
  /\ inverse.external \in BOOLEAN /\ (inverse.external => inverse.steps = <<>>)
  /\ stage \in Stages /\ answer \in Answers /\ (answer # "none" <=> stage = "answered")
  /\ command \in {"none", "passed", "blocked", "failed"}
  /\ drifts \in 0..MaxDrift /\ disturbed \in BOOLEAN

\* captureNormalizedPrestate: a plan is made only for what can be observed.
PlanInit ==
  /\ cat \in {c \in Catalogues : Observable(c)}
  /\ call \in PlansFor(cat)
  /\ pre = cat /\ inverse = NoInverse
  /\ stage = "planned" /\ answer = "none" /\ command = "none"
  /\ drifts = 0 /\ disturbed = FALSE

Ends(a) == stage' = "answered" /\ answer' = a
GoesTo(s) == stage' = s /\ UNCHANGED answer
Keeps == UNCHANGED <<call, pre, command, drifts, disturbed>>

\* requireRestoreCapability: one of another plan is refused, needed or not.
Capable == call.capability = "bound"

\* Admission: the prestate is as planned, the inverse can be derived, and what has
\* none has a capability.
Admitted ==
  LET d == Derived(pre, call.user, call.ops)
  IN /\ call.capability # "other"
     /\ Observable(cat) /\ Prestate(cat) = Prestate(pre)
     /\ d.fits /\ (d.supported \/ Capable)

Refuse ==
  /\ stage = "planned" /\ ~Admitted
  /\ Ends("blocked") /\ UNCHANGED <<cat, inverse>> /\ Keeps

\* One transaction: a statement that fails rolls all of them back.
Execute ==
  /\ stage = "planned" /\ Admitted
  /\ inverse' = Frozen(Derived(pre, call.user, call.ops), call.ops)
  /\ LET s == Apply(cat, call.user, call.ops)
     IN IF s.ok THEN cat' = s.cat /\ GoesTo("committed")
        ELSE UNCHANGED cat /\ GoesTo("rolled_back")
  /\ Keeps

\* verifyRestoration; it fails with what cannot be observed.
Restoration(c) ==
  IF ~Observable(c) THEN "AMBIGUOUS" ELSE IF Prestate(c) = Prestate(pre) /\ Ready(c) THEN "VERIFIED" ELSE "FAILED"

\* What is left when the repository's own means are: the capability, if there is one.
Settle(r) ==
  CASE r = "VERIFIED" -> Ends("restored")
    [] r # "VERIFIED" /\ Capable -> GoesTo("restore")
    [] r = "FAILED" /\ ~Capable -> Ends("unrestored")
    [] r = "AMBIGUOUS" /\ ~Capable -> Ends("ambiguous")

Recover ==
  IF Restoration(cat) = "FAILED" /\ ~inverse.external THEN GoesTo("undo") ELSE Settle(Restoration(cat))

\* assertFinalRolePosture; nothing else is compared with what the plan meant to do.
RolesAsPlanned(c) == RolesFixed(c) /\ c.edge = pre.edge

\* The final observation may fail for a reason of its own.
FinalVerify ==
  /\ stage = "committed"
  /\ \/ Observable(cat) /\ RolesAsPlanned(cat) /\ Ready(cat) /\ Ends("passed")
     \/ Recover
  /\ UNCHANGED <<cat, inverse>> /\ Keeps

AfterRollback ==
  /\ stage = "rolled_back" /\ Recover
  /\ UNCHANGED <<cat, inverse>> /\ Keeps

\* executeFrozenInverse: only where every authority the plan touched is as predicted.
StillPredicted ==
  /\ Observable(cat)
  /\ \A i \in DOMAIN call.ops : Authority(cat, call.ops[i]) = inverse.expected[i]

Undo ==
  /\ stage = "undo"
  /\ LET s == Apply(cat, call.user, inverse.steps)
     IN IF StillPredicted /\ s.ok THEN cat' = s.cat /\ GoesTo("undone")
        ELSE UNCHANGED cat /\ Settle("FAILED")
  /\ UNCHANGED inverse /\ Keeps

\* Its own verification throws unless it is VERIFIED, and the caller takes that as FAILED.
VerifyUndo ==
  /\ stage = "undone"
  /\ Settle(IF Restoration(cat) = "VERIFIED" THEN "VERIFIED" ELSE "FAILED")
  /\ UNCHANGED <<cat, inverse>> /\ Keeps

\* executeRestoreCapability and the verification after it.
ExternalRestore ==
  /\ stage = "restore"
  /\ \/ /\ cat' = pre
        /\ Ends(IF Restoration(pre) = "VERIFIED" THEN "restored" ELSE "unrestored")
     \/ UNCHANGED cat /\ Ends("ambiguous")
  /\ UNCHANGED inverse /\ Keeps

-----------------------------------------------------------------------------
(* The others *)

Changes(c) ==
  /\ cat' = c /\ disturbed' = (disturbed \/ (stage \notin {"planned", "answered"} /\ c # cat))
  /\ UNCHANGED <<call, pre, inverse, stage, answer>>

\* An object nobody knows, the runtime's role brought into service, a membership,
\* a connection that leads to a copy of the database.
Otherwise(e) ==
  CASE e = "object" -> [cat EXCEPT !.strays = TRUE]
    [] e = "activation" -> [cat EXCEPT !.active = TRUE]
    [] e = "membership" -> [cat EXCEPT !.edge = TRUE]
    [] e = "failover" -> [cat EXCEPT !.bound = FALSE]

\* An operator at psql, or one of those.
ByHand ==
  /\ drifts < MaxDrift /\ stage # "answered"
  /\ drifts' = drifts + 1 /\ UNCHANGED command
  /\ \/ \E op \in ByHandOps : LET s == Statement([ok |-> TRUE, cat |-> cat], "control", op)
                              IN s.ok /\ s.cat # cat /\ Changes(s.cat)
     \/ \E e \in Elsewhere : Changes(Otherwise(e))

\* runCanonicalMigrationPrimitive: what is applied must be a prefix, and what is
\* pending is applied in one transaction.
Pending(c) == [i \in 1..(Journal - Len(c.ledger)) |-> "lf"]
Migrated(c) == IF AppliedPrefix(c.ledger) THEN [c EXCEPT !.ledger = @ \o Pending(c)] ELSE c

\* scripts/db-migrate.mjs
MigrateDatabase ==
  /\ stage # "answered"
  /\ Migrated(cat) # cat /\ Changes(Migrated(cat))
  /\ UNCHANGED <<command, drifts>>

\* scripts/platform-db-operation.mjs: a plan of the pending migrations, without a
\* capability, so that it never has anything to apply.
OperatorCommand ==
  /\ command = "none" /\ stage # "answered"
  /\ command' = CASE ~Observable(cat) -> "failed"
                  [] Observable(cat) /\ (Pending(cat) # <<>> \/ ~Ready(cat)) -> "blocked"
                  [] Observable(cat) /\ Pending(cat) = <<>> /\ Ready(cat) -> "passed"
  /\ UNCHANGED <<cat, call, pre, inverse, stage, answer, drifts, disturbed>>

Call == Refuse \/ Execute \/ FinalVerify \/ AfterRollback \/ Undo \/ VerifyUndo \/ ExternalRestore
PlanNext == Call \/ ByHand \/ MigrateDatabase \/ OperatorCommand
PlanSpec == PlanInit /\ [][PlanNext]_planVars

-----------------------------------------------------------------------------
(* Properties *)

\* What an operation says of its grantee, whoever the grantor is.
Holds(c, op) ==
  IF op.kind = "ownership" THEN c.owner[op.on] = op.to
  ELSE LET same == Matching(Acl(c, op.on), op)
       IN IF op.grant THEN same # {} /\ (op.opt => \E e \in same : e.opt) ELSE same = {}

LastOn(ops, i) ==
  ~\E j \in DOMAIN ops : j > i /\ ops[j].on = ops[i].on /\ ops[j].kind = ops[i].kind
       /\ (ops[i].kind = "ownership" \/ (ops[j].to = ops[i].to /\ ops[j].priv = ops[i].priv))

\* The plans whose inverse is promised to work: run by the owner of what it changes,
\* with an inverse of its own, and nothing it names is still at its default.
Invertible ==
  LET d == Derived(pre, call.user, call.ops)
  IN /\ d.fits /\ d.supported /\ Ready(pre)
     /\ \A i \in DOMAIN call.ops :
          LET op == call.ops[i]
          IN /\ op.kind # "ownership"
             /\ call.user = pre.owner[op.on] /\ op.on \notin pre.null

\* Such a plan, left alone, is done as it says or undone without a trace, by its own
\* inverse; or it has broken the runtime's contract, and then nobody knows.  And
\* whatever the plan, a call that says it is restored has left what it found.
\* (deriveInverseModel and executeFrozenInverse.)
DoneOrUndone ==
  stage = "answered" /\ ~disturbed =>
    /\ answer = "restored" => Prestate(cat) = Prestate(pre)
    /\ Invertible =>
         CASE answer = "passed" -> \A i \in DOMAIN call.ops : LastOn(call.ops, i) => Holds(cat, call.ops[i])
           [] answer = "ambiguous" -> ~Observable(cat)
           [] OTHER -> answer \in {"blocked", "restored"}

\* What is true of a call and of what it leaves.
PlanInvariant == PlanTypeOK /\ DoneOrUndone

\* The call is the owner of the lists it touched, none of which was at its default or
\* has another owner by the plan.  What a superuser grants is the owner's otherwise.
RunsAsOwner ==
  \A i \in DOMAIN call.ops : call.ops[i].kind # "ownership" =>
    /\ call.user = cat.owner[call.ops[i].on] /\ call.ops[i].on \notin pre.null
    /\ ~\E j \in DOMAIN call.ops : call.ops[j].kind = "ownership" /\ call.ops[j].on = call.ops[i].on

\* Whatever was changed by hand meanwhile: where the inverse finds what it expects and the
\* owner's steps commit, every authority the plan touched is again what the prestate
\* had.  (post_forward_authority and the inverse's steps.)
CheckedInverseRestores ==
  [][stage = "undo" /\ stage' = "undone" /\ RunsAsOwner =>
       \A i \in DOMAIN call.ops : Authority(cat', call.ops[i]) = Authority(pre, call.ops[i])]_planVars
=============================================================================
