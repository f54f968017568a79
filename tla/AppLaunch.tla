----------------------------- MODULE AppLaunch -----------------------------
(***************************************************************************)
(* Launching an app from a platform session: the one-time launch token     *)
(* (platform/app-launch-intent-service.ts, app-launch-token-consume-       *)
(* service.ts), the validation grant and its one-time finalization handle  *)
(* (access-validation-grant-service.ts), and the access decision each of   *)
(* them takes (protected-app-access-service.ts, app-access-service.ts,     *)
(* access/decide-app-access.ts).                                           *)
(*                                                                         *)
(* None of this runs in a transaction.  A request captures `now` when it   *)
(* begins, then reads one row at a time, each at its own instant, and only *)
(* then writes; what it has read may have changed since.  Its writes are   *)
(* single guarded UPDATEs.  A request may stop at any await: an error of a *)
(* read or a write ends it and undoes nothing.                             *)
(*                                                                         *)
(* One user, session, workspace and app are modelled: their rows are the   *)
(* `world`, which admins, the user and the operator change meanwhile.      *)
(***************************************************************************)
EXTENDS Naturals, FiniteSets

CONSTANTS
  Slots,          \* requests the platform serves at the same time
  Tokens,         \* launch token ids
  Grants,         \* validation grant ids
  Handles,        \* finalization handles
  None,           \* no token, grant or handle
  TokenLife,      \* ttlSeconds of a launch token
  HandleLife,     \* the longest life a handle may be registered for
  SessionExpiry,  \* when the session expires
  Entitlements,   \* the statuses the app's entitlement may start with
  MaxClock,       \* bound: the last instant
  MaxChanges      \* bound: changes made to the world

ASSUME NoneAssumption == None \notin Tokens \cup Grants \cup Handles
ASSUME TimesAssumption ==
  /\ TokenLife \in Nat \ {0} /\ HandleLife \in Nat /\ SessionExpiry \in Nat
  /\ MaxClock \in Nat /\ MaxChanges \in Nat

VARIABLES
  world,    \* world[f]: the row fact f is about
  clock,
  tokens,   \* tokens[t]: the launch token row, or NoToken
  grants,   \* grants[g]: the validation grant row, or NoGrant
  slot,     \* slot[x]: the request x serves, or Idle
  held,     \* history: held[x]: the facts that have held at some instant of x's request
  opened,   \* history: opened[g]: finalizations of g answered with a context
  answered, \* history: answered[t]: consumptions of t answered with a context
  changes

vars == <<world, clock, tokens, grants, slot, held, opened, answered, changes>>

-----------------------------------------------------------------------------
(* The access decision *)

Rows == {"session", "user", "workspace", "membership", "app", "entitlement"}

\* What a row may say.  A membership is told by its role when it is active.
Values(f) ==
  CASE f = "session" -> {"open", "revoked"}
    [] f = "user" -> {"active", "inactive"}
    [] f = "workspace" -> {"active", "suspended"}
    [] f = "membership" -> {"admin", "operator", "viewer", "disabled", "none"}
    [] f = "app" -> {"available", "private_preview", "disabled"}
    [] f = "entitlement" -> {"none", "enabled", "trial", "disabled", "suspended"}

ASSUME EntitlementsAssumption == Entitlements \subseteq Values("entitlement")

\* decideAppAccess: what each row must say for the launch to be allowed.
Allows(f) ==
  CASE f = "session" -> {"open"}
    [] f = "user" -> {"active"}
    [] f = "workspace" -> {"active"}
    [] f = "membership" -> {"admin", "operator"}
    [] f = "app" -> {"available", "private_preview"}
    [] f = "entitlement" -> {"enabled", "trial"}

\* decideProtectedAppAccess as its reads, <<stage, row>>: the session, the session
\* again and its user in decidePlatformAppAccess, three rows at once, then the
\* entitlement.
Decision ==
  {<<2, "session">>, <<3, "session">>, <<4, "user">>, <<5, "workspace">>,
   <<5, "membership">>, <<5, "app">>, <<6, "entitlement">>}

\* MUTANT of PlanOf: a finalized grant is believed without a new decision.
CachedPlan(kind) ==
  CASE kind = "issue" -> Decision
    [] kind = "consume" -> {<<0, "token">>, <<1, "session">>, <<7, "member">>} \cup Decision
    [] kind = "finalize" -> {<<0, "grant">>, <<7, "membership">>} \cup Decision
    [] kind = "validate" -> {<<0, "grant">>, <<1, "session">>, <<7, "membership">>}

\* The reads of each request.  The context reads that only ask whether a row of
\* users, workspaces or apps exists are left out: these rows are never deleted.
PlanOf(kind) ==
  CASE kind = "issue" -> Decision
    [] kind = "consume" -> {<<0, "token">>, <<1, "session">>, <<7, "member">>} \cup Decision
    [] kind = "finalize" -> {<<0, "grant">>, <<7, "membership">>} \cup Decision
    [] kind = "validate" -> {<<0, "grant">>, <<7, "membership">>} \cup Decision

\* What a request's answer depends on.
Needs(kind) ==
  CASE kind = "issue" -> Rows
    [] kind = "consume" -> Rows \cup {"token"}
    [] OTHER -> Rows \cup {"grant"}

-----------------------------------------------------------------------------
(* Rows and requests *)

NoToken == [expiresAt |-> 0, consumed |-> FALSE]
Token == [expiresAt : 1..(MaxClock + TokenLife), consumed : BOOLEAN]

GrantFor(t, created, expires) ==
  [token |-> t, launchExpiresAt |-> expires, createdAt |-> created, handle |-> None,
   handleExpiresAt |-> 0, consumed |-> FALSE, revoked |-> FALSE]
NoGrant == GrantFor(None, 0, 0)
Grant == [token : Tokens, launchExpiresAt : 1..(MaxClock + TokenLife), createdAt : 0..MaxClock,
          handle : Handles \cup {None}, handleExpiresAt : 0..(MaxClock + TokenLife),
          consumed : BOOLEAN, revoked : BOOLEAN]

Idle == [kind |-> "none", step |-> "none", on |-> None, now |-> 0, todo |-> {}]
Request ==
  [kind : {"issue", "consume", "finalize", "validate"},
   step : {"handle", "read", "grant"},
   on : Tokens \cup Grants \cup Handles \cup {None},
   now : 0..MaxClock,
   todo : SUBSET ((0..7) \X (Rows \cup {"token", "grant", "member"}))]

TypeOK ==
  /\ world \in [Rows -> UNION {Values(f) : f \in Rows}]
  /\ \A f \in Rows : world[f] \in Values(f)
  /\ clock \in 0..MaxClock
  /\ tokens \in [Tokens -> Token \cup {NoToken}]
  /\ grants \in [Grants -> Grant \cup {NoGrant}]
  /\ slot \in [Slots -> Request \cup {Idle}]
  /\ held \in [Slots -> SUBSET (Rows \cup {"token", "grant", "member"})]
  /\ opened \in [Grants -> Nat]
  /\ answered \in [Tokens -> Nat]
  /\ changes \in 0..MaxChanges

Init ==
  /\ world \in {[f \in Rows |-> CASE f = "session" -> "open"
                                  [] f = "membership" -> "operator"
                                  [] f = "app" -> "available"
                                  [] f = "entitlement" -> e
                                  [] OTHER -> "active"] : e \in Entitlements}
  /\ clock = 0
  /\ tokens = [t \in Tokens |-> NoToken]
  /\ grants = [g \in Grants |-> NoGrant]
  /\ slot = [x \in Slots |-> Idle]
  /\ held = [x \in Slots |-> {}]
  /\ opened = [g \in Grants |-> 0]
  /\ answered = [t \in Tokens |-> 0]
  /\ changes = 0

\* What request r finds when it reads f.
Holds(f, r) ==
  CASE f = "token" -> tokens[r.on] # NoToken /\ ~tokens[r.on].consumed
                        /\ r.now < tokens[r.on].expiresAt
    [] f = "grant" -> grants[r.on].consumed /\ ~grants[r.on].revoked
    [] f = "member" -> world["membership"] # "none"
    [] f = "session" -> world[f] \in Allows(f) /\ r.now < SessionExpiry
    [] OTHER -> world[f] \in Allows(f)

Facts(r) ==
  CASE r = Idle -> {}
    [] r.step = "handle" -> Rows
    [] OTHER -> Needs(r.kind)

\* The history every step keeps: what holds for a request as long as it runs.
Watch ==
  held' = [x \in Slots |->
             IF slot'[x] = Idle THEN {}
             ELSE held[x] \cup {f \in Facts(slot'[x]) : Holds(f, slot[x])'}]

-----------------------------------------------------------------------------
(* A request: begin, read, write *)

Begin(x, kind, on) ==
  /\ slot[x] = Idle
  /\ slot' = [slot EXCEPT ![x] =
       [kind |-> kind, step |-> IF kind = "finalize" THEN "handle" ELSE "read", on |-> on,
        now |-> clock, todo |-> PlanOf(kind)]]
  /\ UNCHANGED <<world, clock, tokens, grants, opened, answered, changes>>
  /\ Watch

BeginIssue(x) == Begin(x, "issue", None)
BeginConsume(x, t) == tokens[t] # NoToken /\ Begin(x, "consume", t)
BeginFinalize(x, h) == Begin(x, "finalize", h)
BeginValidate(x, g) == grants[g] # NoGrant /\ Begin(x, "validate", g)

End(x) == slot' = [slot EXCEPT ![x] = Idle]

\* One row is read; one that denies the request ends it, since nothing has been
\* written by then that the answer would undo.
ReadRow(x, f) ==
  /\ slot[x].step = "read"
  /\ \E i \in 0..7 :
       /\ <<i, f>> \in slot[x].todo
       /\ \A q \in slot[x].todo : i <= q[1]
       /\ IF Holds(f, slot[x])
          THEN slot' = [slot EXCEPT ![x].todo = @ \ {<<i, f>>}]
          ELSE End(x)
  /\ UNCHANGED <<world, clock, tokens, grants, opened, answered, changes>>
  /\ Watch

\* An error of a read or a write, the process's end, a client that went away.
Abandon(x) ==
  /\ slot[x] # Idle
  /\ End(x)
  /\ UNCHANGED <<world, clock, tokens, grants, opened, answered, changes>>
  /\ Watch

Decided(x, kind) == slot[x].kind = kind /\ slot[x].step = "read" /\ slot[x].todo = {}

\* createLaunchTokenRecordSafely.
IssueToken(x, t) ==
  /\ Decided(x, "issue")
  /\ tokens[t] = NoToken
  /\ tokens' = [tokens EXCEPT ![t] = [expiresAt |-> slot[x].now + TokenLife, consumed |-> FALSE]]
  /\ End(x)
  /\ UNCHANGED <<world, clock, grants, opened, answered, changes>>
  /\ Watch

\* MUTANT of ConsumeToken: the UPDATE is by id alone.
ConsumeTokenById(x) ==
  /\ Decided(x, "consume")
  /\ tokens' = [tokens EXCEPT ![slot[x].on].consumed = TRUE]
  /\ slot' = [slot EXCEPT ![x].step = "grant"]
  /\ UNCHANGED <<world, clock, grants, opened, answered, changes>>
  /\ Watch

\* appLaunchTokens.consumeUnconsumed; the grant is inserted by a later statement.
ConsumeToken(x) ==
  /\ Decided(x, "consume")
  /\ IF tokens[slot[x].on].consumed
     THEN End(x) /\ UNCHANGED tokens
     ELSE /\ tokens' = [tokens EXCEPT ![slot[x].on].consumed = TRUE]
          /\ slot' = [slot EXCEPT ![x].step = "grant"]
  /\ UNCHANGED <<world, clock, grants, opened, answered, changes>>
  /\ Watch

\* MUTANT of IssueAccessValidationGrant: the launch token's expiry is not handed on.
IssueGrantWithoutExpiry(x, g) ==
  /\ slot[x].step = "grant"
  /\ grants[g] = NoGrant
  /\ grants' = [grants EXCEPT ![g] = GrantFor(slot[x].on, slot[x].now, 0)]
  /\ answered' = [answered EXCEPT ![slot[x].on] = @ + 1]
  /\ End(x)
  /\ UNCHANGED <<world, clock, tokens, opened, changes>>
  /\ Watch

\* issueAccessValidationGrant, and the answer.
IssueAccessValidationGrant(x, g) ==
  /\ slot[x].step = "grant"
  /\ grants[g] = NoGrant
  /\ grants' = [grants EXCEPT ![g] =
                  GrantFor(slot[x].on, slot[x].now, tokens[slot[x].on].expiresAt)]
  /\ answered' = [answered EXCEPT ![slot[x].on] = @ + 1]
  /\ End(x)
  /\ UNCHANGED <<world, clock, tokens, opened, changes>>
  /\ Watch

\* MUTANT of Unspent: the row is found by its handle alone.
FoundByHandle(g, h) == grants[g].handle = h

Unspent(g, h) == grants[g].handle = h /\ ~grants[g].consumed /\ ~grants[g].revoked

\* MUTANT of MayRegister: the launch token bounds n, not e.
MayRegisterBeyond(g, e, n) ==
  /\ grants[g] # NoGrant /\ grants[g].createdAt <= n
  /\ n < e /\ e <= n + HandleLife
  /\ n < grants[g].launchExpiresAt

\* The guards of registerFinalizationHandle called at n for an expiry e.
MayRegister(g, e, n) ==
  /\ grants[g] # NoGrant /\ grants[g].createdAt <= n
  /\ n < e /\ e <= n + HandleLife
  /\ n < grants[g].launchExpiresAt /\ e <= grants[g].launchExpiresAt

\* accessValidationGrants.registerHandle: handle_hash is unique.
RegisterFinalizationHandle(g, h, e, n) ==
  /\ n <= clock /\ MayRegister(g, e, n)
  /\ Unspent(g, None)
  /\ \A k \in Grants : grants[k].handle # h
  /\ grants' = [grants EXCEPT ![g].handle = h, ![g].handleExpiresAt = e]
  /\ UNCHANGED <<world, clock, tokens, slot, opened, answered, changes>>
  /\ Watch

\* accessValidationGrants.consumeByHandleHash marks the row whether or not the
\* handle has expired; the expiry is judged on the row it returns.
ConsumeHandle(x) ==
  /\ slot[x].step = "handle"
  /\ \/ \E g \in Grants :
          /\ Unspent(g, slot[x].on)
          /\ grants' = [grants EXCEPT ![g].consumed = TRUE]
          /\ IF slot[x].now < grants[g].handleExpiresAt
             THEN slot' = [slot EXCEPT ![x].step = "read", ![x].on = g]
             ELSE End(x)
     \/ (\A g \in Grants : ~Unspent(g, slot[x].on)) /\ End(x) /\ UNCHANGED grants
  /\ UNCHANGED <<world, clock, tokens, opened, answered, changes>>
  /\ Watch

AnswerFinalize(x) ==
  /\ Decided(x, "finalize")
  /\ opened' = [opened EXCEPT ![slot[x].on] = @ + 1]
  /\ End(x)
  /\ UNCHANGED <<world, clock, tokens, grants, answered, changes>>
  /\ Watch

AnswerValidate(x) ==
  /\ Decided(x, "validate")
  /\ End(x)
  /\ UNCHANGED <<world, clock, tokens, grants, opened, answered, changes>>
  /\ Watch

RevokeAccessValidationGrant(g) ==
  /\ grants[g] # NoGrant /\ ~grants[g].revoked
  /\ grants' = [grants EXCEPT ![g].revoked = TRUE]
  /\ UNCHANGED <<world, clock, tokens, slot, opened, answered, changes>>
  /\ Watch

-----------------------------------------------------------------------------
(* What happens meanwhile *)

SetRow(f, v) ==
  /\ changes < MaxChanges
  /\ world[f] # v
  /\ world' = [world EXCEPT ![f] = v]
  /\ changes' = changes + 1
  /\ UNCHANGED <<clock, tokens, grants, slot, opened, answered>>
  /\ Watch

\* setWorkspaceAppEntitlementStatus, by an admin of the active workspace.
SetWorkspaceAppEntitlementStatus(status) ==
  /\ world["workspace"] = "active"
  /\ world["app"] \in Allows("app")
  /\ world["entitlement"] = "none" => status = "enabled"
  /\ SetRow("entitlement", status)

\* Logout, the admin mutations of WorkspaceAdmin, and the operator.
RevokeSession == SetRow("session", "revoked")
ChangeMembership(v) == SetRow("membership", v)
OperatorSets(f, v) == SetRow(f, v)

Tick ==
  /\ clock < MaxClock
  /\ clock' = clock + 1
  /\ UNCHANGED <<world, tokens, grants, slot, opened, answered, changes>>
  /\ Watch

-----------------------------------------------------------------------------
RequestStep(x) ==
  \/ BeginIssue(x)
  \/ \E t \in Tokens : BeginConsume(x, t) \/ IssueToken(x, t)
  \/ \E h \in Handles : BeginFinalize(x, h)
  \/ \E g \in Grants : BeginValidate(x, g) \/ IssueAccessValidationGrant(x, g)
  \/ \E f \in Rows \cup {"token", "grant", "member"} : ReadRow(x, f)
  \/ ConsumeToken(x)
  \/ ConsumeHandle(x)
  \/ AnswerFinalize(x)
  \/ AnswerValidate(x)
  \/ Abandon(x)

GrantStep(g) ==
  \/ \E h \in Handles, e \in 1..(MaxClock + HandleLife), n \in 0..MaxClock :
       RegisterFinalizationHandle(g, h, e, n)
  \/ RevokeAccessValidationGrant(g)

WorldStep ==
  \/ \E s \in {"enabled", "disabled"} : SetWorkspaceAppEntitlementStatus(s)
  \/ RevokeSession
  \/ \E v \in Values("membership") : ChangeMembership(v)
  \/ \E f \in {"user", "workspace", "app"} : \E v \in Values(f) : OperatorSets(f, v)
  \/ \E v \in {"trial", "suspended"} : OperatorSets("entitlement", v)
  \/ Tick

Next ==
  \/ \E x \in Slots : RequestStep(x)
  \/ \E g \in Grants : GrantStep(g)
  \/ WorldStep

Spec == Init /\ [][Next]_vars

-----------------------------------------------------------------------------
(* Properties *)

\* A launch token is issued or consumed, and a context answered, only on facts
\* each of which held at some instant of that very request: nothing is taken
\* from an earlier decision ("no positive cache"), and a launch token's or a
\* grant's own row counts among the facts.
DecidedOnLiveFacts ==
  \A x \in Slots :
    slot[x].step = "grant" \/ (slot[x].step = "read" /\ slot[x].todo = {})
      => Needs(slot[x].kind) \subseteq held[x]

\* However many consumers race on a launch token, one of them at most is
\* answered, and at most one validation grant ever comes of it.
TokenSpentOnce ==
  /\ \A t \in Tokens : answered[t] <= 1 /\ (answered[t] > 0 => tokens[t].consumed)
  /\ \A g, k \in Grants : g # k /\ grants[g].token # None => grants[g].token # grants[k].token

\* A finalization handle opens one session of the app at most, through the one
\* grant it was registered for.
HandleSpentOnce ==
  /\ \A g \in Grants : opened[g] <= 1 /\ (opened[g] > 0 => grants[g].consumed)
  /\ \A g, k \in Grants : g # k /\ grants[g].handle # None => grants[g].handle # grants[k].handle

\* No finalization that began after its launch token had expired gets past its
\* handle, whatever expiry the handle was registered with.
FinalizedWithinLaunch ==
  \A x \in Slots :
    slot[x].kind = "finalize" /\ slot[x].step = "read"
      => slot[x].now < grants[slot[x].on].launchExpiresAt
=============================================================================
