-------------------------- MODULE AppLaunchProofs --------------------------
(***************************************************************************)
(* What holds of AppLaunch for any number of requests, tokens, grants and  *)
(* handles.  The inductive invariant Inv adds to the properties which row  *)
(* a request is about (Addressed), that a launch token in the hands of a   *)
(* request that has consumed it has no grant yet (TokenChain), the same of *)
(* a grant whose handle a request has consumed (HandleChain), and that     *)
(* what a request still has to read and what has held during it together   *)
(* cover what its answer needs (Planned).                                  *)
(***************************************************************************)
EXTENDS AppLaunch, TLAPS

AllFacts == Rows \cup {"token", "grant", "member"}

\* Every request is about a row of the kind its operation names.
Addressed ==
  \A x \in Slots :
    /\ slot[x].kind = "consume" => slot[x].on \in Tokens /\ tokens[slot[x].on] # NoToken
    /\ slot[x].kind = "validate" => slot[x].on \in Grants /\ slot[x].step = "read"
    /\ slot[x].kind = "finalize" => slot[x].on \in (IF slot[x].step = "handle" THEN Handles ELSE Grants)
    /\ slot[x].step = "handle" => slot[x].kind = "finalize" /\ slot[x].todo = PlanOf("finalize")
    /\ slot[x].step = "grant" => slot[x].kind = "consume"

Granting(x) == slot[x].step = "grant"

TokenChain ==
  /\ \A t \in Tokens : answered[t] <= 1
  /\ \A t \in Tokens :
       ~tokens[t].consumed => answered[t] = 0 /\ \A g \in Grants : grants[g].token # t
  /\ \A x \in Slots : Granting(x) =>
       /\ tokens[slot[x].on].consumed /\ answered[slot[x].on] = 0
       /\ \A g \in Grants : grants[g].token # slot[x].on
       /\ \A y \in Slots : Granting(y) /\ slot[y].on = slot[x].on => y = x
  /\ \A g, k \in Grants : g # k /\ grants[g].token # None => grants[g].token # grants[k].token

Opening(x) == slot[x].kind = "finalize" /\ slot[x].step = "read"

HandleChain ==
  /\ \A g \in Grants : opened[g] <= 1 /\ (~grants[g].consumed => opened[g] = 0)
  /\ \A g \in Grants : grants[g].handle # None => grants[g].handleExpiresAt <= grants[g].launchExpiresAt
  /\ \A x \in Slots : Opening(x) =>
       /\ grants[slot[x].on].consumed /\ opened[slot[x].on] = 0
       /\ slot[x].now < grants[slot[x].on].launchExpiresAt
       /\ \A y \in Slots : Opening(y) /\ slot[y].on = slot[x].on => y = x
  /\ \A g, k \in Grants : g # k /\ grants[g].handle # None => grants[g].handle # grants[k].handle

Planned ==
  \A x \in Slots :
    /\ slot[x].step = "read" =>
         \A f \in Needs(slot[x].kind) : f \in held[x] \/ \E i \in 0..7 : <<i, f>> \in slot[x].todo
    /\ slot[x].step = "grant" => Needs(slot[x].kind) \subseteq held[x]

Inv == TypeOK /\ Addressed /\ TokenChain /\ HandleChain /\ Planned

-----------------------------------------------------------------------------
(* Facts about requests *)

LEMMA PlanTyped ==
  ASSUME NEW kind \in {"issue", "consume", "finalize", "validate"}
  PROVE  /\ PlanOf(kind) \subseteq (0..7) \X AllFacts
         /\ Needs(kind) \subseteq AllFacts
         /\ \A f \in Needs(kind) : \E i \in 0..7 : <<i, f>> \in PlanOf(kind)
<1>1. PlanOf(kind) \subseteq (0..7) \X AllFacts
  BY DEF PlanOf, Decision, AllFacts, Rows
<1>2. Needs(kind) \subseteq AllFacts
  BY DEF Needs, AllFacts, Rows
<1>3. ASSUME NEW f \in Needs(kind) PROVE \E i \in 0..7 : <<i, f>> \in PlanOf(kind)
  <2>1. CASE f = "token" BY <1>3, <2>1 DEF PlanOf, Needs, Rows
  <2>2. CASE f = "grant" BY <1>3, <2>2 DEF PlanOf, Needs, Rows
  <2>3. CASE f \in Rows
    <3>1. Decision \subseteq PlanOf(kind) BY DEF PlanOf
    <3>2. \E i \in 0..7 : <<i, f>> \in Decision BY <2>3 DEF Rows, Decision
    <3> QED BY <3>1, <3>2
  <2> QED BY <1>3, <2>1, <2>2, <2>3 DEF Needs
<1> QED BY <1>1, <1>2, <1>3

\* A slot is idle or serves a request, told apart by its step.
LEMMA SlotFields ==
  ASSUME TypeOK, NEW x \in Slots
  PROVE  /\ slot[x] \in Request \cup {Idle}
         /\ slot[x].step \in {"handle", "read", "grant"} <=> slot[x] \in Request
         /\ slot[x].kind \in {"issue", "consume", "finalize", "validate"} <=> slot[x] \in Request
         /\ slot[x] = Idle => slot[x].step = "none" /\ slot[x].kind = "none"
         /\ slot[x] \in Request => slot[x] # Idle
<1>1. slot[x] \in Request \cup {Idle} BY DEF TypeOK
<1>2. CASE slot[x] = Idle BY <1>2 DEF Idle, Request
<1>3. CASE slot[x] \in Request BY <1>3 DEF Idle, Request
<1> QED BY <1>1, <1>2, <1>3

LEMMA WatchTyped ==
  ASSUME TypeOK, Watch, slot' \in [Slots -> Request \cup {Idle}]
  PROVE  held' \in [Slots -> SUBSET AllFacts]
<1> SUFFICES ASSUME NEW x \in Slots,
                    slot'[x] # Idle
             PROVE  held[x] \cup {f \in Facts(slot'[x]) : Holds(f, slot[x])'} \subseteq AllFacts
  BY DEF Watch
<1>1. held[x] \subseteq AllFacts BY DEF TypeOK, AllFacts
<1>2. slot'[x] \in Request OBVIOUS
<1>3. Facts(slot'[x]) \subseteq AllFacts
  BY <1>2, PlanTyped DEF Facts, Request, AllFacts
<1> QED BY <1>1, <1>3

\* The rows a step writes, by what it sets.
Spent(r) == [r EXCEPT !.consumed = TRUE]
Bound(r, h, e) == [r EXCEPT !.handle = h, !.handleExpiresAt = e]
Closed(r) == [r EXCEPT !.revoked = TRUE]
Reading(q, g) == [q EXCEPT !.step = "read", !.on = g]

LEMMA SpentFields ==
  ASSUME NEW r \in Grant
  PROVE  /\ Spent(r) \in Grant /\ Spent(r).consumed
         /\ Spent(r).token = r.token /\ Spent(r).handle = r.handle
         /\ Spent(r).handleExpiresAt = r.handleExpiresAt
         /\ Spent(r).launchExpiresAt = r.launchExpiresAt
  BY DEF Grant, Spent

LEMMA BoundFields ==
  ASSUME NEW r \in Grant, NEW h \in Handles, NEW e \in Nat, e <= r.launchExpiresAt
  PROVE  /\ Bound(r, h, e) \in Grant /\ Bound(r, h, e).consumed = r.consumed
         /\ Bound(r, h, e).token = r.token /\ Bound(r, h, e).handle = h
         /\ Bound(r, h, e).handleExpiresAt = e
         /\ Bound(r, h, e).launchExpiresAt = r.launchExpiresAt
<1>1. e \in 0..(MaxClock + TokenLife) BY TimesAssumption DEF Grant
<1> QED BY <1>1 DEF Grant, Bound

LEMMA ClosedFields ==
  ASSUME NEW r \in Grant
  PROVE  /\ Closed(r) \in Grant /\ Closed(r).consumed = r.consumed
         /\ Closed(r).token = r.token /\ Closed(r).handle = r.handle
         /\ Closed(r).handleExpiresAt = r.handleExpiresAt
         /\ Closed(r).launchExpiresAt = r.launchExpiresAt
  BY DEF Grant, Closed

LEMMA ReadingFields ==
  ASSUME NEW q \in Request, NEW g \in Grants
  PROVE  /\ Reading(q, g) \in Request /\ Reading(q, g).step = "read" /\ Reading(q, g).on = g
         /\ Reading(q, g).kind = q.kind /\ Reading(q, g).todo = q.todo /\ Reading(q, g).now = q.now
  BY DEF Request, Reading

\* What a handle's consumption does: it ends the request, unless the one grant
\* the handle is registered for is consumed by it in time.
LEMMA HandleCases ==
  ASSUME TypeOK, Addressed, NEW x \in Slots, ConsumeHandle(x)
  PROVE  /\ slot[x] \in Request /\ slot[x].on \in Handles /\ slot[x].kind = "finalize"
         /\ UNCHANGED <<tokens, opened, answered, world>>
         /\ \/ slot' = [slot EXCEPT ![x] = Idle] /\ UNCHANGED grants
            \/ \E g \in Grants :
                 /\ grants[g] \in Grant /\ Unspent(g, slot[x].on)
                 /\ grants' = [grants EXCEPT ![g] = Spent(grants[g])]
                 /\ \/ slot' = [slot EXCEPT ![x] = Idle]
                    \/ /\ slot[x].now < grants[g].handleExpiresAt
                       /\ slot' = [slot EXCEPT ![x] = Reading(slot[x], g)]
<1>1. slot[x] \in Request BY SlotFields DEF ConsumeHandle
<1>2. slot[x].on \in Handles /\ slot[x].kind = "finalize" BY DEF ConsumeHandle, Addressed
<1>3. ASSUME NEW g \in Grants, Unspent(g, slot[x].on),
             grants' = [grants EXCEPT ![g].consumed = TRUE],
             IF slot[x].now < grants[g].handleExpiresAt
             THEN slot' = [slot EXCEPT ![x].step = "read", ![x].on = g] ELSE End(x)
      PROVE  /\ grants[g] \in Grant
             /\ grants' = [grants EXCEPT ![g] = Spent(grants[g])]
             /\ \/ slot' = [slot EXCEPT ![x] = Idle]
                \/ /\ slot[x].now < grants[g].handleExpiresAt
                   /\ slot' = [slot EXCEPT ![x] = Reading(slot[x], g)]
  <2>1. grants[g] \in Grant
    BY <1>2, <1>3, NoneAssumption DEF TypeOK, Unspent, NoGrant, GrantFor
  <2>2. grants' = [grants EXCEPT ![g] = Spent(grants[g])]
    BY <1>3, <2>1 DEF TypeOK, Spent
  <2>3. slot' = [slot EXCEPT ![x] = Idle]
          \/ /\ slot[x].now < grants[g].handleExpiresAt
             /\ slot' = [slot EXCEPT ![x] = Reading(slot[x], g)]
    BY <1>1, <1>3 DEF TypeOK, End, Reading
  <2> QED BY <2>1, <2>2, <2>3
<1>4. UNCHANGED <<tokens, opened, answered, world>> BY DEF ConsumeHandle
<1> QED BY <1>1, <1>2, <1>3, <1>4 DEF ConsumeHandle, End

\* What a registration does to its grant.
LEMMA RegisterCases ==
  ASSUME TypeOK, NEW g \in Grants, NEW h \in Handles, NEW e \in Nat, NEW n \in Nat,
         RegisterFinalizationHandle(g, h, e, n)
  PROVE  /\ grants[g] \in Grant
         /\ grants' = [grants EXCEPT ![g] = Bound(grants[g], h, e)]
         /\ grants[g].handle = None /\ e <= grants[g].launchExpiresAt
         /\ ~grants[g].consumed
         /\ UNCHANGED <<tokens, opened, answered, slot>>
<1>1. grants[g] \in Grant BY DEF TypeOK, RegisterFinalizationHandle, MayRegister
<1>2. grants' = [grants EXCEPT ![g] = Bound(grants[g], h, e)]
  BY <1>1 DEF RegisterFinalizationHandle, TypeOK, Bound
<1> QED BY <1>1, <1>2 DEF RegisterFinalizationHandle, MayRegister, Unspent

LEMMA RevokeCases ==
  ASSUME TypeOK, NEW g \in Grants, RevokeAccessValidationGrant(g)
  PROVE  /\ grants[g] \in Grant
         /\ grants' = [grants EXCEPT ![g] = Closed(grants[g])]
         /\ UNCHANGED <<tokens, opened, answered, slot>>
<1>1. grants[g] \in Grant BY DEF TypeOK, RevokeAccessValidationGrant
<1> QED BY <1>1 DEF TypeOK, RevokeAccessValidationGrant, Closed

\* A step keeps the types: one leaf per action, the history apart.
LEMMA TypeStep ==
  ASSUME TypeOK, Addressed, TokenChain, [Next]_vars
  PROVE  TypeOK'
<1> USE NoneAssumption, TimesAssumption
<1> DEFINE Typed ==
      /\ world' \in [Rows -> UNION {Values(f) : f \in Rows}]
      /\ \A f \in Rows : world'[f] \in Values(f)
      /\ clock' \in 0..MaxClock
      /\ tokens' \in [Tokens -> Token \cup {NoToken}]
      /\ grants' \in [Grants -> Grant \cup {NoGrant}]
      /\ slot' \in [Slots -> Request \cup {Idle}]
      /\ opened' \in [Grants -> Nat]
      /\ answered' \in [Tokens -> Nat]
      /\ changes' \in 0..MaxChanges
<1>1. ASSUME NEW x \in Slots, NEW kind \in {"issue", "consume", "finalize", "validate"},
             NEW on \in Tokens \cup Grants \cup Handles \cup {None}, Begin(x, kind, on)
      PROVE  Typed
  <2>1. PlanOf(kind) \in SUBSET ((0..7) \X (Rows \cup {"token", "grant", "member"}))
    BY PlanTyped DEF AllFacts
  <2>2. [kind |-> kind, step |-> IF kind = "finalize" THEN "handle" ELSE "read", on |-> on,
         now |-> clock, todo |-> PlanOf(kind)] \in Request
    BY <2>1 DEF TypeOK, Request
  <2> QED BY <1>1, <2>2 DEF TypeOK, Begin
<1>2. ASSUME NEW x \in Slots, NEW f, ReadRow(x, f)
      PROVE  Typed
  <2>1. slot[x] \in Request BY <1>2, SlotFields DEF ReadRow
  <2>2. PICK i \in 0..7 :
          slot' = [slot EXCEPT ![x] = [slot[x] EXCEPT !.todo = slot[x].todo \ {<<i, f>>}]]
            \/ slot' = [slot EXCEPT ![x] = Idle]
    BY <1>2, <2>1 DEF ReadRow, End, TypeOK, Request
  <2>3. [slot[x] EXCEPT !.todo = slot[x].todo \ {<<i, f>>}] \in Request BY <2>1 DEF Request
  <2>4. slot' \in [Slots -> Request \cup {Idle}] BY <2>2, <2>3 DEF TypeOK
  <2> QED BY <1>2, <2>4 DEF TypeOK, ReadRow
<1>3. ASSUME NEW x \in Slots, Abandon(x) \/ AnswerValidate(x) \/ AnswerFinalize(x)
      PROVE  Typed
  <2>1. CASE AnswerFinalize(x)
    <3>1. slot[x].on \in Grants BY <2>1 DEF AnswerFinalize, Decided, Addressed
    <3>2. opened[slot[x].on] + 1 \in Nat BY <3>1 DEF TypeOK
    <3> QED BY <2>1, <3>1, <3>2 DEF TypeOK, AnswerFinalize, End
  <2> QED BY <1>3, <2>1 DEF TypeOK, Abandon, AnswerValidate, End
<1>4. ASSUME NEW x \in Slots, NEW t \in Tokens, IssueToken(x, t)
      PROVE  Typed
  <2>1. slot[x] \in Request BY <1>4, SlotFields DEF IssueToken, Decided
  <2>2. slot[x].now + TokenLife \in 1..(MaxClock + TokenLife) BY <2>1 DEF Request
  <2>3. [expiresAt |-> slot[x].now + TokenLife, consumed |-> FALSE] \in Token BY <2>2 DEF Token
  <2> QED BY <1>4, <2>3 DEF TypeOK, IssueToken, End
<1>5. ASSUME NEW x \in Slots, ConsumeToken(x)
      PROVE  Typed
  <2>1. slot[x] \in Request BY <1>5, SlotFields DEF ConsumeToken, Decided
  <2>2. slot[x].on \in Tokens /\ tokens[slot[x].on] \in Token
    BY <1>5 DEF ConsumeToken, Decided, Addressed, TypeOK
  <2>3. [tokens[slot[x].on] EXCEPT !.consumed = TRUE] \in Token BY <2>2 DEF Token
  <2>4. [slot[x] EXCEPT !.step = "grant"] \in Request BY <2>1 DEF Request
  <2> QED BY <1>5, <2>2, <2>3, <2>4 DEF TypeOK, ConsumeToken, End
<1>6. ASSUME NEW x \in Slots, NEW g \in Grants, IssueAccessValidationGrant(x, g)
      PROVE  Typed
  <2>1. slot[x] \in Request BY <1>6, SlotFields DEF IssueAccessValidationGrant
  <2>2. slot[x].on \in Tokens /\ tokens[slot[x].on] \in Token
    BY <1>6 DEF IssueAccessValidationGrant, Addressed, TypeOK
  <2>3. GrantFor(slot[x].on, slot[x].now, tokens[slot[x].on].expiresAt) \in Grant
    BY <2>1, <2>2 DEF GrantFor, Grant, Token, Request
  <2> QED BY <1>6, <2>2, <2>3 DEF TypeOK, IssueAccessValidationGrant, End
<1>7. ASSUME NEW g \in Grants, NEW h \in Handles, NEW e \in 1..(MaxClock + HandleLife),
             NEW n \in 0..MaxClock, RegisterFinalizationHandle(g, h, e, n)
      PROVE  Typed
  <2>1. e \in Nat /\ n \in Nat
    <3>1. MaxClock + HandleLife \in Nat BY TimesAssumption
    <3> QED BY <3>1
  <2>2. /\ grants[g] \in Grant /\ e <= grants[g].launchExpiresAt
        /\ grants' = [grants EXCEPT ![g] = Bound(grants[g], h, e)]
    BY <1>7, <2>1, RegisterCases
  <2>3. Bound(grants[g], h, e) \in Grant BY <2>1, <2>2, BoundFields
  <2>4. grants' \in [Grants -> Grant \cup {NoGrant}] BY <2>2, <2>3 DEF TypeOK
  <2>5. UNCHANGED <<world, clock, tokens, slot, opened, answered, changes>>
    BY <1>7 DEF RegisterFinalizationHandle
  <2> QED BY <2>4, <2>5 DEF TypeOK
<1>8. ASSUME NEW x \in Slots, ConsumeHandle(x)
      PROVE  Typed
  <2>1. slot[x] \in Request BY <1>8, HandleCases
  <2>2. CASE slot' = [slot EXCEPT ![x] = Idle] /\ UNCHANGED grants
    BY <1>8, <2>2 DEF TypeOK, ConsumeHandle
  <2>3. ASSUME NEW g \in Grants, grants[g] \in Grant,
               grants' = [grants EXCEPT ![g] = Spent(grants[g])],
               \/ slot' = [slot EXCEPT ![x] = Idle]
               \/ slot' = [slot EXCEPT ![x] = Reading(slot[x], g)]
        PROVE  Typed
    <3>1. grants' \in [Grants -> Grant \cup {NoGrant}] BY <2>3, SpentFields DEF TypeOK
    <3>2. Reading(slot[x], g) \in Request BY <2>1, ReadingFields
    <3>3. slot' \in [Slots -> Request \cup {Idle}] BY <2>3, <3>2 DEF TypeOK
    <3> QED BY <1>8, <3>1, <3>3 DEF TypeOK, ConsumeHandle
  <2> QED BY <1>8, <2>2, <2>3, HandleCases
<1>9. ASSUME NEW g \in Grants, RevokeAccessValidationGrant(g)
      PROVE  Typed
  <2>1. grants' \in [Grants -> Grant \cup {NoGrant}] BY <1>9, RevokeCases, ClosedFields DEF TypeOK
  <2> QED BY <1>9, <2>1 DEF TypeOK, RevokeAccessValidationGrant
<1>10. ASSUME NEW f \in Rows, NEW v \in Values(f), SetRow(f, v)
       PROVE  Typed
  BY <1>10 DEF TypeOK, SetRow
<1>11. ASSUME Tick \/ UNCHANGED vars
       PROVE  Typed
  BY <1>11 DEF TypeOK, Tick, vars
<1>12. ASSUME NEW x \in Slots, RequestStep(x)
       PROVE  Typed
  <2>1. ASSUME BeginIssue(x) PROVE Typed BY <1>1, <2>1 DEF BeginIssue
  <2>2. ASSUME NEW t \in Tokens, BeginConsume(x, t) PROVE Typed BY <1>1, <2>2 DEF BeginConsume
  <2>3. ASSUME NEW h \in Handles, BeginFinalize(x, h) PROVE Typed BY <1>1, <2>3 DEF BeginFinalize
  <2>4. ASSUME NEW g \in Grants, BeginValidate(x, g) PROVE Typed BY <1>1, <2>4 DEF BeginValidate
  <2> QED BY <1>12, <2>1, <2>2, <2>3, <2>4, <1>2, <1>3, <1>4, <1>5, <1>6, <1>8 DEF RequestStep
<1>13. ASSUME WorldStep PROVE Typed
  <2>1. ASSUME NEW s \in {"enabled", "disabled"}, SetWorkspaceAppEntitlementStatus(s) PROVE Typed
    BY <1>10, <2>1 DEF SetWorkspaceAppEntitlementStatus, Rows, Values
  <2>2. ASSUME RevokeSession PROVE Typed BY <1>10, <2>2 DEF RevokeSession, Rows, Values
  <2>3. ASSUME NEW v \in Values("membership"), ChangeMembership(v) PROVE Typed
    BY <1>10, <2>3 DEF ChangeMembership, Rows
  <2>4. ASSUME NEW f \in {"user", "workspace", "app"}, NEW v \in Values(f), OperatorSets(f, v) PROVE Typed
    BY <1>10, <2>4 DEF OperatorSets, Rows
  <2>5. ASSUME NEW v \in {"trial", "suspended"}, OperatorSets("entitlement", v) PROVE Typed
    BY <1>10, <2>5 DEF OperatorSets, Rows, Values
  <2> QED BY <1>13, <2>1, <2>2, <2>3, <2>4, <2>5, <1>11 DEF WorldStep
<1>14. Typed
  BY <1>7, <1>9, <1>11, <1>12, <1>13 DEF Next, GrantStep
<1>15. held' \in [Slots -> SUBSET AllFacts]
  <2>1. CASE UNCHANGED vars BY <2>1 DEF vars, TypeOK, AllFacts
  <2>2. CASE Watch BY <2>2, <1>14, WatchTyped
  <2>3. Next => Watch
    BY DEF Next, RequestStep, GrantStep, WorldStep, BeginIssue, BeginConsume, BeginFinalize,
           BeginValidate, Begin, ReadRow, Abandon, IssueToken, ConsumeToken,
           IssueAccessValidationGrant, RegisterFinalizationHandle, ConsumeHandle, AnswerFinalize,
           AnswerValidate, RevokeAccessValidationGrant, SetWorkspaceAppEntitlementStatus, SetRow,
           RevokeSession, ChangeMembership, OperatorSets, Tick
  <2> QED BY <2>1, <2>2, <2>3
<1> QED BY <1>14, <1>15 DEF TypeOK, AllFacts

-----------------------------------------------------------------------------
(* The steps, by what they do to the rows and the requests *)

Began(x) ==
  \E kind \in {"issue", "consume", "finalize", "validate"}, on \in Tokens \cup Grants \cup Handles \cup {None} :
    /\ kind = "consume" => on \in Tokens /\ tokens[on] # NoToken
    /\ kind = "validate" => on \in Grants
    /\ kind = "finalize" => on \in Handles
    /\ Begin(x, kind, on)

WasRead(x) ==
  \E i \in 0..7, f \in AllFacts :
    /\ slot[x].step = "read" /\ Holds(f, slot[x])
    /\ slot' = [slot EXCEPT ![x] = [slot[x] EXCEPT !.todo = slot[x].todo \ {<<i, f>>}]]
    /\ UNCHANGED <<world, tokens, grants, opened, answered>>

Ended(x) == End(x) /\ UNCHANGED <<tokens, grants, opened, answered>>

Quiet == UNCHANGED <<tokens, grants, slot, opened, answered>>

LEMMA StepCases ==
  ASSUME Next, TypeOK
  PROVE  /\ Watch
         /\ \/ \E x \in Slots :
                 \/ Began(x) \/ WasRead(x) \/ Ended(x) \/ ConsumeToken(x) \/ ConsumeHandle(x)
                 \/ AnswerFinalize(x)
                 \/ \E t \in Tokens : IssueToken(x, t)
                 \/ \E g \in Grants : IssueAccessValidationGrant(x, g)
            \/ \E g \in Grants :
                 \/ RevokeAccessValidationGrant(g)
                 \/ \E h \in Handles, e \in Nat, n \in Nat : RegisterFinalizationHandle(g, h, e, n)
            \/ Quiet
<1>1. ASSUME NEW x \in Slots, NEW f \in AllFacts, ReadRow(x, f)
      PROVE  Watch /\ (WasRead(x) \/ Ended(x))
  <2>1. slot[x] \in Request BY <1>1, SlotFields DEF ReadRow
  <2>2. CASE Holds(f, slot[x])
    BY <1>1, <2>1, <2>2 DEF ReadRow, WasRead, TypeOK, Request
  <2>3. CASE ~Holds(f, slot[x])
    BY <1>1, <2>3 DEF ReadRow, Ended
  <2> QED BY <1>1, <2>2, <2>3 DEF ReadRow
<1>2. ASSUME NEW x \in Slots, Abandon(x) \/ AnswerValidate(x)
      PROVE  Watch /\ Ended(x)
  BY <1>2 DEF Abandon, AnswerValidate, Ended
<1>3. ASSUME NEW x \in Slots, BeginIssue(x)
      PROVE  Watch /\ Began(x)
  BY <1>3 DEF BeginIssue, Began, Begin
<1>4. ASSUME NEW x \in Slots, NEW t \in Tokens, BeginConsume(x, t)
      PROVE  Watch /\ Began(x)
  BY <1>4 DEF BeginConsume, Began, Begin
<1>5. ASSUME NEW x \in Slots, NEW h \in Handles, BeginFinalize(x, h)
      PROVE  Watch /\ Began(x)
  BY <1>5 DEF BeginFinalize, Began, Begin
<1>6. ASSUME NEW x \in Slots, NEW g \in Grants, BeginValidate(x, g)
      PROVE  Watch /\ Began(x)
  BY <1>6 DEF BeginValidate, Began, Begin
<1>7. ASSUME NEW x \in Slots,
             \/ ConsumeToken(x) \/ ConsumeHandle(x) \/ AnswerFinalize(x)
             \/ \E t \in Tokens : IssueToken(x, t)
             \/ \E g \in Grants : IssueAccessValidationGrant(x, g)
      PROVE  Watch
  BY <1>7 DEF ConsumeToken, ConsumeHandle, AnswerFinalize, IssueToken, IssueAccessValidationGrant
<1>8. ASSUME NEW g \in Grants, GrantStep(g)
      PROVE  /\ Watch
             /\ \/ RevokeAccessValidationGrant(g)
                \/ \E h \in Handles, e \in Nat, n \in Nat : RegisterFinalizationHandle(g, h, e, n)
  <2>1. Watch BY <1>8 DEF GrantStep, RegisterFinalizationHandle, RevokeAccessValidationGrant
  <2>2. 1..(MaxClock + HandleLife) \subseteq Nat /\ 0..MaxClock \subseteq Nat
    BY TimesAssumption
  <2> QED BY <1>8, <2>1, <2>2 DEF GrantStep
<1>9. ASSUME WorldStep
      PROVE  Watch /\ Quiet
  BY <1>9 DEF WorldStep, Quiet, SetWorkspaceAppEntitlementStatus, SetRow, RevokeSession,
              ChangeMembership, OperatorSets, Tick
<1>10. CASE \E x \in Slots : RequestStep(x)
  <2>1. PICK x \in Slots : RequestStep(x) BY <1>10
  <2>2. /\ Watch
        /\ \/ Began(x) \/ WasRead(x) \/ Ended(x) \/ ConsumeToken(x) \/ ConsumeHandle(x)
           \/ AnswerFinalize(x)
           \/ \E t \in Tokens : IssueToken(x, t)
           \/ \E g \in Grants : IssueAccessValidationGrant(x, g)
    BY <2>1, <1>1, <1>2, <1>3, <1>4, <1>5, <1>6, <1>7 DEF RequestStep, AllFacts
  <2> QED BY <2>2
<1> QED BY <1>8, <1>9, <1>10 DEF Next

-----------------------------------------------------------------------------
(* The parts of the inductive invariant *)

LEMMA AddressedStep ==
  ASSUME Inv, [Next]_vars, TypeOK'
  PROVE  Addressed'
<1> USE DEF Inv
<1> SUFFICES ASSUME Next PROVE Addressed'
  BY DEF Addressed, vars
<1>1. \A x \in Slots : slot[x] = Idle \/ slot[x] \in Request BY SlotFields
<1>2. ASSUME NEW x \in Slots, Began(x) PROVE Addressed'
  BY <1>2 DEF Began, Begin, Addressed, TypeOK
<1>3. ASSUME NEW x \in Slots, WasRead(x) PROVE Addressed'
  <2>1. slot[x] \in Request BY <1>3, SlotFields DEF WasRead
  <2> QED BY <1>3, <2>1 DEF WasRead, Addressed, TypeOK, Request
<1>4. ASSUME NEW x \in Slots, Ended(x) PROVE Addressed'
  BY <1>4 DEF Ended, End, Addressed, TypeOK, Idle
<1>5. ASSUME NEW x \in Slots, ConsumeToken(x) PROVE Addressed'
  <2>1. slot[x] \in Request BY <1>5, SlotFields DEF ConsumeToken, Decided
  <2>2. slot[x].on \in Tokens /\ slot[x].kind = "consume" BY <1>5 DEF ConsumeToken, Decided, Addressed
  <2>3. \A t \in Tokens : tokens[t] # NoToken => tokens'[t] # NoToken
    BY <1>5, <2>2 DEF ConsumeToken, Addressed, TypeOK, Token, NoToken
  <2>4. CASE slot' = [slot EXCEPT ![x] = Idle]
    BY <2>3, <2>4 DEF Addressed, TypeOK, Idle
  <2>5. CASE slot' = [slot EXCEPT ![x] = [slot[x] EXCEPT !.step = "grant"]]
    BY <2>1, <2>2, <2>3, <2>5 DEF Addressed, TypeOK, Request
  <2> QED BY <1>5, <2>1, <2>4, <2>5 DEF ConsumeToken, End, TypeOK
<1>6. ASSUME NEW x \in Slots, ConsumeHandle(x) PROVE Addressed'
  <2>1. slot[x] \in Request /\ slot[x].kind = "finalize" /\ tokens' = tokens
    BY <1>6, HandleCases
  <2>2. CASE slot' = [slot EXCEPT ![x] = Idle]
    BY <2>1, <2>2 DEF Addressed, TypeOK, Idle
  <2>3. ASSUME NEW g \in Grants, slot' = [slot EXCEPT ![x] = Reading(slot[x], g)]
        PROVE  Addressed'
    BY <2>1, <2>3, ReadingFields DEF Addressed, TypeOK
  <2> QED BY <1>6, <2>2, <2>3, HandleCases
<1>7. ASSUME NEW x \in Slots, AnswerFinalize(x) PROVE Addressed'
  BY <1>7 DEF AnswerFinalize, End, Addressed, TypeOK, Idle
<1>8. ASSUME NEW x \in Slots, NEW t \in Tokens, IssueToken(x, t) PROVE Addressed'
  <2>1. slot[x] \in Request BY <1>8, SlotFields DEF IssueToken, Decided
  <2>2. slot[x].now + TokenLife # 0 BY <2>1, TimesAssumption DEF Request
  <2>3. \A u \in Tokens : tokens[u] # NoToken => tokens'[u] # NoToken
    BY <1>8, <2>2 DEF IssueToken, TypeOK, NoToken
  <2> QED BY <1>8, <2>3 DEF IssueToken, End, Addressed, TypeOK, Idle
<1>9. ASSUME NEW x \in Slots, NEW g \in Grants, IssueAccessValidationGrant(x, g) PROVE Addressed'
  BY <1>9 DEF IssueAccessValidationGrant, End, Addressed, TypeOK, Idle
<1>10. ASSUME UNCHANGED <<slot, tokens>> PROVE Addressed'
  BY <1>10 DEF Addressed
<1> QED
  BY <1>2, <1>3, <1>4, <1>5, <1>6, <1>7, <1>8, <1>9, <1>10, StepCases
  DEF RevokeAccessValidationGrant, RegisterFinalizationHandle, Quiet

LEMMA TokenChainStep ==
  ASSUME Inv, [Next]_vars, TypeOK'
  PROVE  TokenChain'
<1> USE NoneAssumption DEF Inv
<1> SUFFICES ASSUME Next PROVE TokenChain'
  BY DEF TokenChain, Granting, vars
<1>1. \A x \in Slots : Granting(x) => slot[x] \in Request /\ slot[x].on \in Tokens
  BY SlotFields DEF Granting, Addressed
<1>2. ASSUME NEW x \in Slots, slot'[x].step # "grant" \/ slot'[x] = slot[x],
             \A y \in Slots \ {x} : slot'[y] = slot[y],
             UNCHANGED <<answered, tokens>>,
             \A g \in Grants : grants'[g].token = grants[g].token
      PROVE  TokenChain'
  BY <1>1, <1>2 DEF TokenChain, Granting
<1>3. ASSUME NEW x \in Slots, Began(x) PROVE TokenChain'
  <2>1. slot'[x].step # "grant" BY <1>3 DEF Began, Begin, TypeOK
  <2> QED BY <1>2, <1>3, <2>1 DEF Began, Begin, TypeOK
<1>4. ASSUME NEW x \in Slots, WasRead(x) PROVE TokenChain'
  <2>1. slot'[x].step # "grant" BY <1>4, SlotFields DEF WasRead, TypeOK, Request
  <2> QED BY <1>2, <1>4, <2>1 DEF WasRead, TypeOK
<1>5. ASSUME NEW x \in Slots, Ended(x) PROVE TokenChain'
  BY <1>2, <1>5 DEF Ended, End, TypeOK, Idle
<1>6. ASSUME NEW x \in Slots, ConsumeToken(x) PROVE TokenChain'
  <2>1. slot[x] \in Request BY <1>6, SlotFields DEF ConsumeToken, Decided
  <2>2. slot[x].on \in Tokens BY <1>6 DEF ConsumeToken, Decided, Addressed
  <2>3. CASE tokens[slot[x].on].consumed
    BY <1>2, <1>6, <2>3 DEF ConsumeToken, End, TypeOK, Idle
  <2>4. CASE ~tokens[slot[x].on].consumed
    <3> DEFINE t == slot[x].on
    <3>1. tokens[t] \in Token BY <1>6, <2>2 DEF ConsumeToken, Decided, Addressed, TypeOK
    <3>2. /\ slot'[x].step = "grant" /\ slot'[x].on = t
          /\ \A y \in Slots \ {x} : slot'[y] = slot[y]
      BY <1>6, <2>1, <2>4 DEF ConsumeToken, TypeOK, Request
    <3>3. /\ tokens'[t].consumed
          /\ \A u \in Tokens \ {t} : tokens'[u] = tokens[u]
      BY <1>6, <2>2, <2>4, <3>1 DEF ConsumeToken, TypeOK, Token
    <3>4. answered' = answered /\ grants' = grants BY <1>6 DEF ConsumeToken
    <3>5. \A y \in Slots : Granting(y) => slot[y].on # t BY <2>4 DEF TokenChain
    <3>6. answered[t] = 0 /\ \A g \in Grants : grants[g].token # t BY <2>2, <2>4 DEF TokenChain
    <3> QED BY <1>1, <2>2, <3>2, <3>3, <3>4, <3>5, <3>6 DEF TokenChain, Granting
  <2> QED BY <2>3, <2>4
<1>7. ASSUME NEW x \in Slots, ConsumeHandle(x) PROVE TokenChain'
  <2>1. slot[x] \in Request /\ UNCHANGED <<answered, tokens>> BY <1>7, HandleCases
  <2>2. CASE slot' = [slot EXCEPT ![x] = Idle] /\ UNCHANGED grants
    BY <1>2, <2>1, <2>2 DEF TypeOK, Idle
  <2>3. ASSUME NEW g \in Grants, grants[g] \in Grant,
               grants' = [grants EXCEPT ![g] = Spent(grants[g])],
               \/ slot' = [slot EXCEPT ![x] = Idle]
               \/ slot' = [slot EXCEPT ![x] = Reading(slot[x], g)]
        PROVE  TokenChain'
    <3>1. slot'[x].step # "grant" /\ \A y \in Slots \ {x} : slot'[y] = slot[y]
      BY <2>1, <2>3, ReadingFields DEF TypeOK, Idle
    <3>2. \A k \in Grants : grants'[k].token = grants[k].token
      BY <2>3, SpentFields DEF TypeOK
    <3> QED BY <1>2, <2>1, <3>1, <3>2
  <2> QED BY <1>7, <2>2, <2>3, HandleCases
<1>8. ASSUME NEW x \in Slots, AnswerFinalize(x) PROVE TokenChain'
  BY <1>2, <1>8 DEF AnswerFinalize, End, TypeOK, Idle
<1>9. ASSUME NEW x \in Slots, NEW t \in Tokens, IssueToken(x, t) PROVE TokenChain'
  <2>1. /\ slot'[x].step # "grant"
        /\ \A y \in Slots \ {x} : slot'[y] = slot[y]
    BY <1>9 DEF IssueToken, End, TypeOK, Idle
  <2>2. tokens[t].consumed = FALSE /\ tokens'[t].consumed = FALSE
    BY <1>9 DEF IssueToken, TypeOK, NoToken
  <2>3. \A u \in Tokens : tokens'[u].consumed = tokens[u].consumed
    BY <1>9, <2>2 DEF IssueToken, TypeOK
  <2>4. answered' = answered /\ grants' = grants BY <1>9 DEF IssueToken
  <2>5. \A y \in Slots : Granting(y)' => Granting(y) /\ slot'[y] = slot[y]
    BY <2>1 DEF Granting
  <2> QED BY <1>1, <2>3, <2>4, <2>5 DEF TokenChain, Granting
<1>10. ASSUME NEW x \in Slots, NEW g \in Grants, IssueAccessValidationGrant(x, g) PROVE TokenChain'
  <2> DEFINE t == slot[x].on
  <2>1. t \in Tokens BY <1>10 DEF IssueAccessValidationGrant, Addressed
  <2>2. /\ slot'[x].step # "grant"
        /\ \A y \in Slots \ {x} : slot'[y] = slot[y]
    BY <1>10 DEF IssueAccessValidationGrant, End, TypeOK, Idle
  <2>3. grants'[g].token = t /\ \A k \in Grants \ {g} : grants'[k] = grants[k]
    BY <1>10 DEF IssueAccessValidationGrant, TypeOK, GrantFor
  <2>4. answered'[t] = 1 /\ \A u \in Tokens \ {t} : answered'[u] = answered[u]
    BY <1>10, <2>1 DEF IssueAccessValidationGrant, TypeOK, TokenChain, Granting
  <2>5. tokens' = tokens BY <1>10 DEF IssueAccessValidationGrant
  <2>6. /\ tokens[t].consumed /\ \A k \in Grants : grants[k].token # t
        /\ \A y \in Slots \ {x} : Granting(y) => slot[y].on # t
    BY <1>10 DEF IssueAccessValidationGrant, TokenChain, Granting
  <2> QED BY <1>1, <2>1, <2>2, <2>3, <2>4, <2>5, <2>6 DEF TokenChain, Granting
<1>11. ASSUME UNCHANGED <<slot, tokens, answered>>, \A g \in Grants : grants'[g].token = grants[g].token
       PROVE  TokenChain'
  BY <1>11 DEF TokenChain, Granting
<1>12. ASSUME NEW g \in Grants, RevokeAccessValidationGrant(g) PROVE TokenChain'
  BY <1>11, <1>12, RevokeCases, ClosedFields DEF TypeOK
<1>13. ASSUME NEW g \in Grants, NEW h \in Handles, NEW e \in Nat, NEW n \in Nat,
              RegisterFinalizationHandle(g, h, e, n)
       PROVE  TokenChain'
  <2>1. /\ grants[g] \in Grant /\ e <= grants[g].launchExpiresAt
        /\ grants' = [grants EXCEPT ![g] = Bound(grants[g], h, e)]
        /\ UNCHANGED <<slot, tokens, answered>>
    BY <1>13, RegisterCases
  <2>2. Bound(grants[g], h, e).token = grants[g].token BY <2>1, BoundFields
  <2>3. \A k \in Grants : grants'[k].token = grants[k].token BY <2>1, <2>2 DEF TypeOK
  <2> QED BY <1>11, <2>1, <2>3
<1> QED
  BY <1>3, <1>4, <1>5, <1>6, <1>7, <1>8, <1>9, <1>10, <1>11, <1>12, <1>13, StepCases DEF Quiet

LEMMA HandleChainStep ==
  ASSUME Inv, [Next]_vars, TypeOK'
  PROVE  HandleChain'
<1> USE NoneAssumption DEF Inv
<1> SUFFICES ASSUME Next PROVE HandleChain'
  BY DEF HandleChain, Opening, vars
<1>1. \A x \in Slots : Opening(x) => slot[x] \in Request /\ slot[x].on \in Grants
  BY SlotFields DEF Opening, Addressed, Request
<1>2. ASSUME NEW x \in Slots, slot'[x].kind # "finalize" \/ slot'[x].step # "read",
             \A y \in Slots \ {x} : slot'[y] = slot[y],
             UNCHANGED <<opened, grants>>
      PROVE  HandleChain'
  BY <1>1, <1>2 DEF HandleChain, Opening
<1>3. ASSUME NEW x \in Slots, Began(x) PROVE HandleChain'
  <2>1. slot'[x].kind # "finalize" \/ slot'[x].step # "read" BY <1>3 DEF Began, Begin, TypeOK
  <2> QED BY <1>2, <1>3, <2>1 DEF Began, Begin, TypeOK
<1>4. ASSUME NEW x \in Slots, WasRead(x) PROVE HandleChain'
  <2>1. slot[x] \in Request BY <1>4, SlotFields DEF WasRead
  <2>2. /\ slot'[x].kind = slot[x].kind /\ slot'[x].step = slot[x].step
        /\ slot'[x].on = slot[x].on /\ slot'[x].now = slot[x].now
        /\ \A y \in Slots \ {x} : slot'[y] = slot[y]
    BY <1>4, <2>1 DEF WasRead, TypeOK, Request
  <2>3. UNCHANGED <<opened, grants>> BY <1>4 DEF WasRead
  <2> QED BY <2>2, <2>3 DEF HandleChain, Opening
<1>5. ASSUME NEW x \in Slots, Ended(x) PROVE HandleChain'
  BY <1>2, <1>5 DEF Ended, End, TypeOK, Idle
<1>6. ASSUME NEW x \in Slots, ConsumeToken(x) PROVE HandleChain'
  <2>1. slot[x] \in Request /\ slot[x].kind = "consume" BY <1>6, SlotFields DEF ConsumeToken, Decided
  <2>2. slot'[x].kind # "finalize" /\ \A y \in Slots \ {x} : slot'[y] = slot[y]
    BY <1>6, <2>1 DEF ConsumeToken, End, TypeOK, Request, Idle
  <2> QED BY <1>2, <1>6, <2>2 DEF ConsumeToken
<1>7. ASSUME NEW x \in Slots, ConsumeHandle(x) PROVE HandleChain'
  <2>1. /\ slot[x] \in Request /\ slot[x].on \in Handles /\ slot[x].kind = "finalize"
        /\ UNCHANGED opened
    BY <1>7, HandleCases
  <2>2. CASE slot' = [slot EXCEPT ![x] = Idle] /\ UNCHANGED grants
    BY <1>2, <2>1, <2>2 DEF TypeOK, Idle
  <2>3. ASSUME NEW g \in Grants, grants[g] \in Grant, Unspent(g, slot[x].on),
               grants' = [grants EXCEPT ![g] = Spent(grants[g])],
               \/ slot' = [slot EXCEPT ![x] = Idle]
               \/ /\ slot[x].now < grants[g].handleExpiresAt
                  /\ slot' = [slot EXCEPT ![x] = Reading(slot[x], g)]
        PROVE  HandleChain'
    <3>1. /\ grants'[g].handle = grants[g].handle /\ grants'[g].consumed
          /\ grants'[g].handleExpiresAt = grants[g].handleExpiresAt
          /\ grants'[g].launchExpiresAt = grants[g].launchExpiresAt
          /\ \A k \in Grants \ {g} : grants'[k] = grants[k]
      BY <2>3, SpentFields DEF TypeOK
    <3>2. ~grants[g].consumed /\ opened[g] = 0 /\ grants[g].handle # None
      BY <2>1, <2>3 DEF Unspent, HandleChain
    <3>3. \A y \in Slots : Opening(y) => slot[y].on # g
      BY <3>2 DEF HandleChain
    <3>4. \A y \in Slots \ {x} : slot'[y] = slot[y] BY <2>3 DEF TypeOK
    <3>5. Opening(x)' => slot'[x].on = g /\ slot'[x].now < grants'[g].launchExpiresAt
      <4>1. CASE slot' = [slot EXCEPT ![x] = Idle] BY <4>1 DEF Opening, TypeOK, Idle
      <4>2. CASE /\ slot[x].now < grants[g].handleExpiresAt
                 /\ slot' = [slot EXCEPT ![x] = Reading(slot[x], g)]
        <5>1. slot'[x].on = g /\ slot'[x].now = slot[x].now
          BY <2>1, <4>2, ReadingFields DEF TypeOK
        <5>2. grants[g].handleExpiresAt <= grants[g].launchExpiresAt BY <3>2 DEF HandleChain
        <5>3. /\ slot[x].now \in Nat /\ grants[g].handleExpiresAt \in Nat
              /\ grants[g].launchExpiresAt \in Nat
          BY <2>1, <2>3, TimesAssumption DEF Request, Grant
        <5> QED BY <3>1, <4>2, <5>1, <5>2, <5>3
      <4> QED BY <2>3, <4>1, <4>2
    <3>6. \A k \in Grants : opened'[k] = opened[k] BY <2>1
    <3>7. \A k \in Grants : /\ grants'[k].handle = grants[k].handle
                            /\ grants'[k].handleExpiresAt = grants[k].handleExpiresAt
                            /\ grants'[k].launchExpiresAt = grants[k].launchExpiresAt
                            /\ grants[k].consumed => grants'[k].consumed
      BY <3>1, <3>2
    <3>8. \A y \in Slots : Opening(y)' =>
            /\ grants'[slot'[y].on].consumed /\ opened'[slot'[y].on] = 0
            /\ slot'[y].now < grants'[slot'[y].on].launchExpiresAt
            /\ \A z \in Slots : Opening(z)' /\ slot'[z].on = slot'[y].on => z = y
      BY <1>1, <3>1, <3>2, <3>3, <3>4, <3>5, <3>6, <3>7 DEF HandleChain, Opening
    <3>9. \A k \in Grants : opened'[k] <= 1 /\ (~grants'[k].consumed => opened'[k] = 0)
      BY <3>6, <3>7 DEF HandleChain
    <3>10. \A k \in Grants : grants'[k].handle # None => grants'[k].handleExpiresAt <= grants'[k].launchExpiresAt
      BY <3>7 DEF HandleChain
    <3>11. \A k, m \in Grants : k # m /\ grants'[k].handle # None => grants'[k].handle # grants'[m].handle
      BY <3>7 DEF HandleChain
    <3> QED BY <3>8, <3>9, <3>10, <3>11 DEF HandleChain
  <2> QED BY <1>7, <2>2, <2>3, HandleCases
<1>8. ASSUME NEW x \in Slots, AnswerFinalize(x) PROVE HandleChain'
  <2>1. Opening(x) /\ slot[x].on \in Grants BY <1>8, <1>1 DEF AnswerFinalize, Decided, Opening
  <2>2. slot'[x].kind # "finalize" /\ \A y \in Slots \ {x} : slot'[y] = slot[y]
    BY <1>8 DEF AnswerFinalize, End, TypeOK, Idle
  <2>3. grants' = grants BY <1>8 DEF AnswerFinalize
  <2>4. opened'[slot[x].on] = 1 /\ \A k \in Grants \ {slot[x].on} : opened'[k] = opened[k]
    BY <1>8, <2>1 DEF AnswerFinalize, TypeOK, HandleChain
  <2>5. grants[slot[x].on].consumed /\ \A y \in Slots \ {x} : Opening(y) => slot[y].on # slot[x].on
    BY <2>1 DEF HandleChain
  <2> QED BY <1>1, <2>1, <2>2, <2>3, <2>4, <2>5 DEF HandleChain, Opening
<1>9. ASSUME NEW x \in Slots, NEW t \in Tokens, IssueToken(x, t) PROVE HandleChain'
  BY <1>2, <1>9 DEF IssueToken, End, TypeOK, Idle
<1>10. ASSUME NEW x \in Slots, NEW g \in Grants, IssueAccessValidationGrant(x, g) PROVE HandleChain'
  <2>1. /\ slot'[x].kind # "finalize" /\ \A y \in Slots \ {x} : slot'[y] = slot[y]
        /\ UNCHANGED opened
    BY <1>10 DEF IssueAccessValidationGrant, End, TypeOK, Idle
  <2>2. /\ ~grants[g].consumed /\ grants[g].handle = None
        /\ ~grants'[g].consumed /\ grants'[g].handle = None
        /\ \A k \in Grants \ {g} : grants'[k] = grants[k]
    BY <1>10 DEF IssueAccessValidationGrant, TypeOK, GrantFor, NoGrant
  <2>3. \A y \in Slots : Opening(y) => slot[y].on # g BY <2>2 DEF HandleChain
  <2> QED BY <1>1, <2>1, <2>2, <2>3 DEF HandleChain, Opening
<1>11. ASSUME UNCHANGED <<slot, grants, opened>> PROVE HandleChain'
  BY <1>11 DEF HandleChain, Opening
<1>12. ASSUME UNCHANGED <<slot, opened>>,
              \A k \in Grants : /\ grants'[k].handle = grants[k].handle
                                /\ grants'[k].handleExpiresAt = grants[k].handleExpiresAt
                                /\ grants'[k].launchExpiresAt = grants[k].launchExpiresAt
                                /\ grants'[k].consumed = grants[k].consumed
       PROVE  HandleChain'
  BY <1>1, <1>12 DEF HandleChain, Opening
<1>13. ASSUME NEW g \in Grants, RevokeAccessValidationGrant(g) PROVE HandleChain'
  BY <1>12, <1>13, RevokeCases, ClosedFields DEF TypeOK
<1>14. ASSUME NEW g \in Grants, NEW h \in Handles, NEW e \in Nat, NEW n \in Nat,
              RegisterFinalizationHandle(g, h, e, n)
       PROVE  HandleChain'
  <2>1. /\ grants[g].handle = None /\ ~grants[g].consumed /\ e <= grants[g].launchExpiresAt
        /\ grants[g] \in Grant /\ UNCHANGED <<slot, opened>>
        /\ grants' = [grants EXCEPT ![g] = Bound(grants[g], h, e)]
    BY <1>14, RegisterCases
  <2>2. /\ grants'[g].handle = h /\ grants'[g].handleExpiresAt = e
        /\ grants'[g].launchExpiresAt = grants[g].launchExpiresAt /\ ~grants'[g].consumed
        /\ \A k \in Grants \ {g} : grants'[k] = grants[k]
    BY <2>1, BoundFields DEF TypeOK
  <2>3. \A k \in Grants : grants[k].handle # h BY <1>14 DEF RegisterFinalizationHandle
  <2>4. \A y \in Slots : Opening(y) => slot[y].on # g BY <2>1 DEF HandleChain
  <2> QED BY <1>1, <2>1, <2>2, <2>3, <2>4 DEF HandleChain, Opening
<1> QED
  BY <1>3, <1>4, <1>5, <1>6, <1>7, <1>8, <1>9, <1>10, <1>11, <1>13, <1>14, StepCases DEF Quiet

LEMMA HeldGrows ==
  ASSUME Watch, NEW x \in Slots, slot'[x] # Idle
  PROVE  held[x] \subseteq held'[x]
  BY DEF Watch

LEMMA PlannedStep ==
  ASSUME Inv, [Next]_vars, TypeOK'
  PROVE  Planned'
<1> USE DEF Inv
<1> SUFFICES ASSUME Next PROVE Planned'
  BY DEF Planned, vars
<1>0. Watch BY StepCases
<1>1. ASSUME NEW y \in Slots, slot'[y] = slot[y] \/ slot'[y] = Idle
      PROVE  /\ slot'[y].step = "read" =>
                  \A f \in Needs(slot'[y].kind) : f \in held'[y] \/ \E i \in 0..7 : <<i, f>> \in slot'[y].todo
             /\ slot'[y].step = "grant" => Needs(slot'[y].kind) \subseteq held'[y]
  <2>1. CASE slot'[y] = Idle BY <2>1 DEF Idle
  <2>2. CASE slot'[y] # Idle
    <3>1. held[y] \subseteq held'[y] BY <1>0, <2>2, HeldGrows
    <3>2. slot'[y] = slot[y] BY <1>1, <2>2
    <3> QED BY <3>1, <3>2 DEF Planned
  <2> QED BY <2>1, <2>2
<1>2. ASSUME NEW x \in Slots,
             \A y \in Slots \ {x} : slot'[y] = slot[y],
             slot'[x].step = "read" =>
               \A f \in Needs(slot'[x].kind) : f \in held'[x] \/ \E i \in 0..7 : <<i, f>> \in slot'[x].todo,
             slot'[x].step = "grant" => Needs(slot'[x].kind) \subseteq held'[x]
      PROVE  Planned'
  <2>1. ASSUME NEW y \in Slots
        PROVE  /\ slot'[y].step = "read" =>
                    \A f \in Needs(slot'[y].kind) : f \in held'[y] \/ \E i \in 0..7 : <<i, f>> \in slot'[y].todo
               /\ slot'[y].step = "grant" => Needs(slot'[y].kind) \subseteq held'[y]
    <3>1. CASE y = x BY <1>2, <3>1
    <3>2. CASE y # x BY <1>1, <1>2, <3>2
    <3> QED BY <3>1, <3>2
  <2> QED BY <2>1 DEF Planned
<1>3. ASSUME NEW x \in Slots, Began(x) PROVE Planned'
  <2>1. PICK kind \in {"issue", "consume", "finalize", "validate"},
             on \in Tokens \cup Grants \cup Handles \cup {None} : Begin(x, kind, on)
    BY <1>3 DEF Began
  <2>2. slot'[x].kind = kind /\ slot'[x].todo = PlanOf(kind) /\ slot'[x].step # "grant"
    BY <2>1 DEF Begin, TypeOK
  <2>4. \A y \in Slots \ {x} : slot'[y] = slot[y]
    BY <2>1 DEF Begin, TypeOK
  <2>3. \A f \in Needs(kind) : \E i \in 0..7 : <<i, f>> \in PlanOf(kind) BY PlanTyped
  <2>5. \A f \in Needs(slot'[x].kind) : \E i \in 0..7 : <<i, f>> \in slot'[x].todo
    BY <2>2, <2>3
  <2>6. slot'[x].step # "grant" BY <2>2
  <2> QED BY <1>2, <2>4, <2>5, <2>6
<1>4. ASSUME NEW x \in Slots, WasRead(x) PROVE Planned'
  <2>1. PICK i \in 0..7, f \in AllFacts :
          /\ slot[x].step = "read" /\ Holds(f, slot[x])
          /\ slot' = [slot EXCEPT ![x] = [slot[x] EXCEPT !.todo = slot[x].todo \ {<<i, f>>}]]
          /\ UNCHANGED <<world, tokens, grants, opened, answered>>
    BY <1>4 DEF WasRead
  <2>2. slot[x] \in Request BY <2>1, SlotFields
  <2>3. /\ slot'[x].kind = slot[x].kind /\ slot'[x].on = slot[x].on /\ slot'[x].now = slot[x].now
        /\ slot'[x].step = "read" /\ slot'[x].todo = slot[x].todo \ {<<i, f>>}
        /\ \A y \in Slots \ {x} : slot'[y] = slot[y]
    BY <2>1, <2>2 DEF TypeOK, Request
  <2>4. slot'[x] # Idle /\ Facts(slot'[x]) = Needs(slot[x].kind)
    BY <2>3 DEF Idle, Facts
  <2>5. Holds(f, slot[x])' BY <2>1, <2>3 DEF Holds, Allows
  <2>6. f \in Needs(slot[x].kind) => f \in held'[x]
    BY <1>0, <2>4, <2>5 DEF Watch
  <2>7. held[x] \subseteq held'[x] BY <1>0, <2>4, HeldGrows
  <2>8. ASSUME NEW k \in Needs(slot[x].kind)
        PROVE  k \in held'[x] \/ \E j \in 0..7 : <<j, k>> \in slot'[x].todo
    <3>1. CASE k = f BY <2>6, <3>1
    <3>2. CASE k # f /\ k \in held[x] BY <2>7, <3>2
    <3>3. CASE k # f /\ \E j \in 0..7 : <<j, k>> \in slot[x].todo
      <4>1. PICK j \in 0..7 : <<j, k>> \in slot[x].todo BY <3>3
      <4>2. <<j, k>> # <<i, f>> BY <3>3
      <4> QED BY <2>3, <4>1, <4>2
    <3> QED BY <2>1, <3>1, <3>2, <3>3 DEF Planned
  <2> QED BY <1>2, <2>3, <2>8
<1>5. ASSUME NEW x \in Slots, slot' = [slot EXCEPT ![x] = Idle] PROVE Planned'
  BY <1>2, <1>5 DEF TypeOK, Idle
<1>6. ASSUME NEW x \in Slots, ConsumeToken(x) PROVE Planned'
  <2>1. slot[x] \in Request BY <1>6, SlotFields DEF ConsumeToken, Decided
  <2>2. CASE slot' = [slot EXCEPT ![x] = [slot[x] EXCEPT !.step = "grant"]]
    <3>1. /\ slot'[x].kind = slot[x].kind /\ slot'[x].step = "grant"
          /\ \A y \in Slots \ {x} : slot'[y] = slot[y]
      BY <2>1, <2>2 DEF TypeOK, Request
    <3>2. held[x] \subseteq held'[x]
      <4>1. slot'[x] # Idle BY <3>1 DEF Idle
      <4> QED BY <1>0, <4>1, HeldGrows
    <3>3. Needs(slot[x].kind) \subseteq held[x] BY <1>6 DEF ConsumeToken, Decided, Planned
    <3> QED BY <1>2, <3>1, <3>2, <3>3
  <2> QED BY <1>5, <1>6, <2>1, <2>2 DEF ConsumeToken, End, TypeOK
<1>7. ASSUME NEW x \in Slots, ConsumeHandle(x) PROVE Planned'
  <2>1. slot[x] \in Request /\ slot[x].kind = "finalize" BY <1>7, HandleCases
  <2>2. slot[x].todo = PlanOf("finalize") BY <1>7 DEF ConsumeHandle, Addressed
  <2>3. ASSUME NEW g \in Grants, slot' = [slot EXCEPT ![x] = Reading(slot[x], g)]
        PROVE  Planned'
    <3>1. /\ slot'[x].kind = "finalize" /\ slot'[x].todo = PlanOf("finalize") /\ slot'[x].step = "read"
          /\ \A y \in Slots \ {x} : slot'[y] = slot[y]
      BY <2>1, <2>2, <2>3, ReadingFields DEF TypeOK
    <3>2. \A f \in Needs("finalize") : \E i \in 0..7 : <<i, f>> \in PlanOf("finalize") BY PlanTyped
    <3> QED BY <1>2, <3>1, <3>2
  <2> QED BY <1>5, <1>7, <2>3, HandleCases
<1>8. ASSUME slot' = slot PROVE Planned'
  BY <1>1, <1>8 DEF Planned
<1> QED
  BY <1>3, <1>4, <1>5, <1>6, <1>7, <1>8, StepCases
  DEF Ended, End, AnswerFinalize, IssueToken, IssueAccessValidationGrant,
      RevokeAccessValidationGrant, RegisterFinalizationHandle, Quiet

-----------------------------------------------------------------------------
LEMMA InitInv == Init => Inv
<1> SUFFICES ASSUME Init PROVE Inv
  OBVIOUS
<1>1. TypeOK
  <2>1. /\ world \in [Rows -> UNION {Values(f) : f \in Rows}]
        /\ \A f \in Rows : world[f] \in Values(f)
    <3>1. PICK e \in Entitlements :
            world = [f \in Rows |-> CASE f = "session" -> "open"
                                      [] f = "membership" -> "operator"
                                      [] f = "app" -> "available"
                                      [] f = "entitlement" -> e
                                      [] OTHER -> "active"]
      BY DEF Init
    <3>2. e \in Values("entitlement") BY EntitlementsAssumption
    <3>3. \A f \in Rows : world[f] \in Values(f) BY <3>1, <3>2 DEF Rows, Values
    <3> QED BY <3>1, <3>3 DEF Rows
  <2>2. /\ clock \in 0..MaxClock /\ changes \in 0..MaxChanges
    BY TimesAssumption DEF Init
  <2> QED BY <2>1, <2>2 DEF Init, TypeOK
<1>2. Addressed /\ Planned BY DEF Init, Addressed, Planned, Idle
<1>3. TokenChain BY NoneAssumption DEF Init, TokenChain, Granting, NoGrant, GrantFor, NoToken, Idle
<1>4. HandleChain BY DEF Init, HandleChain, Opening, NoGrant, GrantFor, Idle
<1> QED BY <1>1, <1>2, <1>3, <1>4 DEF Inv

LEMMA InvCorrect == Spec => []Inv
<1>1. Inv /\ [Next]_vars => Inv'
  <2> SUFFICES ASSUME Inv, [Next]_vars PROVE Inv'
    OBVIOUS
  <2>1. TypeOK' BY TypeStep DEF Inv
  <2> QED BY <2>1, AddressedStep, TokenChainStep, HandleChainStep, PlannedStep DEF Inv
<1> QED BY <1>1, InitInv, PTL DEF Spec

\* Every row and request has its type.
THEOREM TypeCorrect == Spec => []TypeOK
<1>1. Inv => TypeOK BY DEF Inv
<1> QED BY <1>1, InvCorrect, PTL

\* No launch token is issued or consumed, and no context answered, but on facts
\* each of which held at some instant of the request (the multi-read access
\* decision of protected-app-access-service.ts, without a positive cache).
THEOREM LiveDecisions == Spec => []DecidedOnLiveFacts
<1>1. Inv => DecidedOnLiveFacts
  <2> SUFFICES ASSUME Inv, NEW x \in Slots,
                      slot[x].step = "grant" \/ (slot[x].step = "read" /\ slot[x].todo = {})
               PROVE  Needs(slot[x].kind) \subseteq held[x]
    BY DEF DecidedOnLiveFacts
  <2> QED BY DEF Inv, Planned
<1> QED BY <1>1, InvCorrect, PTL

\* A launch token is answered once and makes one grant, however many consumers
\* race on it and wherever they stop (consumeUnconsumed's guarded UPDATE).
THEOREM TokensSpentOnce == Spec => []TokenSpentOnce
<1>1. Inv => TokenSpentOnce BY DEF Inv, TokenChain, TokenSpentOnce, TypeOK
<1> QED BY <1>1, InvCorrect, PTL

\* A finalization handle belongs to one grant and opens it once
\* (consumeByHandleHash's guarded UPDATE).
THEOREM HandlesSpentOnce == Spec => []HandleSpentOnce
<1>1. Inv => HandleSpentOnce BY DEF Inv, HandleChain, HandleSpentOnce, TypeOK
<1> QED BY <1>1, InvCorrect, PTL

\* What begins after the launch token's expiry is not finalized
\* (registerFinalizationHandle bounds the handle's expiry by the token's).
THEOREM FinalizedInTime == Spec => []FinalizedWithinLaunch
<1>1. Inv => FinalizedWithinLaunch BY DEF Inv, HandleChain, FinalizedWithinLaunch, Opening
<1> QED BY <1>1, InvCorrect, PTL
=============================================================================
