--------------------------- MODULE WorkspaceAdmin ---------------------------
(***************************************************************************)
(* The membership core of the platform: who belongs to a workspace, in     *)
(* which role, who is waiting to be let in, and which platform sessions    *)
(* are open.  It models the mutations of                                   *)
(* src/src/platform/workspace-admin-service.ts, the sign-in of             *)
(* src/src/auth/platform-identity-resolver.ts, logout                      *)
(* (auth/session-revocation-service.ts) and the operator's seed commands   *)
(* (platform/internal-access-seed-service.ts).                             *)
(*                                                                         *)
(* Every mutation the code wraps in workspaceAdminTransactions.run is one  *)
(* atomic action here: the transaction is SERIALIZABLE, so it takes effect *)
(* at its place in a serial order or not at all (AdminTransaction.tla      *)
(* models that wrapper itself).  What the code does OUTSIDE a transaction  *)
(* is split at its awaits: the sign-in of a known identity checks the      *)
(* memberships in one step and inserts the session in a later one, and     *)
(* logout reads the session before it revokes it.                          *)
(*                                                                         *)
(* A person stands for one normalized e-mail, the one user row it may have *)
(* (users.email is unique) and the one provider subject that verifies it.  *)
(***************************************************************************)
EXTENDS Naturals, FiniteSets

CONSTANTS
  Workspaces,     \* workspace rows the seed command may create
  People,         \* normalized e-mail addresses
  SessionIds,     \* ids of the platform sessions; bounds their number
  Roles,          \* the membership roles
  LegacyUsers,    \* people who start with a user row but no provider identity
  MaySuspend,     \* workspaces an operator may suspend or reinstate
  MayDeactivate,  \* people an operator may deactivate
  Nobody,         \* the owner of a session id that is not in use
  MaxExpired,     \* bound: sessions that reach their expiry
  MaxLogouts,     \* bound: sessions a logout request is made for
  MaxSeeded       \* bound: memberships the seed command inserts

ASSUME RolesAssumption == "admin" \in Roles /\ "none" \notin Roles
ASSUME PeopleAssumption == IsFiniteSet(People) /\ Nobody \notin People
ASSUME BoundsAssumption == MaxExpired \in Nat /\ MaxLogouts \in Nat /\ MaxSeeded \in Nat
ASSUME OperatorAssumption ==
  LegacyUsers \subseteq People /\ MaySuspend \subseteq Workspaces /\ MayDeactivate \subseteq People

VARIABLES
  member,       \* member[w][p]: the membership row of p in w, or NoMembership
  pending,      \* pending[w][p]: the pending approval of p in w, or NoApproval
  user,         \* user[p]: "none", "unlinked" (no provider identity) or "linked"
  inactive,     \* people whose user row is not in status active
  suspended,    \* workspaces that are not in status active
  sessions,     \* sessions[s]: the session row
  signin,       \* signin[p]: where the sign-in of a known identity stands
  logout,       \* logout[s]: where the logout request on session s stands
  trail,        \* the memberships the audit log replays to
  seeded        \* history: memberships the seed command inserted, unaudited

vars == <<member, pending, user, inactive, suspended, sessions, signin, logout,
          trail, seeded>>

NoMembership == [role |-> "none", status |-> "none"]
Membership == [role : Roles, status : {"active", "disabled"}]
\* An event replayed on a row that was never audited sets only one field.
Replayed == [role : Roles \cup {"none"}, status : {"active", "disabled", "none"}]
ActiveIn(r) == [role |-> r, status |-> "active"]

\* requestedByUserId is null for a first-admin bootstrap, else the admin's id.
NoApproval == [role |-> "none", by |-> "none"]
Approval == [role : Roles, by : {"admin", "seed"}]

\* revokedAt is 0 for NULL; every UPDATE of it writes a later instant.
NoSession == [user |-> Nobody, expired |-> FALSE, revokedAt |-> 0]
Session == [user : People \cup {Nobody}, expired : BOOLEAN, revokedAt : Nat]

TypeOK ==
  /\ member \in [Workspaces -> [People -> Membership \cup {NoMembership}]]
  /\ pending \in [Workspaces -> [People -> Approval \cup {NoApproval}]]
  /\ user \in [People -> {"none", "unlinked", "linked"}]
  /\ inactive \subseteq People
  /\ suspended \subseteq Workspaces
  /\ sessions \in [SessionIds -> Session]
  /\ signin \in [People -> {"idle", "checked"}]
  /\ logout \in [SessionIds -> {"idle", "found", "done"}]
  /\ trail \in [Workspaces -> [People -> Replayed]]
  /\ seeded \subseteq Workspaces \X People

\* A freshly migrated database, but for the rows of LegacyUsers.
Init ==
  /\ member = [w \in Workspaces |-> [p \in People |-> NoMembership]]
  /\ pending = [w \in Workspaces |-> [p \in People |-> NoApproval]]
  /\ user = [p \in People |-> IF p \in LegacyUsers THEN "unlinked" ELSE "none"]
  /\ inactive = {}
  /\ suspended = {}
  /\ sessions = [s \in SessionIds |-> NoSession]
  /\ signin = [p \in People |-> "idle"]
  /\ logout = [s \in SessionIds |-> "idle"]
  /\ trail = [w \in Workspaces |-> [p \in People |-> NoMembership]]
  /\ seeded = {}

-----------------------------------------------------------------------------
(* Reading the tables *)

Members(w) == {p \in People : member[w][p] # NoMembership}
\* MUTANT of ActiveAdmin: the membership's status is not looked at.
AdminByRole(m) == m.role = "admin"

ActiveAdmin(m) == m.role = "admin" /\ m.status = "active"
ActiveAdmins(w) == {p \in People : ActiveAdmin(member[w][p])}
Affiliations(p) == {w \in Workspaces : member[w][p].status = "active"}
\* MUTANT of Waiting: approvals of suspended workspaces are passed over.
WaitingInActive(p) == {w \in Workspaces \ suspended : pending[w][p] # NoApproval}
Waiting(p) == {w \in Workspaces : pending[w][p] # NoApproval}
Bootstrap(a) == a.role = "admin" /\ a.by = "seed"
Bootstraps(w) == {q \in People : Bootstrap(pending[w][q])}
Unrevoked(s) == sessions[s].user \in People /\ sessions[s].revokedAt = 0
\* MUTANT of Usable: findUsableSession without the revoked_at condition.
UnexpiredOnly(s) == sessions[s].user \in People /\ ~sessions[s].expired

Usable(s) == Unrevoked(s) /\ ~sessions[s].expired

\* requireAdminContext: the session's user administers w.
AdminContext(s, w) ==
  /\ Usable(s)
  /\ sessions[s].user \notin inactive
  /\ w \notin suspended
  /\ ActiveAdmin(member[w][sessions[s].user])

-----------------------------------------------------------------------------
(* Writing the tables *)

SetMembership(w, p, m) == member' = [member EXCEPT ![w][p] = m]
SetApproval(w, p, a) == pending' = [pending EXCEPT ![w][p] = a]

\* appendAuditEvent, kept as what the log replays to: m is what the event's
\* metadata (newRole, newStatus) makes of the membership it names.
AuditMembership(w, p, m) == trail' = [trail EXCEPT ![w][p] = m]

\* sessions.revokeActiveForUser: only rows whose revoked_at is null.
RevokedForUser(p) ==
  [s \in SessionIds |->
     IF sessions[s].user = p /\ sessions[s].revokedAt = 0
     THEN [sessions[s] EXCEPT !.revokedAt = 1] ELSE sessions[s]]

\* MUTANT of RevokeUnlessAffiliated: any membership row left counts.
RevokeUnlessMember(w, p) ==
  sessions' = IF \E v \in Workspaces \ {w} : p \in Members(v) THEN sessions ELSE RevokedForUser(p)

\* revokeSessionsWithoutActiveMemberships, run once p's membership of w has
\* been disabled or deleted: a user with an active membership left keeps its
\* sessions.
RevokeUnlessAffiliated(w, p) ==
  sessions' = IF Affiliations(p) \ {w} # {} THEN sessions ELSE RevokedForUser(p)

\* findTargetMembership and the two guards of an admin's change to a membership.
MayTarget(s, w, p) ==
  /\ AdminContext(s, w)
  /\ p \in Members(w)
  /\ p # sessions[s].user

LastAdmin(w, p) == ActiveAdmin(member[w][p]) /\ Cardinality(ActiveAdmins(w)) <= 1

-----------------------------------------------------------------------------
(* The admin mutations, each one serializable transaction *)

ChangeWorkspaceMemberRole(s, w, p, r) ==
  /\ MayTarget(s, w, p)
  /\ ~(r # "admin" /\ LastAdmin(w, p))
  /\ SetMembership(w, p, [member[w][p] EXCEPT !.role = r])
  /\ AuditMembership(w, p, [trail[w][p] EXCEPT !.role = r])
  /\ UNCHANGED <<pending, user, inactive, suspended, sessions, signin, logout, seeded>>

DisableWorkspaceMembership(s, w, p) ==
  /\ MayTarget(s, w, p)
  /\ ~LastAdmin(w, p)
  /\ SetMembership(w, p, [member[w][p] EXCEPT !.status = "disabled"])
  /\ RevokeUnlessAffiliated(w, p)
  /\ AuditMembership(w, p, [trail[w][p] EXCEPT !.status = "disabled"])
  /\ UNCHANGED <<pending, user, inactive, suspended, signin, logout, seeded>>

\* MUTANT of ReactivateWorkspaceMembership: an upsert of whatever is not active.
ReactivateOrInsert(s, w, p) ==
  /\ AdminContext(s, w) /\ p # sessions[s].user
  /\ member[w][p].status # "active"
  /\ SetMembership(w, p, [member[w][p] EXCEPT !.status = "active"])
  /\ AuditMembership(w, p, [trail[w][p] EXCEPT !.status = "active"])
  /\ UNCHANGED <<pending, user, inactive, suspended, sessions, signin, logout, seeded>>

\* MUTANT of ReactivateWorkspaceMembership: the audit event is forgotten.
ReactivateUnaudited(s, w, p) ==
  /\ MayTarget(s, w, p)
  /\ member[w][p].status = "disabled"
  /\ SetMembership(w, p, [member[w][p] EXCEPT !.status = "active"])
  /\ UNCHANGED <<pending, user, inactive, suspended, sessions, signin, logout, trail, seeded>>

ReactivateWorkspaceMembership(s, w, p) ==
  /\ MayTarget(s, w, p)
  /\ member[w][p].status = "disabled"
  /\ SetMembership(w, p, [member[w][p] EXCEPT !.status = "active"])
  /\ AuditMembership(w, p, [trail[w][p] EXCEPT !.status = "active"])
  /\ UNCHANGED <<pending, user, inactive, suspended, sessions, signin, logout, seeded>>

RemoveWorkspaceMembership(s, w, p) ==
  /\ MayTarget(s, w, p)
  /\ ~LastAdmin(w, p)
  /\ SetMembership(w, p, NoMembership)
  /\ RevokeUnlessAffiliated(w, p)
  /\ AuditMembership(w, p, NoMembership)
  /\ UNCHANGED <<pending, user, inactive, suspended, signin, logout, seeded>>

\* createActiveMembershipForExistingProviderUser.
MakeMember(w, p, r) == SetMembership(w, p, ActiveIn(r)) /\ AuditMembership(w, p, ActiveIn(r))

\* addExistingWorkspaceUserByEmail, and the branch of addWorkspaceMemberByEmail
\* for an active user with a provider identity: a member at once.
AddLinkedMember(s, w, p, r) ==
  /\ AdminContext(s, w)
  /\ user[p] = "linked" /\ p \notin inactive
  /\ p \notin Members(w)
  /\ MakeMember(w, p, r)
  /\ UNCHANGED <<pending, user, inactive, suspended, sessions, signin, logout, seeded>>

\* The other branch: nobody the platform can identify yet, so a pending approval.
AddPendingMember(s, w, p, r) ==
  /\ AdminContext(s, w)
  /\ user[p] # "linked" /\ p \notin inactive
  /\ p \notin Members(w)
  /\ pending[w][p] = NoApproval
  /\ SetApproval(w, p, [role |-> r, by |-> "admin"])
  /\ UNCHANGED <<member, user, inactive, suspended, sessions, signin, logout, trail, seeded>>

RevokeWorkspaceMembershipApproval(s, w, p) ==
  /\ AdminContext(s, w)
  /\ pending[w][p] # NoApproval
  /\ SetApproval(w, p, NoApproval)
  /\ UNCHANGED <<member, user, inactive, suspended, sessions, signin, logout, trail, seeded>>

-----------------------------------------------------------------------------
(* Sign-in *)

\* assertUserHasActiveWorkspaceMembership.
MaySignIn(p) == Affiliations(p) \ suspended # {}

\* findProviderIdentitySafely and findUserByIdSafely.
KnownIdentity(p) == user[p] = "linked" /\ p \notin inactive

\* A known identity: the user and its memberships are read and judged here...
CheckKnownIdentity(p) ==
  /\ KnownIdentity(p)
  /\ signin[p] = "idle"
  /\ MaySignIn(p)
  /\ signin' = [signin EXCEPT ![p] = "checked"]
  /\ UNCHANGED <<member, pending, user, inactive, suspended, sessions, logout, trail, seeded>>

OpenSession(s, p) ==
  /\ sessions[s].user = Nobody
  /\ sessions' = [sessions EXCEPT ![s] = [user |-> p, expired |-> FALSE, revokedAt |-> 0]]

\* ... and the session is inserted here, outside any transaction.
CreateSession(s, p) ==
  /\ signin[p] = "checked"
  /\ OpenSession(s, p)
  /\ signin' = [signin EXCEPT ![p] = "idle"]
  /\ UNCHANGED <<member, pending, user, inactive, suspended, logout, trail, seeded>>

\* The insert fails, or the process dies before it.
AbandonSignIn(p) ==
  /\ signin[p] = "checked"
  /\ signin' = [signin EXCEPT ![p] = "idle"]
  /\ UNCHANGED <<member, pending, user, inactive, suspended, sessions, logout, trail, seeded>>

\* assertApprovalsCanBeAccepted for p's approval in w.
Acceptable(w, p) ==
  /\ w \notin suspended
  /\ IF Bootstrap(pending[w][p]) /\ Members(w) = {}
     THEN Bootstraps(w) = {p}
     ELSE pending[w][p].by # "seed"
  /\ p \notin Members(w)

\* findOrCreatePendingApprovedUser: nobody has the e-mail yet, or an active user
\* that has no provider identity.
MayLink(p) == user[p] # "linked" /\ p \notin inactive

\* createUserForNewProviderIdentity if there is no user, and createProviderIdentity.
Link(p) == user' = [user EXCEPT ![p] = "linked"]

\* acceptPendingApproval, for each of them: the membership, the approval, the event.
AcceptWaiting(p) ==
  /\ member' = [w \in Workspaces |->
                  IF w \in Waiting(p) THEN [member[w] EXCEPT ![p] = ActiveIn(pending[w][p].role)]
                  ELSE member[w]]
  /\ trail' = [w \in Workspaces |->
                 IF w \in Waiting(p) THEN [trail[w] EXCEPT ![p] = ActiveIn(pending[w][p].role)]
                 ELSE trail[w]]
  /\ pending' = [w \in Workspaces |->
                   IF w \in Waiting(p) THEN [pending[w] EXCEPT ![p] = NoApproval] ELSE pending[w]]

\* The first sign-in of an identity: one serializable transaction accepts every
\* pending approval of the e-mail, or none of them.
AcceptPendingApprovals(s, p) ==
  /\ MayLink(p)
  /\ Waiting(p) # {} /\ \A w \in Waiting(p) : Acceptable(w, p)
  /\ Link(p)
  /\ AcceptWaiting(p)
  /\ OpenSession(s, p)
  /\ UNCHANGED <<inactive, suspended, signin, logout, seeded>>

-----------------------------------------------------------------------------
(* Logout: revokePlatformSession reads the row, then updates it by id alone *)

FindSessionToRevoke(s) ==
  /\ Unrevoked(s) /\ logout[s] = "idle"
  /\ Cardinality({t \in SessionIds : logout[t] # "idle"}) < MaxLogouts
  /\ logout' = [logout EXCEPT ![s] = "found"]
  /\ UNCHANGED <<member, pending, user, inactive, suspended, sessions, signin, trail, seeded>>

RevokeFoundSession(s) ==
  /\ logout[s] = "found"
  /\ sessions' = [sessions EXCEPT ![s].revokedAt = @ + 1]
  /\ logout' = [logout EXCEPT ![s] = "done"]
  /\ UNCHANGED <<member, pending, user, inactive, suspended, signin, trail, seeded>>

SessionExpires(s) ==
  /\ sessions[s].user \in People /\ ~sessions[s].expired
  /\ Cardinality({t \in SessionIds : sessions[t].expired}) < MaxExpired
  /\ sessions' = [sessions EXCEPT ![s].expired = TRUE]
  /\ UNCHANGED <<member, pending, user, inactive, suspended, signin, logout, trail, seeded>>

-----------------------------------------------------------------------------
(* The operator: seed commands, and status changes made in the database *)

\* ensureWorkspace: the row is inserted active, or it is there and active.
EnsureWorkspace(w) == w \notin suspended

\* MUTANT of EnsureFirstAdminBootstrapApproval: a second first admin is let wait.
EnsureAnotherBootstrap(w, p) ==
  /\ EnsureWorkspace(w)
  /\ Members(w) = {}
  /\ pending[w][p] = NoApproval
  /\ SetApproval(w, p, [role |-> "admin", by |-> "seed"])
  /\ UNCHANGED <<member, user, inactive, suspended, sessions, signin, logout, trail, seeded>>

\* ensureFirstAdminApproval: no other first admin waits.
EnsureFirstAdminApproval(w, p) ==
  /\ pending[w][p] = NoApproval /\ Bootstraps(w) = {}
  /\ SetApproval(w, p, [role |-> "admin", by |-> "seed"])

\* ensureFirstAdminBootstrapApproval, in one serializable transaction.
EnsureFirstAdminBootstrapApproval(w, p) ==
  /\ EnsureWorkspace(w)
  /\ Members(w) = {}
  /\ EnsureFirstAdminApproval(w, p)
  /\ UNCHANGED <<member, user, inactive, suspended, sessions, signin, logout, trail, seeded>>

\* findExistingUser, and what seedInternalAccessForExistingUser asks of the user
\* before: a provider identity.
ExistingUser(p) == user[p] # "none" /\ p \notin inactive
SeedUser(p) == ExistingUser(p) /\ user[p] = "linked"

\* ensureMembership; a membership that is there is left alone or is an error.
EnsureMembership(w, p, r) ==
  /\ p \notin Members(w)
  /\ Cardinality(seeded) < MaxSeeded
  /\ SetMembership(w, p, ActiveIn(r))
  /\ seeded' = seeded \cup {<<w, p>>}

\* ensureInternalWorkspaceAppAccess for an existing user: no transaction, no
\* audit event; the membership insert is its last step.
EnsureInternalWorkspaceAppAccess(w, p, r) ==
  /\ EnsureWorkspace(w)
  /\ SeedUser(p)
  /\ EnsureMembership(w, p, r)
  /\ UNCHANGED <<pending, user, inactive, suspended, sessions, signin, logout, trail>>

SetWorkspaceStatus(w) ==
  /\ suspended' = IF w \in suspended THEN suspended \ {w} ELSE suspended \cup {w}
  /\ UNCHANGED <<member, pending, user, inactive, sessions, signin, logout, trail, seeded>>

DeactivateUser(p) ==
  /\ user[p] # "none" /\ p \notin inactive
  /\ inactive' = inactive \cup {p}
  /\ UNCHANGED <<member, pending, user, suspended, sessions, signin, logout, trail, seeded>>

-----------------------------------------------------------------------------
AdminStep(s, w, p) ==
  \/ \E r \in Roles : ChangeWorkspaceMemberRole(s, w, p, r)
  \/ DisableWorkspaceMembership(s, w, p)
  \/ ReactivateWorkspaceMembership(s, w, p)
  \/ RemoveWorkspaceMembership(s, w, p)
  \/ \E r \in Roles : AddLinkedMember(s, w, p, r)
  \/ \E r \in Roles : AddPendingMember(s, w, p, r)
  \/ RevokeWorkspaceMembershipApproval(s, w, p)

SignInStep(p) ==
  \/ CheckKnownIdentity(p)
  \/ AbandonSignIn(p)
  \/ \E s \in SessionIds : CreateSession(s, p) \/ AcceptPendingApprovals(s, p)

SessionStep(s) == FindSessionToRevoke(s) \/ RevokeFoundSession(s) \/ SessionExpires(s)

OperatorStep ==
  \/ \E w \in Workspaces, p \in People : EnsureFirstAdminBootstrapApproval(w, p)
  \/ \E w \in Workspaces, p \in People, r \in Roles : EnsureInternalWorkspaceAppAccess(w, p, r)
  \/ \E w \in MaySuspend : SetWorkspaceStatus(w)
  \/ \E p \in MayDeactivate : DeactivateUser(p)

Next ==
  \/ \E s \in SessionIds, w \in Workspaces, p \in People : AdminStep(s, w, p)
  \/ \E p \in People : SignInStep(p)
  \/ \E s \in SessionIds : SessionStep(s)
  \/ OperatorStep

Spec == Init /\ [][Next]_vars

-----------------------------------------------------------------------------
(* Properties *)

\* A workspace that has an active admin never loses its last one, whatever
\* the admins do to each other (the last_admin_required and
\* self_change_not_allowed guards of the three membership mutations).
AdminRetained ==
  [][\A w \in Workspaces :
       (\E p \in People : member[w][p] = ActiveIn("admin"))
         => (\E p \in People : member'[w][p] = ActiveIn("admin"))]_vars

\* The step that takes a user's last active membership away revokes every
\* session the user has (revokeSessionsWithoutActiveMemberships): none is
\* left usable by a membership that is only disabled elsewhere.
LastMembershipEndsSessions ==
  [][\A p \in People :
       /\ \E w \in Workspaces : member[w][p].status = "active"
       /\ ~\E w \in Workspaces : member'[w][p].status = "active"
       => \A s \in SessionIds : sessions'[s].user = p => sessions'[s].revokedAt # 0]_vars

\* Nobody gains an active membership or a role by itself: the seed command
\* wrote it, or an approval of exactly that role was waiting for it, or some
\* other active admin of that workspace held a usable session
\* (requireAdminContext).
GainsAreGranted ==
  [][\A w \in Workspaces, p \in People :
       member'[w][p] # member[w][p] /\ member'[w][p].status = "active"
         => \/ <<w, p>> \in seeded'
            \/ pending[w][p].role = member'[w][p].role
            \/ \E q \in People \ {p}, s \in SessionIds :
                 /\ member[w][q] = ActiveIn("admin")
                 /\ sessions[s].user = q /\ sessions[s].revokedAt = 0 /\ ~sessions[s].expired]_vars

\* Replaying the audit log of a workspace gives exactly its memberships, roles
\* and statuses, but for rows the seed command inserted without an event: no
\* mutation is committed without its event, and none is recorded wrongly.
AuditReplays ==
  \A w \in Workspaces, p \in People : <<w, p>> \notin seeded => trail[w][p] = member[w][p]

\* An approval an admin asked for never waits for somebody the platform can
\* already identify: the identity's first sign-in accepts every approval of
\* its e-mail, and later additions are memberships at once.  (An identity that
\* is known never consults pending approvals again, so one would be lost.)
RequestedApprovalsAwaitUnknown ==
  \A w \in Workspaces, p \in People : pending[w][p].by = "admin" => user[p] # "linked"

\* A workspace somebody belongs to has an active admin, unless the seed command
\* inserted memberships into it: the first member is a bootstrapped admin, an
\* approval an admin asked for cannot outlive the workspace's admins and be
\* accepted into a workspace that has none, and no mutation takes the last away.
NeverOrphaned ==
  \A w \in Workspaces :
    (\A p \in People : <<w, p>> \notin seeded) /\ (\E p \in People : member[w][p] # NoMembership)
      => \E p \in People : member[w][p] = ActiveIn("admin")

\* The first sign-in is all or nothing: one approval that cannot be accepted
\* keeps the person out of every workspace.  Only the operator can bring that
\* about: by suspending the workspace, or by seeding a membership into it.
BlockedOnlyByOperator ==
  \A p \in People, w \in Workspaces :
    w \in Waiting(p) /\ user[p] # "linked" /\ ~Acceptable(w, p)
      => w \in suspended \/ \E q \in People : <<w, q>> \in seeded

-----------------------------------------------------------------------------
(* What the documents say and the code does not do *)

\* docs/auth-session-security-contract.md:25: removing a member "prevents new
\* Platform session creation when no active workspace membership or pending
\* approval remains".  The session of a known identity is inserted after the
\* check, outside a transaction.
SessionCreationAuthorized ==
  [][\A s \in SessionIds :
       sessions[s].user = Nobody /\ sessions'[s].user # Nobody
         => \E w \in Workspaces : member'[w][sessions'[s].user].status = "active"]_vars
=============================================================================
