---------------------------- MODULE AdminLedger ----------------------------
(***************************************************************************)
(* What the admin mutations of src/src/platform/workspace-admin-service.ts *)
(* promise of the two tables they write, however their transactions        *)
(* interleave: a membership changes only by the hand of somebody else who  *)
(* is, at that very step, an active admin of the workspace; and the step   *)
(* that takes a user's last active membership ends the user's sessions.    *)
(***************************************************************************)
CONSTANTS Workspaces, People, Memberships, InitialMembers

VARIABLES
  member,  \* member[w][p]: the membership row of p in w
  live     \* the people who have a session that is not revoked

vars == <<member, live>>

Init == member \in InitialMembers /\ live = People

Administers(a, w) == member[w][a].role = "admin" /\ member[w][a].status = "active"
Affiliated(m, p) == \E w \in Workspaces : m[w][p].status = "active"

Change(a, w, p, m) ==
  /\ a # p
  /\ Administers(a, w)
  /\ member' = [member EXCEPT ![w][p] = m]
  /\ live' \in {live, live \ {p}}
  /\ Affiliated(member, p) /\ ~Affiliated(member', p) => p \notin live'

Logout(p) == live' = live \ {p} /\ UNCHANGED member

Next ==
  \/ \E a \in People, w \in Workspaces, p \in People, m \in Memberships : Change(a, w, p, m)
  \/ \E p \in People : Logout(p)

Spec == Init /\ [][Next]_vars
=============================================================================
