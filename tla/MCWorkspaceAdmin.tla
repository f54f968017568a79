-------------------------- MODULE MCWorkspaceAdmin --------------------------
(* Small instances of WorkspaceAdmin for TLC. *)
EXTENDS WorkspaceAdmin, TLC

CONSTANTS w1, w2, a, b, c, s1, s2, s3

\* Session ids are interchangeable: nothing but equality is asked of them.
Symmetry == Permutations(SessionIds)

\* Three people in one workspace, with three sessions; one may be deactivated, one
\* was there before the identity provider, and a session may expire ...
OneTeam ==
  /\ member[w2] = [p \in People |-> NoMembership] /\ pending[w2] = [p \in People |-> NoApproval]
  /\ suspended = {} /\ \A s \in SessionIds : logout[s] = "idle"

\* ... or two people in two workspaces, with two sessions; one workspace may be
\* suspended and a session logged out.
TwoWorkspaces ==
  /\ \A w \in Workspaces : member[w][c] = NoMembership /\ pending[w][c] = NoApproval
  /\ inactive = {} /\ \A s \in SessionIds : ~sessions[s].expired
  /\ Cardinality({s \in SessionIds : sessions[s].user # Nobody}) <= 2

OneOrTwo == OneTeam \/ TwoWorkspaces
=============================================================================
