------------------------- MODULE MCAdminTransaction -------------------------
(* Two admin requests of any kind, for TLC. *)
EXTENDS AdminTransaction, Sequences

CONSTANTS w1, w2, a, b, c, r1, r2

Row(r, s) == [role |-> r, status |-> s]

\* An admin of both workspaces, an admin of the first who is disabled in the second, an operator of both.
MCInitialMembers ==
  {[w \in Workspaces |-> [p \in People |->
      CASE p = a -> Row("admin", "active")
        [] p = b -> IF w = w1 THEN Row("admin", "active") ELSE Row("operator", "disabled")
        [] OTHER -> Row("operator", "active")]]}

Op(k, r) == [kind |-> k, role |-> r]
PairOperations ==
  {Op("role", "admin"), Op("role", "operator"), Op("add", "operator"),
   Op("disable", "none"), Op("reactivate", "none"), Op("remove", "none")}

\* Somebody who is no admin at first asks for something only while the other
\* request is about that very membership; and of two pairs of requests that differ
\* in who is r1 and who is r2 one is enough.
Position(x, seq) == CHOOSE i \in DOMAIN seq : seq[i] = x
Number(r) ==
  LET ops == <<Op("role", "admin"), Op("role", "operator"), Op("add", "operator"),
               Op("disable", "none"), Op("reactivate", "none"), Op("remove", "none")>>
  IN Position(req[r].actor, <<a, b, c>>) + 3 * Position(req[r].target, <<a, b, c>>)
     + 12 * Position(req[r].workspace, <<w1, w2>>) + 36 * Position(req[r].op, ops)
EachPairOnce ==
  /\ Number(r1) <= Number(r2)
  /\ w1 \in {req[r1].workspace, req[r2].workspace}
  /\ \A r, o \in Requests :
       LET x == req[r]
       IN r # o => \/ x.actor = a \/ (x.actor = b /\ x.workspace = w1)
                   \/ req[o].target = x.actor /\ req[o].workspace = x.workspace
\* Nor does it matter whether somebody logs out whom neither request is about.
OthersStay == \A p \in People \ live : \E r \in Requests : p \in {req[r].actor, req[r].target}
=============================================================================
