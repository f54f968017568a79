-------------------------- MODULE RestorationProofs --------------------------
(***************************************************************************)
(* Theorems about the ways back of a database: those of DurablePlan, which  *)
(* changes rights and takes the change back, and those of PersistedLocator,  *)
(* which finds the backup to restore.  The two share no variable.            *)
(***************************************************************************)
EXTENDS DurablePlan, PersistedLocator, SequenceTheorems, WellFoundedInduction, TLAPS

(***************************************************************************)
(* DurablePlan: PlanInvariant and CheckedInverseRestores.                   *)
(*                                                                         *)
(* Most of it is about operators.  Applied and Deriving are recursive        *)
(* functions of the place in the plan, so that what is true after every      *)
(* statement is proved by induction over a set of places (Inductive).  A      *)
(* list of entries is followed through one statement and back through its     *)
(* inverse (ListForward, ListBackward); from there to catalogues, to a whole  *)
(* plan (ForwardRuns, BackwardRuns), and to the call, by PlanIInv.            *)
(***************************************************************************)

\* Induction over a set: the library's theorems take an operator for the property.
LEMMA Inductive ==
  ASSUME NEW T, 0 \in T, \A n \in Nat : n \in T => n + 1 \in T
  PROVE  \A n \in Nat : n \in T
<1> SUFFICES ASSUME NEW m \in Nat, m \notin T PROVE FALSE
  OBVIOUS
<1> DEFINE out == {n \in Nat : n \notin T}
<1>1. IsWellFoundedOn(OpToRel(<, Nat), Nat)
  BY NatLessThanWellFounded
<1>2. PICK k \in out : \A j \in out : ~ (<<j, k>> \in OpToRel(<, Nat))
  BY <1>1, WFMin
<1>3. k \in Nat /\ k # 0
  OBVIOUS
<1>4. k - 1 \in Nat /\ k - 1 < k /\ (k - 1) + 1 = k
  BY <1>3
<1>5. k - 1 \in T
  BY <1>2, <1>3, <1>4 DEF OpToRel
<1> QED
  BY <1>3, <1>4, <1>5

\* A function on 1..n is a sequence of that length.
LEMMA FunctionSeq ==
  ASSUME NEW V, NEW n \in Nat, NEW f \in [1..n -> V]
  PROVE  f \in Seq(V) /\ Len(f) = n
<1>1. f \in Seq(V)
  BY SeqDef
<1>2. Len(f) \in Nat /\ 1..Len(f) = 1..n
  BY <1>1, LenProperties
<1> QED
  BY <1>1, <1>2

\* A sequence in the other order.
LEMMA ReverseIs ==
  ASSUME NEW V, NEW q \in Seq(V)
  PROVE  /\ Reverse(q) \in Seq(V) /\ Len(Reverse(q)) = Len(q)
         /\ \A i \in 1..Len(q) : Reverse(q)[i] = q[(Len(q) - i) + 1]
<1> DEFINE n == Len(q)
<1>1. n \in Nat /\ q \in [1..n -> V]
  BY LenProperties
<1>2. Reverse(q) = [i \in 1..n |-> q[(n - i) + 1]]
  BY DEF Reverse
<1> HIDE DEF n
<1>3. \A i \in 1..n : (n - i) + 1 \in 1..n
  BY <1>1
<1>4. Reverse(q) \in [1..n -> V]
  BY <1>1, <1>2, <1>3
<1> QED
  BY <1>1, <1>2, <1>4, FunctionSeq DEF n

-----------------------------------------------------------------------------
(* What there is after each statement *)

\* The state of a transaction after i of its statements, and the one it is made from.
LEMMA AppliedIs ==
  ASSUME NEW c, NEW u, NEW ops, Len(ops) \in Nat
  PROVE  /\ Applied(c, u, ops)[0] = [ok |-> TRUE, cat |-> c]
         /\ \A i \in 1..Len(ops) : Applied(c, u, ops)[i] = Statement(Applied(c, u, ops)[i - 1], u, ops[i])
<1> DEFINE base == [ok |-> TRUE, cat |-> c]
           n == Len(ops)
           Is(f, k) == f = [i \in 0..k |-> IF i = 0 THEN base ELSE Statement(f[i - 1], u, ops[i])]
           T == {k \in Nat : \E f : Is(f, k)}
<1> HIDE DEF base
<1>1. 0 \in T
  <2> DEFINE f == [i \in 0..0 |-> base]
  <2>1. Is(f, 0)
    OBVIOUS
  <2> QED
    BY <2>1
<1>2. ASSUME NEW k \in Nat, k \in T PROVE k + 1 \in T
  <2>1. PICK f : Is(f, k)
    BY <1>2
  <2> DEFINE next == Statement(f[k], u, ops[k + 1])
             g == [i \in 0..(k + 1) |-> IF i = k + 1 THEN next ELSE f[i]]
  <2> HIDE DEF next
  <2>2. \A i \in 0..k : f[i] = IF i = 0 THEN base ELSE Statement(f[i - 1], u, ops[i])
    BY <2>1
  <2>3. \A i \in 0..k : g[i] = f[i]
    OBVIOUS
  <2>4. ASSUME NEW i \in 0..(k + 1)
        PROVE  g[i] = IF i = 0 THEN base ELSE Statement(g[i - 1], u, ops[i])
    <3>1. CASE i = k + 1
      <4>1. g[i] = next /\ g[i - 1] = f[k]
        BY <3>1
      <4> QED
        BY <3>1, <4>1 DEF next
    <3>2. CASE i \in 0..k
      <4>1. i # 0 => i - 1 \in 0..k
        BY <3>2
      <4> QED
        BY <2>2, <2>3, <3>2, <4>1
    <3> QED
      BY <3>1, <3>2
  <2> HIDE DEF g
  <2>5. g = [i \in 0..(k + 1) |-> g[i]]
    BY DEF g
  <2>6. Is(g, k + 1)
    BY <2>4, <2>5
  <2> QED
    BY <2>6
<1>3. n \in T
  BY <1>1, <1>2, Inductive
<1>4. PICK f : Is(f, n)
  BY <1>3
<1>5. Applied(c, u, ops) = CHOOSE g : Is(g, n)
  BY DEF Applied, base
<1>6. Is(Applied(c, u, ops), n)
  BY <1>4, <1>5
<1> HIDE DEF n
<1>7. n \in Nat
  BY DEF n
<1> DEFINE a == Applied(c, u, ops)
<1> HIDE DEF a
<1>8. \A i \in 0..n : a[i] = IF i = 0 THEN base ELSE Statement(a[i - 1], u, ops[i])
  BY <1>6 DEF a
<1>9. a[0] = base
  BY <1>7, <1>8
<1>10. \A i \in 1..n : a[i] = Statement(a[i - 1], u, ops[i])
  <2> TAKE i \in 1..n
  <2>1. i \in 0..n /\ i # 0
    BY <1>7
  <2> QED
    BY <1>8, <2>1
<1> QED
  BY <1>9, <1>10 DEF n, a, base

\* The same of the model the inverse is derived from.
LEMMA DerivingIs ==
  ASSUME NEW p, NEW u, NEW ops, Len(ops) \in Nat
  PROVE  /\ Deriving(p, u, ops)[0] = [fits |-> TRUE, supported |-> TRUE, model |-> p, steps |-> <<>>]
         /\ \A i \in 1..Len(ops) : Deriving(p, u, ops)[i] = Transition(Deriving(p, u, ops)[i - 1], u, ops[i])
<1> DEFINE base == [fits |-> TRUE, supported |-> TRUE, model |-> p, steps |-> <<>>]
           n == Len(ops)
           Is(f, k) == f = [i \in 0..k |-> IF i = 0 THEN base ELSE Transition(f[i - 1], u, ops[i])]
           T == {k \in Nat : \E f : Is(f, k)}
<1> HIDE DEF base
<1>1. 0 \in T
  <2> DEFINE f == [i \in 0..0 |-> base]
  <2>1. Is(f, 0)
    OBVIOUS
  <2> QED
    BY <2>1
<1>2. ASSUME NEW k \in Nat, k \in T PROVE k + 1 \in T
  <2>1. PICK f : Is(f, k)
    BY <1>2
  <2> DEFINE next == Transition(f[k], u, ops[k + 1])
             g == [i \in 0..(k + 1) |-> IF i = k + 1 THEN next ELSE f[i]]
  <2> HIDE DEF next
  <2>2. \A i \in 0..k : f[i] = IF i = 0 THEN base ELSE Transition(f[i - 1], u, ops[i])
    BY <2>1
  <2>3. \A i \in 0..k : g[i] = f[i]
    OBVIOUS
  <2>4. ASSUME NEW i \in 0..(k + 1)
        PROVE  g[i] = IF i = 0 THEN base ELSE Transition(g[i - 1], u, ops[i])
    <3>1. CASE i = k + 1
      <4>1. g[i] = next /\ g[i - 1] = f[k]
        BY <3>1
      <4> QED
        BY <3>1, <4>1 DEF next
    <3>2. CASE i \in 0..k
      <4>1. i # 0 => i - 1 \in 0..k
        BY <3>2
      <4> QED
        BY <2>2, <2>3, <3>2, <4>1
    <3> QED
      BY <3>1, <3>2
  <2> HIDE DEF g
  <2>5. g = [i \in 0..(k + 1) |-> g[i]]
    BY DEF g
  <2>6. Is(g, k + 1)
    BY <2>4, <2>5
  <2> QED
    BY <2>6
<1>3. n \in T
  BY <1>1, <1>2, Inductive
<1>4. PICK f : Is(f, n)
  BY <1>3
<1>5. Deriving(p, u, ops) = CHOOSE g : Is(g, n)
  BY DEF Deriving, base
<1>6. Is(Deriving(p, u, ops), n)
  BY <1>4, <1>5
<1> HIDE DEF n
<1>7. n \in Nat
  BY DEF n
<1> DEFINE a == Deriving(p, u, ops)
<1> HIDE DEF a
<1>8. \A i \in 0..n : a[i] = IF i = 0 THEN base ELSE Transition(a[i - 1], u, ops[i])
  BY <1>6 DEF a
<1>9. a[0] = base
  BY <1>7, <1>8
<1>10. \A i \in 1..n : a[i] = Transition(a[i - 1], u, ops[i])
  <2> TAKE i \in 1..n
  <2>1. i \in 0..n /\ i # 0
    BY <1>7
  <2> QED
    BY <1>8, <2>1
<1> QED
  BY <1>9, <1>10 DEF n, a, base

-----------------------------------------------------------------------------
(* Types *)

\* An entry of a list, field by field.
LEMMA EntryIs ==
  ASSUME NEW t \in Things, NEW e \in Entries(t)
  PROVE  /\ e = Entry(e.by, e.to, e.priv, e.opt)
         /\ e.by \in Roles /\ e.to \in Roles \cup {"PUBLIC"} /\ e.priv \in PrivilegesOn[t] /\ e.opt \in BOOLEAN
BY DEF Entries, Entry

\* What makes an entry.
LEMMA MakesEntry ==
  ASSUME NEW t \in Things, NEW b \in Roles, NEW r \in Roles \cup {"PUBLIC"}, NEW p \in PrivilegesOn[t], NEW g \in BOOLEAN
  PROVE  Entry(b, r, p, g) \in Entries(t)
BY DEF Entries

\* The operations on one thing's list, and on its owner.
LEMMA OperationIs ==
  ASSUME NEW op \in Operations
  PROVE  /\ op.on \in Things
         /\ op.kind = "ownership" =>
              op.on # "defaults" /\ op.to \in Roles /\ op.from \in Roles
         /\ op.kind # "ownership" =>
              /\ op \in AclOperations(op.on)
              /\ op.kind = IF op.on = "defaults" THEN "default_acl" ELSE "privilege"
              /\ op.grant \in BOOLEAN /\ op.to \in Roles \cup {"PUBLIC"} /\ op.priv \in PrivilegesOn[op.on]
              /\ op.opt \in BOOLEAN /\ op.had \in BOOLEAN /\ op.only \in BOOLEAN
<1>0. op \in Operations
  OBVIOUS
<1>1. CASE op \in OwnerOperations
  BY <1>1 DEF OwnerOperations
<1>2. ASSUME NEW t \in Things, op \in AclOperations(t)
      PROVE  op.on = t /\ op.kind # "ownership"
  BY <1>2 DEF AclOperations
<1>3. ASSUME NEW t \in Things, op \in AclOperations(t)
      PROVE  /\ op.kind = IF t = "defaults" THEN "default_acl" ELSE "privilege"
             /\ op.grant \in BOOLEAN /\ op.to \in Roles \cup {"PUBLIC"} /\ op.priv \in PrivilegesOn[t]
             /\ op.opt \in BOOLEAN /\ op.had \in BOOLEAN /\ op.only \in BOOLEAN
  BY <1>3 DEF AclOperations
<1>4. op \in OwnerOperations \/ \E t \in Things : op \in AclOperations(t)
  <2> SUFFICES ASSUME op \notin OwnerOperations PROVE \E t \in Things : op \in AclOperations(t)
    OBVIOUS
  <2>1. PICK s \in {AclOperations(t) : t \in Things} : op \in s
    BY <1>0 DEF Operations
  <2>2. PICK t \in Things : s = AclOperations(t)
    BY Zenon
  <2> QED
    BY <2>1, <2>2
<1>6. CASE \E t \in Things : op \in AclOperations(t)
  <2>1. PICK t \in Things : op \in AclOperations(t)
    BY <1>6
  <2>2. op.on = t /\ op.kind # "ownership"
    BY <1>2, <2>1
  <2> QED
    BY <1>3, <2>1, <2>2
<1> QED
  BY <1>1, <1>4, <1>6

\* The fields of a catalogue.
Shapes ==
  [owner : [Things -> Roles], acl : [Things -> SUBSET AllEntries], null : SUBSET {"status"},
   ledger : Seq({"lf", "crlf", "other"}), strays : BOOLEAN, active : BOOLEAN, edge : BOOLEAN, bound : BOOLEAN]

\* A catalogue, as a record and what is more to it.
LEMMA CatalogueIs ==
  ASSUME NEW c
  PROVE  IsCatalogue(c) <=>
           /\ c \in Shapes
           /\ c.owner["defaults"] = "migrator"
           /\ \A t \in Things : c.acl[t] \subseteq Entries(t)
           /\ \A t \in c.null : c.acl[t] = {}
           /\ Len(c.ledger) <= Journal + 1
BY Zenon DEF IsCatalogue, Shapes

\* An owner may be changed, and with it the names in a list.
LEMMA OwnerChanged ==
  ASSUME NEW c, IsCatalogue(c), NEW t \in Things \ {"defaults"}, NEW r \in Roles
  PROVE  LET o == [c.owner EXCEPT ![t] = r]
             a == [c.acl EXCEPT ![t] = Renamed(c.acl[t], c.owner[t], r)]
         IN  IsCatalogue([c EXCEPT !.owner = o, !.acl = a])
<1> DEFINE new == Renamed(c.acl[t], c.owner[t], r)
           o == [c.owner EXCEPT ![t] = r]
           a == [c.acl EXCEPT ![t] = new]
           d == [c EXCEPT !.owner = o, !.acl = a]
<1>1. c \in Shapes /\ c.acl[t] \subseteq Entries(t)
  BY CatalogueIs
<1>2. new \subseteq Entries(t)
  <2> SUFFICES ASSUME NEW e \in c.acl[t]
               PROVE  Entry(IF e.by = c.owner[t] THEN r ELSE e.by, IF e.to = c.owner[t] THEN r ELSE e.to,
                            e.priv, e.opt) \in Entries(t)
    BY DEF Renamed
  <2>1. e \in Entries(t)
    BY <1>1
  <2>2. e.by \in Roles /\ e.to \in Roles \cup {"PUBLIC"} /\ e.priv \in PrivilegesOn[t] /\ e.opt \in BOOLEAN
    BY <2>1, EntryIs
  <2> QED
    BY <2>2, MakesEntry
<1>3. c.acl[t] = {} => new = {}
  BY DEF Renamed
<1> HIDE DEF new
<1>4. Entries(t) \subseteq AllEntries
  BY DEF AllEntries
<1>5. o \in [Things -> Roles] /\ a \in [Things -> SUBSET AllEntries]
  BY <1>1, <1>2, <1>4 DEF Shapes
<1>6. o["defaults"] = c.owner["defaults"] /\ a[t] = new /\ \A x \in Things \ {t} : a[x] = c.acl[x]
  BY <1>1 DEF Shapes, Things
<1> HIDE DEF o, a
<1>7. d \in Shapes /\ d.acl = a /\ d.owner = o /\ d.null = c.null /\ d.ledger = c.ledger
  BY <1>1, <1>5 DEF Shapes
<1>8. c.null \subseteq Things
  BY <1>1 DEF Shapes, Things
<1> HIDE DEF d
<1>9. IsCatalogue(d)
  BY <1>2, <1>3, <1>6, <1>7, <1>8, CatalogueIs
<1> QED
  BY <1>9 DEF o, a, d, new

\* And a list may be written out.
LEMMA ListWritten ==
  ASSUME NEW c, IsCatalogue(c), NEW t \in Things, NEW new, new \subseteq Entries(t), NEW n,
         n = c.null \/ n = c.null \ {t}, t \notin n \/ new = {}
  PROVE  LET a == [c.acl EXCEPT ![t] = new]
             d == [c EXCEPT !.null = n, !.acl = a]
         IN  /\ IsCatalogue(d)
             /\ d.owner = c.owner /\ d.acl = a /\ d.null = n /\ d.acl[t] = new
             /\ d.ledger = c.ledger /\ d.strays = c.strays /\ d.active = c.active /\ d.edge = c.edge /\ d.bound = c.bound
<1> DEFINE a == [c.acl EXCEPT ![t] = new]
           d == [c EXCEPT !.null = n, !.acl = a]
<1>1. c \in Shapes /\ c.acl[t] \subseteq Entries(t) /\ n \in SUBSET {"status"}
  BY CatalogueIs DEF Shapes
<1>2. Entries(t) \subseteq AllEntries
  BY DEF AllEntries
<1>3. a \in [Things -> SUBSET AllEntries]
  BY <1>1, <1>2 DEF Shapes
<1>4. a[t] = new /\ \A x \in Things \ {t} : a[x] = c.acl[x]
  BY <1>1 DEF Shapes
<1> HIDE DEF a
<1>5. d \in Shapes /\ d.acl = a /\ d.owner = c.owner /\ d.null = n
      /\ d.ledger = c.ledger /\ d.strays = c.strays /\ d.active = c.active /\ d.edge = c.edge /\ d.bound = c.bound
  BY <1>1, <1>3 DEF Shapes
<1>6. n \subseteq Things /\ n \subseteq c.null
  BY <1>1 DEF Things
<1> HIDE DEF d
<1>7. IsCatalogue(d)
  BY <1>4, <1>5, <1>6, CatalogueIs
<1> QED
  BY <1>4, <1>5, <1>7 DEF a, d

\* What GRANT and REVOKE leave in a list are entries.
LEMMA ListTyped ==
  ASSUME NEW t \in Things, NEW acl, acl \subseteq Entries(t), NEW by \in Roles, NEW op \in AclOperations(t)
  PROVE  Granted(acl, by, op) \subseteq Entries(t) /\ Revoked(acl, by, op) \subseteq Entries(t)
<1>1. /\ op.to \in Roles \cup {"PUBLIC"} /\ op.priv \in PrivilegesOn[t] /\ op.opt \in BOOLEAN
  BY DEF AclOperations
<1>2. \A g \in BOOLEAN : Entry(by, op.to, op.priv, g) \in Entries(t)
  BY <1>1, MakesEntry
<1>3. (op.opt \/ Optional(acl, by, op)) \in BOOLEAN
  BY <1>1
<1>4. Entry(by, op.to, op.priv, op.opt \/ Optional(acl, by, op)) \in Entries(t)
  BY <1>2, <1>3
<1>5. Entry(by, op.to, op.priv, FALSE) \in Entries(t)
  BY <1>2
<1> QED
  BY <1>4, <1>5 DEF Granted, Revoked

\* acldefault, and the entries of a thing.
LEMMA AclTyped ==
  ASSUME NEW c, IsCatalogue(c), NEW t \in Things
  PROVE  Acl(c, t) \subseteq Entries(t) /\ c.owner[t] \in Roles
<1>1. c.owner[t] \in Roles /\ c.acl[t] \subseteq Entries(t)
  BY CatalogueIs DEF Shapes
<1>2. BuiltIn(c, t) \subseteq Entries(t)
  BY <1>1, MakesEntry DEF BuiltIn
<1> QED
  BY <1>1, <1>2 DEF Acl

\* Statements turn catalogues into catalogues.
LEMMA EffectTyped ==
  ASSUME NEW c, IsCatalogue(c), NEW u \in Roles, NEW op \in Operations
  PROVE  IsCatalogue(Effect(c, u, op))
<1> DEFINE t == op.on
           by == Grantor(c, u, t)
           acl == Acl(c, t)
           new == IF ~HasOption(c, u, op) THEN acl ELSE IF op.grant THEN Granted(acl, by, op) ELSE Revoked(acl, by, op)
<1>1. c \in Shapes
  BY CatalogueIs
<1>2. CASE op.kind = "ownership"
  <2>1. t \in Things \ {"defaults"} /\ op.to \in Roles
    BY <1>2, OperationIs
  <2>2. IsCatalogue([c EXCEPT !.owner = [c.owner EXCEPT ![t] = op.to],
                              !.acl = [c.acl EXCEPT ![t] = Renamed(c.acl[t], c.owner[t], op.to)]])
    BY <2>1, OwnerChanged, Zenon
  <2>3. Effect(c, u, op) = [c EXCEPT !.owner = [c.owner EXCEPT ![t] = op.to],
                              !.acl = [c.acl EXCEPT ![t] = Renamed(c.acl[t], c.owner[t], op.to)]]
    BY <1>1, <1>2 DEF Effect, Shapes
  <2> QED
    BY <2>2, <2>3, Zenon
<1>3. CASE op.kind # "ownership"
  <2>1. t \in Things /\ op \in AclOperations(t)
    BY <1>3, OperationIs
  <2>2. acl \subseteq Entries(t) /\ by \in Roles
    BY <2>1, AclTyped DEF Grantor
  <2>3. new \subseteq Entries(t)
    BY <2>1, <2>2, ListTyped
  <2>4. Effect(c, u, op) = [c EXCEPT !.null = c.null \ {t}, !.acl = [c.acl EXCEPT ![t] = new]]
    BY <1>1, <1>3 DEF Effect, Shapes
  <2> HIDE DEF new
  <2>5. IsCatalogue([c EXCEPT !.null = c.null \ {t}, !.acl = [c.acl EXCEPT ![t] = new]])
    BY <2>1, <2>3, ListWritten, Zenon
  <2> QED
    BY <2>4, <2>5, Zenon
<1> QED
  BY <1>2, <1>3

\* A state of a transaction: whether no statement has failed, and the catalogue it sees.
StateOK(s) == s.ok \in BOOLEAN /\ IsCatalogue(s.cat) /\ s = [ok |-> s.ok, cat |-> s.cat]

\* A statement that fails leaves the catalogue and ends the transaction.
LEMMA StatementIs ==
  ASSUME NEW s, StateOK(s), NEW u, NEW op
  PROVE  /\ s.ok /\ ~Fails(s.cat, u, op) => Statement(s, u, op) = [ok |-> TRUE, cat |-> Effect(s.cat, u, op)]
         /\ ~s.ok \/ Fails(s.cat, u, op) => Statement(s, u, op) = [ok |-> FALSE, cat |-> s.cat]
<1> DEFINE k == s.ok
           c == s.cat
<1>1. k \in BOOLEAN /\ s = [ok |-> k, cat |-> c]
  BY DEF StateOK
<1> HIDE DEF k, c
<1>2. k /\ ~Fails(c, u, op) => Statement([ok |-> k, cat |-> c], u, op) = [ok |-> TRUE, cat |-> Effect(c, u, op)]
  BY <1>1 DEF Statement
<1>3. ~k \/ Fails(c, u, op) => Statement([ok |-> k, cat |-> c], u, op) = [ok |-> FALSE, cat |-> c]
  BY <1>1 DEF Statement
<1>4. Statement(s, u, op) = Statement([ok |-> k, cat |-> c], u, op)
  BY <1>1
<1> QED
  BY <1>2, <1>3, <1>4 DEF k, c

\* One that does not has its effect.
LEMMA StatementGoes ==
  ASSUME NEW s, StateOK(s), NEW u, NEW op
  PROVE  /\ s.ok /\ ~Fails(s.cat, u, op) => Statement(s, u, op).ok /\ Statement(s, u, op).cat = Effect(s.cat, u, op)
         /\ Statement(s, u, op).ok => s.ok /\ ~Fails(s.cat, u, op)
<1>1. s.ok /\ ~Fails(s.cat, u, op) => Statement(s, u, op) = [ok |-> TRUE, cat |-> Effect(s.cat, u, op)]
  BY StatementIs
<1>2. ~s.ok \/ Fails(s.cat, u, op) => Statement(s, u, op) = [ok |-> FALSE, cat |-> s.cat]
  BY StatementIs
<1> QED
  BY <1>1, <1>2

\* A statement leads from one such state to another, and nothing is well again after a failure.
LEMMA StatementTyped ==
  ASSUME NEW s, StateOK(s), NEW u \in Roles, NEW op \in Operations
  PROVE  StateOK(Statement(s, u, op)) /\ (Statement(s, u, op).ok => s.ok)
<1>1. IsCatalogue(s.cat) /\ IsCatalogue(Effect(s.cat, u, op))
  BY EffectTyped DEF StateOK
<1>2. CASE s.ok /\ ~Fails(s.cat, u, op)
  <2> HIDE DEF StateOK
  <2>1. Statement(s, u, op) = [ok |-> TRUE, cat |-> Effect(s.cat, u, op)]
    BY <1>2, StatementIs
  <2> QED
    BY <1>1, <1>2, <2>1 DEF StateOK
<1>3. CASE ~s.ok \/ Fails(s.cat, u, op)
  <2>1. Statement(s, u, op) = [ok |-> FALSE, cat |-> s.cat]
    BY <1>3, StatementIs
  <2> QED
    BY <1>1, <1>3, <2>1 DEF StateOK
<1> QED
  BY <1>2, <1>3

\* However many statements a transaction has, it sees a catalogue after each.
LEMMA AppliedTyped ==
  ASSUME NEW c, IsCatalogue(c), NEW u \in Roles, NEW ops \in Seq(Operations)
  PROVE  /\ \A i \in 0..Len(ops) : StateOK(Applied(c, u, ops)[i])
         /\ StateOK(Apply(c, u, ops))
<1> DEFINE a == Applied(c, u, ops)
           n == Len(ops)
           T == {i \in Nat : i <= n => StateOK(a[i])}
<1>1. n \in Nat /\ \A i \in 1..n : ops[i] \in Operations
  BY LenProperties, ElementOfSeq
<1>2. a[0] = [ok |-> TRUE, cat |-> c] /\ \A i \in 1..n : a[i] = Statement(a[i - 1], u, ops[i])
  BY <1>1, AppliedIs
<1> HIDE DEF a, n
<1>3. 0 \in T
  <2>1. StateOK([ok |-> TRUE, cat |-> c])
    BY DEF StateOK
  <2> QED
    BY <1>2, <2>1
<1>4. ASSUME NEW i \in Nat, i \in T PROVE i + 1 \in T
  <2> SUFFICES ASSUME i + 1 <= n PROVE StateOK(a[i + 1])
    OBVIOUS
  <2>1. StateOK(a[i]) /\ i + 1 \in 1..n /\ (i + 1) - 1 = i
    BY <1>1, <1>4
  <2>2. a[i + 1] = Statement(a[i], u, ops[i + 1])
    BY <1>2, <2>1
  <2> QED
    BY <1>1, <2>1, <2>2, StatementTyped
<1>5. \A i \in 0..n : StateOK(a[i])
  <2> HIDE DEF T
  <2>1. \A i \in Nat : i \in T
    BY <1>3, <1>4, Inductive
  <2> QED
    BY <1>1, <2>1 DEF T
<1> QED
  BY <1>1, <1>5 DEF a, n, Apply

-----------------------------------------------------------------------------
(* What is predicted *)

\* The list that is predicted holds entries.
LEMMA EnteredTyped ==
  ASSUME NEW t \in Things, NEW acl, acl \subseteq Entries(t), NEW u \in Roles, NEW op \in AclOperations(t)
  PROVE  Entered(acl, u, op) \subseteq Entries(t)
<1> DEFINE same == Matching(acl, op)
           more == {[e EXCEPT !.opt = @ \/ op.opt] : e \in same}
<1>1. /\ op.to \in Roles \cup {"PUBLIC"} /\ op.priv \in PrivilegesOn[t] /\ op.opt \in BOOLEAN /\ op.grant \in BOOLEAN
  BY DEF AclOperations
<1>2. Entry(u, op.to, op.priv, op.opt) \in Entries(t)
  BY <1>1, MakesEntry
<1>3. ASSUME NEW e \in same PROVE [e EXCEPT !.opt = @ \/ op.opt] \in Entries(t)
  <2>1. e \in Entries(t)
    BY DEF Matching
  <2>2. /\ e = Entry(e.by, e.to, e.priv, e.opt)
        /\ e.by \in Roles /\ e.to \in Roles \cup {"PUBLIC"} /\ e.priv \in PrivilegesOn[t] /\ e.opt \in BOOLEAN
    BY <2>1, EntryIs
  <2> DEFINE f == [e EXCEPT !.opt = @ \/ op.opt]
  <2>3. DOMAIN e = {"by", "to", "priv", "opt"}
    BY <2>2 DEF Entry
  <2>4. f \in Entries(t)
    <3>1. f = [x \in {"by", "to", "priv", "opt"} |-> IF x = "opt" THEN e.opt \/ op.opt ELSE e[x]]
      BY <2>3
    <3> DEFINE g == [by |-> e.by, to |-> e.to, priv |-> e.priv, opt |-> e.opt \/ op.opt]
    <3>2. g = [x \in {"by", "to", "priv", "opt"} |-> IF x = "opt" THEN e.opt \/ op.opt ELSE e[x]]
      OBVIOUS
    <3>3. f = g
      BY <3>1, <3>2, Zenon
    <3>4. g = Entry(e.by, e.to, e.priv, e.opt \/ op.opt)
      BY DEF Entry
    <3> QED
      BY <1>1, <2>2, <3>3, <3>4, MakesEntry
  <2> QED
    BY <2>4
<1>4. more \subseteq Entries(t)
  BY <1>3
<1>5. Entered(acl, u, op) \in {acl \ same, acl \cup {Entry(u, op.to, op.priv, op.opt)}, (acl \ same) \cup more}
  BY <1>1 DEF Entered
<1> HIDE DEF more, same
<1> QED
  BY <1>2, <1>4, <1>5

\* A model a supported operation leads to is a catalogue; only the list changes.
LEMMA PredictedTyped ==
  ASSUME NEW m, IsCatalogue(m), NEW u \in Roles, NEW op \in Operations, Supported(m, u, op)
  PROVE  IsCatalogue(Predicted(m, u, op))
<1> DEFINE t == op.on
           new == Entered(m.acl[t], u, op)
           a == [m.acl EXCEPT ![t] = new]
<1>1. m \in Shapes
  BY CatalogueIs
<1>2. CASE op.kind = "ownership"
  <2> DEFINE o == [m.owner EXCEPT ![t] = op.to]
             d == [m EXCEPT !.owner = o]
  <2>1. t \in Things \ {"defaults"} /\ op.to \in Roles
    BY <1>2, OperationIs
  <2>2. o \in [Things -> Roles] /\ o["defaults"] = m.owner["defaults"]
    BY <1>1, <2>1 DEF Shapes, Things
  <2>3. Predicted(m, u, op) = d
    BY <1>2 DEF Predicted
  <2> HIDE DEF o
  <2>4. d \in Shapes /\ d.acl = m.acl /\ d.owner = o /\ d.null = m.null /\ d.ledger = m.ledger
    BY <1>1, <2>2 DEF Shapes
  <2> HIDE DEF d
  <2> QED
    BY <2>2, <2>3, <2>4, CatalogueIs
<1>3. CASE op.kind # "ownership"
  <2>1. t \in Things /\ op \in AclOperations(t) /\ op.kind = IF t = "defaults" THEN "default_acl" ELSE "privilege"
    BY <1>3, OperationIs
  <2>2. m.acl[t] \subseteq Entries(t) /\ m.null \subseteq {"status"} /\ m.acl \in [Things -> SUBSET AllEntries]
    BY <1>1, <2>1, CatalogueIs DEF Shapes
  <2>3. new \subseteq Entries(t)
    BY <2>1, <2>2, EnteredTyped
  <2>4. t \notin m.null \/ new = {}
    <3>1. CASE t = "defaults"
      BY <2>2, <3>1
    <3>2. CASE t # "defaults"
      <4>1. PrivilegeSupported(m, u, op)
        BY <1>3, <2>1, <3>2 DEF Supported
      <4>2. m.acl[t] # new => t \notin m.null
        BY <4>1 DEF PrivilegeSupported
      <4>3. t \in m.null => m.acl[t] = {}
        BY CatalogueIs
      <4> QED
        BY <4>2, <4>3
    <3> QED
      BY <3>1, <3>2
  <2>5. Predicted(m, u, op) = [m EXCEPT !.acl = a]
    BY <1>1, <1>3 DEF Predicted
  <2>6. [m EXCEPT !.acl = a] = [m EXCEPT !.null = m.null, !.acl = a]
    BY <1>1 DEF Shapes
  <2> HIDE DEF new
  <2>7. IsCatalogue([m EXCEPT !.null = m.null, !.acl = a])
    BY <2>1, <2>3, <2>4, ListWritten, Zenon
  <2> QED
    BY <2>5, <2>6, <2>7, Zenon
<1> QED
  BY <1>2, <1>3

\* The inverse of an operation is an operation.
LEMMA InvertedTyped ==
  ASSUME NEW m, IsCatalogue(m), NEW op \in Operations
  PROVE  Inverted(m, op) \in Operations
<1>1. m \in Shapes
  BY CatalogueIs
<1>2. CASE op.kind = "ownership"
  <2>1. op.on \in Things \ {"defaults"} /\ op.to \in Roles /\ m.owner[op.on] \in Roles
    BY <1>1, <1>2, OperationIs DEF Shapes
  <2>2. Inverted(m, op) \in OwnerOperations
    BY <1>2, <2>1 DEF Inverted, SetsOwner, OwnerOperations
  <2> QED
    BY <2>2 DEF Operations
<1>3. CASE op.kind # "ownership"
  <2> DEFINE same == Matching(m.acl[op.on], op)
             option == same # {} /\ Previous(same, op).opt
             upgrade == same # {} /\ op.grant /\ ~option /\ op.opt
             inv == [op EXCEPT !.grant = same # {} /\ ~upgrade, !.opt = option, !.had = op.opt, !.only = upgrade]
  <2>1. op.on \in Things /\ op \in AclOperations(op.on)
    BY <1>3, OperationIs
  <2>2. option \in BOOLEAN /\ upgrade \in BOOLEAN /\ (same # {} /\ ~upgrade) \in BOOLEAN
    OBVIOUS
  <2>3. Inverted(m, op) = inv
    BY <1>3 DEF Inverted
  <2> HIDE DEF option, upgrade, same
  <2>4. inv \in AclOperations(op.on)
    BY <2>1, <2>2 DEF AclOperations
  <2> QED
    BY <2>1, <2>3, <2>4 DEF Operations
<1> QED
  BY <1>2, <1>3

\* A state of the derivation: as long as it fits and is supported, the model is a catalogue.
DerivedOK(s) ==
  /\ s = [fits |-> s.fits, supported |-> s.supported, model |-> s.model, steps |-> s.steps]
  /\ s.fits \in BOOLEAN /\ s.supported \in BOOLEAN
  /\ s.fits /\ s.supported => IsCatalogue(s.model) /\ s.steps \in Seq(Operations)

\* What a transition does to each field.
LEMMA TransitionIs ==
  ASSUME NEW s, DerivedOK(s), NEW u, NEW op
  PROVE  /\ s.fits /\ Fits(s.model, op) =>
              Transition(s, u, op) = [fits |-> TRUE, supported |-> s.supported /\ Supported(s.model, u, op),
                                      model |-> Predicted(s.model, u, op), steps |-> Append(s.steps, Inverted(s.model, op))]
         /\ ~s.fits \/ ~Fits(s.model, op) =>
              Transition(s, u, op) = [fits |-> FALSE, supported |-> s.supported, model |-> s.model, steps |-> s.steps]
<1> DEFINE f == s.fits
           b == s.supported
           m == s.model
           q == s.steps
           r == [fits |-> f, supported |-> b, model |-> m, steps |-> q]
<1>1. s = r
  BY DEF DerivedOK
<1> HIDE DEF f, b, m, q
<1>2. f /\ Fits(m, op) =>
        Transition(r, u, op) = [fits |-> TRUE, supported |-> b /\ Supported(m, u, op),
                                model |-> Predicted(m, u, op), steps |-> Append(q, Inverted(m, op))]
  BY DEF Transition
<1>3. ~f \/ ~Fits(m, op) => Transition(r, u, op) = [fits |-> FALSE, supported |-> b, model |-> m, steps |-> q]
  BY DEF Transition
<1>4. Transition(s, u, op) = Transition(r, u, op)
  BY <1>1
<1> QED
  BY <1>2, <1>3, <1>4 DEF f, b, m, q

\* One transition more; what fits and is supported after it did before.
LEMMA TransitionTyped ==
  ASSUME NEW s, DerivedOK(s), NEW u \in Roles, NEW op \in Operations
  PROVE  LET r == Transition(s, u, op)
         IN /\ DerivedOK(r)
            /\ r.fits /\ r.supported =>
                 /\ s.fits /\ s.supported /\ Fits(s.model, op) /\ Supported(s.model, u, op)
                 /\ r.model = Predicted(s.model, u, op) /\ r.steps = Append(s.steps, Inverted(s.model, op))
            /\ r.fits => s.fits
<1> DEFINE r == Transition(s, u, op)
<1>1. CASE s.fits /\ Fits(s.model, op)
  <2>1. r = [fits |-> TRUE, supported |-> s.supported /\ Supported(s.model, u, op),
             model |-> Predicted(s.model, u, op), steps |-> Append(s.steps, Inverted(s.model, op))]
    BY <1>1, TransitionIs
  <2> HIDE DEF r
  <2>2. r.fits = TRUE /\ r.supported = (s.supported /\ Supported(s.model, u, op))
        /\ r.model = Predicted(s.model, u, op) /\ r.steps = Append(s.steps, Inverted(s.model, op))
        /\ r = [fits |-> r.fits, supported |-> r.supported, model |-> r.model, steps |-> r.steps]
    BY <2>1
  <2>3. ASSUME r.supported PROVE IsCatalogue(r.model) /\ r.steps \in Seq(Operations)
    <3>1. s.supported /\ Supported(s.model, u, op)
      BY <2>2, <2>3
    <3>2. IsCatalogue(s.model) /\ s.steps \in Seq(Operations)
      BY <1>1, <3>1 DEF DerivedOK
    <3>3. IsCatalogue(Predicted(s.model, u, op)) /\ Inverted(s.model, op) \in Operations
      BY <3>1, <3>2, PredictedTyped, InvertedTyped
    <3> QED
      BY <2>2, <3>2, <3>3, AppendProperties
  <2>4. DerivedOK(r)
    BY <2>2, <2>3 DEF DerivedOK
  <2>5. r.supported => s.supported /\ Supported(s.model, u, op)
    BY <2>2
  <2> QED
    BY <1>1, <2>2, <2>4, <2>5 DEF r
<1>2. CASE ~s.fits \/ ~Fits(s.model, op)
  <2>1. r = [fits |-> FALSE, supported |-> s.supported, model |-> s.model, steps |-> s.steps]
    BY <1>2, TransitionIs
  <2> HIDE DEF r
  <2>2. r.fits = FALSE /\ r.supported = s.supported
        /\ r = [fits |-> r.fits, supported |-> r.supported, model |-> r.model, steps |-> r.steps]
    BY <2>1
  <2>3. DerivedOK(r)
    BY <2>2 DEF DerivedOK
  <2> QED
    BY <2>2, <2>3 DEF r
<1> QED
  BY <1>1, <1>2

\* The derivation as far as its i-th operation: each of them fitted, was supported, changed
\* the model as predicted and left its inverse.
Chain(d, u, ops, i) ==
  /\ Len(d[i].steps) = i /\ d[i].steps \in Seq(Operations)
  /\ \A j \in 1..i :
       /\ IsCatalogue(d[j - 1].model) /\ IsCatalogue(d[j].model)
       /\ Fits(d[j - 1].model, ops[j]) /\ Supported(d[j - 1].model, u, ops[j])
       /\ d[j].model = Predicted(d[j - 1].model, u, ops[j])
       /\ d[i].steps[j] = Inverted(d[j - 1].model, ops[j])

\* One more operation lengthens the chain.
LEMMA ChainGrows ==
  ASSUME NEW d, NEW u, NEW ops, NEW i \in Nat, Chain(d, u, ops, i),
         IsCatalogue(d[i].model), IsCatalogue(d[i + 1].model),
         Fits(d[i].model, ops[i + 1]), Supported(d[i].model, u, ops[i + 1]),
         d[i + 1].model = Predicted(d[i].model, u, ops[i + 1]),
         Inverted(d[i].model, ops[i + 1]) \in Operations,
         d[i + 1].steps = Append(d[i].steps, Inverted(d[i].model, ops[i + 1]))
  PROVE  Chain(d, u, ops, i + 1)
<1> DEFINE q == d[i].steps
           e == Inverted(d[i].model, ops[i + 1])
           r == d[i + 1].steps
<1>1. q \in Seq(Operations) /\ Len(q) = i /\ e \in Operations /\ r = Append(q, e)
  BY DEF Chain
<1> HIDE DEF q, e, r
<1>2. r \in Seq(Operations) /\ Len(r) = i + 1 /\ r[i + 1] = e /\ \A j \in 1..i : r[j] = q[j]
  BY <1>1, AppendProperties
<1>3. ASSUME NEW j \in 1..(i + 1)
      PROVE  /\ IsCatalogue(d[j - 1].model) /\ IsCatalogue(d[j].model)
             /\ Fits(d[j - 1].model, ops[j]) /\ Supported(d[j - 1].model, u, ops[j])
             /\ d[j].model = Predicted(d[j - 1].model, u, ops[j])
             /\ r[j] = Inverted(d[j - 1].model, ops[j])
  <2>1. CASE j = i + 1
    <3>1. j - 1 = i
      BY <2>1
    <3> QED
      BY <1>2, <2>1, <3>1 DEF e
  <2>2. CASE j \in 1..i
    <3>1. r[j] = d[i].steps[j]
      BY <1>2, <2>2 DEF q
    <3> QED
      BY <2>2, <3>1 DEF Chain
  <2> QED
    BY <2>1, <2>2
<1> QED
  BY <1>2, <1>3 DEF Chain, r

\* A plan that fits and is supported has a chain as long as itself.
LEMMA Derivation ==
  ASSUME NEW p, IsCatalogue(p), NEW u \in Roles, NEW ops \in Seq(Operations)
  PROVE  LET d == Deriving(p, u, ops)
         IN /\ \A i \in 0..Len(ops) : DerivedOK(d[i])
            /\ \A i \in 0..Len(ops) : d[i].fits /\ d[i].supported => Chain(d, u, ops, i)
            /\ d[0].model = p
<1> DEFINE d == Deriving(p, u, ops)
           n == Len(ops)
           Good(i) == DerivedOK(d[i]) /\ (d[i].fits /\ d[i].supported => Chain(d, u, ops, i))
           T == {i \in Nat : i <= n => Good(i)}
<1>1. n \in Nat /\ \A i \in 1..n : ops[i] \in Operations
  BY LenProperties, ElementOfSeq
<1>2. d[0] = [fits |-> TRUE, supported |-> TRUE, model |-> p, steps |-> <<>>]
      /\ \A i \in 1..n : d[i] = Transition(d[i - 1], u, ops[i])
  BY <1>1, DerivingIs
<1> HIDE DEF d, n
<1>3. 0 \in T
  <2>1. d[0].steps = <<>> /\ d[0].model = p /\ d[0].fits = TRUE /\ d[0].supported = TRUE
        /\ d[0] = [fits |-> d[0].fits, supported |-> d[0].supported, model |-> d[0].model, steps |-> d[0].steps]
    BY <1>2
  <2>2. <<>> \in Seq(Operations) /\ Len(<<>>) = 0
    BY EmptySeq
  <2>3. DerivedOK(d[0])
    BY <2>1, <2>2 DEF DerivedOK
  <2>4. Chain(d, u, ops, 0)
    BY <2>1, <2>2 DEF Chain
  <2> QED
    BY <2>3, <2>4
<1>4. ASSUME NEW i \in Nat, i \in T PROVE i + 1 \in T
  <2> SUFFICES ASSUME i + 1 <= n PROVE Good(i + 1)
    OBVIOUS
  <2>1. Good(i) /\ i + 1 \in 1..n /\ (i + 1) - 1 = i
    BY <1>1, <1>4
  <2>2. d[i + 1] = Transition(d[i], u, ops[i + 1]) /\ ops[i + 1] \in Operations
    BY <1>1, <1>2, <2>1
  <2> DEFINE s == d[i]
             r == d[i + 1]
             op == ops[i + 1]
  <2>3. /\ DerivedOK(r)
        /\ r.fits /\ r.supported =>
             /\ s.fits /\ s.supported /\ Fits(s.model, op) /\ Supported(s.model, u, op)
             /\ r.model = Predicted(s.model, u, op) /\ r.steps = Append(s.steps, Inverted(s.model, op))
    BY <2>1, <2>2, TransitionTyped
  <2>4. ASSUME r.fits, r.supported PROVE Chain(d, u, ops, i + 1)
    <3>1. Chain(d, u, ops, i) /\ IsCatalogue(s.model) /\ IsCatalogue(r.model)
      BY <2>1, <2>3, <2>4 DEF DerivedOK
    <3>2. Inverted(s.model, op) \in Operations
      BY <2>2, <3>1, InvertedTyped
    <3> QED
      BY <2>3, <2>4, <3>1, <3>2, ChainGrows
  <2> QED
    BY <2>3, <2>4
<1>5. \A i \in 0..n : Good(i)
  <2> HIDE DEF T
  <2>1. \A i \in Nat : i \in T
    BY <1>3, <1>4, Inductive
  <2> QED
    BY <1>1, <2>1 DEF T
<1>6. d[0].model = p
  BY <1>2
<1> QED
  BY <1>5, <1>6 DEF d, n

-----------------------------------------------------------------------------
(* One statement of an owner's plan, and its inverse *)

\* An operation finds one entry at most of its grantee and privilege, and that is u's own.
Single(acl, u, op) == \A e \in Matching(acl, op) : Matching(acl, op) = {e} /\ e.by = u

\* The entry u makes for an operation's grantee and privilege, with the option and without.
Yes(u, op) == Entry(u, op.to, op.priv, TRUE)
No(u, op) == Entry(u, op.to, op.priv, FALSE)

\* The two entries of a user for an operation's grantee and privilege, field by field.
LEMMA OwnIs ==
  ASSUME NEW u, NEW op
  PROVE  /\ Yes(u, op).by = u /\ Yes(u, op).to = op.to /\ Yes(u, op).priv = op.priv /\ Yes(u, op).opt
         /\ No(u, op).by = u /\ No(u, op).to = op.to /\ No(u, op).priv = op.priv /\ ~No(u, op).opt
BY DEF Yes, No, Entry

\* What an upgrade makes of an entry.
LEMMA Upgraded ==
  ASSUME NEW t \in Things, NEW e \in Entries(t), NEW o \in BOOLEAN
  PROVE  LET f == [e EXCEPT !.opt = @ \/ o]
         IN  f \in Entries(t) /\ f.by = e.by /\ f.to = e.to /\ f.priv = e.priv /\ (f.opt <=> e.opt \/ o)
<1> DEFINE f == [e EXCEPT !.opt = @ \/ o]
           g == [by |-> e.by, to |-> e.to, priv |-> e.priv, opt |-> e.opt \/ o]
<1>1. /\ e = Entry(e.by, e.to, e.priv, e.opt)
      /\ e.by \in Roles /\ e.to \in Roles \cup {"PUBLIC"} /\ e.priv \in PrivilegesOn[t] /\ e.opt \in BOOLEAN
  BY EntryIs
<1>2. DOMAIN e = {"by", "to", "priv", "opt"}
  BY <1>1 DEF Entry
<1>3. f = [x \in {"by", "to", "priv", "opt"} |-> IF x = "opt" THEN e.opt \/ o ELSE e[x]]
  BY <1>2
<1>4. g = [x \in {"by", "to", "priv", "opt"} |-> IF x = "opt" THEN e.opt \/ o ELSE e[x]]
  OBVIOUS
<1>5. f = g
  BY <1>3, <1>4, Zenon
<1>6. g = Entry(e.by, e.to, e.priv, e.opt \/ o)
  BY DEF Entry
<1>7. g \in Entries(t)
  BY <1>1, <1>6, MakesEntry
<1>8. g.by = e.by /\ g.to = e.to /\ g.priv = e.priv /\ (g.opt <=> e.opt \/ o)
  OBVIOUS
<1> HIDE DEF g, f
<1>9. f \in Entries(t) /\ f.by = e.by /\ f.to = e.to /\ f.priv = e.priv /\ (f.opt <=> e.opt \/ o)
  BY <1>5, <1>7, <1>8
<1> QED
  BY <1>9 DEF f

\* The two entries there can be of u's for an operation.
LEMMA OneOfTwo ==
  ASSUME NEW t \in Things, NEW e \in Entries(t), NEW u, NEW op, e.by = u, e.to = op.to, e.priv = op.priv
  PROVE  (e.opt => e = Yes(u, op)) /\ (~e.opt => e = No(u, op))
<1>1. e = Entry(e.by, e.to, e.priv, e.opt) /\ e.opt \in BOOLEAN
  BY EntryIs
<1> QED
  BY <1>1 DEF Yes, No

\* What the operation finds, as the entries PostgreSQL looks for.
LEMMA Target ==
  ASSUME NEW t \in Things, NEW acl, acl \subseteq Entries(t), NEW u, NEW op \in AclOperations(t), Single(acl, u, op)
  PROVE  /\ Same(op, u) = {Yes(u, op), No(u, op)} /\ Yes(u, op) # No(u, op)
         /\ acl \cap Same(op, u) = Matching(acl, op)
         /\ \/ Matching(acl, op) = {}
            \/ Matching(acl, op) = {Yes(u, op)}
            \/ Matching(acl, op) = {No(u, op)}
         /\ Yes(u, op) \in acl <=> Matching(acl, op) = {Yes(u, op)}
<1> DEFINE same == Matching(acl, op)
           yes == Yes(u, op)
           no == No(u, op)
<1>1. Same(op, u) = {yes, no}
  BY DEF Same, Yes, No
<1>2. /\ yes.to = op.to /\ yes.priv = op.priv /\ yes.opt
      /\ no.to = op.to /\ no.priv = op.priv /\ ~no.opt
  BY OwnIs
<1>3. yes # no
  BY <1>2
<1>4. \A e \in same : e \in {yes, no}
  <2> SUFFICES ASSUME NEW e \in same PROVE e \in {yes, no}
    OBVIOUS
  <2>1. e \in Entries(t) /\ e.to = op.to /\ e.priv = op.priv /\ e.by = u
    BY DEF Matching, Single
  <2>2. e = Entry(e.by, e.to, e.priv, e.opt) /\ e.opt \in BOOLEAN
    BY <2>1, EntryIs
  <2> QED
    BY <2>1, <2>2 DEF Yes, No
<1> HIDE DEF yes, no
<1>5. \A e \in acl \cap Same(op, u) : e \in same
  BY <1>1, <1>2 DEF Matching
<1>6. acl \cap Same(op, u) = same
  BY <1>1, <1>4, <1>5 DEF Matching
<1>7. same = {} \/ same = {yes} \/ same = {no}
  BY <1>4 DEF Single
<1>8. yes \in acl <=> same = {yes}
  BY <1>1, <1>3, <1>6, <1>7
<1> QED
  BY <1>1, <1>3, <1>6, <1>7, <1>8 DEF yes, no

\* The entry an operation makes where there is none.
LEMMA MadeEntry ==
  ASSUME NEW u, NEW op, op.opt \in BOOLEAN
  PROVE  Entry(u, op.to, op.priv, op.opt) = IF op.opt THEN Yes(u, op) ELSE No(u, op)
BY DEF Yes, No

\* GRANT of u's, on what it finds.
LEMMA ListGranted ==
  ASSUME NEW t \in Things, NEW acl, acl \subseteq Entries(t), NEW u, NEW op \in AclOperations(t), Single(acl, u, op)
  PROVE  Granted(acl, u, op) =
           (acl \ {Yes(u, op), No(u, op)}) \cup
           {IF op.opt \/ Yes(u, op) \in acl THEN Yes(u, op) ELSE No(u, op)}
<1> DEFINE yes == Yes(u, op)
           no == No(u, op)
           option == op.opt \/ Optional(acl, u, op)
<1>1. op.opt \in BOOLEAN /\ option \in BOOLEAN /\ (option <=> op.opt \/ yes \in acl)
  BY DEF AclOperations, Optional, Yes
<1>2. Same(op, u) = {yes, no}
  BY DEF Same, Yes, No
<1>3. Entry(u, op.to, op.priv, option) = IF option THEN yes ELSE no
  BY <1>1 DEF Yes, No
<1>4. Granted(acl, u, op) = (acl \ Same(op, u)) \cup {Entry(u, op.to, op.priv, option)}
  BY Zenon DEF Granted
<1> HIDE DEF option, yes, no
<1>5. Entry(u, op.to, op.priv, option) = IF op.opt \/ yes \in acl THEN yes ELSE no
  BY <1>1, <1>3
<1> QED
  BY <1>2, <1>4, <1>5 DEF yes, no

\* REVOKE of u's, of the privilege or of its option.
LEMMA ListRevoked ==
  ASSUME NEW t \in Things, NEW acl, acl \subseteq Entries(t), NEW u, NEW op \in AclOperations(t), Single(acl, u, op),
         ~op.only
  PROVE  Revoked(acl, u, op) = acl \ {Yes(u, op), No(u, op)}
<1>1. Same(op, u) = {Yes(u, op), No(u, op)}
  BY DEF Same, Yes, No
<1> QED
  BY <1>1 DEF Revoked

\* REVOKE GRANT OPTION FOR leaves the entry without its option.
LEMMA OptionRevoked ==
  ASSUME NEW t \in Things, NEW acl, acl \subseteq Entries(t), NEW u, NEW op \in AclOperations(t), Single(acl, u, op),
         op.only, Matching(acl, op) # {}
  PROVE  Revoked(acl, u, op) = (acl \ {Yes(u, op), No(u, op)}) \cup {No(u, op)}
<1>1. Same(op, u) = {Yes(u, op), No(u, op)} /\ acl \cap Same(op, u) = Matching(acl, op)
  BY Target
<1> QED
  BY <1>1 DEF Revoked, No

\* PostgreSQL makes of the list what privilegeTransition and defaultAclTransition say.
LEMMA ListForward ==
  ASSUME NEW t \in Things, NEW acl, acl \subseteq Entries(t), NEW u, NEW op \in AclOperations(t), Single(acl, u, op),
         ~op.only
  PROVE  Entered(acl, u, op) = IF op.grant THEN Granted(acl, u, op) ELSE Revoked(acl, u, op)
<1> DEFINE yes == Yes(u, op)
           no == No(u, op)
           own == Entry(u, op.to, op.priv, op.opt)
           same == Matching(acl, op)
           more == {[e EXCEPT !.opt = @ \/ op.opt] : e \in same}
<1>1. op.grant \in BOOLEAN /\ op.opt \in BOOLEAN
  BY DEF AclOperations
<1>2. /\ Same(op, u) = {yes, no} /\ yes # no
      /\ acl \cap Same(op, u) = same
      /\ same = {} \/ same = {yes} \/ same = {no}
      /\ yes \in acl <=> same = {yes}
  BY Target
<1>3. own = IF op.opt THEN yes ELSE no
  BY <1>1, MadeEntry
<1>4. /\ same = {yes} => more = {yes}
      /\ same = {no} => more = {IF op.opt THEN yes ELSE no}
  <2>1. ASSUME NEW e \in same
        PROVE  [e EXCEPT !.opt = @ \/ op.opt] = IF e.opt \/ op.opt THEN yes ELSE no
    <3> DEFINE f == [e EXCEPT !.opt = @ \/ op.opt]
    <3>1. e \in Entries(t) /\ e.by = u /\ e.to = op.to /\ e.priv = op.priv
      BY DEF Matching, Single
    <3>2. f \in Entries(t) /\ f.by = e.by /\ f.to = e.to /\ f.priv = e.priv /\ (f.opt <=> e.opt \/ op.opt)
      BY <1>1, <3>1, Upgraded
    <3> HIDE DEF f
    <3>3. f = IF e.opt \/ op.opt THEN yes ELSE no
      BY <3>1, <3>2, OneOfTwo
    <3> QED
      BY <3>3 DEF f
  <2>2. yes.opt /\ ~no.opt
    BY OwnIs
  <2> DEFINE f(e) == [e EXCEPT !.opt = @ \/ op.opt]
  <2>3. more = {f(e) : e \in same} /\ \A e \in same : f(e) = IF e.opt \/ op.opt THEN yes ELSE no
    BY <2>1
  <2> HIDE DEF yes, no, same, more, f
  <2> QED
    BY <2>2, <2>3
<1>5. Entered(acl, u, op) = IF ~op.grant THEN acl \ same
                            ELSE IF same = {} THEN acl \cup {own} ELSE (acl \ same) \cup more
  BY <1>1 DEF Entered
<1>6. /\ Granted(acl, u, op) = (acl \ {yes, no}) \cup {IF op.opt \/ yes \in acl THEN yes ELSE no}
      /\ Revoked(acl, u, op) = acl \ {yes, no}
  <2> HIDE DEF yes, no
  <2>1. Granted(acl, u, op) = (acl \ {yes, no}) \cup {IF op.opt \/ yes \in acl THEN yes ELSE no}
    BY ListGranted DEF yes, no
  <2>2. Revoked(acl, u, op) = acl \ {yes, no}
    BY ListRevoked DEF yes, no
  <2> QED
    BY <2>1, <2>2
<1> HIDE DEF yes, no, same, more, own
<1>7. acl \ same = acl \ {yes, no}
  BY <1>2
<1>8. CASE ~op.grant
  BY <1>5, <1>6, <1>7, <1>8
<1>9. CASE op.grant
  <2>1. CASE same = {}
    BY <1>2, <1>3, <1>5, <1>6, <1>7, <1>9, <2>1
  <2>2. CASE same = {yes}
    BY <1>2, <1>4, <1>5, <1>6, <1>7, <1>9, <2>2
  <2>3. CASE same = {no}
    BY <1>2, <1>4, <1>5, <1>6, <1>7, <1>9, <2>3
  <2> QED
    BY <1>2, <2>1, <2>2, <2>3
<1> QED
  BY <1>1, <1>8, <1>9

\* The list is the operation's own entry, if it has one, and what the operation leaves alone.
LEMMA ListParts ==
  ASSUME NEW t \in Things, NEW acl, acl \subseteq Entries(t), NEW u, NEW op \in AclOperations(t), Single(acl, u, op),
         ~op.only
  PROVE  LET rest == acl \ {Yes(u, op), No(u, op)}
             after == Entered(acl, u, op)
         IN  /\ \A e \in rest : ~(e.to = op.to /\ e.priv = op.priv)
             /\ acl = rest \cup Matching(acl, op)
             /\ after = rest \cup Matching(after, op)
             /\ ~op.grant => Matching(after, op) = {}
             /\ op.grant => Matching(after, op) = {IF op.opt \/ Matching(acl, op) = {Yes(u, op)} THEN Yes(u, op) ELSE No(u, op)}
             /\ Single(after, u, op)
<1> DEFINE yes == Yes(u, op)
           no == No(u, op)
           same == Matching(acl, op)
           after == Entered(acl, u, op)
           rest == acl \ {yes, no}
           one == IF op.opt \/ same = {yes} THEN yes ELSE no
<1>1. op.grant \in BOOLEAN /\ op.opt \in BOOLEAN
  BY DEF AclOperations
<1>2. /\ Same(op, u) = {yes, no} /\ yes # no
      /\ acl \cap Same(op, u) = same
      /\ same = {} \/ same = {yes} \/ same = {no}
      /\ yes \in acl <=> same = {yes}
  BY Target
<1>3. /\ yes.to = op.to /\ yes.priv = op.priv /\ yes.by = u
      /\ no.to = op.to /\ no.priv = op.priv /\ no.by = u
  BY OwnIs
<1>4. \A e \in rest : ~(e.to = op.to /\ e.priv = op.priv)
  BY <1>2 DEF Matching
<1>5. after = IF op.grant THEN Granted(acl, u, op) ELSE Revoked(acl, u, op)
  BY ListForward
<1>6. op.grant => after = rest \cup {one}
  <2> HIDE DEF yes, no, same
  <2>1. Granted(acl, u, op) = (acl \ {yes, no}) \cup {IF op.opt \/ yes \in acl THEN yes ELSE no}
    BY ListGranted DEF yes, no
  <2>2. (IF op.opt \/ yes \in acl THEN yes ELSE no) = one
    BY <1>1, <1>2
  <2> HIDE DEF after, one
  <2> QED
    BY <1>5, <2>1, <2>2
<1>7. ~op.grant => after = rest
  <2> HIDE DEF yes, no, same
  <2>1. Revoked(acl, u, op) = acl \ {yes, no}
    BY ListRevoked DEF yes, no
  <2> QED
    BY <1>5, <2>1
<1>8. one \in {yes, no}
  OBVIOUS
<1>9. acl = rest \cup same
  BY <1>2
<1> HIDE DEF yes, no, after, one, same
<1>10. op.grant => Matching(after, op) = {one}
  BY <1>3, <1>4, <1>6, <1>8 DEF Matching
<1>11. ~op.grant => Matching(after, op) = {}
  BY <1>4, <1>7 DEF Matching
<1>12. Single(after, u, op)
  BY <1>1, <1>3, <1>8, <1>10, <1>11 DEF Single
<1>13. after = rest \cup Matching(after, op)
  BY <1>1, <1>6, <1>7, <1>10, <1>11
<1> HIDE DEF rest
<1>14. /\ \A e \in rest : ~(e.to = op.to /\ e.priv = op.priv)
       /\ acl = rest \cup same
       /\ after = rest \cup Matching(after, op)
       /\ ~op.grant => Matching(after, op) = {}
       /\ Single(after, u, op)
  BY <1>4, <1>9, <1>11, <1>12, <1>13
<1> QED
  BY <1>10, <1>14 DEF rest, one, yes, no, same, after

\* The inverse, field by field: what was there is granted, what was not is revoked, and of an
\* upgrade only the option.
LEMMA InvertedIs ==
  ASSUME NEW m, NEW t \in Things, NEW u, NEW op \in AclOperations(t), m.acl[t] \subseteq Entries(t), Single(m.acl[t], u, op)
  PROVE  LET inv == Inverted(m, op)
             same == Matching(m.acl[t], op)
         IN  /\ inv \in AclOperations(t)
             /\ inv.on = t /\ inv.kind = op.kind /\ inv.to = op.to /\ inv.priv = op.priv
             /\ inv.opt <=> same = {Yes(u, op)}
             /\ inv.only <=> same = {No(u, op)} /\ op.grant /\ op.opt
             /\ inv.grant <=> same # {} /\ ~inv.only
<1> DEFINE yes == Yes(u, op)
           no == No(u, op)
           same == Matching(m.acl[t], op)
           option == same # {} /\ Previous(same, op).opt
           upgrade == same # {} /\ op.grant /\ ~option /\ op.opt
           inv == [op EXCEPT !.grant = same # {} /\ ~upgrade, !.opt = option, !.had = op.opt, !.only = upgrade]
<1>1. op.grant \in BOOLEAN /\ op.opt \in BOOLEAN /\ op.on = t /\ op.kind # "ownership"
  BY DEF AclOperations
<1>2. same = {} \/ same = {yes} \/ same = {no}
  BY Target
<1>3. yes # no
  BY Target
<1>4. yes.opt /\ ~no.opt /\ yes.to = op.to /\ yes.priv = op.priv /\ no.to = op.to /\ no.priv = op.priv
  BY OwnIs
<1>5. option <=> same = {yes}
  <2>1. Matching(same, op) = same
    BY DEF Matching
  <2> HIDE DEF yes, no, same
  <2>2. CASE same = {yes}
    <3>1. Previous(same, op) = yes
      BY <2>1, <2>2 DEF Previous
    <3> QED
      BY <1>4, <2>2, <3>1
  <2>3. CASE same = {no}
    <3>1. Previous(same, op) = no
      BY <2>1, <2>3 DEF Previous
    <3> QED
      BY <1>3, <1>4, <2>3, <3>1
  <2> QED
    BY <1>2, <2>2, <2>3
<1>6. Inverted(m, op) = inv
  BY <1>1 DEF Inverted
<1>7. option \in BOOLEAN /\ upgrade \in BOOLEAN /\ (same # {} /\ ~upgrade) \in BOOLEAN
  OBVIOUS
<1>8. upgrade <=> same = {no} /\ op.grant /\ op.opt
  <2> HIDE DEF yes, no, same, option
  <2> QED
    BY <1>2, <1>3, <1>5
<1> DEFINE keep == same # {} /\ ~upgrade
<1> HIDE DEF option, upgrade, keep
<1>9. LET i == [op EXCEPT !.grant = keep, !.opt = option, !.had = op.opt, !.only = upgrade]
      IN  /\ i \in AclOperations(t)
          /\ i.on = t /\ i.kind = op.kind /\ i.to = op.to /\ i.priv = op.priv
          /\ (i.opt <=> option) /\ (i.only <=> upgrade) /\ (i.grant <=> keep)
  <2>1. keep \in BOOLEAN /\ option \in BOOLEAN /\ upgrade \in BOOLEAN
    BY <1>7 DEF keep
  <2> QED
    BY <2>1 DEF AclOperations
<1>10. inv = [op EXCEPT !.grant = keep, !.opt = option, !.had = op.opt, !.only = upgrade]
  BY DEF keep
<1> HIDE DEF inv, yes, no, same
<1>11. /\ inv \in AclOperations(t)
       /\ inv.on = t /\ inv.kind = op.kind /\ inv.to = op.to /\ inv.priv = op.priv
       /\ (inv.opt <=> option) /\ (inv.only <=> upgrade) /\ (inv.grant <=> keep)
  BY <1>9, <1>10
<1>12. /\ inv.opt <=> same = {yes}
       /\ inv.only <=> same = {no} /\ op.grant /\ op.opt
       /\ inv.grant <=> same # {} /\ ~inv.only
  BY <1>5, <1>8, <1>11 DEF keep
<1> QED
  BY <1>6, <1>11, <1>12 DEF yes, no, same

\* And undoing is exact: from the list an operation leaves, its inverse makes the one it found.
LEMMA ListBackward ==
  ASSUME NEW t \in Things, NEW acl, acl \subseteq Entries(t), NEW u \in Roles, NEW op \in AclOperations(t), Single(acl, u, op),
         ~op.only, NEW inv \in AclOperations(t), inv.to = op.to, inv.priv = op.priv,
         inv.opt <=> Matching(acl, op) = {Yes(u, op)},
         inv.only <=> Matching(acl, op) = {No(u, op)} /\ op.grant /\ op.opt,
         inv.grant <=> Matching(acl, op) # {} /\ ~inv.only
  PROVE  LET after == Entered(acl, u, op)
         IN  /\ inv.grant => Granted(after, u, inv) = acl
             /\ ~inv.grant => Revoked(after, u, inv) = acl
<1> DEFINE yes == Yes(u, op)
           no == No(u, op)
           same == Matching(acl, op)
           after == Entered(acl, u, op)
           left == Matching(after, op)
           rest == acl \ {yes, no}
<1>1. op.grant \in BOOLEAN /\ op.opt \in BOOLEAN /\ inv.opt \in BOOLEAN /\ inv.only \in BOOLEAN /\ inv.grant \in BOOLEAN
  BY DEF AclOperations
<1>2. after \subseteq Entries(t)
  BY EnteredTyped
<1>3. /\ \A e \in rest : ~(e.to = op.to /\ e.priv = op.priv)
      /\ acl = rest \cup same
      /\ after = rest \cup left
      /\ ~op.grant => left = {}
      /\ op.grant => left = {IF op.opt \/ same = {yes} THEN yes ELSE no}
      /\ Single(after, u, op)
  BY ListParts
<1>0. Same(op, u) = {yes, no} /\ yes # no /\ acl \cap Same(op, u) = same
      /\ (same = {} \/ same = {yes} \/ same = {no}) /\ (yes \in acl <=> same = {yes})
  BY Target
<1>4. same = {} \/ same = {yes} \/ same = {no}
  BY <1>0
<1>5. yes # no
  BY <1>0
<1>6. Yes(u, inv) = yes /\ No(u, inv) = no
  BY DEF Yes, No
<1>7. Matching(after, inv) = left
  BY DEF Matching
<1>8. Single(after, u, inv)
  BY <1>3, <1>7 DEF Single
<1>9. yes.opt /\ ~no.opt /\ yes.to = op.to /\ yes.priv = op.priv /\ no.to = op.to /\ no.priv = op.priv
  BY OwnIs
<1> HIDE DEF yes, no, same, after, left
<1>10. after \ {yes, no} = rest
  BY <1>3, <1>4, <1>5
<1>11. ASSUME inv.grant PROVE Granted(after, u, inv) = acl
  <2>1. Granted(after, u, inv) = rest \cup {IF inv.opt \/ yes \in after THEN yes ELSE no}
    BY <1>2, <1>6, <1>8, <1>10, ListGranted
  <2>2. yes \in after <=> left = {yes}
    BY <1>1, <1>3, <1>5
  <2>3. CASE same = {yes}
    <3>1. inv.opt
      BY <2>3 DEF same, yes
    <3> QED
      BY <1>3, <2>1, <2>3, <3>1
  <2>4. CASE same = {no}
    <3>1. ~inv.opt /\ ~(op.grant /\ op.opt)
      BY <1>1, <1>5, <1>11, <2>4 DEF same, yes, no
    <3>2. yes \notin after
      BY <1>1, <1>3, <1>5, <2>2, <2>4, <3>1
    <3> QED
      BY <1>3, <2>1, <2>4, <3>1, <3>2
  <2>5. same # {}
    BY <1>11 DEF same
  <2> QED
    BY <1>4, <2>3, <2>4, <2>5
<1>12. ASSUME ~inv.grant PROVE Revoked(after, u, inv) = acl
  <2>1. CASE inv.only
    <3>1. same = {no} /\ op.grant /\ op.opt
      BY <2>1 DEF same, no
    <3>2. left # {}
      BY <1>3, <3>1
    <3>3. Revoked(after, u, inv) = rest \cup {no}
      BY <1>2, <1>6, <1>7, <1>8, <1>10, <2>1, <3>2, OptionRevoked
    <3> QED
      BY <1>3, <3>1, <3>3
  <2>2. CASE ~inv.only
    <3>1. same = {}
      BY <1>12, <2>2 DEF same
    <3>2. Revoked(after, u, inv) = rest
      BY <1>2, <1>6, <1>8, <1>10, <2>2, ListRevoked
    <3> QED
      BY <1>3, <3>1, <3>2
  <2> QED
    BY <1>1, <2>1, <2>2
<1> QED
  BY <1>11, <1>12 DEF after

\* What PostgreSQL keeps of one list, WellGranted's for one thing.
Well(acl, owner) ==
  \A e \in acl :
    /\ e.opt => e.to # "PUBLIC"
    /\ e.by = owner \/ \E x \in acl : x.to = e.by /\ x.priv = e.priv /\ x.opt

\* Somebody's grant rests on what an operation takes: Dependents, for a list.
Rests(acl, left, u, op) ==
  /\ op.to # u /\ Yes(u, op) \in acl
  /\ ~\E e \in left : e.to = op.to /\ e.priv = op.priv /\ e.opt
  /\ \E e \in left : e.by = op.to /\ e.priv = op.priv

\* A statement that PostgreSQL does not refuse leaves no grant that rests on nothing, and PUBLIC
\* without an option.
LEMMA StaysWell ==
  ASSUME NEW t \in Things, NEW acl, acl \subseteq Entries(t), NEW u \in Roles, NEW op \in AclOperations(t),
         Single(acl, u, op), ~op.only, Well(acl, u),
         ~(op.grant /\ op.opt /\ op.to = "PUBLIC"),
         ~op.grant => ~Rests(acl, Entered(acl, u, op), u, op)
  PROVE  Well(Entered(acl, u, op), u)
<1> DEFINE yes == Yes(u, op)
           no == No(u, op)
           same == Matching(acl, op)
           after == Entered(acl, u, op)
           rest == acl \ {yes, no}
           left == Matching(after, op)
<1>1. op.grant \in BOOLEAN /\ op.opt \in BOOLEAN
  BY DEF AclOperations
<1>2. /\ \A e \in rest : ~(e.to = op.to /\ e.priv = op.priv)
      /\ acl = rest \cup same
      /\ after = rest \cup left
      /\ ~op.grant => left = {}
      /\ op.grant => left = {IF op.opt \/ same = {yes} THEN yes ELSE no}
      /\ Single(after, u, op)
  BY ListParts
<1>3. /\ yes # no /\ (same = {} \/ same = {yes} \/ same = {no})
      /\ yes \in acl <=> same = {yes}
  BY Target
<1>4. yes.opt /\ ~no.opt /\ yes.by = u /\ no.by = u /\ yes.to = op.to /\ no.to = op.to /\ yes.priv = op.priv
  BY OwnIs
<1>5. ~op.grant => ~(/\ op.to # u /\ yes \in acl
                     /\ ~\E e \in after : e.to = op.to /\ e.priv = op.priv /\ e.opt
                     /\ \E e \in after : e.by = op.to /\ e.priv = op.priv)
  BY DEF Rests
<1> HIDE DEF yes, no, same, after, left, rest
<1> SUFFICES ASSUME NEW e \in after
             PROVE  /\ e.opt => e.to # "PUBLIC"
                    /\ e.by = u \/ \E x \in after : x.to = e.by /\ x.priv = e.priv /\ x.opt
  BY DEF Well, after
<1>6. CASE e \in left
  <2>1. op.grant /\ e = IF op.opt \/ same = {yes} THEN yes ELSE no
    BY <1>1, <1>2, <1>6
  <2>2. e.by = u /\ e.to = op.to /\ (e.opt => op.opt \/ yes \in acl)
    BY <1>1, <1>3, <1>4, <2>1
  <2>3. yes \in acl => op.to # "PUBLIC"
    BY <1>4 DEF Well
  <2> QED
    BY <1>1, <2>1, <2>2, <2>3
<1>7. CASE e \in rest
  <2>1. e \in acl
    BY <1>2, <1>7
  <2>2. e.opt => e.to # "PUBLIC"
    BY <2>1 DEF Well
  <2>3. e.by = u \/ \E x \in acl : x.to = e.by /\ x.priv = e.priv /\ x.opt
    BY <2>1 DEF Well
  <2>4. ASSUME NEW x \in acl, x.to = e.by, x.priv = e.priv, x.opt, e.by # u
        PROVE  \E y \in after : y.to = e.by /\ y.priv = e.priv /\ y.opt
    <3>1. CASE x \in rest
      BY <1>2, <2>4, <3>1
    <3>2. CASE x \in same
      <4>1. x = yes /\ same = {yes} /\ yes \in acl
        BY <1>3, <1>4, <2>4, <3>2
      <4>2. CASE op.grant
        <5>1. yes \in after
          BY <1>1, <1>2, <4>1, <4>2
        <5> QED
          BY <2>4, <4>1, <5>1
      <4>3. CASE ~op.grant
        <5>1. after = rest
          BY <1>2, <4>3
        <5>2. ~\E y \in after : y.to = op.to /\ y.priv = op.priv /\ y.opt
          BY <1>2, <5>1
        <5>3. e.by = op.to /\ e.priv = op.priv
          BY <1>4, <2>4, <4>1
        <5> QED
          BY <1>5, <2>4, <4>1, <4>3, <5>2, <5>3
      <4> QED
        BY <1>1, <4>2, <4>3
    <3> QED
      BY <1>2, <2>4, <3>1, <3>2
  <2> QED
    BY <2>2, <2>3, <2>4
<1> QED
  BY <1>2, <1>6, <1>7

\* An operation of a plan that is promised an inverse: on a list that is not at its default, run
\* by its owner, and one the model takes.
Owned(m, u, op) ==
  /\ IsCatalogue(m) /\ IsPlanned(op) /\ op.kind # "ownership"
  /\ u = m.owner[op.on] /\ op.on \notin m.null
  /\ Fits(m, op) /\ Supported(m, u, op)

\* A supported operation finds one entry at most, and that is the user's.
LEMMA FindsOwn ==
  ASSUME NEW m, IsCatalogue(m), NEW u, NEW op, IsPlanned(op), op.kind # "ownership", Fits(m, op), Supported(m, u, op),
         op.on = "defaults" => u = "migrator"
  PROVE  /\ op.on \in Things /\ op \in AclOperations(op.on) /\ op \in Operations /\ ~op.only
         /\ m.acl[op.on] \subseteq Entries(op.on)
         /\ Single(m.acl[op.on], u, op)
<1>1. /\ op \in Operations /\ op.on \in Things /\ op \in AclOperations(op.on) /\ ~op.only
      /\ op.kind = IF op.on = "defaults" THEN "default_acl" ELSE "privilege"
  BY OperationIs DEF IsPlanned
<1>2. m.acl[op.on] \subseteq Entries(op.on)
  BY <1>1, CatalogueIs
<1>3. \A e \in Matching(m.acl[op.on], op) : Matching(m.acl[op.on], op) = {e}
  BY DEF Fits
<1>4. \A e \in Matching(m.acl[op.on], op) : e.by = u
  <2>1. CASE op.on = "defaults"
    <3>1. DefaultAclSupported(m, u, op)
      BY <1>1, <2>1 DEF Supported
    <3> QED
      BY <2>1, <3>1 DEF DefaultAclSupported
  <2>2. CASE op.on # "defaults"
    <3>1. PrivilegeSupported(m, u, op)
      BY <1>1, <2>2 DEF Supported
    <3> QED
      BY <3>1 DEF PrivilegeSupported
  <2> QED
    BY <2>1, <2>2
<1> QED
  BY <1>1, <1>2, <1>3, <1>4 DEF Single

\* What an operation of the owner finds.
LEMMA OwnedIs ==
  ASSUME NEW m, NEW u, NEW op, Owned(m, u, op)
  PROVE  /\ op.on \in Things /\ op \in AclOperations(op.on) /\ op \in Operations /\ ~op.only /\ u \in Roles
         /\ m.acl[op.on] \subseteq Entries(op.on)
         /\ Single(m.acl[op.on], u, op)
<1>1. m \in Shapes /\ m.owner["defaults"] = "migrator" /\ op.on \in Things
  BY CatalogueIs, OperationIs DEF Owned, IsPlanned
<1>2. u \in Roles /\ (op.on = "defaults" => u = "migrator")
  BY <1>1 DEF Owned, Shapes
<1> QED
  BY <1>2, FindsOwn DEF Owned

\* What the owner's statement writes.
LEMMA OwnerWrites ==
  ASSUME NEW m, IsCatalogue(m), NEW op \in Operations, op.kind # "ownership", op.on \notin m.null, NEW u, u = m.owner[op.on]
  PROVE  /\ Effect(m, u, op) =
              [m EXCEPT !.acl[op.on] = IF op.grant THEN Granted(m.acl[op.on], u, op) ELSE Revoked(m.acl[op.on], u, op)]
         /\ Fails(m, u, op) <=>
              \/ op.grant /\ op.opt /\ op.to = "PUBLIC"
              \/ ~op.grant /\ Rests(m.acl[op.on], Revoked(m.acl[op.on], u, op), u, op)
<1> DEFINE t == op.on
           new == IF op.grant THEN Granted(m.acl[t], u, op) ELSE Revoked(m.acl[t], u, op)
<1>1. m \in Shapes
  BY CatalogueIs
<1>2. Owns(m, u, t) /\ Grantor(m, u, t) = u /\ Acl(m, t) = m.acl[t] /\ HasOption(m, u, op) /\ ~Denied(m, u, op)
  BY DEF Owns, Grantor, Acl, HasOption, Denied
<1>3. m.null \ {t} = m.null
  OBVIOUS
<1>4. Effect(m, u, op) = [m EXCEPT !.null = m.null \ {t}, !.acl = [m.acl EXCEPT ![t] = new]]
  BY <1>1, <1>2 DEF Effect, Shapes
<1>5. [m EXCEPT !.null = m.null, !.acl = [m.acl EXCEPT ![t] = new]] = [m EXCEPT !.acl = [m.acl EXCEPT ![t] = new]]
  <2> HIDE DEF new
  <2> QED
    BY <1>1 DEF Shapes
<1>6. [m EXCEPT !.acl = [m.acl EXCEPT ![t] = new]] = [m EXCEPT !.acl[t] = new]
  <2> HIDE DEF new
  <2> QED
    BY <1>1 DEF Shapes
<1>7. Effect(m, u, op) = [m EXCEPT !.acl[t] = new]
  BY <1>3, <1>4, <1>5, <1>6, Zenon
<1>8. Dependents(m, u, op) <=> Rests(m.acl[t], Revoked(m.acl[t], u, op), u, op)
  BY <1>2 DEF Dependents, Rests, Optional, Yes
<1>9. Fails(m, u, op) <=>
        \/ op.grant /\ op.opt /\ op.to = "PUBLIC"
        \/ ~op.grant /\ Rests(m.acl[t], Revoked(m.acl[t], u, op), u, op)
  BY <1>2, <1>8 DEF Fails
<1> QED
  BY <1>7, <1>9

\* WellGranted, list by list.
LEMMA WellIs ==
  ASSUME NEW c
  PROVE  WellGranted(c) <=> \A t \in Things : Well(c.acl[t], c.owner[t])
BY DEF WellGranted, Well

\* What a prediction changes of a catalogue.
LEMMA PredictedIs ==
  ASSUME NEW m, NEW u, NEW op, Owned(m, u, op)
  PROVE  LET p == Predicted(m, u, op)
         IN  /\ IsCatalogue(p) /\ p = [m EXCEPT !.acl[op.on] = Entered(m.acl[op.on], u, op)]
             /\ p.owner = m.owner /\ p.null = m.null
             /\ p.acl[op.on] = Entered(m.acl[op.on], u, op)
             /\ \A t \in Things \ {op.on} : p.acl[t] = m.acl[t]
<1> DEFINE t == op.on
           new == Entered(m.acl[t], u, op)
           p == Predicted(m, u, op)
<1>1. t \in Things /\ op \in Operations /\ u \in Roles /\ IsCatalogue(m) /\ m \in Shapes /\ Supported(m, u, op)
      /\ op.kind # "ownership"
  BY OwnedIs, CatalogueIs DEF Owned
<1>2. IsCatalogue(p)
  BY <1>1, PredictedTyped
<1>3. p = [m EXCEPT !.acl[t] = new]
  BY <1>1 DEF Predicted
<1> HIDE DEF new, p
<1>4. p.owner = m.owner /\ p.null = m.null /\ p.acl[t] = new /\ \A x \in Things \ {t} : p.acl[x] = m.acl[x]
  BY <1>1, <1>3 DEF Shapes
<1> QED
  BY <1>2, <1>3, <1>4 DEF p, new

\* Where PostgreSQL does not refuse it, the statement does what is predicted, and the lists stay
\* as PostgreSQL keeps them.
LEMMA OwnForward ==
  ASSUME NEW m, NEW u, NEW op, Owned(m, u, op), WellGranted(m), ~Fails(m, u, op)
  PROVE  Effect(m, u, op) = Predicted(m, u, op) /\ WellGranted(Predicted(m, u, op))
<1> DEFINE t == op.on
           acl == m.acl[t]
           after == Entered(acl, u, op)
           p == Predicted(m, u, op)
<1>1. /\ t \in Things /\ op \in AclOperations(t) /\ op \in Operations /\ ~op.only /\ u \in Roles
      /\ acl \subseteq Entries(t) /\ Single(acl, u, op)
  BY OwnedIs
<1>2. IsCatalogue(m) /\ op.kind # "ownership" /\ t \notin m.null /\ u = m.owner[t]
  BY DEF Owned
<1>3. after = IF op.grant THEN Granted(acl, u, op) ELSE Revoked(acl, u, op)
  BY <1>1, ListForward
<1>4. /\ p = [m EXCEPT !.acl[t] = after]
      /\ p.owner = m.owner /\ p.acl[t] = after /\ \A x \in Things \ {t} : p.acl[x] = m.acl[x]
  BY PredictedIs
<1>5. /\ Effect(m, u, op) = [m EXCEPT !.acl[t] = IF op.grant THEN Granted(acl, u, op) ELSE Revoked(acl, u, op)]
      /\ Fails(m, u, op) <=>
           \/ op.grant /\ op.opt /\ op.to = "PUBLIC"
           \/ ~op.grant /\ Rests(acl, Revoked(acl, u, op), u, op)
  BY <1>1, <1>2, OwnerWrites
<1>6. Effect(m, u, op) = p
  BY <1>3, <1>4, <1>5, Zenon
<1>7. Well(acl, u)
  BY <1>1, <1>2, WellIs
<1>8. ~(op.grant /\ op.opt /\ op.to = "PUBLIC") /\ (~op.grant => ~Rests(acl, after, u, op))
  BY <1>3, <1>5
<1>9. Well(after, u)
  BY <1>1, <1>7, <1>8, StaysWell
<1>10. WellGranted(p)
  <2> HIDE DEF p, after
  <2>1. \A x \in Things : Well(p.acl[x], p.owner[x])
    BY <1>2, <1>4, <1>9, WellIs
  <2> QED
    BY <2>1, WellIs
<1> QED
  BY <1>6, <1>10

\* The inverse, run by the owner where the list is as predicted, writes the list there was.
LEMMA Undoes ==
  ASSUME NEW x, IsCatalogue(x), NEW u \in Roles, NEW op, IsPlanned(op), op.kind # "ownership", Fits(x, op), Supported(x, u, op),
         NEW c, IsCatalogue(c), u = c.owner[op.on], op.on \notin c.null, c.acl[op.on] = Entered(x.acl[op.on], u, op)
  PROVE  LET inv == Inverted(x, op)
             acl == x.acl[op.on]
         IN  /\ Effect(c, u, inv) = [c EXCEPT !.acl[op.on] = acl]
             /\ Fails(c, u, inv) =>
                  \/ op.to = "PUBLIC" /\ Yes(u, op) \in acl
                  \/ op.to # u /\ \E e \in acl : e.by = op.to /\ ~\E y \in acl : y.to = e.by /\ y.priv = e.priv /\ y.opt
<1> DEFINE t == op.on
           acl == x.acl[t]
           after == c.acl[t]
           inv == Inverted(x, op)
<1>1. t \in Things /\ (t = "defaults" => u = "migrator")
  BY CatalogueIs, OperationIs DEF IsPlanned
<1>2. /\ op \in AclOperations(t) /\ op \in Operations /\ ~op.only
      /\ acl \subseteq Entries(t) /\ Single(acl, u, op)
  BY <1>1, FindsOwn
<1>3. after = Entered(acl, u, op) /\ t \notin c.null /\ u = c.owner[t]
  OBVIOUS
<1>4. /\ inv \in AclOperations(t)
      /\ inv.on = t /\ inv.kind = op.kind /\ inv.to = op.to /\ inv.priv = op.priv
      /\ inv.opt <=> Matching(acl, op) = {Yes(u, op)}
      /\ inv.only <=> Matching(acl, op) = {No(u, op)} /\ op.grant /\ op.opt
      /\ inv.grant <=> Matching(acl, op) # {} /\ ~inv.only
  BY <1>1, <1>2, InvertedIs
<1>5. inv \in Operations
  BY <1>2, InvertedTyped
<1>6. Yes(u, op) \in acl <=> Matching(acl, op) = {Yes(u, op)}
  BY <1>1, <1>2, Target
<1> HIDE DEF inv, after, acl
<1>7. (inv.grant => Granted(after, u, inv) = acl) /\ (~inv.grant => Revoked(after, u, inv) = acl)
  BY <1>1, <1>2, <1>3, <1>4, ListBackward
<1>8. inv.grant \in BOOLEAN
  BY <1>4 DEF AclOperations
<1>9. /\ Effect(c, u, inv) = [c EXCEPT !.acl[t] = IF inv.grant THEN Granted(after, u, inv) ELSE Revoked(after, u, inv)]
      /\ Fails(c, u, inv) <=>
           \/ inv.grant /\ inv.opt /\ inv.to = "PUBLIC"
           \/ ~inv.grant /\ Rests(after, Revoked(after, u, inv), u, inv)
  <2>1. inv.kind # "ownership" /\ inv.on \notin c.null /\ u = c.owner[inv.on]
    BY <1>3, <1>4
  <2>2. /\ Effect(c, u, inv) =
             [c EXCEPT !.acl[inv.on] = IF inv.grant THEN Granted(c.acl[inv.on], u, inv) ELSE Revoked(c.acl[inv.on], u, inv)]
        /\ Fails(c, u, inv) <=>
             \/ inv.grant /\ inv.opt /\ inv.to = "PUBLIC"
             \/ ~inv.grant /\ Rests(c.acl[inv.on], Revoked(c.acl[inv.on], u, inv), u, inv)
    <3> HIDE DEF t
    <3> QED
      BY <1>5, <2>1, OwnerWrites
  <2>3. inv.on = t /\ c.acl[inv.on] = after
    BY <1>4 DEF after
  <2> DEFINE Says(on, list) ==
               /\ Effect(c, u, inv) =
                    [c EXCEPT !.acl[on] = IF inv.grant THEN Granted(list, u, inv) ELSE Revoked(list, u, inv)]
               /\ Fails(c, u, inv) <=>
                    \/ inv.grant /\ inv.opt /\ inv.to = "PUBLIC"
                    \/ ~inv.grant /\ Rests(list, Revoked(list, u, inv), u, inv)
  <2>4. Says(inv.on, c.acl[inv.on])
    BY <2>2, Zenon
  <2> HIDE DEF Says
  <2>5. Says(t, after)
    BY <2>3, <2>4
  <2> QED
    BY <2>5 DEF Says
<1>10. Effect(c, u, inv) = [c EXCEPT !.acl[t] = acl]
  <2>1. (IF inv.grant THEN Granted(after, u, inv) ELSE Revoked(after, u, inv)) = acl
    BY <1>7, <1>8
  <2> QED
    BY <1>9, <2>1, Zenon
<1>11. ASSUME inv.grant, inv.opt, inv.to = "PUBLIC" PROVE op.to = "PUBLIC" /\ Yes(u, op) \in acl
  BY <1>4, <1>6, <1>11
<1>12. ASSUME ~inv.grant, Rests(after, Revoked(after, u, inv), u, inv)
       PROVE  op.to # u /\ \E e \in acl : e.by = op.to /\ ~\E y \in acl : y.to = e.by /\ y.priv = e.priv /\ y.opt
  <2>1. Rests(after, acl, u, inv)
    BY <1>7, <1>12
  <2> QED
    BY <1>4, <2>1 DEF Rests
<1>13. Fails(c, u, inv) =>
         \/ op.to = "PUBLIC" /\ Yes(u, op) \in acl
         \/ op.to # u /\ \E e \in acl : e.by = op.to /\ ~\E y \in acl : y.to = e.by /\ y.priv = e.priv /\ y.opt
  BY <1>9, <1>11, <1>12
<1> QED
  BY <1>10, <1>13 DEF inv, acl

\* And where the operation was the owner's, PostgreSQL does not refuse it and it takes all back.
LEMMA OwnBackward ==
  ASSUME NEW m, NEW u, NEW op, Owned(m, u, op), WellGranted(m)
  PROVE  LET p == Predicted(m, u, op)
             inv == Inverted(m, op)
         IN  ~Fails(p, u, inv) /\ Effect(p, u, inv) = m
<1> DEFINE t == op.on
           acl == m.acl[t]
           after == Entered(acl, u, op)
           p == Predicted(m, u, op)
           inv == Inverted(m, op)
<1>1. t \in Things /\ u \in Roles
  BY OwnedIs
<1>2. IsCatalogue(m) /\ m \in Shapes /\ IsPlanned(op) /\ op.kind # "ownership" /\ t \notin m.null /\ u = m.owner[t]
      /\ Fits(m, op) /\ Supported(m, u, op)
  BY CatalogueIs DEF Owned
<1>3. /\ IsCatalogue(p) /\ p = [m EXCEPT !.acl[t] = after]
      /\ p.owner = m.owner /\ p.null = m.null /\ p.acl[t] = after
  BY PredictedIs
<1>4. Well(acl, u) /\ Yes(u, op).opt /\ Yes(u, op).to = op.to
  BY <1>1, <1>2, WellIs, OwnIs
<1> HIDE DEF p
<1>5. /\ Effect(p, u, inv) = [p EXCEPT !.acl[t] = acl]
      /\ Fails(p, u, inv) =>
           \/ op.to = "PUBLIC" /\ Yes(u, op) \in acl
           \/ op.to # u /\ \E e \in acl : e.by = op.to /\ ~\E y \in acl : y.to = e.by /\ y.priv = e.priv /\ y.opt
  <2>1. IsCatalogue(p) /\ u = p.owner[t] /\ t \notin p.null /\ p.acl[t] = Entered(m.acl[t], u, op)
    BY <1>2, <1>3
  <2> QED
    BY <1>1, <1>2, <2>1, Undoes
<1> HIDE DEF inv, after, acl
<1>6. Effect(p, u, inv) = m
  <2>1. [p EXCEPT !.acl[t] = acl] = m
    BY <1>1, <1>2, <1>3 DEF Shapes, acl
  <2> QED
    BY <1>5, <2>1, Zenon
<1>7. ~Fails(p, u, inv)
  <2>1. ~(op.to = "PUBLIC" /\ Yes(u, op) \in acl)
    BY <1>4 DEF Well
  <2>2. ~(op.to # u /\ \E e \in acl : e.by = op.to /\ ~\E y \in acl : y.to = e.by /\ y.priv = e.priv /\ y.opt)
    BY <1>4 DEF Well
  <2> QED
    BY <1>5, <2>1, <2>2
<1> QED
  BY <1>6, <1>7 DEF inv, p

-----------------------------------------------------------------------------
(* A plan that is promised an inverse *)

\* Invertible, of the catalogue m it is made from, without what Ready says of m.
Promised(m, u, ops) ==
  /\ IsCatalogue(m) /\ WellGranted(m) /\ u \in Roles /\ ops \in Seq(Operations)
  /\ \A i \in 1..Len(ops) :
       /\ IsPlanned(ops[i]) /\ ops[i].kind # "ownership"
       /\ u = m.owner[ops[i].on] /\ ops[i].on \notin m.null
  /\ Derived(m, u, ops).fits /\ Derived(m, u, ops).supported

\* The model has the owners and the defaults of m throughout, so that every operation is the owner's.
LEMMA PromisedChain ==
  ASSUME NEW m, NEW u, NEW ops, Promised(m, u, ops)
  PROVE  LET d == Deriving(m, u, ops)
             n == Len(ops)
         IN  /\ n \in Nat /\ Chain(d, u, ops, n) /\ d[0].model = m
             /\ \A i \in 0..n : IsCatalogue(d[i].model) /\ d[i].model.null = m.null
             /\ \A i \in 1..n : Owned(d[i - 1].model, u, ops[i])
<1> DEFINE d == Deriving(m, u, ops)
           n == Len(ops)
           Like(i) == IsCatalogue(d[i].model) /\ d[i].model.owner = m.owner /\ d[i].model.null = m.null
           T == {i \in Nat : i <= n => Like(i)}
<1>1. n \in Nat /\ IsCatalogue(m) /\ u \in Roles /\ ops \in Seq(Operations)
  BY LenProperties DEF Promised
<1>2. /\ \A i \in 0..n : DerivedOK(d[i])
      /\ \A i \in 0..n : d[i].fits /\ d[i].supported => Chain(d, u, ops, i)
      /\ d[0].model = m
  BY <1>1, Derivation
<1>3. d[n].fits /\ d[n].supported
  BY DEF Promised, Derived
<1>4. \A i \in 1..n : /\ IsPlanned(ops[i]) /\ ops[i].kind # "ownership"
                      /\ u = m.owner[ops[i].on] /\ ops[i].on \notin m.null
  BY DEF Promised
<1> HIDE DEF d, n
<1>5. Chain(d, u, ops, n)
  BY <1>1, <1>2, <1>3
<1>6. ASSUME NEW i \in 1..n, Like(i - 1) PROVE Owned(d[i - 1].model, u, ops[i])
  BY <1>4, <1>5, <1>6 DEF Chain, Owned
<1>7. 0 \in T
  BY <1>1, <1>2
<1>8. ASSUME NEW i \in Nat, i \in T PROVE i + 1 \in T
  <2> SUFFICES ASSUME i + 1 <= n PROVE Like(i + 1)
    OBVIOUS
  <2>1. i + 1 \in 1..n /\ (i + 1) - 1 = i /\ Like(i)
    BY <1>1, <1>8
  <2>2. Owned(d[i].model, u, ops[i + 1])
    BY <1>6, <2>1
  <2>3. d[i + 1].model = Predicted(d[i].model, u, ops[i + 1]) /\ IsCatalogue(d[i + 1].model)
    BY <1>5, <2>1 DEF Chain
  <2>4. Predicted(d[i].model, u, ops[i + 1]).owner = d[i].model.owner /\ Predicted(d[i].model, u, ops[i + 1]).null = d[i].model.null
    BY <2>2, PredictedIs
  <2> QED
    BY <2>1, <2>3, <2>4
<1>9. \A i \in 0..n : Like(i)
  <2> HIDE DEF T
  <2>1. \A i \in Nat : i \in T
    BY <1>7, <1>8, Inductive
  <2> QED
    BY <1>1, <2>1 DEF T
<1>10. \A i \in 1..n : Owned(d[i - 1].model, u, ops[i])
  <2> TAKE i \in 1..n
  <2>1. Like(i - 1)
    BY <1>1, <1>9
  <2> QED
    BY <1>6, <2>1
<1> QED
  BY <1>1, <1>2, <1>5, <1>9, <1>10 DEF d, n

\* A transaction that ends well has not failed before.
LEMMA OkBefore ==
  ASSUME NEW c, IsCatalogue(c), NEW u \in Roles, NEW ops \in Seq(Operations), Apply(c, u, ops).ok
  PROVE  \A i \in 0..Len(ops) : Applied(c, u, ops)[i].ok
<1> DEFINE a == Applied(c, u, ops)
           n == Len(ops)
           T == {k \in Nat : k <= n => a[n - k].ok}
<1>1. n \in Nat /\ (\A i \in 1..n : ops[i] \in Operations) /\ a[n].ok
  BY LenProperties, ElementOfSeq DEF Apply
<1>2. a[0] = [ok |-> TRUE, cat |-> c] /\ \A i \in 1..n : a[i] = Statement(a[i - 1], u, ops[i])
  BY <1>1, AppliedIs
<1>3. \A i \in 0..n : StateOK(a[i])
  BY AppliedTyped
<1> HIDE DEF a, n
<1>4. 0 \in T
  BY <1>1
<1>5. ASSUME NEW k \in Nat, k \in T PROVE k + 1 \in T
  <2> SUFFICES ASSUME k + 1 <= n PROVE a[n - (k + 1)].ok
    OBVIOUS
  <2>1. a[n - k].ok /\ n - k \in 1..n /\ (n - k) - 1 = n - (k + 1) /\ n - (k + 1) \in 0..n
    BY <1>1, <1>5
  <2>2. a[n - k] = Statement(a[n - (k + 1)], u, ops[n - k])
    BY <1>2, <2>1
  <2>3. StateOK(a[n - (k + 1)]) /\ ops[n - k] \in Operations
    BY <1>1, <1>3, <2>1
  <2> QED
    BY <2>1, <2>2, <2>3, StatementTyped
<1>6. \A k \in Nat : k \in T
  <2> HIDE DEF T
  <2> QED
    BY <1>4, <1>5, Inductive
<1>7. \A i \in 0..n : a[i].ok
  <2> TAKE i \in 0..n
  <2>1. n - i \in Nat /\ n - i <= n /\ n - (n - i) = i
    BY <1>1
  <2>2. n - i \in T
    BY <1>6, <2>1
  <2> QED
    BY <2>1, <2>2
<1> QED
  BY <1>7 DEF a, n

\* If PostgreSQL takes all of it, the database follows the model, statement by statement.
LEMMA ForwardRuns ==
  ASSUME NEW m, NEW u, NEW ops, Promised(m, u, ops), Apply(m, u, ops).ok
  PROVE  LET d == Deriving(m, u, ops)
         IN  /\ \A i \in 0..Len(ops) : WellGranted(d[i].model)
             /\ Apply(m, u, ops).cat = d[Len(ops)].model
<1> DEFINE a == Applied(m, u, ops)
           d == Deriving(m, u, ops)
           n == Len(ops)
           Follows(i) == a[i].cat = d[i].model /\ WellGranted(d[i].model)
           T == {i \in Nat : i <= n => Follows(i)}
<1>1. IsCatalogue(m) /\ WellGranted(m) /\ u \in Roles /\ ops \in Seq(Operations)
  BY DEF Promised
<1>2. n \in Nat /\ Chain(d, u, ops, n) /\ d[0].model = m /\ \A i \in 1..n : Owned(d[i - 1].model, u, ops[i])
  BY PromisedChain
<1>3. a[0] = [ok |-> TRUE, cat |-> m] /\ \A i \in 1..n : a[i] = Statement(a[i - 1], u, ops[i])
  BY <1>2, AppliedIs
<1>4. \A i \in 0..n : StateOK(a[i])
  BY <1>1, AppliedTyped
<1>5. \A i \in 0..n : a[i].ok
  BY <1>1, OkBefore
<1> HIDE DEF a, d, n
<1>6. 0 \in T
  BY <1>1, <1>2, <1>3
<1>7. ASSUME NEW i \in Nat, i \in T PROVE i + 1 \in T
  <2> SUFFICES ASSUME i + 1 <= n PROVE Follows(i + 1)
    OBVIOUS
  <2> DEFINE op == ops[i + 1]
             r == Statement(a[i], u, op)
  <2>1. i + 1 \in 1..n /\ i \in 0..n /\ i + 1 \in 0..n /\ (i + 1) - 1 = i /\ Follows(i)
    BY <1>2, <1>7
  <2>2. a[i + 1] = r /\ r.ok /\ StateOK(a[i])
    BY <1>3, <1>4, <1>5, <2>1
  <2>3. Owned(d[i].model, u, op) /\ d[i + 1].model = Predicted(d[i].model, u, op)
    BY <1>2, <2>1 DEF Chain
  <2>4. ~Fails(a[i].cat, u, op) /\ r.cat = Effect(a[i].cat, u, op)
    <3> HIDE DEF op
    <3> QED
      BY <2>2, StatementGoes
  <2> HIDE DEF r, op
  <2>5. Effect(d[i].model, u, op) = Predicted(d[i].model, u, op) /\ WellGranted(Predicted(d[i].model, u, op))
    BY <2>1, <2>3, <2>4, OwnForward
  <2> QED
    BY <2>1, <2>2, <2>3, <2>4, <2>5
<1>8. \A i \in 0..n : Follows(i)
  <2> HIDE DEF T
  <2>1. \A i \in Nat : i \in T
    BY <1>6, <1>7, Inductive
  <2> QED
    BY <1>2, <2>1 DEF T
<1>9. Apply(m, u, ops) = a[n]
  BY DEF Apply, a, n
<1> QED
  BY <1>2, <1>8, <1>9 DEF d, n

\* And the inverse, from the last step to the first, leads all the way back.
LEMMA BackwardRuns ==
  ASSUME NEW m, NEW u, NEW ops, Promised(m, u, ops), Apply(m, u, ops).ok
  PROVE  LET d == Derived(m, u, ops)
             b == Apply(d.model, u, Reverse(d.steps))
         IN  IsCatalogue(d.model) /\ d.steps \in Seq(Operations) /\ b.ok /\ b.cat = m
<1> DEFINE d == Deriving(m, u, ops)
           n == Len(ops)
           q == d[n].steps
           rev == Reverse(q)
           b == Applied(d[n].model, u, rev)
           Back(j) == b[j].ok /\ b[j].cat = d[n - j].model
           T == {j \in Nat : j <= n => Back(j)}
<1>1. /\ n \in Nat /\ Chain(d, u, ops, n) /\ d[0].model = m
      /\ \A i \in 0..n : IsCatalogue(d[i].model) /\ d[i].model.null = m.null
      /\ \A i \in 1..n : Owned(d[i - 1].model, u, ops[i])
  BY PromisedChain
<1>2. \A i \in 0..n : WellGranted(d[i].model)
  BY ForwardRuns
<1>3. u \in Roles /\ Derived(m, u, ops) = d[n]
  BY DEF Promised, Derived
<1> HIDE DEF d, n
<1>4. q \in Seq(Operations) /\ Len(q) = n /\ \A i \in 1..n : q[i] \in Operations
  <2>1. q \in Seq(Operations) /\ Len(q) = n
    BY <1>1 DEF Chain
  <2> HIDE DEF q
  <2> QED
    BY <2>1, ElementOfSeq
<1>6. rev \in Seq(Operations) /\ Len(rev) = n /\ \A i \in 1..n : rev[i] = q[(n - i) + 1]
  <2> HIDE DEF q
  <2> QED
    BY <1>4, ReverseIs
<1> HIDE DEF rev
<1>7. b[0] = [ok |-> TRUE, cat |-> d[n].model] /\ \A i \in 1..n : b[i] = Statement(b[i - 1], u, rev[i])
  <2>1. Len(rev) \in Nat
    BY <1>1, <1>6
  <2>2. b[0] = [ok |-> TRUE, cat |-> d[n].model]
        /\ \A i \in 1..Len(rev) : b[i] = Statement(b[i - 1], u, rev[i])
    BY <2>1, AppliedIs
  <2> QED
    BY <1>6, <2>2
<1>8. \A i \in 0..n : StateOK(b[i])
  BY <1>1, <1>3, <1>6, AppliedTyped
<1>9. Apply(d[n].model, u, rev) = b[n]
  BY <1>6 DEF Apply
<1> HIDE DEF b, q
<1>10. 0 \in T
  BY <1>1, <1>7
<1>11. ASSUME NEW j \in Nat, j \in T PROVE j + 1 \in T
  <2> SUFFICES ASSUME j + 1 <= n PROVE Back(j + 1)
    OBVIOUS
  <2> DEFINE i == n - j
             inv == rev[j + 1]
             op == ops[i]
             x == d[i - 1].model
  <2>1. /\ j + 1 \in 1..n /\ (j + 1) - 1 = j /\ j \in 0..n /\ i \in 1..n /\ (n - (j + 1)) + 1 = i /\ n - (j + 1) = i - 1
        /\ i - 1 \in 0..n /\ Back(j)
    BY <1>1, <1>11
  <2>2. b[j + 1] = Statement(b[j], u, inv)
    BY <1>7, <2>1
  <2>3. StateOK(b[j]) /\ b[j].ok /\ b[j].cat = d[i].model
    BY <1>8, <2>1
  <2>4. inv = q[i]
    BY <1>6, <2>1
  <2>5. inv = Inverted(x, op) /\ d[i].model = Predicted(x, u, op)
    BY <1>1, <2>1, <2>4 DEF Chain, q
  <2>6. Owned(x, u, op) /\ WellGranted(x)
    BY <1>1, <1>2, <2>1
  <2> HIDE DEF x, op, inv
  <2>7. ~Fails(d[i].model, u, inv) /\ Effect(d[i].model, u, inv) = x
    BY <2>5, <2>6, OwnBackward
  <2>8. b[j + 1].ok /\ b[j + 1].cat = x
    BY <2>2, <2>3, <2>7, StatementGoes
  <2> QED
    BY <2>1, <2>8 DEF x
<1>12. Back(n)
  <2> HIDE DEF T
  <2>1. \A j \in Nat : j \in T
    BY <1>10, <1>11, Inductive
  <2> QED
    BY <1>1, <2>1 DEF T
<1>13. b[n].ok /\ b[n].cat = m
  BY <1>1, <1>12
<1>14. IsCatalogue(d[n].model)
  BY <1>1
<1> QED
  BY <1>3, <1>4, <1>9, <1>13, <1>14 DEF rev, q

\* Once an operation is applied, its grantee has what it says.
LEMMA MadeHolds ==
  ASSUME NEW m, NEW u, NEW op, Owned(m, u, op)
  PROVE  Holds(Predicted(m, u, op), op)
<1> DEFINE t == op.on
           acl == m.acl[t]
           after == Entered(acl, u, op)
           p == Predicted(m, u, op)
<1>1. /\ t \in Things /\ op \in AclOperations(t) /\ ~op.only /\ u \in Roles
      /\ acl \subseteq Entries(t) /\ Single(acl, u, op)
  BY OwnedIs
<1>2. op.kind # "ownership" /\ t \notin m.null /\ op.opt \in BOOLEAN /\ op.grant \in BOOLEAN
  BY <1>1 DEF Owned, AclOperations
<1>3. p.null = m.null /\ p.acl[t] = after
  BY PredictedIs
<1>4. /\ ~op.grant => Matching(after, op) = {}
      /\ op.grant => Matching(after, op) = {IF op.opt \/ Matching(acl, op) = {Yes(u, op)} THEN Yes(u, op) ELSE No(u, op)}
  BY <1>1, ListParts
<1>5. Yes(u, op).opt
  BY OwnIs
<1> HIDE DEF p, after
<1>6. Acl(p, t) = after
  BY <1>2, <1>3 DEF Acl
<1> QED
  BY <1>2, <1>4, <1>5, <1>6 DEF Holds, p

\* And another grantee's or another privilege's does not change that.
LEMMA OthersKeep ==
  ASSUME NEW m, NEW u, NEW op, Owned(m, u, op), NEW x, x.kind # "ownership", x.on \in Things \ m.null,
         x.on # op.on \/ x.to # op.to \/ x.priv # op.priv, Holds(m, x)
  PROVE  Holds(Predicted(m, u, op), x)
<1> DEFINE t == op.on
           acl == m.acl[t]
           after == Entered(acl, u, op)
           p == Predicted(m, u, op)
<1>1. /\ t \in Things /\ op \in AclOperations(t) /\ ~op.only /\ u \in Roles
      /\ acl \subseteq Entries(t) /\ Single(acl, u, op)
  BY OwnedIs
<1>2. p.null = m.null /\ p.acl[t] = after /\ \A y \in Things \ {t} : p.acl[y] = m.acl[y]
  BY PredictedIs
<1>3. LET rest == acl \ {Yes(u, op), No(u, op)}
      IN  acl = rest \cup Matching(acl, op) /\ after = rest \cup Matching(after, op)
  BY <1>1, ListParts
<1> HIDE DEF p, after
<1>4. Matching(p.acl[x.on], x) = Matching(m.acl[x.on], x)
  <2>1. CASE x.on # t
    BY <1>2, <2>1
  <2>2. CASE x.on = t
    <3>1. x.to # op.to \/ x.priv # op.priv
      BY <2>2
    <3>2. Matching(after, x) = Matching(acl, x)
      BY <1>3, <3>1 DEF Matching
    <3> QED
      BY <1>2, <2>2, <3>2
  <2> QED
    BY <2>1, <2>2
<1>5. Acl(p, x.on) = p.acl[x.on] /\ Acl(m, x.on) = m.acl[x.on]
  BY <1>2 DEF Acl
<1> QED
  BY <1>4, <1>5 DEF Holds, p

\* So that at the end each grantee has what the last operation on its right says.
LEMMA LastHolds ==
  ASSUME NEW m, NEW u, NEW ops, Promised(m, u, ops), NEW i \in DOMAIN ops, LastOn(ops, i)
  PROVE  Holds(Derived(m, u, ops).model, ops[i])
<1> DEFINE d == Deriving(m, u, ops)
           n == Len(ops)
           T == {k \in Nat : i + k <= n => Holds(d[i + k].model, ops[i])}
<1>1. /\ n \in Nat /\ Chain(d, u, ops, n) /\ d[0].model = m
      /\ \A j \in 0..n : IsCatalogue(d[j].model) /\ d[j].model.null = m.null
      /\ \A j \in 1..n : Owned(d[j - 1].model, u, ops[j])
  BY PromisedChain
<1>2. Derived(m, u, ops) = d[n]
  BY DEF Derived
<1>3. i \in 1..n /\ DOMAIN ops = 1..n
  BY LenProperties DEF Promised
<1> HIDE DEF d, n
<1>4. 0 \in T
  BY <1>1, <1>3, MadeHolds DEF Chain
<1>5. ASSUME NEW k \in Nat, k \in T PROVE k + 1 \in T
  <2> SUFFICES ASSUME i + (k + 1) <= n PROVE Holds(d[i + (k + 1)].model, ops[i])
    OBVIOUS
  <2> DEFINE j == i + (k + 1)
             x == d[j - 1].model
             op == ops[j]
             y == ops[i]
  <2>1. j \in 1..n /\ j > i /\ j - 1 = i + k /\ i + k <= n
    BY <1>1, <1>3
  <2>2. Holds(x, y)
    BY <1>5, <2>1
  <2>3. Owned(x, u, op) /\ d[j].model = Predicted(x, u, op)
    BY <1>1, <2>1 DEF Chain
  <2>4. y.kind # "ownership" /\ y.on \in Things /\ y.kind = IF y.on = "defaults" THEN "default_acl" ELSE "privilege"
    <3>1. Owned(d[i - 1].model, u, y)
      BY <1>1, <1>3
    <3> QED
      BY <3>1, OwnedIs, OperationIs DEF Owned
  <2>5. op.kind # "ownership" /\ op.kind = IF op.on = "defaults" THEN "default_acl" ELSE "privilege"
    BY <2>3, OwnedIs, OperationIs DEF Owned
  <2>6. y.on # op.on \/ y.to # op.to \/ y.priv # op.priv
    BY <1>3, <2>1, <2>4, <2>5 DEF LastOn
  <2>7. y.on \notin x.null
    <3>1. x.null = m.null /\ d[i - 1].model.null = m.null /\ Owned(d[i - 1].model, u, y)
      BY <1>1, <1>3, <2>1
    <3> QED
      BY <3>1 DEF Owned
  <2> HIDE DEF x, y, op
  <2>8. Holds(Predicted(x, u, op), y)
    BY <2>2, <2>3, <2>4, <2>6, <2>7, OthersKeep
  <2> QED
    BY <2>3, <2>8 DEF y
<1>6. \A k \in Nat : k \in T
  <2> HIDE DEF T
  <2> QED
    BY <1>4, <1>5, Inductive
<1>7. n - i \in Nat /\ i + (n - i) = n
  BY <1>1, <1>3
<1> QED
  BY <1>1, <1>2, <1>6, <1>7

-----------------------------------------------------------------------------
(* The inverse, after others have changed the database *)

\* c has what the plan touched as x has it: the lists of L, which are u's own, and the owners of O.
Near(c, x, u, L, O) ==
  /\ \A t \in L : c.owner[t] = u /\ t \notin c.null /\ c.acl[t] = x.acl[t]
  /\ \A t \in O : c.owner[t] = x.owner[t]

\* One step of the inverse.
LEMMA NearBack ==
  ASSUME NEW c, IsCatalogue(c), NEW x, IsCatalogue(x), NEW u \in Roles, NEW op, IsPlanned(op), Fits(x, op), Supported(x, u, op),
         NEW L \in SUBSET Things, NEW O \in SUBSET Things, L \cap O = {},
         op.on \in IF op.kind = "ownership" THEN O ELSE L,
         Near(c, Predicted(x, u, op), u, L, O)
  PROVE  Near(Effect(c, u, Inverted(x, op)), x, u, L, O)
<1> DEFINE t == op.on
           p == Predicted(x, u, op)
           inv == Inverted(x, op)
           e == Effect(c, u, inv)
<1>1. c \in Shapes /\ x \in Shapes /\ t \in Things
  BY CatalogueIs, OperationIs DEF IsPlanned
<1>2. CASE op.kind = "ownership"
  <2>1. t \in O /\ x.owner[t] \in Roles
    BY <1>1, <1>2 DEF Shapes
  <2>2. p.acl = x.acl /\ \A s \in Things \ {t} : p.owner[s] = x.owner[s]
    BY <1>1, <1>2 DEF Predicted, Shapes
  <2>3. inv = SetsOwner(t, op.to, x.owner[t])
    BY <1>2 DEF Inverted
  <2>4. inv.kind = "ownership" /\ inv.on = t /\ inv.to = x.owner[t]
    BY <2>3 DEF SetsOwner
  <2> HIDE DEF inv, p
  <2> DEFINE new == Renamed(c.acl[t], c.owner[t], x.owner[t])
  <2>5. e = [c EXCEPT !.owner[t] = x.owner[t], !.acl[t] = new]
    BY <1>1, <2>4 DEF Effect, Shapes
  <2> HIDE DEF new, e
  <2>6. /\ e.null = c.null /\ e.owner[t] = x.owner[t]
        /\ \A s \in Things \ {t} : e.owner[s] = c.owner[s] /\ e.acl[s] = c.acl[s]
    BY <1>1, <2>5 DEF Shapes
  <2>7. Near(e, x, u, L, O)
    BY <2>1, <2>2, <2>6 DEF Near, p
  <2> QED
    BY <2>7 DEF e, inv
<1>3. CASE op.kind # "ownership"
  <2>1. t \in L
    BY <1>3
  <2>2. p = [x EXCEPT !.acl[t] = Entered(x.acl[t], u, op)]
    BY <1>3 DEF Predicted
  <2> DEFINE new == Entered(x.acl[t], u, op)
  <2> HIDE DEF new
  <2>3. p.acl[t] = new /\ p.owner = x.owner /\ \A s \in Things \ {t} : p.acl[s] = x.acl[s]
    <3>1. p = [x EXCEPT !.acl[t] = new]
      BY <2>2 DEF new
    <3> HIDE DEF p
    <3> QED
      BY <1>1, <3>1 DEF Shapes
  <2>4. u = c.owner[t] /\ t \notin c.null /\ c.acl[t] = new
    BY <2>1, <2>3 DEF Near
  <2>5. e = [c EXCEPT !.acl[t] = x.acl[t]]
    BY <1>3, <2>4, Undoes DEF new
  <2> HIDE DEF e, p
  <2>6. e.null = c.null /\ e.owner = c.owner /\ e.acl[t] = x.acl[t] /\ \A s \in Things \ {t} : e.acl[s] = c.acl[s]
    BY <1>1, <2>5 DEF Shapes
  <2>7. Near(e, x, u, L, O)
    BY <2>1, <2>3, <2>6 DEF Near, p
  <2> QED
    BY <2>7 DEF e
<1> QED
  BY <1>2, <1>3

\* All of them.
LEMMA AllBack ==
  ASSUME NEW m, IsCatalogue(m), NEW u \in Roles, NEW ops \in Seq(Operations), \A i \in DOMAIN ops : IsPlanned(ops[i]),
         Derived(m, u, ops).fits, Derived(m, u, ops).supported,
         NEW L \in SUBSET Things, NEW O \in SUBSET Things, L \cap O = {},
         \A i \in DOMAIN ops : ops[i].on \in IF ops[i].kind = "ownership" THEN O ELSE L,
         NEW c, IsCatalogue(c), Near(c, Derived(m, u, ops).model, u, L, O),
         Apply(c, u, Reverse(Derived(m, u, ops).steps)).ok
  PROVE  Near(Apply(c, u, Reverse(Derived(m, u, ops).steps)).cat, m, u, L, O)
<1> DEFINE d == Deriving(m, u, ops)
           n == Len(ops)
           q == d[n].steps
           rev == Reverse(q)
           b == Applied(c, u, rev)
           Back(j) == Near(b[j].cat, d[n - j].model, u, L, O)
           T == {j \in Nat : j <= n => Back(j)}
<1>1. n \in Nat /\ DOMAIN ops = 1..n
  BY LenProperties
<1>2. Chain(d, u, ops, n) /\ d[0].model = m
  BY <1>1, Derivation DEF Derived
<1>3. Derived(m, u, ops) = d[n]
  BY DEF Derived
<1> HIDE DEF d, n
<1>4. q \in Seq(Operations) /\ Len(q) = n /\ \A i \in 1..n : q[i] \in Operations
  <2>1. q \in Seq(Operations) /\ Len(q) = n
    BY <1>2 DEF Chain
  <2> HIDE DEF q
  <2> QED
    BY <2>1, ElementOfSeq
<1>5. rev \in Seq(Operations) /\ Len(rev) = n /\ \A i \in 1..n : rev[i] = q[(n - i) + 1]
  <2> HIDE DEF q
  <2> QED
    BY <1>4, ReverseIs
<1> HIDE DEF rev
<1>6. b[0] = [ok |-> TRUE, cat |-> c] /\ \A i \in 1..n : b[i] = Statement(b[i - 1], u, rev[i])
  <2>1. Len(rev) \in Nat
    BY <1>1, <1>5
  <2>2. b[0] = [ok |-> TRUE, cat |-> c] /\ \A i \in 1..Len(rev) : b[i] = Statement(b[i - 1], u, rev[i])
    BY <2>1, AppliedIs
  <2> QED
    BY <1>5, <2>2
<1>7. \A i \in 0..n : StateOK(b[i])
  BY <1>5, AppliedTyped
<1>8. Apply(c, u, rev) = b[n]
  BY <1>5 DEF Apply
<1>9. \A i \in 0..n : b[i].ok
  <2>1. Apply(c, u, rev).ok
    BY <1>3 DEF rev, q
  <2> QED
    BY <1>5, <2>1, OkBefore
<1> HIDE DEF b, q
<1>10. 0 \in T
  BY <1>1, <1>3, <1>6
<1>11. ASSUME NEW j \in Nat, j \in T PROVE j + 1 \in T
  <2> SUFFICES ASSUME j + 1 <= n PROVE Back(j + 1)
    OBVIOUS
  <2> DEFINE i == n - j
             inv == rev[j + 1]
             op == ops[i]
             x == d[i - 1].model
  <2>1. /\ j + 1 \in 1..n /\ (j + 1) - 1 = j /\ j \in 0..n /\ i \in 1..n /\ (n - (j + 1)) + 1 = i /\ n - (j + 1) = i - 1
        /\ j + 1 \in 0..n /\ Back(j)
    BY <1>1, <1>11
  <2>2. b[j + 1] = Statement(b[j], u, inv) /\ b[j + 1].ok /\ StateOK(b[j])
    BY <1>6, <1>7, <1>9, <2>1
  <2>3. inv = q[i]
    BY <1>5, <2>1
  <2>4. inv = Inverted(x, op) /\ d[i].model = Predicted(x, u, op) /\ IsCatalogue(x) /\ Fits(x, op) /\ Supported(x, u, op)
    BY <1>2, <2>1, <2>3 DEF Chain, q
  <2>5. IsPlanned(op) /\ op.on \in IF op.kind = "ownership" THEN O ELSE L
    BY <1>1, <2>1
  <2> HIDE DEF x, op, inv
  <2>6. b[j + 1].cat = Effect(b[j].cat, u, inv)
    BY <2>2, StatementGoes
  <2>7. Near(b[j].cat, Predicted(x, u, op), u, L, O) /\ IsCatalogue(b[j].cat)
    BY <2>1, <2>2, <2>4 DEF StateOK
  <2>8. Near(Effect(b[j].cat, u, Inverted(x, op)), x, u, L, O)
    BY <2>4, <2>5, <2>7, NearBack
  <2> QED
    BY <2>1, <2>4, <2>6, <2>8 DEF x
<1>12. Back(n)
  <2> HIDE DEF T
  <2>1. \A j \in Nat : j \in T
    BY <1>10, <1>11, Inductive
  <2> QED
    BY <1>1, <2>1 DEF T
<1>13. Near(b[n].cat, m, u, L, O)
  BY <1>1, <1>2, <1>12
<1> QED
  BY <1>3, <1>8, <1>13 DEF rev, q

\* The model has its lists at their default where the prestate has.
LEMMA DefaultsStay ==
  ASSUME NEW m, IsCatalogue(m), NEW u \in Roles, NEW ops \in Seq(Operations),
         Derived(m, u, ops).fits, Derived(m, u, ops).supported
  PROVE  Derived(m, u, ops).model.null = m.null
<1> DEFINE d == Deriving(m, u, ops)
           n == Len(ops)
           T == {i \in Nat : i <= n => d[i].model.null = m.null}
<1>1. n \in Nat
  BY LenProperties
<1>2. Chain(d, u, ops, n) /\ d[0].model = m
  BY <1>1, Derivation DEF Derived
<1>3. Derived(m, u, ops) = d[n]
  BY DEF Derived
<1> HIDE DEF d, n
<1>4. 0 \in T
  BY <1>2
<1>5. ASSUME NEW i \in Nat, i \in T PROVE i + 1 \in T
  <2> SUFFICES ASSUME i + 1 <= n PROVE d[i + 1].model.null = m.null
    OBVIOUS
  <2>1. i + 1 \in 1..n /\ (i + 1) - 1 = i /\ d[i].model.null = m.null
    BY <1>1, <1>5
  <2>2. d[i + 1].model = Predicted(d[i].model, u, ops[i + 1]) /\ IsCatalogue(d[i].model)
    BY <1>2, <2>1 DEF Chain
  <2>3. Predicted(d[i].model, u, ops[i + 1]).null = d[i].model.null
    <3>1. ASSUME NEW x \in Shapes, NEW op PROVE Predicted(x, u, op).null = x.null
      BY <3>1 DEF Predicted, Shapes
    <3> QED
      BY <2>2, <3>1, CatalogueIs
  <2> QED
    BY <2>1, <2>2, <2>3
<1>6. d[n].model.null = m.null
  <2> HIDE DEF T
  <2>1. \A i \in Nat : i \in T
    BY <1>4, <1>5, Inductive
  <2> QED
    BY <1>1, <2>1 DEF T
<1> QED
  BY <1>3, <1>6

-----------------------------------------------------------------------------
(* The invariant *)

\* What a call is made of.
CallTyped ==
  /\ call \in [user : Roles, capability : {"none", "bound", "other"}, ops : Seq(Operations)]
  /\ \A i \in DOMAIN call.ops : IsPlanned(call.ops[i])

\* The prestate is what could be observed, with lists as PostgreSQL keeps them.
MadeFrom == WellGranted(pre) /\ Observable(pre)

\* While the call runs, its inverse is the one that was frozen before the first statement.
Model == Derived(pre, call.user, call.ops)
Running == {"committed", "rolled_back", "undo", "undone", "restore"}
Froze ==
  /\ stage \in Running => Model.fits /\ inverse = Frozen(Model, call.ops)
  /\ stage = "undo" => ~inverse.external

\* Where the database is on the way, if nobody else changes it.
Follows ==
  ~disturbed =>
    /\ stage = "rolled_back" => cat = pre
    /\ Invertible =>
         /\ stage \in {"committed", "undo"} => Apply(pre, call.user, call.ops).ok /\ cat = Model.model
         /\ stage = "undo" => Observable(cat)
         /\ stage = "undone" => cat = pre
         /\ stage = "restore" => ~Observable(cat)

PlanIInv == PlanTypeOK /\ CallTyped /\ MadeFrom /\ Froze /\ Follows /\ DoneOrUndone

\* Two catalogues that can be observed and have the same prestate are the same.
LEMMA SamePrestate ==
  ASSUME NEW c, NEW p, IsCatalogue(c), IsCatalogue(p), Observable(c), Observable(p), Prestate(c) = Prestate(p)
  PROVE  c = p
<1>1. c \in Shapes /\ p \in Shapes
  BY CatalogueIs
<1>2. /\ Ownership(c) = Ownership(p) /\ Privileges(c) = Privileges(p) /\ DefaultAcls(c) = DefaultAcls(p)
      /\ Memberships(c) = Memberships(p) /\ MigrationJournal(c) = MigrationJournal(p)
  BY DEF Prestate
<1>3. c.owner = p.owner /\ c.ledger = p.ledger /\ c.edge = p.edge
  BY <1>2 DEF Ownership, Memberships, MigrationJournal
<1>4. \A t \in Things \ {"defaults"} : (t \in c.null <=> t \in p.null) /\ c.acl[t] = p.acl[t]
  <2> TAKE t \in Things \ {"defaults"}
  <2>1. Privileges(c)[t] = Privileges(p)[t]
    BY <1>2
  <2>2. [null |-> t \in c.null, entries |-> c.acl[t]] = [null |-> t \in p.null, entries |-> p.acl[t]]
    BY <2>1 DEF Privileges
  <2> QED
    BY <2>2
<1>5. c.null = p.null
  BY <1>1, <1>4 DEF Shapes, Things
<1>6. c.acl = p.acl
  <2>1. c.acl["defaults"] = p.acl["defaults"]
    BY <1>2 DEF DefaultAcls
  <2>2. \A t \in Things : c.acl[t] = p.acl[t]
    BY <1>4, <2>1
  <2> QED
    BY <1>1, <2>2 DEF Shapes
<1>7. c.strays = p.strays /\ c.active = p.active /\ c.bound = p.bound
  BY <1>1 DEF Shapes, Observable, NoStrays, RolesFixed, TargetBound
<1> QED
  BY <1>1, <1>3, <1>5, <1>6, <1>7 DEF Shapes

\* What is frozen of a derivation that fits.
LEMMA FrozenIs ==
  ASSUME NEW d, DerivedOK(d), d.fits, NEW ops
  PROVE  LET f == Frozen(d, ops)
         IN  /\ f.external \in BOOLEAN /\ f.steps \in Seq(Operations)
             /\ f.external => f.steps = <<>>
             /\ d.supported => ~f.external /\ f.steps = Reverse(d.steps)
                               /\ f.expected = [i \in DOMAIN ops |-> Authority(d.model, ops[i])]
<1>1. CASE d.supported
  <2>1. Frozen(d, ops) = [external |-> FALSE, expected |-> [i \in DOMAIN ops |-> Authority(d.model, ops[i])],
                          steps |-> Reverse(d.steps)]
    BY <1>1 DEF Frozen
  <2>2. d.steps \in Seq(Operations)
    BY <1>1 DEF DerivedOK
  <2>3. Reverse(d.steps) \in Seq(Operations)
    BY <2>2, ReverseIs
  <2> QED
    BY <2>1, <2>3
<1>2. CASE ~d.supported
  <2>1. Frozen(d, ops) = NoInverse
    BY <1>2 DEF Frozen
  <2>2. <<>> \in Seq(Operations)
    BY EmptySeq
  <2> QED
    BY <1>2, <2>1, <2>2 DEF NoInverse
<1> QED
  BY <1>1, <1>2

\* What the invariant says of the plan.
LEMMA PlanIs ==
  ASSUME PlanTypeOK, CallTyped, MadeFrom
  PROVE  /\ IsCatalogue(pre) /\ IsCatalogue(cat) /\ call.user \in Roles /\ call.ops \in Seq(Operations)
         /\ DerivedOK(Model)
         /\ Invertible => Promised(pre, call.user, call.ops) /\ Ready(pre)
<1>1. IsCatalogue(pre) /\ IsCatalogue(cat) /\ call.user \in Roles /\ call.ops \in Seq(Operations)
  BY DEF PlanTypeOK, CallTyped
<1>2. Len(call.ops) \in Nat /\ DOMAIN call.ops = 1..Len(call.ops)
  BY <1>1, LenProperties
<1>3. DerivedOK(Model)
  BY <1>1, <1>2, Derivation DEF Model, Derived
<1>4. Invertible => Promised(pre, call.user, call.ops) /\ Ready(pre)
  BY <1>1, <1>2 DEF Invertible, Promised, CallTyped, MadeFrom
<1> QED
  BY <1>1, <1>3, <1>4

\* Nothing that happens changes the plan.
LEMMA SamePlan ==
  ASSUME UNCHANGED <<call, pre>>
  PROVE  /\ Model' = Model /\ (Invertible' <=> Invertible)
         /\ CallTyped => CallTyped'
         /\ MadeFrom => MadeFrom'
<1>1. call' = call /\ pre' = pre
  OBVIOUS
<1> QED
  BY <1>1 DEF Model, Invertible, CallTyped, MadeFrom

\* What a verification finds.
LEMMA RestorationIs ==
  ASSUME NEW c
  PROVE  /\ Restoration(c) \in {"VERIFIED", "FAILED", "AMBIGUOUS"}
         /\ Restoration(c) = "VERIFIED" => Prestate(c) = Prestate(pre)
         /\ Restoration(c) = "AMBIGUOUS" <=> ~Observable(c)
         /\ c = pre /\ Observable(pre) /\ Ready(pre) => Restoration(c) = "VERIFIED"
BY DEF Restoration

\* Where a verification leads.
LEMMA Settles ==
  ASSUME NEW r \in {"VERIFIED", "FAILED", "AMBIGUOUS"}, Settle(r), answer = "none"
  PROVE  \/ r = "VERIFIED" /\ stage' = "answered" /\ answer' = "restored"
         \/ r # "VERIFIED" /\ stage' = "restore" /\ answer' = "none"
         \/ r = "FAILED" /\ stage' = "answered" /\ answer' = "unrestored"
         \/ r = "AMBIGUOUS" /\ stage' = "answered" /\ answer' = "ambiguous"
<1>1. CASE r = "VERIFIED"
  BY <1>1 DEF Settle, Ends
<1>2. CASE r = "FAILED"
  BY <1>2 DEF Settle, Ends, GoesTo
<1>3. CASE r = "AMBIGUOUS"
  BY <1>3 DEF Settle, Ends, GoesTo
<1> QED
  BY <1>1, <1>2, <1>3

\* The parts of the invariant that a step of the call keeps if it leaves a catalogue.
LEMMA StepTyped ==
  ASSUME PlanTypeOK, IsCatalogue(cat'), Keeps, inverse'.external \in BOOLEAN,
         inverse'.external => inverse'.steps = <<>>, stage' \in Stages, answer' \in Answers,
         answer' # "none" <=> stage' = "answered"
  PROVE  PlanTypeOK'
BY DEF PlanTypeOK, Keeps

\* A plan is made for what can be observed, and nothing has happened yet.
LEMMA PlanStarts ==
  ASSUME PlanInit
  PROVE  PlanIInv
<1>1. cat \in Catalogues /\ Observable(cat) /\ call \in PlansFor(cat) /\ pre = cat /\ inverse = NoInverse
      /\ stage = "planned" /\ answer = "none" /\ command = "none" /\ drifts = 0 /\ disturbed = FALSE
  BY DEF PlanInit
<1>2. IsCatalogue(cat) /\ WellGranted(cat)
  BY <1>1, CataloguesAssumption
<1>3. CallTyped
  BY <1>1, PlansAssumption DEF CallTyped
<1>4. PlanTypeOK
  <2>1. inverse.external = TRUE /\ inverse.steps = <<>>
    BY <1>1 DEF NoInverse
  <2>2. call.user \in Roles /\ call.capability \in {"none", "bound", "other"}
    BY <1>3 DEF CallTyped
  <2>3. drifts \in 0..MaxDrift
    BY <1>1, DriftAssumption
  <2> QED
    BY <1>1, <1>2, <2>1, <2>2, <2>3 DEF PlanTypeOK, Stages, Answers
<1>5. MadeFrom
  BY <1>1, <1>2 DEF MadeFrom
<1>6. Froze /\ Follows /\ DoneOrUndone
  BY <1>1 DEF Froze, Running, Follows, DoneOrUndone
<1> QED
  BY <1>3, <1>4, <1>5, <1>6 DEF PlanIInv

\* A refusal touches nothing.
LEMMA RefuseStep ==
  ASSUME PlanIInv, Refuse
  PROVE  PlanIInv'
<1>1. PlanTypeOK /\ CallTyped /\ MadeFrom
  BY DEF PlanIInv
<1>2. /\ stage = "planned" /\ stage' = "answered" /\ answer' = "blocked" /\ cat' = cat /\ inverse' = inverse /\ Keeps
      /\ call' = call /\ pre' = pre
  BY DEF Refuse, Ends, Keeps
<1>3. CallTyped' /\ MadeFrom'
  BY <1>1, <1>2, SamePlan
<1>4. PlanTypeOK'
  <2>1. IsCatalogue(cat') /\ inverse'.external \in BOOLEAN /\ (inverse'.external => inverse'.steps = <<>>)
    BY <1>1, <1>2 DEF PlanTypeOK
  <2> QED
    BY <1>1, <1>2, <2>1, StepTyped DEF Stages, Answers
<1>5. Froze' /\ Follows'
  BY <1>2 DEF Froze, Running, Follows
<1>6. DoneOrUndone'
  BY <1>2 DEF DoneOrUndone
<1> QED
  BY <1>3, <1>4, <1>5, <1>6 DEF PlanIInv

\* The forward transaction leaves the model's catalogue of a promised plan, or the prestate.
LEMMA ExecuteStep ==
  ASSUME PlanIInv, Execute
  PROVE  PlanIInv'
<1> DEFINE s == Apply(cat, call.user, call.ops)
<1>1. PlanTypeOK /\ CallTyped /\ MadeFrom
  BY DEF PlanIInv
<1>2. /\ stage = "planned" /\ Keeps /\ call' = call /\ pre' = pre /\ answer' = answer /\ answer = "none"
      /\ inverse' = Frozen(Model, call.ops)
  BY <1>1 DEF Execute, Keeps, GoesTo, Model, PlanTypeOK
<1>3. Observable(cat) /\ Prestate(cat) = Prestate(pre) /\ Model.fits
  BY DEF Execute, Admitted, Model
<1>4. \/ s.ok /\ cat' = s.cat /\ stage' = "committed"
      \/ ~s.ok /\ cat' = cat /\ stage' = "rolled_back"
  BY DEF Execute, GoesTo
<1>5. /\ IsCatalogue(pre) /\ IsCatalogue(cat) /\ call.user \in Roles /\ call.ops \in Seq(Operations)
      /\ DerivedOK(Model)
      /\ Invertible => Promised(pre, call.user, call.ops) /\ Ready(pre)
  BY <1>1, PlanIs
<1>6. cat = pre
  BY <1>1, <1>3, <1>5, SamePrestate DEF MadeFrom
<1>7. Model' = Model /\ (Invertible' <=> Invertible) /\ CallTyped' /\ MadeFrom'
  BY <1>1, <1>2, SamePlan
<1>8. inverse'.external \in BOOLEAN /\ (inverse'.external => inverse'.steps = <<>>)
  BY <1>2, <1>3, <1>5, FrozenIs
<1>9. IsCatalogue(s.cat)
  BY <1>5, AppliedTyped DEF StateOK
<1> HIDE DEF s
<1>10. PlanTypeOK'
  BY <1>1, <1>2, <1>4, <1>5, <1>8, <1>9, StepTyped DEF Stages, Answers
<1>11. Froze'
  BY <1>2, <1>3, <1>4, <1>7 DEF Froze
<1>12. Follows'
  <2>1. stage' = "rolled_back" => cat' = pre'
    BY <1>2, <1>4, <1>6
  <2>2. ASSUME Invertible, stage' = "committed"
        PROVE  Apply(pre, call.user, call.ops).ok /\ cat' = Model.model
    <3>1. s.ok /\ cat' = s.cat
      BY <1>4, <2>2
    <3>2. Apply(pre, call.user, call.ops) = s
      BY <1>6 DEF s
    <3>3. Promised(pre, call.user, call.ops)
      BY <1>5, <2>2
    <3>4. Apply(pre, call.user, call.ops).cat = Model.model
      BY <3>1, <3>2, <3>3, ForwardRuns DEF Model, Derived
    <3> QED
      BY <3>1, <3>2, <3>4
  <2>3. stage' \notin {"undo", "undone", "restore"}
    BY <1>4
  <2> QED
    BY <1>2, <1>7, <2>1, <2>2, <2>3 DEF Follows
<1>13. DoneOrUndone'
  BY <1>4 DEF DoneOrUndone
<1> QED
  BY <1>7, <1>10, <1>11, <1>12, <1>13 DEF PlanIInv

\* What the invariant says of a database nobody else has changed, when a plan that is promised
\* an inverse is in doubt: the verification finds either what the call can undo or what nobody
\* can observe.
LEMMA FinalVerifyStep ==
  ASSUME PlanIInv, FinalVerify
  PROVE  PlanIInv'
<1> DEFINE r == Restoration(cat)
<1>1. PlanTypeOK /\ CallTyped /\ MadeFrom /\ Froze /\ Follows
  BY DEF PlanIInv
<1>2. /\ stage = "committed" /\ Keeps /\ call' = call /\ pre' = pre /\ cat' = cat /\ inverse' = inverse
      /\ disturbed' = disturbed /\ answer = "none"
  BY <1>1 DEF FinalVerify, Keeps, PlanTypeOK
<1>3. \/ stage' = "answered" /\ answer' = "passed"
      \/ r = "FAILED" /\ ~inverse.external /\ stage' = "undo" /\ answer' = "none"
      \/ ~(r = "FAILED" /\ ~inverse.external) /\ Settle(r)
  BY <1>2 DEF FinalVerify, Recover, GoesTo, Ends
<1>4. r \in {"VERIFIED", "FAILED", "AMBIGUOUS"} /\ (r = "VERIFIED" => Prestate(cat) = Prestate(pre))
      /\ (r = "AMBIGUOUS" <=> ~Observable(cat))
  BY RestorationIs
<1> HIDE DEF r
<1>5. \/ stage' = "answered" /\ answer' = "passed"
      \/ r = "FAILED" /\ ~inverse.external /\ stage' = "undo" /\ answer' = "none"
      \/ r = "VERIFIED" /\ stage' = "answered" /\ answer' = "restored"
      \/ r # "VERIFIED" /\ ~(r = "FAILED" /\ ~inverse.external) /\ stage' = "restore" /\ answer' = "none"
      \/ r = "FAILED" /\ inverse.external /\ stage' = "answered" /\ answer' = "unrestored"
      \/ r = "AMBIGUOUS" /\ stage' = "answered" /\ answer' = "ambiguous"
  BY <1>1, <1>2, <1>3, <1>4, Settles DEF PlanTypeOK
<1>6. /\ IsCatalogue(cat) /\ DerivedOK(Model) /\ (Invertible => Promised(pre, call.user, call.ops) /\ Ready(pre))
  BY <1>1, PlanIs
<1>7. Model' = Model /\ (Invertible' <=> Invertible) /\ CallTyped' /\ MadeFrom'
  BY <1>1, <1>2, SamePlan
<1>8. Model.fits /\ inverse = Frozen(Model, call.ops)
  BY <1>1, <1>2 DEF Froze, Running
<1>9. Invertible => ~inverse.external
  BY <1>6, <1>8, FrozenIs DEF Promised, Model
<1>10. PlanTypeOK'
  <2>1. IsCatalogue(cat') /\ inverse'.external \in BOOLEAN /\ (inverse'.external => inverse'.steps = <<>>)
    BY <1>1, <1>2 DEF PlanTypeOK
  <2>2. stage' \in Stages /\ answer' \in Answers /\ (answer' # "none" <=> stage' = "answered")
    BY <1>5 DEF Stages, Answers
  <2> QED
    BY <1>1, <1>2, <2>1, <2>2, StepTyped
<1>11. Froze'
  BY <1>2, <1>5, <1>7, <1>8 DEF Froze
<1>12. ASSUME ~disturbed, Invertible
       PROVE  Apply(pre, call.user, call.ops).ok /\ cat = Model.model
  BY <1>1, <1>2, <1>12 DEF Follows
<1>13. Follows'
  <2>1. stage' # "rolled_back" /\ stage' # "undone"
    BY <1>5
  <2>2. stage' = "undo" => Observable(cat)
    BY <1>4, <1>5
  <2>3. Invertible /\ stage' = "restore" => ~Observable(cat)
    BY <1>4, <1>5, <1>9
  <2> QED
    BY <1>2, <1>7, <1>12, <2>1, <2>2, <2>3 DEF Follows
<1>14. DoneOrUndone'
  <2>1. answer' = "restored" => Prestate(cat') = Prestate(pre')
    BY <1>2, <1>4, <1>5
  <2>2. ASSUME stage' = "answered", ~disturbed, Invertible
        PROVE  /\ answer' = "passed" => \A i \in DOMAIN call.ops : LastOn(call.ops, i) => Holds(cat, call.ops[i])
               /\ answer' = "ambiguous" => ~Observable(cat)
               /\ answer' \in {"passed", "ambiguous", "blocked", "restored"}
    <3>1. cat = Model.model /\ Promised(pre, call.user, call.ops)
      BY <1>6, <1>12, <2>2
    <3>2. \A i \in DOMAIN call.ops : LastOn(call.ops, i) => Holds(cat, call.ops[i])
      BY <3>1, LastHolds DEF Model
    <3> QED
      BY <1>4, <1>5, <1>9, <2>2, <3>2
  <2>3. cat' = cat /\ call' = call /\ disturbed' = disturbed /\ (Invertible' <=> Invertible)
        /\ (Observable(cat)' <=> Observable(cat'))
    BY <1>2, <1>7
  <2> QED
    BY <2>1, <2>2, <2>3 DEF DoneOrUndone
<1> QED
  BY <1>7, <1>10, <1>11, <1>13, <1>14 DEF PlanIInv

\* Nothing of a plan that was rolled back is left to restore.
LEMMA AfterRollbackStep ==
  ASSUME PlanIInv, AfterRollback
  PROVE  PlanIInv'
<1> DEFINE r == Restoration(cat)
<1>1. PlanTypeOK /\ CallTyped /\ MadeFrom /\ Froze /\ Follows
  BY DEF PlanIInv
<1>2. /\ stage = "rolled_back" /\ Keeps /\ call' = call /\ pre' = pre /\ cat' = cat /\ inverse' = inverse
      /\ disturbed' = disturbed /\ answer = "none"
  BY <1>1 DEF AfterRollback, Keeps, PlanTypeOK
<1>3. \/ r = "FAILED" /\ ~inverse.external /\ stage' = "undo" /\ answer' = "none"
      \/ ~(r = "FAILED" /\ ~inverse.external) /\ Settle(r)
  BY <1>2 DEF AfterRollback, Recover, GoesTo, Ends
<1>4. r \in {"VERIFIED", "FAILED", "AMBIGUOUS"} /\ (r = "VERIFIED" => Prestate(cat) = Prestate(pre))
      /\ (cat = pre /\ Observable(pre) /\ Ready(pre) => r = "VERIFIED")
  BY RestorationIs
<1> HIDE DEF r
<1>5. \/ r = "FAILED" /\ ~inverse.external /\ stage' = "undo" /\ answer' = "none"
      \/ r = "VERIFIED" /\ stage' = "answered" /\ answer' = "restored"
      \/ r # "VERIFIED" /\ stage' = "restore" /\ answer' = "none"
      \/ r # "VERIFIED" /\ stage' = "answered" /\ answer' \in {"unrestored", "ambiguous"}
  BY <1>1, <1>2, <1>3, <1>4, Settles DEF PlanTypeOK
<1>6. Invertible => Promised(pre, call.user, call.ops) /\ Ready(pre)
  BY <1>1, PlanIs
<1>7. Model' = Model /\ (Invertible' <=> Invertible) /\ CallTyped' /\ MadeFrom'
  BY <1>1, <1>2, SamePlan
<1>8. ~disturbed /\ Invertible => r = "VERIFIED"
  BY <1>1, <1>2, <1>4, <1>6 DEF Follows, MadeFrom
<1>9. Model.fits /\ inverse = Frozen(Model, call.ops)
  BY <1>1, <1>2 DEF Froze, Running
<1>10. PlanTypeOK'
  <2>1. IsCatalogue(cat') /\ inverse'.external \in BOOLEAN /\ (inverse'.external => inverse'.steps = <<>>)
    BY <1>1, <1>2 DEF PlanTypeOK
  <2>2. stage' \in Stages /\ answer' \in Answers /\ (answer' # "none" <=> stage' = "answered")
    BY <1>5 DEF Stages, Answers
  <2> QED
    BY <1>1, <1>2, <2>1, <2>2, StepTyped
<1>11. Froze'
  BY <1>2, <1>5, <1>7, <1>9 DEF Froze
<1>12. Follows'
  <2>1. ~disturbed /\ Invertible => stage' = "answered"
    BY <1>5, <1>8
  <2>2. stage' # "rolled_back"
    BY <1>5
  <2> QED
    BY <1>2, <1>7, <2>1, <2>2 DEF Follows
<1>13. DoneOrUndone'
  <2>1. answer' = "restored" => Prestate(cat') = Prestate(pre')
    BY <1>2, <1>4, <1>5
  <2>2. ~disturbed /\ Invertible => answer' = "restored"
    BY <1>5, <1>8
  <2>3. disturbed' = disturbed /\ (Invertible' <=> Invertible)
    BY <1>2, <1>7
  <2> QED
    BY <2>1, <2>2, <2>3 DEF DoneOrUndone
<1> QED
  BY <1>7, <1>10, <1>11, <1>12, <1>13 DEF PlanIInv

\* Left alone, the inverse finds what it expects and leads back to the prestate.
LEMMA UndoStep ==
  ASSUME PlanIInv, Undo
  PROVE  PlanIInv'
<1> DEFINE s == Apply(cat, call.user, inverse.steps)
<1>1. PlanTypeOK /\ CallTyped /\ MadeFrom /\ Froze /\ Follows
  BY DEF PlanIInv
<1>2. /\ stage = "undo" /\ Keeps /\ call' = call /\ pre' = pre /\ inverse' = inverse
      /\ disturbed' = disturbed /\ answer = "none"
  BY <1>1 DEF Undo, Keeps, PlanTypeOK
<1>3. \/ StillPredicted /\ s.ok /\ cat' = s.cat /\ stage' = "undone" /\ answer' = "none"
      \/ ~(StillPredicted /\ s.ok) /\ cat' = cat /\ Settle("FAILED")
  BY <1>2 DEF Undo, GoesTo
<1>4. \/ StillPredicted /\ s.ok /\ cat' = s.cat /\ stage' = "undone" /\ answer' = "none"
      \/ ~(StillPredicted /\ s.ok) /\ cat' = cat /\ stage' = "restore" /\ answer' = "none"
      \/ ~(StillPredicted /\ s.ok) /\ cat' = cat /\ stage' = "answered" /\ answer' = "unrestored"
  <2> HIDE DEF s
  <2>1. ASSUME Settle("FAILED")
        PROVE  \/ stage' = "restore" /\ answer' = "none"
               \/ stage' = "answered" /\ answer' = "unrestored"
    BY <1>2, <2>1 DEF Settle, Ends, GoesTo
  <2> QED
    BY <1>3, <2>1
<1>5. /\ IsCatalogue(cat) /\ IsCatalogue(pre) /\ call.user \in Roles /\ call.ops \in Seq(Operations)
      /\ DerivedOK(Model) /\ (Invertible => Promised(pre, call.user, call.ops) /\ Ready(pre))
  BY <1>1, PlanIs
<1>6. Model.fits /\ inverse = Frozen(Model, call.ops)
  BY <1>1, <1>2 DEF Froze, Running
<1>7. Model' = Model /\ (Invertible' <=> Invertible) /\ CallTyped' /\ MadeFrom'
  BY <1>1, <1>2, SamePlan
<1>8. /\ inverse.steps \in Seq(Operations)
      /\ Model.supported => inverse.steps = Reverse(Model.steps)
                            /\ inverse.expected = [i \in DOMAIN call.ops |-> Authority(Model.model, call.ops[i])]
  BY <1>5, <1>6, FrozenIs
<1>9. IsCatalogue(s.cat)
  BY <1>5, <1>8, AppliedTyped DEF StateOK
<1>10. ASSUME ~disturbed, Invertible
       PROVE  StillPredicted /\ s.ok /\ s.cat = pre
  <2>1. Promised(pre, call.user, call.ops) /\ Apply(pre, call.user, call.ops).ok /\ cat = Model.model /\ Observable(cat)
    BY <1>1, <1>2, <1>5, <1>10 DEF Follows
  <2>2. Model.supported
    BY <2>1 DEF Promised, Model
  <2>3. StillPredicted
    BY <1>8, <2>1, <2>2 DEF StillPredicted
  <2>4. LET b == Apply(Model.model, call.user, Reverse(Model.steps)) IN b.ok /\ b.cat = pre
    BY <2>1, BackwardRuns DEF Model
  <2>5. s = Apply(Model.model, call.user, Reverse(Model.steps))
    BY <1>8, <2>1, <2>2
  <2> QED
    BY <2>3, <2>4, <2>5
<1> HIDE DEF s
<1>11. PlanTypeOK'
  <2>1. IsCatalogue(cat') /\ inverse'.external \in BOOLEAN /\ (inverse'.external => inverse'.steps = <<>>)
    BY <1>1, <1>2, <1>4, <1>5, <1>9 DEF PlanTypeOK
  <2>2. stage' \in Stages /\ answer' \in Answers /\ (answer' # "none" <=> stage' = "answered")
    BY <1>4 DEF Stages, Answers
  <2> QED
    BY <1>1, <1>2, <2>1, <2>2, StepTyped
<1>12. Froze'
  BY <1>2, <1>4, <1>6, <1>7 DEF Froze
<1>13. Follows'
  <2>1. ~disturbed /\ Invertible => stage' = "undone" /\ cat' = pre
    BY <1>4, <1>10
  <2>2. stage' # "rolled_back"
    BY <1>4
  <2> QED
    BY <1>2, <1>7, <2>1, <2>2 DEF Follows
<1>14. DoneOrUndone'
  <2>1. stage' = "answered" => answer' = "unrestored" /\ ~(~disturbed /\ Invertible)
    BY <1>4, <1>10
  <2>2. disturbed' = disturbed /\ (Invertible' <=> Invertible)
    BY <1>2, <1>7
  <2> QED
    BY <2>1, <2>2 DEF DoneOrUndone
<1> QED
  BY <1>7, <1>11, <1>12, <1>13, <1>14 DEF PlanIInv

\* Then its verification is VERIFIED.
LEMMA VerifyUndoStep ==
  ASSUME PlanIInv, VerifyUndo
  PROVE  PlanIInv'
<1> DEFINE r == IF Restoration(cat) = "VERIFIED" THEN "VERIFIED" ELSE "FAILED"
<1>1. PlanTypeOK /\ CallTyped /\ MadeFrom /\ Froze /\ Follows
  BY DEF PlanIInv
<1>2. /\ stage = "undone" /\ Keeps /\ call' = call /\ pre' = pre /\ cat' = cat /\ inverse' = inverse
      /\ disturbed' = disturbed /\ answer = "none" /\ Settle(r)
  BY <1>1 DEF VerifyUndo, Keeps, PlanTypeOK
<1>3. r \in {"VERIFIED", "FAILED"} /\ (r = "VERIFIED" => Prestate(cat) = Prestate(pre))
      /\ (cat = pre /\ Observable(pre) /\ Ready(pre) => r = "VERIFIED")
  BY RestorationIs
<1> HIDE DEF r
<1>4. \/ r = "VERIFIED" /\ stage' = "answered" /\ answer' = "restored"
      \/ r # "VERIFIED" /\ stage' = "restore" /\ answer' = "none"
      \/ r # "VERIFIED" /\ stage' = "answered" /\ answer' = "unrestored"
  BY <1>2, <1>3, Settles
<1>5. Invertible => Promised(pre, call.user, call.ops) /\ Ready(pre)
  BY <1>1, PlanIs
<1>6. Model' = Model /\ (Invertible' <=> Invertible) /\ CallTyped' /\ MadeFrom'
  BY <1>1, <1>2, SamePlan
<1>7. ~disturbed /\ Invertible => r = "VERIFIED"
  BY <1>1, <1>2, <1>3, <1>5 DEF Follows, MadeFrom
<1>8. Model.fits /\ inverse = Frozen(Model, call.ops)
  BY <1>1, <1>2 DEF Froze, Running
<1>9. PlanTypeOK'
  <2>1. IsCatalogue(cat') /\ inverse'.external \in BOOLEAN /\ (inverse'.external => inverse'.steps = <<>>)
    BY <1>1, <1>2 DEF PlanTypeOK
  <2>2. stage' \in Stages /\ answer' \in Answers /\ (answer' # "none" <=> stage' = "answered")
    BY <1>4 DEF Stages, Answers
  <2> QED
    BY <1>1, <1>2, <2>1, <2>2, StepTyped
<1>10. Froze'
  BY <1>2, <1>4, <1>6, <1>8 DEF Froze
<1>11. Follows'
  <2>1. (~disturbed /\ Invertible => stage' = "answered") /\ stage' # "rolled_back"
    BY <1>4, <1>7
  <2> QED
    BY <1>2, <1>6, <2>1 DEF Follows
<1>12. DoneOrUndone'
  <2>1. /\ answer' = "restored" => Prestate(cat') = Prestate(pre')
        /\ ~disturbed /\ Invertible => answer' = "restored"
    BY <1>2, <1>3, <1>4, <1>7
  <2>2. disturbed' = disturbed /\ (Invertible' <=> Invertible)
    BY <1>2, <1>6
  <2> QED
    BY <2>1, <2>2 DEF DoneOrUndone
<1> QED
  BY <1>6, <1>9, <1>10, <1>11, <1>12 DEF PlanIInv

\* The restore capability comes after the inverse could not help.
LEMMA ExternalRestoreStep ==
  ASSUME PlanIInv, ExternalRestore
  PROVE  PlanIInv'
<1>1. PlanTypeOK /\ CallTyped /\ MadeFrom /\ Froze /\ Follows
  BY DEF PlanIInv
<1>2. /\ stage = "restore" /\ Keeps /\ call' = call /\ pre' = pre /\ inverse' = inverse /\ disturbed' = disturbed
      /\ stage' = "answered"
      /\ \/ cat' = pre /\ answer' = IF Restoration(pre) = "VERIFIED" THEN "restored" ELSE "unrestored"
         \/ cat' = cat /\ answer' = "ambiguous"
  BY DEF ExternalRestore, Keeps, Ends
<1>3. IsCatalogue(cat) /\ IsCatalogue(pre) /\ (Invertible => Promised(pre, call.user, call.ops) /\ Ready(pre))
  BY <1>1, PlanIs
<1>4. Model' = Model /\ (Invertible' <=> Invertible) /\ CallTyped' /\ MadeFrom'
  BY <1>1, <1>2, SamePlan
<1>5. Invertible => Restoration(pre) = "VERIFIED"
  BY <1>1, <1>3, RestorationIs DEF MadeFrom
<1>6. PlanTypeOK'
  <2>1. IsCatalogue(cat') /\ inverse'.external \in BOOLEAN /\ (inverse'.external => inverse'.steps = <<>>)
    BY <1>1, <1>2, <1>3 DEF PlanTypeOK
  <2>2. stage' \in Stages /\ answer' \in Answers /\ (answer' # "none" <=> stage' = "answered")
    BY <1>2 DEF Stages, Answers
  <2> QED
    BY <1>1, <1>2, <2>1, <2>2, StepTyped
<1>7. Froze' /\ Follows'
  BY <1>2 DEF Froze, Running, Follows
<1>8. DoneOrUndone'
  <2>1. answer' = "restored" => Prestate(cat') = Prestate(pre')
    BY <1>2
  <2>2. ~disturbed /\ Invertible => answer' = "restored" \/ (answer' = "ambiguous" /\ ~Observable(cat'))
    <3> SUFFICES ASSUME ~disturbed, Invertible
                 PROVE  answer' = "restored" \/ (answer' = "ambiguous" /\ ~Observable(cat'))
      OBVIOUS
    <3>1. ~Observable(cat)
      BY <1>1, <1>2 DEF Follows
    <3>2. cat' = cat => ~Observable(cat')
      BY <3>1
    <3> QED
      BY <1>2, <1>5, <3>2
  <2>3. disturbed' = disturbed /\ (Invertible' <=> Invertible)
    BY <1>2, <1>4
  <2> QED
    BY <2>1, <2>2, <2>3 DEF DoneOrUndone
<1> QED
  BY <1>4, <1>6, <1>7, <1>8 DEF PlanIInv

\* A change of the others': while the call runs it is remembered, and before it runs it is found out.
LEMMA ChangesStep ==
  ASSUME PlanIInv, NEW c, IsCatalogue(c), Changes(c), command' = command, drifts' \in 0..MaxDrift, stage # "answered"
  PROVE  PlanIInv'
<1>1. PlanTypeOK /\ CallTyped /\ MadeFrom /\ Froze /\ Follows
  BY DEF PlanIInv
<1>2. /\ cat' = c /\ call' = call /\ pre' = pre /\ inverse' = inverse /\ stage' = stage /\ answer' = answer
      /\ disturbed' = (disturbed \/ (stage \notin {"planned", "answered"} /\ c # cat))
  BY DEF Changes
<1>3. Model' = Model /\ (Invertible' <=> Invertible) /\ CallTyped' /\ MadeFrom'
  BY <1>1, <1>2, SamePlan
<1>4. PlanTypeOK'
  BY <1>1, <1>2 DEF PlanTypeOK
<1>5. Froze'
  BY <1>1, <1>2, <1>3 DEF Froze
<1>6. Follows'
  <2>1. CASE stage = "planned"
    BY <1>2, <2>1 DEF Follows
  <2>2. CASE stage # "planned" /\ c # cat
    BY <1>2, <2>2 DEF Follows
  <2>3. CASE c = cat
    <3>1. cat' = cat /\ disturbed' = disturbed
      BY <1>1, <1>2, <2>3 DEF PlanTypeOK
    <3> QED
      BY <1>1, <1>2, <1>3, <3>1 DEF Follows
  <2> QED
    BY <2>1, <2>2, <2>3
<1>7. DoneOrUndone'
  BY <1>2 DEF DoneOrUndone
<1> QED
  BY <1>3, <1>4, <1>5, <1>6, <1>7 DEF PlanIInv

\* What may happen to the database besides.
LEMMA OtherwiseTyped ==
  ASSUME IsCatalogue(cat), NEW e \in Elsewhere
  PROVE  IsCatalogue(Otherwise(e))
<1>1. cat \in Shapes
  BY CatalogueIs
<1>2. e \in {"object", "activation", "membership", "failover"}
  BY ElsewhereAssumption
<1> DEFINE c == Otherwise(e)
<1>3. c \in Shapes /\ c.owner = cat.owner /\ c.acl = cat.acl /\ c.null = cat.null /\ c.ledger = cat.ledger
  <2>1. CASE e = "object"
    BY <1>1, <2>1 DEF Otherwise, Shapes
  <2>2. CASE e = "activation"
    BY <1>1, <2>2 DEF Otherwise, Shapes
  <2>3. CASE e = "membership"
    BY <1>1, <2>3 DEF Otherwise, Shapes
  <2>4. CASE e = "failover"
    BY <1>1, <2>4 DEF Otherwise, Shapes
  <2> QED
    BY <1>2, <2>1, <2>2, <2>3, <2>4
<1> HIDE DEF c
<1>4. IsCatalogue(c)
  BY <1>3, CatalogueIs
<1> QED
  BY <1>4 DEF c

\* The migrations that are pending make the ledger as long as the journal.
LEMMA MigratedTyped ==
  ASSUME NEW c, IsCatalogue(c)
  PROVE  IsCatalogue(Migrated(c))
<1>1. c \in Shapes /\ c.ledger \in Seq({"lf", "crlf", "other"}) /\ Len(c.ledger) \in Nat /\ Journal \in Nat
  <2>1. c.ledger \in Seq({"lf", "crlf", "other"})
    BY CatalogueIs DEF Shapes
  <2>2. Len(c.ledger) \in Nat
    BY <2>1, LenProperties
  <2> QED
    BY <2>1, <2>2, CatalogueIs, JournalAssumption
<1>2. CASE AppliedPrefix(c.ledger)
  <2> DEFINE all == c.ledger \o Pending(c)
             k == Journal - Len(c.ledger)
  <2>1. Len(c.ledger) <= Journal /\ k \in Nat
    BY <1>1, <1>2 DEF AppliedPrefix
  <2>2. Pending(c) \in [1..k -> {"lf", "crlf", "other"}]
    BY DEF Pending
  <2>3. Pending(c) \in Seq({"lf", "crlf", "other"}) /\ Len(Pending(c)) = k
    <3> HIDE DEF k
    <3> QED
      BY <2>1, <2>2, FunctionSeq
  <2>4. all \in Seq({"lf", "crlf", "other"}) /\ Len(all) = Len(c.ledger) + k
    BY <1>1, <2>3, ConcatProperties
  <2>5. Migrated(c) = [c EXCEPT !.ledger = all]
    BY <1>2 DEF Migrated
  <2> HIDE DEF all
  <2> DEFINE d == [c EXCEPT !.ledger = all]
  <2>6. d \in Shapes /\ d.owner = c.owner /\ d.acl = c.acl /\ d.null = c.null /\ d.ledger = all
    BY <1>1, <2>4 DEF Shapes
  <2>7. Len(all) <= Journal + 1
    BY <1>1, <2>1, <2>4
  <2> HIDE DEF d
  <2>8. IsCatalogue(d)
    BY <2>6, <2>7, CatalogueIs
  <2> QED
    BY <2>5, <2>8 DEF d
<1>3. CASE ~AppliedPrefix(c.ledger)
  BY <1>3 DEF Migrated
<1> QED
  BY <1>2, <1>3

\* An operator's statement keeps the catalogue's type and is noted as a disturbance.
LEMMA ByHandStep ==
  ASSUME PlanIInv, ByHand
  PROVE  PlanIInv'
<1>1. PlanTypeOK /\ IsCatalogue(cat)
  BY DEF PlanIInv, PlanTypeOK
<1>2. drifts' \in 0..MaxDrift /\ command' = command /\ stage # "answered"
  BY <1>1, DriftAssumption DEF ByHand, PlanTypeOK
<1>3. CASE \E op \in ByHandOps : LET s == Statement([ok |-> TRUE, cat |-> cat], "control", op)
                                 IN s.ok /\ s.cat # cat /\ Changes(s.cat)
  <2> DEFINE z == [ok |-> TRUE, cat |-> cat]
  <2>1. StateOK(z)
    BY <1>1 DEF StateOK
  <2> HIDE DEF z
  <2>2. PICK op \in ByHandOps : Changes(Statement(z, "control", op).cat)
    BY <1>3 DEF z
  <2>3. op \in Operations /\ "control" \in Roles
    BY ByHandAssumption DEF Roles
  <2>4. IsCatalogue(Statement(z, "control", op).cat)
    BY <2>1, <2>3, StatementTyped DEF StateOK
  <2> QED
    BY <1>2, <2>2, <2>4, ChangesStep
<1>4. CASE \E e \in Elsewhere : Changes(Otherwise(e))
  <2>1. PICK e \in Elsewhere : Changes(Otherwise(e))
    BY <1>4
  <2>2. IsCatalogue(Otherwise(e))
    BY <1>1, OtherwiseTyped
  <2> QED
    BY <1>2, <2>1, <2>2, ChangesStep
<1> QED
  BY <1>3, <1>4 DEF ByHand

\* So is a migration.
LEMMA MigrateDatabaseStep ==
  ASSUME PlanIInv, MigrateDatabase
  PROVE  PlanIInv'
<1>1. IsCatalogue(cat) /\ drifts \in 0..MaxDrift
  BY DEF PlanIInv, PlanTypeOK
<1>2. Changes(Migrated(cat)) /\ command' = command /\ drifts' = drifts /\ stage # "answered"
  BY DEF MigrateDatabase
<1> QED
  BY <1>1, <1>2, MigratedTyped, ChangesStep

\* The operator's command changes nothing of the call.
LEMMA OperatorCommandStep ==
  ASSUME PlanIInv, OperatorCommand
  PROVE  PlanIInv'
<1>1. PlanTypeOK /\ CallTyped /\ MadeFrom /\ Froze /\ Follows /\ DoneOrUndone
  BY DEF PlanIInv
<1>2. /\ cat' = cat /\ call' = call /\ pre' = pre /\ inverse' = inverse /\ stage' = stage /\ answer' = answer
      /\ drifts' = drifts /\ disturbed' = disturbed
  BY DEF OperatorCommand
<1>3. command' \in {"none", "passed", "blocked", "failed"}
  <2>1. CASE ~Observable(cat)
    BY <2>1 DEF OperatorCommand
  <2>2. CASE Observable(cat) /\ (Pending(cat) # <<>> \/ ~Ready(cat))
    BY <2>2 DEF OperatorCommand
  <2>3. CASE Observable(cat) /\ Pending(cat) = <<>> /\ Ready(cat)
    BY <2>3 DEF OperatorCommand
  <2> QED
    BY <2>1, <2>2, <2>3
<1>4. Model' = Model /\ (Invertible' <=> Invertible) /\ CallTyped' /\ MadeFrom'
  BY <1>1, <1>2, SamePlan
<1>5. PlanTypeOK'
  BY <1>1, <1>2, <1>3 DEF PlanTypeOK
<1>6. Froze'
  BY <1>1, <1>2, <1>4 DEF Froze
<1>7. Follows'
  BY <1>1, <1>2, <1>4 DEF Follows
<1>8. DoneOrUndone'
  BY <1>1, <1>2, <1>4 DEF DoneOrUndone
<1> QED
  BY <1>4, <1>5, <1>6, <1>7, <1>8 DEF PlanIInv

\* A step that changes nothing.
LEMMA PlanStutters ==
  ASSUME PlanIInv, UNCHANGED planVars
  PROVE  PlanIInv'
<1>1. PlanTypeOK /\ CallTyped /\ MadeFrom /\ Froze /\ Follows /\ DoneOrUndone
  BY DEF PlanIInv
<1>2. /\ cat' = cat /\ call' = call /\ pre' = pre /\ inverse' = inverse /\ stage' = stage /\ answer' = answer
      /\ drifts' = drifts /\ disturbed' = disturbed /\ command' = command
  BY DEF planVars
<1>3. Model' = Model /\ (Invertible' <=> Invertible) /\ CallTyped' /\ MadeFrom'
  BY <1>1, <1>2, SamePlan
<1>4. PlanTypeOK'
  BY <1>1, <1>2 DEF PlanTypeOK
<1>5. Froze' /\ Follows' /\ DoneOrUndone'
  BY <1>1, <1>2, <1>3 DEF Froze, Follows, DoneOrUndone
<1> QED
  BY <1>3, <1>4, <1>5 DEF PlanIInv

\* PlanIInv is inductive.
LEMMA PlanInductive ==
  ASSUME PlanIInv, [PlanNext]_planVars
  PROVE  PlanIInv'
<1>1. CASE Call
  BY <1>1, RefuseStep, ExecuteStep, FinalVerifyStep, AfterRollbackStep, UndoStep, VerifyUndoStep,
     ExternalRestoreStep DEF Call
<1>2. CASE ByHand
  BY <1>2, ByHandStep
<1>3. CASE MigrateDatabase
  BY <1>3, MigrateDatabaseStep
<1>4. CASE OperatorCommand
  BY <1>4, OperatorCommandStep
<1>5. CASE UNCHANGED planVars
  BY <1>5, PlanStutters
<1> QED
  BY <1>1, <1>2, <1>3, <1>4, <1>5 DEF PlanNext

\* A plan that is promised an inverse, left alone, is done as it says or undone without a trace,
\* or has left what nobody can observe; and a call that says it is restored has left what it found.
\* For any catalogues, any plans, as long as they may be, any number of grantees in a list, and
\* whatever an operator types meanwhile (executeDurablePlan, deriveInverseModel, executeFrozenInverse).
THEOREM PlanHolds == PlanSpec => []PlanInvariant
<1>1. PlanInit => PlanIInv
  BY PlanStarts
<1>2. PlanIInv /\ [PlanNext]_planVars => PlanIInv'
  BY PlanInductive
<1>3. PlanIInv => PlanInvariant
  BY DEF PlanIInv, PlanInvariant
<1> QED
  BY <1>1, <1>2, <1>3, PTL DEF PlanSpec

-----------------------------------------------------------------------------
(* The inverse that found what it expected *)

\* An authority says whether the list is at its default and what is in it, or who the owner is.
LEMMA AuthorityIs ==
  ASSUME NEW c, NEW x, NEW op
  PROVE  /\ op.kind = "ownership" => (Authority(c, op) = Authority(x, op) <=> c.owner[op.on] = x.owner[op.on])
         /\ op.kind # "ownership" =>
              (Authority(c, op) = Authority(x, op)
                 <=> (op.on \in c.null <=> op.on \in x.null) /\ c.acl[op.on] = x.acl[op.on])
<1>1. CASE op.kind = "ownership"
  <2>1. Authority(c, op) = [owner |-> c.owner[op.on]] /\ Authority(x, op) = [owner |-> x.owner[op.on]]
    BY <1>1 DEF Authority
  <2> QED
    BY <1>1, <2>1
<1>2. CASE op.kind # "ownership"
  <2> DEFINE cn == op.on \in c.null
             xn == op.on \in x.null
             ca == c.acl[op.on]
             xa == x.acl[op.on]
  <2>1. Authority(c, op) = [null |-> cn, entries |-> ca] /\ Authority(x, op) = [null |-> xn, entries |-> xa]
    BY <1>2 DEF Authority
  <2>2. cn \in BOOLEAN /\ xn \in BOOLEAN
    OBVIOUS
  <2> HIDE DEF cn, xn, ca, xa
  <2>3. Authority(c, op) = Authority(x, op) <=> cn = xn /\ ca = xa
    BY <2>1
  <2> QED
    BY <1>2, <2>2, <2>3 DEF cn, xn, ca, xa
<1> QED
  BY <1>1, <1>2

\* Only Undo makes a stage "undone" of "undo".
LEMMA OnlyUndo ==
  ASSUME PlanIInv, [PlanNext]_planVars, stage = "undo", stage' = "undone"
  PROVE  Undo
<1>1. stage' # stage
  OBVIOUS
<1>2. ~Refuse /\ ~Execute /\ ~FinalVerify /\ ~AfterRollback /\ ~VerifyUndo /\ ~ExternalRestore
  BY DEF Refuse, Execute, FinalVerify, AfterRollback, VerifyUndo, ExternalRestore
<1>3. ASSUME NEW c, Changes(c) PROVE stage' = stage
  BY <1>3 DEF Changes
<1>4. ~ByHand
  <2> SUFFICES ASSUME ByHand PROVE stage' = stage
    BY <1>1
  <2> QED
    BY <1>3 DEF ByHand
<1>5. ~MigrateDatabase
  BY <1>1, <1>3 DEF MigrateDatabase
<1>6. ~OperatorCommand
  BY <1>1 DEF OperatorCommand
<1>7. ~UNCHANGED planVars
  BY <1>1 DEF planVars
<1> QED
  BY <1>2, <1>4, <1>5, <1>6, <1>7 DEF PlanNext, Call

\* An inverse that was committed has brought back every authority of the plan: what the plan touches
\* is split between the lists L and the owners O.
LEMMA UndoneRestores ==
  ASSUME PlanIInv, Undo, stage' = "undone", RunsAsOwner
  PROVE  \A i \in DOMAIN call.ops : Authority(cat', call.ops[i]) = Authority(pre, call.ops[i])
<1> DEFINE ops == call.ops
           u == call.user
           L == {t \in Things : \E i \in DOMAIN ops : ops[i].kind # "ownership" /\ ops[i].on = t}
           O == {t \in Things : \E i \in DOMAIN ops : ops[i].kind = "ownership" /\ ops[i].on = t}
           s == Apply(cat, u, inverse.steps)
<1>1. PlanTypeOK /\ CallTyped /\ MadeFrom /\ Froze /\ stage = "undo"
  BY DEF PlanIInv, Undo
<1>2. StillPredicted /\ s.ok /\ cat' = s.cat
  <2> HIDE DEF s
  <2>1. ASSUME Settle("FAILED") PROVE stage' # "undone"
    BY <2>1 DEF Settle, Ends, GoesTo
  <2> QED
    BY <2>1 DEF Undo, s
<1>3. /\ IsCatalogue(cat) /\ IsCatalogue(pre) /\ u \in Roles /\ ops \in Seq(Operations) /\ DerivedOK(Model)
      /\ \A i \in DOMAIN ops : IsPlanned(ops[i])
  BY <1>1, PlanIs DEF CallTyped
<1>4. Model.fits /\ inverse = Frozen(Model, ops) /\ ~inverse.external
  BY <1>1 DEF Froze, Running
<1>5. Model.supported
  <2>1. ASSUME ~Model.supported PROVE inverse.external
    BY <1>4, <2>1 DEF Frozen, NoInverse
  <2> QED
    BY <1>4, <2>1
<1>6. /\ inverse.steps = Reverse(Model.steps)
      /\ inverse.expected = [i \in DOMAIN ops |-> Authority(Model.model, ops[i])]
  BY <1>3, <1>4, <1>5, FrozenIs
<1>7. \A i \in DOMAIN ops : ops[i].on \in Things
  BY <1>3, OperationIs DEF IsPlanned
<1>8. /\ L \in SUBSET Things /\ O \in SUBSET Things /\ L \cap O = {}
      /\ \A i \in DOMAIN ops : ops[i].on \in IF ops[i].kind = "ownership" THEN O ELSE L
  BY <1>7 DEF RunsAsOwner
<1>9. \A t \in L : u = cat.owner[t] /\ t \notin pre.null
  BY DEF RunsAsOwner
<1>10. Model.model.null = pre.null
  BY <1>3, <1>4, <1>5, DefaultsStay DEF Model
<1>11. \A i \in DOMAIN ops : Authority(cat, ops[i]) = Authority(Model.model, ops[i])
  BY <1>2, <1>6 DEF StillPredicted
<1>12. Near(cat, Model.model, u, L, O)
  <2>1. ASSUME NEW t \in L PROVE cat.owner[t] = u /\ t \notin cat.null /\ cat.acl[t] = Model.model.acl[t]
    <3>1. PICK i \in DOMAIN ops : ops[i].kind # "ownership" /\ ops[i].on = t
      OBVIOUS
    <3> HIDE DEF L, ops
    <3> QED
      BY <1>9, <1>10, <1>11, <3>1, AuthorityIs
  <2>2. ASSUME NEW t \in O PROVE cat.owner[t] = Model.model.owner[t]
    <3>1. PICK i \in DOMAIN ops : ops[i].kind = "ownership" /\ ops[i].on = t
      OBVIOUS
    <3> HIDE DEF O, ops
    <3> QED
      BY <1>11, <3>1, AuthorityIs
  <2> QED
    BY <2>1, <2>2 DEF Near
<1>13. Near(s.cat, pre, u, L, O)
  <2> HIDE DEF L, O, ops, u
  <2>1. Derived(pre, u, ops) = Model
    BY DEF Model, ops, u
  <2>2. s = Apply(cat, u, Reverse(Model.steps))
    BY <1>6
  <2> HIDE DEF s, Model
  <2> QED
    BY <1>2, <1>3, <1>4, <1>5, <1>8, <1>12, <2>1, <2>2, AllBack
<1> SUFFICES ASSUME NEW i \in DOMAIN ops PROVE Authority(s.cat, ops[i]) = Authority(pre, ops[i])
  BY <1>2
<1> HIDE DEF L, O, ops, s, u
<1>14. CASE ops[i].kind = "ownership"
  BY <1>8, <1>13, <1>14, AuthorityIs DEF Near
<1>15. CASE ops[i].kind # "ownership"
  BY <1>8, <1>9, <1>13, <1>15, AuthorityIs DEF Near
<1> QED
  BY <1>14, <1>15

\* Whatever others have changed meanwhile, by any number of statements: where the inverse finds what
\* it expects and the steps of the lists' owner commit, every authority that the plan touched is as the
\* prestate had it (executeFrozenInverse).
THEOREM InverseRestores == PlanSpec => CheckedInverseRestores
<1>1. PlanInit => PlanIInv
  BY PlanStarts
<1>2. PlanIInv /\ [PlanNext]_planVars => PlanIInv'
  BY PlanInductive
<1> DEFINE A == stage = "undo" /\ stage' = "undone" /\ RunsAsOwner =>
                  \A i \in DOMAIN call.ops : Authority(cat', call.ops[i]) = Authority(pre, call.ops[i])
<1>3. PlanIInv /\ [PlanNext]_planVars => [A]_planVars
  <2> SUFFICES ASSUME PlanIInv, [PlanNext]_planVars, stage = "undo", stage' = "undone", RunsAsOwner
               PROVE  \A i \in DOMAIN call.ops : Authority(cat', call.ops[i]) = Authority(pre, call.ops[i])
    OBVIOUS
  <2>1. Undo
    BY OnlyUndo
  <2> QED
    BY <2>1, UndoneRestores
<1> HIDE DEF A
<1>4. PlanSpec => [][A]_planVars
  BY <1>1, <1>2, <1>3, PTL DEF PlanSpec
<1> QED
  BY <1>4 DEF A, CheckedInverseRestores

(***************************************************************************)
(* PersistedLocator, for any timeouts, any length of the queue and any      *)
(* number of matching rows: what the adapter answers is true and it answers  *)
(* only once the database is done with the query.                            *)
(***************************************************************************)

\* What a sequence holds.
Held(s) == {s[i] : i \in DOMAIN s}

\* The statement is in the pipe once at most.
OneSelect(s) == \A i, j \in DOMAIN s : s[i] = "select" /\ s[j] = "select" => i = j

Phases == {"read", "spawn", "ready", "accepted", "drain", "bound", "answer", "done"}
Commands == {"echo", "select", "quit"}

EventsOfReaders == [ch : Channels, is : {"data", "eof", "error"}, data : Seq(Pieces)]
EventsOfWriter == [ch : {"phase1"}, is : Statuses \ {"pending"}, data : Seq(Pieces)]

Captures ==
  [stdout : Seq(Pieces), stderr : BOOLEAN, overflow : BOOLEAN, writer : Statuses,
   outEof : BOOLEAN, errEof : BOOLEAN, processFailed : BOOLEAN,
   started : BOOLEAN, postFailure : BOOLEAN]

Typed ==
  /\ phase \in Phases
  /\ now \in 0..(T_HOST + 1)
  /\ captures \in Captures
  /\ outcome \in Classes \cup Failures \cup {"none"}
  /\ frames \in Seq({"STARTED", "none"} \cup Classes \cup Failures)
  /\ events \in Seq(EventsOfReaders \cup EventsOfWriter)
  /\ Len(events) <= QueueMax
  /\ readers \in [Channels -> [pipe : Seq(Pieces), on : BOOLEAN]]
  /\ psql \in [st : {"none", "running", "exited", "failed"}, reads : Seq(Commands),
               answered : BOOLEAN, noise : BOOLEAN]
  /\ session \in [st : {"none", "idle", "running", "over"}, since : Nat, rows : Rows]

\* The frames written so far.
Framed ==
  /\ phase = "read" => Len(frames) = 0
  /\ phase \notin {"read", "done"} => Len(frames) = 1
  /\ Len(frames) <= 2

\* psql is started once; nothing was asked of the database before the marker
\* was accepted, and the statement is asked for once.
Asked ==
  /\ phase \in {"read", "spawn"} => psql.st = "none"
  /\ OneSelect(psql.reads)
  /\ phase \in {"read", "spawn", "ready", "accepted"} =>
       ~psql.answered /\ session.st # "running" /\ "select" \notin Held(psql.reads)
  /\ psql.answered \/ session.st = "running" => "select" \notin Held(psql.reads)

\* The session keeps the timeouts it was opened with: the statement begins no
\* later than an idle session may, and does not outlive its own timeout.
Timely ==
  /\ session.st = "none" => ~psql.answered
  /\ session.st = "idle" => now <= session.since + I
  /\ session.st = "idle" /\ ~psql.answered => session.since <= I
  /\ session.st = "running" => session.since <= 2 * I /\ now <= session.since + S
  /\ psql.st = "exited" => session.st = "over"

\* What the main thread has seen, against where it is.
Witnessed ==
  /\ phase \in {"read", "spawn", "ready"} => ~captures.started
  /\ phase \in {"accepted", "drain", "bound"} =>
       /\ captures.started
       /\ Len(captures.stdout) >= 2 /\ captures.stdout[1] = "mar" /\ captures.stdout[2] = "ker"
  /\ phase = "accepted" => ~captures.stderr
  /\ phase = "drain" /\ captures.stderr => captures.postFailure

\* The end of a channel comes after everything psql wrote to it.
EndOf(ch) ==
  \/ \E e \in Held(events) : e.ch = ch /\ e.is = "eof"
  \/ ch = "stdout" /\ captures.outEof
  \/ ch = "stderr" /\ captures.errEof

Ended ==
  \A ch \in Channels :
    EndOf(ch) => readers[ch].pipe = <<>> /\ psql.st \in {"exited", "failed"}

\* Nobody but the database writes an answer.
Unanswered ==
  ~psql.answered =>
    /\ "ans" \notin Held(readers["stdout"].pipe)
    /\ "ans" \notin Held(captures.stdout)
    /\ \A e \in Held(events) : e.ch = "stdout" => "ans" \notin Held(e.data)

\* What is returned is final.
Final ==
  /\ outcome # "none" => phase \in {"answer", "done"}
  /\ outcome # "none" => session.st = "over" /\ psql.st # "running"
  /\ NotExecutedIsTrue
  /\ ResultIsTheDatabases

IInv ==
  Typed /\ Framed /\ Asked /\ Timely /\ Witnessed /\ Ended /\ Unanswered /\ Final

-----------------------------------------------------------------------------
(* Sequences *)

\* An appended element is held, and nothing else is new.
LEMMA HeldAppend ==
  ASSUME NEW T, NEW s \in Seq(T), NEW e \in T
  PROVE  Append(s, e) \in Seq(T) /\ Held(Append(s, e)) = Held(s) \cup {e}
<1>1. /\ Append(s, e) \in Seq(T) /\ Len(Append(s, e)) = Len(s) + 1
      /\ \A i \in 1..Len(s) : Append(s, e)[i] = s[i]
      /\ Append(s, e)[Len(s) + 1] = e
  OBVIOUS
<1>2. DOMAIN s = 1..Len(s) /\ DOMAIN Append(s, e) = 1..(Len(s) + 1) /\ Len(s) \in Nat
  BY <1>1, LenProperties
<1> QED
  BY <1>1, <1>2 DEF Held

\* Taking the head off leaves nothing that was not there.
LEMMA HeldTail ==
  ASSUME NEW T, NEW s \in Seq(T), s # <<>>
  PROVE  /\ Tail(s) \in Seq(T) /\ Head(s) \in T /\ Head(s) \in Held(s)
         /\ Held(Tail(s)) \subseteq Held(s)
         /\ Len(Tail(s)) = Len(s) - 1
<1>1. Len(s) \in Nat \ {0} /\ DOMAIN s = 1..Len(s)
  BY EmptySeq, LenProperties
<1>2. /\ Tail(s) \in Seq(T) /\ Head(s) \in T /\ Len(Tail(s)) = Len(s) - 1
      /\ \A i \in 1..Len(Tail(s)) : Tail(s)[i] = s[i + 1]
  BY HeadTailProperties
<1>3. DOMAIN Tail(s) = 1..(Len(s) - 1)
  BY <1>2, LenProperties
<1>4. Head(s) = s[1]
  OBVIOUS
<1> QED
  BY <1>1, <1>2, <1>3, <1>4 DEF Held

\* A concatenation holds what its parts hold.
LEMMA HeldConcat ==
  ASSUME NEW T, NEW s \in Seq(T), NEW t \in Seq(T)
  PROVE  s \o t \in Seq(T) /\ Held(s \o t) = Held(s) \cup Held(t)
<1>1. /\ s \o t \in Seq(T) /\ Len(s \o t) = Len(s) + Len(t)
      /\ \A i \in 1..(Len(s) + Len(t)) :
           (s \o t)[i] = IF i <= Len(s) THEN s[i] ELSE t[i - Len(s)]
  BY ConcatProperties
<1>2. /\ DOMAIN s = 1..Len(s) /\ DOMAIN t = 1..Len(t) /\ DOMAIN (s \o t) = 1..(Len(s) + Len(t))
      /\ Len(s) \in Nat /\ Len(t) \in Nat
  BY <1>1, LenProperties
<1>3. \A i \in 1..Len(s) : (s \o t)[i] = s[i]
  BY <1>1, <1>2
<1>4. \A i \in 1..Len(t) : i + Len(s) \in 1..(Len(s) + Len(t)) /\ (s \o t)[i + Len(s)] = t[i]
  BY <1>1, <1>2
<1>5. Held(s) \cup Held(t) \subseteq Held(s \o t)
  <2>1. ASSUME NEW x \in Held(t) PROVE x \in Held(s \o t)
    BY <1>2, <1>4 DEF Held
  <2>2. ASSUME NEW x \in Held(s) PROVE x \in Held(s \o t)
    BY <1>2, <1>3 DEF Held
  <2> QED
    BY <2>1, <2>2
<1>6. Held(s \o t) \subseteq Held(s) \cup Held(t)
  BY <1>1, <1>2 DEF Held
<1> QED
  BY <1>1, <1>5, <1>6

\* A piece of a sequence holds nothing else.
LEMMA HeldSubSeq ==
  ASSUME NEW T, NEW s \in Seq(T), NEW m \in 1..(Len(s) + 1), NEW n \in 0..Len(s)
  PROVE  SubSeq(s, m, n) \in Seq(T) /\ Held(SubSeq(s, m, n)) \subseteq Held(s)
<1>1. DOMAIN s = 1..Len(s) /\ Len(s) \in Nat /\ \A i \in m..n : s[i] \in T
  BY LenProperties, ElementOfSeq
<1>2. /\ SubSeq(s, m, n) \in Seq(T)
      /\ Len(SubSeq(s, m, n)) = IF m <= n THEN n - m + 1 ELSE 0
      /\ \A i \in 1..(n - m + 1) : SubSeq(s, m, n)[i] = s[m + i - 1]
  BY <1>1, SubSeqProperties
<1>3. DOMAIN SubSeq(s, m, n) = 1..Len(SubSeq(s, m, n))
  BY <1>2, LenProperties
<1>4. \A i \in DOMAIN SubSeq(s, m, n) : m + i - 1 \in DOMAIN s /\ SubSeq(s, m, n)[i] = s[m + i - 1]
  BY <1>1, <1>2, <1>3
<1> QED
  BY <1>2, <1>4 DEF Held

\* Once the statement is read, it is not in the pipe any more.
LEMMA SelectRead ==
  ASSUME NEW s \in Seq(Commands), s # <<>>, OneSelect(s)
  PROVE  /\ OneSelect(Tail(s))
         /\ Head(s) = "select" => "select" \notin Held(Tail(s))
<1>1. Len(s) \in Nat \ {0} /\ DOMAIN s = 1..Len(s)
  BY EmptySeq, LenProperties
<1>2. /\ Tail(s) \in Seq(Commands) /\ Len(Tail(s)) = Len(s) - 1
      /\ \A i \in 1..Len(Tail(s)) : Tail(s)[i] = s[i + 1]
  BY HeadTailProperties
<1>3. DOMAIN Tail(s) = 1..(Len(s) - 1)
  BY <1>2, LenProperties
<1>4. \A i \in DOMAIN Tail(s) : i + 1 \in DOMAIN s /\ i + 1 # 1 /\ Tail(s)[i] = s[i + 1] /\ i \in Int
  BY <1>1, <1>2, <1>3
<1>5. Head(s) = s[1] /\ 1 \in DOMAIN s
  BY <1>1
<1>6. OneSelect(Tail(s))
  <2> SUFFICES ASSUME NEW i \in DOMAIN Tail(s), NEW j \in DOMAIN Tail(s),
                      Tail(s)[i] = "select", Tail(s)[j] = "select"
               PROVE  i = j
    BY DEF OneSelect
  <2>1. i + 1 = j + 1
    BY <1>4 DEF OneSelect
  <2> QED
    BY <1>4, <2>1
<1>7. Head(s) = "select" => "select" \notin Held(Tail(s))
  BY <1>4, <1>5 DEF Held, OneSelect
<1> QED
  BY <1>6, <1>7

\* The statement is put in the pipe once.
LEMMA SelectWritten ==
  ASSUME NEW s \in Seq(Commands), NEW t \in Seq(Commands), OneSelect(s), OneSelect(t),
         "select" \notin Held(s) \/ "select" \notin Held(t)
  PROVE  OneSelect(s \o t)
<1>1. /\ s \o t \in Seq(Commands) /\ Len(s \o t) = Len(s) + Len(t)
      /\ \A i \in 1..(Len(s) + Len(t)) :
           (s \o t)[i] = IF i <= Len(s) THEN s[i] ELSE t[i - Len(s)]
  BY ConcatProperties
<1>2. /\ DOMAIN s = 1..Len(s) /\ DOMAIN t = 1..Len(t) /\ DOMAIN (s \o t) = 1..(Len(s) + Len(t))
      /\ Len(s) \in Nat /\ Len(t) \in Nat
  BY <1>1, LenProperties
<1> SUFFICES ASSUME NEW i \in 1..(Len(s) + Len(t)), NEW j \in 1..(Len(s) + Len(t)),
                    (s \o t)[i] = "select", (s \o t)[j] = "select"
             PROVE  i = j
  BY <1>2 DEF OneSelect
<1>3. CASE i <= Len(s) /\ j <= Len(s)
  BY <1>1, <1>2, <1>3 DEF OneSelect
<1>4. CASE i > Len(s) /\ j > Len(s)
  <2>1. i - Len(s) \in DOMAIN t /\ j - Len(s) \in DOMAIN t
    BY <1>2, <1>4
  <2>2. t[i - Len(s)] = "select" /\ t[j - Len(s)] = "select"
    BY <1>1, <1>2, <1>4
  <2>3. i - Len(s) = j - Len(s)
    BY <2>1, <2>2 DEF OneSelect
  <2> QED
    BY <1>2, <2>3
<1>5. ASSUME NEW k \in 1..(Len(s) + Len(t)), k <= Len(s), (s \o t)[k] = "select"
      PROVE  "select" \in Held(s)
  BY <1>1, <1>2, <1>5 DEF Held
<1>6. ASSUME NEW k \in 1..(Len(s) + Len(t)), k > Len(s), (s \o t)[k] = "select"
      PROVE  "select" \in Held(t)
  <2>1. k - Len(s) \in DOMAIN t /\ t[k - Len(s)] = "select"
    BY <1>1, <1>2, <1>6
  <2> QED
    BY <2>1 DEF Held
<1> QED
  BY <1>2, <1>3, <1>4, <1>5, <1>6

-----------------------------------------------------------------------------
(* The initial state *)

\* The times and the bound of the queue, as numbers.
LEMMA BoundsFact ==
  /\ T_HOST \in Nat /\ T_HOST > 2 * I + S /\ I \in Nat /\ S \in Nat /\ R \in Nat \ {0}
  /\ QueueMax \in Nat \ {0}
  BY TimesAssumption, QueueAssumption DEF T_HOST

\* A request that has not been read.
LEMMA InitIInv == Init => IInv
<1> SUFFICES ASSUME Init PROVE IInv
  OBVIOUS
<1>1. <<>> \in Seq(Pieces) /\ <<>> \in Seq(Commands) /\ <<>> \in Seq(EventsOfReaders \cup EventsOfWriter)
      /\ <<>> \in Seq({"STARTED", "none"} \cup Classes \cup Failures) /\ Len(<<>>) = 0
  BY EmptySeq
<1>2. Held(<<>>) = {}
  BY DEF Held
<1>3. NoRows \in Rows
  BY QueueAssumption DEF NoRows, Rows
<1>4. Typed
  BY <1>1, <1>3, BoundsFact DEF Init, Typed, Phases, Captures, NothingSeen, Statuses, Channels
<1>5. Framed /\ Asked /\ Timely /\ Witnessed
  BY <1>1, <1>2 DEF Init, Framed, Asked, Timely, Witnessed, NothingSeen, OneSelect
<1>6. Ended /\ Unanswered
  BY <1>2 DEF Init, Ended, EndOf, Unanswered, NothingSeen, Channels
<1>7. Final
  BY DEF Init, Final, NotExecutedIsTrue, ResultIsTheDatabases, Classes
<1> QED
  BY <1>4, <1>5, <1>6, <1>7 DEF IInv

-----------------------------------------------------------------------------
(* Time, psql and PostgreSQL *)

\* Time passes no deadline that somebody must meet.
LEMMA TickIInv == IInv /\ Tick => IInv'
<1> SUFFICES ASSUME IInv, Tick PROVE IInv'
  OBVIOUS
<1> USE BoundsFact
<1>1. Typed'
  BY DEF IInv, Typed, Tick
<1>2. Framed' /\ Asked'
  BY DEF IInv, Framed, Asked, Tick
<1>3. Timely'
  BY DEF IInv, Timely, Tick, InTime, Typed
<1>4. Witnessed' /\ Ended' /\ Unanswered'
  BY DEF IInv, Witnessed, Ended, EndOf, Unanswered, Tick
<1>5. Final'
  BY DEF IInv, Final, NotExecutedIsTrue, ResultIsTheDatabases, Tick
<1> QED
  BY <1>1, <1>2, <1>3, <1>4, <1>5 DEF IInv

\* What psql writes is added to its channel.
LEMMA WriteAdds ==
  ASSUME Typed, NEW ch \in Channels, NEW pieces \in Seq(Pieces), Write(ch, pieces)
  PROVE  /\ readers' \in [Channels -> [pipe : Seq(Pieces), on : BOOLEAN]]
         /\ Held(readers'[ch].pipe) = Held(readers[ch].pipe) \cup Held(pieces)
         /\ \A other \in Channels \ {ch} : readers'[other] = readers[other]
<1>1. readers[ch] \in [pipe : Seq(Pieces), on : BOOLEAN]
  BY DEF Typed
<1>2. readers[ch].pipe \o pieces \in Seq(Pieces)
      /\ Held(readers[ch].pipe \o pieces) = Held(readers[ch].pipe) \cup Held(pieces)
  BY <1>1, HeldConcat
<1>3. readers' = [readers EXCEPT ![ch].pipe = readers[ch].pipe \o pieces]
  BY DEF Write
<1>4. readers'[ch].pipe = readers[ch].pipe \o pieces
  BY <1>1, <1>3 DEF Typed
<1> QED
  BY <1>1, <1>2, <1>3, <1>4 DEF Typed

\* A client that lives has not ended a channel, and nothing was returned.
LEMMA AliveOpen ==
  ASSUME IInv, Alive
  PROVE  outcome = "none" /\ \A ch \in Channels : ~EndOf(ch)
  BY DEF IInv, Alive, Ended, Final

\* A step of the client or the server leaves what the main thread has.
LEMMA WorldKept ==
  ASSUME IInv, UNCHANGED World
  PROVE  Framed' /\ Witnessed' /\ \A ch \in Channels : EndOf(ch)' <=> EndOf(ch)
  BY DEF IInv, World, Framed, Witnessed, EndOf

\* psql and PostgreSQL.
LEMMA ExternalIInv == IInv /\ External => IInv'
<1> SUFFICES ASSUME IInv, External PROVE IInv'
  OBVIOUS
<1> USE BoundsFact
<1>1. /\ Typed /\ Asked /\ Timely /\ Unanswered /\ Ended /\ Final
      /\ psql.reads \in Seq(Commands)
      /\ psql \in [st : {"none", "running", "exited", "failed"}, reads : Seq(Commands),
                   answered : BOOLEAN, noise : BOOLEAN]
      /\ session \in [st : {"none", "idle", "running", "over"}, since : Nat, rows : Rows]
      /\ now \in Nat
  BY DEF IInv, Typed
<1>2. UNCHANGED World
  BY DEF External, Connect, EchoMarker, RunStatement, StatementAnswers, Quit, Fail, Noise, TimeOut
<1>3. Framed' /\ Witnessed' /\ \A ch \in Channels : EndOf(ch)' <=> EndOf(ch)
  BY <1>2, WorldKept
\* What a step of a living client has to keep.
<1>4. ASSUME Alive, Typed', Asked', Timely', Unanswered' PROVE IInv'
  <2>1. outcome' = "none" /\ \A ch \in Channels : ~EndOf(ch)'
    BY <1>2, <1>3, <1>4, AliveOpen DEF World
  <2>2. Ended'
    BY <2>1 DEF Ended
  <2>3. Final'
    BY <2>1 DEF Final, NotExecutedIsTrue, ResultIsTheDatabases, Classes
  <2> QED
    BY <1>3, <1>4, <2>2, <2>3 DEF IInv
<1>5. CASE Connect
  <2>1. Typed'
    <3>1. session' \in [st : {"none", "idle", "running", "over"}, since : Nat, rows : Rows]
      BY <1>1, <1>5 DEF Connect
    <3> QED
      BY <1>1, <1>2, <1>5, <3>1 DEF Typed, Connect, World
  <2>2. Asked' /\ Timely' /\ Unanswered'
    BY <1>1, <1>2, <1>5 DEF Typed, Connect, World, Asked, Timely, Unanswered, Alive
  <2> QED
    BY <1>4, <1>5, <2>1, <2>2 DEF Connect
<1>6. CASE EchoMarker
  <2>1. /\ psql.reads # <<>> /\ Tail(psql.reads) \in Seq(Commands)
        /\ Held(Tail(psql.reads)) \subseteq Held(psql.reads)
        /\ OneSelect(Tail(psql.reads))
    BY <1>1, <1>6, HeldTail, SelectRead DEF EchoMarker, Asked
  <2>2. Marker \in Seq(Pieces) /\ "ans" \notin Held(Marker)
    BY DEF Marker, Pieces, Held
  <2>3. /\ readers' \in [Channels -> [pipe : Seq(Pieces), on : BOOLEAN]]
        /\ Held(readers'["stdout"].pipe) = Held(readers["stdout"].pipe) \cup Held(Marker)
    BY <1>1, <1>6, <2>2, WriteAdds DEF EchoMarker, Channels
  <2>4. Typed'
    BY <1>1, <1>2, <1>6, <2>1, <2>3 DEF Typed, EchoMarker, World
  <2>5. Asked' /\ Timely'
    BY <1>1, <1>2, <1>6, <2>1 DEF EchoMarker, World, Asked, Timely, Alive
  <2>6. Unanswered'
    BY <1>1, <1>2, <1>6, <2>2, <2>3 DEF EchoMarker, World, Unanswered
  <2> QED
    BY <1>4, <1>6, <2>4, <2>5, <2>6 DEF EchoMarker
<1>7. CASE RunStatement
  <2>1. /\ psql.reads # <<>> /\ Tail(psql.reads) \in Seq(Commands)
        /\ Head(psql.reads) = "select" /\ Head(psql.reads) \in Held(psql.reads)
        /\ OneSelect(Tail(psql.reads)) /\ "select" \notin Held(Tail(psql.reads))
    BY <1>1, <1>7, HeldTail, SelectRead DEF RunStatement, Asked
  <2>2. Typed'
    <3>1. session' \in [st : {"none", "idle", "running", "over"}, since : Nat, rows : Rows]
      BY <1>1, <1>7 DEF RunStatement
    <3>2. psql' \in [st : {"none", "running", "exited", "failed"}, reads : Seq(Commands),
                     answered : BOOLEAN, noise : BOOLEAN]
      BY <1>1, <1>7, <2>1 DEF RunStatement
    <3> QED
      BY <1>1, <1>2, <1>7, <3>1, <3>2 DEF Typed, RunStatement, World
  <2>3. ~psql.answered /\ phase \notin {"read", "spawn", "ready", "accepted"}
    BY <1>1, <2>1 DEF Asked
  <2>4. Asked' /\ Timely' /\ Unanswered'
    BY <1>1, <1>2, <1>7, <2>1, <2>3 DEF Typed, RunStatement, World, Asked, Timely, Unanswered, Alive
  <2> QED
    BY <1>4, <1>7, <2>2, <2>4 DEF RunStatement
<1>8. CASE StatementAnswers
  <2>1. <<"ans", "wer">> \in Seq(Pieces)
    BY DEF Pieces
  <2>2. readers' \in [Channels -> [pipe : Seq(Pieces), on : BOOLEAN]]
    BY <1>1, <1>8, <2>1, WriteAdds DEF StatementAnswers, Channels
  <2>3. phase \notin {"read", "spawn", "ready", "accepted"} /\ "select" \notin Held(psql.reads)
    BY <1>1, <1>8 DEF Asked, StatementAnswers
  <2>4. Typed'
    <3>1. session' \in [st : {"none", "idle", "running", "over"}, since : Nat, rows : Rows]
      BY <1>1, <1>8 DEF StatementAnswers
    <3>2. psql' \in [st : {"none", "running", "exited", "failed"}, reads : Seq(Commands),
                     answered : BOOLEAN, noise : BOOLEAN]
      BY <1>1, <1>8 DEF StatementAnswers
    <3> QED
      BY <1>1, <1>2, <2>2, <3>1, <3>2 DEF Typed, World
  <2>5. Asked' /\ Timely' /\ Unanswered'
    BY <1>1, <1>2, <1>8, <2>3 DEF Typed, StatementAnswers, World, Asked, Timely, Unanswered, Alive
  <2> QED
    BY <1>4, <1>8, <2>4, <2>5 DEF StatementAnswers
<1>9. CASE Quit
  <2>1. Typed' /\ Asked' /\ Timely' /\ Unanswered'
    BY <1>1, <1>2, <1>9 DEF Typed, Quit, World, Asked, Timely, Unanswered, Alive
  <2> QED
    BY <1>4, <1>9, <2>1 DEF Quit
<1>10. CASE Fail
  <2>1. <<"other">> \in Seq(Pieces)
    BY DEF Pieces
  <2>2. /\ readers' \in [Channels -> [pipe : Seq(Pieces), on : BOOLEAN]]
        /\ readers'["stdout"] = readers["stdout"]
    BY <1>1, <1>10, <2>1, WriteAdds DEF Fail, Channels, Typed
  <2>3. Typed'
    BY <1>1, <1>2, <1>10, <2>2 DEF Typed, Fail, World
  <2>4. Asked' /\ Timely' /\ Unanswered'
    BY <1>1, <1>2, <1>10, <2>2 DEF Fail, World, Asked, Timely, Unanswered, Alive
  <2> QED
    BY <1>4, <1>10, <2>3, <2>4 DEF Fail
<1>11. CASE Noise
  <2>1. ASSUME NEW piece \in {"other", "flood"}
        PROVE  <<piece>> \in Seq(Pieces) /\ "ans" \notin Held(<<piece>>)
    BY DEF Pieces, Held
  <2>2. /\ readers' \in [Channels -> [pipe : Seq(Pieces), on : BOOLEAN]]
        /\ "ans" \notin Held(readers["stdout"].pipe) => "ans" \notin Held(readers'["stdout"].pipe)
    <3>1. ASSUME NEW piece \in {"other", "flood"}, Write("stdout", <<piece>>)
          PROVE  /\ readers' \in [Channels -> [pipe : Seq(Pieces), on : BOOLEAN]]
                 /\ Held(readers'["stdout"].pipe) = Held(readers["stdout"].pipe) \cup Held(<<piece>>)
      BY <1>1, <2>1, <3>1, WriteAdds DEF Channels
    <3>2. ASSUME Write("stderr", <<"other">>)
          PROVE  /\ readers' \in [Channels -> [pipe : Seq(Pieces), on : BOOLEAN]]
                 /\ readers'["stdout"] = readers["stdout"]
      BY <1>1, <2>1, <3>2, WriteAdds DEF Channels
    <3> QED
      BY <1>11, <2>1, <3>1, <3>2 DEF Noise
  <2>3. Typed'
    BY <1>1, <1>2, <1>11, <2>2 DEF Typed, Noise, World
  <2>4. Asked' /\ Timely' /\ Unanswered'
    BY <1>1, <1>2, <1>11, <2>2 DEF Noise, World, Asked, Timely, Unanswered, Alive
  <2> QED
    BY <1>4, <1>11, <2>3, <2>4 DEF Noise
<1>12. CASE TimeOut
  <2>1. Typed' /\ Asked' /\ Timely' /\ Unanswered'
    BY <1>1, <1>2, <1>12 DEF Typed, TimeOut, World, Asked, Timely, Unanswered
  <2>2. Ended' /\ Final'
    BY <1>1, <1>2, <1>3, <1>12 DEF TimeOut, World, Ended, Final, NotExecutedIsTrue, ResultIsTheDatabases
  <2> QED
    BY <1>3, <2>1, <2>2 DEF IInv
<1> QED
  BY <1>5, <1>6, <1>7, <1>8, <1>9, <1>10, <1>11, <1>12 DEF External

-----------------------------------------------------------------------------
(* The daemon threads *)

\* What every step of a thread keeps: it puts one event in the queue.
LEMMA ThreadKeeps ==
  ASSUME IInv, Room, NEW e \in EventsOfReaders \cup EventsOfWriter, events' = Append(events, e),
         UNCHANGED <<phase, now, captures, outcome, frames, session>>,
         psql'.st = psql.st, psql'.answered = psql.answered
  PROVE  /\ events' \in Seq(EventsOfReaders \cup EventsOfWriter) /\ Len(events') <= QueueMax
         /\ Held(events') = Held(events) \cup {e}
         /\ Framed' /\ Timely' /\ Witnessed' /\ Final'
<1>1. events' \in Seq(EventsOfReaders \cup EventsOfWriter) /\ Held(events') = Held(events) \cup {e}
  <2>1. events \in Seq(EventsOfReaders \cup EventsOfWriter)
    BY DEF IInv, Typed
  <2>2. Append(events, e) \in Seq(EventsOfReaders \cup EventsOfWriter)
        /\ Held(Append(events, e)) = Held(events) \cup {e}
    BY <2>1, HeldAppend
  <2> QED
    BY <2>2
<1>2. Len(events') <= QueueMax
  <2>1. Len(events') = Len(events) + 1 /\ Len(events) \in Nat
    BY LenProperties DEF IInv, Typed
  <2> QED
    BY <2>1, BoundsFact DEF Room
<1>3. Framed' /\ Timely' /\ Witnessed'
  BY DEF IInv, Framed, Timely, Witnessed
<1>4. Final'
  <2>1. outcome' = "none"
    BY DEF IInv, Final, Room
  <2> QED
    BY <2>1 DEF Final, NotExecutedIsTrue, ResultIsTheDatabases, Classes
<1> QED
  BY <1>1, <1>2, <1>3, <1>4

\* The readers and the writer.
LEMMA ThreadsIInv == IInv /\ Threads => IInv'
<1> SUFFICES ASSUME IInv, Threads PROVE IInv'
  OBVIOUS
<1>1. /\ Typed /\ Asked /\ Ended /\ Unanswered
      /\ psql \in [st : {"none", "running", "exited", "failed"}, reads : Seq(Commands),
                   answered : BOOLEAN, noise : BOOLEAN]
      /\ \A ch \in Channels : readers[ch] \in [pipe : Seq(Pieces), on : BOOLEAN]
  BY DEF IInv, Typed
<1>2. CASE WritePhase1
  <2>1. PICK status \in Statuses \ {"pending"} :
          /\ events' = Append(events, [ch |-> "phase1", is |-> status, data |-> <<>>])
          /\ psql' = IF status = "ok" THEN [psql EXCEPT !.reads = Append(@, "echo")] ELSE psql
    BY <1>2 DEF WritePhase1
  <2> DEFINE e == [ch |-> "phase1", is |-> status, data |-> <<>>]
  <2>2. e \in EventsOfWriter
    BY EmptySeq DEF EventsOfWriter
  <2>3. /\ psql'.reads \in Seq(Commands) /\ OneSelect(psql'.reads)
        /\ "select" \in Held(psql'.reads) => "select" \in Held(psql.reads)
    <3>1. Append(psql.reads, "echo") = psql.reads \o <<"echo">> /\ <<"echo">> \in Seq(Commands)
      BY <1>1 DEF Commands
    <3>2. OneSelect(<<"echo">>) /\ "select" \notin Held(<<"echo">>)
      BY DEF OneSelect, Held
    <3>3. OneSelect(Append(psql.reads, "echo"))
      BY <1>1, <3>1, <3>2, SelectWritten DEF Asked
    <3>4. Append(psql.reads, "echo") \in Seq(Commands)
          /\ Held(Append(psql.reads, "echo")) = Held(psql.reads) \cup {"echo"}
      BY <1>1, HeldAppend DEF Commands
    <3>5. psql'.reads = psql.reads \/ psql'.reads = Append(psql.reads, "echo")
      BY <1>1, <2>1
    <3>6. CASE psql'.reads = psql.reads
      BY <1>1, <3>6 DEF Asked
    <3>7. CASE psql'.reads = Append(psql.reads, "echo")
      BY <3>3, <3>4, <3>7
    <3> QED
      BY <3>5, <3>6, <3>7
  <2>4. psql' \in [st : {"none", "running", "exited", "failed"}, reads : Seq(Commands),
                   answered : BOOLEAN, noise : BOOLEAN]
        /\ psql'.st = psql.st /\ psql'.answered = psql.answered
    BY <1>1, <2>1, <2>3
  <2>5. /\ events' \in Seq(EventsOfReaders \cup EventsOfWriter) /\ Len(events') <= QueueMax
        /\ Held(events') = Held(events) \cup {e}
        /\ Framed' /\ Timely' /\ Witnessed' /\ Final'
    BY <1>2, <2>1, <2>2, <2>4, ThreadKeeps DEF WritePhase1
  <2>6. Typed'
    BY <1>1, <1>2, <2>4, <2>5 DEF Typed, WritePhase1
  <2>7. Asked'
    BY <1>1, <1>2, <2>3, <2>4 DEF Asked, WritePhase1
  <2>8. Ended' /\ Unanswered'
    BY <1>1, <1>2, <2>4, <2>5 DEF Ended, EndOf, Unanswered, WritePhase1, Channels
  <2> QED
    BY <2>5, <2>6, <2>7, <2>8 DEF IInv
<1>3. ASSUME NEW ch \in Channels, Read(ch) PROVE IInv'
  <2> DEFINE pipe == readers[ch].pipe
  <2>1. CASE pipe # <<>>
    <3>1. PICK n \in 1..Len(pipe) :
            /\ events' = Append(events, [ch |-> ch, is |-> "data", data |-> SubSeq(pipe, 1, n)])
            /\ readers' = [readers EXCEPT ![ch].pipe = SubSeq(@, n + 1, Len(@))]
      BY <1>3, <2>1 DEF Read
    <3> DEFINE e == [ch |-> ch, is |-> "data", data |-> SubSeq(pipe, 1, n)]
               rest == SubSeq(pipe, n + 1, Len(pipe))
    <3>2. /\ SubSeq(pipe, 1, n) \in Seq(Pieces) /\ Held(SubSeq(pipe, 1, n)) \subseteq Held(pipe)
          /\ rest \in Seq(Pieces) /\ Held(rest) \subseteq Held(pipe)
      <4>1. Len(pipe) \in Nat /\ pipe \in Seq(Pieces)
        BY <1>1, LenProperties
      <4>2. 1 \in 1..(Len(pipe) + 1) /\ n \in 0..Len(pipe)
            /\ n + 1 \in 1..(Len(pipe) + 1) /\ Len(pipe) \in 0..Len(pipe)
        BY <4>1
      <4> QED
        BY <4>1, <4>2, HeldSubSeq
    <3>3. e \in EventsOfReaders
      BY <3>2 DEF EventsOfReaders
    <3>4. /\ events' \in Seq(EventsOfReaders \cup EventsOfWriter) /\ Len(events') <= QueueMax
          /\ Held(events') = Held(events) \cup {e}
          /\ Framed' /\ Timely' /\ Witnessed' /\ Final'
      BY <1>3, <3>1, <3>3, ThreadKeeps DEF Read
    <3>5. /\ readers' \in [Channels -> [pipe : Seq(Pieces), on : BOOLEAN]]
          /\ readers'[ch].pipe = rest
          /\ \A other \in Channels \ {ch} : readers'[other] = readers[other]
      BY <1>1, <3>1, <3>2 DEF Typed
    <3>6. Typed' /\ Asked'
      BY <1>1, <1>3, <3>4, <3>5 DEF Typed, Asked, Read
    <3>7. Ended'
      <4>1. ~EndOf(ch)
        BY <1>1, <2>1 DEF Ended
      <4>2. \A x \in Channels : EndOf(x)' => EndOf(x)
        BY <1>3, <3>4 DEF EndOf, Read
      <4> QED
        BY <1>1, <1>3, <3>5, <4>1, <4>2 DEF Ended, Read
    <3>8. Unanswered'
      <4> SUFFICES ASSUME ~psql.answered
                   PROVE  /\ "ans" \notin Held(readers'["stdout"].pipe)
                          /\ "ans" \notin Held(captures.stdout)
                          /\ \A x \in Held(events') : x.ch = "stdout" => "ans" \notin Held(x.data)
        BY <1>3 DEF Unanswered, Read
      <4>1. /\ "ans" \notin Held(readers["stdout"].pipe)
            /\ "ans" \notin Held(captures.stdout)
            /\ \A x \in Held(events) : x.ch = "stdout" => "ans" \notin Held(x.data)
        BY <1>1 DEF Unanswered
      <4>2. e.ch = ch /\ e.data = SubSeq(pipe, 1, n)
        OBVIOUS
      <4>3. e.ch = "stdout" => "ans" \notin Held(e.data)
        BY <3>2, <4>1, <4>2
      <4>4. "ans" \notin Held(readers'["stdout"].pipe)
        BY <3>2, <3>5, <4>1 DEF Channels
      <4> QED
        BY <3>4, <4>1, <4>3, <4>4
    <3> QED
      BY <3>4, <3>6, <3>7, <3>8 DEF IInv
  <2>2. CASE pipe = <<>>
    <3> DEFINE e == [ch |-> ch, is |-> "eof", data |-> <<>>]
    <3>1. /\ psql.st \in {"exited", "failed"} /\ events' = Append(events, e)
          /\ readers' = [readers EXCEPT ![ch].on = FALSE]
      BY <1>3, <2>2 DEF Read
    <3>2. e \in EventsOfReaders
      BY EmptySeq DEF EventsOfReaders
    <3>3. /\ events' \in Seq(EventsOfReaders \cup EventsOfWriter) /\ Len(events') <= QueueMax
          /\ Held(events') = Held(events) \cup {e}
          /\ Framed' /\ Timely' /\ Witnessed' /\ Final'
      BY <1>3, <3>1, <3>2, ThreadKeeps DEF Read
    <3>4. /\ readers' \in [Channels -> [pipe : Seq(Pieces), on : BOOLEAN]]
          /\ \A x \in Channels : readers'[x].pipe = readers[x].pipe
      BY <1>1, <3>1 DEF Typed
    <3>5. Typed' /\ Asked'
      BY <1>1, <1>3, <3>3, <3>4 DEF Typed, Asked, Read
    <3>6. Ended'
      <4>1. \A x \in Channels : EndOf(x)' => EndOf(x) \/ x = ch
        BY <1>3, <3>3 DEF EndOf, Read
      <4> QED
        BY <1>1, <1>3, <2>2, <3>1, <3>4, <4>1 DEF Ended, Read
    <3>7. Unanswered'
      <4>1. Held(e.data) = {}
        BY DEF Held
      <4> QED
        BY <1>1, <1>3, <3>3, <3>4, <4>1 DEF Unanswered, Read, Channels
    <3> QED
      BY <3>3, <3>5, <3>6, <3>7 DEF IInv
  <2> QED
    BY <2>1, <2>2
<1>4. ASSUME NEW ch \in Channels, ReadError(ch) PROVE IInv'
  <2> DEFINE e == [ch |-> ch, is |-> "error", data |-> <<>>]
  <2>1. e \in EventsOfReaders
    BY EmptySeq DEF EventsOfReaders
  <2>2. /\ events' \in Seq(EventsOfReaders \cup EventsOfWriter) /\ Len(events') <= QueueMax
        /\ Held(events') = Held(events) \cup {e}
        /\ Framed' /\ Timely' /\ Witnessed' /\ Final'
    BY <1>4, <2>1, ThreadKeeps DEF ReadError
  <2>3. /\ readers' \in [Channels -> [pipe : Seq(Pieces), on : BOOLEAN]]
        /\ \A x \in Channels : readers'[x].pipe = readers[x].pipe
    BY <1>1, <1>4 DEF Typed, ReadError
  <2>4. Typed' /\ Asked'
    BY <1>1, <1>4, <2>2, <2>3 DEF Typed, Asked, ReadError
  <2>5. Ended'
    <3>1. \A x \in Channels : EndOf(x)' => EndOf(x)
      BY <1>4, <2>2 DEF EndOf, ReadError
    <3> QED
      BY <1>1, <1>4, <2>3, <3>1 DEF Ended, ReadError
  <2>6. Unanswered'
    <3>1. Held(e.data) = {}
      BY DEF Held
    <3> QED
      BY <1>1, <1>4, <2>2, <2>3, <3>1 DEF Unanswered, ReadError, Channels
  <2> QED
    BY <2>2, <2>4, <2>5, <2>6 DEF IInv
<1> QED
  BY <1>2, <1>3, <1>4 DEF Threads

-----------------------------------------------------------------------------
(* The main thread *)

\* What is taken from the queue is added to what was seen, and to nothing else.
LEMMA TakenAdds ==
  ASSUME captures \in Captures, NEW e \in EventsOfReaders \cup EventsOfWriter
  PROVE  /\ Taken(captures, e) \in Captures
         /\ Taken(captures, e).started = captures.started
         /\ Taken(captures, e).postFailure = captures.postFailure
         /\ \/ Taken(captures, e).stdout = captures.stdout
            \/ /\ e.ch = "stdout" /\ e.data \in Seq(Pieces)
               /\ Taken(captures, e).stdout = captures.stdout \o e.data
         /\ Taken(captures, e).outEof => captures.outEof \/ (e.ch = "stdout" /\ e.is = "eof")
         /\ Taken(captures, e).errEof => captures.errEof \/ (e.ch = "stderr" /\ e.is = "eof")
<1>1. CASE e.ch = "phase1"
  <2>1. e.is \in Statuses
    BY <1>1 DEF EventsOfReaders, EventsOfWriter, Channels
  <2>2. Taken(captures, e) = [captures EXCEPT !.writer = e.is]
    BY <1>1 DEF Taken
  <2> QED
    BY <2>1, <2>2 DEF Captures
<1>2. CASE e.ch # "phase1"
  <2>1. e \in EventsOfReaders
    BY <1>2 DEF EventsOfWriter
  <2>2. CASE e.is = "eof" /\ e.ch = "stdout"
    <3>1. Taken(captures, e) = [captures EXCEPT !.outEof = TRUE]
      BY <2>2 DEF Taken
    <3> QED
      BY <2>2, <3>1 DEF Captures
  <2>3. CASE e.is = "eof" /\ e.ch = "stderr"
    <3>1. Taken(captures, e) = [captures EXCEPT !.errEof = TRUE]
      BY <2>3 DEF Taken
    <3> QED
      BY <2>3, <3>1 DEF Captures
  <2>4. CASE e.is = "error" /\ e.ch \in Channels
    <3>1. Taken(captures, e) = captures
      BY <2>4 DEF Taken, Channels
    <3> QED
      BY <3>1
  <2>5. CASE e.is = "data" /\ e.ch = "stderr"
    <3>1. Taken(captures, e) = [captures EXCEPT !.stderr = TRUE]
      BY <2>5 DEF Taken
    <3> QED
      BY <3>1 DEF Captures
  <2>6. CASE e.is = "data" /\ e.ch = "stdout"
    <3>1. captures.stdout \o e.data \in Seq(Pieces) /\ e.data \in Seq(Pieces)
      BY <2>1, HeldConcat DEF Captures, EventsOfReaders
    <3> DEFINE full == captures.overflow \/ \E k \in DOMAIN e.data : e.data[k] = "flood"
               text == captures.stdout \o e.data
    <3>2. Taken(captures, e) = [captures EXCEPT !.stdout = text, !.overflow = full]
      BY <2>6 DEF Taken
    <3>3. full \in BOOLEAN /\ text \in Seq(Pieces)
      BY <3>1
    <3> HIDE DEF full
    <3>4. /\ [captures EXCEPT !.stdout = text, !.overflow = full].stdout = text
          /\ [captures EXCEPT !.stdout = text, !.overflow = full] \in Captures
          /\ [captures EXCEPT !.stdout = text, !.overflow = full].started = captures.started
          /\ [captures EXCEPT !.stdout = text, !.overflow = full].postFailure = captures.postFailure
          /\ [captures EXCEPT !.stdout = text, !.overflow = full].outEof = captures.outEof
          /\ [captures EXCEPT !.stdout = text, !.overflow = full].errEof = captures.errEof
      <4> HIDE DEF text
      <4> QED
        BY <3>3 DEF Captures
    <3> QED
      BY <2>6, <3>1, <3>2, <3>4
  <2> QED
    BY <2>1, <2>2, <2>3, <2>4, <2>5, <2>6 DEF EventsOfReaders, Channels
<1> QED
  BY <1>1, <1>2

\* Taking an event ends a channel, or answers, only where the queue already did.
LEMMA TakenTrue ==
  ASSUME IInv, events # <<>>, NEW seen, seen = Taken(captures, Head(events))
  PROVE  /\ seen \in Captures /\ seen.started = captures.started
         /\ seen.postFailure = captures.postFailure
         /\ Tail(events) \in Seq(EventsOfReaders \cup EventsOfWriter)
         /\ Len(Tail(events)) <= QueueMax
         /\ Held(Tail(events)) \subseteq Held(events)
         /\ seen.outEof => EndOf("stdout")
         /\ seen.errEof => EndOf("stderr")
         /\ ~psql.answered => "ans" \notin Held(seen.stdout)
         /\ Len(captures.stdout) >= 2 /\ captures.stdout[1] = "mar" /\ captures.stdout[2] = "ker"
              => Len(seen.stdout) >= 2 /\ seen.stdout[1] = "mar" /\ seen.stdout[2] = "ker"
<1> DEFINE e == Head(events)
<1>1. /\ captures \in Captures /\ captures.stdout \in Seq(Pieces)
      /\ events \in Seq(EventsOfReaders \cup EventsOfWriter) /\ Len(events) <= QueueMax
  BY DEF IInv, Typed, Captures
<1>2. /\ Tail(events) \in Seq(EventsOfReaders \cup EventsOfWriter)
      /\ e \in EventsOfReaders \cup EventsOfWriter /\ e \in Held(events)
      /\ Held(Tail(events)) \subseteq Held(events)
      /\ Len(Tail(events)) = Len(events) - 1 /\ Len(events) \in Nat
  BY <1>1, HeldTail, LenProperties
<1>3. /\ seen \in Captures /\ seen.started = captures.started
      /\ seen.postFailure = captures.postFailure
      /\ \/ seen.stdout = captures.stdout
         \/ /\ e.ch = "stdout" /\ e.data \in Seq(Pieces)
            /\ seen.stdout = captures.stdout \o e.data
      /\ seen.outEof => captures.outEof \/ (e.ch = "stdout" /\ e.is = "eof")
      /\ seen.errEof => captures.errEof \/ (e.ch = "stderr" /\ e.is = "eof")
  BY <1>1, <1>2, TakenAdds
<1>4. (seen.outEof => EndOf("stdout")) /\ (seen.errEof => EndOf("stderr"))
  BY <1>2, <1>3 DEF EndOf
<1>5. ASSUME ~psql.answered PROVE "ans" \notin Held(seen.stdout)
  <2>1. /\ "ans" \notin Held(captures.stdout)
        /\ \A x \in Held(events) : x.ch = "stdout" => "ans" \notin Held(x.data)
    BY <1>5 DEF IInv, Unanswered
  <2>2. CASE seen.stdout = captures.stdout
    BY <2>1, <2>2
  <2>3. CASE e.ch = "stdout" /\ e.data \in Seq(Pieces) /\ seen.stdout = captures.stdout \o e.data
    <3>1. Held(captures.stdout \o e.data) = Held(captures.stdout) \cup Held(e.data)
      BY <1>1, <2>3, HeldConcat
    <3> QED
      BY <1>2, <2>1, <2>3, <3>1
  <2> QED
    BY <1>3, <2>2, <2>3
<1>6. ASSUME Len(captures.stdout) >= 2, captures.stdout[1] = "mar", captures.stdout[2] = "ker"
      PROVE  Len(seen.stdout) >= 2 /\ seen.stdout[1] = "mar" /\ seen.stdout[2] = "ker"
  <2>1. CASE seen.stdout = captures.stdout
    BY <1>6, <2>1
  <2>2. CASE e.data \in Seq(Pieces) /\ seen.stdout = captures.stdout \o e.data
    <3>1. ASSUME NEW s1 \in Seq(Pieces), NEW s2 \in Seq(Pieces),
                 Len(s1) >= 2, s1[1] = "mar", s1[2] = "ker"
          PROVE  Len(s1 \o s2) >= 2 /\ (s1 \o s2)[1] = "mar" /\ (s1 \o s2)[2] = "ker"
      <4>1. /\ Len(s1 \o s2) = Len(s1) + Len(s2)
            /\ \A i \in 1..(Len(s1) + Len(s2)) :
                 (s1 \o s2)[i] = IF i <= Len(s1) THEN s1[i] ELSE s2[i - Len(s1)]
        BY ConcatProperties
      <4>2. Len(s1) \in Nat /\ Len(s2) \in Nat
        BY LenProperties
      <4> QED
        BY <3>1, <4>1, <4>2
    <3> QED
      BY <1>1, <1>6, <2>2, <3>1
  <2> QED
    BY <1>3, <2>1, <2>2
<1>7. Len(Tail(events)) <= QueueMax
  BY <1>1, <1>2, BoundsFact
<1> HIDE DEF e
<1> QED
  BY <1>2, <1>3, <1>4, <1>5, <1>6, <1>7

\* Returning: what has to be known where the main thread finishes.
LEMMA FinishIInv ==
  ASSUME IInv, NEW seen \in Captures, NEW result \in Classes \cup Failures,
         Finish(seen, result), UNCHANGED <<now, frames, phase1>>,
         phase \notin {"read", "done"}, session.st # "running",
         events' \in Seq(EventsOfReaders \cup EventsOfWriter), Len(events') <= QueueMax,
         Held(events') \subseteq Held(events),
         seen.outEof => EndOf("stdout"), seen.errEof => EndOf("stderr"),
         ~psql.answered => "ans" \notin Held(seen.stdout),
         result = "QUERY_NOT_EXECUTED" => ~psql.answered /\ "select" \notin Held(psql.reads),
         result \in Classes =>
           /\ psql.st = "exited" /\ psql.answered
           /\ readers["stderr"].pipe = <<>> /\ readers["stdout"].pipe = <<>>
           /\ ~seen.stderr /\ seen.stdout = Marker \o <<"ans", "wer">>
           /\ result = "EXACTLY_ONE" <=>
                session.rows = [schedules |-> 1, executions |-> 1, named |-> TRUE]
  PROVE  IInv'
<1>1. /\ Typed /\ Framed /\ Asked /\ Ended /\ Unanswered
      /\ psql \in [st : {"none", "running", "exited", "failed"}, reads : Seq(Commands),
                   answered : BOOLEAN, noise : BOOLEAN]
      /\ session \in [st : {"none", "idle", "running", "over"}, since : Nat, rows : Rows]
      /\ readers \in [Channels -> [pipe : Seq(Pieces), on : BOOLEAN]]
  BY DEF IInv, Typed
<1>2. /\ psql' \in [st : {"none", "running", "exited", "failed"}, reads : Seq(Commands),
                    answered : BOOLEAN, noise : BOOLEAN]
      /\ psql'.st # "running" /\ psql'.reads = psql.reads /\ psql'.answered = psql.answered
      /\ psql.st \in {"exited", "failed"} => psql'.st = psql.st
  BY <1>1 DEF Finish
<1>3. /\ session' \in [st : {"none", "idle", "running", "over"}, since : Nat, rows : Rows]
      /\ session'.st = "over" /\ session'.rows = session.rows
  BY <1>1 DEF Finish
<1>4. /\ readers' \in [Channels -> [pipe : Seq(Pieces), on : BOOLEAN]]
      /\ \A ch \in Channels : readers'[ch].pipe = readers[ch].pipe
  BY <1>1 DEF Finish
<1>5. phase' = "answer" /\ captures' = seen /\ outcome' = result /\ result # "none"
  BY DEF Finish, Classes, Failures
<1>6. Typed'
  BY <1>1, <1>2, <1>3, <1>4, <1>5 DEF Typed, Phases
<1>7. Framed' /\ Timely' /\ Witnessed'
  BY <1>1, <1>2, <1>3, <1>5 DEF Framed, Timely, Witnessed
<1>8. Asked'
  BY <1>1, <1>2, <1>3, <1>5 DEF Asked
<1>9. Ended'
  <2>1. \A ch \in Channels : EndOf(ch)' => EndOf(ch)
    BY <1>5 DEF EndOf
  <2> QED
    BY <1>1, <1>2, <1>4, <2>1 DEF Ended
<1>10. Unanswered'
  BY <1>1, <1>2, <1>4, <1>5 DEF Unanswered, Channels
<1>11. NotExecutedIsTrue'
  BY <1>2, <1>3, <1>5 DEF NotExecutedIsTrue, Held
<1>12. ResultIsTheDatabases'
  BY <1>2, <1>3, <1>4, <1>5 DEF ResultIsTheDatabases, Channels
<1> QED
  BY <1>2, <1>3, <1>5, <1>6, <1>7, <1>8, <1>9, <1>10, <1>11, <1>12 DEF IInv, Final

\* The state the main thread goes by, as its steps use it.
LEMMA MainFacts ==
  ASSUME IInv
  PROVE  /\ Typed /\ Framed /\ Asked /\ Timely /\ Witnessed /\ Ended /\ Unanswered /\ Final
         /\ captures \in Captures
         /\ psql \in [st : {"none", "running", "exited", "failed"}, reads : Seq(Commands),
                      answered : BOOLEAN, noise : BOOLEAN]
         /\ events \in Seq(EventsOfReaders \cup EventsOfWriter) /\ Len(events) <= QueueMax
         /\ captures.outEof => EndOf("stdout")
         /\ captures.errEof => EndOf("stderr")
         /\ ~psql.answered => "ans" \notin Held(captures.stdout)
         /\ frames \in Seq({"STARTED", "none"} \cup Classes \cup Failures)
         /\ now \in Nat
<1>1. /\ Typed /\ Framed /\ Asked /\ Timely /\ Witnessed /\ Ended /\ Unanswered /\ Final
  BY DEF IInv
<1>2. (captures.outEof => EndOf("stdout")) /\ (captures.errEof => EndOf("stderr"))
  BY DEF EndOf
<1>3. ~psql.answered => "ans" \notin Held(captures.stdout)
  BY <1>1 DEF Unanswered
<1>4. now \in Nat
  BY <1>1, BoundsFact DEF Typed
<1> QED
  BY <1>1, <1>2, <1>3, <1>4 DEF Typed

\* Past the deadline no statement runs: the timeouts are within it.
LEMMA DeadlinePassed ==
  ASSUME IInv, now >= T_HOST
  PROVE  session.st # "running"
<1>1. session.since \in Nat
  BY DEF IInv, Typed
<1> QED
  BY <1>1, MainFacts, BoundsFact DEF Timely

\* The main thread gives up before its query is written.
LEMMA RefusalIInv ==
  ASSUME IInv, phase \in {"spawn", "ready"}, NEW seen \in Captures, Finish(seen, "QUERY_NOT_EXECUTED"),
         UNCHANGED <<now, frames, phase1>>,
         events' \in Seq(EventsOfReaders \cup EventsOfWriter), Len(events') <= QueueMax,
         Held(events') \subseteq Held(events),
         seen.outEof => EndOf("stdout"), seen.errEof => EndOf("stderr"),
         ~psql.answered => "ans" \notin Held(seen.stdout)
  PROVE  IInv'
<1>1. "QUERY_NOT_EXECUTED" \in Classes \cup Failures /\ "QUERY_NOT_EXECUTED" \notin Classes
  BY DEF Classes, Failures
<1>2. session.st # "running" /\ ~psql.answered /\ "select" \notin Held(psql.reads)
  BY MainFacts DEF Asked
<1>3. phase \notin {"read", "done"}
  OBVIOUS
<1> QED
  BY <1>1, <1>2, <1>3, FinishIInv

\* What the main thread saw after an event that does not end the wait.
LEMMA ContinueIInv ==
  ASSUME IInv, NEW seen \in Captures, captures' = seen, UNCHANGED <<now, outcome, frames, readers, psql, session>>,
         phase' \in Phases \ {"read", "spawn", "answer", "done"}, phase \in Phases \ {"read", "answer", "done"},
         phase' \in {"ready", "accepted"} => phase \in {"spawn", "ready", "accepted"},
         events' \in Seq(EventsOfReaders \cup EventsOfWriter), Len(events') <= QueueMax,
         Held(events') \subseteq Held(events),
         seen.outEof => EndOf("stdout"), seen.errEof => EndOf("stderr"),
         ~psql.answered => "ans" \notin Held(seen.stdout),
         Witnessed'
  PROVE  IInv'
<1>1. Typed' /\ Framed' /\ Timely'
  BY MainFacts DEF Typed, Framed, Timely
<1>2. Asked'
  BY MainFacts DEF Asked
<1>3. Ended'
  <2>1. \A ch \in Channels : EndOf(ch)' => EndOf(ch)
    BY DEF EndOf
  <2> QED
    BY <2>1, MainFacts DEF Ended
<1>4. Unanswered'
  BY MainFacts DEF Unanswered
<1>5. Final'
  <2>1. outcome' = "none"
    BY MainFacts DEF Final
  <2> QED
    BY <2>1 DEF Final, NotExecutedIsTrue, ResultIsTheDatabases, Classes
<1> QED
  BY <1>1, <1>2, <1>3, <1>4, <1>5 DEF IInv

\* The marker is awaited, and comes or does not.
LEMMA AwaitReadyIInv == IInv /\ (AwaitReady \/ NotReady) => IInv'
<1> SUFFICES ASSUME IInv, AwaitReady \/ NotReady PROVE IInv'
  OBVIOUS
<1>1. CASE NotReady
  <2>1. FailureOf(captures) = "QUERY_NOT_EXECUTED"
    BY <1>1, MainFacts DEF NotReady, Witnessed, FailureOf
  <2> QED
    BY <1>1, <2>1, MainFacts, RefusalIInv DEF NotReady
<1>2. CASE AwaitReady
  <2> DEFINE event == Head(events)
             taken == Taken(captures, event)
             failed == \/ captures.processFailed \/ Exited
                       \/ event.is = "error"
                       \/ event.ch = "stdout" /\ event.is = "eof"
             seen == [taken EXCEPT !.processFailed = failed]
  <2>1. /\ taken \in Captures /\ taken.started = captures.started
        /\ Tail(events) \in Seq(EventsOfReaders \cup EventsOfWriter)
        /\ Len(Tail(events)) <= QueueMax
        /\ Held(Tail(events)) \subseteq Held(events)
        /\ taken.outEof => EndOf("stdout")
        /\ taken.errEof => EndOf("stderr")
        /\ ~psql.answered => "ans" \notin Held(taken.stdout)
    BY <1>2, TakenTrue DEF AwaitReady
  <2>2. /\ events' = Tail(events) /\ phase = "ready" /\ UNCHANGED <<now, frames, phase1>>
        /\ \/ /\ Accepted(seen)
              /\ phase' = "accepted"
              /\ captures' = [seen EXCEPT !.started = TRUE]
              /\ UNCHANGED <<outcome, readers, psql, session>>
           \/ Finish(seen, FailureOf(seen))
           \/ /\ captures' = seen
              /\ UNCHANGED <<phase, outcome, readers, psql, session>>
    BY <1>2 DEF AwaitReady
  <2>3. ~captures.started
    BY <2>2, MainFacts DEF Witnessed
  <2>4. failed \in BOOLEAN
    BY MainFacts DEF Captures
  <2> HIDE DEF failed, taken
  <2>5. /\ seen \in Captures /\ ~seen.started
        /\ seen.stdout = taken.stdout /\ seen.outEof = taken.outEof /\ seen.errEof = taken.errEof
    BY <2>1, <2>3, <2>4 DEF Captures
  <2> HIDE DEF seen
  <2>6. CASE Finish(seen, FailureOf(seen))
    BY <2>1, <2>2, <2>5, <2>6, RefusalIInv DEF FailureOf
  <2>7. CASE captures' = seen /\ UNCHANGED <<phase, outcome, readers, psql, session>>
    <3>1. Witnessed'
      BY <2>2, <2>5, <2>7 DEF Witnessed
    <3> QED
      BY <2>1, <2>2, <2>5, <2>7, <3>1, ContinueIInv DEF Phases
  <2>8. CASE /\ Accepted(seen) /\ phase' = "accepted"
             /\ captures' = [seen EXCEPT !.started = TRUE]
             /\ UNCHANGED <<outcome, readers, psql, session>>
    <3> DEFINE final == [seen EXCEPT !.started = TRUE]
    <3>1. /\ final \in Captures /\ final.started /\ final.stderr = seen.stderr
          /\ final.stdout = taken.stdout /\ final.outEof = taken.outEof /\ final.errEof = taken.errEof
      BY <2>5 DEF Captures
    <3>2. ~seen.stderr /\ seen.stdout = <<"mar", "ker">>
      BY <2>8 DEF Accepted, Refused, Marker
    <3> HIDE DEF final
    <3>3. captures' = final
      BY <2>8 DEF final
    <3>4. Witnessed'
      <4>1. captures'.stdout = <<"mar", "ker">> /\ captures'.started /\ ~captures'.stderr
        BY <2>5, <3>1, <3>2, <3>3
      <4> QED
        BY <2>8, <4>1 DEF Witnessed
    <3> QED
      BY <2>1, <2>2, <2>8, <3>1, <3>3, <3>4, ContinueIInv DEF Phases
  <2> QED
    BY <2>2, <2>6, <2>7, <2>8
<1> QED
  BY <1>1, <1>2

\* The result of a clean end is what the database counted.
LEMMA ClassifiedIsTrue ==
  ASSUME NEW rows \in Rows
  PROVE  /\ Classified(LocatorQuery(rows)) \in Classes
         /\ Classified(LocatorQuery(rows)) = "EXACTLY_ONE" <=>
              rows = [schedules |-> 1, executions |-> 1, named |-> TRUE]
<1>1. /\ rows.schedules \in Nat /\ rows.executions \in Nat /\ rows.named \in BOOLEAN
      /\ rows = [schedules |-> rows.schedules, executions |-> rows.executions, named |-> rows.named]
  BY QueueAssumption DEF Rows
<1>2. ASSUME NEW n \in Nat PROVE Capped(n) = 1 <=> n = 1
  BY DEF Capped
<1>3. Classified(LocatorQuery(rows)) = "EXACTLY_ONE" <=>
        rows.schedules = 1 /\ rows.executions = 1 /\ rows.named
  BY <1>1, <1>2 DEF Classified, LocatorQuery
<1>4. Classified(LocatorQuery(rows)) \in Classes
  BY DEF Classified, Classes
<1> QED
  BY <1>1, <1>3, <1>4

\* Exactly one line after the marker: the whole output is known.
LEMMA FourPieces ==
  ASSUME NEW s \in Seq(Pieces), NEW a \in Seq(Pieces), SubSeq(s, 3, Len(s)) = a,
         Len(a) = 2, a[1] = "ans", a[2] = "wer",
         Len(s) >= 2, s[1] = "mar", s[2] = "ker"
  PROVE  Len(s) = 4 /\ s[1] = "mar" /\ s[2] = "ker" /\ s[3] = "ans" /\ s[4] = "wer"
<1>1. Len(s) \in Nat /\ 3 \in Int /\ Len(s) \in Int
  BY LenProperties
<1>2. \A i \in 3..Len(s) : s[i] \in Pieces
  BY <1>1, ElementOfSeq
<1> DEFINE n == Len(s)
           b == SubSeq(s, 3, n)
<1>3. /\ Len(b) = IF 3 <= n THEN n - 3 + 1 ELSE 0
      /\ \A i \in 1..(n - 3 + 1) : b[i] = s[3 + i - 1]
  BY <1>1, <1>2, SubSeqProperties
<1>4. b = a
  OBVIOUS
<1>5. n \in Nat
  BY <1>1
<1> HIDE DEF b, n
<1>6. Len(b) = 2 /\ b[1] = "ans" /\ b[2] = "wer"
  BY ONLY <1>4, Len(a) = 2, a[1] = "ans", a[2] = "wer"
<1>7. 2 = IF 3 <= n THEN n - 3 + 1 ELSE 0
  BY <1>3, <1>6, Zenon
<1>8. n = 4
  BY ONLY <1>5, <1>7
<1>9. 1 \in 1..(n - 3 + 1) /\ 2 \in 1..(n - 3 + 1)
  BY <1>8
<1>10. b[1] = s[3 + 1 - 1] /\ b[2] = s[3 + 2 - 1]
  BY <1>3, <1>9
<1>11. 3 + 1 - 1 = 3 /\ 3 + 2 - 1 = 4
  OBVIOUS
<1>12. s[3] = "ans" /\ s[4] = "wer"
  BY <1>6, <1>10, <1>11
<1> QED
  BY <1>8, <1>12 DEF n

\* Four pieces, put together of two and two.
LEMMA MarkerThenAnswer ==
  ASSUME NEW s \in Seq(Pieces), NEW m \in Seq(Pieces), NEW a \in Seq(Pieces),
         Len(m) = 2, m[1] = "mar", m[2] = "ker", Len(a) = 2, a[1] = "ans", a[2] = "wer",
         Len(s) = 4, s[1] = "mar", s[2] = "ker", s[3] = "ans", s[4] = "wer"
  PROVE  s = m \o a
<1> DEFINE c == m \o a
<1>1. /\ c \in Seq(Pieces) /\ Len(c) = Len(m) + Len(a)
      /\ \A i \in 1..(Len(m) + Len(a)) : c[i] = IF i <= Len(m) THEN m[i] ELSE a[i - Len(m)]
  BY ConcatProperties
<1> HIDE DEF c
<1>2. Len(m) + Len(a) = 4 /\ Len(c) = 4
  BY <1>1
<1>3. \A i \in 1..4 : c[i] = IF i <= 2 THEN m[i] ELSE a[i - 2]
  BY <1>1, <1>2
<1>4. c[1] = m[1] /\ c[2] = m[2] /\ c[3] = a[1] /\ c[4] = a[2]
  BY <1>3
<1>5. \A i \in 1..4 : i = 1 \/ i = 2 \/ i = 3 \/ i = 4
  OBVIOUS
<1>6. \A i \in 1..4 : s[i] = c[i]
  BY <1>4, <1>5
<1>7. s = c
  BY <1>1, <1>2, <1>6, SeqEqual
<1> QED
  BY <1>7 DEF c

\* An output that parses is the marker and an answer.
LEMMA ParsedOutput ==
  ASSUME NEW seen \in Captures, Parsed(seen),
         Len(seen.stdout) >= 2, seen.stdout[1] = "mar", seen.stdout[2] = "ker"
  PROVE  seen.stdout = Marker \o <<"ans", "wer">> /\ "ans" \in Held(seen.stdout)
<1>1. seen.stdout \in Seq(Pieces)
  BY DEF Captures
<1>2. Marker \in Seq(Pieces) /\ <<"ans", "wer">> \in Seq(Pieces)
  BY DEF Marker, Pieces
<1>3. /\ Len(Marker) = 2 /\ Marker[1] = "mar" /\ Marker[2] = "ker"
      /\ Len(<<"ans", "wer">>) = 2 /\ <<"ans", "wer">>[1] = "ans" /\ <<"ans", "wer">>[2] = "wer"
  BY DEF Marker
<1>4. /\ Len(seen.stdout) = 4 /\ seen.stdout[1] = "mar" /\ seen.stdout[2] = "ker"
      /\ seen.stdout[3] = "ans" /\ seen.stdout[4] = "wer"
  BY <1>1, <1>2, <1>3, FourPieces DEF Parsed
<1>5. seen.stdout = Marker \o <<"ans", "wer">>
  BY <1>1, <1>2, <1>3, <1>4, MarkerThenAnswer
<1>6. "ans" \in Held(seen.stdout)
  BY <1>1, <1>4, LenProperties DEF Held
<1> QED
  BY <1>5, <1>6

\* The output is read to its end, or the bound is waited through.
LEMMA DrainIInv == IInv /\ (Drain \/ EndDrain \/ WaitThroughBound) => IInv'
<1> SUFFICES ASSUME IInv, Drain \/ EndDrain \/ WaitThroughBound PROVE IInv'
  OBVIOUS
<1>1. phase \in {"drain", "bound"}
  BY DEF Drain, EndDrain, WaitThroughBound
<1>2. /\ captures.started
      /\ Len(captures.stdout) >= 2 /\ captures.stdout[1] = "mar" /\ captures.stdout[2] = "ker"
  BY <1>1, MainFacts DEF Witnessed
<1>3. FailureOf(captures) = "QUERY_FAILED"
  BY <1>2 DEF FailureOf
\* At the deadline: a failure, whatever came.
<1>4. ASSUME now >= T_HOST, Finish(captures, FailureOf(captures)), events' = events,
             UNCHANGED <<now, frames, phase1>>
      PROVE  IInv'
  <2>1. session.st # "running"
    BY <1>4, DeadlinePassed
  <2>2. "QUERY_FAILED" \in Classes \cup Failures /\ "QUERY_FAILED" \notin Classes
    BY DEF Classes, Failures
  <2>3. Finish(captures, "QUERY_FAILED")
    BY <1>3, <1>4
  <2> QED
    BY <1>1, <1>4, <2>1, <2>2, <2>3, MainFacts, FinishIInv
<1>5. CASE Drain
  <2> DEFINE taken == Taken(captures, Head(events))
             watched == Watched(taken)
             seen == [watched EXCEPT !.postFailure = watched.postFailure \/ Head(events).is = "error"]
  <2>1. /\ taken \in Captures /\ taken.started = captures.started
        /\ Tail(events) \in Seq(EventsOfReaders \cup EventsOfWriter)
        /\ Len(Tail(events)) <= QueueMax
        /\ Held(Tail(events)) \subseteq Held(events)
        /\ taken.outEof => EndOf("stdout")
        /\ taken.errEof => EndOf("stderr")
        /\ ~psql.answered => "ans" \notin Held(taken.stdout)
        /\ Len(taken.stdout) >= 2 /\ taken.stdout[1] = "mar" /\ taken.stdout[2] = "ker"
    BY <1>2, <1>5, TakenTrue DEF Drain
  <2>2. captures' = seen
    BY <1>5 DEF Drain
  <2> HIDE DEF taken
  <2>3. /\ watched \in Captures /\ watched.started = taken.started /\ watched.stdout = taken.stdout
        /\ watched.outEof = taken.outEof /\ watched.errEof = taken.errEof
        /\ watched.stderr = taken.stderr
        /\ taken.stderr => watched.postFailure
    <3> DEFINE bad == \/ taken.postFailure \/ taken.stderr \/ taken.overflow \/ psql.st = "failed"
    <3>1. watched = [taken EXCEPT !.postFailure = bad] /\ bad \in BOOLEAN
      BY <2>1 DEF Watched, Captures
    <3>2. taken.stderr => bad
      OBVIOUS
    <3> HIDE DEF bad, watched
    <3> QED
      BY <2>1, <3>1, <3>2 DEF Captures
  <2> HIDE DEF watched
  <2>4. /\ seen \in Captures /\ seen.started = watched.started /\ seen.stdout = watched.stdout
        /\ seen.outEof = watched.outEof /\ seen.errEof = watched.errEof
        /\ seen.stderr = watched.stderr
        /\ watched.postFailure => seen.postFailure
    <3> DEFINE bad == watched.postFailure \/ Head(events).is = "error"
    <3>1. seen = [watched EXCEPT !.postFailure = bad] /\ bad \in BOOLEAN
      OBVIOUS
    <3>2. watched.postFailure => bad
      OBVIOUS
    <3> HIDE DEF bad, seen
    <3> QED
      BY <2>3, <3>1, <3>2 DEF Captures
  <2> HIDE DEF seen
  <2>5. Witnessed'
    BY <1>2, <1>5, <2>1, <2>2, <2>3, <2>4 DEF Drain, Witnessed
  <2> QED
    BY <1>5, <2>1, <2>2, <2>3, <2>4, <2>5, ContinueIInv DEF Drain, Phases
<1>6. CASE EndDrain
  <2>1. CASE now >= T_HOST /\ Finish(captures, FailureOf(captures))
    BY <1>4, <1>6, <2>1 DEF EndDrain
  <2>2. CASE CleanEnd(captures) /\ ~Parsed(captures) /\ phase' = "bound"
             /\ UNCHANGED <<captures, outcome, readers, psql, session>>
    <3>1. Witnessed'
      BY <1>2, <2>2 DEF Witnessed
    <3> QED
      BY <1>1, <1>6, <2>2, <3>1, MainFacts, ContinueIInv DEF EndDrain, Phases
  <2>3. CASE CleanEnd(captures) /\ Parsed(captures)
             /\ Finish(captures, Classified(LocatorQuery(session.rows)))
    <3> DEFINE result == Classified(LocatorQuery(session.rows))
    <3>1. session.rows \in Rows
      BY MainFacts DEF Typed
    <3>2. /\ result \in Classes
          /\ result = "EXACTLY_ONE" <=>
               session.rows = [schedules |-> 1, executions |-> 1, named |-> TRUE]
      BY <3>1, ClassifiedIsTrue
    <3>3. psql.st = "exited" /\ session.st # "running"
      BY <2>3, MainFacts DEF CleanEnd, Timely
    <3>4. captures.stdout = Marker \o <<"ans", "wer">> /\ psql.answered
      BY <1>2, <2>3, MainFacts, ParsedOutput
    <3>5. readers["stderr"].pipe = <<>> /\ readers["stdout"].pipe = <<>>
      BY <2>3, MainFacts DEF CleanEnd, Ended, Channels
    <3>6. ~captures.stderr
      BY <1>6, <2>3, MainFacts DEF CleanEnd, EndDrain, Witnessed
    <3>7. result # "QUERY_NOT_EXECUTED"
      BY <3>2 DEF Classes
    <3> HIDE DEF result
    <3>8. Finish(captures, result)
      BY <2>3 DEF result
    <3>9. UNCHANGED <<now, frames, events, phase1>>
      BY <1>6 DEF EndDrain
    <3> QED
      BY <1>1, <3>2, <3>3, <3>4, <3>5, <3>6, <3>7, <3>8, <3>9, MainFacts, FinishIInv
  <2> QED
    BY <1>6, <2>1, <2>2, <2>3 DEF EndDrain
<1>7. CASE WaitThroughBound
  <2>1. CASE now >= T_HOST /\ Finish(captures, FailureOf(captures)) /\ UNCHANGED events
    BY <1>4, <1>7, <2>1 DEF WaitThroughBound
  <2>2. CASE events # <<>> /\ events' = Tail(events) /\ UNCHANGED <<phase, captures, outcome, readers, psql, session>>
    <3>1. /\ Tail(events) \in Seq(EventsOfReaders \cup EventsOfWriter)
          /\ Held(Tail(events)) \subseteq Held(events) /\ Len(Tail(events)) <= QueueMax
      BY <2>2, TakenTrue
    <3>2. Witnessed'
      BY <2>2, MainFacts DEF Witnessed
    <3> QED
      BY <1>1, <1>7, <2>2, <3>1, <3>2, MainFacts, ContinueIInv DEF WaitThroughBound, Phases
  <2> QED
    BY <1>7, <2>1, <2>2 DEF WaitThroughBound
<1> QED
  BY <1>5, <1>6, <1>7

-----------------------------------------------------------------------------
(* The request, the start of psql, the query and the answer *)

\* The request frame is read.
LEMMA ReadRequestIInv == IInv /\ ReadRequest => IInv'
<1> SUFFICES ASSUME IInv, ReadRequest PROVE IInv'
  OBVIOUS
<1>1. \E first \in {"STARTED", "QUERY_NOT_EXECUTED"} :
        frames' = <<first>> /\ phase' = IF first = "STARTED" THEN "spawn" ELSE "done"
  BY DEF ReadRequest
<1>2. /\ frames' \in Seq({"STARTED", "none"} \cup Classes \cup Failures)
      /\ Len(frames') = 1 /\ phase' \in {"spawn", "done"}
  <2>1. ASSUME NEW first \in {"STARTED", "QUERY_NOT_EXECUTED"}
        PROVE  <<first>> \in Seq({"STARTED", "none"} \cup Classes \cup Failures) /\ Len(<<first>>) = 1
    BY DEF Failures
  <2> QED
    BY <1>1, <2>1
<1>3. Typed' /\ Framed'
  BY <1>2, MainFacts DEF ReadRequest, Typed, Framed, Phases
<1>4. Asked' /\ Timely' /\ Witnessed'
  BY <1>2, MainFacts DEF ReadRequest, Asked, Timely, Witnessed
<1>5. Ended' /\ Unanswered'
  BY MainFacts DEF ReadRequest, Ended, EndOf, Unanswered
<1>6. Final'
  <2>1. outcome' = "none"
    BY MainFacts DEF ReadRequest, Final
  <2> QED
    BY <2>1 DEF Final, NotExecutedIsTrue, ResultIsTheDatabases, Classes
<1> QED
  BY <1>3, <1>4, <1>5, <1>6 DEF IInv

\* psql is started.
LEMMA SpawnIInv == IInv /\ Spawn => IInv'
<1> SUFFICES ASSUME IInv, Spawn PROVE IInv'
  OBVIOUS
<1>1. phase = "spawn" /\ UNCHANGED <<now, frames, events, phase1>>
  BY DEF Spawn
<1>2. CASE Finish(captures, "QUERY_NOT_EXECUTED")
  BY <1>1, <1>2, MainFacts, RefusalIInv
<1>3. CASE /\ phase' = "ready" /\ psql' = [psql EXCEPT !.st = "running"]
           /\ UNCHANGED <<captures, outcome, readers, session>>
  <2>1. /\ psql' \in [st : {"none", "running", "exited", "failed"}, reads : Seq(Commands),
                      answered : BOOLEAN, noise : BOOLEAN]
        /\ psql'.reads = psql.reads /\ psql'.answered = psql.answered /\ psql'.st = "running"
    BY <1>3, MainFacts
  <2>2. Typed' /\ Framed'
    BY <1>1, <1>3, <2>1, MainFacts DEF Typed, Framed, Phases
  <2>3. Asked' /\ Witnessed' /\ Unanswered'
    BY <1>1, <1>3, <2>1, MainFacts DEF Asked, Witnessed, Unanswered
  <2>4. Timely'
    BY <1>1, <1>3, <2>1, MainFacts DEF Timely
  <2>5. outcome' = "none"
    BY <1>1, <1>3, MainFacts DEF Final
  <2>6. Final'
    BY <2>5 DEF Final, NotExecutedIsTrue, ResultIsTheDatabases, Classes
  <2>7. Ended'
    <3>1. psql.st = "none"
      BY <1>1, MainFacts DEF Asked
    <3>2. \A ch \in Channels : ~EndOf(ch)
      BY <3>1, MainFacts DEF Ended
    <3>3. \A ch \in Channels : EndOf(ch)' <=> EndOf(ch)
      BY <1>1, <1>3 DEF EndOf
    <3> QED
      BY <3>2, <3>3 DEF Ended
  <2> QED
    BY <2>2, <2>3, <2>4, <2>6, <2>7 DEF IInv
<1> QED
  BY <1>2, <1>3 DEF Spawn


\* The query is written.
LEMMA WritePhase2IInv == IInv /\ WritePhase2 => IInv'
<1> SUFFICES ASSUME IInv, WritePhase2 PROVE IInv'
  OBVIOUS
<1>1. PICK status \in Statuses \ {"pending"} :
        /\ captures' = [captures EXCEPT !.postFailure = status # "ok"]
        /\ \/ psql' = [psql EXCEPT !.reads = @ \o <<"select", "quit">>]
           \/ psql' = [psql EXCEPT !.reads = Append(@, "select")]
           \/ UNCHANGED psql
  BY DEF WritePhase2
<1>2. /\ phase = "accepted" /\ phase' = "drain"
      /\ UNCHANGED <<now, outcome, frames, events, readers, phase1, session>>
  BY DEF WritePhase2
<1> DEFINE failed == status # "ok"
<1>3. failed \in BOOLEAN /\ captures' = [captures EXCEPT !.postFailure = failed]
  BY <1>1
<1> HIDE DEF failed
<1>4. /\ captures' \in Captures /\ captures'.started = captures.started
      /\ captures'.stdout = captures.stdout /\ captures'.stderr = captures.stderr
      /\ captures'.outEof = captures.outEof /\ captures'.errEof = captures.errEof
  BY <1>3, MainFacts DEF Captures
\* The statement goes into a pipe that did not hold it.
<1>5. psql.reads \in Seq(Commands) /\ OneSelect(psql.reads) /\ "select" \notin Held(psql.reads)
  BY <1>2, MainFacts DEF Asked
<1>6. /\ <<"select", "quit">> \in Seq(Commands) /\ <<"select">> \in Seq(Commands)
      /\ OneSelect(<<"select", "quit">>) /\ OneSelect(<<"select">>)
  <2>1. <<"select", "quit">> \in Seq(Commands) /\ <<"select">> \in Seq(Commands)
    BY DEF Commands
  <2>2. DOMAIN <<"select", "quit">> = {1, 2} /\ DOMAIN <<"select">> = {1}
    OBVIOUS
  <2>3. <<"select", "quit">>[2] = "quit"
    OBVIOUS
  <2> QED
    BY <2>1, <2>2, <2>3 DEF OneSelect
<1>7. /\ psql.reads \o <<"select", "quit">> \in Seq(Commands)
      /\ OneSelect(psql.reads \o <<"select", "quit">>)
  BY <1>5, <1>6, HeldConcat, SelectWritten
<1>8. Append(psql.reads, "select") \in Seq(Commands) /\ OneSelect(Append(psql.reads, "select"))
  <2>1. Append(psql.reads, "select") = psql.reads \o <<"select">>
    BY <1>5
  <2>2. psql.reads \o <<"select">> \in Seq(Commands) /\ OneSelect(psql.reads \o <<"select">>)
    BY <1>5, <1>6, HeldConcat, SelectWritten
  <2> QED
    BY <2>1, <2>2
<1>9. /\ psql' \in [st : {"none", "running", "exited", "failed"}, reads : Seq(Commands),
                    answered : BOOLEAN, noise : BOOLEAN]
      /\ psql'.st = psql.st /\ psql'.answered = psql.answered /\ OneSelect(psql'.reads)
  <2>1. ASSUME NEW reads \in Seq(Commands), OneSelect(reads), psql' = [psql EXCEPT !.reads = reads]
        PROVE  /\ psql' \in [st : {"none", "running", "exited", "failed"}, reads : Seq(Commands),
                             answered : BOOLEAN, noise : BOOLEAN]
               /\ psql'.st = psql.st /\ psql'.answered = psql.answered /\ OneSelect(psql'.reads)
    <3>1. psql'.reads = reads
      BY <2>1, MainFacts
    <3> QED
      BY <2>1, <3>1, MainFacts
  <2>2. CASE UNCHANGED psql
    BY <1>5, <2>2, MainFacts
  <2> QED
    BY <1>1, <1>7, <1>8, <2>1, <2>2
<1>10. Typed' /\ Framed' /\ Timely'
  BY <1>2, <1>4, <1>9, MainFacts DEF Typed, Framed, Timely, Phases
<1>11. Asked'
  <2>1. ~psql'.answered /\ session'.st # "running"
    BY <1>2, <1>9, MainFacts DEF Asked
  <2> QED
    BY <1>2, <1>9, <2>1 DEF Asked
<1>12. Witnessed'
  BY <1>2, <1>4, MainFacts DEF Witnessed
<1>13. Ended'
  <2>1. \A ch \in Channels : EndOf(ch)' <=> EndOf(ch)
    BY <1>2, <1>4 DEF EndOf
  <2> QED
    BY <1>2, <1>9, <2>1, MainFacts DEF Ended
<1>14. Unanswered'
  BY <1>2, <1>4, <1>9, MainFacts DEF Unanswered
<1>15. Final'
  <2>1. outcome' = "none"
    BY <1>2, MainFacts DEF Final
  <2> QED
    BY <2>1 DEF Final, NotExecutedIsTrue, ResultIsTheDatabases, Classes
<1> QED
  BY <1>10, <1>11, <1>12, <1>13, <1>14, <1>15 DEF IInv

\* The answer is written.
LEMMA WriteAnswerIInv == IInv /\ WriteAnswer => IInv'
<1> SUFFICES ASSUME IInv, WriteAnswer PROVE IInv'
  OBVIOUS
<1>1. /\ phase = "answer" /\ phase' = "done" /\ frames' = Append(frames, outcome)
      /\ UNCHANGED <<now, captures, outcome, events, readers, phase1, psql, session>>
  BY DEF WriteAnswer
<1>2. outcome \in {"STARTED", "none"} \cup Classes \cup Failures /\ Len(frames) = 1
  BY <1>1, MainFacts DEF Typed, Framed
<1>3. frames' \in Seq({"STARTED", "none"} \cup Classes \cup Failures) /\ Len(frames') = 2
  <2>1. ASSUME NEW T, NEW s \in Seq(T), NEW e \in T, Len(s) = 1
        PROVE  Append(s, e) \in Seq(T) /\ Len(Append(s, e)) = 2
    BY <2>1
  <2> QED
    BY <1>1, <1>2, <2>1, MainFacts
<1>4. Typed' /\ Framed' /\ Asked' /\ Timely' /\ Witnessed'
  BY <1>1, <1>3, MainFacts DEF Typed, Framed, Phases, Asked, Timely, Witnessed
<1>5. Ended' /\ Unanswered'
  BY <1>1, MainFacts DEF Ended, EndOf, Unanswered
<1>6. Final'
  BY <1>1, MainFacts DEF Final, NotExecutedIsTrue, ResultIsTheDatabases
<1> QED
  BY <1>4, <1>5, <1>6 DEF IInv

\* IInv is inductive.
LEMMA NextIInv == IInv /\ [Next]_vars => IInv'
<1> SUFFICES ASSUME IInv, [Next]_vars PROVE IInv'
  OBVIOUS
<1>1. CASE Main
  BY <1>1, ReadRequestIInv, SpawnIInv, AwaitReadyIInv, WritePhase2IInv, DrainIInv, WriteAnswerIInv DEF Main
<1>2. CASE UNCHANGED vars
  BY <1>2 DEF vars, IInv, Typed, Framed, Asked, Timely, Witnessed, Ended, EndOf, Unanswered,
              Final, NotExecutedIsTrue, ResultIsTheDatabases
<1> QED
  BY <1>1, <1>2, ThreadsIInv, ExternalIInv, TickIInv DEF Next

\* AnswersAreTrue (execute_operation and the terminal frame it decides).
\* Whatever psql prints and whenever it stops, however the threads and the
\* clock come between the steps of the main thread, and for any timeouts: an
\* answer comes after the end of the session, "not executed" means that the
\* statement never ran and never will, and a result is what the database
\* counted.
THEOREM AnswersTrue == Spec => []AnswersAreTrue
<1>1. IInv => AnswersAreTrue
  <2> SUFFICES ASSUME IInv PROVE AnswersAreTrue
    OBVIOUS
  <2>1. TypeOK
    BY MainFacts DEF Typed, Framed, TypeOK, Phases, Captures
  <2>2. NotExecutedIsTrue /\ AnsweredOnceOver /\ ResultIsTheDatabases
    BY MainFacts DEF Final, AnsweredOnceOver
  <2> QED
    BY <2>1, <2>2 DEF AnswersAreTrue
<1> QED
  BY <1>1, InitIInv, NextIInv, PTL DEF Spec
=============================================================================
