--------------------------- MODULE IdentityProofs ---------------------------
(***************************************************************************)
(* Theorems about who a session is for and what its user may do: those of   *)
(* SignInState, then those of WorkspaceAdmin, the two modules that keep the *)
(* platform's rows about people.  They share no variable.                   *)
(***************************************************************************)
EXTENDS WorkspaceAdmin, SignInState, FiniteSetTheorems, TLAPS

(***************************************************************************)
(* SignInState: its type, and that a state is spent once, in time, in the  *)
(* browser that started it, in a table of bounded size.                    *)
(*                                                                         *)
(* The inductive invariant Inv follows a state through its life: drawn     *)
(* (flow), waiting to be stored (Pending), stored and unspent, consumed by *)
(* one callback, signed in.  Ownership carries the browser from the start  *)
(* to the binding cookie, from there to the callback and to the session;   *)
(* Counted is what a start's count is still worth at its commit.           *)
(***************************************************************************)
Pending(x) == start[x].step \in {"begun", "pruned"}
Consuming(k, s) == callback[k].step = "consumed" /\ callback[k].state = s

\* No callback has consumed s yet.
Unspent(s) == signedIn[s] = 0 /\ \A k \in Callbacks : ~Consuming(k, s)

Life ==
  /\ \A s \in States : signedIn[s] <= 1
  /\ \A k \in Callbacks, s \in States :
       Consuming(k, s) => signedIn[s] = 0 /\ \A l \in Callbacks : Consuming(l, s) => l = k
  /\ \A s \in States : flow[s] = Undrawn => rows[s] = NoRow
  /\ \A s \in States : flow[s] = Undrawn \/ Unconsumed(s) => Unspent(s)
  /\ \A x \in Starts : Pending(x) =>
       /\ Unspent(start[x].state) /\ rows[start[x].state] = NoRow
       /\ \A y \in Starts : Pending(y) /\ start[y].state = start[x].state => y = x

Ownership ==
  /\ \A x \in Starts : start[x] # Idle => flow[start[x].state].browser = start[x].browser
  /\ \A b \in Browsers : binding[b] # None => flow[binding[b]].browser = b
  /\ \A k \in Callbacks : callback[k] # Idle =>
       flow[callback[k].state].browser = callback[k].browser
  /\ SignedInWhereStarted

Times ==
  /\ \A x \in Starts : start[x] # Idle => start[x].now = flow[start[x].state].at
  /\ \A s \in States : rows[s] # NoRow => rows[s].expiresAt = flow[s].at + Lifetime
  /\ ConsumedInTime

Counted ==
  /\ WithinCapacity
  /\ \A x \in Starts : start[x].step = "pruned" /\ ~start[x].overtaken =>
       Cardinality(Stored \ start[x].stale) < Capacity

Inv == SignInTypeOK /\ Life /\ Ownership /\ Times /\ Counted

-----------------------------------------------------------------------------
(* What a provider's answer is worth *)

\* selectSigningJwk and assertSignature: what verifies is signed with a key the
\* provider publishes for signatures.
LEMMA SignedByProvider ==
  ASSUME NEW a \in Answers, SignatureHolds(a)
  PROVE  a.signer \in ProviderPairs
<1>1. PICK i \in Selected(a) : a.keys[i].pair = a.signer BY DEF SignatureHolds
<1>2. i \in DOMAIN a.keys /\ isUsableRsaSigningJwk(a.keys[i]) BY DEF Selected, Candidates
<1>3. ForSignatures(a.keys[i]) BY <1>2 DEF isUsableRsaSigningJwk, ForSignatures
<1> QED BY <1>1, <1>2, <1>3, AnswersAssumption

LEMMA OneAudience ==
  ASSUME NEW S, NEW q \in Seq(S), NEW i \in DOMAIN q, NEW e, q[i] = e, ~(Len(q) > 1)
  PROVE  q = << e >>
<1>1. Len(q) \in Nat /\ DOMAIN q = 1..Len(q) OBVIOUS
<1>2. Len(q) = 1 /\ i = 1 BY <1>1
<1> QED BY <1>1, <1>2

\* assertAudienceAndAuthorizedParty: one audience, or the party among several.
LEMMA MadeForPlatform ==
  ASSUME NEW a \in Answers, SignatureHolds(a), ClaimsHold(a)
  PROVE  Genuine(a)
<1>1. PICK i \in DOMAIN a.aud : a.aud[i] = "client" BY DEF ClaimsHold, AudienceHolds
<1>2. a.aud \in Seq(STRING) BY AnswersAssumption
<1>3. CASE Len(a.aud) > 1
  BY <1>1, <1>3, SignedByProvider DEF Genuine, ClaimsHold, AudienceHolds
<1>4. CASE ~(Len(a.aud) > 1)
  <2>1. a.aud = << "client" >> BY <1>1, <1>2, <1>4, OneAudience
  <2> QED BY <2>1, SignedByProvider DEF Genuine, ClaimsHold
<1> QED BY <1>3, <1>4

\* assertNonceMatches and readVerifiedUserinfo: an identity is of the sign-in whose
\* state came back, and names nobody else.
THEOREM NamesItsSignIn ==
  ASSUME NEW c \in States, NEW s \in States, NEW accounts \in Identities[c][s]
  PROVE  c = s /\ accounts \subseteq {s}
<1>1. PICK a \in Answers : a.code = c /\ Verified(a, s) /\ accounts = Accounts(a)
  BY DEF Identities
<1>2. Genuine(a) BY <1>1, MadeForPlatform DEF Verified, IdTokenVerified
<1>3. /\ a.nonce = a.code /\ a.sub = a.code
      /\ a.verified => a.email \in {None, a.sub}
      /\ a.info.verified => a.info.email \in {None, a.info.sub}
  BY <1>2, AnswersAssumption
<1>4. c = s /\ a.sub = s BY <1>1, <1>3 DEF Verified, NonceMatches
<1>5. VerifiedEmail(a) \in {None, s}
  <2>1. CASE EmailClaimed(a) BY <1>3, <1>4, <2>1 DEF VerifiedEmail, EmailClaimed
  <2>2. CASE ~EmailClaimed(a) /\ AsksUserinfo(a) /\ a.info.verified
    <3>1. a.info.sub = s BY <1>1, <1>4, <2>2 DEF Verified, UserinfoHolds
    <3> QED BY <1>3, <2>2, <3>1 DEF VerifiedEmail
  <2>3. CASE ~EmailClaimed(a) /\ ~(AsksUserinfo(a) /\ a.info.verified)
    BY <2>3 DEF VerifiedEmail
  <2> QED BY <2>1, <2>2, <2>3
<1> QED BY <1>1, <1>4, <1>5 DEF Accounts

-----------------------------------------------------------------------------
(* Helpers *)

LEMMA StartFields ==
  ASSUME SignInTypeOK, NEW x \in Starts, start[x] # Idle
  PROVE  start[x] \in Start
BY DEF SignInTypeOK

LEMMA CallbackFields ==
  ASSUME SignInTypeOK, NEW k \in Callbacks, callback[k] # Idle
  PROVE  callback[k] \in Callback
BY DEF SignInTypeOK

LEMMA NotIdle ==
  /\ Idle.step = "none"
  /\ \A q \in Start : q # Idle /\ q.step # "none"
  /\ \A q \in Callback : q # Idle /\ q.step # "none"
BY DEF Idle, Start, Callback

\* A state somebody owns has been drawn.
LEMMA Drawn ==
  ASSUME SignInTypeOK, NEW s \in States, flow[s].browser \in Browsers
  PROVE  flow[s] # Undrawn
BY NoneAssumption DEF Undrawn

\* What a commit of storeState does to the table.
LEMMA StoreRows ==
  ASSUME SignInTypeOK, NEW x \in Starts, StoreState(x)
  PROVE  /\ start[x] \in Start
         /\ Stored' = (Stored \ start[x].stale) \cup {start[x].state}
         /\ rows'[start[x].state] = [expiresAt |-> start[x].now + Lifetime, consumed |-> FALSE]
         /\ \A s \in States \ {start[x].state} :
              rows'[s] = rows[s] \/ rows'[s] = NoRow
         /\ start'[x] \in {Idle, [start[x] EXCEPT !.step = "stored"]}
         /\ \A y \in Starts \ {x} :
              start'[y] = IF start[y].step = "pruned" THEN [start[y] EXCEPT !.overtaken = TRUE]
                          ELSE start[y]
<1>1. start[x] \in Start BY NotIdle, StartFields DEF StoreState
<1>2. start[x].state \in States /\ start[x].now \in Nat
  BY <1>1, TimesAssumption DEF Start
<1>3. start[x].now + Lifetime # 0 BY <1>2, TimesAssumption
<1>4. \A s \in States :
        rows'[s] = IF s = start[x].state
                   THEN [expiresAt |-> start[x].now + Lifetime, consumed |-> FALSE]
                   ELSE IF s \in start[x].stale THEN NoRow ELSE rows[s]
  BY DEF StoreState, ExpiresAt
<1>5. rows'[start[x].state] # NoRow BY <1>2, <1>3, <1>4 DEF NoRow
<1>6. Stored' = (Stored \ start[x].stale) \cup {start[x].state}
  BY <1>2, <1>4, <1>5 DEF Stored
<1> QED BY <1>1, <1>2, <1>4, <1>6 DEF StoreState

-----------------------------------------------------------------------------
(* Types *)

LEMMA TypeStep == SignInTypeOK /\ [SignInNext]_signInVars => SignInTypeOK'
<1> SUFFICES ASSUME SignInTypeOK, [SignInNext]_signInVars PROVE SignInTypeOK'
  OBVIOUS
<1>1. ASSUME NEW x \in Starts, NEW b \in Browsers, NEW s \in States, BeginStart(x, b, s)
      PROVE  SignInTypeOK'
  <2>1. [step |-> "begun", browser |-> b, state |-> s, now |-> clock,
         stale |-> {}, overtaken |-> FALSE] \in Start
    BY DEF SignInTypeOK, Start
  <2> QED BY <1>1, <2>1 DEF BeginStart, SignInTypeOK
<1>2. ASSUME NEW x \in Starts, Prune(x) PROVE SignInTypeOK'
  <2>1. start[x] \in Start BY <1>2, NotIdle, StartFields DEF Prune
  <2>2. [start[x] EXCEPT !.step = "pruned", !.stale = Stale(start[x].now)] \in Start
    BY <2>1 DEF Start, Stale, Stored
  <2> QED BY <1>2, <2>2 DEF Prune, EndStart, SignInTypeOK
<1>3. ASSUME NEW x \in Starts, StoreState(x) PROVE SignInTypeOK'
  <2>1. start[x] \in Start BY <1>3, StoreRows
  <2>2. /\ start[x].now + Lifetime \in Lifetime..(MaxClock + Lifetime)
        /\ [expiresAt |-> start[x].now + Lifetime, consumed |-> FALSE] \in Row
    BY <2>1, TimesAssumption DEF Start, Row
  <2>3. rows' \in [States -> Row \cup {NoRow}]
    BY <1>3, <2>2 DEF StoreState, ExpiresAt, SignInTypeOK
  <2>4. \A y \in Starts : start'[y] \in Start \cup {Idle}
    <3>1. \A q \in Start : /\ [q EXCEPT !.step = "stored"] \in Start
                           /\ [q EXCEPT !.overtaken = TRUE] \in Start
      BY DEF Start
    <3>2. \A y \in Starts : start[y].step = "pruned" => start[y] \in Start
      BY NotIdle, StartFields
    <3>3. start'[x] \in Start \cup {Idle} BY <1>3, <2>1, <3>1, StoreRows
    <3>4. ASSUME NEW y \in Starts \ {x} PROVE start'[y] \in Start \cup {Idle}
      <4>1. start'[y] = IF start[y].step = "pruned" THEN [start[y] EXCEPT !.overtaken = TRUE]
                        ELSE start[y]
        BY <1>3, <3>4, StoreRows
      <4>2. start[y] \in Start \cup {Idle} BY <3>4 DEF SignInTypeOK
      <4> QED BY <3>1, <3>2, <4>1, <4>2
    <3> QED BY <3>3, <3>4
  <2> QED BY <1>3, <2>3, <2>4 DEF StoreState, SignInTypeOK
<1>4. ASSUME NEW x \in Starts, AnswerStart(x) \/ FailStart(x) PROVE SignInTypeOK'
  <2>1. start[x] \in Start BY <1>4, NotIdle, StartFields DEF AnswerStart, FailStart
  <2> QED BY <1>4, <2>1 DEF AnswerStart, FailStart, EndStart, SignInTypeOK, Start
<1>5. ASSUME NEW k \in Callbacks, NEW b \in Browsers, NEW s \in States, NEW c \in States,
             BeginCallback(k, b, s, c)
      PROVE  SignInTypeOK'
  <2>1. [step |-> "bound", browser |-> b, state |-> s, code |-> c, now |-> clock] \in Callback
    BY DEF SignInTypeOK, Callback
  <2> QED BY <1>5, <2>1 DEF BeginCallback, SignInTypeOK
<1>6. ASSUME NEW k \in Callbacks, FindState(k) PROVE SignInTypeOK'
  <2>1. callback[k] \in Callback BY <1>6, NotIdle, CallbackFields DEF FindState
  <2>2. [callback[k] EXCEPT !.step = "found"] \in Callback BY <2>1 DEF Callback
  <2> QED BY <1>6, <2>2 DEF FindState, SignInTypeOK
<1>7. ASSUME NEW k \in Callbacks, ConsumeState(k) PROVE SignInTypeOK'
  <2>1. callback[k] \in Callback BY <1>7, NotIdle, CallbackFields DEF ConsumeState
  <2>2. /\ [callback[k] EXCEPT !.step = "consumed"] \in Callback
        /\ callback[k].state \in States /\ callback[k].browser \in Browsers
    BY <2>1 DEF Callback
  <2>3. [rows[callback[k].state] EXCEPT !.consumed = TRUE] \in Row
    <3>1. rows[callback[k].state] \in Row BY <1>7, <2>2 DEF ConsumeState, Unconsumed, SignInTypeOK
    <3> QED BY <3>1 DEF Row
  <2>4. rows' \in [States -> Row \cup {NoRow}] BY <1>7, <2>3 DEF ConsumeState, SignInTypeOK
  <2>5. callback' \in [Callbacks -> Callback \cup {Idle}]
    BY <1>7, <2>2 DEF ConsumeState, EndCallback, SignInTypeOK
  <2>6. binding' \in [Browsers -> States \cup {None}]
    BY <1>7, <2>2 DEF ConsumeState, SignInTypeOK
  <2> QED BY <1>7, <2>4, <2>5, <2>6 DEF ConsumeState, SignInTypeOK
<1>8. ASSUME NEW k \in Callbacks, SignIn(k) \/ FailCallback(k) PROVE SignInTypeOK'
  <2>1. callback[k] \in Callback BY <1>8, NotIdle, CallbackFields DEF SignIn, FailCallback
  <2>2. callback[k].state \in States /\ callback[k].code \in States /\ callback[k].browser \in Browsers
    BY <2>1 DEF Callback
  <2>3. \A accounts \in Identities[callback[k].code][callback[k].state] : accounts \subseteq States
    BY <2>2, NamesItsSignIn
  <2>4. session' \in [Browsers -> SUBSET States] BY <1>8, <2>2, <2>3 DEF SignIn, FailCallback, SignInTypeOK
  <2> QED BY <1>8, <2>2, <2>4 DEF SignIn, FailCallback, EndCallback, SignInTypeOK
<1>9. ASSUME NEW b \in Browsers, ClearBinding(b) PROVE SignInTypeOK'
  BY <1>9 DEF ClearBinding, SignInTypeOK
<1>10. CASE Tick
  BY <1>10, TimesAssumption DEF Tick, SignInTypeOK
<1>11. CASE UNCHANGED signInVars
  BY <1>11 DEF signInVars, SignInTypeOK
<1> QED
  BY <1>1, <1>2, <1>3, <1>4, <1>5, <1>6, <1>7, <1>8, <1>9, <1>10, <1>11
  DEF SignInNext, StartStep, CallbackStep
-----------------------------------------------------------------------------
(* The steps that matter to a state's life *)

\* What a step does, told from the fields the invariant speaks of.
LEMMA StartKept ==
  ASSUME SignInTypeOK, NEW x \in Starts, NEW y \in Starts, StoreState(x), y # x
  PROVE  /\ start'[y].step = start[y].step /\ (start'[y] = Idle <=> start[y] = Idle)
         /\ start[y] # Idle => /\ start'[y].state = start[y].state
                              /\ start'[y].browser = start[y].browser
                              /\ start'[y].now = start[y].now
                              /\ start'[y].stale = start[y].stale
         /\ start[y].step = "pruned" => start'[y].overtaken
<1>1. CASE start[y].step = "pruned"
  <2>1. start[y] \in Start BY <1>1, NotIdle, StartFields
  <2>2. start'[y] = [start[y] EXCEPT !.overtaken = TRUE] BY <1>1, StoreRows
  <2> QED BY <1>1, <2>1, <2>2, NotIdle DEF Start
<1>2. CASE start[y].step # "pruned"
  BY <1>2, StoreRows
<1> QED BY <1>1, <1>2

\* Steps that neither store, consume nor sign in.
LEMMA LifeKept ==
  ASSUME SignInTypeOK, Life, UNCHANGED <<rows, signedIn, flow>>,
         \A k \in Callbacks, s \in States : Consuming(k, s)' => Consuming(k, s),
         \A x \in Starts : Pending(x)' => Pending(x) /\ start'[x].state = start[x].state
  PROVE  Life'
<1>1. \A s \in States : Unspent(s) => Unspent(s)' BY DEF Unspent
<1>2. \A x \in Starts : Pending(x) => start[x].state \in States
  BY NotIdle, StartFields DEF Pending, Start
<1>3. \A s \in States : (rows[s] = NoRow)' <=> rows[s] = NoRow OBVIOUS
<1>4. /\ \A s \in States : (signedIn[s] <= 1)'
      /\ \A s \in States : (flow[s] = Undrawn => rows[s] = NoRow)'
  BY <1>3 DEF Life
<1>5. \A k \in Callbacks, s \in States :
        (Consuming(k, s) => signedIn[s] = 0 /\ \A l \in Callbacks : Consuming(l, s) => l = k)'
  BY DEF Life
<1>6. \A s \in States : (flow[s] = Undrawn \/ Unconsumed(s) => Unspent(s))'
  BY <1>1 DEF Life, Unconsumed
<1>7. \A x \in Starts : (Pending(x) =>
        /\ Unspent(start[x].state) /\ rows[start[x].state] = NoRow
        /\ \A y \in Starts : Pending(y) /\ start[y].state = start[x].state => y = x)'
  <2> SUFFICES ASSUME NEW x \in Starts, Pending(x)'
               PROVE  /\ Unspent(start[x].state)' /\ rows[start'[x].state] = NoRow
                      /\ \A y \in Starts : Pending(y)' /\ start'[y].state = start'[x].state => y = x
    OBVIOUS
  <2>1. Pending(x) /\ start'[x].state = start[x].state /\ start[x].state \in States
    BY <1>2
  <2>2. /\ Unspent(start[x].state) /\ rows[start[x].state] = NoRow
        /\ \A y \in Starts : Pending(y) /\ start[y].state = start[x].state => y = x
    BY <2>1 DEF Life
  <2>3. Unspent(start[x].state)'
    <3>1. \A q \in States : q = start[x].state => Unspent(q)' BY <1>1, <2>2
    <3> QED BY <2>1, <3>1 DEF Unspent, Consuming
  <2> QED BY <2>1, <2>2, <2>3
<1> QED BY <1>4, <1>5, <1>6, <1>7 DEF Life

LEMMA LifeStep == SignInTypeOK /\ Life /\ Ownership /\ [SignInNext]_signInVars => Life'
<1> SUFFICES ASSUME SignInTypeOK, Life, Ownership, [SignInNext]_signInVars PROVE Life'
  OBVIOUS
<1>0. \A x \in Starts : Pending(x) => start[x] \in Start /\ flow[start[x].state] # Undrawn
  <2>1. \A x \in Starts : Pending(x) => start[x] \in Start BY NotIdle, StartFields DEF Pending
  <2> QED BY <2>1, NotIdle, Drawn DEF Ownership, Start
<1>1. ASSUME NEW x \in Starts, NEW b \in Browsers, NEW s \in States, BeginStart(x, b, s)
      PROVE  Life'
  <2>1. /\ flow[s] = Undrawn /\ rows[s] = NoRow /\ Unspent(s)
        /\ \A y \in Starts : Pending(y) => start[y].state # s
    BY <1>0, <1>1 DEF BeginStart, Life
  <2>2. /\ rows' = rows /\ \A q \in States : Unspent(q)' <=> Unspent(q)
        /\ \A k \in Callbacks, q \in States : Consuming(k, q)' <=> Consuming(k, q)
        /\ signedIn' = signedIn
    BY <1>1 DEF BeginStart, Unspent, Consuming
  <2>3. /\ flow'[s] # Undrawn /\ \A q \in States \ {s} : flow'[q] = flow[q]
    BY <1>1, NoneAssumption DEF BeginStart, SignInTypeOK, Undrawn
  <2>4. /\ start'[x].state = s
        /\ \A y \in Starts \ {x} : start'[y] = start[y]
    BY <1>1 DEF BeginStart, SignInTypeOK
  <2>5. \A y \in Starts \ {x} : Pending(y)' <=> Pending(y) BY <2>4 DEF Pending
  <2>6. \A q \in States : (flow[q] = Undrawn => rows[q] = NoRow)' BY <2>2, <2>3 DEF Life
  <2>7. \A q \in States : (flow[q] = Undrawn \/ Unconsumed(q) => Unspent(q))'
    BY <2>1, <2>2, <2>3 DEF Life, Unconsumed
  <2>8. \A y \in Starts : (Pending(y) =>
          /\ Unspent(start[y].state) /\ rows[start[y].state] = NoRow
          /\ \A z \in Starts : Pending(z) /\ start[z].state = start[y].state => z = y)'
    <3>1. \A y \in Starts \ {x} : Pending(y) => start[y].state \in States BY <1>0 DEF Start
    <3> QED BY <2>1, <2>2, <2>4, <2>5, <3>1 DEF Life
  <2> QED BY <2>2, <2>6, <2>7, <2>8 DEF Life
<1>2. ASSUME NEW x \in Starts, Prune(x) PROVE Life'
  <2>1. start[x] \in Start /\ Pending(x) BY <1>2, NotIdle, StartFields DEF Prune, Pending
  <2>2. \A y \in Starts : Pending(y)' => Pending(y) /\ start'[y].state = start[y].state
    BY <1>2, <2>1, NotIdle DEF Prune, EndStart, Pending, SignInTypeOK, Start
  <2> QED BY <1>2, <2>2, LifeKept DEF Prune, Consuming
<1>3. ASSUME NEW x \in Starts, StoreState(x) PROVE Life'
  <2> DEFINE s == start[x].state
  <2>1. Pending(x) /\ s \in States BY <1>0, <1>3 DEF StoreState, Pending, Start
  <2>2. /\ Unspent(s) /\ rows[s] = NoRow /\ flow[s] # Undrawn
        /\ \A y \in Starts : Pending(y) /\ start[y].state = s => y = x
    BY <1>0, <2>1 DEF Life
  <2>3. /\ \A q \in States : Unspent(q)' <=> Unspent(q)
        /\ \A k \in Callbacks, q \in States : Consuming(k, q)' <=> Consuming(k, q)
        /\ signedIn' = signedIn /\ flow' = flow
    BY <1>3 DEF StoreState, Unspent, Consuming
  <2>4. \A q \in States \ {s} : rows'[q] = rows[q] \/ rows'[q] = NoRow BY <1>3, StoreRows
  <2>5. ~Pending(x)'
    <3>1. start'[x] \in {Idle, [start[x] EXCEPT !.step = "stored"]} /\ start[x] \in Start
      BY <1>3, StoreRows
    <3>2. start'[x].step \in {"none", "stored"} BY <3>1, NotIdle DEF Start
    <3> QED BY <3>2 DEF Pending
  <2>6. \A y \in Starts : Pending(y)' => y # x /\ Pending(y) /\ start'[y].state = start[y].state
    <3> SUFFICES ASSUME NEW y \in Starts, Pending(y)'
                 PROVE  y # x /\ Pending(y) /\ start'[y].state = start[y].state
      OBVIOUS
    <3>1. y # x BY <2>5
    <3>2. start'[y].step = start[y].step BY <1>3, <3>1, StartKept
    <3>3. Pending(y) BY <3>2 DEF Pending
    <3>4. start[y] # Idle BY <3>3, NotIdle DEF Pending
    <3>5. start'[y].state = start[y].state BY <1>3, <3>1, <3>4, StartKept
    <3> QED BY <3>1, <3>3, <3>5
  <2>7. \A q \in States : (flow[q] = Undrawn => rows[q] = NoRow)' BY <2>2, <2>3, <2>4 DEF Life
  <2>8. \A q \in States : (flow[q] = Undrawn \/ Unconsumed(q) => Unspent(q))'
    BY <2>2, <2>3, <2>4 DEF Life, Unconsumed
  <2>9. \A y \in Starts : (Pending(y) =>
          /\ Unspent(start[y].state) /\ rows[start[y].state] = NoRow
          /\ \A z \in Starts : Pending(z) /\ start[z].state = start[y].state => z = y)'
    <3> SUFFICES ASSUME NEW y \in Starts, Pending(y)'
                 PROVE  /\ Unspent(start[y].state)' /\ rows'[start'[y].state] = NoRow
                        /\ \A z \in Starts : Pending(z)' /\ start'[z].state = start'[y].state => z = y
      OBVIOUS
    <3>1. /\ y # x /\ Pending(y) /\ start'[y].state = start[y].state
          /\ start[y].state \in States
      BY <1>0, <2>6 DEF Start
    <3>2. start[y].state # s BY <2>2, <3>1
    <3>3. /\ Unspent(start[y].state) /\ rows[start[y].state] = NoRow
          /\ \A z \in Starts : Pending(z) /\ start[z].state = start[y].state => z = y
      BY <3>1 DEF Life
    <3>4. rows'[start'[y].state] = NoRow BY <2>4, <3>1, <3>2, <3>3
    <3>5. Unspent(start[y].state)'
      <4>1. \A q \in States : q = start[y].state => Unspent(q)' BY <2>3, <3>3
      <4> QED BY <3>1, <4>1 DEF Unspent, Consuming
    <3> QED BY <2>6, <3>1, <3>3, <3>4, <3>5
  <2> QED BY <2>3, <2>7, <2>8, <2>9 DEF Life
<1>4. ASSUME NEW x \in Starts, AnswerStart(x) \/ FailStart(x) PROVE Life'
  <2>1. \A y \in Starts : Pending(y)' => Pending(y) /\ start'[y].state = start[y].state
    BY <1>4, NotIdle DEF AnswerStart, FailStart, EndStart, Pending, SignInTypeOK
  <2> QED BY <1>4, <2>1, LifeKept DEF AnswerStart, FailStart, Consuming
<1>5. ASSUME NEW k \in Callbacks,
             \/ \E b \in Browsers, s, c \in States : BeginCallback(k, b, s, c)
             \/ FindState(k)
             \/ FailCallback(k)
      PROVE  Life'
  <2>1. /\ \A l \in Callbacks \ {k} : callback'[l] = callback[l]
        /\ callback'[k].step # "consumed"
        /\ UNCHANGED <<rows, signedIn, flow, start>> \/ FindState(k)
    <3>1. ASSUME NEW b \in Browsers, NEW s \in States, NEW c \in States, BeginCallback(k, b, s, c)
          PROVE  callback'[k].step = "bound"
      BY <3>1 DEF BeginCallback, SignInTypeOK
    <3>2. ASSUME FindState(k) PROVE callback'[k].step = "found"
      <4>1. callback[k] \in Callback BY <3>2, NotIdle, CallbackFields DEF FindState
      <4> QED BY <3>2, <4>1 DEF FindState, SignInTypeOK, Callback
    <3>3. ASSUME FailCallback(k) PROVE callback'[k].step = "none"
      BY <3>3, NotIdle DEF FailCallback, EndCallback, SignInTypeOK
    <3>4. \A l \in Callbacks \ {k} : callback'[l] = callback[l]
      BY <1>5 DEF BeginCallback, FindState, FailCallback, EndCallback, SignInTypeOK
    <3> QED BY <1>5, <3>1, <3>2, <3>3, <3>4 DEF BeginCallback, FailCallback
  <2>2. UNCHANGED <<rows, signedIn, flow, start>>
    BY <1>5 DEF BeginCallback, FindState, FailCallback
  <2>3. \A l \in Callbacks, q \in States : Consuming(l, q)' => Consuming(l, q)
    BY <2>1 DEF Consuming
  <2> QED BY <2>2, <2>3, LifeKept DEF Pending
<1>6. ASSUME NEW k \in Callbacks, ConsumeState(k) PROVE Life'
  <2> DEFINE s == callback[k].state
  <2>1. callback[k] \in Callback /\ s \in States
    BY <1>6, NotIdle, CallbackFields DEF ConsumeState, Callback
  <2>2. Unconsumed(s) /\ Unspent(s) /\ flow[s] # Undrawn
    BY <1>6, <2>1 DEF ConsumeState, Life, Unconsumed
  <2>3. /\ rows'[s] # NoRow /\ rows'[s].consumed
        /\ \A q \in States \ {s} : rows'[q] = rows[q]
    BY <1>6, <2>1, <2>2 DEF ConsumeState, SignInTypeOK, Unconsumed, Row, NoRow
  <2>4. /\ signedIn' = signedIn /\ flow' = flow /\ start' = start
        /\ \A l \in Callbacks \ {k} : callback'[l] = callback[l]
    BY <1>6 DEF ConsumeState, EndCallback, SignInTypeOK
  <2>5. callback'[k].step = "consumed" => callback'[k].state = s
    <3>1. callback'[k] = [callback[k] EXCEPT !.step = "consumed"] \/ callback'[k] = Idle
      BY <1>6 DEF ConsumeState, EndCallback, SignInTypeOK
    <3> QED BY <2>1, <3>1, NotIdle DEF Callback
  <2>6. \A l \in Callbacks, q \in States :
          Consuming(l, q)' => Consuming(l, q) \/ (l = k /\ q = s)
    BY <2>4, <2>5 DEF Consuming
  <2>7. \A q \in States \ {s} : Unspent(q) => Unspent(q)' BY <2>4, <2>6 DEF Unspent
  <2>8. \A l \in Callbacks : ~Consuming(l, s) BY <2>2 DEF Unspent
  <2>9. \A l \in Callbacks, q \in States :
          (Consuming(l, q) => signedIn[q] = 0 /\ \A j \in Callbacks : Consuming(j, q) => j = l)'
    BY <2>2, <2>4, <2>6, <2>8 DEF Life, Unspent
  <2>10. \A q \in States : (flow[q] = Undrawn => rows[q] = NoRow)' BY <2>2, <2>3, <2>4 DEF Life
  <2>11. \A q \in States : (flow[q] = Undrawn \/ Unconsumed(q) => Unspent(q))'
    BY <2>2, <2>3, <2>4, <2>7 DEF Life, Unconsumed
  <2>12. \A y \in Starts : (Pending(y) =>
           /\ Unspent(start[y].state) /\ rows[start[y].state] = NoRow
           /\ \A z \in Starts : Pending(z) /\ start[z].state = start[y].state => z = y)'
    <3>1. \A y \in Starts : Pending(y) => start[y].state \in States /\ start[y].state # s
      BY <1>0, <2>2 DEF Life, Start, Unconsumed
    <3> QED BY <2>3, <2>4, <2>7, <3>1 DEF Life, Pending
  <2> QED BY <2>4, <2>9, <2>10, <2>11, <2>12 DEF Life
<1>7. ASSUME NEW k \in Callbacks, SignIn(k) PROVE Life'
  <2> DEFINE s == callback[k].state
  <2>1. callback[k] \in Callback /\ s \in States /\ Consuming(k, s)
    BY <1>7, NotIdle, CallbackFields DEF SignIn, Callback, Consuming
  <2>2. signedIn[s] = 0 /\ \A l \in Callbacks : Consuming(l, s) => l = k BY <2>1 DEF Life
  <2>3. /\ signedIn'[s] = 1 /\ \A q \in States \ {s} : signedIn'[q] = signedIn[q]
        /\ rows' = rows /\ flow' = flow /\ start' = start
        /\ callback'[k] = Idle /\ \A l \in Callbacks \ {k} : callback'[l] = callback[l]
    BY <1>7, <2>1, <2>2 DEF SignIn, EndCallback, SignInTypeOK
  <2>4. \A l \in Callbacks, q \in States : Consuming(l, q)' => Consuming(l, q) /\ q # s
    BY <2>2, <2>3, NotIdle DEF Consuming
  <2>5. \A q \in States \ {s} : Unspent(q) => Unspent(q)' BY <2>3, <2>4 DEF Unspent
  <2>6. ~Unspent(s) BY <2>1 DEF Unspent
  <2>7. \A q \in States : (signedIn[q] <= 1)' BY <2>3 DEF Life
  <2>8. \A l \in Callbacks, q \in States :
          (Consuming(l, q) => signedIn[q] = 0 /\ \A j \in Callbacks : Consuming(j, q) => j = l)'
    BY <2>3, <2>4 DEF Life
  <2>9. \A q \in States : (flow[q] = Undrawn \/ Unconsumed(q) => Unspent(q))'
    BY <2>3, <2>5, <2>6 DEF Life, Unconsumed
  <2>10. \A y \in Starts : (Pending(y) =>
           /\ Unspent(start[y].state) /\ rows[start[y].state] = NoRow
           /\ \A z \in Starts : Pending(z) /\ start[z].state = start[y].state => z = y)'
    <3>1. \A y \in Starts : Pending(y) => start[y].state \in States /\ start[y].state # s
      BY <1>0, <2>6 DEF Life, Start
    <3> QED BY <2>3, <2>5, <3>1 DEF Life, Pending
  <2> QED BY <2>3, <2>7, <2>8, <2>9, <2>10 DEF Life
<1>8. ASSUME \/ \E b \in Browsers : ClearBinding(b)
             \/ Tick
             \/ UNCHANGED signInVars
      PROVE  Life'
  <2>1. UNCHANGED <<rows, signedIn, flow, start, callback>>
    BY <1>8 DEF ClearBinding, Tick, signInVars
  <2> QED BY <2>1, LifeKept DEF Consuming, Pending
<1> QED
  BY <1>1, <1>2, <1>3, <1>4, <1>5, <1>6, <1>7, <1>8 DEF SignInNext, StartStep, CallbackStep

-----------------------------------------------------------------------------
(* Ownership and times *)

\* A drawn state keeps its browser and its time.
LEMMA FlowKept ==
  ASSUME SignInTypeOK, [SignInNext]_signInVars, NEW s \in States, flow[s] # Undrawn
  PROVE  flow'[s] = flow[s]
<1>1. ASSUME NEW x \in Starts, NEW b \in Browsers, NEW q \in States, BeginStart(x, b, q)
      PROVE  flow'[s] = flow[s]
  BY <1>1 DEF BeginStart, SignInTypeOK
<1>2. flow' = flow \/ \E x \in Starts, b \in Browsers, q \in States : BeginStart(x, b, q)
  BY DEF SignInNext, StartStep, CallbackStep, Prune, StoreState, AnswerStart, FailStart, BeginCallback,
         FindState, ConsumeState, SignIn, FailCallback, ClearBinding, Tick, signInVars
<1> QED BY <1>1, <1>2

\* Where a start, a cookie or a callback of the next state comes from.
LEMMA Sources ==
  ASSUME SignInTypeOK, Ownership, [SignInNext]_signInVars
  PROVE  /\ \A x \in Starts : start'[x] # Idle =>
              \/ /\ start[x] # Idle /\ start'[x].state = start[x].state
                 /\ start'[x].browser = start[x].browser /\ start'[x].now = start[x].now
              \/ /\ start'[x].state \in States /\ start'[x].browser \in Browsers
                 /\ flow'[start'[x].state] = [browser |-> start'[x].browser, at |-> start'[x].now]
         /\ \A b \in Browsers : binding'[b] # None =>
              \/ binding'[b] = binding[b]
              \/ \E x \in Starts : /\ start[x] # Idle /\ binding'[b] = start[x].state
                                   /\ b = start[x].browser
         /\ \A k \in Callbacks : callback'[k] # Idle =>
              \/ /\ callback[k] # Idle /\ callback'[k].state = callback[k].state
                 /\ callback'[k].browser = callback[k].browser
                 /\ callback'[k].now = callback[k].now
              \/ /\ callback'[k].browser \in Browsers /\ callback'[k].step = "bound"
                 /\ callback'[k].state \in States
                 /\ binding[callback'[k].browser] = callback'[k].state
         /\ \A b \in Browsers :
              \/ session'[b] = session[b]
              \/ \E k \in Callbacks : /\ callback[k] # Idle /\ session'[b] \subseteq {callback[k].state}
                                      /\ b = callback[k].browser
<1>1. \A x \in Starts : start'[x] # Idle =>
        \/ /\ start[x] # Idle /\ start'[x].state = start[x].state
           /\ start'[x].browser = start[x].browser /\ start'[x].now = start[x].now
        \/ /\ start'[x].state \in States /\ start'[x].browser \in Browsers
           /\ flow'[start'[x].state] = [browser |-> start'[x].browser, at |-> start'[x].now]
  <2> SUFFICES ASSUME NEW x \in Starts, start'[x] # Idle
               PROVE  \/ /\ start[x] # Idle /\ start'[x].state = start[x].state
                         /\ start'[x].browser = start[x].browser /\ start'[x].now = start[x].now
                      \/ /\ start'[x].state \in States /\ start'[x].browser \in Browsers
                         /\ flow'[start'[x].state] =
                              [browser |-> start'[x].browser, at |-> start'[x].now]
    OBVIOUS
  <2>1. ASSUME NEW y \in Starts, NEW b \in Browsers, NEW s \in States, BeginStart(y, b, s), x = y
        PROVE  /\ start'[x].state = s /\ start'[x].browser = b
               /\ flow'[s] = [browser |-> b, at |-> start'[x].now]
    BY <2>1 DEF BeginStart, SignInTypeOK
  <2>2. ASSUME Prune(x)
        PROVE  /\ start[x] # Idle /\ start'[x].state = start[x].state
               /\ start'[x].browser = start[x].browser /\ start'[x].now = start[x].now
    <3>1. start[x] \in Start BY <2>2, NotIdle, StartFields DEF Prune
    <3> QED BY <2>2, <3>1, NotIdle DEF Prune, EndStart, SignInTypeOK, Start
  <2>3. ASSUME StoreState(x)
        PROVE  /\ start[x] # Idle /\ start'[x].state = start[x].state
               /\ start'[x].browser = start[x].browser /\ start'[x].now = start[x].now
    <3>1. start[x] \in Start /\ start'[x] = [start[x] EXCEPT !.step = "stored"]
      BY <2>3, StoreRows
    <3> QED BY <3>1, NotIdle DEF Start
  <2>4. ASSUME NEW y \in Starts, StoreState(y), x # y
        PROVE  /\ start[x] # Idle /\ start'[x].state = start[x].state
               /\ start'[x].browser = start[x].browser /\ start'[x].now = start[x].now
    <3>1. start[x] # Idle BY <2>4, StartKept
    <3> QED BY <2>4, <3>1, StartKept
  <2>5. ASSUME NEW y \in Starts, AnswerStart(y) \/ FailStart(y)
        PROVE  start'[x] = start[x]
    BY <2>5 DEF AnswerStart, FailStart, EndStart, SignInTypeOK
  <2>6. ASSUME NEW y \in Starts, Prune(y), x # y PROVE start'[x] = start[x]
    BY <2>6 DEF Prune, EndStart, SignInTypeOK
  <2>7. ASSUME NEW y \in Starts, NEW b \in Browsers, NEW s \in States, BeginStart(y, b, s), x # y
        PROVE  start'[x] = start[x]
    BY <2>7 DEF BeginStart, SignInTypeOK
  <2>8. \/ start' = start
        \/ \E y \in Starts : \/ \E b \in Browsers, s \in States : BeginStart(y, b, s)
                             \/ Prune(y) \/ StoreState(y) \/ AnswerStart(y) \/ FailStart(y)
    BY DEF SignInNext, StartStep, CallbackStep, BeginCallback, FindState, ConsumeState, SignIn,
           FailCallback, ClearBinding, Tick, signInVars
  <2> QED BY <2>1, <2>2, <2>3, <2>4, <2>5, <2>6, <2>7, <2>8
<1>2. \A b \in Browsers : binding'[b] # None =>
        \/ binding'[b] = binding[b]
        \/ \E x \in Starts : /\ start[x] # Idle /\ binding'[b] = start[x].state
                             /\ b = start[x].browser
  <2>1. ASSUME NEW x \in Starts, AnswerStart(x), NEW b \in Browsers, binding'[b] # binding[b]
        PROVE  start[x] # Idle /\ binding'[b] = start[x].state /\ b = start[x].browser
    BY <2>1, NotIdle DEF AnswerStart, SignInTypeOK
  <2>2. ASSUME NEW k \in Callbacks, SignIn(k) \/ FailCallback(k) \/ ConsumeState(k),
               NEW b \in Browsers
        PROVE  binding'[b] \in {binding[b], None}
    BY <2>2 DEF SignIn, FailCallback, ConsumeState, SignInTypeOK
  <2>3. ASSUME NEW c \in Browsers, ClearBinding(c), NEW b \in Browsers
        PROVE  binding'[b] \in {binding[b], None}
    BY <2>3 DEF ClearBinding, SignInTypeOK
  <2>4. \/ binding' = binding
        \/ \E x \in Starts : AnswerStart(x)
        \/ \E k \in Callbacks : SignIn(k) \/ FailCallback(k) \/ ConsumeState(k)
        \/ \E b \in Browsers : ClearBinding(b)
    BY DEF SignInNext, StartStep, CallbackStep, BeginStart, Prune, StoreState, FailStart, BeginCallback,
           FindState, Tick, signInVars
  <2> QED BY <2>1, <2>2, <2>3, <2>4
<1>3. \A k \in Callbacks : callback'[k] # Idle =>
        \/ /\ callback[k] # Idle /\ callback'[k].state = callback[k].state
           /\ callback'[k].browser = callback[k].browser
           /\ callback'[k].now = callback[k].now
        \/ /\ callback'[k].browser \in Browsers /\ callback'[k].step = "bound"
           /\ callback'[k].state \in States
           /\ binding[callback'[k].browser] = callback'[k].state
  <2> SUFFICES ASSUME NEW k \in Callbacks, callback'[k] # Idle
               PROVE  \/ /\ callback[k] # Idle /\ callback'[k].state = callback[k].state
                         /\ callback'[k].browser = callback[k].browser
                         /\ callback'[k].now = callback[k].now
                      \/ /\ callback'[k].browser \in Browsers /\ callback'[k].step = "bound"
                         /\ callback'[k].state \in States
                         /\ binding[callback'[k].browser] = callback'[k].state
    OBVIOUS
  <2>1. ASSUME NEW l \in Callbacks, NEW b \in Browsers, NEW s \in States, NEW c \in States,
               BeginCallback(l, b, s, c), l = k
        PROVE  /\ callback'[k].browser = b /\ callback'[k].state = s /\ binding[b] = s
               /\ callback'[k].step = "bound"
    BY <2>1 DEF BeginCallback, BoundTo, SignInTypeOK
  <2>2. ASSUME FindState(k) \/ ConsumeState(k)
        PROVE  /\ callback[k] # Idle /\ callback'[k].state = callback[k].state
               /\ callback'[k].browser = callback[k].browser
               /\ callback'[k].now = callback[k].now
    <3>1. callback[k] \in Callback BY <2>2, NotIdle, CallbackFields DEF FindState, ConsumeState
    <3> QED BY <2>2, <3>1, NotIdle DEF FindState, ConsumeState, EndCallback, SignInTypeOK, Callback
  <2>3. ASSUME NEW l \in Callbacks, l # k,
               \/ \E b \in Browsers, s, c \in States : BeginCallback(l, b, s, c)
               \/ FindState(l) \/ ConsumeState(l)
        PROVE  callback'[k] = callback[k]
    BY <2>3 DEF BeginCallback, FindState, ConsumeState, EndCallback, SignInTypeOK
  <2>4. ASSUME NEW l \in Callbacks, SignIn(l) \/ FailCallback(l)
        PROVE  callback'[k] = callback[k]
    BY <2>4 DEF SignIn, FailCallback, EndCallback, SignInTypeOK
  <2>5. \/ callback' = callback
        \/ \E l \in Callbacks : \/ \E b \in Browsers, s, c \in States : BeginCallback(l, b, s, c)
                                \/ FindState(l) \/ ConsumeState(l) \/ SignIn(l) \/ FailCallback(l)
    BY DEF SignInNext, StartStep, CallbackStep, BeginStart, Prune, StoreState, AnswerStart, FailStart,
           ClearBinding, Tick, signInVars
  <2> QED BY <2>1, <2>2, <2>3, <2>4, <2>5
<1>4. \A b \in Browsers :
        \/ session'[b] = session[b]
        \/ \E k \in Callbacks : /\ callback[k] # Idle /\ session'[b] \subseteq {callback[k].state}
                                /\ b = callback[k].browser
  <2>1. ASSUME NEW k \in Callbacks, SignIn(k), NEW b \in Browsers, session'[b] # session[b]
        PROVE  /\ callback[k] # Idle /\ session'[b] \subseteq {callback[k].state}
               /\ b = callback[k].browser
    <3>1. callback[k] # Idle /\ callback[k].state \in States /\ callback[k].code \in States
      BY <2>1, NotIdle, CallbackFields DEF SignIn, Callback
    <3>2. PICK accounts \in Identities[callback[k].code][callback[k].state] :
            session' = [session EXCEPT ![callback[k].browser] = accounts]
      BY <2>1 DEF SignIn
    <3>3. accounts \subseteq {callback[k].state} BY <3>1, <3>2, NamesItsSignIn
    <3> QED BY <2>1, <3>1, <3>2, <3>3 DEF SignInTypeOK
  <2>2. session' = session \/ \E k \in Callbacks : SignIn(k)
    BY DEF SignInNext, StartStep, CallbackStep, BeginStart, Prune, StoreState, AnswerStart, FailStart,
           BeginCallback, FindState, ConsumeState, FailCallback, ClearBinding, Tick, signInVars
  <2> QED BY <2>1, <2>2
<1> QED BY <1>1, <1>2, <1>3, <1>4

\* Whatever owns a state has it from its start.
LEMMA Owned ==
  ASSUME SignInTypeOK, Ownership
  PROVE  /\ \A x \in Starts : start[x] # Idle =>
              start[x].state \in States /\ flow[start[x].state] # Undrawn
         /\ \A b \in Browsers : binding[b] # None =>
              binding[b] \in States /\ flow[binding[b]] # Undrawn
         /\ \A k \in Callbacks : callback[k] # Idle =>
              callback[k].state \in States /\ flow[callback[k].state] # Undrawn
         /\ \A b \in Browsers : \A account \in session[b] :
              account \in States /\ flow[account] # Undrawn
<1>1. \A x \in Starts : start[x] # Idle =>
        start[x].state \in States /\ start[x].browser \in Browsers
  BY StartFields DEF Start
<1>2. \A k \in Callbacks : callback[k] # Idle =>
        callback[k].state \in States /\ callback[k].browser \in Browsers
  BY CallbackFields DEF Callback
<1>3. \A b \in Browsers : /\ binding[b] # None => binding[b] \in States
                          /\ session[b] \subseteq States
  BY DEF SignInTypeOK
<1> QED BY <1>1, <1>2, <1>3, Drawn DEF Ownership, SignedInWhereStarted

LEMMA OwnershipStep == SignInTypeOK /\ Ownership /\ [SignInNext]_signInVars => Ownership'
<1> SUFFICES ASSUME SignInTypeOK, Ownership, [SignInNext]_signInVars PROVE Ownership'
  OBVIOUS
<1>1. ASSUME NEW x \in Starts, start'[x] # Idle
      PROVE  flow'[start'[x].state].browser = start'[x].browser
  <2>1. CASE /\ start[x] # Idle /\ start'[x].state = start[x].state
             /\ start'[x].browser = start[x].browser
    BY <2>1, Owned, FlowKept DEF Ownership
  <2>2. CASE flow'[start'[x].state] = [browser |-> start'[x].browser, at |-> start'[x].now]
    BY <2>2
  <2> QED BY <1>1, <2>1, <2>2, Sources
<1>2. ASSUME NEW b \in Browsers, binding'[b] # None
      PROVE  flow'[binding'[b]].browser = b
  BY <1>2, Sources, Owned, FlowKept DEF Ownership
<1>3. ASSUME NEW k \in Callbacks, callback'[k] # Idle
      PROVE  flow'[callback'[k].state].browser = callback'[k].browser
  <2>1. CASE /\ callback[k] # Idle /\ callback'[k].state = callback[k].state
             /\ callback'[k].browser = callback[k].browser
    BY <2>1, Owned, FlowKept DEF Ownership
  <2>2. CASE /\ callback'[k].browser \in Browsers /\ callback'[k].state \in States
             /\ binding[callback'[k].browser] = callback'[k].state
    BY <2>2, NoneAssumption, Owned, FlowKept DEF Ownership
  <2> QED BY <1>3, <2>1, <2>2, Sources
<1>4. ASSUME NEW b \in Browsers, NEW account \in session'[b]
      PROVE  flow'[account].browser = b
  BY <1>4, Sources, Owned, FlowKept DEF Ownership, SignedInWhereStarted
<1> QED BY <1>1, <1>2, <1>3, <1>4 DEF Ownership, SignedInWhereStarted

LEMMA TimesStep == SignInTypeOK /\ Life /\ Ownership /\ Times /\ [SignInNext]_signInVars => Times'
<1> SUFFICES ASSUME SignInTypeOK, Life, Ownership, Times, [SignInNext]_signInVars PROVE Times'
  OBVIOUS
<1>1. ASSUME NEW x \in Starts, start'[x] # Idle
      PROVE  start'[x].now = flow'[start'[x].state].at
  <2>1. CASE /\ start[x] # Idle /\ start'[x].state = start[x].state
             /\ start'[x].now = start[x].now
    BY <2>1, Owned, FlowKept DEF Times
  <2>2. CASE flow'[start'[x].state] = [browser |-> start'[x].browser, at |-> start'[x].now]
    BY <2>2
  <2> QED BY <1>1, <2>1, <2>2, Sources
<1>2. ASSUME NEW s \in States, rows'[s] # NoRow
      PROVE  rows'[s].expiresAt = flow'[s].at + Lifetime
  <2>1. CASE rows'[s] # NoRow /\ rows[s] # NoRow /\ rows'[s].expiresAt = rows[s].expiresAt
    <3>1. flow[s] # Undrawn BY <2>1 DEF Life
    <3> QED BY <2>1, <3>1, FlowKept DEF Times
  <2>2. ASSUME NEW x \in Starts, StoreState(x)
        PROVE  rows'[s].expiresAt = flow'[s].at + Lifetime
    <3>1. CASE s = start[x].state
      <4>1. start[x] # Idle BY <2>2, NotIdle, StoreRows
      <4>2. /\ rows'[s] = [expiresAt |-> start[x].now + Lifetime, consumed |-> FALSE]
            /\ flow' = flow
        BY <2>2, <3>1, StoreRows DEF StoreState
      <4> QED BY <3>1, <4>1, <4>2 DEF Times
    <3>2. CASE s # start[x].state
      <4>1. rows'[s] = rows[s] BY <1>2, <2>2, <3>2, StoreRows
      <4> QED BY <1>2, <2>1, <4>1
    <3> QED BY <3>1, <3>2
  <2>3. ASSUME NEW k \in Callbacks, ConsumeState(k)
        PROVE  rows'[s].expiresAt = flow'[s].at + Lifetime
    <3>1. CASE s = callback[k].state
      <4>1. rows'[s] = [rows[s] EXCEPT !.consumed = TRUE] /\ rows[s] # NoRow
        BY <2>3, <3>1 DEF ConsumeState, Unconsumed, SignInTypeOK
      <4>2. rows[s] \in Row BY <4>1 DEF SignInTypeOK
      <4> QED BY <1>2, <2>1, <4>1, <4>2 DEF Row
    <3>2. CASE s # callback[k].state
      <4>1. rows'[s] = rows[s] BY <2>3, <3>2 DEF ConsumeState, SignInTypeOK
      <4> QED BY <1>2, <2>1, <4>1
    <3> QED BY <3>1, <3>2
  <2>4. \/ rows' = rows
        \/ \E x \in Starts : StoreState(x)
        \/ \E k \in Callbacks : ConsumeState(k)
    BY DEF SignInNext, StartStep, CallbackStep, BeginStart, Prune, AnswerStart, FailStart, BeginCallback,
           FindState, SignIn, FailCallback, ClearBinding, Tick, signInVars
  <2> QED BY <1>2, <2>1, <2>2, <2>3, <2>4
<1>3. ASSUME NEW k \in Callbacks, callback'[k].step = "consumed"
      PROVE  callback'[k].now < flow'[callback'[k].state].at + Lifetime
  <2>1. ASSUME ConsumeState(k)
        PROVE  callback'[k].now < flow'[callback'[k].state].at + Lifetime
    <3>1. callback[k] \in Callback BY <2>1, NotIdle, CallbackFields DEF ConsumeState
    <3>2. callback'[k] = [callback[k] EXCEPT !.step = "consumed"] /\ InTime(k)
      BY <1>3, <2>1, NotIdle DEF ConsumeState, EndCallback, SignInTypeOK
    <3>3. /\ callback'[k].now = callback[k].now /\ callback'[k].state = callback[k].state
          /\ callback[k].state \in States
      BY <3>1, <3>2 DEF Callback
    <3>4. rows[callback[k].state] # NoRow /\ flow' = flow
      BY <2>1 DEF ConsumeState, Unconsumed
    <3>5. rows[callback[k].state].expiresAt = flow[callback[k].state].at + Lifetime
      BY <3>3, <3>4 DEF Times
    <3> QED BY <3>2, <3>3, <3>4, <3>5 DEF InTime
  <2>2. ASSUME callback'[k] = callback[k]
        PROVE  callback'[k].now < flow'[callback'[k].state].at + Lifetime
    <3>1. callback[k] # Idle BY <1>3, <2>2, NotIdle
    <3>2. callback[k].state \in States /\ flow'[callback[k].state] = flow[callback[k].state]
      BY <3>1, Owned, FlowKept
    <3> QED BY <1>3, <2>2, <3>2 DEF Times, ConsumedInTime
  <2>3. ASSUME \/ \E b \in Browsers, s, c \in States : BeginCallback(k, b, s, c)
               \/ FindState(k) \/ SignIn(k) \/ FailCallback(k)
        PROVE  callback'[k].step # "consumed"
    <3>1. ASSUME NEW b \in Browsers, NEW s \in States, NEW c \in States, BeginCallback(k, b, s, c)
          PROVE  callback'[k].step = "bound"
      BY <3>1 DEF BeginCallback, SignInTypeOK
    <3>2. ASSUME FindState(k) PROVE callback'[k].step = "found"
      <4>1. callback[k] \in Callback BY <3>2, NotIdle, CallbackFields DEF FindState
      <4> QED BY <3>2, <4>1 DEF FindState, SignInTypeOK, Callback
    <3>3. ASSUME SignIn(k) \/ FailCallback(k) PROVE callback'[k].step = "none"
      BY <3>3, NotIdle DEF SignIn, FailCallback, EndCallback, SignInTypeOK
    <3> QED BY <2>3, <3>1, <3>2, <3>3
  <2>4. ASSUME NEW l \in Callbacks \ {k}, CallbackStep(l)
        PROVE  callback'[k] = callback[k]
    BY <2>4 DEF CallbackStep, BeginCallback, FindState, ConsumeState, SignIn, FailCallback,
                EndCallback, SignInTypeOK
  <2>5. callback' = callback \/ \E l \in Callbacks : CallbackStep(l)
    BY DEF SignInNext, StartStep, BeginStart, Prune, StoreState, AnswerStart, FailStart, ClearBinding,
           Tick, signInVars
  <2>6. CallbackStep(k) => \/ ConsumeState(k)
                           \/ \E b \in Browsers, s, c \in States : BeginCallback(k, b, s, c)
                           \/ FindState(k) \/ SignIn(k) \/ FailCallback(k)
    BY DEF CallbackStep
  <2> QED BY <1>3, <2>1, <2>2, <2>3, <2>4, <2>5, <2>6
<1> QED BY <1>1, <1>2, <1>3 DEF Times, ConsumedInTime

-----------------------------------------------------------------------------
(* The capacity *)

LEMMA CountedStep == SignInTypeOK /\ Counted /\ [SignInNext]_signInVars => Counted'
<1> SUFFICES ASSUME SignInTypeOK, Counted, [SignInNext]_signInVars PROVE Counted'
  OBVIOUS
<1>0. IsFiniteSet(Stored)
  BY StatesAssumption, FS_Subset DEF Stored
\* Steps that leave the stored states and what the starts have counted.
<1>1. ASSUME Stored' = Stored,
             \A x \in Starts : start'[x].step = "pruned" /\ ~start'[x].overtaken =>
               \/ /\ start[x].step = "pruned" /\ ~start[x].overtaken
                  /\ start'[x].stale = start[x].stale
               \/ Cardinality(Stored \ start'[x].stale) < Capacity
      PROVE  Counted'
  BY <1>1 DEF Counted, WithinCapacity
<1>2. ASSUME NEW x \in Starts, Prune(x) PROVE Counted'
  <2>1. start[x] \in Start BY <1>2, NotIdle, StartFields DEF Prune
  <2>2. Stored' = Stored BY <1>2 DEF Prune, Stored
  <2>3. \A y \in Starts \ {x} : start'[y] = start[y] BY <1>2 DEF Prune, EndStart, SignInTypeOK
  <2>4. Cardinality(Stored \ Stale(start[x].now)) \in Nat
    BY <1>0, FS_Difference, FS_CardinalityType
  <2>5. \/ start'[x] = Idle
        \/ /\ start'[x].stale = Stale(start[x].now)
           /\ Cardinality(Stored \ Stale(start[x].now)) < Capacity
    <3>1. CASE Cardinality(Stored \ Stale(start[x].now)) >= Capacity
      BY <1>2, <3>1 DEF Prune, EndStart, SignInTypeOK
    <3>2. CASE ~(Cardinality(Stored \ Stale(start[x].now)) >= Capacity)
      <4>1. start'[x] = [start[x] EXCEPT !.step = "pruned", !.stale = Stale(start[x].now)]
        BY <1>2, <3>2 DEF Prune, SignInTypeOK
      <4>2. start'[x].stale = Stale(start[x].now) BY <2>1, <4>1 DEF Start
      <4> QED BY <2>4, <3>2, <4>2, TimesAssumption
    <3> QED BY <3>1, <3>2
  <2> QED BY <1>1, <2>2, <2>3, <2>5, NotIdle
<1>3. ASSUME NEW x \in Starts, StoreState(x) PROVE Counted'
  <2>1. /\ start[x].step = "pruned" /\ ~start[x].overtaken
        /\ Stored' = (Stored \ start[x].stale) \cup {start[x].state}
    BY <1>3, StoreRows DEF StoreState, Admitted
  <2>2. Cardinality(Stored \ start[x].stale) < Capacity BY <2>1 DEF Counted
  <2>3. IsFiniteSet(Stored \ start[x].stale) BY <1>0, FS_Difference
  <2>4. Cardinality(Stored') <= Cardinality(Stored \ start[x].stale) + 1
    <3> DEFINE kept == Stored \ start[x].stale
    <3>1. Cardinality(kept \cup {start[x].state}) =
            IF start[x].state \in kept THEN Cardinality(kept) ELSE Cardinality(kept) + 1
      BY <2>3, FS_AddElement
    <3>2. Cardinality(kept) \in Nat BY <2>3, FS_CardinalityType
    <3> HIDE DEF kept
    <3>3. Cardinality(kept \cup {start[x].state}) <= Cardinality(kept) + 1 BY <3>1, <3>2
    <3> QED BY <2>1, <3>3 DEF kept
  <2>5. Cardinality(Stored') <= Capacity
    <3>1. /\ Cardinality(Stored \ start[x].stale) \in Nat /\ Cardinality(Stored') \in Nat
          /\ IsFiniteSet(Stored')
      BY <2>1, <2>3, FS_AddElement, FS_CardinalityType
    <3> QED BY <2>2, <2>4, <3>1, TimesAssumption
  <2>6. ASSUME NEW y \in Starts, start'[y].step = "pruned" PROVE start'[y].overtaken
    <3>1. y # x
      <4>1. start'[x] \in {Idle, [start[x] EXCEPT !.step = "stored"]} /\ start[x] \in Start
        BY <1>3, StoreRows
      <4>2. start'[x].step \in {"none", "stored"} BY <4>1, NotIdle DEF Start
      <4> QED BY <2>6, <4>2
    <3>2. start'[y].step = start[y].step BY <1>3, <3>1, StartKept
    <3> QED BY <1>3, <2>6, <3>1, <3>2, StartKept
  <2> QED BY <2>5, <2>6 DEF Counted, WithinCapacity
<1>4. ASSUME NEW k \in Callbacks, ConsumeState(k) PROVE Counted'
  <2>1. \A s \in States : rows'[s] # NoRow <=> rows[s] # NoRow
    <3>1. ASSUME NEW s \in States, s = callback[k].state
          PROVE  rows[s] # NoRow /\ rows'[s] # NoRow
      <4>1. rows'[s] = [rows[s] EXCEPT !.consumed = TRUE] /\ rows[s] # NoRow
        BY <1>4, <3>1 DEF ConsumeState, Unconsumed, SignInTypeOK
      <4>2. rows[s] \in Row BY <4>1 DEF SignInTypeOK
      <4>3. rows'[s].consumed = TRUE BY <4>1, <4>2 DEF Row
      <4> QED BY <4>1, <4>3 DEF NoRow
    <3>2. \A s \in States : s # callback[k].state => rows'[s] = rows[s]
      BY <1>4 DEF ConsumeState, SignInTypeOK
    <3> QED BY <3>1, <3>2
  <2>2. Stored' = Stored BY <2>1 DEF Stored
  <2>3. start' = start BY <1>4 DEF ConsumeState
  <2> QED BY <1>1, <2>2, <2>3
<1>5. ASSUME NEW x \in Starts,
             \/ \E b \in Browsers, s \in States : BeginStart(x, b, s)
             \/ AnswerStart(x) \/ FailStart(x)
      PROVE  Counted'
  <2>1. Stored' = Stored BY <1>5 DEF BeginStart, AnswerStart, FailStart, Stored
  <2>2. start'[x].step # "pruned"
    BY <1>5, NotIdle DEF BeginStart, AnswerStart, FailStart, EndStart, SignInTypeOK
  <2>3. \A y \in Starts \ {x} : start'[y] = start[y]
    BY <1>5 DEF BeginStart, AnswerStart, FailStart, EndStart, SignInTypeOK
  <2> QED BY <1>1, <2>1, <2>2, <2>3
<1>6. ASSUME UNCHANGED <<rows, start>> PROVE Counted'
  BY <1>1, <1>6 DEF Stored
<1>7. \/ UNCHANGED <<rows, start>>
      \/ \E x \in Starts : \/ \E b \in Browsers, s \in States : BeginStart(x, b, s)
                           \/ Prune(x) \/ StoreState(x) \/ AnswerStart(x) \/ FailStart(x)
      \/ \E k \in Callbacks : ConsumeState(k)
  BY DEF SignInNext, StartStep, CallbackStep, BeginCallback, FindState, SignIn, FailCallback,
         ClearBinding, Tick, signInVars
<1> QED BY <1>2, <1>3, <1>4, <1>5, <1>6, <1>7

-----------------------------------------------------------------------------
LEMMA InitInv == SignInInit => Inv
<1> SUFFICES ASSUME SignInInit PROVE Inv
  OBVIOUS
<1>1. SignInTypeOK BY TimesAssumption DEF SignInInit, SignInTypeOK
<1>2. Life BY NotIdle DEF SignInInit, Life, Pending, Consuming, Unspent
<1>3. Ownership BY DEF SignInInit, Ownership, SignedInWhereStarted
<1>4. Times BY NotIdle DEF SignInInit, Times, ConsumedInTime
<1>5. Counted
  <2>1. Stored = {} BY DEF SignInInit, Stored
  <2>2. Cardinality(Stored) <= Capacity BY <2>1, FS_EmptySet, TimesAssumption
  <2>3. \A x \in Starts : start[x].step # "pruned" BY NotIdle DEF SignInInit
  <2> QED BY <2>2, <2>3 DEF Counted, WithinCapacity
<1> QED BY <1>1, <1>2, <1>3, <1>4, <1>5 DEF Inv

LEMMA InvCorrect == SignInSpec => []Inv
<1>1. Inv /\ [SignInNext]_signInVars => Inv'
  BY TypeStep, LifeStep, OwnershipStep, TimesStep, CountedStep DEF Inv
<1> QED BY <1>1, InitInv, PTL DEF SignInSpec

\* Every table, cookie and request has its type.
THEOREM SignInTypes == SignInSpec => []SignInTypeOK
<1>1. Inv => SignInTypeOK BY DEF Inv
<1> QED BY <1>1, InvCorrect, PTL

\* consumeState and storeState together: a state opens at most one session,
\* though spent rows are deleted under the callbacks' eyes.
THEOREM StatesSpentOnce == SignInSpec => []StateSpentOnce
<1>1. Inv => StateSpentOnce BY DEF Inv, Life, StateSpentOnce
<1> QED BY <1>1, InvCorrect, PTL

\* The binding cookie and the identity: the session a browser gets names only the
\* account of a sign-in that browser started.
THEOREM SessionsStayInBrowser == SignInSpec => []SignedInWhereStarted
<1>1. Inv => SignedInWhereStarted BY DEF Inv, Ownership
<1> QED BY <1>1, InvCorrect, PTL

\* assertStoredStateUsable: no state is consumed after its lifetime.
THEOREM StatesConsumedInTime == SignInSpec => []ConsumedInTime
<1>1. Inv => ConsumedInTime BY DEF Inv, Times
<1> QED BY <1>1, InvCorrect, PTL

\* storeState: the table stays within its capacity, whatever the number of starts.
THEOREM CapacityKept == SignInSpec => []WithinCapacity
<1>1. Inv => WithinCapacity BY DEF Inv, Counted
<1> QED BY <1>1, InvCorrect, PTL

(***************************************************************************)
(* WorkspaceAdmin, for any workspaces, people and session ids: its type     *)
(* invariant and the safety properties its runs check.                      *)
(***************************************************************************)
-----------------------------------------------------------------------------
(* Type correctness *)

\* The tables of a migrated database have their types.
LEMMA InitTypeOK == Init => TypeOK
  BY OperatorAssumption
  DEF Init, TypeOK, NoMembership, NoApproval, NoSession, Session, Replayed

\* Revoking a user's sessions leaves rows of the same type.
LEMMA RevokedTyped ==
  ASSUME sessions \in [SessionIds -> Session], NEW p \in People
  PROVE  RevokedForUser(p) \in [SessionIds -> Session]
<1>1. ASSUME NEW s \in SessionIds
      PROVE  [sessions[s] EXCEPT !.revokedAt = 1] \in Session
  BY DEF Session
<1> QED BY <1>1 DEF RevokedForUser

\* Every mutation, sign-in, logout and operator step keeps every table in its type.
LEMMA NextTypeOK == TypeOK /\ [Next]_vars => TypeOK'
<1> SUFFICES ASSUME TypeOK, [Next]_vars PROVE TypeOK'
  OBVIOUS
<1> USE DEF TypeOK, SetMembership, AuditMembership, Membership, NoMembership, Replayed,
            Approval, NoApproval, ActiveIn, Session
<1>1. ASSUME NEW s \in SessionIds, NEW w \in Workspaces, NEW p \in People, AdminStep(s, w, p)
      PROVE  TypeOK'
  <2>1. member[w][p] \in Membership \cup {NoMembership} /\ trail[w][p] \in Replayed
    OBVIOUS
  <2>2. RevokedForUser(p) \in [SessionIds -> Session]
    BY RevokedTyped
  <2>3. MayTarget(s, w, p) => member[w][p] \in Membership
    BY <2>1 DEF MayTarget, Members
  <2>4. CASE \E r \in Roles : ChangeWorkspaceMemberRole(s, w, p, r)
    BY <2>1, <2>3, <2>4 DEF ChangeWorkspaceMemberRole
  <2>5. CASE DisableWorkspaceMembership(s, w, p)
    BY <2>1, <2>2, <2>3, <2>5 DEF DisableWorkspaceMembership, RevokeUnlessAffiliated
  <2>6. CASE ReactivateWorkspaceMembership(s, w, p)
    BY <2>1, <2>3, <2>6 DEF ReactivateWorkspaceMembership
  <2>7. CASE RemoveWorkspaceMembership(s, w, p)
    BY <2>2, <2>7 DEF RemoveWorkspaceMembership, RevokeUnlessAffiliated
  <2>8. CASE \E r \in Roles : AddLinkedMember(s, w, p, r)
    BY <2>8 DEF AddLinkedMember, MakeMember
  <2>9. CASE \E r \in Roles : AddPendingMember(s, w, p, r)
    BY <2>9 DEF AddPendingMember, SetApproval
  <2>10. CASE RevokeWorkspaceMembershipApproval(s, w, p)
    BY <2>10 DEF RevokeWorkspaceMembershipApproval, SetApproval
  <2> QED
    BY <1>1, <2>4, <2>5, <2>6, <2>7, <2>8, <2>9, <2>10 DEF AdminStep
<1>2. ASSUME NEW p \in People, SignInStep(p) PROVE TypeOK'
  <2>1. CASE CheckKnownIdentity(p)
    BY <2>1 DEF CheckKnownIdentity, KnownIdentity
  <2>2. CASE AbandonSignIn(p)
    BY <2>2 DEF AbandonSignIn
  <2>3. CASE \E s \in SessionIds : CreateSession(s, p)
    BY <2>3 DEF CreateSession, OpenSession
  <2>4. ASSUME NEW s \in SessionIds, AcceptPendingApprovals(s, p) PROVE TypeOK'
    <3>1. \A w \in Waiting(p) : ActiveIn(pending[w][p].role) \in Membership
      BY DEF Waiting
    <3>2. \A w \in Waiting(p) : ActiveIn(pending[w][p].role) \in Replayed
      BY DEF Waiting
    <3>3. member' \in [Workspaces -> [People -> Membership \cup {NoMembership}]]
      BY <2>4, <3>1 DEF AcceptPendingApprovals, MayLink, Link, AcceptWaiting
    <3>4. trail' \in [Workspaces -> [People -> Replayed]]
      BY <2>4, <3>2 DEF AcceptPendingApprovals, MayLink, Link, AcceptWaiting
    <3>5. pending' \in [Workspaces -> [People -> Approval \cup {NoApproval}]]
      BY <2>4 DEF AcceptPendingApprovals, MayLink, Link, AcceptWaiting
    <3> QED
      BY <2>4, <3>3, <3>4, <3>5 DEF AcceptPendingApprovals, MayLink, Link, AcceptWaiting,
           OpenSession
  <2> QED
    BY <1>2, <2>1, <2>2, <2>3, <2>4 DEF SignInStep
<1>3. ASSUME NEW s \in SessionIds, SessionStep(s) PROVE TypeOK'
  <2>1. sessions[s] \in Session
    OBVIOUS
  <2>2. CASE FindSessionToRevoke(s)
    BY <2>2 DEF FindSessionToRevoke
  <2>3. CASE RevokeFoundSession(s)
    <3>1. sessions[s].revokedAt + 1 \in Nat
      BY <2>1
    <3>2. sessions' \in [SessionIds -> Session]
      BY <2>1, <2>3, <3>1 DEF RevokeFoundSession
    <3> QED
      BY <2>3, <3>2 DEF RevokeFoundSession
  <2>4. CASE SessionExpires(s)
    <3>1. [sessions[s] EXCEPT !.expired = TRUE] \in Session
      BY <2>1
    <3>2. sessions' \in [SessionIds -> Session]
      BY <2>4, <3>1 DEF SessionExpires
    <3> QED
      BY <2>4, <3>2 DEF SessionExpires
  <2> QED
    BY <1>3, <2>2, <2>3, <2>4 DEF SessionStep
<1>4. CASE OperatorStep
  <2>1. CASE \E w \in Workspaces, p \in People : EnsureFirstAdminBootstrapApproval(w, p)
    BY <2>1, RolesAssumption DEF EnsureFirstAdminBootstrapApproval, EnsureFirstAdminApproval,
       SetApproval, Bootstraps
  <2>2. CASE \E w \in Workspaces, p \in People, r \in Roles :
        EnsureInternalWorkspaceAppAccess(w, p, r)
    BY <2>2 DEF EnsureInternalWorkspaceAppAccess, EnsureMembership
  <2>3. CASE \E w \in MaySuspend : SetWorkspaceStatus(w)
    BY <2>3, OperatorAssumption DEF SetWorkspaceStatus
  <2>4. CASE \E p \in MayDeactivate : DeactivateUser(p)
    BY <2>4, OperatorAssumption DEF DeactivateUser
  <2> QED
    BY <1>4, <2>1, <2>2, <2>3, <2>4 DEF OperatorStep
<1>5. CASE UNCHANGED vars
  BY <1>5 DEF vars
<1> QED
  BY <1>1, <1>2, <1>3, <1>4, <1>5 DEF Next

\* Every table holds only rows of its type, always.
THEOREM TypeCorrect == Spec => []TypeOK
  BY InitTypeOK, NextTypeOK, PTL DEF Spec

-----------------------------------------------------------------------------
(* Who can change a membership *)

\* A step that changes a membership row either inserts it, or is made by another
\* active admin of that workspace, whose own membership it leaves alone.
LEMMA ChangedByAnotherAdmin ==
  ASSUME TypeOK, [Next]_vars, NEW w \in Workspaces, NEW p \in People,
         member'[w][p] # member[w][p]
  PROVE  \/ member[w][p] = NoMembership
         \/ \E q \in People \ {p} :
              member[w][q] = ActiveIn("admin") /\ member'[w][q] = member[w][q]
<1>1. ASSUME NEW s \in SessionIds, NEW v \in Workspaces, NEW x \in People, MayTarget(s, v, x),
             NEW m, SetMembership(v, x, m)
      PROVE  \/ member[w][p] = NoMembership
             \/ \E q \in People \ {p} :
                  member[w][q] = ActiveIn("admin") /\ member'[w][q] = member[w][q]
  <2>1. v = w /\ x = p
    BY <1>1 DEF TypeOK, SetMembership
  <2> DEFINE q == sessions[s].user
  <2>2. q \in People \ {p}
    BY <1>1, <2>1 DEF MayTarget, AdminContext, Usable, Unrevoked
  <2>3. member[w][q] \in Membership \cup {NoMembership} /\ ActiveAdmin(member[w][q])
    BY <1>1, <2>1, <2>2 DEF TypeOK, MayTarget, AdminContext
  <2>4. member[w][q] = ActiveIn("admin")
    BY <2>3 DEF Membership, NoMembership, ActiveIn, ActiveAdmin
  <2>5. member'[w][q] = member[w][q]
    BY <1>1, <2>1, <2>2 DEF TypeOK, SetMembership
  <2> QED
    BY <2>2, <2>4, <2>5
<1>2. ASSUME NEW v \in Workspaces, NEW x \in People, x \notin Members(v), NEW m,
             SetMembership(v, x, m)
      PROVE  member[w][p] = NoMembership
  BY <1>2 DEF TypeOK, SetMembership, Members
<1>3. ASSUME NEW s \in SessionIds, NEW v \in Workspaces, NEW x \in People, AdminStep(s, v, x)
      PROVE  \/ member[w][p] = NoMembership
             \/ \E q \in People \ {p} :
                  member[w][q] = ActiveIn("admin") /\ member'[w][q] = member[w][q]
  <2>1. CASE \E r \in Roles : AddLinkedMember(s, v, x, r)
    BY <1>2, <2>1 DEF AddLinkedMember, MakeMember
  <2>2. CASE \/ \E r \in Roles : AddPendingMember(s, v, x, r)
             \/ RevokeWorkspaceMembershipApproval(s, v, x)
    BY <2>2 DEF AddPendingMember, SetApproval, RevokeWorkspaceMembershipApproval, SetApproval
  <2>3. CASE \/ \E r \in Roles : ChangeWorkspaceMemberRole(s, v, x, r)
             \/ DisableWorkspaceMembership(s, v, x)
             \/ ReactivateWorkspaceMembership(s, v, x)
             \/ RemoveWorkspaceMembership(s, v, x)
    BY <1>1, <2>3 DEF ChangeWorkspaceMemberRole, DisableWorkspaceMembership,
                      ReactivateWorkspaceMembership, RemoveWorkspaceMembership
  <2> QED
    BY <1>3, <2>1, <2>2, <2>3 DEF AdminStep
<1>4. ASSUME NEW x \in People, SignInStep(x) PROVE member[w][p] = NoMembership
  <2>1. CASE \E s \in SessionIds : AcceptPendingApprovals(s, x)
    BY <2>1 DEF AcceptPendingApprovals, MayLink, Link, AcceptWaiting, Acceptable, Bootstraps,
       Members, TypeOK
  <2> QED
    BY <1>4, <2>1 DEF SignInStep, CheckKnownIdentity, KnownIdentity, AbandonSignIn, CreateSession
<1>5. ASSUME NEW s \in SessionIds, SessionStep(s) PROVE FALSE
  BY <1>5 DEF SessionStep, FindSessionToRevoke, RevokeFoundSession, SessionExpires
<1>6. ASSUME OperatorStep PROVE member[w][p] = NoMembership
  <2>1. CASE \E v \in Workspaces, x \in People, r \in Roles :
        EnsureInternalWorkspaceAppAccess(v, x, r)
    BY <1>2, <2>1 DEF EnsureInternalWorkspaceAppAccess, EnsureMembership
  <2> QED
    BY <1>6, <2>1 DEF OperatorStep, EnsureFirstAdminBootstrapApproval, EnsureFirstAdminApproval,
       SetApproval, Bootstraps,
         SetWorkspaceStatus, DeactivateUser
<1>7. ~UNCHANGED vars
  BY DEF vars
<1> QED
  BY <1>3, <1>4, <1>5, <1>6, <1>7 DEF Next

\* A step leaves a workspace that has an active admin with one.
LEMMA StepRetainsAdmin ==
  ASSUME TypeOK, [Next]_vars, NEW w \in Workspaces,
         \E p \in People : member[w][p] = ActiveIn("admin")
  PROVE  \E p \in People : member'[w][p] = ActiveIn("admin")
<1>1. PICK p \in People : member[w][p] = ActiveIn("admin")
  OBVIOUS
<1>2. member[w][p] # NoMembership
  BY <1>1 DEF ActiveIn, NoMembership
<1> QED
  BY <1>1, <1>2, ChangedByAnotherAdmin

\* The admins of a workspace cannot, in any order of mutations, leave it
\* without an active admin.
THEOREM AdminsRetained == Spec => AdminRetained
<1>1. TypeOK /\ [Next]_vars
        => [\A w \in Workspaces :
              (\E p \in People : member[w][p] = ActiveIn("admin"))
                => (\E p \in People : member'[w][p] = ActiveIn("admin"))]_vars
  BY StepRetainsAdmin
<1> QED
  BY <1>1, TypeCorrect, PTL DEF Spec, AdminRetained

-----------------------------------------------------------------------------
(* No orphaned workspace *)

\* Strengthening of NeverOrphaned: an approval an admin asked for is also a
\* sign of an active admin, and only an admin role is ever bootstrapped.
Administered ==
  /\ \A w \in Workspaces :
       /\ \A p \in People : <<w, p>> \notin seeded
       /\ \E p \in People : member[w][p] # NoMembership \/ pending[w][p].by = "admin"
       => \E p \in People : member[w][p] = ActiveIn("admin")
  /\ \A w \in Workspaces, p \in People : pending[w][p].by = "seed" => pending[w][p].role = "admin"

\* A step either adds no pending approval to w, or an admin of w asks for it,
\* or the seed command adds a first-admin bootstrap.
LEMMA PendingGrows ==
  ASSUME TypeOK, [Next]_vars, NEW w \in Workspaces, NEW p \in People,
         pending'[w][p] # pending[w][p]
  PROVE  \/ pending'[w][p] = NoApproval
         \/ /\ pending'[w][p].by = "admin"
            /\ user[p] # "linked" /\ user' = user
            /\ \E q \in People : member[w][q] = ActiveIn("admin")
         \/ /\ EnsureFirstAdminBootstrapApproval(w, p)
            /\ pending'[w][p] = [role |-> "admin", by |-> "seed"]
            /\ Members(w) = {} /\ member' = member /\ seeded' = seeded
            /\ \A q \in People : ~Bootstrap(pending[w][q])
<1>1. ASSUME NEW s \in SessionIds, NEW v \in Workspaces, NEW x \in People, NEW r \in Roles,
             AddPendingMember(s, v, x, r)
      PROVE  /\ pending'[w][p].by = "admin"
             /\ user[p] # "linked" /\ user' = user
             /\ \E q \in People : member[w][q] = ActiveIn("admin")
  <2>1. v = w /\ x = p /\ pending'[w][p] = [role |-> r, by |-> "admin"]
    BY <1>1 DEF TypeOK, AddPendingMember, SetApproval
  <2>2. member[w][sessions[s].user] = ActiveIn("admin") /\ sessions[s].user \in People
    BY <1>1, <2>1 DEF AddPendingMember, SetApproval, AdminContext, Usable, Unrevoked, TypeOK,
       ActiveAdmin,
                      ActiveIn, Membership, NoMembership
  <2> QED
    BY <1>1, <2>1, <2>2 DEF AddPendingMember, SetApproval
<1>2. ASSUME NEW s \in SessionIds, NEW v \in Workspaces, NEW x \in People,
             RevokeWorkspaceMembershipApproval(s, v, x)
      PROVE  pending'[w][p] = NoApproval
  BY <1>2 DEF TypeOK, RevokeWorkspaceMembershipApproval, SetApproval
<1>3. ASSUME NEW s \in SessionIds, NEW x \in People, AcceptPendingApprovals(s, x)
      PROVE  pending'[w][p] = NoApproval
  BY <1>3 DEF TypeOK, AcceptPendingApprovals, MayLink, Link, AcceptWaiting
<1>4. ASSUME NEW v \in Workspaces, NEW x \in People, EnsureFirstAdminBootstrapApproval(v, x)
      PROVE  /\ EnsureFirstAdminBootstrapApproval(w, p)
             /\ pending'[w][p] = [role |-> "admin", by |-> "seed"]
             /\ Members(w) = {} /\ member' = member /\ seeded' = seeded
             /\ \A q \in People : ~Bootstrap(pending[w][q])
  <2>1. v = w /\ x = p
    BY <1>4 DEF TypeOK, EnsureFirstAdminBootstrapApproval, EnsureFirstAdminApproval, SetApproval,
       Bootstraps
  <2> QED
    BY <1>4, <2>1 DEF TypeOK, EnsureFirstAdminBootstrapApproval, EnsureFirstAdminApproval,
       SetApproval, Bootstraps
<1>5. ASSUME pending' = pending PROVE FALSE
  BY <1>5
<1>6. \/ \E s \in SessionIds, v \in Workspaces, x \in People, r \in Roles :
           AddPendingMember(s, v, x, r)
      \/ \E s \in SessionIds, v \in Workspaces, x \in People :
           RevokeWorkspaceMembershipApproval(s, v, x)
      \/ \E s \in SessionIds, x \in People : AcceptPendingApprovals(s, x)
      \/ \E v \in Workspaces, x \in People : EnsureFirstAdminBootstrapApproval(v, x)
  <2>1. ASSUME NEW s \in SessionIds, NEW v \in Workspaces, NEW x \in People, AdminStep(s, v, x)
        PROVE  \/ \E r \in Roles : AddPendingMember(s, v, x, r)
               \/ RevokeWorkspaceMembershipApproval(s, v, x)
    BY <1>5, <2>1 DEF AdminStep, ChangeWorkspaceMemberRole, DisableWorkspaceMembership,
         ReactivateWorkspaceMembership, RemoveWorkspaceMembership, AddLinkedMember, MakeMember
  <2>2. ASSUME NEW x \in People, SignInStep(x)
        PROVE  \E s \in SessionIds : AcceptPendingApprovals(s, x)
    BY <1>5, <2>2 DEF SignInStep, CheckKnownIdentity, KnownIdentity, AbandonSignIn, CreateSession
  <2>3. ~\E s \in SessionIds : SessionStep(s)
    BY <1>5 DEF SessionStep, FindSessionToRevoke, RevokeFoundSession, SessionExpires
  <2>4. CASE OperatorStep
    BY <1>5, <2>4 DEF OperatorStep, EnsureInternalWorkspaceAppAccess, EnsureMembership,
         SetWorkspaceStatus, DeactivateUser
  <2>5. ~UNCHANGED vars
    BY <1>5 DEF vars
  <2> QED
    BY <2>1, <2>2, <2>3, <2>4, <2>5 DEF Next
<1> QED
  BY <1>1, <1>2, <1>3, <1>4, <1>6

\* What the seed command has inserted stays recorded.
LEMMA SeededGrows == [Next]_vars => seeded \subseteq seeded'
<1> SUFFICES ASSUME [Next]_vars PROVE seeded \subseteq seeded'
  OBVIOUS
<1>1. ASSUME NEW s \in SessionIds, NEW w \in Workspaces, NEW p \in People, AdminStep(s, w, p)
      PROVE  seeded' = seeded
  BY <1>1 DEF AdminStep, ChangeWorkspaceMemberRole, DisableWorkspaceMembership,
       ReactivateWorkspaceMembership, RemoveWorkspaceMembership, AddLinkedMember, MakeMember,
       AddPendingMember, SetApproval, RevokeWorkspaceMembershipApproval, SetApproval
<1>2. ASSUME NEW p \in People, SignInStep(p) PROVE seeded' = seeded
  BY <1>2 DEF SignInStep, CheckKnownIdentity, KnownIdentity, AbandonSignIn, CreateSession,
       AcceptPendingApprovals, MayLink, Link, AcceptWaiting
<1>3. ASSUME NEW s \in SessionIds, SessionStep(s) PROVE seeded' = seeded
  BY <1>3 DEF SessionStep, FindSessionToRevoke, RevokeFoundSession, SessionExpires
<1>4. CASE OperatorStep
  BY <1>4 DEF OperatorStep, EnsureFirstAdminBootstrapApproval, EnsureFirstAdminApproval,
     SetApproval, Bootstraps,
       EnsureInternalWorkspaceAppAccess, EnsureMembership,
       SetWorkspaceStatus, DeactivateUser
<1>5. CASE UNCHANGED vars
  BY <1>5 DEF vars
<1> QED
  BY <1>1, <1>2, <1>3, <1>4, <1>5 DEF Next

\* The strengthened invariant is inductive.
LEMMA NextAdministered == TypeOK /\ Administered /\ [Next]_vars => Administered'
<1> SUFFICES ASSUME TypeOK, Administered, [Next]_vars PROVE Administered'
  OBVIOUS
<1>1. seeded \subseteq seeded'
  BY SeededGrows
<1>2. ASSUME NEW w \in Workspaces, NEW p \in People, \A x \in People : <<w, x>> \notin seeded',
             member'[w][p] # NoMembership
      PROVE  \E x \in People : member'[w][x] = ActiveIn("admin")
  <2>1. CASE \E x \in People : member[w][x] = ActiveIn("admin")
    BY <2>1, StepRetainsAdmin
  <2>2. CASE ~\E x \in People : member[w][x] = ActiveIn("admin")
    <3>1. \A x \in People : member[w][x] = NoMembership /\ pending[w][x].by # "admin"
      BY <1>1, <1>2, <2>2 DEF Administered
    <3>2. \E s \in SessionIds, x \in People : AcceptPendingApprovals(s, x)
      <4>1. ASSUME NEW s \in SessionIds, NEW v \in Workspaces, NEW x \in People, AdminContext(s, v)
            PROVE  v # w
        BY <2>2, <4>1 DEF AdminContext, Usable, Unrevoked, TypeOK, ActiveAdmin, ActiveIn,
                          Membership, NoMembership
      <4>2. ASSUME NEW s \in SessionIds, NEW v \in Workspaces, NEW x \in People, AdminStep(s, v, x)
            PROVE  FALSE
        <5>1. AdminContext(s, v)
          BY <4>2 DEF AdminStep, MayTarget, ChangeWorkspaceMemberRole, DisableWorkspaceMembership,
               ReactivateWorkspaceMembership, RemoveWorkspaceMembership, AddLinkedMember,
                    MakeMember,
               AddPendingMember, SetApproval, RevokeWorkspaceMembershipApproval, SetApproval
        <5>2. v # w
          BY <4>1, <5>1
        <5>3. member'[w] = member[w]
          BY <4>2, <5>2 DEF TypeOK, AdminStep, SetMembership, ChangeWorkspaceMemberRole,
               DisableWorkspaceMembership, ReactivateWorkspaceMembership,
               RemoveWorkspaceMembership, AddLinkedMember, MakeMember, AddPendingMember,
               SetApproval,
               RevokeWorkspaceMembershipApproval, SetApproval
        <5> QED
          BY <1>2, <3>1, <5>3
      <4>3. ASSUME NEW x \in People, SignInStep(x)
            PROVE  \E s \in SessionIds : AcceptPendingApprovals(s, x)
        BY <1>2, <3>1, <4>3 DEF SignInStep, CheckKnownIdentity, KnownIdentity, AbandonSignIn,
           CreateSession
      <4>4. ~\E s \in SessionIds : SessionStep(s)
        BY <1>2, <3>1 DEF SessionStep, FindSessionToRevoke, RevokeFoundSession, SessionExpires
      <4>5. ~OperatorStep
        <5>1. ASSUME NEW v \in Workspaces, NEW x \in People, NEW r \in Roles,
                     EnsureInternalWorkspaceAppAccess(v, x, r)
              PROVE  FALSE
          BY <1>2, <3>1, <5>1 DEF EnsureInternalWorkspaceAppAccess, EnsureMembership,
               SetMembership, TypeOK
        <5> QED
          BY <1>2, <3>1, <5>1 DEF OperatorStep, EnsureFirstAdminBootstrapApproval,
               EnsureFirstAdminApproval, SetApproval, Bootstraps,
               SetWorkspaceStatus, DeactivateUser
      <4>6. ~UNCHANGED vars
        BY <1>2, <3>1 DEF vars
      <4> QED
        BY <4>2, <4>3, <4>4, <4>5, <4>6 DEF Next
    <3>3. PICK s \in SessionIds, x \in People : AcceptPendingApprovals(s, x)
      BY <3>2
    <3>4. x = p /\ w \in Waiting(p) /\ member'[w][p] = ActiveIn(pending[w][p].role)
      BY <1>2, <3>1, <3>3 DEF AcceptPendingApprovals, MayLink, Link, AcceptWaiting, TypeOK
    <3>5. pending[w][p].by = "seed"
      BY <3>1, <3>4 DEF Waiting, TypeOK, Approval
    <3> QED
      BY <3>4, <3>5 DEF Administered
  <2> QED
    BY <2>1, <2>2
<1>3. ASSUME NEW w \in Workspaces, NEW p \in People, \A x \in People : <<w, x>> \notin seeded',
             pending'[w][p].by = "admin"
      PROVE  \E x \in People : member'[w][x] = ActiveIn("admin")
  <2>1. \E x \in People : member[w][x] = ActiveIn("admin")
    <3>1. CASE pending'[w][p] = pending[w][p]
      BY <1>1, <1>3, <3>1 DEF Administered
    <3>2. CASE pending'[w][p] # pending[w][p]
      BY <1>3, <3>2, PendingGrows DEF NoApproval
    <3> QED
      BY <3>1, <3>2
  <2> QED
    BY <2>1, StepRetainsAdmin
<1>4. ASSUME NEW w \in Workspaces, NEW p \in People, pending'[w][p].by = "seed"
      PROVE  pending'[w][p].role = "admin"
  <2>1. CASE pending'[w][p] = pending[w][p]
    BY <1>4, <2>1 DEF Administered
  <2>2. CASE pending'[w][p] # pending[w][p]
    BY <1>4, <2>2, PendingGrows DEF NoApproval
  <2> QED
    BY <2>1, <2>2
<1> QED
  BY <1>2, <1>3, <1>4 DEF Administered

\* A workspace somebody belongs to has an active admin, unless the seed command
\* inserted memberships into it.
THEOREM NoOrphans == Spec => []NeverOrphaned
<1>1. Init => Administered
  BY DEF Init, Administered, NoMembership, NoApproval
<1>2. Administered => NeverOrphaned
  BY DEF Administered, NeverOrphaned
<1> QED
  BY <1>1, <1>2, NextAdministered, TypeCorrect, PTL DEF Spec
-----------------------------------------------------------------------------
(* The audit log *)

\* Replaying the audit log gives exactly the memberships, but for rows the seed
\* command inserted: every mutation commits its event with its row.
THEOREM AuditLogReplays == Spec => []AuditReplays
<1>1. Init => AuditReplays
  BY DEF Init, AuditReplays
<1>2. TypeOK /\ AuditReplays /\ [Next]_vars => AuditReplays'
  <2> SUFFICES ASSUME TypeOK, AuditReplays, [Next]_vars,
                      NEW w \in Workspaces, NEW p \in People, <<w, p>> \notin seeded'
               PROVE  trail'[w][p] = member'[w][p]
    BY DEF AuditReplays
  <2>1. trail[w][p] = member[w][p]
    BY SeededGrows DEF AuditReplays
  <2>2. ASSUME NEW s \in SessionIds, NEW v \in Workspaces, NEW x \in People, AdminStep(s, v, x)
        PROVE  trail'[w][p] = member'[w][p]
    <3>1. ASSUME NEW m, NEW n, SetMembership(v, x, m), AuditMembership(v, x, n),
                 v = w /\ x = p => m = n
          PROVE  trail'[w][p] = member'[w][p]
      BY <2>1, <3>1 DEF TypeOK, SetMembership, AuditMembership
    <3>2. CASE \E r \in Roles : ChangeWorkspaceMemberRole(s, v, x, r)
      BY <2>1, <3>1, <3>2 DEF ChangeWorkspaceMemberRole
    <3>3. CASE DisableWorkspaceMembership(s, v, x)
      BY <2>1, <3>1, <3>3 DEF DisableWorkspaceMembership
    <3>4. CASE ReactivateWorkspaceMembership(s, v, x)
      BY <2>1, <3>1, <3>4 DEF ReactivateWorkspaceMembership
    <3>5. CASE RemoveWorkspaceMembership(s, v, x)
      BY <3>1, <3>5 DEF RemoveWorkspaceMembership
    <3>6. CASE \E r \in Roles : AddLinkedMember(s, v, x, r)
      BY <3>1, <3>6 DEF AddLinkedMember, MakeMember
    <3>7. CASE \/ \E r \in Roles : AddPendingMember(s, v, x, r)
               \/ RevokeWorkspaceMembershipApproval(s, v, x)
      BY <2>1, <3>7 DEF AddPendingMember, SetApproval, RevokeWorkspaceMembershipApproval,
         SetApproval
    <3> QED
      BY <2>2, <3>2, <3>3, <3>4, <3>5, <3>6, <3>7 DEF AdminStep
  <2>3. ASSUME NEW x \in People, SignInStep(x) PROVE trail'[w][p] = member'[w][p]
    <3>1. CASE \E s \in SessionIds : AcceptPendingApprovals(s, x)
      BY <2>1, <3>1 DEF AcceptPendingApprovals, MayLink, Link, AcceptWaiting, TypeOK
    <3> QED
      BY <2>1, <2>3, <3>1 DEF SignInStep, CheckKnownIdentity, KnownIdentity, AbandonSignIn,
         CreateSession
  <2>4. ASSUME NEW s \in SessionIds, SessionStep(s) PROVE trail'[w][p] = member'[w][p]
    BY <2>1, <2>4 DEF SessionStep, FindSessionToRevoke, RevokeFoundSession, SessionExpires
  <2>5. CASE OperatorStep
    <3>1. CASE \E v \in Workspaces, x \in People, r \in Roles :
          EnsureInternalWorkspaceAppAccess(v, x, r)
      BY <2>1, <3>1 DEF EnsureInternalWorkspaceAppAccess, EnsureMembership,
           SetMembership, TypeOK
    <3> QED
      BY <2>1, <2>5, <3>1 DEF OperatorStep, EnsureFirstAdminBootstrapApproval,
           EnsureFirstAdminApproval, SetApproval, Bootstraps, SetWorkspaceStatus, DeactivateUser
  <2>6. CASE UNCHANGED vars
    BY <2>1, <2>6 DEF vars
  <2> QED
    BY <2>2, <2>3, <2>4, <2>5, <2>6 DEF Next
<1> QED
  BY <1>1, <1>2, TypeCorrect, PTL DEF Spec
-----------------------------------------------------------------------------
(* Approvals and sessions *)

\* An approval an admin asked for never waits for a person the platform can
\* already identify.
THEOREM RequestedAwaitUnknown == Spec => []RequestedApprovalsAwaitUnknown
<1>1. Init => RequestedApprovalsAwaitUnknown
  BY DEF Init, RequestedApprovalsAwaitUnknown, NoApproval
<1>2. TypeOK /\ RequestedApprovalsAwaitUnknown /\ [Next]_vars => RequestedApprovalsAwaitUnknown'
  <2> SUFFICES ASSUME TypeOK, RequestedApprovalsAwaitUnknown, [Next]_vars,
                      NEW w \in Workspaces, NEW p \in People, pending'[w][p].by = "admin"
               PROVE  user'[p] # "linked"
    BY DEF RequestedApprovalsAwaitUnknown
  <2>1. user[p] # "linked" /\ (user' = user \/ pending'[w][p] = pending[w][p])
    <3>1. CASE pending'[w][p] = pending[w][p]
      BY <3>1 DEF RequestedApprovalsAwaitUnknown
    <3>2. CASE pending'[w][p] # pending[w][p]
      BY <3>2, PendingGrows DEF NoApproval
    <3> QED
      BY <3>1, <3>2
  <2>2. CASE user' = user
    BY <2>1, <2>2
  <2>3. CASE user' # user
    <3>1. \E s \in SessionIds, x \in People : AcceptPendingApprovals(s, x)
      <4>1. ASSUME NEW s \in SessionIds, NEW v \in Workspaces, NEW x \in People, AdminStep(s, v, x)
            PROVE  FALSE
        BY <2>3, <4>1 DEF AdminStep, ChangeWorkspaceMemberRole, DisableWorkspaceMembership,
             ReactivateWorkspaceMembership, RemoveWorkspaceMembership, AddLinkedMember, MakeMember,
             AddPendingMember, SetApproval, RevokeWorkspaceMembershipApproval, SetApproval
      <4>2. ASSUME NEW x \in People, SignInStep(x)
            PROVE  \E s \in SessionIds : AcceptPendingApprovals(s, x)
        BY <2>3, <4>2 DEF SignInStep, CheckKnownIdentity, KnownIdentity, AbandonSignIn,
           CreateSession
      <4>3. ASSUME NEW s \in SessionIds, SessionStep(s) PROVE FALSE
        BY <2>3, <4>3 DEF SessionStep, FindSessionToRevoke, RevokeFoundSession, SessionExpires
      <4>4. ~OperatorStep
        BY <2>3 DEF OperatorStep, EnsureFirstAdminBootstrapApproval, EnsureFirstAdminApproval,
           SetApproval, Bootstraps,
             EnsureInternalWorkspaceAppAccess, EnsureMembership, SetWorkspaceStatus,
                  DeactivateUser
      <4>5. ~UNCHANGED vars
        BY <2>3 DEF vars
      <4> QED
        BY <4>1, <4>2, <4>3, <4>4, <4>5 DEF Next
    <3>2. PICK s \in SessionIds, x \in People : AcceptPendingApprovals(s, x)
      BY <3>1
    <3>3. x # p
      <4> SUFFICES ASSUME x = p PROVE FALSE
        OBVIOUS
      <4>1. w \in Waiting(p)
        BY <2>1, <2>3 DEF Waiting, NoApproval
      <4> QED
        BY <3>2, <4>1 DEF AcceptPendingApprovals, MayLink, Link, AcceptWaiting, NoApproval, TypeOK
    <3> QED
      BY <2>1, <3>2, <3>3 DEF AcceptPendingApprovals, MayLink, Link, AcceptWaiting, TypeOK
  <2> QED
    BY <2>2, <2>3
<1> QED
  BY <1>1, <1>2, TypeCorrect, PTL DEF Spec

\* An admin mutation that takes p's membership of w out of status active
\* revokes the sessions of p when no other active membership is left.
LEMMA RevocationReaches ==
  ASSUME TypeOK, NEW w \in Workspaces, NEW p \in People, NEW m, SetMembership(w, p, m),
         RevokeUnlessAffiliated(w, p),
         ~\E v \in Workspaces : member'[v][p].status = "active",
         NEW s \in SessionIds, sessions'[s].user = p
  PROVE  sessions'[s].revokedAt # 0
<1>1. \A v \in Workspaces \ {w} : member'[v][p] = member[v][p]
  BY DEF SetMembership, TypeOK
<1>2. Affiliations(p) \ {w} = {}
  BY <1>1 DEF Affiliations
<1>3. sessions' = RevokedForUser(p)
  BY <1>2 DEF RevokeUnlessAffiliated
<1>4. sessions[s] \in Session
  BY DEF TypeOK
<1>5. CASE sessions[s].user = p /\ sessions[s].revokedAt = 0
  BY <1>3, <1>4, <1>5 DEF RevokedForUser, Session
<1>6. CASE ~(sessions[s].user = p /\ sessions[s].revokedAt = 0)
  BY <1>3, <1>6 DEF RevokedForUser
<1> QED
  BY <1>5, <1>6

\* The step that takes a user's last active membership away revokes every
\* session of that user.
THEOREM LastMembershipEnds == Spec => LastMembershipEndsSessions
<1>1. ASSUME TypeOK, [Next]_vars, NEW p \in People,
             \E w \in Workspaces : member[w][p].status = "active",
             ~\E w \in Workspaces : member'[w][p].status = "active",
             NEW s \in SessionIds, sessions'[s].user = p
      PROVE  sessions'[s].revokedAt # 0
  <2>1. PICK w \in Workspaces : member[w][p].status = "active"
    BY <1>1
  <2>2. member'[w][p] # member[w][p] /\ member[w][p] # NoMembership
    BY <1>1, <2>1 DEF NoMembership
  <2>3. ASSUME NEW t \in SessionIds, NEW v \in Workspaces, NEW x \in People, AdminStep(t, v, x)
        PROVE  sessions'[s].revokedAt # 0
    <3>1. ASSUME NEW m, SetMembership(v, x, m) PROVE v = w /\ x = p /\ member'[w][p] = m
      BY <1>1, <2>2, <3>1 DEF SetMembership, TypeOK
    <3>2. CASE DisableWorkspaceMembership(t, v, x)
      BY <1>1, <3>1, <3>2, RevocationReaches DEF DisableWorkspaceMembership
    <3>3. CASE RemoveWorkspaceMembership(t, v, x)
      BY <1>1, <3>1, <3>3, RevocationReaches DEF RemoveWorkspaceMembership
    <3>4. ASSUME NEW r \in Roles, ChangeWorkspaceMemberRole(t, v, x, r) PROVE FALSE
      <4>1. v = w /\ x = p /\ member'[w][p] = [member[w][p] EXCEPT !.role = r]
        BY <3>1, <3>4 DEF ChangeWorkspaceMemberRole
      <4>2. member[w][p] \in Membership \cup {NoMembership}
        BY <1>1 DEF TypeOK
      <4>3. member'[w][p].status = "active"
        BY <2>1, <4>1, <4>2 DEF Membership, NoMembership
      <4> QED
        BY <1>1, <4>3
    <3>5. ASSUME ReactivateWorkspaceMembership(t, v, x) PROVE FALSE
      BY <2>1, <3>1, <3>5 DEF ReactivateWorkspaceMembership
    <3>6. ASSUME NEW r \in Roles, AddLinkedMember(t, v, x, r) PROVE FALSE
      BY <2>2, <3>1, <3>6 DEF AddLinkedMember, MakeMember, Members
    <3>7. ASSUME \/ \E r \in Roles : AddPendingMember(t, v, x, r)
                 \/ RevokeWorkspaceMembershipApproval(t, v, x)
          PROVE  FALSE
      BY <2>2, <3>7 DEF AddPendingMember, SetApproval, RevokeWorkspaceMembershipApproval,
         SetApproval
    <3> QED
      BY <2>3, <3>2, <3>3, <3>4, <3>5, <3>6, <3>7 DEF AdminStep
  <2>4. ASSUME NEW x \in People, SignInStep(x) PROVE FALSE
    <3>1. ASSUME NEW t \in SessionIds, AcceptPendingApprovals(t, x) PROVE FALSE
      BY <1>1, <2>2, <3>1 DEF AcceptPendingApprovals, MayLink, Link, AcceptWaiting, Acceptable,
         Bootstraps,
           Members, TypeOK
    <3> QED
      BY <2>2, <2>4, <3>1 DEF SignInStep, CheckKnownIdentity, KnownIdentity, AbandonSignIn,
         CreateSession
  <2>5. ASSUME NEW t \in SessionIds, SessionStep(t) PROVE FALSE
    BY <2>2, <2>5 DEF SessionStep, FindSessionToRevoke, RevokeFoundSession, SessionExpires
  <2>6. ASSUME OperatorStep PROVE FALSE
    <3>1. ASSUME NEW v \in Workspaces, NEW x \in People, NEW r \in Roles,
                 EnsureInternalWorkspaceAppAccess(v, x, r)
          PROVE  FALSE
      BY <1>1, <2>2, <3>1 DEF EnsureInternalWorkspaceAppAccess, EnsureMembership,
           SetMembership, Members, TypeOK
    <3> QED
      BY <2>2, <2>6, <3>1 DEF OperatorStep, EnsureFirstAdminBootstrapApproval,
           EnsureFirstAdminApproval, SetApproval, Bootstraps, SetWorkspaceStatus, DeactivateUser
  <2>7. ~UNCHANGED vars
    BY <2>2 DEF vars
  <2> QED
    BY <1>1, <2>3, <2>4, <2>5, <2>6, <2>7 DEF Next
<1>2. TypeOK /\ [Next]_vars
        => [\A p \in People :
              /\ \E w \in Workspaces : member[w][p].status = "active"
              /\ ~\E w \in Workspaces : member'[w][p].status = "active"
              => \A s \in SessionIds : sessions'[s].user = p => sessions'[s].revokedAt # 0]_vars
  BY <1>1
<1> QED
  BY <1>2, TypeCorrect, PTL DEF Spec, LastMembershipEndsSessions
-----------------------------------------------------------------------------
(* Where a membership comes from *)

\* A changed row is that of a first sign-in, of an addition, of an admin's
\* change to it, or of the seed command.
LEMMA RowChanges ==
  ASSUME TypeOK, [Next]_vars, NEW w \in Workspaces, NEW p \in People,
         member'[w][p] # member[w][p]
  PROVE  \/ w \in Waiting(p) /\ \E s \in SessionIds : AcceptPendingApprovals(s, p)
         \/ \E s \in SessionIds, r \in Roles : AddLinkedMember(s, w, p, r)
         \/ \E s \in SessionIds : MayTarget(s, w, p) /\ user' = user /\ seeded' = seeded
         \/ \E r \in Roles : EnsureInternalWorkspaceAppAccess(w, p, r)
<1> DEFINE Goal ==
      \/ w \in Waiting(p) /\ \E s \in SessionIds : AcceptPendingApprovals(s, p)
      \/ \E s \in SessionIds, r \in Roles : AddLinkedMember(s, w, p, r)
      \/ \E s \in SessionIds : MayTarget(s, w, p) /\ user' = user /\ seeded' = seeded
      \/ \E r \in Roles : EnsureInternalWorkspaceAppAccess(w, p, r)
<1>1. ASSUME NEW v \in Workspaces, NEW x \in People, NEW m, SetMembership(v, x, m)
      PROVE  v = w /\ x = p
  BY <1>1 DEF TypeOK, SetMembership
<1>2. ASSUME NEW s \in SessionIds, NEW v \in Workspaces, NEW x \in People, AdminStep(s, v, x)
      PROVE  Goal
  <2>1. CASE \/ \E r \in Roles : AddPendingMember(s, v, x, r)
             \/ RevokeWorkspaceMembershipApproval(s, v, x)
    BY <2>1 DEF AddPendingMember, SetApproval, RevokeWorkspaceMembershipApproval, SetApproval
  <2>2. ASSUME NEW r \in Roles, AddLinkedMember(s, v, x, r) PROVE Goal
    <3>1. v = w /\ x = p
      BY <1>1, <2>2 DEF AddLinkedMember, MakeMember
    <3> QED
      BY <2>2, <3>1
  <2>3. CASE \/ \E r \in Roles : ChangeWorkspaceMemberRole(s, v, x, r)
             \/ DisableWorkspaceMembership(s, v, x)
             \/ ReactivateWorkspaceMembership(s, v, x)
             \/ RemoveWorkspaceMembership(s, v, x)
    <3>1. v = w /\ x = p
      BY <1>1, <2>3 DEF ChangeWorkspaceMemberRole, DisableWorkspaceMembership,
                        ReactivateWorkspaceMembership, RemoveWorkspaceMembership
    <3>2. MayTarget(s, v, x) /\ user' = user /\ seeded' = seeded
      BY <2>3 DEF ChangeWorkspaceMemberRole, DisableWorkspaceMembership,
                  ReactivateWorkspaceMembership, RemoveWorkspaceMembership
    <3> QED
      BY <3>1, <3>2
  <2> QED
    BY <1>2, <2>1, <2>2, <2>3 DEF AdminStep
<1>3. ASSUME NEW x \in People, SignInStep(x) PROVE Goal
  <2>1. ASSUME NEW s \in SessionIds, AcceptPendingApprovals(s, x) PROVE Goal
    <3>1. x = p /\ w \in Waiting(p)
      BY <2>1 DEF AcceptPendingApprovals, MayLink, Link, AcceptWaiting, TypeOK
    <3> QED
      BY <2>1, <3>1
  <2> QED
    BY <1>3, <2>1 DEF SignInStep, CheckKnownIdentity, KnownIdentity, AbandonSignIn, CreateSession
<1>4. ASSUME NEW s \in SessionIds, SessionStep(s) PROVE FALSE
  BY <1>4 DEF SessionStep, FindSessionToRevoke, RevokeFoundSession, SessionExpires
<1>5. CASE OperatorStep
  <2>1. ASSUME NEW v \in Workspaces, NEW x \in People, NEW r \in Roles,
               EnsureInternalWorkspaceAppAccess(v, x, r)
        PROVE  Goal
    <3>1. v = w /\ x = p
      BY <1>1, <2>1 DEF EnsureInternalWorkspaceAppAccess, EnsureMembership
    <3> QED
      BY <2>1, <3>1
  <2> QED
    BY <1>5, <2>1 DEF OperatorStep, EnsureFirstAdminBootstrapApproval, EnsureFirstAdminApproval,
       SetApproval, Bootstraps,
         SetWorkspaceStatus, DeactivateUser
<1>6. ~UNCHANGED vars
  BY DEF vars
<1> QED
  BY <1>2, <1>3, <1>4, <1>5, <1>6 DEF Next

\* Whoever administers a workspace is an active admin of it, with a usable session.
LEMMA ContextIsAdmin ==
  ASSUME TypeOK, NEW s \in SessionIds, NEW w \in Workspaces, AdminContext(s, w)
  PROVE  /\ sessions[s].user \in People
         /\ member[w][sessions[s].user] = ActiveIn("admin")
         /\ sessions[s].revokedAt = 0 /\ ~sessions[s].expired
  BY DEF AdminContext, Usable, Unrevoked, TypeOK, ActiveAdmin, ActiveIn, Membership, NoMembership

\* Nobody gains an active membership or a role by itself.
THEOREM GainsGranted == Spec => GainsAreGranted
<1>1. ASSUME TypeOK, [Next]_vars, NEW w \in Workspaces, NEW p \in People,
             member'[w][p] # member[w][p], member'[w][p].status = "active"
      PROVE  \/ <<w, p>> \in seeded'
             \/ pending[w][p].role = member'[w][p].role
             \/ \E q \in People \ {p}, s \in SessionIds :
                  /\ member[w][q] = ActiveIn("admin")
                  /\ sessions[s].user = q /\ sessions[s].revokedAt = 0 /\ ~sessions[s].expired
  <2>1. CASE w \in Waiting(p) /\ \E s \in SessionIds : AcceptPendingApprovals(s, p)
    BY <2>1, <1>1 DEF AcceptPendingApprovals, MayLink, Link, AcceptWaiting, TypeOK, ActiveIn
  <2>2. CASE \E s \in SessionIds, r \in Roles : AddLinkedMember(s, w, p, r)
    <3>1. PICK s \in SessionIds, r \in Roles : AddLinkedMember(s, w, p, r)
      BY <2>2
    <3>2. AdminContext(s, w) /\ member[w][p] = NoMembership
      BY <3>1 DEF AddLinkedMember, MakeMember, Members
    <3> QED
      BY <1>1, <3>2, ContextIsAdmin DEF ActiveIn, NoMembership
  <2>3. CASE \E s \in SessionIds : MayTarget(s, w, p)
    BY <1>1, <2>3, ContextIsAdmin DEF MayTarget
  <2>4. CASE \E r \in Roles : EnsureInternalWorkspaceAppAccess(w, p, r)
    BY <2>4 DEF EnsureInternalWorkspaceAppAccess, EnsureMembership
  <2> QED
    BY <1>1, <2>1, <2>2, <2>3, <2>4, RowChanges
<1>2. TypeOK /\ [Next]_vars
        => [\A w \in Workspaces, p \in People :
              member'[w][p] # member[w][p] /\ member'[w][p].status = "active"
                => \/ <<w, p>> \in seeded'
                   \/ pending[w][p].role = member'[w][p].role
                   \/ \E q \in People \ {p}, s \in SessionIds :
                        /\ member[w][q] = ActiveIn("admin")
                        /\ sessions[s].user = q /\ sessions[s].revokedAt = 0 /\ ~sessions[s].expired]_vars
  BY <1>1
<1> QED
  BY <1>2, TypeCorrect, PTL DEF Spec, GainsAreGranted

\* Strengthening of BlockedOnlyByOperator: members of a workspace nothing was
\* seeded into are identified, a first-admin bootstrap waits alone and only
\* while nobody belongs to the workspace.
Unblocked ==
  \A w \in Workspaces : (\A q \in People : <<w, q>> \notin seeded) =>
    /\ \A p \in People : member[w][p] # NoMembership => user[p] = "linked"
    /\ \A p \in People : pending[w][p].by = "seed" => \A q \in People : member[w][q] = NoMembership
    /\ \A p, q \in People : pending[w][p].by = "seed" /\ pending[w][q].by = "seed" => p = q

\* An identity once linked stays linked.
LEMMA LinkedStays ==
  ASSUME TypeOK, [Next]_vars, NEW p \in People, user[p] = "linked"
  PROVE  user'[p] = "linked"
<1>1. ASSUME NEW s \in SessionIds, NEW w \in Workspaces, NEW x \in People, AdminStep(s, w, x)
      PROVE  user' = user
  BY <1>1 DEF AdminStep, ChangeWorkspaceMemberRole, DisableWorkspaceMembership,
       ReactivateWorkspaceMembership, RemoveWorkspaceMembership, AddLinkedMember, MakeMember,
       AddPendingMember, SetApproval, RevokeWorkspaceMembershipApproval, SetApproval
<1>2. ASSUME NEW x \in People, SignInStep(x) PROVE user'[p] = "linked"
  BY <1>2 DEF TypeOK, SignInStep, CheckKnownIdentity, KnownIdentity, AbandonSignIn, CreateSession,
       AcceptPendingApprovals, MayLink, Link, AcceptWaiting
<1>3. ASSUME NEW s \in SessionIds, SessionStep(s) PROVE user' = user
  BY <1>3 DEF SessionStep, FindSessionToRevoke, RevokeFoundSession, SessionExpires
<1>4. CASE OperatorStep
  BY <1>4 DEF OperatorStep, EnsureFirstAdminBootstrapApproval, EnsureFirstAdminApproval,
     SetApproval, Bootstraps,
       EnsureInternalWorkspaceAppAccess, EnsureMembership,
       SetWorkspaceStatus, DeactivateUser
<1>5. CASE UNCHANGED vars
  BY <1>5 DEF vars
<1> QED
  BY <1>1, <1>2, <1>3, <1>4, <1>5 DEF Next

\* A row of a workspace nothing is seeded into appears with a first sign-in that
\* its approval waited for, or beside an active admin; either way of somebody
\* identified.
LEMMA Inserted ==
  ASSUME TypeOK, [Next]_vars, NEW w \in Workspaces, NEW p \in People,
         member[w][p] = NoMembership, member'[w][p] # NoMembership, <<w, p>> \notin seeded'
  PROVE  /\ user'[p] = "linked"
         /\ \/ \E q \in People : member[w][q] = ActiveIn("admin")
            \/ w \in Waiting(p) /\ Acceptable(w, p) /\ pending'[w][p] = NoApproval
<1>1. CASE w \in Waiting(p) /\ \E s \in SessionIds : AcceptPendingApprovals(s, p)
  BY <1>1 DEF AcceptPendingApprovals, MayLink, Link, AcceptWaiting, TypeOK
<1>2. CASE \E s \in SessionIds, r \in Roles : AddLinkedMember(s, w, p, r)
  BY <1>2, ContextIsAdmin DEF AddLinkedMember, MakeMember
<1>3. CASE \E s \in SessionIds : MayTarget(s, w, p)
  BY <1>3 DEF MayTarget, Members
<1>4. CASE \E r \in Roles : EnsureInternalWorkspaceAppAccess(w, p, r)
  BY <1>4 DEF EnsureInternalWorkspaceAppAccess, EnsureMembership
<1> QED
  BY <1>1, <1>2, <1>3, <1>4, RowChanges

\* The strengthening is inductive.
LEMMA NextUnblocked == TypeOK /\ Administered /\ Unblocked /\ [Next]_vars => Unblocked'
<1> SUFFICES ASSUME TypeOK, Administered, Unblocked, [Next]_vars,
                    NEW w \in Workspaces, \A q \in People : <<w, q>> \notin seeded'
             PROVE  /\ \A p \in People : member'[w][p] # NoMembership => user'[p] = "linked"
                    /\ \A p \in People : pending'[w][p].by = "seed"
                         => \A q \in People : member'[w][q] = NoMembership
                    /\ \A p, q \in People :
                         pending'[w][p].by = "seed" /\ pending'[w][q].by = "seed" => p = q
  BY DEF Unblocked
<1>1. \A q \in People : <<w, q>> \notin seeded
  BY SeededGrows
<1>2. /\ \A p \in People : member[w][p] # NoMembership => user[p] = "linked"
      /\ \A p \in People : pending[w][p].by = "seed" => \A q \in People : member[w][q] = NoMembership
      /\ \A p, q \in People : pending[w][p].by = "seed" /\ pending[w][q].by = "seed" => p = q
  BY <1>1 DEF Unblocked
<1>3. ASSUME NEW p \in People, member'[w][p] # NoMembership PROVE user'[p] = "linked"
  BY <1>2, <1>3, LinkedStays, Inserted
\* A bootstrap that is new waits alone, in a workspace without members.
<1>4. ASSUME NEW p \in People, pending'[w][p].by = "seed", pending[w][p].by # "seed"
      PROVE  /\ \A q \in People : member'[w][q] = NoMembership
             /\ \A q \in People \ {p} : pending'[w][q].by # "seed"
  <2>1. /\ pending'[w][p] = [role |-> "admin", by |-> "seed"]
        /\ Members(w) = {} /\ member' = member
        /\ \A q \in People : ~Bootstrap(pending[w][q])
    BY <1>4, PendingGrows DEF NoApproval
  <2>2. \A q \in People : pending[w][q].by # "seed"
    BY <2>1 DEF Administered, Bootstrap
  <2>3. \A q \in People \ {p} : pending'[w][q] = pending[w][q]
    <3>1. EnsureFirstAdminBootstrapApproval(w, p)
      BY <1>4, PendingGrows DEF NoApproval
    <3> QED
      BY <3>1 DEF EnsureFirstAdminBootstrapApproval, EnsureFirstAdminApproval, SetApproval,
         Bootstraps, TypeOK
  <2> QED
    BY <2>1, <2>2, <2>3 DEF Members
\* One that waited before still waits alone.
<1>5. ASSUME NEW p \in People, pending'[w][p].by = "seed", pending[w][p].by = "seed",
     NEW q \in People
      PROVE  member'[w][q] = NoMembership
  <2> SUFFICES ASSUME member'[w][q] # NoMembership PROVE FALSE
    OBVIOUS
  <2>1. \A x \in People : member[w][x] = NoMembership
    BY <1>2, <1>5
  <2>2. /\ w \in Waiting(q) /\ Acceptable(w, q)
        /\ pending'[w][q] = NoApproval
    <3>1. \A x \in People : member[w][x] # ActiveIn("admin")
      BY <2>1 DEF ActiveIn, NoMembership
    <3> QED
      BY <2>1, <3>1, Inserted
  <2>3. Members(w) = {}
    BY <2>1 DEF Members
  <2>4. p # q
    BY <1>5, <2>2 DEF NoApproval
  <2>5. pending[w][q].by # "seed"
    BY <1>2, <1>5, <2>4
  <2>6. pending[w][q].by = "admin"
    BY <2>2, <2>5 DEF Waiting, TypeOK, Approval
  <2> QED
    BY <1>1, <2>1, <2>6 DEF Administered, ActiveIn, NoMembership
<1> QED
  BY <1>2, <1>3, <1>4, <1>5

\* An approval that its person's first sign-in could not accept is the
\* operator's doing: a suspended workspace, or one with a seeded membership.
THEOREM BlockedByOperator == Spec => []BlockedOnlyByOperator
<1>1. Init => Administered /\ Unblocked
  BY DEF Init, Administered, Unblocked, NoMembership, NoApproval
<1>2. ASSUME TypeOK, Administered, Unblocked PROVE BlockedOnlyByOperator
  <2> SUFFICES ASSUME NEW p \in People, NEW w \in Workspaces, w \in Waiting(p), user[p] # "linked",
                      w \notin suspended, \A q \in People : <<w, q>> \notin seeded
               PROVE  Acceptable(w, p)
    BY DEF BlockedOnlyByOperator
  <2>1. p \notin Members(w)
    BY <1>2 DEF Unblocked, Members
  <2>2. CASE pending[w][p].by = "seed"
    <3>1. Bootstrap(pending[w][p])
      BY <1>2, <2>2 DEF Administered, Bootstrap
    <3>2. Members(w) = {}
      BY <1>2, <2>2 DEF Unblocked, Members
    <3>3. \A q \in People : Bootstrap(pending[w][q]) => q = p
      BY <1>2, <2>2 DEF Unblocked, Bootstrap
    <3> QED
      BY <2>1, <3>1, <3>2, <3>3 DEF Acceptable, Bootstraps
  <2>3. CASE pending[w][p].by # "seed"
    BY <2>1, <2>3 DEF Acceptable, Bootstraps, Bootstrap
  <2> QED
    BY <2>2, <2>3
<1> QED
  BY <1>1, <1>2, NextAdministered, NextUnblocked, TypeCorrect, PTL DEF Spec
=============================================================================
