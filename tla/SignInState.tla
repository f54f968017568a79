---------------------------- MODULE SignInState ----------------------------
(***************************************************************************)
(* The browser's way through an OIDC sign-in: auth start and callback      *)
(* (http/auth-handlers.ts, auth/callback-service.ts), the one-time states  *)
(* they share through the auth_states table (db/auth-state-repository.ts)  *)
(* and the cookie that binds a state to the browser that started it.       *)
(*                                                                         *)
(* A start stores its state in a SERIALIZABLE transaction: delete the rows *)
(* that are spent, count the rest, insert.  It is not retried.  A callback *)
(* reads and then marks the row in statements of their own, and asks the   *)
(* provider only afterwards.  Answers may be lost, and a browser may run   *)
(* several sign-ins in its tabs at once: they share its two cookies.       *)
(* What the provider's answer is worth is OidcIdentity.                    *)
(***************************************************************************)
EXTENDS OidcIdentity, FiniteSets

CONSTANTS
  Browsers,
  Starts,     \* auth starts served at the same time
  Callbacks,  \* callbacks served at the same time
  Lifetime,   \* ttlSeconds of a state
  Capacity,   \* maxPersistedAuthStates: 10000 in the code
  MaxClock    \* bound: the last instant

ASSUME NoneAssumption == None \notin States \cup Browsers
ASSUME TimesAssumption == Lifetime \in Nat \ {0} /\ Capacity \in Nat \ {0} /\ MaxClock \in Nat
ASSUME StatesAssumption == IsFiniteSet(States)

VARIABLES
  rows,      \* rows[s]: the auth_states row of s, or NoRow
  binding,   \* binding[b]: the state the browser's binding cookie is for, or None
  session,   \* session[b]: the accounts the session of the browser's cookie was opened for
  start,     \* start[x]: the auth start x serves, or Idle
  callback,  \* callback[k]: the callback k serves, or Idle
  flow,      \* history: flow[s]: the browser and the time s was drawn for
  signedIn,  \* history: signedIn[s]: sessions opened through s
  clock

signInVars == <<rows, binding, session, start, callback, flow, signedIn, clock>>

NoRow == [expiresAt |-> 0, consumed |-> FALSE]
Row == [expiresAt : Lifetime..(MaxClock + Lifetime), consumed : BOOLEAN]

Idle == [step |-> "none"]
Start == [step : {"begun", "pruned", "stored"}, browser : Browsers, state : States,
          now : 0..MaxClock, stale : SUBSET States, overtaken : BOOLEAN]
\* code: the sign-in whose authorization code the callback carries.
Callback == [step : {"bound", "found", "consumed"}, browser : Browsers, state : States,
             code : States, now : 0..MaxClock]

Undrawn == [browser |-> None, at |-> 0]

SignInTypeOK ==
  /\ rows \in [States -> Row \cup {NoRow}]
  /\ binding \in [Browsers -> States \cup {None}]
  /\ session \in [Browsers -> SUBSET States]
  /\ start \in [Starts -> Start \cup {Idle}]
  /\ callback \in [Callbacks -> Callback \cup {Idle}]
  /\ flow \in [States -> [browser : Browsers, at : 0..MaxClock] \cup {Undrawn}]
  /\ signedIn \in [States -> Nat]
  /\ clock \in 0..MaxClock

SignInInit ==
  /\ rows = [s \in States |-> NoRow]
  /\ binding = [b \in Browsers |-> None]
  /\ session = [b \in Browsers |-> {}]
  /\ start = [x \in Starts |-> Idle]
  /\ callback = [k \in Callbacks |-> Idle]
  /\ flow = [s \in States |-> Undrawn]
  /\ signedIn = [s \in States |-> 0]
  /\ clock = 0

Stored == {s \in States : rows[s] # NoRow}

-----------------------------------------------------------------------------
(* Auth start *)

\* handleAuthStartRequest up to the store: the state is a fresh random value.
BeginStart(x, b, s) ==
  /\ start[x] = Idle
  /\ flow[s] = Undrawn
  /\ flow' = [flow EXCEPT ![s] = [browser |-> b, at |-> clock]]
  /\ start' = [start EXCEPT ![x] = [step |-> "begun", browser |-> b, state |-> s, now |-> clock,
                                    stale |-> {}, overtaken |-> FALSE]]
  /\ UNCHANGED <<rows, binding, session, callback, signedIn, clock>>

EndStart(x) == start' = [start EXCEPT ![x] = Idle]

\* The rows storeState deletes.
Stale(now) == {s \in Stored : rows[s].consumed \/ rows[s].expiresAt <= now}

\* storeState's DELETE and SELECT, which see one snapshot.
Prune(x) ==
  /\ start[x].step = "begun"
  /\ LET stale == Stale(start[x].now) IN
       IF Cardinality(Stored \ stale) >= Capacity
       THEN EndStart(x)
       ELSE start' = [start EXCEPT ![x].step = "pruned", ![x].stale = stale]
  /\ UNCHANGED <<rows, binding, session, callback, flow, signedIn, clock>>

\* MUTANT of ExpiresAt: the lifetime is added twice.
ExpiresLate(now) == now + 2 * Lifetime

\* addSeconds.
ExpiresAt(now) == now + Lifetime

\* MUTANT of Admitted: the isolation level is left at READ COMMITTED.
AlwaysAdmitted(x) == TRUE

\* The database admits the commit only when no start has committed since the
\* snapshot: each of the two has counted without the other's row.
Admitted(x) == ~start[x].overtaken

\* The INSERT and the commit, whose acknowledgement may be lost.
StoreState(x) ==
  /\ start[x].step = "pruned"
  /\ Admitted(x)
  /\ rows' = [s \in States |->
                IF s = start[x].state
                THEN [expiresAt |-> ExpiresAt(start[x].now), consumed |-> FALSE]
                ELSE IF s \in start[x].stale THEN NoRow ELSE rows[s]]
  /\ \E answer \in {Idle, [start[x] EXCEPT !.step = "stored"]} :
       start' = [y \in Starts |->
                   IF y = x THEN answer
                   ELSE IF start[y].step = "pruned" THEN [start[y] EXCEPT !.overtaken = TRUE]
                   ELSE start[y]]
  /\ UNCHANGED <<binding, session, callback, flow, signedIn, clock>>

\* The redirect to the provider sets the binding cookie.
AnswerStart(x) ==
  /\ start[x].step = "stored"
  /\ binding' = [binding EXCEPT ![start[x].browser] = start[x].state]
  /\ EndStart(x)
  /\ UNCHANGED <<rows, session, callback, flow, signedIn, clock>>

\* An error, a serialization failure included: the browser's cookies stay.
FailStart(x) ==
  /\ start[x] # Idle
  /\ EndStart(x)
  /\ UNCHANGED <<rows, binding, session, callback, flow, signedIn, clock>>

-----------------------------------------------------------------------------
(* Callback *)

EndCallback(k) == callback' = [callback EXCEPT ![k] = Idle]

\* MUTANT of BoundTo: any binding cookie will do.
BoundToAny(b, s) == binding[b] # None

BoundTo(b, s) == binding[b] = s

\* assertAuthCallbackBrowserBinding.  The browser may bring any state and code:
\* of another tab, of an older sign-in, of a link it was given.
BeginCallback(k, b, s, c) ==
  /\ callback[k] = Idle
  /\ BoundTo(b, s)
  /\ callback' = [callback EXCEPT ![k] =
                    [step |-> "bound", browser |-> b, state |-> s, code |-> c, now |-> clock]]
  /\ UNCHANGED <<rows, binding, session, start, flow, signedIn, clock>>

\* A callback without its binding, or with the provider's error instead of a code,
\* and the expiry of the cookie (Max-Age) all leave the browser without it.
ClearBinding(b) ==
  /\ binding[b] # None
  /\ binding' = [binding EXCEPT ![b] = None]
  /\ UNCHANGED <<rows, session, start, callback, flow, signedIn, clock>>

\* authCallbackFailure, which clears the binding cookie, or the answer is lost.
FailCallback(k) ==
  /\ callback[k] # Idle
  /\ binding' \in {binding, [binding EXCEPT ![callback[k].browser] = None]}
  /\ EndCallback(k)
  /\ UNCHANGED <<rows, session, start, flow, signedIn, clock>>

\* MUTANT of Unconsumed: the UPDATE is by hash alone.
Present(s) == rows[s] # NoRow

Unconsumed(s) == rows[s] # NoRow /\ ~rows[s].consumed

\* consumeState's SELECT; a row that is not there or spent is FailCallback.
FindState(k) ==
  /\ callback[k].step = "bound"
  /\ rows[callback[k].state] # NoRow /\ ~rows[callback[k].state].consumed
  /\ callback' = [callback EXCEPT ![k].step = "found"]
  /\ UNCHANGED <<rows, binding, session, start, flow, signedIn, clock>>

\* A start's transaction holds the row it deletes.
Locked(s) == \E x \in Starts : start[x].step = "pruned" /\ s \in start[x].stale

\* MUTANT of InTime: the state may be as old as its row.
EverInTime(k) == TRUE

\* assertStoredStateUsable, on the row the UPDATE returns.
InTime(k) == callback[k].now < rows[callback[k].state].expiresAt

\* consumeState's UPDATE: an expired state is spent as well.
ConsumeState(k) ==
  /\ callback[k].step = "found"
  /\ Unconsumed(callback[k].state) /\ ~Locked(callback[k].state)
  /\ rows' = [rows EXCEPT ![callback[k].state].consumed = TRUE]
  /\ IF InTime(k)
     THEN callback' = [callback EXCEPT ![k].step = "consumed"] /\ UNCHANGED binding
     ELSE EndCallback(k) /\ binding' \in {binding, [binding EXCEPT ![callback[k].browser] = None]}
  /\ UNCHANGED <<session, start, flow, signedIn, clock>>

\* exchangeCodeForTokens, verifyTokens and resolveAuthenticatedIdentity have
\* succeeded: the session is there, and its cookie set unless the answer is lost.
SignIn(k) ==
  /\ callback[k].step = "consumed"
  /\ \E accounts \in Identities[callback[k].code][callback[k].state] :
       \/ /\ session' = [session EXCEPT ![callback[k].browser] = accounts]
          /\ binding' = [binding EXCEPT ![callback[k].browser] = None]
       \/ UNCHANGED <<session, binding>>
  /\ signedIn' = [signedIn EXCEPT ![callback[k].state] = @ + 1]
  /\ EndCallback(k)
  /\ UNCHANGED <<rows, start, flow, clock>>

Tick ==
  /\ clock < MaxClock
  /\ clock' = clock + 1
  /\ UNCHANGED <<rows, binding, session, start, callback, flow, signedIn>>

-----------------------------------------------------------------------------
StartStep(x) ==
  \/ \E b \in Browsers, s \in States : BeginStart(x, b, s)
  \/ Prune(x)
  \/ StoreState(x)
  \/ AnswerStart(x)
  \/ FailStart(x)

CallbackStep(k) ==
  \/ \E b \in Browsers, s, c \in States : BeginCallback(k, b, s, c)
  \/ FindState(k)
  \/ ConsumeState(k)
  \/ SignIn(k)
  \/ FailCallback(k)

SignInNext ==
  \/ \E x \in Starts : StartStep(x)
  \/ \E k \in Callbacks : CallbackStep(k)
  \/ \E b \in Browsers : ClearBinding(b)
  \/ Tick

SignInSpec == SignInInit /\ [][SignInNext]_signInVars

-----------------------------------------------------------------------------
(* Properties *)

\* Anonymous starts never leave more rows than the capacity, however many count
\* the table at the same time.
WithinCapacity == Cardinality(Stored) <= Capacity

\* A state opens one session at most, however often and from however many tabs
\* its callback arrives, and though starts delete the rows that are spent.
StateSpentOnce == \A s \in States : signedIn[s] <= 1

\* A browser is only ever signed in by a sign-in it has started itself: neither the
\* subject nor the email of its session is another sign-in's, whatever code it brings
\* back and whatever the provider then answers.
SignedInWhereStarted ==
  \A b \in Browsers : \A account \in session[b] : flow[account].browser = b

\* Nobody is asked for at the provider with a state that had expired when the
\* callback arrived.
ConsumedInTime ==
  \A k \in Callbacks :
    callback[k].step = "consumed" => callback[k].now < flow[callback[k].state].at + Lifetime
=============================================================================
