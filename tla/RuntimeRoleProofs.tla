-------------------------- MODULE RuntimeRoleProofs --------------------------
(***************************************************************************)
(* Theorems about the role the platform runs as: those of RuntimeActivation, *)
(* which gives it a password and LOGIN, and those of DatabasePosture, which   *)
(* checks what it may do.  The two share no variable.                         *)
(***************************************************************************)
EXTENDS RuntimeActivation, DatabasePosture, TLAPS

(***************************************************************************)
(* RuntimeActivation: every part of ActivationSafe.                         *)
(*                                                                         *)
(* The first half is about one psql call (DockerPsql).  CallOK holds of a   *)
(* call whatever happens to it: Rounds counts the rounds its cleanup has    *)
(* had against those that may still be started, Settlement says what must   *)
(* have come about before the call settles.  One lemma per event shows that *)
(* the event keeps CallOK and does not undo what is final: a settlement, a  *)
(* psql that cannot run any more, a change that psql has made.              *)
(*                                                                         *)
(* The second half is the attempt.  AInv is CallOK and: Tracked, while the  *)
(* tracker says that nothing has begun the role is dormant and no psql can  *)
(* change that; Quiesced, an installation that has settled has stopped;     *)
(* Truth, what the outcome told says of the role; Evidence, no permit       *)
(* outlives the attestation it was granted on, nor the endpoint's move by   *)
(* more than its validity.  Placed and Numbered tie them to the place the   *)
(* wrapper is at and to the phase of the journal.                           *)
(***************************************************************************)

(***************************************************************************)
(* A psql call.                                                              *)
(***************************************************************************)
One(p) == IF p THEN 1 ELSE 0

\* The type of a call, its counters not yet bounded.
CallShape ==
  [job: Jobs \cup {"none"}, client: {"none", "unborn", "running", "closed"},
   container: Containers, code: Codes, term: BOOLEAN,
   clean: {"idle", "rm", "ps", "confirmed"}, attempts: Nat, retries: Nat,
   timeout: BOOLEAN, grace: BOOLEAN, succeeded: BOOLEAN, flag: BOOLEAN,
   said: {"none", "first", "second"},
   settled: {"no", "resolved", "failed", "failed_clean"}]

\* Rounds of the cleanup that may still be started: those put on the clock, one when a
\* termination begins, one when the client closes, one when the grace period is over.
Spare(x) == x.retries + One(~x.term) + One(Open(x)) + One(x.grace)

\* A round under way will be followed by two at most, and no call sees more than
\* Attempts + 2 of them.
Rounds(x) ==
  /\ Spare(x) + One(x.clean \in {"rm", "ps"}) <= 2
  /\ x.attempts + Spare(x) <= Attempts + 2

\* No psql of the call changes anything from now on: its client is gone, and its container
\* is not at work.
Stopped(x) == ~Open(x) /\ x.container \in {"none", "asked", "made", "exited", "gone"}

\* What a call has come to before it settles, and what it says when it does.
Settlement(x) ==
  /\ x.clean # "idle" \/ x.grace \/ x.retries # 0 => x.term
  /\ x.clean = "confirmed" =>
       /\ x.settled # "no" /\ x.container \notin {"psql", "changed", "exited"}
       /\ ~x.grace /\ x.retries = 0
  /\ x.settled # "no" => ~x.timeout /\ ~Open(x) /\ (x.term => x.clean = "confirmed")
  /\ ~x.flag => x.container = "none" /\ x.client \in {"unborn", "closed"}
  /\ x.client = "unborn" => x.container = "none"
  /\ x.code = "mismatch" => x.container \in {"exited", "gone"}
  /\ x.settled = "failed_clean" /\ x.job = "install" => Stopped(x)

\* What psql has done to the role it could still have done.
Changed(x) ==
  /\ x.container \in {"changed", "exited", "gone"} /\ x.code # "mismatch"
  /\ x.flag /\ x.settled # "failed_clean"

CallOK(x) == x \in CallShape /\ Rounds(x) /\ Settlement(x)

\* What no handler of the script touches: the daemon and psql do.
Handles(x, y) ==
  /\ y \in CallShape
  /\ y.job = x.job /\ y.container = x.container /\ y.code = x.code /\ y.said = x.said

\* A round is started, unless one is under way or none is needed.
RoundStarts(x, y) ==
  IF x.clean = "idle" THEN y.clean = "rm" /\ y.attempts = x.attempts + 1
  ELSE y.clean = x.clean /\ y.attempts = x.attempts

\* A round of docker rm and docker ps is started, unless one is under way.
LEMMA StartOK ==
  ASSUME NEW x \in CallShape, NEW y, y = StartCleanupAttempt(x)
  PROVE  /\ Handles(x, y) /\ RoundStarts(x, y)
         /\ y.client = x.client /\ y.term = x.term /\ y.retries = x.retries /\ y.timeout = x.timeout
         /\ y.grace = x.grace /\ y.flag = x.flag /\ y.settled = x.settled
<1>1. CASE x.clean = "idle"
  <2> DEFINE n == x.attempts + 1
  <2>0. n \in Nat
    BY DEF CallShape
  <2>1. y = [x EXCEPT !.clean = "rm", !.attempts = n]
    BY <1>1 DEF StartCleanupAttempt
  <2>2. y.attempts = n
    BY <2>1 DEF CallShape
  <2> HIDE DEF n
  <2>3. y \in CallShape
    BY <2>0, <2>1 DEF CallShape
  <2> USE DEF n
  <2> QED
    BY <1>1, <2>1, <2>2, <2>3 DEF Handles, RoundStarts, CallShape
<1>2. CASE x.clean # "idle"
  BY <1>2 DEF CallShape, StartCleanupAttempt, Handles, RoundStarts
<1> QED
  BY <1>1, <1>2

\* begin, of a call nobody is terminating: SIGTERM and a grace period, or a round at once.
LEMMA BeginOK ==
  ASSUME NEW x \in CallShape, NEW s \in BOOLEAN, NEW y, y = Begin(x, s), ~x.term, x.clean # "confirmed"
  PROVE  /\ Handles(x, y)
         /\ y.client = x.client /\ y.term /\ y.retries = x.retries /\ y.timeout = x.timeout
         /\ y.flag = x.flag /\ y.settled = x.settled
         /\ IF x.client = "running" /\ s
            THEN y.grace /\ y.clean = x.clean /\ y.attempts = x.attempts
            ELSE y.grace = x.grace /\ RoundStarts(x, y)
<1>1. CASE x.client = "running" /\ s
  BY <1>1 DEF CallShape, Begin, Handles
<1>2. CASE ~(x.client = "running" /\ s)
  <2> DEFINE z == [x EXCEPT !.term = TRUE]
  <2>1. z \in CallShape
    BY DEF CallShape
  <2>2. y = StartCleanupAttempt(z)
    BY <1>2 DEF Begin
  <2>3. z.job = x.job /\ z.container = x.container /\ z.code = x.code /\ z.said = x.said
        /\ z.client = x.client /\ z.term /\ z.retries = x.retries /\ z.timeout = x.timeout
         /\ z.flag = x.flag /\ z.settled = x.settled /\ z.grace = x.grace
         /\ z.clean = x.clean /\ z.attempts = x.attempts
    BY DEF CallShape
  <2> HIDE DEF z
  <2> QED
    BY <1>2, <2>1, <2>2, <2>3, StartOK DEF Handles, RoundStarts
<1> QED
  BY <1>1, <1>2

\* A round is over, and another is put on the clock while there are attempts left.
LEMMA RetryOK ==
  ASSUME NEW x \in CallShape, NEW y, y = ScheduleCleanupRetry(x)
  PROVE  /\ Handles(x, y)
         /\ y.client = x.client /\ y.term = x.term /\ y.timeout = x.timeout /\ y.attempts = x.attempts
         /\ y.grace = x.grace /\ y.flag = x.flag /\ y.settled = x.settled /\ y.clean = "idle"
         /\ y.retries = IF x.attempts >= Attempts THEN x.retries ELSE x.retries + 1
<1>1. CASE x.attempts >= Attempts
  BY <1>1 DEF CallShape, ScheduleCleanupRetry, Handles
<1>2. CASE ~(x.attempts >= Attempts)
  <2> DEFINE n == x.retries + 1
  <2>1. n \in Nat
    BY DEF CallShape
  <2>2. y = [x EXCEPT !.clean = "idle", !.retries = n]
    BY <1>2 DEF ScheduleCleanupRetry
  <2>3. y.retries = n
    BY <2>2 DEF CallShape
  <2> HIDE DEF n
  <2>4. y \in CallShape
    BY <2>1, <2>2 DEF CallShape
  <2> USE DEF n
  <2> QED
    BY <1>2, <2>2, <2>3, <2>4 DEF Handles, CallShape
<1> QED
  BY <1>1, <1>2

\* The first settlement counts.
LEMMA FinishOK ==
  ASSUME NEW x \in CallShape, x.settled = "no", NEW e \in BOOLEAN, NEW begun \in BOOLEAN,
         NEW y, y = Finish(x, e, begun)
  PROVE  /\ Handles(x, y)
         /\ y.client = x.client /\ y.term = x.term /\ y.retries = x.retries /\ ~y.timeout
         /\ y.attempts = x.attempts /\ y.clean = x.clean /\ y.grace = x.grace /\ y.flag = x.flag
         /\ y.settled = IF ~e THEN "resolved" ELSE IF begun THEN "failed" ELSE "failed_clean"
<1>1. CASE ~e
  BY <1>1 DEF CallShape, Finish, Handles
<1>2. CASE e /\ begun
  BY <1>2 DEF CallShape, Finish, Handles
<1>3. CASE e /\ ~begun
  BY <1>3 DEF CallShape, Finish, Handles
<1> QED
  BY <1>1, <1>2, <1>3

\* The client has closed: a termination under way goes on with the container.
LEMMA ClosedOK ==
  ASSUME NEW x \in CallShape, NEW y, y = ChildDidClose(x)
  PROVE  /\ Handles(x, y)
         /\ y.client = "closed" /\ y.term = x.term /\ y.retries = x.retries /\ y.timeout = x.timeout
         /\ y.flag = x.flag /\ y.settled = x.settled
         /\ IF x.term THEN ~y.grace /\ RoundStarts(x, y)
            ELSE y.grace = x.grace /\ y.clean = x.clean /\ y.attempts = x.attempts
<1>1. CASE ~x.term
  BY <1>1 DEF CallShape, ChildDidClose, Handles
<1>2. CASE x.term
  <2> DEFINE closed == [x EXCEPT !.client = "closed"]
             z == [closed EXCEPT !.grace = FALSE]
  <2>1. closed \in CallShape
    BY DEF CallShape
  <2>2. closed.job = x.job /\ closed.container = x.container /\ closed.code = x.code /\ closed.said = x.said
        /\ closed.client = "closed" /\ closed.term = x.term /\ closed.retries = x.retries
        /\ closed.timeout = x.timeout /\ closed.flag = x.flag /\ closed.settled = x.settled
        /\ closed.clean = x.clean /\ closed.attempts = x.attempts
    BY DEF CallShape
  <2>3. y = StartCleanupAttempt(z)
    BY <1>2, <2>2 DEF ChildDidClose
  <2> HIDE DEF closed
  <2>4. z \in CallShape
    BY <2>1 DEF CallShape
  <2>5. z.job = x.job /\ z.container = x.container /\ z.code = x.code /\ z.said = x.said
        /\ z.client = "closed" /\ z.term = x.term /\ z.retries = x.retries
        /\ z.timeout = x.timeout /\ z.flag = x.flag /\ z.settled = x.settled
        /\ z.clean = x.clean /\ z.attempts = x.attempts /\ ~z.grace
    BY <2>1, <2>2 DEF CallShape
  <2> HIDE DEF z
  <2> QED
    <3>1. Handles(z, y) /\ RoundStarts(z, y) /\ y.client = z.client /\ y.term = z.term
          /\ y.retries = z.retries /\ y.timeout = z.timeout /\ y.grace = z.grace
          /\ y.flag = z.flag /\ y.settled = z.settled
      BY <2>3, <2>4, StartOK
    <3> QED
      BY <1>2, <2>5, <3>1 DEF Handles, RoundStarts
<1> QED
  BY <1>1, <1>2

\* What an event of a call leaves to those that follow.
Follows(x, y) ==
  /\ CallOK(y) /\ Handles(x, y)
  /\ x.settled # "no" => y.settled = x.settled
  /\ Stopped(x) => Stopped(y)
  /\ x.job = "install" /\ Changed(x) => Changed(y)

\* A call that this event settles cannot change the role any more.
SettlesStopped(x, y) == x.job = "install" /\ x.settled = "no" /\ y.settled # "no" => Stopped(y)

\* begin keeps an unsettled call sound and leaves it unsettled.
LEMMA TerminateOK ==
  ASSUME NEW x, CallOK(x), x.settled = "no", NEW s \in BOOLEAN, NEW y, y = Begin(x, s)
  PROVE  Follows(x, y) /\ y.settled = "no"
<1>1. CASE x.term \/ x.clean = "confirmed"
  <2>1. y = x
    BY <1>1 DEF Begin
  <2> QED
    BY <2>1 DEF Follows, Handles, CallOK
<1>2. CASE ~(x.term \/ x.clean = "confirmed")
  <2>1. /\ Handles(x, y)
        /\ y.client = x.client /\ y.term /\ y.retries = x.retries /\ y.timeout = x.timeout
        /\ y.flag = x.flag /\ y.settled = x.settled
        /\ IF x.client = "running" /\ s
           THEN y.grace /\ y.clean = x.clean /\ y.attempts = x.attempts
           ELSE y.grace = x.grace /\ RoundStarts(x, y)
    BY <1>2, BeginOK DEF CallOK
  <2>2. x.clean = "idle" /\ ~x.term /\ x.settled = "no"
    BY <1>2 DEF CallOK, Settlement
  <2>3. /\ x.retries \in Nat /\ x.attempts \in Nat /\ x.grace \in BOOLEAN
        /\ y.retries \in Nat /\ y.attempts \in Nat /\ y.grace \in BOOLEAN
    BY <2>1 DEF CallOK, CallShape, Handles
  <2>4. Rounds(y)
    BY <2>1, <2>2, <2>3, AttemptsAssumption DEF CallOK, Rounds, Spare, One, Open, RoundStarts
  <2>5. Settlement(y)
    BY <2>1, <2>2 DEF CallOK, Settlement, Handles, RoundStarts, Open, Stopped
  <2> QED
    BY <2>1, <2>2, <2>4, <2>5 DEF Follows, CallOK, Handles, Stopped, Open, Changed
<1> QED
  BY <1>1, <1>2

\* The timeout ends the call without settling it.
LEMMA TimeoutOK ==
  ASSUME NEW x, CallOK(x), x.timeout, NEW s \in BOOLEAN, NEW y, y = TimeoutEvent(x, s)
  PROVE  Follows(x, y) /\ SettlesStopped(x, y)
<1> DEFINE z == [x EXCEPT !.timeout = FALSE, !.succeeded = FALSE, !.flag = TRUE]
<1>1. x.settled = "no"
  BY DEF CallOK, Settlement
<1>2. y = Begin(z, s)
  BY DEF TimeoutEvent
<1>3. Follows(x, z) /\ z.settled = "no"
  <2>1. z \in CallShape
    BY DEF CallOK, CallShape
  <2>2. /\ z.job = x.job /\ z.container = x.container /\ z.code = x.code /\ z.said = x.said
        /\ z.client = x.client /\ z.term = x.term /\ z.retries = x.retries /\ ~z.timeout
        /\ z.flag /\ z.settled = x.settled /\ z.grace = x.grace /\ z.clean = x.clean
        /\ z.attempts = x.attempts
    BY DEF CallOK, CallShape
  <2> HIDE DEF z
  <2>3. Rounds(z)
    BY <2>2 DEF CallOK, Rounds, Spare, Open, One
  <2>4. Settlement(z)
    BY <1>1, <2>2 DEF CallOK, Settlement, Open, Stopped
  <2> QED
    BY <1>1, <2>1, <2>2, <2>3, <2>4 DEF Follows, Handles, CallOK, Stopped, Open, Changed
<1> HIDE DEF z
<1>4. Follows(z, y) /\ y.settled = "no"
  BY <1>2, <1>3, TerminateOK DEF Follows
<1> QED
  BY <1>3, <1>4 DEF Follows, Handles, SettlesStopped

\* A failure of stdin, or too much output, ends the call without settling it.
LEMMA TroubleOK ==
  ASSUME NEW x, CallOK(x), x.client = "running", NEW s \in BOOLEAN, NEW y, y = TroubleEvent(x, s)
  PROVE  Follows(x, y) /\ SettlesStopped(x, y)
<1> DEFINE z == [x EXCEPT !.succeeded = FALSE, !.flag = TRUE]
<1>1. x.settled = "no"
  BY DEF CallOK, Settlement, Open
<1>2. y = Begin(z, s)
  BY DEF TroubleEvent
<1>3. Follows(x, z) /\ z.settled = "no"
  <2>1. z \in CallShape
    BY DEF CallOK, CallShape
  <2>2. /\ z.job = x.job /\ z.container = x.container /\ z.code = x.code /\ z.said = x.said
        /\ z.client = x.client /\ z.term = x.term /\ z.retries = x.retries
        /\ z.flag /\ z.settled = x.settled /\ z.grace = x.grace /\ z.clean = x.clean
        /\ z.attempts = x.attempts
    BY DEF CallOK, CallShape
  <2> HIDE DEF z
  <2>3. Rounds(z)
    BY <2>2 DEF CallOK, Rounds, Spare, Open, One
  <2>4. Settlement(z)
    BY <1>1, <2>2 DEF CallOK, Settlement, Open, Stopped
  <2> QED
    BY <1>1, <2>1, <2>2, <2>3, <2>4 DEF Follows, Handles, CallOK, Stopped, Open, Changed
<1> HIDE DEF z
<1>4. Follows(z, y) /\ y.settled = "no"
  BY <1>2, <1>3, TerminateOK DEF Follows
<1> QED
  BY <1>3, <1>4 DEF Follows, Handles, SettlesStopped

\* A client that could not be spawned has no container, so nothing has changed.
LEMMA SpawnErrorOK ==
  ASSUME NEW x, CallOK(x), x.client = "running", x.container = "none", NEW y, y = SpawnErrorEvent(x)
  PROVE  Follows(x, y) /\ SettlesStopped(x, y)
<1> DEFINE u == [x EXCEPT !.client = "unborn", !.succeeded = FALSE]
           z == [u EXCEPT !.flag = FALSE]
<1>1. x.settled = "no"
  BY DEF CallOK, Settlement, Open
<1>2. u \in CallShape
  BY DEF CallOK, CallShape
<1>3. /\ u.job = x.job /\ u.container = x.container /\ u.code = x.code /\ u.said = x.said
      /\ u.client = "unborn" /\ u.term = x.term /\ u.retries = x.retries
      /\ u.flag = x.flag /\ u.settled = x.settled /\ u.grace = x.grace /\ u.clean = x.clean
      /\ u.attempts = x.attempts
  BY DEF CallOK, CallShape
<1>4. IF x.term THEN y = u ELSE y = Begin(z, FALSE)
  BY DEF SpawnErrorEvent
<1>5. Follows(x, u)
  <2> HIDE DEF u
  <2>1. Rounds(u)
    BY <1>3 DEF CallOK, Rounds, Spare, Open, One
  <2>2. Settlement(u)
    BY <1>1, <1>3 DEF CallOK, Settlement, Open, Stopped
  <2> QED
    BY <1>1, <1>2, <1>3, <2>1, <2>2 DEF Follows, Handles, CallOK, Stopped, Open, Changed
<1>6. Follows(x, z) /\ z.settled = "no"
  <2> HIDE DEF u
  <2>1. z \in CallShape
    BY <1>2 DEF CallShape
  <2>2. /\ z.job = x.job /\ z.container = x.container /\ z.code = x.code /\ z.said = x.said
        /\ z.client = "unborn" /\ z.term = x.term /\ z.retries = x.retries
        /\ ~z.flag /\ z.settled = x.settled /\ z.grace = x.grace /\ z.clean = x.clean
        /\ z.attempts = x.attempts
    BY <1>2, <1>3 DEF CallShape
  <2> HIDE DEF z
  <2>3. Rounds(z)
    BY <2>2 DEF CallOK, Rounds, Spare, Open, One
  <2>4. Settlement(z)
    BY <1>1, <2>2 DEF CallOK, Settlement, Open, Stopped
  <2> QED
    BY <1>1, <2>1, <2>2, <2>3, <2>4 DEF Follows, Handles, CallOK, Stopped, Open, Changed
<1>7. CASE x.term
  BY <1>1, <1>3, <1>4, <1>5, <1>7 DEF SettlesStopped
<1>8. CASE ~x.term
  <2> HIDE DEF z
  <2>1. Follows(z, y) /\ y.settled = "no"
    BY <1>4, <1>6, <1>8, TerminateOK DEF Follows
  <2> QED
    BY <1>6, <2>1 DEF Follows, Handles, SettlesStopped
<1> QED
  BY <1>7, <1>8

\* The client closes with the code its container ended with, or with a failure
\* of its own; SettlesStopped only if it did not leave a container at work.
LEMMA CloseOK ==
  ASSUME NEW x, CallOK(x), Open(x), NEW code \in {x.code, "fail"}, NEW y, y = CloseEvent(x, code)
  PROVE  /\ Follows(x, y)
         /\ x.container \notin {"psql", "changed"} \/ x.term => SettlesStopped(x, y)
<1> DEFINE c == ChildDidClose(x)
<1>1. x.settled = "no" /\ x \in CallShape
  BY DEF CallOK, Settlement
<1>2. /\ Handles(x, c)
      /\ c.client = "closed" /\ c.term = x.term /\ c.retries = x.retries /\ c.timeout = x.timeout
      /\ c.flag = x.flag /\ c.settled = x.settled
      /\ IF x.term THEN ~c.grace /\ RoundStarts(x, c)
         ELSE c.grace = x.grace /\ c.clean = x.clean /\ c.attempts = x.attempts
  BY <1>1, ClosedOK
<1>3. y = IF x.job = "install"
          THEN IF c.term THEN c ELSE Finish(c, code # "ok", code # "mismatch")
          ELSE LET ended == [c EXCEPT !.succeeded = ~c.term /\ code = "ok"]
               IN IF ended.succeeded THEN ConfirmAbsence(ended) ELSE Begin(ended, FALSE)
  BY DEF CloseEvent
<1> HIDE DEF c
<1>4. /\ x.retries \in Nat /\ x.attempts \in Nat /\ x.grace \in BOOLEAN /\ x.term \in BOOLEAN
      /\ c.retries \in Nat /\ c.attempts \in Nat /\ c.grace \in BOOLEAN
      /\ x.clean # "confirmed" /\ x.clean \in {"idle", "rm", "ps", "confirmed"}
  BY <1>1, <1>2 DEF CallOK, Settlement, CallShape, Handles
<1>5. Rounds(c) /\ (x.term => Spare(c) + One(c.clean \in {"rm", "ps"}) <= 2)
  BY <1>2, <1>4, AttemptsAssumption DEF CallOK, Rounds, Spare, One, Open, RoundStarts
<1>6. Settlement(c)
  BY <1>1, <1>2, <1>4 DEF CallOK, Settlement, Handles, RoundStarts, Open, Stopped
<1>7. Follows(x, c)
  BY <1>1, <1>2, <1>5, <1>6 DEF Follows, CallOK, Handles, Stopped, Open, Changed
<1>8. CASE x.job = "install" /\ x.term
  BY <1>1, <1>2, <1>3, <1>7, <1>8 DEF SettlesStopped
<1>9. CASE x.job = "install" /\ ~x.term
  <2>1. y = Finish(c, code # "ok", code # "mismatch")
    BY <1>2, <1>3, <1>9
  <2>2. /\ Handles(c, y)
        /\ y.client = c.client /\ y.term = c.term /\ y.retries = c.retries /\ ~y.timeout
        /\ y.attempts = c.attempts /\ y.clean = c.clean /\ y.grace = c.grace /\ y.flag = c.flag
        /\ y.settled = IF code = "ok" THEN "resolved" ELSE IF code # "mismatch" THEN "failed" ELSE "failed_clean"
    <3> DEFINE error == code # "ok"
               begun == code # "mismatch"
    <3>1. error \in BOOLEAN /\ begun \in BOOLEAN /\ c \in CallShape /\ c.settled = "no"
      BY <1>1, <1>2 DEF Handles
    <3>2. y = Finish(c, error, begun)
      BY <2>1
    <3> HIDE DEF error, begun
    <3>3. /\ Handles(c, y)
          /\ y.client = c.client /\ y.term = c.term /\ y.retries = c.retries /\ ~y.timeout
          /\ y.attempts = c.attempts /\ y.clean = c.clean /\ y.grace = c.grace /\ y.flag = c.flag
          /\ y.settled = IF ~error THEN "resolved" ELSE IF begun THEN "failed" ELSE "failed_clean"
      BY <3>1, <3>2, FinishOK
    <3> QED
      BY <3>3 DEF error, begun
  <2>3. Rounds(y)
    BY <1>5, <2>2 DEF Rounds, Spare, One, Open
  <2>4. y.settled = "failed_clean" => Stopped(y)
    BY <1>2, <2>2 DEF CallOK, Settlement, Stopped, Open, Handles
  <2>5. Settlement(y)
    BY <1>1, <1>2, <1>6, <1>9, <2>2, <2>4 DEF Settlement, Handles, Open
  <2>6. Changed(c) => Changed(y)
    BY <1>2, <2>2 DEF Changed, Handles
  <2>7. x.container \notin {"psql", "changed"} => Stopped(y)
    BY <1>1, <1>2, <2>2 DEF Stopped, Open, Handles, CallShape, Containers
  <2> QED
    BY <1>1, <1>2, <1>7, <1>9, <2>2, <2>3, <2>5, <2>6, <2>7
       DEF Follows, CallOK, Handles, Stopped, Open, SettlesStopped
<1>10. CASE x.job # "install"
  <2> DEFINE e == [c EXCEPT !.succeeded = ~c.term /\ code = "ok"]
  <2>1. IF e.succeeded THEN y = ConfirmAbsence(e) ELSE y = Begin(e, FALSE)
    BY <1>3, <1>10
  <2>2. e \in CallShape
    BY <1>2 DEF Handles, CallShape
  <2>3. /\ e.job = c.job /\ e.container = c.container /\ e.code = c.code /\ e.said = c.said
        /\ e.client = c.client /\ e.term = c.term /\ e.retries = c.retries /\ e.timeout = c.timeout
        /\ e.flag = c.flag /\ e.settled = c.settled /\ e.grace = c.grace /\ e.clean = c.clean
        /\ e.attempts = c.attempts /\ (e.succeeded => ~c.term)
    BY <1>2 DEF Handles, CallShape
  <2> HIDE DEF e
  <2>4. Rounds(e) /\ Settlement(e)
    BY <1>5, <1>6, <2>3 DEF Rounds, Spare, One, Open, Settlement, Stopped
  <2>5. CallOK(e) /\ e.settled = "no" /\ Handles(x, e)
    BY <1>1, <1>2, <2>2, <2>3, <2>4 DEF CallOK, Handles
  <2>6. CASE e.succeeded
    <3>1. ~e.term /\ e.clean = "idle"
      BY <1>2, <2>3, <2>5, <2>6 DEF CallOK, Settlement
    <3>2. y = [e EXCEPT !.term = TRUE, !.clean = "ps"]
      BY <2>1, <2>6, <3>1 DEF ConfirmAbsence
    <3>3. y \in CallShape
      BY <2>2, <3>2 DEF CallShape
    <3>4. /\ y.job = e.job /\ y.container = e.container /\ y.code = e.code /\ y.said = e.said
          /\ y.client = e.client /\ y.term /\ y.retries = e.retries /\ y.timeout = e.timeout
          /\ y.flag = e.flag /\ y.settled = e.settled /\ y.grace = e.grace /\ y.clean = "ps"
          /\ y.attempts = e.attempts
      BY <2>2, <3>2 DEF CallShape
    <3>5. Rounds(y)
      <4>1. /\ e.retries \in Nat /\ e.attempts \in Nat /\ e.grace \in BOOLEAN
            /\ y.retries \in Nat /\ y.attempts \in Nat /\ y.grace \in BOOLEAN
        BY <2>2, <3>3 DEF CallShape
      <4> QED
        BY <2>4, <3>1, <3>4, <4>1, AttemptsAssumption DEF Rounds, Spare, One, Open
    <3>6. Settlement(y)
      BY <2>5, <3>4 DEF CallOK, Settlement, Open, Stopped
    <3> QED
      BY <1>1, <1>2, <1>10, <2>3, <2>5, <3>3, <3>4, <3>5, <3>6
         DEF Follows, CallOK, Handles, Stopped, Open, SettlesStopped
  <2>7. CASE ~e.succeeded
    <3>1. Follows(e, y) /\ y.settled = "no"
      BY <2>1, <2>5, <2>7, TerminateOK
    <3> QED
      BY <1>1, <1>2, <1>10, <2>3, <2>5, <3>1 DEF Follows, Handles, Stopped, Open, SettlesStopped
  <2> QED
    BY <2>6, <2>7
<1> QED
  BY <1>4, <1>8, <1>9, <1>10

\* What docker ps has told: the call settles, or the round was in vain.
LEMMA VerifiedOK ==
  ASSUME NEW x, CallOK(x), x.clean = "ps", NEW absent \in BOOLEAN, absent => Absent(x),
         NEW y, y = VerificationDone(x, absent)
  PROVE  Follows(x, y) /\ SettlesStopped(x, y)
<1>1. x \in CallShape /\ x.term /\ x.settled = "no"
  BY DEF CallOK, Settlement
<1>2. /\ x.retries \in Nat /\ x.attempts \in Nat /\ x.grace \in BOOLEAN /\ x.flag \in BOOLEAN
      /\ x.succeeded \in BOOLEAN
  BY <1>1 DEF CallShape
<1>3. CASE absent /\ ~Open(x)
  <2> DEFINE z == [x EXCEPT !.clean = "confirmed", !.grace = FALSE, !.retries = 0]
             error == IF x.job = "probe" THEN ~z.succeeded ELSE TRUE
             begun == IF x.job = "probe" THEN FALSE ELSE z.flag
  <2>1. z \in CallShape
    BY <1>1 DEF CallShape
  <2>2. /\ z.job = x.job /\ z.container = x.container /\ z.code = x.code /\ z.said = x.said
        /\ z.client = x.client /\ z.term = x.term /\ z.retries = 0 /\ z.timeout = x.timeout
        /\ z.flag = x.flag /\ z.settled = x.settled /\ ~z.grace /\ z.clean = "confirmed"
        /\ z.attempts = x.attempts /\ z.succeeded = x.succeeded
    BY <1>1 DEF CallShape
  <2>3. y = OnConfirmed(z)
    BY <1>3 DEF VerificationDone
  <2>4. y = Finish(z, error, begun)
    BY <2>2, <2>3 DEF OnConfirmed
  <2> HIDE DEF z
  <2>5. error \in BOOLEAN /\ begun \in BOOLEAN
    BY <1>2, <2>2
  <2>6. x.job # "probe" => error /\ begun = x.flag
    BY <2>2
  <2> HIDE DEF error, begun
  <2>7. /\ Handles(z, y)
        /\ y.client = z.client /\ y.term = z.term /\ y.retries = z.retries /\ ~y.timeout
        /\ y.attempts = z.attempts /\ y.clean = z.clean /\ y.grace = z.grace /\ y.flag = z.flag
        /\ y.settled = IF ~error THEN "resolved" ELSE IF begun THEN "failed" ELSE "failed_clean"
    <3>1. z.settled = "no"
      BY <1>1, <2>2
    <3> QED
      BY <2>1, <2>4, <2>5, <3>1, FinishOK
  <2>8. ~Open(y) /\ y.container \in {"none", "asked", "gone"} /\ y.settled # "no"
    BY <1>3, <2>2, <2>7 DEF Open, Absent, Handles
  <2>9. Rounds(y)
    BY <1>1, <1>2, <2>2, <2>7, AttemptsAssumption DEF CallOK, Rounds, Spare, One, Open
  <2>10. Settlement(y)
    BY <1>1, <2>2, <2>7, <2>8 DEF CallOK, Settlement, Open, Stopped, Handles
  <2>11. x.job = "install" /\ Changed(x) => Changed(y)
    BY <2>2, <2>6, <2>7 DEF Changed, Handles
  <2> QED
    BY <1>1, <2>2, <2>7, <2>8, <2>9, <2>10, <2>11 DEF Follows, CallOK, Handles, Stopped, SettlesStopped
<1>4. CASE absent /\ Open(x)
  <2>1. y = [x EXCEPT !.clean = "idle"]
    BY <1>4 DEF VerificationDone
  <2>2. y \in CallShape
    BY <1>1, <2>1 DEF CallShape
  <2>3. /\ y.job = x.job /\ y.container = x.container /\ y.code = x.code /\ y.said = x.said
        /\ y.client = x.client /\ y.term = x.term /\ y.retries = x.retries /\ y.timeout = x.timeout
        /\ y.flag = x.flag /\ y.settled = x.settled /\ y.grace = x.grace /\ y.clean = "idle"
        /\ y.attempts = x.attempts
    BY <1>1, <2>1 DEF CallShape
  <2>4. Rounds(y)
    BY <1>1, <1>2, <2>3, AttemptsAssumption DEF CallOK, Rounds, Spare, One, Open
  <2>5. Settlement(y)
    BY <1>1, <2>3 DEF CallOK, Settlement, Open, Stopped
  <2> QED
    BY <1>1, <2>2, <2>3, <2>4, <2>5 DEF Follows, CallOK, Handles, Stopped, Open, Changed, SettlesStopped
<1>5. CASE ~absent
  <2>1. y = ScheduleCleanupRetry(x)
    BY <1>5 DEF VerificationDone
  <2>2. /\ Handles(x, y)
        /\ y.client = x.client /\ y.term = x.term /\ y.timeout = x.timeout /\ y.attempts = x.attempts
        /\ y.grace = x.grace /\ y.flag = x.flag /\ y.settled = x.settled /\ y.clean = "idle"
        /\ y.retries = IF x.attempts >= Attempts THEN x.retries ELSE x.retries + 1
    BY <1>1, <2>1, RetryOK
  <2>3. Rounds(y)
    BY <1>1, <1>2, <2>2, AttemptsAssumption DEF CallOK, Rounds, Spare, One, Open
  <2>4. Settlement(y)
    BY <1>1, <2>2 DEF CallOK, Settlement, Open, Stopped, Handles
  <2> QED
    BY <1>1, <2>2, <2>3, <2>4 DEF Follows, CallOK, Handles, Stopped, Open, Changed, SettlesStopped
<1> QED
  BY <1>3, <1>4, <1>5

\* The clock starts a round: the grace period is over, or a retry is due.
LEMMA GraceOK ==
  ASSUME NEW x, CallOK(x), x.grace, NEW y, y = StartCleanupAttempt([x EXCEPT !.grace = FALSE])
  PROVE  Follows(x, y) /\ SettlesStopped(x, y)
<1> DEFINE z == [x EXCEPT !.grace = FALSE]
<1>1. x \in CallShape /\ z \in CallShape
  BY DEF CallOK, CallShape
<1>2. /\ z.job = x.job /\ z.container = x.container /\ z.code = x.code /\ z.said = x.said
      /\ z.client = x.client /\ z.term = x.term /\ z.retries = x.retries /\ z.timeout = x.timeout
      /\ z.flag = x.flag /\ z.settled = x.settled /\ ~z.grace /\ z.clean = x.clean
      /\ z.attempts = x.attempts
  BY <1>1 DEF CallShape
<1>3. y = StartCleanupAttempt(z)
  OBVIOUS
<1> HIDE DEF z
<1>4. /\ Handles(z, y) /\ RoundStarts(z, y)
      /\ y.client = z.client /\ y.term = z.term /\ y.retries = z.retries /\ y.timeout = z.timeout
      /\ y.grace = z.grace /\ y.flag = z.flag /\ y.settled = z.settled
  BY <1>1, <1>3, StartOK
<1>5. /\ x.retries \in Nat /\ x.attempts \in Nat /\ x.clean \in {"idle", "rm", "ps", "confirmed"}
      /\ x.clean # "confirmed"
  BY <1>1 DEF CallShape, CallOK, Settlement
<1>6. Rounds(y)
  BY <1>2, <1>4, <1>5, AttemptsAssumption DEF CallOK, Rounds, Spare, One, Open, RoundStarts
<1>7. Settlement(y)
  <2>1. x.term => x.settled = "no"
    BY <1>5 DEF CallOK, Settlement
  <2>2. y.clean \in {"rm", "ps"}
    BY <1>2, <1>4, <1>5 DEF RoundStarts
  <2> QED
    BY <1>2, <1>4, <1>5, <2>1, <2>2 DEF CallOK, Settlement, Open, Stopped, Handles
<1> QED
  BY <1>2, <1>4, <1>6, <1>7 DEF Follows, CallOK, Handles, Stopped, Open, Changed, SettlesStopped

\* A retry that is due spends itself: the rounds still to come stay within their number.
LEMMA RetryFiresOK ==
  ASSUME NEW x, CallOK(x), x.retries > 0, NEW y, y = StartCleanupAttempt([x EXCEPT !.retries = @ - 1])
  PROVE  Follows(x, y) /\ SettlesStopped(x, y)
<1> DEFINE n == x.retries - 1
           z == [x EXCEPT !.retries = n]
<1>1. x \in CallShape /\ n \in Nat
  BY DEF CallOK, CallShape
<1>2. y = StartCleanupAttempt(z) /\ n = x.retries - 1
  OBVIOUS
<1> HIDE DEF n
<1>3. z \in CallShape
  BY <1>1 DEF CallShape
<1>4. /\ z.job = x.job /\ z.container = x.container /\ z.code = x.code /\ z.said = x.said
      /\ z.client = x.client /\ z.term = x.term /\ z.retries = n /\ z.timeout = x.timeout
      /\ z.flag = x.flag /\ z.settled = x.settled /\ z.grace = x.grace /\ z.clean = x.clean
      /\ z.attempts = x.attempts
  BY <1>1 DEF CallShape
<1> HIDE DEF z
<1>5. /\ Handles(z, y) /\ RoundStarts(z, y)
      /\ y.client = z.client /\ y.term = z.term /\ y.retries = z.retries /\ y.timeout = z.timeout
      /\ y.grace = z.grace /\ y.flag = z.flag /\ y.settled = z.settled
  BY <1>2, <1>3, StartOK
<1>6. /\ x.retries \in Nat /\ x.attempts \in Nat /\ x.clean \in {"idle", "rm", "ps", "confirmed"}
      /\ x.clean # "confirmed" /\ x.term
  BY <1>1 DEF CallShape, CallOK, Settlement
<1>7. Rounds(y)
  <2>1. /\ y.retries = x.retries - 1 /\ y.term = x.term /\ y.grace = x.grace /\ Open(y) = Open(x)
        /\ x.clean = "idle" => y.clean = "rm" /\ y.attempts = x.attempts + 1
        /\ x.clean # "idle" => y.clean = x.clean /\ y.attempts = x.attempts
    BY <1>2, <1>4, <1>5 DEF RoundStarts, Open
  <2>2. x.grace \in BOOLEAN /\ Open(x) \in BOOLEAN
    BY <1>1 DEF CallShape, Open
  <2>3. CASE x.clean = "idle"
    <3>1. Spare(y) = Spare(x) - 1
      <4> DEFINE term == One(~x.term)
                 open == One(Open(x))
                 grace == One(x.grace)
      <4>1. term \in Nat /\ open \in Nat /\ grace \in Nat
        BY DEF One
      <4>2. One(~y.term) = term /\ One(Open(y)) = open /\ One(y.grace) = grace
        BY <2>1
      <4> HIDE DEF term, open, grace
      <4>3. Spare(y) = x.retries - 1 + term + open + grace
        BY <2>1, <4>2 DEF Spare
      <4>4. Spare(x) = x.retries + term + open + grace
        BY DEF Spare, term, open, grace
      <4> QED
        BY <1>6, <4>1, <4>3, <4>4
    <3>2. One(y.clean \in {"rm", "ps"}) = 1 /\ One(x.clean \in {"rm", "ps"}) = 0 /\ Spare(x) \in Nat
      BY <1>6, <2>1, <2>2, <2>3 DEF Spare, One
    <3> QED
      BY <1>6, <2>1, <2>3, <3>1, <3>2, AttemptsAssumption DEF CallOK, Rounds
  <2>4. CASE x.clean # "idle"
    BY <1>6, <2>1, <2>2, <2>4, AttemptsAssumption DEF CallOK, Rounds, Spare, One
  <2> QED
    BY <2>3, <2>4
<1>8. Settlement(y)
  <2>1. x.settled = "no"
    BY <1>6 DEF CallOK, Settlement
  <2>2. y.clean \in {"rm", "ps"}
    BY <1>4, <1>5, <1>6 DEF RoundStarts
  <2> QED
    BY <1>4, <1>5, <1>6, <2>1, <2>2 DEF CallOK, Settlement, Open, Stopped, Handles
<1> QED
  BY <1>4, <1>5, <1>7, <1>8 DEF Follows, CallOK, Handles, Stopped, Open, Changed, SettlesStopped

\* What a step of anybody makes of a call.
Goes(x, y) ==
  /\ CallOK(y) /\ y.job = x.job
  /\ x.settled # "no" => y.settled = x.settled
  /\ Stopped(x) => Stopped(y)
  /\ x.job = "install" /\ Changed(x) => Changed(y)

\* An event of the script is a step of the call.
LEMMA EventGoes ==
  ASSUME NEW x, NEW y, Follows(x, y)
  PROVE  Goes(x, y)
BY DEF Follows, Goes, Handles

\* The daemon and psql touch only these.
Besides(x, y) ==
  /\ y \in CallShape /\ y.job = x.job
  /\ y.client = x.client /\ y.term = x.term /\ y.retries = x.retries /\ y.timeout = x.timeout
  /\ y.grace = x.grace /\ y.flag = x.flag /\ y.settled = x.settled /\ y.attempts = x.attempts

\* A step of the daemon or of psql keeps the call sound, if it revives no container that
\* cannot be revived.
LEMMA ContainerOK ==
  ASSUME NEW x, CallOK(x), NEW y, Besides(x, y),
         y.clean = x.clean \/ (x.clean = "rm" /\ y.clean = "ps"),
         y.code = "mismatch" => y.container \in {"exited", "gone"},
         ~x.flag \/ x.client = "unborn" => y.container = "none",
         x.clean = "confirmed" => y.container \notin {"psql", "changed", "exited"},
         Stopped(x) => y.container \in {"none", "asked", "made", "exited", "gone"},
         Changed(x) => y.container \in {"changed", "exited", "gone"} /\ y.code # "mismatch"
  PROVE  Goes(x, y) /\ SettlesStopped(x, y)
<1>1. Rounds(y)
  BY DEF CallOK, Rounds, Spare, One, Open, Besides
<1>2. Settlement(y)
  BY DEF CallOK, Settlement, Open, Stopped, Besides
<1> QED
  BY <1>1, <1>2 DEF Goes, CallOK, Besides, Stopped, Open, Changed, SettlesStopped

\* No call at all is a sound call.
LEMMA NoCallOK == CallOK(NoCall) /\ NoCall.job = "none"
<1>1. NoCall \in CallShape
  BY DEF NoCall, CallShape, Containers, Codes
<1>2. Rounds(NoCall)
  BY AttemptsAssumption DEF NoCall, Rounds, Spare, One, Open
<1>3. Settlement(NoCall)
  BY DEF NoCall, Settlement, Open, Stopped
<1> QED
  BY <1>1, <1>2, <1>3 DEF CallOK, NoCall

\* A call whose client was spawned is sound and unsettled.
LEMMA StartedOK ==
  ASSUME NEW job \in Jobs, NEW y, y = Started(job)
  PROVE  CallOK(y) /\ y.job = job /\ y.settled = "no"
<1>1. /\ y.job = job /\ y.client = "running" /\ y.container = "none" /\ y.code = "unknown" /\ ~y.term
      /\ y.clean = "idle" /\ y.attempts = 0 /\ y.retries = 0 /\ ~y.grace /\ y.flag /\ y.settled = "no"
  BY DEF Started, NoCall
<1>2. y \in CallShape
  BY DEF Started, NoCall, CallShape, Containers, Codes
<1>3. Rounds(y)
  BY <1>1, AttemptsAssumption DEF Rounds, Spare, One, Open
<1>4. Settlement(y)
  BY <1>1 DEF Settlement, Open, Stopped
<1> QED
  BY <1>1, <1>2, <1>3, <1>4 DEF CallOK

\* A call whose spawn threw is sound; an installation is settled with nothing to run.
LEMMA SpawnThrewOK ==
  ASSUME NEW job \in Jobs, NEW y, y = SpawnThrew(job)
  PROVE  CallOK(y) /\ y.job = job /\ (job = "install" => y.settled = "failed" /\ Stopped(y))
<1> DEFINE z == [NoCall EXCEPT !.job = job]
<1>1. /\ z.job = job /\ z.client = "none" /\ z.container = "none" /\ z.code = "unknown" /\ ~z.term
      /\ z.clean = "idle" /\ z.attempts = 0 /\ z.retries = 0 /\ ~z.grace /\ z.flag /\ z.settled = "no"
      /\ ~z.timeout
  BY DEF NoCall
<1>2. z \in CallShape
  BY DEF NoCall, CallShape, Containers, Codes
<1>3. CASE job = "probe"
  <2>1. y = Begin(z, FALSE)
    BY <1>3 DEF SpawnThrew
  <2> HIDE DEF z
  <2>2. Rounds(z)
    BY <1>1, AttemptsAssumption DEF Rounds, Spare, One, Open
  <2>3. Settlement(z)
    BY <1>1 DEF Settlement, Open, Stopped
  <2>4. Follows(z, y)
    BY <1>1, <1>2, <2>1, <2>2, <2>3, TerminateOK DEF CallOK
  <2> QED
    BY <1>1, <1>3, <2>4 DEF Follows, Handles
<1>4. CASE job = "install"
  <2>1. y = [z EXCEPT !.settled = "failed"]
    BY <1>4 DEF SpawnThrew, NoCall
  <2> HIDE DEF z
  <2>2. /\ y.job = job /\ y.client = "none" /\ y.container = "none" /\ y.code = "unknown" /\ ~y.term
      /\ y.clean = "idle" /\ y.attempts = 0 /\ y.retries = 0 /\ ~y.grace /\ y.flag /\ y.settled = "failed"
      /\ ~y.timeout
    BY <1>1, <1>2, <2>1 DEF CallShape
  <2>3. y \in CallShape
    BY <1>2, <2>1 DEF CallShape
  <2>4. Rounds(y)
    BY <2>2, AttemptsAssumption DEF Rounds, Spare, One, Open
  <2>5. Settlement(y)
    BY <2>2 DEF Settlement, Open, Stopped
  <2> QED
    BY <2>2, <2>3, <2>4, <2>5 DEF CallOK, Stopped, Open
<1> QED
  BY <1>3, <1>4 DEF Jobs

(***************************************************************************)
(* The attempt.                                                              *)
(***************************************************************************)
\* The role as it was found, and as the activation leaves it.
AllDormant == \A b \in Branches : role[b] = Dormant
Full == [password |-> TRUE, login |-> TRUE]

\* Where the wrapper is: a phase, or the permit it is about.
Place(q) ==
  IF q[1] \in {"preflight", "probing", "installing", "verify", "cleanup", "done"} THEN q[1] ELSE q[2]

\* The types of the tracker and of the journal.
Trackers ==
  [validated: {"none", "first", "second"}, last: 0..MaxNow,
   started: BOOLEAN, failed: BOOLEAN, begun: BOOLEAN,
   permit: [Permits -> [state: {"none", "issued", "consumed"}, expires: 0..MaxNow + Validity]]]
Journals ==
  [next: 1..10, active: 0..9, failed: 0..9,
   rollback: {"pending", "in_progress", "passed", "failed", "not_required"}]

Sorted ==
  /\ now \in 0..MaxNow /\ branch \in Branches /\ twin \in BOOLEAN
  /\ reboundAt \in 0..MaxNow + 1
  /\ role \in [Branches -> [password: BOOLEAN, login: BOOLEAN]]
  /\ faults \in 0..MaxFaults /\ diverged \in BOOLEAN
  /\ tracker \in Trackers /\ journal \in Journals
  /\ att \in [at: 0..MaxNow, branch: Branches]
  /\ identity \in {"none", "first", "second"}
  /\ outcome \in {"none", "untouched", "activated", "rolled_back", "manual"}

\* Which call the wrapper waits for, and what it has found of the role.
Placed ==
  /\ Place(pc) = "done" <=> outcome # "none"
  /\ Place(pc) \in {"preflight", "probing", "password"} => AllDormant /\ ~tracker.begun
  /\ Place(pc) \in {"preflight", "password"} => d = NoCall
  /\ Place(pc) = "probing" => d.job = "probe"
  /\ Place(pc) = "installing" => tracker.begun /\ d.job = "install" /\ (AllDormant \/ Changed(d))
  /\ Place(pc) \notin {"preflight", "probing", "password", "installing"} =>
       d.job # "probe" /\ (d.job = "install" => d.settled # "no")
  /\ Place(pc) \in {"login", "verify", "success", "rollback"} => tracker.begun
  /\ outcome = "untouched" => ~tracker.begun

\* Which phase of the journal is under way.
Numbered ==
  /\ Place(pc) \in {"preflight", "probing"} => journal = NewJournal
  /\ Place(pc) \in {"password", "installing"} => journal.next = 2 /\ journal.active = 2
  /\ Place(pc) = "login" => journal.next = 3 /\ journal.active = 3
  /\ Place(pc) = "verify" => journal.next = journal.active /\ journal.active \in 4..8
  /\ Place(pc) = "success" => journal.next = 9 /\ journal.active = 9

\* Nothing has begun: the role is as it was found, and the installation can change nothing.
Tracked ==
  ~tracker.begun /\ outcome \notin {"activated", "rolled_back"} =>
    AllDormant /\ (d.job = "install" => Stopped(d))

\* An installation that has settled has stopped, unless its client died before it.
Quiesced == d.job = "install" /\ d.settled # "no" /\ ~diverged => Stopped(d)

\* What was verified, and what is reported, is so.
Truth ==
  /\ branch = "approved" /\ (Place(pc) = "success" \/ outcome = "activated") => role["approved"] = Full
  /\ branch = "approved" /\ outcome = "rolled_back" /\ ~diverged => role["approved"] = Dormant

\* No permit outlives the evidence it was granted on, and the evidence is of
\* a time when the endpoint was where it was approved.
Evidence ==
  /\ branch = "approved" <=> reboundAt = MaxNow + 1
  /\ branch = "other" => reboundAt <= now
  /\ att.at <= now /\ (att.branch = "approved" => att.at <= reboundAt)
  /\ \A p \in Permits : tracker.permit[p].state = "issued" =>
        /\ tracker.permit[p].expires <= now + Validity
        /\ tracker.permit[p].expires <= reboundAt + Validity

\* The inductive invariant.
AInv == Sorted /\ CallOK(d) /\ Placed /\ Numbered /\ Tracked /\ Quiesced /\ Truth /\ Evidence

\* Whoever changes the call alone, and changes it as Goes says.
LEMMA CallStep ==
  ASSUME AInv, Goes(d, d'), SettlesStopped(d, d') \/ diverged', diverged => diverged',
         d # NoCall, diverged' \in BOOLEAN, faults' \in 0..MaxFaults, Quiet
  PROVE  AInv'
<1>1. Sorted'
  BY DEF AInv, Sorted, Quiet, world, Branches, Permits, Trackers, Journals
<1>2. CallOK(d')
  BY DEF Goes
<1>3. Placed'
  BY DEF AInv, Placed, Quiet, Goes, AllDormant
<1>4. Numbered'
  BY DEF AInv, Numbered, Quiet
<1>5. Tracked'
  BY DEF AInv, Tracked, Quiet, Goes, AllDormant
<1>6. Quiesced'
  BY DEF AInv, Quiesced, Goes, SettlesStopped
<1>7. Truth'
  BY DEF AInv, Truth, Quiet, world
<1>8. Evidence'
  BY DEF AInv, Evidence, Quiet, world
<1> QED
  BY <1>1, <1>2, <1>3, <1>4, <1>5, <1>6, <1>7, <1>8 DEF AInv

\* What a call with something under way is not.
LEMMA NotNoCall ==
  /\ NoCall.client = "none" /\ NoCall.container = "none" /\ NoCall.clean = "idle" /\ NoCall.retries = 0
  /\ ~NoCall.timeout /\ ~NoCall.grace
BY DEF NoCall

\* A step that leaves faults and diverged alone.
LEMMA CallStepAlone ==
  ASSUME AInv, NEW y, Goes(d, y), SettlesStopped(d, y), d # NoCall, Call(y)
  PROVE  AInv'
<1>1. Goes(d, d') /\ SettlesStopped(d, d') /\ diverged' = diverged /\ faults' = faults /\ Quiet
  BY DEF Call
<1> QED
  BY <1>1, CallStep DEF AInv, Sorted

\* The container alone moves on: the daemon makes or removes it, psql ends.
LEMMA ContainerSteps ==
  ASSUME AInv, ClientAsks \/ DaemonMakes \/ ClientStarts \/ PsqlExits \/ DaemonRemoves
  PROVE  AInv'
<1>1. CallOK(d) /\ d \in CallShape
  BY DEF AInv, CallOK
<1>2. ASSUME NEW k \in Containers, NEW c \in Codes, d # NoCall,
             Call([d EXCEPT !.container = k, !.code = c]),
             c = "mismatch" => k \in {"exited", "gone"},
             d.flag, d.client # "unborn",
             d.clean = "confirmed" => k \notin {"psql", "changed", "exited"},
             Stopped(d) => k \in {"none", "asked", "made", "exited", "gone"},
             Changed(d) => k \in {"changed", "exited", "gone"} /\ c # "mismatch"
      PROVE  AInv'
  <2> DEFINE y == [d EXCEPT !.container = k, !.code = c]
  <2>1. y.container = k /\ y.code = c /\ y.clean = d.clean /\ Besides(d, y)
    BY <1>1 DEF CallShape, Besides
  <2>2. Goes(d, y) /\ SettlesStopped(d, y)
    <3> HIDE DEF y
    <3> QED
      BY <1>1, <1>2, <2>1, ContainerOK
  <2> QED
    BY <1>2, <2>2, CallStepAlone
<1>3. \A k : [d EXCEPT !.container = k] = [d EXCEPT !.container = k, !.code = d.code]
  BY <1>1 DEF CallShape
<1>4. d.code \in Codes /\ d.container \in Containers /\ d.flag \in BOOLEAN
  BY <1>1 DEF CallShape
<1>5. /\ ~d.flag => d.container = "none" /\ d.client \in {"unborn", "closed"}
      /\ d.client = "unborn" => d.container = "none"
      /\ d.code = "mismatch" => d.container \in {"exited", "gone"}
      /\ d.clean = "confirmed" => ~Open(d) /\ d.container \notin {"psql", "changed", "exited"}
  BY <1>1 DEF CallOK, Settlement
<1>6. CASE ClientAsks
  <2>1. d.client = "running" /\ d.container = "none" /\ Call([d EXCEPT !.container = "asked", !.code = d.code])
    BY <1>3, <1>6 DEF ClientAsks
  <2>2. d # NoCall /\ d.client # "unborn" /\ d.flag /\ d.code # "mismatch" /\ d.clean # "confirmed" /\ ~Changed(d)
    BY <1>4, <1>5, <2>1, NotNoCall DEF Open, Changed
  <2> QED
    BY <1>2, <1>4, <2>1, <2>2 DEF Containers
<1>7. CASE DaemonMakes
  <2>1. d.container = "asked" /\ Call([d EXCEPT !.container = "made", !.code = d.code])
    BY <1>3, <1>7 DEF DaemonMakes
  <2>2. d # NoCall /\ d.client # "unborn" /\ d.flag /\ d.code # "mismatch" /\ ~Changed(d)
    BY <1>4, <1>5, <2>1, NotNoCall DEF Changed
  <2> QED
    BY <1>2, <1>4, <2>1, <2>2 DEF Containers
<1>8. CASE ClientStarts
  <2>1. d.client = "running" /\ d.container = "made" /\ Call([d EXCEPT !.container = "psql", !.code = d.code])
    BY <1>3, <1>8 DEF ClientStarts
  <2>2. d # NoCall /\ d.client # "unborn" /\ d.flag /\ d.code # "mismatch" /\ d.clean # "confirmed" /\ ~Changed(d) /\ ~Stopped(d)
    BY <1>4, <1>5, <2>1, NotNoCall DEF Open, Changed, Stopped
  <2> QED
    BY <1>2, <1>4, <2>1, <2>2 DEF Containers
<1>9. CASE PsqlExits
  <2>1. PICK c \in {"ok", "fail"} : /\ d.container \in {"psql", "changed"}
                                   /\ Call([d EXCEPT !.container = "exited", !.code = c])
    BY <1>9 DEF PsqlExits
  <2>2. d # NoCall /\ d.client # "unborn" /\ d.flag /\ d.clean # "confirmed"
    BY <1>4, <1>5, <2>1, NotNoCall
  <2> QED
    BY <1>2, <2>1, <2>2 DEF Containers, Codes
<1>10. CASE DaemonRemoves
  <2>1. d.container = "exited" /\ Call([d EXCEPT !.container = "gone", !.code = d.code])
    BY <1>3, <1>10 DEF DaemonRemoves
  <2>2. d # NoCall /\ d.client # "unborn" /\ d.flag /\ (Changed(d) => d.code # "mismatch")
    BY <1>4, <1>5, <2>1, NotNoCall DEF Changed
  <2> QED
    BY <1>2, <1>4, <2>1, <2>2 DEF Containers
<1> QED
  BY <1>6, <1>7, <1>8, <1>9, <1>10

\* The client closes, is refused its container, or dies before it.
LEMMA ClientSteps ==
  ASSUME AInv, ClientCloses \/ ClientRefused \/ ClientDies
  PROVE  AInv'
<1>1. CallOK(d) /\ d \in CallShape
  BY DEF AInv, CallOK
<1>2. ASSUME NEW code \in {d.code, "fail"}, Open(d)
      PROVE  /\ Goes(d, CloseEvent(d, code)) /\ d # NoCall
             /\ d.container \notin {"psql", "changed"} \/ d.term => SettlesStopped(d, CloseEvent(d, code))
  BY <1>1, <1>2, CloseOK, EventGoes, NotNoCall DEF Open
<1>3. CASE ClientCloses
  <2>1. Open(d)
    BY <1>3 DEF ClientCloses
  <2>2. CASE d.container \in {"exited", "gone"} /\ Call(CloseEvent(d, d.code))
    BY <1>2, <2>1, <2>2, CallStepAlone
  <2>3. CASE (d.client = "unborn" \/ d.term) /\ Call(CloseEvent(d, "fail"))
    <3>1. d.container \notin {"psql", "changed"} \/ d.term
      BY <1>1, <2>3 DEF CallOK, Settlement, CallShape
    <3> QED
      BY <1>2, <2>1, <2>3, <3>1, CallStepAlone
  <2> QED
    BY <1>3, <2>2, <2>3 DEF ClientCloses
<1>4. CASE ClientRefused
  BY <1>2, <1>4, CallStepAlone DEF ClientRefused, Open
<1>5. CASE ClientDies
  <2>1. d.client = "running" /\ d' = CloseEvent(d, "fail") /\ diverged' /\ diverged' \in BOOLEAN
        /\ faults' = faults /\ Quiet
    BY <1>5 DEF ClientDies
  <2> QED
    BY <1>2, <2>1, CallStep DEF Open, AInv, Sorted
<1> QED
  BY <1>3, <1>4, <1>5

\* The timers of a call, and what goes wrong with its client.
LEMMA TimerSteps ==
  ASSUME AInv, TimeoutFires \/ GraceFires \/ RetryFires \/ SpawnFails \/ Trouble
  PROVE  AInv'
<1>1. CallOK(d) /\ d \in CallShape
  BY DEF AInv, CallOK
<1>2. CASE TimeoutFires
  <2>1. PICK s \in BOOLEAN : d.timeout /\ Call(TimeoutEvent(d, s))
    BY <1>2 DEF TimeoutFires
  <2> QED
    BY <1>1, <2>1, TimeoutOK, EventGoes, NotNoCall, CallStepAlone
<1>3. CASE GraceFires
  BY <1>1, <1>3, GraceOK, EventGoes, NotNoCall, CallStepAlone DEF GraceFires
<1>4. CASE RetryFires
  <2>1. d.retries > 0 /\ Call(StartCleanupAttempt([d EXCEPT !.retries = @ - 1]))
    BY <1>4 DEF RetryFires
  <2>2. d # NoCall
    BY <2>1, NotNoCall
  <2> QED
    BY <1>1, <2>1, <2>2, RetryFiresOK, EventGoes, CallStepAlone
<1>5. CASE SpawnFails
  BY <1>1, <1>5, SpawnErrorOK, EventGoes, NotNoCall, CallStepAlone DEF SpawnFails
<1>6. CASE Trouble
  <2>1. PICK s \in BOOLEAN : d.client = "running" /\ Call(TroubleEvent(d, s))
    BY <1>6 DEF Trouble
  <2> QED
    BY <1>1, <2>1, TroubleOK, EventGoes, NotNoCall, CallStepAlone
<1> QED
  BY <1>2, <1>3, <1>4, <1>5, <1>6

\* docker rm and docker ps end, well or not.
LEMMA RoundSteps ==
  ASSUME AInv, RmEnds \/ PsEnds
  PROVE  AInv'
<1>1. CallOK(d) /\ d \in CallShape /\ faults \in 0..MaxFaults /\ diverged \in BOOLEAN /\ MaxFaults \in Nat
  BY ActivationAssumption DEF AInv, CallOK, Sorted
<1>2. ASSUME NEW works \in BOOLEAN, NEW y, Round(works, y), Goes(d, y), SettlesStopped(d, y), d # NoCall
      PROVE  AInv'
  <2>1. faults' \in 0..MaxFaults /\ diverged' = diverged /\ d' = y /\ Quiet
    BY <1>1, <1>2 DEF Round
  <2> QED
    BY <1>1, <1>2, <2>1, CallStep
<1>3. CASE RmEnds
  <2>1. PICK works \in BOOLEAN :
          Round(works, [(IF works THEN Removed(d) ELSE d) EXCEPT !.clean = "ps"])
    BY <1>3 DEF RmEnds
  <2> DEFINE k == IF works /\ ~Absent(d) THEN "gone" ELSE d.container
             r == IF works THEN Removed(d) ELSE d
             y == [r EXCEPT !.clean = "ps"]
  <2>2. d.clean = "rm" /\ d # NoCall
    BY <1>3, NotNoCall DEF RmEnds
  <2>3. r = [d EXCEPT !.container = k] /\ k \in Containers
    BY <1>1 DEF Removed, CallShape, Containers
  <2>4. d.flag \in BOOLEAN /\ (k # d.container => k = "gone" /\ d.container \notin {"none", "asked", "gone"})
    BY <1>1 DEF CallShape, Absent
  <2> HIDE DEF k
  <2>5. r \in CallShape /\ r.container = k /\ r.code = d.code /\ Besides(d, r)
    BY <1>1, <2>3 DEF CallShape, Besides
  <2> HIDE DEF r
  <2>6. y.container = k /\ y.code = d.code /\ y.clean = "ps" /\ Besides(d, y)
    BY <2>5 DEF CallShape, Besides
  <2>7. Goes(d, y) /\ SettlesStopped(d, y)
    <3> HIDE DEF y
    <3>1. d.code = "mismatch" => k \in {"exited", "gone"}
      BY <1>1, <2>4 DEF CallOK, Settlement
    <3>2. ~d.flag \/ d.client = "unborn" => k = "none"
      BY <1>1, <2>4 DEF CallOK, Settlement
    <3>3. Stopped(d) => k \in {"none", "asked", "made", "exited", "gone"}
      BY <2>4 DEF Stopped
    <3>4. Changed(d) => k \in {"changed", "exited", "gone"} /\ d.code # "mismatch"
      BY <2>4 DEF Changed
    <3> QED
      BY <1>1, <2>2, <2>6, <3>1, <3>2, <3>3, <3>4, ContainerOK
  <2>8. Round(works, y)
    BY <2>1 DEF r
  <2> HIDE DEF y
  <2> QED
    BY <1>2, <2>2, <2>7, <2>8
<1>4. CASE PsEnds
  <2>1. PICK works \in BOOLEAN : Round(works, VerificationDone(d, works /\ Absent(d)))
    BY <1>4 DEF PsEnds
  <2>2. d.clean = "ps" /\ d # NoCall
    BY <1>4, NotNoCall DEF PsEnds
  <2> DEFINE absent == works /\ Absent(d)
             y == VerificationDone(d, absent)
  <2>3. absent \in BOOLEAN /\ (absent => Absent(d))
    BY DEF Absent
  <2> HIDE DEF absent
  <2>4. Goes(d, y) /\ SettlesStopped(d, y)
    BY <1>1, <2>2, <2>3, VerifiedOK, EventGoes
  <2> QED
    BY <1>2, <2>1, <2>2, <2>4 DEF absent
<1> QED
  BY <1>3, <1>4

\* psql sets the password of the branch the endpoint leads to, if that is the
\* fixture its script names.
LEMMA PsqlSteps ==
  ASSUME AInv, PsqlWorks
  PROVE  AInv'
<1>1. CallOK(d) /\ d \in CallShape /\ d.container = "psql" /\ d # NoCall
  BY NotNoCall DEF AInv, CallOK, PsqlWorks
<1>2. /\ d.flag /\ d.client # "unborn" /\ d.clean # "confirmed" /\ ~Stopped(d) /\ ~Changed(d)
      /\ d.code # "mismatch" /\ (d.job = "install" => d.settled # "failed_clean")
      /\ d.flag \in BOOLEAN /\ d.code \in Codes
  BY <1>1 DEF CallOK, Settlement, Stopped, Changed, CallShape
<1>3. SqlIdentity(branch) \in {"first", "second"}
  BY DEF SqlIdentity
<1>4. CASE d.job = "install" /\ SqlIdentity(branch) # tracker.validated
  <2> DEFINE y == [d EXCEPT !.container = "exited", !.code = "mismatch"]
  <2>1. d' = y /\ Call(y)
    BY <1>4 DEF PsqlWorks, Call, Quiet
  <2>2. y.container = "exited" /\ y.code = "mismatch" /\ y.clean = d.clean /\ Besides(d, y)
    BY <1>1 DEF CallShape, Besides, Containers, Codes
  <2> HIDE DEF y
  <2>3. Goes(d, y) /\ SettlesStopped(d, y)
    BY <1>1, <1>2, <2>2, ContainerOK
  <2> QED
    BY <1>1, <2>1, <2>3, CallStepAlone
<1>5. CASE ~(d.job = "install" /\ SqlIdentity(branch) # tracker.validated)
  <2> DEFINE s == IF d.job = "probe" THEN SqlIdentity(branch) ELSE d.said
             y == [d EXCEPT !.container = "changed", !.said = s]
  <2>1. s \in {"none", "first", "second"}
    BY <1>1, <1>3 DEF CallShape
  <2>2. /\ d' = y
        /\ role' = IF d.job = "install" THEN [role EXCEPT ![branch].password = TRUE] ELSE role
        /\ UNCHANGED <<now, world, faults, diverged, tracker, journal, att, identity, pc, outcome>>
    BY <1>5 DEF PsqlWorks
  <2> HIDE DEF s
  <2>3. y.container = "changed" /\ y.code = d.code /\ y.clean = d.clean /\ y.settled = d.settled
        /\ y.flag = d.flag /\ Besides(d, y)
    BY <1>1, <2>1 DEF CallShape, Besides, Containers
  <2> HIDE DEF y
  <2>4. Goes(d, y) /\ SettlesStopped(d, y)
    BY <1>1, <1>2, <2>3, ContainerOK
  <2>5. d.job = "install" => Changed(y)
    BY <1>2, <2>3 DEF Changed
  <2>6. CASE d.job # "install"
    <3>1. Call(y)
      BY <2>2, <2>6 DEF Call, Quiet
    <3> QED
      BY <1>1, <2>4, <3>1, CallStepAlone
  <2>7. CASE d.job = "install"
    <3>1. role' = [role EXCEPT ![branch].password = TRUE] /\ branch \in Branches
          /\ role \in [Branches -> [password: BOOLEAN, login: BOOLEAN]]
      BY <2>2, <2>7 DEF AInv, Sorted
    <3>2. Sorted'
      <4>1. role' \in [Branches -> [password: BOOLEAN, login: BOOLEAN]]
        BY <3>1
      <4> QED
        BY <2>2, <4>1 DEF AInv, Sorted, world, Branches, Permits, Trackers, Journals
    <3>3. CallOK(d)'
      BY <2>2, <2>4 DEF Goes
    <3>4. Placed'
      BY <1>1, <2>2, <2>4, <2>5, <2>7 DEF AInv, Placed, Goes
    <3>5. Numbered'
      BY <2>2 DEF AInv, Numbered
    <3>6. Tracked'
      BY <1>2, <2>2, <2>7 DEF AInv, Tracked
    <3>7. Quiesced'
      BY <1>2, <2>2, <2>3, <2>7 DEF AInv, Quiesced
    <3>8. Truth'
      <4>1. Place(pc) = "success" \/ outcome # "none" =>
              d.settled # "no"
        BY <2>7 DEF AInv, Placed
      <4>2. ~diverged => d.settled = "no"
        BY <1>2, <2>7 DEF AInv, Quiesced
      <4>3. branch = "approved" /\ (Place(pc) = "success" \/ outcome = "activated") => role'["approved"] = Full
        <5> SUFFICES ASSUME branch = "approved", role["approved"] = Full PROVE role'["approved"] = Full
          BY DEF AInv, Truth
        <5>1. role'["approved"] = [role["approved"] EXCEPT !.password = TRUE]
          <6>1. branch = "approved" /\ "approved" \in Branches
            BY DEF Branches
          <6> QED
            BY <3>1, <6>1
        <5>2. role'["approved"].password = TRUE /\ role'["approved"].login = TRUE
          BY <3>1, <5>1 DEF Full, Branches
        <5>3. role'["approved"] \in [password: BOOLEAN, login: BOOLEAN]
          BY <3>2 DEF Sorted, Branches
        <5> QED
          BY <5>2, <5>3 DEF Full
      <4> QED
        BY <2>2, <4>1, <4>2, <4>3 DEF AInv, Truth, world
    <3>9. Evidence'
      BY <2>2 DEF AInv, Evidence, world
    <3> QED
      BY <3>2, <3>3, <3>4, <3>5, <3>6, <3>7, <3>8, <3>9 DEF AInv
  <2> QED
    BY <2>6, <2>7
<1> QED
  BY <1>4, <1>5

\* Time passes, or the endpoint is moved: permits granted before keep to their evidence.
LEMMA WorldSteps ==
  ASSUME AInv, Tick \/ Rebind
  PROVE  AInv'
<1>1. CASE Tick
  <2>1. now' = now + 1 /\ now < MaxNow /\ now \in Nat /\ MaxNow \in Nat
        /\ UNCHANGED <<world, role, d, faults, diverged, tracker, journal, att, identity, pc, outcome>>
    BY <1>1, ActivationAssumption DEF Tick, AInv, Sorted
  <2>2. Sorted'
    BY <2>1 DEF AInv, Sorted, world, Branches, Permits, Trackers, Journals
  <2>3. CallOK(d)' /\ Placed' /\ Numbered' /\ Tracked' /\ Quiesced' /\ Truth'
    BY <2>1 DEF AInv, Placed, Numbered, Tracked, Quiesced, Truth, AllDormant, world
  <2>4. Evidence'
    <3>1. att.at \in Nat /\ reboundAt \in Nat /\ Validity \in Nat
          /\ \A p \in Permits : tracker.permit[p].expires \in Nat
      BY ActivationAssumption DEF AInv, Sorted, Trackers, Permits
    <3> QED
      BY <2>1, <3>1 DEF AInv, Evidence, world
  <2> QED
    BY <2>2, <2>3, <2>4 DEF AInv
<1>2. CASE Rebind
  <2>1. branch = "approved" /\ branch' = "other" /\ reboundAt' = now /\ MaxNow \in Nat
        /\ UNCHANGED <<now, twin, role, d, faults, diverged, tracker, journal, att, identity, pc, outcome>>
    BY <1>2, ActivationAssumption DEF Rebind
  <2>2. Sorted'
    BY <2>1 DEF AInv, Sorted, Branches, Permits, Trackers, Journals
  <2>3. CallOK(d)' /\ Placed' /\ Numbered' /\ Tracked' /\ Quiesced' /\ Truth'
    BY <2>1 DEF AInv, Placed, Numbered, Tracked, Quiesced, Truth, AllDormant
  <2>4. Evidence'
    <3>1. now \in 0..MaxNow
      BY DEF AInv, Sorted
    <3> QED
      BY <2>1, <3>1 DEF AInv, Evidence
  <2> QED
    BY <2>2, <2>3, <2>4 DEF AInv
<1> QED
  BY <1>1, <1>2

(***************************************************************************)
(* The wrapper.                                                              *)
(***************************************************************************)
LEMMA JournalFails == ASSUME NEW j \in Journals PROVE Fail(j) \in Journals
<1> DEFINE n == IF j.failed = 0 THEN j.active ELSE j.failed
<1>1. n \in 0..9 /\ 0 \in 0..9
  BY DEF Journals
<1>2. Fail(j) = [j EXCEPT !.failed = n, !.active = 0]
  BY DEF Fail
<1> HIDE DEF n
<1> QED
  BY <1>1, <1>2 DEF Journals

\* A phase is passed and the next one started.
LEMMA JournalGoesOn ==
  ASSUME NEW j \in Journals, j.next <= 9, NEW phase \in 1..9
  PROVE  /\ StartPhase(Pass(j), phase) \in Journals
         /\ StartPhase(Pass(j), phase).next = j.next + 1 /\ StartPhase(Pass(j), phase).active = phase
<1> DEFINE n == j.next + 1
<1>1. n \in 1..10 /\ 0 \in 0..9
  BY DEF Journals
<1>2. Pass(j) = [j EXCEPT !.next = n, !.active = 0]
  BY DEF Pass
<1> HIDE DEF n
<1>3. Pass(j) \in Journals /\ Pass(j).next = n
  BY <1>1, <1>2 DEF Journals
<1>4. StartPhase(Pass(j), phase) \in Journals /\ StartPhase(Pass(j), phase).next = n /\ StartPhase(Pass(j), phase).active = phase
  BY <1>3 DEF StartPhase, Journals
<1> QED
  BY <1>4 DEF n

\* A wrapper that is through with its phases changes nothing but where it is.
LEMMA MovesOn ==
  ASSUME AInv, Calm, UNCHANGED <<role, d, tracker, att, identity>>, journal' \in Journals,
         Place(pc) \in {"password", "login", "verify", "success", "cleanup", "rollback"},
         \/ Place(pc') = "cleanup" /\ outcome' = outcome
         \/ Place(pc') = "done" /\ outcome' = "manual"
         \/ Place(pc') = "done" /\ outcome' = "untouched" /\ ~tracker.begun
  PROVE  AInv'
<1>1. outcome = "none"
  BY DEF AInv, Placed
<1>2. Sorted'
  BY <1>1 DEF AInv, Sorted, Calm, world
<1>3. d.job # "probe" /\ (d.job = "install" => d.settled # "no")
  BY DEF AInv, Placed, NoCall
<1>4. CallOK(d)' /\ Numbered' /\ Evidence' /\ Quiesced' /\ Truth' /\ Tracked'
  BY <1>1 DEF AInv, Numbered, Evidence, Quiesced, Truth, Tracked, Calm, world, AllDormant
<1>5. Placed'
  BY <1>1, <1>3 DEF AInv, Placed
<1> QED
  BY <1>2, <1>4, <1>5 DEF AInv

\* The first failure of a phase leads to the cleanup and changes nothing else.
LEMMA PhaseFailsOK ==
  ASSUME AInv, Calm, UNCHANGED <<role, d, tracker, att, identity, outcome>>, PhaseFails,
         Place(pc) \in {"password", "login", "verify", "success"}
  PROVE  AInv'
<1>1. journal' \in Journals
  BY JournalFails DEF PhaseFails, AInv, Sorted
<1>2. Place(pc') = "cleanup"
  BY DEF PhaseFails, Place
<1> QED
  BY <1>1, <1>2, MovesOn

\* The preflight starts the probe.
LEMMA PreflightStep ==
  ASSUME AInv, Preflight
  PROVE  AInv'
<1>1. Place(pc) = "preflight" /\ Place(pc') = "probing"
  BY DEF Preflight, Place
<1>2. CallOK(d)' /\ d'.job = "probe"
  BY StartedOK, SpawnThrewOK DEF Preflight, Jobs
<1>3. identity' \in {"first", "second"}
  BY DEF Preflight, SqlIdentity
<1>4. UNCHANGED <<role, tracker, journal, att, outcome, now, world, faults, diverged>>
  BY DEF Preflight, Calm
<1>5. Sorted'
  BY <1>3, <1>4 DEF AInv, Sorted, world
<1>6. Placed' /\ Numbered' /\ Tracked' /\ Quiesced' /\ Truth' /\ Evidence'
  BY <1>1, <1>2, <1>4 DEF AInv, Placed, Numbered, Tracked, Quiesced, Truth, Evidence, AllDormant, world
<1> QED
  BY <1>2, <1>5, <1>6 DEF AInv

\* The fixture is validated, or the attempt ends with nothing done.
LEMMA ValidatedStep ==
  ASSUME AInv, Validated
  PROVE  AInv'
<1>1. Place(pc) = "probing" /\ outcome = "none" /\ d' = NoCall
  BY DEF Validated, Place, AInv, Placed
<1>2. UNCHANGED <<role, att, identity, now, world, faults, diverged>>
  BY DEF Validated, Calm
<1>3. CallOK(NoCall) /\ NoCall.job = "none"
  BY NoCallOK
<1>4. CASE d.settled = "resolved" /\ d.said = identity /\ now < Expires(att)
  <2>1. /\ tracker' = [tracker EXCEPT !.validated = identity, !.last = att.at]
        /\ journal' = StartPhase(Pass(StartPhase(journal, 1)), 2)
        /\ pc' = <<"observe", "password">> /\ outcome' = outcome
    BY <1>4 DEF Validated
  <2>2. Place(pc') = "password"
    BY <2>1 DEF Place
  <2>3. journal = NewJournal
    BY <1>1 DEF AInv, Numbered
  <2>4. journal' \in Journals /\ journal'.next = 2 /\ journal'.active = 2
    <3>1. StartPhase(journal, 1) \in Journals /\ StartPhase(journal, 1).next = 1
      BY <2>3 DEF StartPhase, NewJournal, Journals
    <3> QED
      BY <2>1, <3>1, JournalGoesOn
  <2>5. /\ tracker' \in Trackers /\ tracker'.begun = tracker.begun /\ tracker'.permit = tracker.permit
    BY <2>1 DEF AInv, Sorted, Trackers
  <2>6. Sorted'
    BY <1>2, <2>1, <2>4, <2>5 DEF AInv, Sorted, world
  <2>7. Placed' /\ Numbered' /\ Tracked' /\ Quiesced' /\ Truth' /\ Evidence'
    BY <1>1, <1>2, <1>3, <2>1, <2>2, <2>4, <2>5
       DEF AInv, Placed, Numbered, Tracked, Quiesced, Truth, Evidence, AllDormant, world
  <2> QED
    BY <1>1, <1>3, <2>6, <2>7 DEF AInv
<1>5. CASE ~(d.settled = "resolved" /\ d.said = identity /\ now < Expires(att))
  <2>1. pc' = <<"done">> /\ outcome' = "untouched" /\ UNCHANGED <<tracker, journal>>
    BY <1>5 DEF Validated, Ended
  <2>2. Place(pc') = "done"
    BY <2>1 DEF Place
  <2>3. Sorted'
    BY <1>2, <2>1 DEF AInv, Sorted, world
  <2>4. Placed' /\ Numbered' /\ Tracked' /\ Quiesced' /\ Truth' /\ Evidence'
    BY <1>1, <1>2, <1>3, <2>1, <2>2
       DEF AInv, Placed, Numbered, Tracked, Quiesced, Truth, Evidence, AllDormant, world
  <2> QED
    BY <1>1, <1>3, <2>3, <2>4 DEF AInv
<1> QED
  BY <1>4, <1>5

\* The provider is observed for a permit.
LEMMA ObserveStep ==
  ASSUME AInv, NEW p \in Permits, Observe(p)
  PROVE  AInv'
<1>1. Place(pc) = (IF p = "password" THEN "password" ELSE p) /\ Place(pc) = p
  BY DEF Observe, Place, Permits
<1>2. UNCHANGED <<role, d, tracker, identity, now, world, faults, diverged>>
  BY DEF Observe, Calm
<1>3. CASE att' = Observation /\ pc' = <<"authorise", p>> /\ UNCHANGED <<journal, outcome>>
  <2>1. Place(pc') = p
    BY <1>3 DEF Place, Permits
  <2>2. att' \in [at: 0..MaxNow, branch: Branches] /\ att'.at = now /\ att'.branch = branch
    BY <1>3 DEF Observation, AInv, Sorted
  <2>3. Sorted'
    BY <1>2, <1>3, <2>2 DEF AInv, Sorted, world
  <2>4. CallOK(d)' /\ Placed' /\ Numbered' /\ Tracked' /\ Quiesced' /\ Truth'
    BY <1>1, <1>2, <1>3, <2>1 DEF AInv, Placed, Numbered, Tracked, Quiesced, Truth, AllDormant, world
  <2>5. Evidence'
    <3>1. branch = "approved" => now <= reboundAt
      BY ActivationAssumption DEF AInv, Evidence, Sorted
    <3>2. now <= now
      BY DEF AInv, Sorted
    <3> QED
      BY <1>2, <2>2, <3>1, <3>2 DEF AInv, Evidence, world
  <2> QED
    BY <2>3, <2>4, <2>5 DEF AInv
<1>4. CASE att' = att /\ p = "rollback" /\ Ended("manual") /\ UNCHANGED journal
  <2>1. Place(pc') = "done" /\ outcome' = "manual" /\ journal' \in Journals
    BY <1>4 DEF Ended, Place, AInv, Sorted
  <2> QED
    BY <1>1, <1>2, <1>4, <2>1, MovesOn DEF Calm
<1>5. CASE att' = att /\ p # "rollback" /\ PhaseFails /\ UNCHANGED outcome
  BY <1>1, <1>2, <1>5, PhaseFailsOK DEF Calm, Permits
<1> QED
  BY <1>3, <1>4, <1>5 DEF Observe

\* What a permit's issue leaves: the deadline of the evidence just accepted.
LEMMA AuthoriseStep ==
  ASSUME AInv, NEW p \in Permits, Authorise(p)
  PROVE  AInv'
<1>1. Place(pc) = p
  BY DEF Authorise, Place, Permits
<1>2. UNCHANGED <<role, d, att, identity, now, world, faults, diverged>>
  BY DEF Authorise, Calm
<1>3. CASE MayIssue(p) /\ Acceptable(att)
  <2>1. tracker' = Issue(p) /\ pc' = <<"use", p>> /\ UNCHANGED <<journal, outcome>>
    BY <1>3 DEF Authorise
  <2>2. Place(pc') = p
    BY <2>1 DEF Place, Permits
  <2> DEFINE e == Expires(att)
             g == [state |-> "issued", expires |-> e]
  <2>3. e \in 0..MaxNow + Validity /\ e <= now + Validity /\ e <= reboundAt + Validity
    <3>1. att.branch = "approved" /\ att.at \in 0..MaxNow /\ att.at <= now /\ att.at <= reboundAt
      BY <1>3 DEF Acceptable, AInv, Evidence, Sorted
    <3>2. now \in Nat /\ reboundAt \in Nat /\ Validity \in Nat /\ MaxNow \in Nat
      BY ActivationAssumption DEF AInv, Sorted
    <3> QED
      BY <3>1, <3>2 DEF Expires
  <2>4. tracker' = [tracker EXCEPT !.last = att.at, !.permit[p] = g]
    BY <2>1 DEF Issue
  <2> HIDE DEF e
  <2>5. g.state = "issued" /\ g.expires = e
        /\ g \in [state: {"none", "issued", "consumed"}, expires: 0..MaxNow + Validity]
    BY <2>3
  <2> HIDE DEF g
  <2>6. tracker \in Trackers /\ att.at \in 0..MaxNow
    BY DEF AInv, Sorted
  <2>7. tracker' \in Trackers /\ tracker'.begun = tracker.begun
    BY <2>4, <2>5, <2>6 DEF Trackers
  <2>8. \A q \in Permits : tracker'.permit[q] = IF q = p THEN g ELSE tracker.permit[q]
    BY <2>4, <2>6 DEF Trackers
  <2>9. Sorted'
    BY <1>2, <2>1, <2>7 DEF AInv, Sorted, world
  <2>10. CallOK(d)' /\ Placed' /\ Numbered' /\ Tracked' /\ Quiesced' /\ Truth'
    BY <1>1, <1>2, <2>1, <2>2, <2>7
       DEF AInv, Placed, Numbered, Tracked, Quiesced, Truth, AllDormant, world
  <2>11. Evidence'
    BY <1>2, <2>3, <2>5, <2>8 DEF AInv, Evidence, world
  <2> QED
    BY <2>9, <2>10, <2>11 DEF AInv
<1>4. CASE ~(MayIssue(p) /\ Acceptable(att)) /\ p = "rollback"
  <2>1. pc' = <<"done">> /\ outcome' = "manual" /\ UNCHANGED <<journal, tracker>>
    BY <1>4 DEF Authorise, Ended
  <2>2. Place(pc') = "done" /\ journal' \in Journals
    BY <2>1 DEF Place, AInv, Sorted
  <2> QED
    BY <1>1, <1>2, <1>4, <2>1, <2>2, MovesOn DEF Calm
<1>5. CASE ~(MayIssue(p) /\ Acceptable(att)) /\ p # "rollback"
  <2>1. PhaseFails /\ UNCHANGED <<tracker, outcome>>
    BY <1>5 DEF Authorise
  <2> QED
    BY <1>1, <1>2, <1>5, <2>1, PhaseFailsOK DEF Calm, Permits
<1> QED
  BY <1>3, <1>4, <1>5

\* Consuming a permit changes that permit, and what its onConsume says.
LEMMA ConsumeOK ==
  ASSUME tracker \in Trackers, NEW p \in Permits, NEW u, u = Consume(p)
  PROVE  /\ u \in Trackers
         /\ u.begun = (IF p = "password" THEN TRUE ELSE IF p = "success" THEN FALSE ELSE tracker.begun)
         /\ u.validated = tracker.validated /\ u.permit[p].state = "consumed"
         /\ \A q \in Permits : q # p => u.permit[q] = tracker.permit[q]
<1> DEFINE s == tracker.started \/ p = "password"
           b == IF p = "password" THEN TRUE ELSE IF p = "success" THEN FALSE ELSE tracker.begun
           f == [tracker.permit EXCEPT ![p].state = "consumed"]
<1>1. s \in BOOLEAN /\ b \in BOOLEAN
  BY DEF Trackers
<1>2. f \in [Permits -> [state: {"none", "issued", "consumed"}, expires: 0..MaxNow + Validity]]
  BY DEF Trackers
<1>3. f[p].state = "consumed" /\ \A q \in Permits : q # p => f[q] = tracker.permit[q]
  BY DEF Trackers
<1>4. u = [tracker EXCEPT !.permit = f, !.started = s, !.begun = b]
  BY DEF Consume, Trackers
<1> HIDE DEF s, b, f
<1>5. u \in Trackers /\ u.permit = f /\ u.begun = b /\ u.validated = tracker.validated
  BY <1>1, <1>2, <1>4 DEF Trackers
<1> QED
  BY <1>3, <1>5 DEF b

\* A step that grants no permit keeps every permit within its evidence.
LEMMA EvidenceKept ==
  ASSUME AInv, UNCHANGED <<now, branch, reboundAt, att>>,
         \A p \in Permits : tracker'.permit[p].state = "issued" => tracker'.permit[p] = tracker.permit[p]
  PROVE  Evidence'
BY DEF AInv, Evidence

\* The installation consumes its permit in the step that starts psql: from then on a
\* change may have begun.
LEMMA InstallStep ==
  ASSUME AInv, Install
  PROVE  AInv'
<1>1. Place(pc) = "password" /\ outcome = "none"
  BY DEF Install, Place, AInv, Placed
<1>2. UNCHANGED <<role, att, outcome, identity, now, world, faults, diverged>>
  BY DEF Install, Calm
<1>3. CASE MayConsume("password")
  <2>1. tracker' = Consume("password") /\ pc' = <<"installing">> /\ UNCHANGED journal
    BY <1>3 DEF Install
  <2>2. Place(pc') = "installing" /\ "password" \in Permits
    BY <2>1 DEF Place, Permits
  <2>3. /\ tracker' \in Trackers /\ tracker'.begun
        /\ tracker'.permit["password"].state = "consumed"
        /\ \A q \in Permits : q # "password" => tracker'.permit[q] = tracker.permit[q]
    <3>1. tracker \in Trackers
      BY DEF AInv, Sorted
    <3> QED
      BY <2>1, <2>2, <3>1, ConsumeOK
  <2>4. CallOK(d') /\ d'.job = "install" /\ (d'.settled # "no" => Stopped(d'))
    <3>1. d' = Started("install") \/ d' = SpawnThrew("install")
      BY <1>3 DEF Install
    <3> QED
      BY <3>1, StartedOK, SpawnThrewOK DEF Jobs
  <2>5. Sorted'
    BY <1>2, <2>1, <2>3 DEF AInv, Sorted, world
  <2>6. Placed' /\ Numbered' /\ Tracked' /\ Quiesced' /\ Truth'
    BY <1>1, <1>2, <2>1, <2>2, <2>3, <2>4
       DEF AInv, Placed, Numbered, Tracked, Quiesced, Truth, AllDormant, world
  <2>7. Evidence'
    BY <1>2, <2>3, EvidenceKept DEF world
  <2> QED
    BY <2>4, <2>5, <2>6, <2>7 DEF AInv
<1>4. CASE ~MayConsume("password")
  <2>1. PhaseFails /\ UNCHANGED <<tracker, d>>
    BY <1>4 DEF Install
  <2> QED
    BY <1>1, <1>2, <2>1, PhaseFailsOK DEF Calm
<1> QED
  BY <1>3, <1>4

\* The installation settles: the change is taken back only if psql can no longer make it.
LEMMA InstalledStep ==
  ASSUME AInv, Installed
  PROVE  AInv'
<1>1. Place(pc) = "installing" /\ outcome = "none" /\ d.settled # "no"
  BY DEF Installed, Place, AInv, Placed
<1>2. UNCHANGED <<role, d, att, outcome, identity, now, world, faults, diverged>>
  BY DEF Installed, Calm
<1>3. tracker.begun /\ d.job = "install" /\ journal.next = 2 /\ journal.active = 2 /\ journal \in Journals
      /\ CallOK(d) /\ (AllDormant \/ Changed(d))
  BY <1>1 DEF AInv, Placed, Numbered, Sorted
<1>4. CASE d.settled = "resolved" /\ journal' = StartPhase(Pass(journal), 3) /\ pc' = <<"observe", "login">>
           /\ UNCHANGED tracker
  <2>1. Place(pc') = "login"
    BY <1>4 DEF Place
  <2>2. journal' \in Journals /\ journal'.next = 3 /\ journal'.active = 3
    BY <1>3, <1>4, JournalGoesOn
  <2>3. Sorted'
    BY <1>2, <1>4, <2>2 DEF AInv, Sorted, world
  <2>4. CallOK(d)' /\ Placed' /\ Numbered' /\ Tracked' /\ Quiesced' /\ Truth' /\ Evidence'
    BY <1>1, <1>2, <1>3, <1>4, <2>1, <2>2
       DEF AInv, Placed, Numbered, Tracked, Quiesced, Truth, Evidence, AllDormant, world
  <2> QED
    BY <2>3, <2>4 DEF AInv
<1>5. CASE PhaseFails /\ tracker' \in Trackers /\ tracker'.permit = tracker.permit
           /\ (~tracker'.begun => d.settled = "failed_clean")
  <2>1. Place(pc') = "cleanup" /\ journal' \in Journals
    BY <1>3, <1>5, JournalFails DEF PhaseFails, Place
  <2>2. Sorted'
    BY <1>2, <1>5, <2>1 DEF AInv, Sorted, world
  <2>3. ~tracker'.begun => AllDormant /\ Stopped(d)
    BY <1>3, <1>5 DEF CallOK, Settlement, Changed
  <2>4. CallOK(d)' /\ Placed' /\ Numbered' /\ Quiesced' /\ Truth'
    BY <1>1, <1>2, <1>3, <2>1
       DEF AInv, Placed, Numbered, Quiesced, Truth, AllDormant, world
  <2>5. Tracked'
    BY <1>2, <2>3 DEF Tracked, AllDormant
  <2>6. Evidence'
    BY <1>2, <1>5, EvidenceKept DEF world
  <2> QED
    BY <2>2, <2>4, <2>5, <2>6 DEF AInv
<1>6. CASE d.settled = "resolved"
  <2>1. tracker' = tracker
    BY <1>6 DEF Installed
  <2>2. CASE PhaseFails
    BY <1>3, <1>5, <2>1, <2>2 DEF AInv, Sorted
  <2>3. CASE ~PhaseFails
    BY <1>4, <1>6, <2>1, <2>3 DEF Installed
  <2> QED
    BY <2>2, <2>3
<1>7. CASE d.settled # "resolved"
  <2> DEFINE b == d.settled = "failed"
  <2>1. PhaseFails /\ tracker' = [tracker EXCEPT !.failed = TRUE, !.begun = b]
    BY <1>7 DEF Installed
  <2>2. b \in BOOLEAN
    OBVIOUS
  <2>3. ~b => d.settled = "failed_clean"
    BY <1>1, <1>3, <1>7 DEF CallOK, CallShape
  <2> HIDE DEF b
  <2>4. tracker' \in Trackers /\ tracker'.begun = b /\ tracker'.permit = tracker.permit
    BY <2>1, <2>2 DEF AInv, Sorted, Trackers
  <2> QED
    BY <1>5, <2>1, <2>3, <2>4
<1> QED
  BY <1>6, <1>7

\* The LOGIN statement and the rollback consume their permits.
LEMMA BuildStatementStep ==
  ASSUME AInv, NEW p \in Permits, BuildStatement(p)
  PROVE  AInv'
<1>1. Place(pc) = p /\ p \in {"login", "rollback"} /\ outcome = "none"
  BY DEF BuildStatement, Place, AInv, Placed
<1>2. UNCHANGED <<role, d, att, identity, now, world, faults, diverged>>
  BY DEF BuildStatement, Calm
<1>3. CASE MayConsume(p)
  <2>1. tracker' = Consume(p) /\ pc' = <<"run", p>> /\ UNCHANGED <<journal, outcome>>
    BY <1>3 DEF BuildStatement
  <2>2. Place(pc') = p
    BY <1>1, <2>1 DEF Place
  <2>3. tracker \in Trackers
    BY DEF AInv, Sorted
  <2>4. /\ tracker' \in Trackers /\ tracker'.begun = tracker.begun
        /\ tracker'.permit[p].state = "consumed"
        /\ \A q \in Permits : q # p => tracker'.permit[q] = tracker.permit[q]
    BY <1>1, <2>1, <2>3, ConsumeOK
  <2>5. Sorted'
    BY <1>2, <2>1, <2>4 DEF AInv, Sorted, world
  <2>6. CallOK(d)' /\ Placed' /\ Numbered' /\ Tracked' /\ Quiesced' /\ Truth'
    BY <1>1, <1>2, <2>1, <2>2, <2>4
       DEF AInv, Placed, Numbered, Tracked, Quiesced, Truth, AllDormant, world
  <2>7. Evidence'
    BY <1>2, <2>4, EvidenceKept DEF world
  <2> QED
    BY <2>5, <2>6, <2>7 DEF AInv
<1>4. CASE ~MayConsume(p) /\ p = "rollback"
  <2>1. pc' = <<"done">> /\ outcome' = "manual" /\ UNCHANGED <<journal, tracker>>
    BY <1>4 DEF BuildStatement, Ended
  <2>2. Place(pc') = "done" /\ journal' \in Journals
    BY <2>1 DEF Place, AInv, Sorted
  <2> QED
    BY <1>1, <1>2, <1>4, <2>1, <2>2, MovesOn DEF Calm
<1>5. CASE ~MayConsume(p) /\ p # "rollback"
  <2>1. PhaseFails /\ UNCHANGED <<tracker, outcome>>
    BY <1>5 DEF BuildStatement
  <2> QED
    BY <1>1, <1>2, <1>5, <2>1, PhaseFailsOK DEF Calm
<1> QED
  BY <1>3, <1>4, <1>5

\* LOGIN is enabled, or may have been.
LEMMA RunLoginStep ==
  ASSUME AInv, RunLogin
  PROVE  AInv'
<1>1. Place(pc) = "login" /\ outcome = "none" /\ tracker.begun
      /\ journal.next = 3 /\ journal.active = 3 /\ journal \in Journals
  BY DEF RunLogin, Place, AInv, Placed, Numbered, Sorted
<1>2. UNCHANGED <<d, tracker, att, outcome, identity, now, world, faults, diverged>>
  BY DEF RunLogin, Calm
<1>3. role' \in [Branches -> [password: BOOLEAN, login: BOOLEAN]]
  <2>1. role \in [Branches -> [password: BOOLEAN, login: BOOLEAN]] /\ branch \in Branches
    BY DEF AInv, Sorted
  <2>2. role' = [role EXCEPT ![branch].login = TRUE] \/ role' = role
    BY DEF RunLogin
  <2> QED
    BY <2>1, <2>2
<1>4. /\ journal' \in Journals
      /\ \/ Place(pc') = "verify" /\ journal'.next = 4 /\ journal'.active = 4
         \/ Place(pc') = "cleanup"
  <2>1. CASE journal' = StartPhase(Pass(journal), 4) /\ pc' = <<"verify">>
    <3>1. Place(pc') = "verify"
      BY <2>1 DEF Place
    <3>2. journal' \in Journals /\ journal'.next = 4 /\ journal'.active = 4
      BY <1>1, <2>1, JournalGoesOn
    <3> QED
      BY <3>1, <3>2
  <2>2. CASE PhaseFails
    BY <1>1, <2>2, JournalFails DEF PhaseFails, Place
  <2> QED
    BY <2>1, <2>2 DEF RunLogin
<1>5. Sorted'
  BY <1>2, <1>3, <1>4 DEF AInv, Sorted, world
<1>6. CallOK(d)' /\ Placed' /\ Numbered' /\ Tracked' /\ Quiesced' /\ Truth' /\ Evidence'
  BY <1>1, <1>2, <1>4
     DEF AInv, Placed, Numbered, Tracked, Quiesced, Truth, Evidence, world
<1> QED
  BY <1>5, <1>6 DEF AInv

\* A verification that passes has seen the role with password and LOGIN.
LEMMA VerifyStep ==
  ASSUME AInv, Verify
  PROVE  AInv'
<1>1. Place(pc) = "verify" /\ outcome = "none" /\ tracker.begun
      /\ journal.next = journal.active /\ journal.active \in 4..8 /\ journal \in Journals
  BY DEF Verify, Place, AInv, Placed, Numbered, Sorted
<1>2. UNCHANGED <<role, d, tracker, att, outcome, identity, now, world, faults, diverged>>
  BY DEF Verify, Calm
<1>3. CASE PhaseFails
  BY <1>1, <1>2, <1>3, PhaseFailsOK DEF Calm
<1>4. CASE ~PhaseFails
  <2> DEFINE phase == journal.active + 1
  <2>1. /\ role[branch] = Full /\ journal' = StartPhase(Pass(journal), phase)
        /\ pc' = IF journal.active = 8 THEN <<"observe", "success">> ELSE pc
    BY <1>4 DEF Verify, Full
  <2>2. phase \in 1..9 /\ phase = journal.next + 1 /\ journal.next <= 9
    BY <1>1
  <2>3. journal' \in Journals /\ journal'.next = phase /\ journal'.active = phase
    <3> HIDE DEF phase
    <3> QED
      BY <1>1, <2>1, <2>2, JournalGoesOn
  <2>4. /\ journal.active = 8 => Place(pc') = "success" /\ phase = 9
        /\ journal.active # 8 => Place(pc') = "verify" /\ phase \in 4..8
    BY <1>1, <2>1 DEF Place
  <2> HIDE DEF phase
  <2>5. Sorted'
    BY <1>2, <2>3 DEF AInv, Sorted, world
  <2>6. Placed' /\ Numbered' /\ Truth'
    BY <1>1, <1>2, <2>1, <2>3, <2>4 DEF AInv, Placed, Numbered, Truth, world
  <2>7. CallOK(d)' /\ Tracked' /\ Quiesced' /\ Evidence'
    BY <1>2 DEF AInv, Tracked, Quiesced, Evidence, AllDormant, world
  <2> QED
    BY <2>5, <2>6, <2>7 DEF AInv
<1> QED
  BY <1>3, <1>4

\* The attempt is finalised on the role the last verification saw.
LEMMA FinaliseStep ==
  ASSUME AInv, Finalise
  PROVE  AInv'
<1>1. Place(pc) = "success" /\ outcome = "none" /\ journal.next = 9 /\ journal \in Journals
  BY DEF Finalise, Place, AInv, Placed, Numbered, Sorted
<1>2. UNCHANGED <<role, d, att, identity, now, world, faults, diverged>>
  BY DEF Finalise, Calm
<1>3. CASE MayConsume("success")
  <2>1. /\ tracker' = Consume("success") /\ pc' = <<"done">> /\ outcome' = "activated"
        /\ journal' = [Pass(journal) EXCEPT !.rollback = "not_required"]
    BY <1>3 DEF Finalise, Ended
  <2>2. Place(pc') = "done" /\ "success" \in Permits /\ tracker \in Trackers
    BY <2>1 DEF Place, Permits, AInv, Sorted
  <2>3. journal' \in Journals
    <3> DEFINE n == journal.next + 1
    <3>1. n \in 1..10 /\ 0 \in 0..9
      BY <1>1
    <3>2. Pass(journal) = [journal EXCEPT !.next = n, !.active = 0]
      BY DEF Pass
    <3> HIDE DEF n
    <3>3. Pass(journal) \in Journals
      BY <1>1, <3>1, <3>2 DEF Journals
    <3> QED
      BY <2>1, <3>3 DEF Journals
  <2>4. /\ tracker' \in Trackers /\ tracker'.permit["success"].state = "consumed"
        /\ \A q \in Permits : q # "success" => tracker'.permit[q] = tracker.permit[q]
    BY <2>1, <2>2, ConsumeOK
  <2>5. Sorted'
    BY <1>2, <2>1, <2>3, <2>4 DEF AInv, Sorted, world
  <2>6. CallOK(d)' /\ Placed' /\ Numbered' /\ Tracked' /\ Quiesced' /\ Truth'
    BY <1>1, <1>2, <2>1, <2>2
       DEF AInv, Placed, Numbered, Tracked, Quiesced, Truth, AllDormant, world
  <2>7. Evidence'
    BY <1>2, <2>4, EvidenceKept DEF world
  <2> QED
    BY <2>5, <2>6, <2>7 DEF AInv
<1>4. CASE ~MayConsume("success")
  <2>1. PhaseFails /\ UNCHANGED <<tracker, outcome>>
    BY <1>4 DEF Finalise
  <2> QED
    BY <1>1, <1>2, <2>1, PhaseFailsOK DEF Calm
<1> QED
  BY <1>3, <1>4

\* The cleanup turns to the rollback when a change may have begun, and ends otherwise.
LEMMA CleanupStep ==
  ASSUME AInv, Cleanup
  PROVE  AInv'
<1>1. Place(pc) = "cleanup" /\ outcome = "none" /\ journal \in Journals
  BY DEF Cleanup, Place, AInv, Placed, Sorted
<1>2. UNCHANGED <<role, d, tracker, att, now, world, faults, diverged>>
  BY DEF Cleanup, Calm
<1>3. CASE tracker.begun
  <2>1. journal' \in Journals
    BY <1>1, <1>3 DEF Cleanup, Journals
  <2>2. CASE Ended("manual") /\ UNCHANGED identity
    <3>1. Place(pc') = "done" /\ outcome' = "manual"
      BY <2>2 DEF Ended, Place
    <3> QED
      BY <1>1, <1>2, <2>1, <2>2, <3>1, MovesOn DEF Calm
  <2>3. CASE identity' = SqlIdentity(branch) /\ pc' = <<"observe", "rollback">> /\ UNCHANGED outcome
    <3>1. Place(pc') = "rollback" /\ identity' \in {"none", "first", "second"}
      BY <2>3 DEF Place, SqlIdentity
    <3>2. Sorted'
      BY <1>2, <2>1, <2>3, <3>1 DEF AInv, Sorted, world
    <3>3. CallOK(d)' /\ Placed' /\ Numbered' /\ Tracked' /\ Quiesced' /\ Truth' /\ Evidence'
      BY <1>1, <1>2, <1>3, <2>3, <3>1
         DEF AInv, Placed, Numbered, Tracked, Quiesced, Truth, Evidence, AllDormant, world
    <3> QED
      BY <3>2, <3>3 DEF AInv
  <2> QED
    BY <1>3, <2>2, <2>3 DEF Cleanup
<1>4. CASE ~tracker.begun
  <2>1. pc' = <<"done">> /\ outcome' = "untouched" /\ UNCHANGED <<journal, identity>>
    BY <1>4 DEF Cleanup, Ended
  <2>2. Place(pc') = "done"
    BY <2>1 DEF Place
  <2> QED
    BY <1>1, <1>2, <1>4, <2>1, <2>2, MovesOn DEF Calm
<1> QED
  BY <1>3, <1>4

\* The rollback is done, or ends with a call for a hand.
LEMMA RunRollbackStep ==
  ASSUME AInv, RunRollback
  PROVE  AInv'
<1>1. Place(pc) = "rollback" /\ outcome = "none" /\ tracker.begun /\ journal \in Journals
      /\ (d.job = "install" => d.settled # "no") /\ d.job # "probe"
  BY DEF RunRollback, Place, AInv, Placed, Sorted
<1>2. UNCHANGED <<d, att, identity, now, world, faults, diverged>>
  BY DEF RunRollback, Calm
<1>3. PICK applied, answered \in BOOLEAN :
       /\ answered => applied
       /\ role' = IF applied THEN [role EXCEPT ![branch] = Dormant] ELSE role
       /\ IF answered
          THEN /\ tracker' = [tracker EXCEPT !.begun = FALSE]
               /\ journal' = [journal EXCEPT !.rollback = "passed"]
               /\ Ended("rolled_back")
          ELSE /\ journal' = [journal EXCEPT !.rollback = "failed"]
               /\ Ended("manual") /\ UNCHANGED tracker
  BY DEF RunRollback
<1>4. role \in [Branches -> [password: BOOLEAN, login: BOOLEAN]] /\ branch \in Branches
      /\ tracker \in Trackers
  BY DEF AInv, Sorted
<1>5. role' \in [Branches -> [password: BOOLEAN, login: BOOLEAN]] /\ (answered => role'[branch] = Dormant)
  <2>1. Dormant \in [password: BOOLEAN, login: BOOLEAN]
    BY DEF Dormant
  <2> QED
    BY <1>3, <1>4, <2>1
<1>6. /\ journal' \in Journals /\ tracker' \in Trackers /\ tracker'.permit = tracker.permit
      /\ ~answered => tracker' = tracker
  BY <1>1, <1>3, <1>4 DEF Journals, Trackers
<1>7. Place(pc') = "done" /\ outcome' = (IF answered THEN "rolled_back" ELSE "manual")
  BY <1>3 DEF Ended, Place
<1>8. Sorted'
  BY <1>2, <1>5, <1>6, <1>7 DEF AInv, Sorted, world
<1>9. CallOK(d)' /\ Placed' /\ Numbered' /\ Tracked' /\ Quiesced' /\ Truth'
  BY <1>1, <1>2, <1>5, <1>6, <1>7
     DEF AInv, Placed, Numbered, Tracked, Quiesced, Truth, world
<1>10. Evidence'
  BY <1>2, <1>6, EvidenceKept DEF world
<1> QED
  BY <1>8, <1>9, <1>10 DEF AInv

\* The attempt begins with the role dormant and no call.
LEMMA AttemptBegins == ASSUME ActivationInit PROVE AInv
<1>1. Place(pc) = "preflight"
  BY DEF ActivationInit, Place
<1>2. Sorted
  <2>1. MaxNow + 1 \in 0..MaxNow + 1 /\ 0 \in 0..MaxNow /\ 0 \in 0..MaxNow + Validity /\ 0 \in 0..MaxFaults
        /\ 1 \in 1..10 /\ 0 \in 0..9
    BY ActivationAssumption
  <2>2. role \in [Branches -> [password: BOOLEAN, login: BOOLEAN]]
    BY DEF ActivationInit, Dormant
  <2>3. [p \in Permits |-> NoPermit]
          \in [Permits -> [state: {"none", "issued", "consumed"}, expires: 0..MaxNow + Validity]]
    BY <2>1 DEF NoPermit
  <2>4. tracker \in Trackers
    BY <2>1, <2>3 DEF ActivationInit, Trackers
  <2>5. journal \in Journals
    BY <2>1 DEF ActivationInit, Journals, NewJournal
  <2> QED
    BY <2>1, <2>2, <2>4, <2>5 DEF ActivationInit, Sorted, Branches
<1>3. CallOK(d) /\ d.job = "none"
  BY NoCallOK DEF ActivationInit
<1>4. Placed /\ Numbered /\ Tracked /\ Quiesced /\ Truth
  BY <1>1, <1>3 DEF ActivationInit, Placed, Numbered, Tracked, Quiesced, Truth, AllDormant, Branches
<1>5. Evidence
  BY ActivationAssumption DEF ActivationInit, Evidence, NoPermit, Permits
<1> QED
  BY <1>2, <1>3, <1>4, <1>5 DEF AInv

\* Every step of the wrapper, of docker, of the clock and of the provider keeps AInv.
LEMMA AttemptGoesOn ==
  ASSUME AInv, [ActivationNext]_activationVars
  PROVE  AInv'
<1>1. CASE Wrapper
  BY <1>1, PreflightStep, ValidatedStep, InstallStep, InstalledStep, RunLoginStep, VerifyStep,
     FinaliseStep, CleanupStep, RunRollbackStep, ObserveStep, AuthoriseStep, BuildStatementStep
     DEF Wrapper
<1>2. CASE Docker
  BY <1>2, ContainerSteps, ClientSteps, TimerSteps, RoundSteps, PsqlSteps DEF Docker
<1>3. CASE Tick \/ Rebind
  BY <1>3, WorldSteps
<1>4. CASE ClientDies \/ SpawnFails \/ Trouble
  BY <1>4, ClientSteps, TimerSteps
<1>5. CASE UNCHANGED activationVars
  BY <1>5 DEF activationVars, world, AInv, Sorted, Placed, Numbered, Tracked, Quiesced, Truth, Evidence, AllDormant
<1> QED
  BY <1>1, <1>2, <1>3, <1>4, <1>5 DEF ActivationNext

\* A call comes to no more rounds than Attempts + 2.
LEMMA AttemptTypes == ASSUME AInv PROVE ActivationTypeOK
<1>1. d \in CallType
  <2>1. d \in CallShape /\ d.attempts + Spare(d) <= Attempts + 2 /\ Spare(d) <= 2
    <3>1. d \in CallShape /\ Rounds(d)
      BY DEF AInv, CallOK
    <3> QED
      BY <3>1 DEF Rounds, Spare, One, CallShape
  <2>2. d.attempts \in Nat /\ d.retries \in Nat /\ Spare(d) \in Nat /\ d.retries <= Spare(d)
    BY <2>1 DEF CallShape, Spare, One
  <2>3. d.attempts \in 0..Attempts + 2 /\ d.retries \in 0..2
    BY <2>1, <2>2, AttemptsAssumption
  <2> QED
    BY <2>1, <2>3 DEF CallShape, CallType
<1> QED
  BY <1>1 DEF AInv, Sorted, Trackers, Journals, ActivationTypeOK

\* A role that is not as it was found is one a change may have begun on.
LEMMA AttemptTracked == ASSUME AInv PROVE ChangesTracked
BY DEF AInv, Tracked, AllDormant, ChangesTracked

\* A terminated call that has settled has nothing left to run.
LEMMA AttemptSettled == ASSUME AInv PROVE SettledIsDead
BY DEF AInv, CallOK, Settlement, Open, SettledIsDead, MayStillRun, CallShape

\* The outcome is what the role of the approved branch shows.
LEMMA AttemptTrue == ASSUME AInv PROVE OutcomeIsTrue
<1> SUFFICES ASSUME reboundAt > MaxNow, ~diverged
             PROVE  /\ outcome = "activated" => role["approved"] = [password |-> TRUE, login |-> TRUE]
                    /\ outcome \in {"rolled_back", "untouched"} => role["approved"] = Dormant
  BY DEF OutcomeIsTrue
<1>1. branch = "approved"
  BY ActivationAssumption DEF AInv, Sorted, Evidence
<1>2. outcome = "untouched" => role["approved"] = Dormant
  BY DEF AInv, Placed, Tracked, AllDormant, Branches
<1> QED
  BY <1>1, <1>2 DEF AInv, Truth, Full

\* A permit is consumed by the step that asked MayConsume for it, and by no other.
LEMMA OnlyWhatIsIssued ==
  ASSUME AInv, [ActivationNext]_activationVars, NEW p \in Permits, ~Consumed(p), Consumed(p)'
  PROVE  MayConsume(p)
<1>1. tracker \in Trackers /\ \A q \in Permits : tracker.permit[q].state = "consumed" => Consumed(q)
  BY DEF AInv, Sorted, Consumed
<1>2. tracker'.permit # tracker.permit /\ tracker'.permit[p].state = "consumed"
  BY DEF Consumed
<1>3. ASSUME NEW q \in Permits, MayConsume(q), tracker' = Consume(q)
      PROVE  MayConsume(p)
  <2>1. p # q => tracker'.permit[p] = tracker.permit[p]
    BY <1>1, <1>3, ConsumeOK
  <2> QED
    BY <1>2, <1>3, <2>1 DEF Consumed
<1>4. CASE Install
  BY <1>2, <1>3, <1>4 DEF Install, Permits
<1>5. CASE Finalise
  BY <1>2, <1>3, <1>5 DEF Finalise, Permits
<1>6. ASSUME NEW q \in Permits, BuildStatement(q) PROVE MayConsume(p)
  BY <1>2, <1>3, <1>6 DEF BuildStatement
<1>7. ASSUME NEW q \in Permits, Authorise(q) PROVE FALSE
  <2>1. tracker' = Issue(q)
    BY <1>2, <1>7 DEF Authorise
  <2> DEFINE f == [tracker.permit EXCEPT ![q] = [state |-> "issued", expires |-> Expires(att)]]
  <2>2. tracker'.permit = f
    BY <1>1, <2>1 DEF Issue, Trackers
  <2>3. f[p].state # "consumed"
    BY <1>1 DEF Consumed, Trackers
  <2> QED
    BY <1>2, <2>2, <2>3
<1>8. CASE Validated \/ Installed \/ RunRollback
  <2>1. tracker'.permit = tracker.permit
    BY <1>1, <1>8 DEF Validated, Installed, RunRollback, Trackers
  <2> QED
    BY <1>2, <2>1
<1>9. CASE Preflight \/ RunLogin \/ Verify \/ Cleanup \/ \E q \in Permits : Observe(q)
  BY <1>2, <1>9 DEF Preflight, RunLogin, Verify, Cleanup, Observe
<1>10. CASE Docker
  BY <1>2, <1>10
     DEF Docker, ClientAsks, DaemonMakes, ClientStarts, PsqlWorks, PsqlExits, DaemonRemoves,
         ClientCloses, ClientRefused, TimeoutFires, GraceFires, RetryFires, RmEnds, PsEnds,
         Call, Round, Quiet
<1>11. CASE Tick \/ Rebind \/ ClientDies \/ SpawnFails \/ Trouble \/ UNCHANGED activationVars
  BY <1>2, <1>11 DEF Tick, Rebind, ClientDies, SpawnFails, Trouble, Call, Quiet, activationVars
<1> QED
  BY <1>4, <1>5, <1>6, <1>7, <1>8, <1>9, <1>10, <1>11 DEF ActivationNext, Wrapper

\* DriftWindow as a formula about one step.
DriftStep == \A p \in Permits : ~Consumed(p) /\ Consumed(p)' /\ branch = "other" => now - reboundAt < Validity

\* No permit is consumed when the endpoint was moved an attestation's validity ago.
LEMMA AttemptDrift == ASSUME AInv, [ActivationNext]_activationVars PROVE DriftStep
<1> SUFFICES ASSUME NEW p \in Permits, ~Consumed(p), Consumed(p)', branch = "other"
             PROVE  now - reboundAt < Validity
  BY DEF DriftStep
<1>1. MayConsume(p)
  BY OnlyWhatIsIssued
<1>2. now < tracker.permit[p].expires /\ tracker.permit[p].expires <= reboundAt + Validity
  BY <1>1 DEF MayConsume, AInv, Evidence
<1>3. now \in Nat /\ reboundAt \in Nat /\ Validity \in Nat /\ tracker.permit[p].expires \in Nat
  BY ActivationAssumption DEF AInv, Sorted, Trackers
<1> QED
  BY <1>2, <1>3

\* PlatformRuntimeActivationMutationTracker, the permits and createConfirmedDockerTermination:
\* for any validity and age of attestations, any number of cleanup rounds and of docker
\* failures, and whether or not docker clients die before their containers, the tracker knows
\* of every change, a settled termination is final, the outcome told is the one in the
\* database, and no permit is used long after the endpoint was moved.
THEOREM ActivationHolds == ActivationSpec => ActivationSafe
<1>1. ActivationInit => AInv
  BY AttemptBegins
<1>2. AInv /\ [ActivationNext]_activationVars => AInv'
  BY AttemptGoesOn
<1>3. AInv => ActivationTypeOK /\ ChangesTracked /\ SettledIsDead /\ OutcomeIsTrue
  BY AttemptTypes, AttemptTracked, AttemptSettled, AttemptTrue
<1>4. AInv /\ [ActivationNext]_activationVars => [DriftStep]_activationVars
  BY AttemptDrift
<1>5. ActivationSpec => []AInv
  BY <1>1, <1>2, PTL DEF ActivationSpec
<1>6. ActivationSpec => [](ActivationTypeOK /\ ChangesTracked /\ SettledIsDead /\ OutcomeIsTrue)
  BY <1>3, <1>5, PTL
<1>7. ActivationSpec => [][DriftStep]_activationVars
  BY <1>4, <1>5, PTL DEF ActivationSpec
<1>8. [][DriftStep]_activationVars => DriftWindow
  BY PTL DEF DriftWindow, DriftStep
<1> QED
  BY <1>6, <1>7, <1>8, PTL DEF ActivationSafe

(***************************************************************************)
(* DatabasePosture: what the catalogue is.                                   *)
(***************************************************************************)
Edges == [member: Roles, role: Roles, by: Roles, admin: BOOLEAN, inherit: BOOLEAN, set: BOOLEAN]
Grants == [on: Things, to: Grantees, priv: AllPrivileges, grantable: BOOLEAN, by: Roles]
Defaults == [creator: Roles, schema: Schemas \cup {"*"}, kind: {"table", "sequence", "routine"}, to: Grantees]

\* The type of a catalogue, all of it.
Catalogues ==
  [members: SUBSET Edges, attrs: SUBSET (Roles \X Attributes), exist: SUBSET Names,
   owner: [Things -> Roles], acl: SUBSET Grants, columns: SUBSET (Names \X Grantees),
   defaults: SUBSET Defaults, revoked: SUBSET Roles,
   builtin: SUBSET {n \in Names : Objects[n].kind = "routine"}, odd: BOOLEAN, migrated: BOOLEAN]

Kinds == {"table", "sequence", "type", "routine"}

\* What the objects are, and those that migrations will make.
LEMMA ObjectsAre ==
  /\ Names = {"accounts", "ids", "status", "ledger", "db_tree", "reports", "ext", "stray", "stray_type",
              "helper", "new_table", "new_sequence", "new_routine"}
  /\ \A n \in Names : Objects[n].schema \in Schemas /\ Objects[n].kind \in Kinds
  /\ \A n \in Made : n \in Names /\ Objects[n].schema = "public" /\ Objects[n].class = "unknown"
                     /\ Objects[n].kind # "type"
<1>1. Names = {"accounts", "ids", "status", "ledger", "db_tree", "reports", "ext", "stray", "stray_type",
              "helper", "new_table", "new_sequence", "new_routine"}
  BY DEF Names, Objects
<1>2. \A n \in Names : Objects[n].schema \in Schemas /\ Objects[n].kind \in Kinds
  BY <1>1 DEF Objects, Object, Schemas, Kinds
<1>3. \A n \in Made : n \in Names /\ Objects[n].schema = "public" /\ Objects[n].class = "unknown"
                     /\ Objects[n].kind # "type"
  BY <1>1 DEF Objects, Object, Made
<1> QED
  BY <1>1, <1>2, <1>3

\* A schema is not the name of an object, and the database is neither.
LEMMA ThingsDiffer == Schemas \cap Names = {} /\ "db" \notin Names \cup Schemas
BY ObjectsAre DEF Schemas

\* A role no membership leads away from reaches itself alone.
LEMMA ReachesItself ==
  ASSUME NEW E, NEW r, \A e \in E : e.member # r
  PROVE  Reached(r, E) = {r}
<1> DEFINE step(S) == S \cup {e.role : e \in {x \in E : x.member \in S}}
<1>1. step({r}) = {r}
  OBVIOUS
<1>2. Reached(r, E) = step(step(step(step({r}))))
  BY DEF Reached
<1> HIDE DEF step
<1> QED
  BY <1>1, <1>2

\* A role no membership leads to is reached by itself alone.
LEMMA NotReached ==
  ASSUME NEW E, NEW r, NEW x, r # x, \A e \in E : e.role # x
  PROVE  x \notin Reached(r, E)
<1> DEFINE step(S) == S \cup {e.role : e \in {y \in E : y.member \in S}}
<1>1. \A S : x \notin S => x \notin step(S)
  OBVIOUS
<1>2. Reached(r, E) = step(step(step(step({r}))))
  BY DEF Reached
<1> HIDE DEF step
<1> QED
  BY <1>1, <1>2

\* A role always reaches itself.
LEMMA ReachedFrom == ASSUME NEW E, NEW r PROVE r \in Reached(r, E)
<1> DEFINE step(S) == S \cup {e.role : e \in {y \in E : y.member \in S}}
<1>1. \A S : r \in S => r \in step(S)
  OBVIOUS
<1>2. Reached(r, E) = step(step(step(step({r}))))
  BY DEF Reached
<1> HIDE DEF step
<1> QED
  BY <1>1, <1>2

\* Under the posture the runtime is nobody but itself: it has no membership, not even by
\* owning the database, and no attribute that stands above them.
LEMMA RuntimeAlone ==
  ASSUME NEW c, RuntimePosture(c)
  PROVE  /\ SetAssumable(c) = {"runtime"} /\ Effective(c) = {"runtime"} /\ ~Super(c, "runtime")
         /\ \A x : HasRole(c, "runtime", x) <=> x = "runtime"
         /\ \A x : MaySet(c, "runtime", x) <=> x = "runtime"
<1>1. \A e \in c.members : e.member # "runtime"
  BY DEF RuntimePosture, AdministrativeAttributesAbsent, EdgesOf, CreatorEdge, Edge
<1>2. SetAssumable(c) = {"runtime"} /\ Effective(c) = {"runtime"}
  BY <1>1, ReachesItself DEF SetAssumable, Effective
<1>3. ~Super(c, "runtime")
  BY <1>2 DEF RuntimePosture, AdministrativeAttributesAbsent, Super, Administrative
<1>4. c.owner["db"] # "runtime"
  BY <1>2, ReachedFrom DEF RuntimePosture, OwnershipAbsent, Owns, HasRole
<1>5. \A e \in Memberships(c) : e.member # "runtime"
  BY <1>1, <1>4 DEF Memberships, Edge
<1>6. /\ Reached("runtime", {e \in Memberships(c) : e.inherit}) = {"runtime"}
      /\ Reached("runtime", {e \in Memberships(c) : e.set}) = {"runtime"}
  BY <1>5, ReachesItself
<1> QED
  BY <1>2, <1>3, <1>6 DEF HasRole, MaySet

\* What the runtime has, it is granted, or PUBLIC is, or it owns.
LEMMA RuntimeHas ==
  ASSUME NEW c, RuntimePosture(c), NEW t, NEW p, Has(c, "runtime", t, p)
  PROVE  c.owner[t] = "runtime" \/ \E g \in c.acl : g.on = t /\ g.priv = p /\ g.to \in {"PUBLIC", "runtime"}
BY RuntimeAlone DEF Has, Owns

\* A session of the runtime can use what the contract says, make nothing and own nothing.
LEMMA ContractOnly ==
  ASSUME NEW c \in Catalogues, RuntimePosture(c), NEW r \in Roles, MaySet(c, "runtime", r)
  PROVE  /\ \A x \in Usable(c, r) : x \in Contract \/ x[1] \in c.builtin
         /\ Creates(c, r) = {} /\ Owned(c, r) = {}
<1>1. r = "runtime" /\ Effective(c) = {"runtime"}
  BY RuntimeAlone
<1>2. Creates(c, r) = {}
  BY <1>1 DEF RuntimePosture, DatabaseAndSchemaCreateAbsent, Creates
<1>3. Owned(c, r) = {}
  <2>1. \A t \in c.exist \cup Schemas \cup {"db"} :
          (t \in Names => Objects[t].kind # "type") => ~Owns(c, r, t)
    <3>1. c.exist \subseteq Names
      BY DEF Catalogues
    <3> QED
      BY <1>1, <3>1 DEF RuntimePosture, OwnershipAbsent
  <2> QED
    BY <2>1 DEF Owned
<1>4. ASSUME NEW x \in Usable(c, r) PROVE x \in Contract \/ x[1] \in c.builtin
  <2> DEFINE n == x[1]
             p == x[2]
  <2>1. /\ x \in c.exist \X AllPrivileges /\ p \in PrivilegesOn(n) /\ Objects[n].kind # "type"
        /\ Has(c, "runtime", Objects[n].schema, "USAGE")
        /\ \/ Has(c, "runtime", n, p)
           \/ \E y \in c.columns : y[1] = n /\ (y[2] = "PUBLIC" \/ HasRole(c, "runtime", y[2]))
           \/ n \in c.builtin
    BY <1>1, <1>4 DEF Usable
  <2>2. n \in c.exist /\ n \in Names /\ x = <<n, p>>
    BY <2>1 DEF Catalogues
  <2> HIDE DEF n, p
  <2>3. Objects[n].schema \in AclSchemas(c) /\ Objects[n].kind \in {"table", "sequence", "routine"}
    BY <2>1, <2>2, ObjectsAre DEF AclSchemas, Kinds
  <2>4. ~\E y \in c.columns : y[1] = n /\ (y[2] = "PUBLIC" \/ HasRole(c, "runtime", y[2]))
    BY <2>2, <2>3, RuntimeAlone DEF RuntimePosture, RuntimeColumnAuthorityAbsent
  <2>5. ASSUME Has(c, "runtime", n, p) PROVE x \in Contract
    <3>1. c.owner[n] # "runtime"
      <4>1. ~Owns(c, "runtime", n)
        BY <1>1, <2>1, <2>2 DEF RuntimePosture, OwnershipAbsent
      <4> QED
        BY <4>1, RuntimeAlone DEF Owns
    <3>2. PICK g \in c.acl : g.on = n /\ g.priv = p /\ g.to \in {"PUBLIC", "runtime"}
      BY <2>5, <3>1, RuntimeHas
    <3>3. g \in Direct(c, Objects[n].kind) \/ g \in PublicIn(c, Objects[n].kind, AclSchemas(c))
      BY <2>2, <2>3, <3>2 DEF Direct, PublicIn
    <3>4. Objects[n].kind = "table"
      BY <2>3, <3>3 DEF RuntimePosture, RoutineAndSequenceAuthorityAbsent
    <3>5. g \in Direct(c, "table")
      BY <3>3, <3>4 DEF RuntimePosture, RuntimeTableGrantsExact
    <3>6. <<g.on, g.priv>> \in Contract
      BY <3>5 DEF RuntimePosture, RuntimeTableGrantsExact, GrantSetExact
    <3> QED
      BY <2>2, <3>2, <3>6
  <2> QED
    BY <2>1, <2>4, <2>5 DEF n
<1> QED
  BY <1>2, <1>3, <1>4

\* What migrations make of a catalogue.
LEMMA MadeOf ==
  ASSUME NEW c \in Catalogues, NEW r \in {"app", "migrator"}
  PROVE  LET u == Created(c, r, Made) IN
         /\ u.members = c.members /\ u.attrs = c.attrs /\ u.columns = c.columns
         /\ u.defaults = c.defaults /\ u.revoked = c.revoked /\ u.builtin = c.builtin
         /\ u.odd = c.odd /\ u.migrated = c.migrated
         /\ u.exist = c.exist \cup Made
         /\ u.owner = [t \in Things |-> IF t \in Made THEN r ELSE c.owner[t]]
         /\ c.acl \subseteq u.acl
         /\ \A g \in u.acl : g \in c.acl \/ \E n \in Made : \E e \in DefaultAcl(c, r, n), p \in PrivilegesOn(n) :
                                             g = Grant(n, e.to, p, FALSE, r)
<1> DEFINE items(n) == {Grant(n, e.to, p, FALSE, r) : e \in DefaultAcl(c, r, n), p \in PrivilegesOn(n)}
           new == UNION {items(n) : n \in Made}
           own == [t \in Things |-> IF t \in Made THEN r ELSE c.owner[t]]
           u == Created(c, r, Made)
<1>1. u = [c EXCEPT !.exist = c.exist \cup Made, !.owner = own, !.acl = c.acl \cup new]
  BY DEF Created, Catalogues
<1>2. \A g \in new : \E n \in Made : \E e \in DefaultAcl(c, r, n), p \in PrivilegesOn(n) : g = Grant(n, e.to, p, FALSE, r)
  <2>1. ASSUME NEW n \in Made, NEW g \in items(n)
        PROVE  \E e \in DefaultAcl(c, r, n), p \in PrivilegesOn(n) : g = Grant(n, e.to, p, FALSE, r)
    BY <2>1 DEF Grant
  <2> HIDE DEF items
  <2>2. \A g \in new : \E n \in Made : g \in items(n)
    OBVIOUS
  <2> QED
    BY <2>1, <2>2
<1> HIDE DEF new, own
<1>3. /\ u.members = c.members /\ u.attrs = c.attrs /\ u.columns = c.columns
      /\ u.defaults = c.defaults /\ u.revoked = c.revoked /\ u.builtin = c.builtin
      /\ u.odd = c.odd /\ u.migrated = c.migrated
      /\ u.exist = c.exist \cup Made /\ u.owner = own /\ u.acl = c.acl \cup new
  BY <1>1 DEF Catalogues
<1> QED
  BY <1>2, <1>3 DEF own

\* A catalogue as it can be met: of its type, every grant one the object knows, and
\* nothing granted on an object the migrations have not made yet.
WellFormed(c) ==
  /\ c \in Catalogues
  /\ \A g \in c.acl : g.priv \in PrivilegesOn(g.on)
  /\ \A g \in c.acl : g.on \in Made => g.on \in c.exist
  /\ \A x \in c.columns : x[1] \notin Made

\* Migrations change neither who acts as whom nor what anybody has on what was there.
LEMMA AuthorityKept ==
  ASSUME NEW c, WellFormed(c), NEW r \in {"app", "migrator"}
  PROVE  LET u == Created(c, r, Made) IN
         /\ \A x, y : (HasRole(u, x, y) <=> HasRole(c, x, y)) /\ (IsMember(u, x, y) <=> IsMember(c, x, y))
         /\ \A t \in Things \ Made : u.owner[t] = c.owner[t]
         /\ \A x : \A t \in Things \ Made : Owns(u, x, t) <=> Owns(c, x, t)
         /\ \A x, p : \A t \in Things \ Made : Has(u, x, t, p) <=> Has(c, x, t, p)
<1> DEFINE u == Created(c, r, Made)
<1>1. u.members = c.members /\ u.attrs = c.attrs /\ u.owner = [t \in Things |-> IF t \in Made THEN r ELSE c.owner[t]]
      /\ c.acl \subseteq u.acl
  BY MadeOf DEF WellFormed
<1>2. \A g \in u.acl : g \in c.acl \/ \E n \in Made : \E e \in DefaultAcl(c, r, n), p \in PrivilegesOn(n) :
                                         g = Grant(n, e.to, p, FALSE, r)
  BY MadeOf DEF WellFormed
<1>3. \A g \in u.acl : g \in c.acl \/ g.on \in Made
  BY <1>2 DEF Grant
<1> HIDE DEF u
<1>4. "db" \in Things \ Made
  BY DEF Things, Made
<1>5. \A t \in Things \ Made : u.owner[t] = c.owner[t]
  BY <1>1
<1>6. Memberships(u) = Memberships(c)
  BY <1>1, <1>4, <1>5 DEF Memberships
<1>7. \A x, y : (HasRole(u, x, y) <=> HasRole(c, x, y)) /\ (IsMember(u, x, y) <=> IsMember(c, x, y))
  BY <1>1, <1>6 DEF HasRole, IsMember, Super
<1>8. \A x : \A t \in Things \ Made : Owns(u, x, t) <=> Owns(c, x, t)
  BY <1>5, <1>7 DEF Owns
<1>9. \A x, p : \A t \in Things \ Made : Has(u, x, t, p) <=> Has(c, x, t, p)
  <2> SUFFICES ASSUME NEW x, NEW p, NEW t \in Things \ Made
               PROVE  Has(u, x, t, p) <=> Has(c, x, t, p)
    OBVIOUS
  <2>1. Super(u, x) <=> Super(c, x)
    BY <1>1 DEF Super
  <2>2. (\E g \in u.acl : g.on = t /\ g.priv = p /\ (g.to = "PUBLIC" \/ HasRole(u, x, g.to)))
        <=> (\E g \in c.acl : g.on = t /\ g.priv = p /\ (g.to = "PUBLIC" \/ HasRole(c, x, g.to)))
    BY <1>1, <1>3, <1>7
  <2> QED
    BY <1>8, <2>1, <2>2 DEF Has
<1> QED
  BY <1>5, <1>7, <1>8, <1>9 DEF u

\* What a migration makes under the defaults that were checked is granted neither to the
\* runtime nor to PUBLIC.
LEMMA MadeForOthers ==
  ASSUME NEW c, WellFormed(c), RuntimePosture(c), NEW r \in {"app", "migrator"},
         Has(c, r, "public", "CREATE")
  PROVE  \A g \in Created(c, r, Made).acl : g \in c.acl \/ (g.on \in Made /\ g.to \notin {"runtime", "PUBLIC"})
<1> SUFFICES ASSUME NEW g \in Created(c, r, Made).acl, g \notin c.acl
             PROVE  g.on \in Made /\ g.to \notin {"runtime", "PUBLIC"}
  OBVIOUS
<1>1. PICK n \in Made : \E e \in DefaultAcl(c, r, n), p \in PrivilegesOn(n) : g = Grant(n, e.to, p, FALSE, r)
  <2>1. c \in Catalogues
    BY DEF WellFormed
  <2>2. \A h \in Created(c, r, Made).acl :
          h \in c.acl \/ \E n \in Made : \E e \in DefaultAcl(c, r, n), p \in PrivilegesOn(n) :
                            h = Grant(n, e.to, p, FALSE, r)
    BY <2>1, MadeOf
  <2> QED
    BY <2>2, Zenon
<1>2. PICK e \in DefaultAcl(c, r, n) : \E p \in PrivilegesOn(n) : g = Grant(n, e.to, p, FALSE, r)
  BY <1>1
<1>3. g.on = n /\ g.to = e.to
  BY <1>2 DEF Grant
<1>4. Objects[n].schema = "public"
  BY ObjectsAre
<1>5. e \in c.defaults \cup RoutineDefaults(c) /\ e.creator = r /\ e.schema \in {"*", "public"}
  BY <1>2, <1>4 DEF DefaultAcl
<1>6. <<r, "public">> \in DefaultCreators(c)
  BY DEF DefaultCreators, ApplicationSchemas
<1>7. e \in EffectiveDefaults(c)
  BY <1>5, <1>6 DEF EffectiveDefaults
<1>8. e.to \notin {"runtime", "PUBLIC"}
  BY <1>7, RuntimeAlone DEF RuntimePosture, DefaultAuthorityAbsent
<1> QED
  BY <1>3, <1>8

\* The posture that let the runtime in holds of what migrations then make.
LEMMA PostureKept ==
  ASSUME NEW c, WellFormed(c), RuntimePosture(c), c.exist \cap Made = {},
         NEW r \in {"app", "migrator"}, Has(c, r, "public", "CREATE")
  PROVE  RuntimePosture(Created(c, r, Made))
<1> DEFINE u == Created(c, r, Made)
<1>1. /\ u.members = c.members /\ u.attrs = c.attrs /\ u.columns = c.columns
      /\ u.defaults = c.defaults /\ u.revoked = c.revoked /\ u.exist = c.exist \cup Made
      /\ u.owner = [t \in Things |-> IF t \in Made THEN r ELSE c.owner[t]] /\ c.acl \subseteq u.acl
  BY MadeOf DEF WellFormed
<1>2. /\ \A x, y : (HasRole(u, x, y) <=> HasRole(c, x, y)) /\ (IsMember(u, x, y) <=> IsMember(c, x, y))
      /\ \A x : \A t \in Things \ Made : Owns(u, x, t) <=> Owns(c, x, t)
      /\ \A x, p : \A t \in Things \ Made : Has(u, x, t, p) <=> Has(c, x, t, p)
  BY AuthorityKept
<1>3. \A g \in u.acl : g \in c.acl \/ (g.on \in Made /\ g.to \notin {"runtime", "PUBLIC"})
  BY MadeForOthers
<1> HIDE DEF u
<1>4. \A g \in c.acl : g.on \notin Made
  BY DEF WellFormed
<1>5. SetAssumable(u) = SetAssumable(c) /\ Effective(u) = {"runtime"} /\ Effective(c) = {"runtime"}
  BY <1>1, RuntimeAlone DEF SetAssumable, Effective, InheritsBySql
<1>6. Schemas \cup {"db"} \subseteq Things \ Made
  BY DEF Things, Schemas, Made
<1>7. \A n \in c.exist : n \in Things \ Made
  BY DEF WellFormed, Catalogues, Things
<1>8. AdministrativeAttributesAbsent(u)
  <2>1. EdgesOf(u, "runtime") = EdgesOf(c, "runtime")
    BY <1>1 DEF EdgesOf
  <2> QED
    BY <1>1, <1>2, <1>5, <2>1 DEF RuntimePosture, AdministrativeAttributesAbsent
<1>9. DatabaseAndSchemaCreateAbsent(u)
  <2>1. "drizzle" \in Schemas
    BY DEF Schemas
  <2> QED
    BY <1>2, <1>5, <1>6, <2>1 DEF RuntimePosture, DatabaseAndSchemaCreateAbsent
<1>10. MigrationLedgerAccessDenied(u)
  <2>1. "ledger" \notin Made
    BY DEF Made
  <2> QED
    BY <1>1, <1>2, <1>5, <1>7, <2>1 DEF RuntimePosture, MigrationLedgerAccessDenied
<1>11. OwnershipAbsent(u)
  <2>1. \A n \in Made : ~Owns(u, "runtime", n)
    <3>1. \A n \in Made : u.owner[n] = r
      BY <1>1, ObjectsAre DEF Things
    <3> QED
      BY <1>2, <3>1, RuntimeAlone DEF Owns
  <2>2. ~Owns(u, "runtime", "db") /\ \A s \in Schemas : ~Owns(u, "runtime", s)
    BY <1>2, <1>5, <1>6 DEF RuntimePosture, OwnershipAbsent
  <2>3. \A n \in c.exist : Objects[n].kind # "type" => ~Owns(u, "runtime", n)
    BY <1>2, <1>5, <1>7 DEF RuntimePosture, OwnershipAbsent
  <2> QED
    BY <1>1, <1>5, <2>1, <2>2, <2>3 DEF OwnershipAbsent
<1>12. AclSchemas(u) = AclSchemas(c)
  BY <1>2, <1>6 DEF AclSchemas
<1>13. ASSUME NEW k PROVE Direct(u, k) = Direct(c, k)
  BY <1>1, <1>3, <1>4 DEF Direct
<1>14. ASSUME NEW k, NEW schemas PROVE PublicIn(u, k, schemas) = PublicIn(c, k, schemas)
  BY <1>1, <1>3, <1>4 DEF PublicIn
<1>15. RuntimeTableGrantsExact(u)
  BY <1>12, <1>13, <1>14 DEF RuntimePosture, RuntimeTableGrantsExact, GrantSetExact
<1>16. RuntimeColumnAuthorityAbsent(u)
  <2>1. \A x \in c.columns : x[1] \in u.exist => x[1] \in c.exist
    BY <1>1 DEF WellFormed
  <2> QED
    BY <1>1, <1>12, <2>1 DEF RuntimePosture, RuntimeColumnAuthorityAbsent
<1>17. DefaultAuthorityAbsent(u)
  <2>1. DefaultCreators(u) = DefaultCreators(c)
    <3>1. \A p \in {"app", "migrator"} \X ApplicationSchemas : p[2] \in Things \ Made
      BY <1>6 DEF ApplicationSchemas, Schemas
    <3> QED
      BY <1>2, <3>1 DEF DefaultCreators
  <2>2. RoutineDefaults(u) = RoutineDefaults(c)
    BY <1>1 DEF RoutineDefaults
  <2>3. EffectiveDefaults(u) = EffectiveDefaults(c)
    BY <1>1, <2>1, <2>2 DEF EffectiveDefaults
  <2> QED
    BY <1>5, <2>3 DEF RuntimePosture, DefaultAuthorityAbsent
<1>18. RoutineAndSequenceAuthorityAbsent(u)
  BY <1>12, <1>13, <1>14 DEF RuntimePosture, RoutineAndSequenceAuthorityAbsent
<1> QED
  BY <1>8, <1>9, <1>10, <1>11, <1>15, <1>16, <1>17, <1>18 DEF RuntimePosture, u

\* What migrations make is a catalogue again.
LEMMA MadeWellFormed ==
  ASSUME NEW c, WellFormed(c), NEW r \in {"app", "migrator"}
  PROVE  WellFormed(Created(c, r, Made))
<1> DEFINE u == Created(c, r, Made)
           own == [t \in Things |-> IF t \in Made THEN r ELSE c.owner[t]]
<1>1. c \in Catalogues
  BY DEF WellFormed
<1>2. u = [c EXCEPT !.exist = u.exist, !.owner = own, !.acl = u.acl]
      /\ u.exist = c.exist \cup Made /\ u.columns = c.columns
  BY <1>1 DEF Created, Catalogues
<1>3. \A g \in u.acl : g \in c.acl \/ \E n \in Made : \E e \in DefaultAcl(c, r, n), p \in PrivilegesOn(n) :
                                         g = Grant(n, e.to, p, FALSE, r)
  BY <1>1, MadeOf
<1>4. own \in [Things -> Roles]
  BY <1>1 DEF Catalogues, Roles
<1> HIDE DEF u, own
<1>5. u.exist \in SUBSET Names
  BY <1>1, <1>2, ObjectsAre DEF Catalogues
<1>6. ASSUME NEW g \in u.acl, g \notin c.acl
      PROVE  g \in Grants /\ g.priv \in PrivilegesOn(g.on) /\ g.on \in Made
  <2>1. PICK n \in Made : \E e \in DefaultAcl(c, r, n), p \in PrivilegesOn(n) : g = Grant(n, e.to, p, FALSE, r)
    BY <1>3, <1>6, Zenon
  <2>2. PICK e \in DefaultAcl(c, r, n), p \in PrivilegesOn(n) : g = Grant(n, e.to, p, FALSE, r)
    BY <2>1, Zenon
  <2>3. n \in Things /\ p \in AllPrivileges
    BY <2>2, ObjectsAre DEF Things, AllPrivileges
  <2>4. e.to \in Grantees
    <3>1. e \in c.defaults \/ e \in RoutineDefaults(c)
      BY <2>2 DEF DefaultAcl
    <3> QED
      BY <1>1, <3>1 DEF Catalogues, Defaults, RoutineDefaults, Default, Grantees
  <2> QED
    BY <2>2, <2>3, <2>4 DEF Grant, Grants, Roles
<1>7. u.acl \in SUBSET Grants /\ \A g \in u.acl : g.priv \in PrivilegesOn(g.on) /\ (g.on \in Made => g.on \in u.exist)
  BY <1>2, <1>6 DEF WellFormed, Catalogues
<1>8. u \in Catalogues
  BY <1>1, <1>2, <1>4, <1>5, <1>7 DEF Catalogues
<1> QED
  BY <1>2, <1>7, <1>8 DEF WellFormed, u

\* An environment as it can be met: every variable has one of the values it can have.
Configured(e) ==
  /\ e \in [Variables -> UNION {Values(v) : v \in Variables}]
  /\ \A v \in Variables : e[v] \in Values(v)

Forms == {"none", "/", "path", "query", "credentials", "callback", "callback_query"}
UrlRecords ==
  [scheme: {"absent", "malformed", "other", "http", "https"},
   host: {"none", "apex", "alpha", "sqag", "elsewhere", "local"}, rest: Forms]

\* The variables with values of their own, and those with a passing one, named one by one.
LEMMA VariablesAre ==
  /\ DOMAIN Choices = {"NODE_ENV", "PLATFORM_HTTP_PORT", "PLATFORM_COOKIE_SECURE", "DATABASE_URL",
       "DATABASE_SSL_MODE", "DATABASE_EXPECTED_RUNTIME_ROLE", "DATABASE_MIGRATIONS_CONFIRM",
       "PLATFORM_AUTH_PROVIDER_MODE", "AUTH_PROVIDER_KEY", "PLATFORM_SQAG_LAUNCH_MODE",
       "PLATFORM_SEED_CONFIRM", "PLATFORM_SEED_MEMBERSHIP_ROLE", "PLATFORM_SEED_BOOTSTRAP_MODE"}
  /\ DOMAIN Passing = DOMAIN Choices \ {"PLATFORM_COOKIE_SECURE"}
<1>1. DOMAIN Choices = {"NODE_ENV", "PLATFORM_HTTP_PORT", "PLATFORM_COOKIE_SECURE", "DATABASE_URL",
       "DATABASE_SSL_MODE", "DATABASE_EXPECTED_RUNTIME_ROLE", "DATABASE_MIGRATIONS_CONFIRM",
       "PLATFORM_AUTH_PROVIDER_MODE", "AUTH_PROVIDER_KEY", "PLATFORM_SQAG_LAUNCH_MODE",
       "PLATFORM_SEED_CONFIRM", "PLATFORM_SEED_MEMBERSHIP_ROLE", "PLATFORM_SEED_BOOTSTRAP_MODE"}
  BY DEF Choices
<1>2. DOMAIN Passing = {"NODE_ENV", "PLATFORM_HTTP_PORT", "DATABASE_URL",
       "DATABASE_SSL_MODE", "DATABASE_EXPECTED_RUNTIME_ROLE", "DATABASE_MIGRATIONS_CONFIRM",
       "PLATFORM_AUTH_PROVIDER_MODE", "AUTH_PROVIDER_KEY", "PLATFORM_SQAG_LAUNCH_MODE",
       "PLATFORM_SEED_CONFIRM", "PLATFORM_SEED_MEMBERSHIP_ROLE", "PLATFORM_SEED_BOOTSTRAP_MODE"}
  BY DEF Passing
<1> QED
  BY <1>1, <1>2

\* No variable is of two kinds.
LEMMA VariablesApart ==
  /\ \A v \in Urls : v \notin Secrets /\ v \notin Words /\ v \notin DOMAIN Choices /\ v # "PLATFORM_ALLOWED_ORIGINS"
  /\ \A v \in Secrets : v \notin Words /\ v \notin DOMAIN Choices /\ v # "PLATFORM_ALLOWED_ORIGINS"
  /\ \A v \in Words : v \notin DOMAIN Choices /\ v # "PLATFORM_ALLOWED_ORIGINS"
  /\ "PLATFORM_ALLOWED_ORIGINS" \notin DOMAIN Choices
<1>1. \A v \in Urls : v \notin Secrets /\ v \notin Words /\ v # "PLATFORM_ALLOWED_ORIGINS"
  BY DEF Urls, ProviderUrls, Secrets, Words, Retired, SeedIdentity, SeedOverrides
<1>2. \A v \in Urls \cup Secrets \cup Words : v \notin DOMAIN Choices
  BY VariablesAre DEF Urls, ProviderUrls, Secrets, Words, Retired, SeedIdentity, SeedOverrides
<1>3. \A v \in Secrets : v \notin Words /\ v # "PLATFORM_ALLOWED_ORIGINS"
  BY DEF Secrets, Words, Retired, SeedIdentity, SeedOverrides
<1>4. \A v \in Words : v # "PLATFORM_ALLOWED_ORIGINS"
  BY DEF Words, Retired, SeedIdentity, SeedOverrides
<1>5. "PLATFORM_ALLOWED_ORIGINS" \notin DOMAIN Choices
  BY VariablesAre
<1> QED
  BY <1>1, <1>2, <1>3, <1>4, <1>5

\* What is a URL is a record, and what is not is not taken for one.
LEMMA UrlsAre ==
  /\ NoUrl \in UrlRecords /\ Apex \in UrlRecords /\ Sqag \in UrlRecords /\ Elsewhere \in UrlRecords
  /\ \A u \in UrlRecords : \A x \in Forms :
       At(u, x) \in UrlRecords /\ At(u, x).scheme = u.scheme /\ At(u, x).host = u.host /\ At(u, x).rest = x
  /\ \A v \in Urls : Values(v) \subseteq UrlRecords
<1>1. NoUrl \in UrlRecords /\ Apex \in UrlRecords /\ Sqag \in UrlRecords /\ Elsewhere \in UrlRecords
      /\ Malformed \in UrlRecords /\ Alpha \in UrlRecords /\ Url("other", "elsewhere", "none") \in UrlRecords
  BY DEF NoUrl, Apex, Sqag, Elsewhere, Malformed, Alpha, Url, UrlRecords, Forms
<1>2. \A u \in UrlRecords : \A x \in Forms :
        At(u, x) \in UrlRecords /\ At(u, x).scheme = u.scheme /\ At(u, x).host = u.host /\ At(u, x).rest = x
  BY DEF At, UrlRecords
<1>3. \A u \in UrlRecords : Plain(u) \in UrlRecords
  BY DEF Plain, UrlRecords
<1>4. ASSUME NEW B \in SUBSET UrlRecords, NEW F \in SUBSET Forms
      PROVE  SomeUrls(B, F) \subseteq UrlRecords
  BY <1>1, <1>2, <1>3 DEF SomeUrls
<1>5. ASSUME NEW v \in Urls PROVE Values(v) \subseteq UrlRecords
  <2>0. v \notin Secrets /\ v \notin Words /\ v \notin DOMAIN Choices /\ v # "PLATFORM_ALLOWED_ORIGINS"
    BY VariablesApart
  <2>1. CASE v = "PLATFORM_PUBLIC_BASE_URL"
    <3>1. {Apex, Alpha, Plain(Apex)} \in SUBSET UrlRecords /\ {"none", "/", "path", "query", "credentials"} \in SUBSET Forms
      BY <1>1, <1>3 DEF Forms
    <3>2. Values(v) = SomeUrls({Apex, Alpha, Plain(Apex)}, {"none", "/", "path", "query", "credentials"})
      BY <2>0, <2>1 DEF Values
    <3> QED
      BY <1>4, <3>1, <3>2
  <2>2. CASE v = "AUTH_REDIRECT_URI"
    <3>1. {Apex, Alpha, Plain(Apex)} \in SUBSET UrlRecords /\ {"none", "callback", "callback_query"} \in SUBSET Forms
      BY <1>1, <1>3 DEF Forms
    <3>2. Values(v) = SomeUrls({Apex, Alpha, Plain(Apex)}, {"none", "callback", "callback_query"})
      BY <2>0, <2>2 DEF Values
    <3> QED
      BY <1>4, <3>1, <3>2
  <2>3. CASE v = "PLATFORM_SQAG_APP_BASE_URL"
    <3>1. {Sqag, Plain(Sqag)} \in SUBSET UrlRecords /\ {"none", "/", "path", "query"} \in SUBSET Forms
      BY <1>1, <1>3 DEF Forms
    <3>2. Values(v) = SomeUrls({Sqag, Plain(Sqag)}, {"none", "/", "path", "query"})
      BY <2>0, <2>3 DEF Values
    <3> QED
      BY <1>4, <3>1, <3>2
  <2>4. CASE v \notin {"PLATFORM_PUBLIC_BASE_URL", "AUTH_REDIRECT_URI", "PLATFORM_SQAG_APP_BASE_URL"}
    <3>1. Values(v) = SomeUrls({}, {})
      BY <1>5, <2>0, <2>4 DEF Values
    <3> QED
      BY <1>4, <3>1
  <2> QED
    BY <2>1, <2>2, <2>3, <2>4
<1> QED
  BY <1>1, <1>2, <1>5

\* The values of the variables that are no URLs.
LEMMA ValuesAre ==
  /\ \A v \in Secrets : Values(v) = {"absent", "short", "long"}
  /\ \A v \in Words : Values(v) = {"absent", "given"}
  /\ \A v \in DOMAIN Choices : Values(v) = {"absent"} \cup Choices[v]
<1>1. "PLATFORM_PUBLIC_BASE_URL" \in Urls /\ "AUTH_REDIRECT_URI" \in Urls /\ "PLATFORM_SQAG_APP_BASE_URL" \in Urls
  BY DEF Urls
<1>2. ASSUME NEW v \in Secrets PROVE Values(v) = {"absent", "short", "long"}
  <2>1. v \notin Urls /\ v \notin Words /\ v \notin DOMAIN Choices /\ v # "PLATFORM_ALLOWED_ORIGINS"
    BY VariablesApart
  <2> QED
    BY <1>1, <2>1 DEF Values
<1>3. ASSUME NEW v \in Words PROVE Values(v) = {"absent", "given"}
  <2>1. v \notin Urls /\ v \notin Secrets /\ v \notin DOMAIN Choices /\ v # "PLATFORM_ALLOWED_ORIGINS"
    BY VariablesApart
  <2> QED
    BY <1>1, <2>1 DEF Values
<1>4. ASSUME NEW v \in DOMAIN Choices PROVE Values(v) = {"absent"} \cup Choices[v]
  <2>1. v \notin Urls /\ v \notin Secrets /\ v \notin Words /\ v # "PLATFORM_ALLOWED_ORIGINS"
    BY VariablesApart
  <2> QED
    BY <1>1, <2>1 DEF Values
<1> QED
  BY <1>2, <1>3, <1>4

\* The URLs operators begin from are values of their variables.
LEMMA FirstUrls ==
  /\ \A v \in Urls : NoUrl \in Values(v) /\ Elsewhere \in Values(v)
  /\ Apex \in Values("PLATFORM_PUBLIC_BASE_URL") /\ Sqag \in Values("PLATFORM_SQAG_APP_BASE_URL")
  /\ At(Apex, "callback") \in Values("AUTH_REDIRECT_URI")
  /\ <<>> \in Values("PLATFORM_ALLOWED_ORIGINS") /\ << Apex >> \in Values("PLATFORM_ALLOWED_ORIGINS")
<1>1. ASSUME NEW B, NEW F
      PROVE  /\ NoUrl \in SomeUrls(B, F) /\ Elsewhere \in SomeUrls(B, F)
             /\ \A u \in B, x \in F : At(u, x) \in SomeUrls(B, F)
  BY DEF SomeUrls
<1>2. At(Apex, "none") = Apex /\ At(Sqag, "none") = Sqag /\ Apex # NoUrl
  BY DEF At, Apex, Sqag, NoUrl, Url
<1>3. /\ Values("PLATFORM_PUBLIC_BASE_URL") = SomeUrls({Apex, Alpha, Plain(Apex)}, {"none", "/", "path", "query", "credentials"})
      /\ Values("AUTH_REDIRECT_URI") = SomeUrls({Apex, Alpha, Plain(Apex)}, {"none", "callback", "callback_query"})
      /\ Values("PLATFORM_SQAG_APP_BASE_URL") = SomeUrls({Sqag, Plain(Sqag)}, {"none", "/", "path", "query"})
  <2>1. \A v \in {"PLATFORM_PUBLIC_BASE_URL", "AUTH_REDIRECT_URI", "PLATFORM_SQAG_APP_BASE_URL"} :
          v \in Urls /\ v \notin Secrets /\ v \notin Words /\ v \notin DOMAIN Choices
    BY VariablesApart DEF Urls
  <2>2. Values("PLATFORM_PUBLIC_BASE_URL") = SomeUrls({Apex, Alpha, Plain(Apex)}, {"none", "/", "path", "query", "credentials"})
    BY <2>1 DEF Values
  <2>3. Values("AUTH_REDIRECT_URI") = SomeUrls({Apex, Alpha, Plain(Apex)}, {"none", "callback", "callback_query"})
    BY <2>1 DEF Values
  <2>4. Values("PLATFORM_SQAG_APP_BASE_URL") = SomeUrls({Sqag, Plain(Sqag)}, {"none", "/", "path", "query"})
    BY <2>1 DEF Values
  <2> QED
    BY <2>2, <2>3, <2>4
<1>4. ASSUME NEW v \in Urls \ {"PLATFORM_PUBLIC_BASE_URL", "AUTH_REDIRECT_URI", "PLATFORM_SQAG_APP_BASE_URL"}
      PROVE  Values(v) = SomeUrls({}, {})
  <2>1. v \notin Secrets /\ v \notin Words /\ v \notin DOMAIN Choices /\ v # "PLATFORM_ALLOWED_ORIGINS"
    BY VariablesApart
  <2> QED
    BY <2>1 DEF Values
<1>5. <<>> \in Values("PLATFORM_ALLOWED_ORIGINS") /\ << Apex >> \in Values("PLATFORM_ALLOWED_ORIGINS")
  <2>1. "PLATFORM_ALLOWED_ORIGINS" \notin Urls /\ "PLATFORM_ALLOWED_ORIGINS" \notin Secrets
        /\ "PLATFORM_ALLOWED_ORIGINS" \notin Words /\ "PLATFORM_ALLOWED_ORIGINS" \notin DOMAIN Choices
    BY VariablesApart
  <2>2. Values("PLATFORM_ALLOWED_ORIGINS") =
          {<<>>, << NoUrl, NoUrl >>, << Apex, NoUrl >>, << Apex, Elsewhere >>, << Apex, Apex >>}
          \cup {<< u >> : u \in SomeUrls({Apex, Alpha}, {"none", "/", "path"}) \ {NoUrl}}
    BY <2>1 DEF Values
  <2>3. Apex \in SomeUrls({Apex, Alpha}, {"none", "/", "path"}) \ {NoUrl}
    BY <1>1, <1>2
  <2> QED
    BY <2>2, <2>3
<1> QED
  BY <1>1, <1>2, <1>3, <1>4, <1>5

\* The environments operators begin from.
LEMMA LocalConfigured == Configured(Local)
<1>1. ASSUME NEW v \in Variables PROVE Local[v] \in Values(v)
  <2> DEFINE hashers == {"CSRF_TOKEN_HASH_SECRET", "APP_LAUNCH_TOKEN_HASH_SECRET"}
  <2>1. Local[v] = CASE v \in Urls -> NoUrl
                     [] v = "PLATFORM_ALLOWED_ORIGINS" -> <<>>
                     [] v \in hashers -> "long"
                     [] v = "DATABASE_URL" -> "valid"
                     [] OTHER -> "absent"
    BY DEF Local
  <2>2. hashers \subseteq Secrets /\ "DATABASE_URL" \in DOMAIN Choices /\ Choices["DATABASE_URL"] = {"valid", "invalid"}
    BY VariablesAre DEF Secrets, Choices
  <2> HIDE DEF hashers
  <2>3. CASE v \in Urls
    <3>1. v \notin hashers /\ v # "DATABASE_URL" /\ v # "PLATFORM_ALLOWED_ORIGINS"
      BY <2>2, <2>3, VariablesApart
    <3> QED
      BY <2>1, <2>3, <3>1, FirstUrls
  <2>4. CASE v = "PLATFORM_ALLOWED_ORIGINS"
    <3>1. v \notin hashers /\ v # "DATABASE_URL" /\ v \notin Urls
      BY <2>2, <2>4, VariablesApart
    <3> QED
      BY <2>1, <2>4, <3>1, FirstUrls
  <2>5. CASE v \in Secrets
    <3>1. v \notin Urls /\ v # "DATABASE_URL" /\ v # "PLATFORM_ALLOWED_ORIGINS"
      BY <2>2, <2>5, VariablesApart
    <3> QED
      BY <2>1, <2>5, <3>1, ValuesAre
  <2>6. CASE v \in Words
    <3>1. v \notin Urls /\ v \notin hashers /\ v # "DATABASE_URL" /\ v # "PLATFORM_ALLOWED_ORIGINS"
      BY <2>2, <2>6, VariablesApart
    <3> QED
      BY <2>1, <2>6, <3>1, ValuesAre
  <2>7. CASE v \in DOMAIN Choices
    <3>1. v \notin Urls /\ v \notin hashers /\ v # "PLATFORM_ALLOWED_ORIGINS"
      BY <2>2, <2>7, VariablesApart
    <3> QED
      BY <2>1, <2>2, <2>7, <3>1, ValuesAre
  <2> QED
    BY <2>3, <2>4, <2>5, <2>6, <2>7 DEF Variables
<1>2. Local \in [Variables -> UNION {Values(v) : v \in Variables}]
  <2>1. Local = [v \in Variables |-> Local[v]]
    BY DEF Local
  <2> QED
    BY <1>1, <2>1
<1> QED
  BY <1>1, <1>2 DEF Configured

\* What one mistake makes of an environment.
LEMMA StillConfigured ==
  ASSUME NEW e, Configured(e), NEW v \in Variables, NEW x \in Values(v)
  PROVE  Configured([e EXCEPT ![v] = x])
BY DEF Configured

\* The hosted deployment the runs start from gives each of its variables one of the variable's values.
LEMMA HostedConfigured == Configured(Hosted)
<1> DEFINE chosen == DOMAIN Passing \ {"DATABASE_SSL_MODE", "PLATFORM_SQAG_LAUNCH_MODE", "PLATFORM_SEED_MEMBERSHIP_ROLE"}
<1>1. ASSUME NEW v \in Variables PROVE Hosted[v] \in Values(v)
  <2>1. Hosted[v] = CASE v \in ProviderUrls -> Elsewhere
                      [] v = "PLATFORM_PUBLIC_BASE_URL" -> Apex
                      [] v = "PLATFORM_ALLOWED_ORIGINS" -> << Apex >>
                      [] v = "AUTH_REDIRECT_URI" -> At(Apex, "callback")
                      [] v = "PLATFORM_SQAG_APP_BASE_URL" -> Sqag
                      [] v = "PLATFORM_SEED_APP_LAUNCH_URL" -> NoUrl
                      [] v \in Secrets -> "long"
                      [] v \in Retired \cup SeedOverrides -> "absent"
                      [] v = "DATABASE_SSL_MODE" -> "require"
                      [] v = "PLATFORM_SQAG_LAUNCH_MODE" -> "server_handoff"
                      [] v = "PLATFORM_SEED_MEMBERSHIP_ROLE" -> "admin"
                      [] v = "PLATFORM_COOKIE_SECURE" -> "true"
                      [] v \in chosen -> CHOOSE x \in Passing[v] : x \notin {"padded", "other_role"}
                      [] OTHER -> "given"
    BY DEF Hosted
  <2>2. /\ ProviderUrls \subseteq Urls \ {"PLATFORM_PUBLIC_BASE_URL", "AUTH_REDIRECT_URI",
                                          "PLATFORM_SQAG_APP_BASE_URL", "PLATFORM_SEED_APP_LAUNCH_URL"}
        /\ {"PLATFORM_PUBLIC_BASE_URL", "AUTH_REDIRECT_URI", "PLATFORM_SQAG_APP_BASE_URL",
            "PLATFORM_SEED_APP_LAUNCH_URL"} \subseteq Urls
        /\ \A w \in Urls : w \in ProviderUrls \/ w \in {"PLATFORM_PUBLIC_BASE_URL", "AUTH_REDIRECT_URI",
             "PLATFORM_SQAG_APP_BASE_URL", "PLATFORM_SEED_APP_LAUNCH_URL"}
    BY DEF Urls, ProviderUrls
  <2>3. /\ Retired \cup SeedOverrides \subseteq Words
        /\ {"DATABASE_SSL_MODE", "PLATFORM_SQAG_LAUNCH_MODE", "PLATFORM_SEED_MEMBERSHIP_ROLE",
            "PLATFORM_COOKIE_SECURE"} \subseteq DOMAIN Choices
        /\ chosen = DOMAIN Choices \ {"DATABASE_SSL_MODE", "PLATFORM_SQAG_LAUNCH_MODE",
                                      "PLATFORM_SEED_MEMBERSHIP_ROLE", "PLATFORM_COOKIE_SECURE"}
    BY VariablesAre DEF Words
  <2>4. ASSUME v \in chosen
        PROVE  (CHOOSE x \in Passing[v] : x \notin {"padded", "other_role"}) \in Choices[v]
    <3>1. \E x \in Passing[v] : x \notin {"padded", "other_role"}
      BY <2>4, VariablesAre DEF Passing
    <3>2. Passing[v] \subseteq Choices[v]
      BY <2>4, VariablesAre DEF Passing, Choices
    <3> QED
      BY <3>1, <3>2
  <2>5. /\ "require" \in Choices["DATABASE_SSL_MODE"] /\ "server_handoff" \in Choices["PLATFORM_SQAG_LAUNCH_MODE"]
        /\ "admin" \in Choices["PLATFORM_SEED_MEMBERSHIP_ROLE"] /\ "true" \in Choices["PLATFORM_COOKIE_SECURE"]
    BY DEF Choices
  <2> HIDE DEF chosen
  <2>6. CASE v \in Urls
    <3>1. /\ v \notin Secrets /\ v \notin Words /\ v \notin DOMAIN Choices /\ v # "PLATFORM_ALLOWED_ORIGINS"
      BY <2>6, VariablesApart
    <3>2. /\ v \notin Retired \cup SeedOverrides /\ v \notin chosen
          /\ v # "DATABASE_SSL_MODE" /\ v # "PLATFORM_SQAG_LAUNCH_MODE"
          /\ v # "PLATFORM_SEED_MEMBERSHIP_ROLE" /\ v # "PLATFORM_COOKIE_SECURE"
      BY <2>3, <3>1
    <3>3. CASE v \in ProviderUrls
      <4>1. /\ v # "PLATFORM_PUBLIC_BASE_URL" /\ v # "AUTH_REDIRECT_URI"
            /\ v # "PLATFORM_SQAG_APP_BASE_URL" /\ v # "PLATFORM_SEED_APP_LAUNCH_URL"
        BY <2>2, <3>3
      <4>2. Hosted[v] = Elsewhere
        BY <2>1, <3>1, <3>2, <3>3, <4>1
      <4> QED
        BY <2>6, <4>2, FirstUrls
    <3>4. CASE v \notin ProviderUrls
      <4>1. \/ v = "PLATFORM_PUBLIC_BASE_URL" /\ Hosted[v] = Apex
            \/ v = "AUTH_REDIRECT_URI" /\ Hosted[v] = At(Apex, "callback")
            \/ v = "PLATFORM_SQAG_APP_BASE_URL" /\ Hosted[v] = Sqag
            \/ v = "PLATFORM_SEED_APP_LAUNCH_URL" /\ Hosted[v] = NoUrl
        BY <2>1, <2>2, <2>6, <3>1, <3>2, <3>4
      <4> QED
        BY <2>6, <4>1, FirstUrls
    <3> QED
      BY <3>3, <3>4
  <2>7. CASE v \notin Urls
    <3>1. v \notin ProviderUrls /\ v # "PLATFORM_PUBLIC_BASE_URL" /\ v # "AUTH_REDIRECT_URI"
          /\ v # "PLATFORM_SQAG_APP_BASE_URL" /\ v # "PLATFORM_SEED_APP_LAUNCH_URL"
      BY <2>2, <2>7
    <3>2. CASE v = "PLATFORM_ALLOWED_ORIGINS"
      <4>1. v \notin Secrets /\ v \notin Words /\ v \notin DOMAIN Choices
        BY <3>2, VariablesApart
      <4>2. Hosted[v] = << Apex >>
        BY <2>1, <2>3, <3>1, <3>2, <4>1
      <4> QED
        BY <3>2, <4>2, FirstUrls
    <3>3. CASE v \in Secrets
      <4>1. v \notin Words /\ v \notin DOMAIN Choices /\ v # "PLATFORM_ALLOWED_ORIGINS"
        BY <3>3, VariablesApart
      <4>2. Hosted[v] = "long"
        BY <2>1, <2>3, <3>1, <3>3, <4>1
      <4> QED
        BY <3>3, <4>2, ValuesAre
    <3>4. CASE v \in Words
      <4>1. v \notin Secrets /\ v \notin DOMAIN Choices /\ v # "PLATFORM_ALLOWED_ORIGINS"
        BY <3>4, VariablesApart
      <4>2. Hosted[v] \in {"absent", "given"}
        BY <2>1, <2>3, <3>1, <3>4, <4>1
      <4> QED
        BY <3>4, <4>2, ValuesAre
    <3>5. CASE v \in DOMAIN Choices
      <4>1. v \notin Secrets /\ v \notin Words /\ v # "PLATFORM_ALLOWED_ORIGINS"
        BY <3>5, VariablesApart
      <4>2. v \notin Retired \cup SeedOverrides
        BY <2>3, <4>1
      <4>3. CASE v \in chosen
        <5>1. v # "DATABASE_SSL_MODE" /\ v # "PLATFORM_SQAG_LAUNCH_MODE"
              /\ v # "PLATFORM_SEED_MEMBERSHIP_ROLE" /\ v # "PLATFORM_COOKIE_SECURE"
          BY <2>3, <4>3
        <5>2. Hosted[v] = CHOOSE x \in Passing[v] : x \notin {"padded", "other_role"}
          BY <2>1, <3>1, <4>1, <4>2, <4>3, <5>1
        <5> QED
          BY <2>4, <3>5, <4>3, <5>2, ValuesAre
      <4>4. CASE v \notin chosen
        <5>1. \/ v = "DATABASE_SSL_MODE" /\ Hosted[v] = "require"
              \/ v = "PLATFORM_SQAG_LAUNCH_MODE" /\ Hosted[v] = "server_handoff"
              \/ v = "PLATFORM_SEED_MEMBERSHIP_ROLE" /\ Hosted[v] = "admin"
              \/ v = "PLATFORM_COOKIE_SECURE" /\ Hosted[v] = "true"
          BY <2>1, <2>3, <3>1, <3>5, <4>1, <4>2, <4>4
        <5> QED
          BY <2>5, <3>5, <5>1, ValuesAre
      <4> QED
        BY <4>3, <4>4
    <3> QED
      BY <2>7, <3>2, <3>3, <3>4, <3>5 DEF Variables
  <2> QED
    BY <2>6, <2>7
<1>2. Hosted \in [Variables -> UNION {Values(v) : v \in Variables}]
  <2>1. Hosted = [v \in Variables |-> Hosted[v]]
    BY DEF Hosted
  <2> QED
    BY <1>1, <2>1
<1> QED
  BY <1>1, <1>2 DEF Configured

\* What start() composes again once the database is connected was already read before.
LEMMA ComposedIfAccepted ==
  ASSUME NEW e, ConfigurationAccepted(e)
  PROVE  DependenciesComposed(e)
<1>1. \A v \in {"CSRF_TOKEN_HASH_SECRET", "APP_LAUNCH_TOKEN_HASH_SECRET"} : HasherComposed(e, v)
  BY DEF ConfigurationAccepted, SecretsRead, HasherComposed
<1>2. ASSUME AuthEnabled(e) PROVE AuthComposed(e)
  <2>1. e["AUTH_STATE_HASH_SECRET"] = "long"
    BY <1>2 DEF ConfigurationAccepted, SecretsRead
  <2>2. \A v \in {"AUTH_ISSUER_URL", "AUTH_JWKS_URL"} : v \in Urls /\ IsHttp(e[v])
    BY <1>2 DEF ConfigurationAccepted, AuthConfigRead, Urls, ProviderUrls
  <2>3. \A v \in {"AUTH_ISSUER_URL", "AUTH_JWKS_URL"} : e[v] # NoUrl
    BY <2>2 DEF IsHttp, NoUrl, Url
  <2>4. \A v \in {"AUTH_ISSUER_URL", "AUTH_JWKS_URL"} : Given(e, v)
    BY <2>2, <2>3 DEF Given
  <2> QED
    BY <2>1, <2>4 DEF AuthComposed, HasherComposed, AdapterComposed
<1> QED
  BY <1>1, <1>2 DEF DependenciesComposed

\* What a hosted start that read its configuration serves.
ServesItsOrigin(e) ==
  /\ AllowedOrigins(e) = {Origin(PublicBase(e))}
  /\ Origin(PublicBase(e)) \in HostedPlatformOrigins /\ CookieSecure(e)
  /\ AuthEnabled(e) =>
       /\ \A v \in ProviderUrls \ {"AUTH_USERINFO_URL"} : e[v].scheme = "https"
       /\ Origin(e.AUTH_REDIRECT_URI) \in AllowedOrigins(e)
  /\ Handoff(e) =>
       /\ Origin(e.PLATFORM_SQAG_APP_BASE_URL) = Origin(Sqag)
       /\ GrantsServed(e) /\ e.PLATFORM_SQAG_SERVICE_SECRET = "long"
  /\ e.DATABASE_EXPECTED_RUNTIME_ROLE # "other_role"

\* A hosted base is a URL of one of the platform's own origins.
LEMMA HostedBase ==
  ASSUME NEW u \in UrlRecords, IsHostedBase(u)
  PROVE  u # NoUrl /\ u.scheme = "https" /\ At(u, "none") # NoUrl
         /\ Origin(At(u, "none")) = Origin(u) /\ Origin(u) \in HostedPlatformOrigins
<1>1. u.scheme = "https" /\ Origin(u) \in HostedPlatformOrigins
  BY DEF IsHostedBase, HostedPlatformOrigins, Origin, Apex, Alpha, Url
<1>2. At(u, "none").scheme = "https" /\ Origin(At(u, "none")) = Origin(u)
  <2>1. "none" \in Forms
    BY DEF Forms
  <2> QED
    BY <1>1, <2>1, UrlsAre DEF Origin
<1> QED
  BY <1>1, <1>2 DEF NoUrl, Url

\* A production configuration that is accepted serves the origin of its public base URL only.
LEMMA HostedServes ==
  ASSUME NEW e, Configured(e), ConfigurationAccepted(e), Production(e)
  PROVE  ServesItsOrigin(e)
<1> DEFINE u == e.PLATFORM_PUBLIC_BASE_URL
           b == PublicBase(e)
<1>1. u \in UrlRecords /\ e.AUTH_REDIRECT_URI \in UrlRecords
  BY UrlsAre DEF Configured, Variables, Urls
<1>2. IsHostedBase(u)
  BY DEF ConfigurationAccepted, RuntimeConfigRead, PublicBaseRead
<1>3. u # NoUrl /\ u.scheme = "https" /\ At(u, "none") # NoUrl
      /\ Origin(At(u, "none")) = Origin(u) /\ Origin(u) \in HostedPlatformOrigins
  BY <1>1, <1>2, HostedBase
<1>4. b = At(u, "none") /\ b # NoUrl /\ Origin(b) = Origin(u) /\ b \in UrlRecords
  BY <1>1, <1>3, UrlsAre DEF PublicBase, Forms
<1> HIDE DEF u, b
<1>5. Given(e, "PLATFORM_ALLOWED_ORIGINS") /\ e.PLATFORM_ALLOWED_ORIGINS = << b >>
  BY DEF ConfigurationAccepted, RuntimeConfigRead, OriginsRead, b
<1>6. Listed(e) = {b}
  <2>1. DOMAIN << b >> = {1} /\ << b >>[1] = b
    OBVIOUS
  <2> QED
    BY <1>4, <1>5, <2>1 DEF Listed
<1>7. AllowedOrigins(e) = {Origin(b)}
  BY <1>5, <1>6 DEF AllowedOrigins
<1>8. CookieSecure(e)
  BY DEF ConfigurationAccepted, RuntimeConfigRead, CookieRead
<1>9. ASSUME AuthEnabled(e)
      PROVE  /\ \A v \in ProviderUrls \ {"AUTH_USERINFO_URL"} : e[v].scheme = "https"
             /\ Origin(e.AUTH_REDIRECT_URI) = Origin(b)
  <2>1. AuthConfigRead(e) /\ HostedAuthUrls(e)
    BY <1>9 DEF ConfigurationAccepted
  <2>2. ASSUME NEW v \in ProviderUrls \ {"AUTH_USERINFO_URL"} PROVE e[v].scheme = "https"
    <3>1. IsHttp(e[v]) /\ v \in Urls
      BY <2>1 DEF AuthConfigRead, Urls
    <3>2. e[v] # NoUrl
      BY <3>1 DEF IsHttp, NoUrl, Url
    <3>3. Given(e, v)
      BY <3>1, <3>2, VariablesApart DEF Given
    <3> QED
      BY <2>1, <3>3 DEF HostedAuthUrls
  <2>3. e.AUTH_REDIRECT_URI = At(b, "callback")
    BY <2>1 DEF HostedAuthUrls, CallbackUrl, b
  <2>4. "callback" \in Forms
    BY DEF Forms
  <2>5. Origin(At(b, "callback")) = Origin(b)
    BY <1>4, <2>4, UrlsAre DEF Origin
  <2> QED
    BY <2>2, <2>3, <2>5
<1>10. ASSUME Handoff(e)
       PROVE  /\ Origin(e.PLATFORM_SQAG_APP_BASE_URL) = Origin(Sqag)
              /\ GrantsServed(e) /\ e.PLATFORM_SQAG_SERVICE_SECRET = "long"
  <2>1. e.PLATFORM_SQAG_SERVICE_SECRET = "long"
    BY <1>10 DEF ConfigurationAccepted, SecretsRead
  <2>2. Origin(e.PLATFORM_SQAG_APP_BASE_URL) = Origin(Sqag)
    BY <1>10 DEF ConfigurationAccepted, BootstrapInput, SqagBaseRead, IsHostedSqagBase
  <2>3. "PLATFORM_SQAG_SERVICE_SECRET" \in Secrets
    BY DEF Secrets
  <2>4. "PLATFORM_SQAG_SERVICE_SECRET" \notin Urls
    BY <2>3, VariablesApart
  <2>5. Given(e, "PLATFORM_SQAG_SERVICE_SECRET")
    BY <2>1, <2>4 DEF Given
  <2> QED
    BY <1>10, <2>1, <2>2, <2>5 DEF GrantsServed
<1>11. e.DATABASE_EXPECTED_RUNTIME_ROLE # "other_role"
  BY DEF ConfigurationAccepted, DatabaseRead, ExpectedRoleRead
<1> QED
  BY <1>3, <1>4, <1>7, <1>8, <1>9, <1>10, <1>11 DEF ServesItsOrigin, b

\* The inductive invariant of the start: catalogue and environment are as they can be met,
\* nothing is made before the runtime is let in, and whoever was let in has the posture and
\* a configuration that was read.
Admission ==
  /\ WellFormed(cat) /\ Configured(env)
  /\ drifts \in 0..MaxDrift
  /\ stage \in {"drift", "admitted", "refused"}
  /\ stage # "admitted" => cat.exist \cap Made = {}
  /\ stage = "admitted" => RuntimePosture(cat) /\ ConfigurationAccepted(env)

\* A change of the operators is any that leaves a catalogue, and makes nothing that
\* migrations make.
LEMMA DriftKeeps ==
  ASSUME Admission, NEW c, WellFormed(c), c.exist \subseteq cat.exist \/ c.exist \cap Made = {}, Drift(c)
  PROVE  Admission'
<1>1. stage = "drift" /\ stage' = "drift" /\ cat' = c /\ env' = env /\ drifts < MaxDrift /\ drifts' = drifts + 1
  BY DEF Drift, Admission
<1>2. drifts' \in 0..MaxDrift
  BY <1>1, DriftAssumption DEF Admission
<1>3. c.exist \cap Made = {}
  BY <1>1 DEF Admission
<1>4. WellFormed(cat)' /\ Configured(env)'
  BY <1>1 DEF Admission
<1> QED
  BY <1>1, <1>2, <1>3, <1>4 DEF Admission

\* Grants and revocations of roles, and their attributes.
LEMMA RoleSteps == ASSUME Admission, GrantRole \/ RevokeRole \/ AlterRole PROVE Admission'
<1>0. cat \in Catalogues /\ WellFormed(cat)
  BY DEF Admission, WellFormed
<1>1. ASSUME NEW X \in SUBSET Edges, Drift([cat EXCEPT !.members = X]) PROVE Admission'
  <2> DEFINE c == [cat EXCEPT !.members = X]
  <2>1. c \in Catalogues /\ c.acl = cat.acl /\ c.exist = cat.exist /\ c.columns = cat.columns
    BY <1>0 DEF Catalogues
  <2> HIDE DEF c
  <2>2. WellFormed(c) /\ c.exist \subseteq cat.exist
    BY <1>0, <2>1 DEF WellFormed
  <2> QED
    BY <1>1, <2>2, DriftKeeps DEF c
<1>2. ASSUME NEW X \in SUBSET (Roles \X Attributes), Drift([cat EXCEPT !.attrs = X]) PROVE Admission'
  <2> DEFINE c == [cat EXCEPT !.attrs = X]
  <2>1. c \in Catalogues /\ c.acl = cat.acl /\ c.exist = cat.exist /\ c.columns = cat.columns
    BY <1>0 DEF Catalogues
  <2> HIDE DEF c
  <2>2. WellFormed(c) /\ c.exist \subseteq cat.exist
    BY <1>0, <2>1 DEF WellFormed
  <2> QED
    BY <1>2, <2>2, DriftKeeps DEF c
<1>3. CASE GrantRole
  <2> DEFINE granted(m, r, o, b) ==
               [cat EXCEPT !.members = {e \in cat.members : ~(e.member = m /\ e.role = r /\ e.by = b)}
                                       \cup {Edge(m, r, b, o = "admin", o = "inherit", o = "set")}]
  <2>0. \E m \in {"runtime", "migrator", "app", "other"}, r \in Roles \ {"control", "database_owner"},
           o \in {"admin", "inherit", "set"} :
          /\ m \notin Reached(r, cat.members)
          /\ \E b \in {"control", "app"} :
               /\ Super(cat, b) \/ \E e \in cat.members : e.member = b /\ e.role = r /\ e.admin
               /\ Drift(granted(m, r, o, b))
    BY <1>3 DEF GrantRole
  <2> HIDE DEF granted
  <2>1. PICK m \in {"runtime", "migrator", "app", "other"}, r \in Roles \ {"control", "database_owner"},
             o \in {"admin", "inherit", "set"}, b \in {"control", "app"} : Drift(granted(m, r, o, b))
    BY <2>0
  <2> DEFINE X == {e \in cat.members : ~(e.member = m /\ e.role = r /\ e.by = b)}
                  \cup {Edge(m, r, b, o = "admin", o = "inherit", o = "set")}
  <2>2. Edge(m, r, b, o = "admin", o = "inherit", o = "set") \in Edges
    BY DEF Edge, Edges, Roles
  <2>3. X \in SUBSET Edges
    BY <1>0, <2>2 DEF Catalogues
  <2>4. Drift([cat EXCEPT !.members = X])
    BY <2>1 DEF granted
  <2> QED
    BY <1>1, <2>3, <2>4
<1>4. CASE RevokeRole
  <2>1. PICK e \in cat.members : Drift([cat EXCEPT !.members = @ \ {e}])
    BY <1>4 DEF RevokeRole
  <2>2. cat.members \ {e} \in SUBSET Edges
    BY <1>0 DEF Catalogues
  <2> QED
    BY <1>1, <2>1, <2>2
<1>5. CASE AlterRole
  <2>1. PICK r \in {"runtime", "migrator", "other"}, a \in Attributes :
          Drift([cat EXCEPT !.attrs = @ \cup {<<r, a>>}]) \/ Drift([cat EXCEPT !.attrs = @ \ {<<r, a>>}])
    BY <1>5 DEF AlterRole
  <2>2. cat.attrs \cup {<<r, a>>} \in SUBSET (Roles \X Attributes)
        /\ cat.attrs \ {<<r, a>>} \in SUBSET (Roles \X Attributes)
    BY <1>0 DEF Catalogues, Roles
  <2> QED
    BY <1>2, <2>1, <2>2
<1> QED
  BY <1>3, <1>4, <1>5

\* Grants and revocations on objects, their owners, and the defaults.
LEMMA GrantSteps == ASSUME Admission, GrantOn \/ RevokeOn \/ GrantColumn PROVE Admission'
<1>0. cat \in Catalogues /\ WellFormed(cat)
  BY DEF Admission, WellFormed
<1>1. CASE GrantOn
  <2> DEFINE granted(t, to, p, grantable, b) ==
               [cat EXCEPT
                  !.acl = {g \in cat.acl : ~(g.on = t /\ g.to = to /\ g.priv = p /\ g.by = b)}
                          \cup {Grant(t, to, p, grantable, b)}
                          \cup (IF t \in cat.builtin THEN {Grant(t, "PUBLIC", "EXECUTE", FALSE, cat.owner[t])}
                                ELSE {}),
                  !.builtin = cat.builtin \ {t}]
             grantedOn == (cat.exist \cap {"accounts", "ids", "ledger", "db_tree", "reports", "ext", "helper"})
                          \cup Schemas \cup {"db"}
  <2>0. \E t \in grantedOn, to \in {"runtime", "migrator", "other", "PUBLIC"}, grantable \in BOOLEAN :
          \E p \in PrivilegesOn(t), b \in {cat.owner[t], "other"} :
            /\ grantable => to # "PUBLIC"
            /\ b = cat.owner[t]
               \/ \E g \in cat.acl : g.on = t /\ g.to = b /\ g.priv = p /\ g.grantable
            /\ Drift(granted(t, to, p, grantable, b))
    BY <1>1, Zenon DEF GrantOn
  <2> HIDE DEF granted
  <2>1. PICK t \in grantedOn, to \in {"runtime", "migrator", "other", "PUBLIC"}, grantable \in BOOLEAN :
          \E p \in PrivilegesOn(t), b \in {cat.owner[t], "other"} : Drift(granted(t, to, p, grantable, b))
    BY <2>0, Zenon
  <2>2. PICK p \in PrivilegesOn(t), b \in {cat.owner[t], "other"} : Drift(granted(t, to, p, grantable, b))
    BY <2>1
  <2> DEFINE own == Grant(t, "PUBLIC", "EXECUTE", FALSE, cat.owner[t])
             X == {g \in cat.acl : ~(g.on = t /\ g.to = to /\ g.priv = p /\ g.by = b)}
                  \cup {Grant(t, to, p, grantable, b)}
                  \cup (IF t \in cat.builtin THEN {own} ELSE {})
             c == [cat EXCEPT !.acl = X, !.builtin = cat.builtin \ {t}]
  <2>3. Drift(c)
    BY <2>2 DEF granted
  <2>4. t \in Things /\ t \notin Made /\ cat.owner[t] \in Roles /\ b \in Roles /\ to \in Grantees
        /\ p \in AllPrivileges
    <3>1. t \in Things
      BY <1>0 DEF Catalogues, Things
    <3>2. t \notin Made
      BY DEF Made, Schemas
    <3>3. cat.owner[t] \in Roles /\ b \in Roles /\ to \in Grantees
      BY <1>0, <3>1 DEF Catalogues, Roles, Grantees
    <3> QED
      BY <3>1, <3>2, <3>3 DEF AllPrivileges
  <2>5. /\ Grant(t, to, p, grantable, b) \in Grants
        /\ Grant(t, to, p, grantable, b).priv = p /\ Grant(t, to, p, grantable, b).on = t
    BY <2>4 DEF Grant, Grants
  <2>6. ASSUME t \in cat.builtin PROVE own \in Grants /\ own.priv \in PrivilegesOn(own.on) /\ own.on = t
    <3>1. t \in Names /\ Objects[t].kind = "routine"
      BY <1>0, <2>6 DEF Catalogues
    <3>2. t # "db" /\ t \notin Schemas
      BY <3>1, ThingsDiffer
    <3>3. PrivilegesOn(t) = {"EXECUTE"}
      BY <3>1, <3>2 DEF PrivilegesOn
    <3>4. "EXECUTE" \in AllPrivileges /\ "PUBLIC" \in Grantees
      BY <2>4, <3>3 DEF AllPrivileges, Grantees
    <3> QED
      BY <2>4, <3>3, <3>4 DEF Grant, Grants
  <2> HIDE DEF own
  <2>7. X \in SUBSET Grants /\ \A g \in X : g.priv \in PrivilegesOn(g.on) /\ (g \in cat.acl \/ g.on = t)
    BY <1>0, <2>5, <2>6 DEF Catalogues, WellFormed
  <2> HIDE DEF X
  <2>8. c \in Catalogues /\ c.acl = X /\ c.exist = cat.exist /\ c.columns = cat.columns
    BY <1>0, <2>7 DEF Catalogues
  <2> HIDE DEF c
  <2>9. WellFormed(c)
    BY <1>0, <2>4, <2>7, <2>8 DEF WellFormed
  <2> QED
    BY <2>3, <2>8, <2>9, DriftKeeps
<1>2. CASE RevokeOn
  <2>1. PICK g \in cat.acl : Drift([cat EXCEPT !.acl = @ \ {g}])
    BY <1>2 DEF RevokeOn
  <2> DEFINE c == [cat EXCEPT !.acl = cat.acl \ {g}]
  <2>2. c \in Catalogues /\ c.acl = cat.acl \ {g} /\ c.exist = cat.exist /\ c.columns = cat.columns
    BY <1>0 DEF Catalogues
  <2>3. Drift(c)
    BY <2>1
  <2> HIDE DEF c
  <2>4. WellFormed(c)
    BY <1>0, <2>2 DEF WellFormed
  <2> QED
    BY <2>2, <2>3, <2>4, DriftKeeps
<1>3. CASE GrantColumn
  <2>1. PICK t \in cat.exist \cap {"accounts", "ledger", "reports"}, to \in {"runtime", "PUBLIC"} :
          Drift([cat EXCEPT !.columns = @ \cup {<<t, to>>}])
    BY <1>3 DEF GrantColumn
  <2> DEFINE c == [cat EXCEPT !.columns = cat.columns \cup {<<t, to>>}]
  <2>2. <<t, to>> \in Names \X Grantees /\ t \notin Made
    BY <1>0 DEF Catalogues, Grantees, Roles, Made
  <2>3. c \in Catalogues /\ c.acl = cat.acl /\ c.exist = cat.exist /\ c.columns = cat.columns \cup {<<t, to>>}
    BY <1>0, <2>2 DEF Catalogues
  <2>4. Drift(c)
    BY <2>1
  <2> HIDE DEF c
  <2>5. WellFormed(c)
    BY <1>0, <2>2, <2>3 DEF WellFormed
  <2> QED
    BY <2>3, <2>4, <2>5, DriftKeeps
<1> QED
  BY <1>1, <1>2, <1>3

\* What the operators do to owners, defaults and objects keeps the invariant.
LEMMA DefinitionSteps ==
  ASSUME Admission, AlterOwner \/ AlterDefaults \/ CreateObject \/ DropObject PROVE Admission'
<1>0. cat \in Catalogues /\ WellFormed(cat)
  BY DEF Admission, WellFormed
<1>1. CASE AlterOwner
  <2>1. PICK t \in (cat.exist \ {"ext"}) \cup Schemas \cup {"db"}, r \in {"runtime", "app", "other"} :
          Drift([cat EXCEPT !.owner[t] = r])
    BY <1>1 DEF AlterOwner
  <2> DEFINE own == [cat.owner EXCEPT ![t] = r]
             c == [cat EXCEPT !.owner = own]
  <2>2. own \in [Things -> Roles]
    BY <1>0 DEF Catalogues, Roles
  <2>3. Drift(c)
    BY <2>1
  <2> HIDE DEF own
  <2>4. c \in Catalogues /\ c.acl = cat.acl /\ c.exist = cat.exist /\ c.columns = cat.columns
    BY <1>0, <2>2 DEF Catalogues
  <2> HIDE DEF c
  <2>5. WellFormed(c)
    BY <1>0, <2>4 DEF WellFormed
  <2> QED
    BY <2>3, <2>4, <2>5, DriftKeeps
<1>2. CASE AlterDefaults
  <2>1. ASSUME NEW r \in {"app", "migrator", "control"}, NEW s \in {"*", "public"},
               NEW k \in {"table", "sequence", "routine"}, NEW to \in {"runtime", "other", "PUBLIC"},
               Drift([cat EXCEPT !.defaults = @ \cup {Default(r, s, k, to)}])
        PROVE  Admission'
    <3> DEFINE c == [cat EXCEPT !.defaults = cat.defaults \cup {Default(r, s, k, to)}]
    <3>1. Default(r, s, k, to) \in Defaults
      BY DEF Default, Defaults, Roles, Schemas, Grantees
    <3>2. c \in Catalogues /\ c.acl = cat.acl /\ c.exist = cat.exist /\ c.columns = cat.columns
      BY <1>0, <3>1 DEF Catalogues
    <3>3. Drift(c)
      BY <2>1
    <3> HIDE DEF c
    <3>4. WellFormed(c)
      BY <1>0, <3>2 DEF WellFormed
    <3> QED
      BY <3>2, <3>3, <3>4, DriftKeeps
  <2>2. ASSUME NEW r \in {"app", "migrator"}, Drift([cat EXCEPT !.revoked = @ \ {r}])
        PROVE  Admission'
    <3> DEFINE c == [cat EXCEPT !.revoked = cat.revoked \ {r}]
    <3>1. c \in Catalogues /\ c.acl = cat.acl /\ c.exist = cat.exist /\ c.columns = cat.columns
      BY <1>0 DEF Catalogues
    <3>2. Drift(c)
      BY <2>2
    <3> HIDE DEF c
    <3>3. WellFormed(c)
      BY <1>0, <3>1 DEF WellFormed
    <3> QED
      BY <3>1, <3>2, <3>3, DriftKeeps
  <2> QED
    BY <1>2, <2>1, <2>2 DEF AlterDefaults
<1>3. CASE CreateObject
  <2>1. PICK n \in {"ext", "stray", "stray_type", "helper"} \ cat.exist :
          Drift([cat EXCEPT !.exist = @ \cup {n}, !.builtin = @ \cup ({n} \cap {"helper"})])
    BY <1>3 DEF CreateObject
  <2> DEFINE c == [cat EXCEPT !.exist = cat.exist \cup {n}, !.builtin = cat.builtin \cup ({n} \cap {"helper"})]
  <2>2. n \in Names /\ n \notin Made
    BY ObjectsAre DEF Made
  <2>3. "helper" \in Names /\ Objects["helper"].kind = "routine"
    BY ObjectsAre DEF Objects, Object
  <2>4. c \in Catalogues /\ c.acl = cat.acl /\ c.exist = cat.exist \cup {n} /\ c.columns = cat.columns
    BY <1>0, <2>2, <2>3 DEF Catalogues
  <2>5. Drift(c)
    BY <2>1
  <2> HIDE DEF c
  <2>6. WellFormed(c)
    BY <1>0, <2>4 DEF WellFormed
  <2>7. c.exist \cap Made = {}
    <3>1. cat.exist \cap Made = {}
      BY <2>5 DEF Admission, Drift
    <3> QED
      BY <2>2, <2>4, <3>1
  <2> QED
    BY <2>5, <2>6, <2>7, DriftKeeps
<1>4. CASE DropObject
  <2>1. ASSUME NEW n \in cat.exist \cap {"accounts", "status", "ledger", "db_tree"},
               Drift([cat EXCEPT !.exist = @ \ {n}, !.acl = {g \in @ : g.on # n}])
        PROVE  Admission'
    <3> DEFINE c == [cat EXCEPT !.exist = cat.exist \ {n}, !.acl = {g \in cat.acl : g.on # n}]
    <3>1. c \in Catalogues /\ c.acl = {g \in cat.acl : g.on # n} /\ c.exist = cat.exist \ {n}
          /\ c.columns = cat.columns
      BY <1>0 DEF Catalogues
    <3>2. Drift(c)
      BY <2>1
    <3> HIDE DEF c
    <3>3. WellFormed(c) /\ c.exist \subseteq cat.exist
      BY <1>0, <3>1 DEF WellFormed
    <3> QED
      BY <3>2, <3>3, DriftKeeps
  <2>2. ASSUME Drift([cat EXCEPT !.odd = TRUE]) \/ Drift([cat EXCEPT !.migrated = FALSE])
        PROVE  Admission'
    <3> DEFINE odd == [cat EXCEPT !.odd = TRUE]
               old == [cat EXCEPT !.migrated = FALSE]
    <3>1. odd \in Catalogues /\ odd.acl = cat.acl /\ odd.exist = cat.exist /\ odd.columns = cat.columns
      BY <1>0 DEF Catalogues
    <3>2. old \in Catalogues /\ old.acl = cat.acl /\ old.exist = cat.exist /\ old.columns = cat.columns
      BY <1>0 DEF Catalogues
    <3>3. Drift(odd) \/ Drift(old)
      BY <2>2
    <3> HIDE DEF odd, old
    <3>4. WellFormed(odd) /\ WellFormed(old)
      BY <1>0, <3>1, <3>2 DEF WellFormed
    <3> QED
      BY <3>1, <3>2, <3>3, <3>4, DriftKeeps
  <2> QED
    BY <1>4, <2>1, <2>2 DEF DropObject
<1> QED
  BY <1>1, <1>2, <1>3, <1>4

\* The start lets in what has the posture, and the migrations after it keep it.
LEMMA StartStep == ASSUME Admission, Start PROVE Admission'
<1>1. stage = "drift" /\ env' = env /\ cat' = cat /\ drifts' = drifts
  BY DEF Start
<1>2. stage' = "refused" \/ (stage' = "admitted" /\ RuntimePosture(cat) /\ ConfigurationAccepted(env))
  BY DEF Start
<1>3. cat.exist \cap Made = {}
  BY <1>1 DEF Admission
<1> QED
  BY <1>1, <1>2, <1>3 DEF Admission

\* The migrations an admitted runtime lives through make objects under defaults that posture has
\* judged: a runtime that passed before passes after.
LEMMA MigrateStep == ASSUME Admission, Migrate PROVE Admission'
<1>1. stage = "admitted" /\ stage' = stage /\ env' = env /\ drifts' = drifts /\ cat.exist \cap Made = {}
  BY DEF Migrate
<1>2. PICK r \in {"app", "migrator"} : (\A n \in Made : Has(cat, r, Objects[n].schema, "CREATE"))
                                       /\ cat' = Created(cat, r, Made)
  BY DEF Migrate
<1>3. Has(cat, r, "public", "CREATE")
  <2>1. "new_table" \in Made /\ Objects["new_table"].schema = "public"
    BY ObjectsAre DEF Made
  <2> QED
    BY <1>2, <2>1
<1>4. WellFormed(cat) /\ RuntimePosture(cat)
  BY <1>1 DEF Admission
<1>5. WellFormed(cat') /\ RuntimePosture(cat')
  BY <1>1, <1>2, <1>3, <1>4, MadeWellFormed, PostureKept
<1> QED
  BY <1>1, <1>5 DEF Admission

\* The catalogue the migrations and the alignment leave is well formed.
LEMMA BaselineWellFormed == WellFormed(Baseline)
<1> DEFINE granted == {Grant(p[1], "runtime", p[2], FALSE, "migrator") : p \in Contract}
                      \cup {Grant("public", r, "USAGE", FALSE, "database_owner") : r \in {"runtime", "migrator"}}
                      \cup {Grant("public", "migrator", "CREATE", FALSE, "database_owner"),
                            Grant("db", "migrator", "CONNECT", FALSE, "app"),
                            Grant("db", "runtime", "CONNECT", FALSE, "app")}
           owned == [t \in Things |->
                IF t \in {"db", "db_tree"} THEN "app"
                ELSE IF t = "public" THEN "database_owner"
                ELSE IF t = "drizzle" \/ (t \in Names /\ Objects[t].class = "canonical")
                     THEN "migrator" ELSE "control"]
           attributes == {<<"control", "super">>, <<"app", "createrole">>, <<"other", "inherit">>}
                         \cup {<<r, "login">> : r \in {"control", "app", "migrator", "runtime"}}
           kept == {"accounts", "ids", "status", "ledger", "db_tree", "reports"}
<1>1. Baseline = [members |-> {CreatorEdge("runtime"), CreatorEdge("migrator")}, attrs |-> attributes,
                  exist |-> kept, owner |-> owned, acl |-> granted, columns |-> {}, defaults |-> {},
                  revoked |-> {"app", "migrator"}, builtin |-> {}, odd |-> FALSE, migrated |-> TRUE]
  BY DEF Baseline
<1>2. {CreatorEdge("runtime"), CreatorEdge("migrator")} \in SUBSET Edges
  BY DEF CreatorEdge, Edge, Edges, Roles
<1>3. attributes \in SUBSET (Roles \X Attributes)
  BY DEF Roles, Attributes, Administrative
<1>4. kept \in SUBSET Names
  BY ObjectsAre
<1>5. owned \in [Things -> Roles]
  BY DEF Roles
<1>6. /\ PrivilegesOn("accounts") = {"SELECT", "INSERT"} /\ PrivilegesOn("public") = {"USAGE", "CREATE"}
      /\ PrivilegesOn("db") = {"CREATE", "CONNECT", "TEMPORARY"}
  <2>1. "accounts" \in Names /\ Objects["accounts"].kind = "table"
    BY ObjectsAre DEF Objects, Object
  <2>2. "accounts" # "db" /\ "accounts" \notin Schemas /\ "public" \in Schemas /\ "public" # "db" /\ "db" \notin Schemas
    BY DEF Schemas
  <2> QED
    BY <2>1, <2>2 DEF PrivilegesOn, TablePrivileges
<1>7. {"accounts", "public", "db"} \subseteq Things \ Made
  BY ObjectsAre DEF Things, Schemas, Made
<1>8. {"SELECT", "INSERT", "USAGE", "CREATE", "CONNECT"} \subseteq AllPrivileges
  <2>1. \A t \in Things : PrivilegesOn(t) \subseteq AllPrivileges
    BY DEF AllPrivileges
  <2> QED
    BY <1>6, <1>7, <2>1
<1>9. ASSUME NEW g \in granted PROVE g \in Grants /\ g.priv \in PrivilegesOn(g.on) /\ g.on \notin Made
  <2>1. ASSUME NEW t \in {"accounts", "public", "db"}, NEW to \in {"runtime", "migrator"},
               NEW p \in {"SELECT", "INSERT", "USAGE", "CREATE", "CONNECT"}, p \in PrivilegesOn(t),
               NEW b \in {"migrator", "database_owner", "app"}, g = Grant(t, to, p, FALSE, b)
        PROVE  g \in Grants /\ g.priv \in PrivilegesOn(g.on) /\ g.on \notin Made
    BY <1>7, <1>8, <2>1 DEF Grant, Grants, Roles, Grantees
  <2>2. CASE g \in {Grant(p[1], "runtime", p[2], FALSE, "migrator") : p \in Contract}
    <3>1. g = Grant("accounts", "runtime", "SELECT", FALSE, "migrator")
          \/ g = Grant("accounts", "runtime", "INSERT", FALSE, "migrator")
      BY <2>2 DEF Contract, Grant
    <3> QED
      BY <1>6, <2>1, <3>1
  <2>3. CASE g \in {Grant("public", r, "USAGE", FALSE, "database_owner") : r \in {"runtime", "migrator"}}
    <3>1. PICK r \in {"runtime", "migrator"} : g = Grant("public", r, "USAGE", FALSE, "database_owner")
      BY <2>3 DEF Grant
    <3> QED
      BY <1>6, <2>1, <3>1
  <2>4. CASE g \in {Grant("public", "migrator", "CREATE", FALSE, "database_owner"),
                    Grant("db", "migrator", "CONNECT", FALSE, "app"), Grant("db", "runtime", "CONNECT", FALSE, "app")}
    BY <1>6, <2>1, <2>4
  <2> QED
    BY <2>2, <2>3, <2>4
<1> HIDE DEF granted, owned, attributes, kept
<1>10. granted \in SUBSET Grants
  BY <1>9
<1>11. Baseline \in Catalogues
  BY <1>1, <1>2, <1>3, <1>4, <1>5, <1>10 DEF Catalogues, Roles
<1>12. Baseline.acl = granted /\ Baseline.columns = {}
  BY <1>1
<1> QED
  BY <1>9, <1>11, <1>12 DEF WellFormed

\* The inductive invariant of the posture: the initial state has it and every step keeps it.
LEMMA AdmissionHolds == Spec => []Admission
<1>1. Init => Admission
  <2> SUFFICES ASSUME Init PROVE Admission
    OBVIOUS
  <2>1. Configured(env)
    BY LocalConfigured, HostedConfigured DEF Init, Environments
  <2>2. WellFormed(cat)
    BY BaselineWellFormed DEF Init
  <2>3. drifts \in 0..MaxDrift
    BY DriftAssumption DEF Init
  <2>4. cat.exist \cap Made = {}
    BY DEF Init, Baseline, Made
  <2> QED
    BY <2>1, <2>2, <2>3, <2>4 DEF Init, Admission
<1>2. Admission /\ [Next]_vars => Admission'
  <2> SUFFICES ASSUME Admission, [Next]_vars PROVE Admission'
    OBVIOUS
  <2>1. CASE Configure
    <3>1. stage = "drift" /\ stage' = stage /\ cat' = cat /\ drifts < MaxDrift /\ drifts' = drifts + 1
      BY <2>1 DEF Configure
    <3>2. drifts' \in 0..MaxDrift
      BY <3>1, DriftAssumption DEF Admission
    <3>3. PICK v \in Variables : \E x \in Values(v) : env' = [env EXCEPT ![v] = x]
      BY <2>1 DEF Configure
    <3>4. Configured(env')
      <4>1. PICK x \in Values(v) : env' = [env EXCEPT ![v] = x]
        BY <3>3
      <4>2. Configured(env)
        BY DEF Admission
      <4>3. Configured([env EXCEPT ![v] = x])
        BY <4>2, StillConfigured
      <4> QED
        BY <4>1, <4>3
    <3>5. WellFormed(cat) /\ cat.exist \cap Made = {}
      BY <3>1 DEF Admission
    <3>6. WellFormed(cat') /\ Configured(env') /\ cat'.exist \cap Made = {}
      BY <3>1, <3>4, <3>5
    <3> QED
      BY <3>1, <3>2, <3>6 DEF Admission
  <2>2. CASE UNCHANGED vars
    BY <2>2 DEF vars, Admission
  <2> QED
    BY <2>1, <2>2, RoleSteps, GrantSteps, DefinitionSteps, StartStep, MigrateStep DEF Next
<1> QED
  BY <1>1, <1>2, PTL DEF Spec

\* Whatever the operators did to roles, grants, owners, defaults and variables, in as many
\* steps as they like, a runtime that src/src/db/runtime-posture.ts lets start can use
\* nothing but the contract, make and own nothing, also of what migrations make while it
\* serves; it would be let in again, and serves its own origin only.
THEOREM PostureHolds == Spec => []PostureInvariant
<1>1. Admission => PostureInvariant
  <2> SUFFICES ASSUME Admission PROVE PostureInvariant
    OBVIOUS
  <2>1. cat \in Catalogues /\ WellFormed(cat)
    BY DEF Admission, WellFormed
  <2>2. IsCatalogue(cat)
    <3>1. \A e \in cat.members : e = Edge(e.member, e.role, e.by, e.admin, e.inherit, e.set)
                                 /\ {e.member, e.role, e.by} \subseteq Roles
      <4> SUFFICES ASSUME NEW e \in Edges
                   PROVE  e = Edge(e.member, e.role, e.by, e.admin, e.inherit, e.set)
                          /\ {e.member, e.role, e.by} \subseteq Roles
        BY <2>1 DEF Catalogues
      <4>1. e = [member |-> e.member, role |-> e.role, by |-> e.by, admin |-> e.admin,
                 inherit |-> e.inherit, set |-> e.set]
        BY DEF Edges
      <4> QED
        BY <4>1 DEF Edges, Edge
    <3>2. \A g \in cat.acl : g.on \in Things /\ g.to \in Grantees /\ g.priv \in PrivilegesOn(g.on)
      BY <2>1 DEF WellFormed, Catalogues, Grants
    <3>3. \A x \in cat.defaults : x.creator \in Roles /\ x.to \in Grantees
      BY <2>1 DEF Catalogues, Defaults
    <3>4. cat.attrs \subseteq Roles \X Attributes /\ cat.exist \subseteq Names /\ cat.owner \in [Things -> Roles]
          /\ cat.columns \subseteq Names \X Grantees /\ cat.revoked \subseteq Roles
          /\ cat.builtin \subseteq {n \in Names : Objects[n].kind = "routine"}
          /\ cat.odd \in BOOLEAN /\ cat.migrated \in BOOLEAN
      BY <2>1 DEF Catalogues
    <3> QED
      BY <3>1, <3>2, <3>3, <3>4 DEF IsCatalogue
  <2>3. TypeOK
    BY <2>2 DEF Admission, TypeOK
  <2>4. OnlyContract
    BY <2>1, ContractOnly DEF Admission, OnlyContract
  <2>5. RestartStillAdmitted
    BY DEF Admission, RestartStillAdmitted
  <2>6. HostedStart
    BY HostedServes DEF Admission, HostedStart, ServesItsOrigin
  <2>7. RefusedBeforeConnecting
    BY ComposedIfAccepted DEF RefusedBeforeConnecting
  <2> QED
    BY <2>3, <2>4, <2>5, <2>6, <2>7 DEF PostureInvariant
<1> QED
  BY <1>1, AdmissionHolds, PTL

\* The two checks of the table grants, over the same rows.
LEMMA GrantChecks == GrantChecksAgree
<1> DEFINE rows == Direct(cat, "table")
           keys == {Key(g) : g \in rows}
<1>1. keys = {<<g.on, g.priv>> : g \in rows}
  BY DEF Key
<1>2. keys = Contract => \A g \in rows : Objects[g.on].schema = "public"
  <2> SUFFICES ASSUME keys = Contract, NEW g \in rows PROVE Objects[g.on].schema = "public"
    OBVIOUS
  <2>1. <<g.on, g.priv>> \in Contract
    BY <1>1
  <2>2. g.on = "accounts"
    BY <2>1 DEF Contract
  <2> QED
    BY <2>2 DEF Objects, Object
<1> HIDE DEF rows, keys
<1>3. GrantSetError(rows) = "none" <=>
        /\ \A g \in rows : ~g.grantable
        /\ \A g \in rows : Objects[g.on].schema = "public"
        /\ Cardinality(keys) = Cardinality(rows) /\ keys = Contract
  <2>1. GrantSetError(rows) =
          IF \E g \in rows : g.grantable THEN "grant_option"
          ELSE IF \E g \in rows : Objects[g.on].schema # "public" THEN "authority"
          ELSE IF Cardinality(keys) # Cardinality(rows) THEN "extra"
          ELSE IF Contract \ keys # {} /\ keys \ Contract # {} THEN "mismatch"
          ELSE IF Contract \ keys # {} THEN "missing"
          ELSE IF keys \ Contract # {} THEN "extra"
          ELSE "none"
    BY DEF GrantSetError, keys
  <2>2. keys = Contract <=> Contract \ keys = {} /\ keys \ Contract = {}
    OBVIOUS
  <2> QED
    BY <2>1, <2>2
<1>4. GrantSetExact(cat) <=>
        /\ \A g \in rows : ~g.grantable
        /\ Cardinality(rows) = Cardinality(Contract) /\ keys = Contract
  BY <1>1 DEF GrantSetExact, rows
<1>5. GrantSetError(rows) = "none" <=> GrantSetExact(cat)
  BY <1>2, <1>3, <1>4
<1>6. GrantSetExact(cat) \in BOOLEAN
  BY DEF GrantSetExact
<1> QED
  BY <1>5, <1>6 DEF GrantChecksAgree, rows

\* What the report of readiness says when it can ask, when it cannot, and of what.
ReportIs(c, fit, e, f) ==
  LET schema == State(TablesPresent(c))
      migrations == State(~e \/ c.migrated)
      checks(r, s, m, p) == [reachability |-> r, schema |-> s, migrations |-> m, posture |-> p]
      report == ReadinessReport(c, fit, e, f)
  IN /\ f = "connect" =>
          report = [status |-> "db_unreachable", checks |-> checks("failed", "not_checked", "not_checked", "not_checked")]
     /\ f = "tables" =>
          report = [status |-> "schema_not_ready",
                    checks |-> checks("passed", "failed", IF e THEN "failed" ELSE "not_checked", "not_checked")]
     /\ f \in {"none", "migrations", "posture"} /\ ~(~e \/ LedgerAnswers(c, f)) =>
          report = [status |-> "schema_not_ready", checks |-> checks("passed", schema, "failed", "not_checked")]
     /\ f = "posture" /\ (~e \/ LedgerAnswers(c, f)) =>
          report = [status |-> "schema_not_ready",
                    checks |-> checks("passed", schema, migrations, PostureUnanswered(schema, migrations))]
     /\ f \in {"none", "migrations"} /\ (~e \/ LedgerAnswers(c, f)) =>
          report = [status |-> IF schema = "passed" /\ migrations = "passed" /\ fit THEN "ready" ELSE "schema_not_ready",
                    checks |-> checks("passed", schema, migrations, State(fit))]

\* The report of every fault from the connection on, whatever the catalogue and the role are.
LEMMA ReportOf ==
  ASSUME NEW c, NEW fit \in BOOLEAN, NEW e \in BOOLEAN, NEW f \in Faults \ {"config"}
  PROVE  ReportIs(c, fit, e, f)
<1> DEFINE schema == State(TablesPresent(c))
           migrations == State(~e \/ c.migrated)
           posture == State(fit)
           asks == f \notin {"config", "connect", "tables"}
           answered == ~e \/ LedgerAnswers(c, f)
           checks(r, s, m, p) == [reachability |-> r, schema |-> s, migrations |-> m, posture |-> p]
           notReady(s, m, p) == [status |-> "schema_not_ready", checks |-> checks("passed", s, m, p)]
           down == [status |-> "db_unreachable", checks |-> [NotChecked EXCEPT !.reachability = "failed"]]
           report == ReadinessReport(c, fit, e, f)
<1>1. report =
        CASE f = "config" -> [status |-> "db_config_invalid", checks |-> NotChecked]
          [] f = "connect" -> down
          [] f = "tables" -> notReady("failed", IF e THEN "failed" ELSE "not_checked", "not_checked")
          [] asks /\ ~answered -> notReady(schema, "failed", "not_checked")
          [] asks /\ answered /\ f = "posture" ->
               notReady(schema, migrations, PostureUnanswered(schema, migrations))
          [] asks /\ answered /\ f # "posture" ->
               IF {schema, migrations, posture} = {"passed"}
               THEN [status |-> "ready", checks |-> checks("passed", schema, migrations, posture)]
               ELSE notReady(schema, migrations, posture)
  BY DEF ReadinessReport
<1>2. down = [status |-> "db_unreachable", checks |-> checks("failed", "not_checked", "not_checked", "not_checked")]
  BY DEF NotChecked
<1>3. {schema, migrations, posture} = {"passed"} <=> schema = "passed" /\ migrations = "passed" /\ fit
  BY DEF State
<1>4. asks <=> f \in {"none", "migrations", "posture"}
  BY DEF Faults
<1> HIDE DEF down, answered, asks, notReady, schema, migrations, posture, report
<1>5. f = "connect" => report = down
  BY <1>1, <1>4
<1>6. f = "tables" => report = notReady("failed", IF e THEN "failed" ELSE "not_checked", "not_checked")
  BY <1>1, <1>4
<1>7. asks /\ ~answered => report = notReady(schema, "failed", "not_checked")
  BY <1>1, <1>4
<1>8. f = "posture" /\ answered => report = notReady(schema, migrations, PostureUnanswered(schema, migrations))
  BY <1>1, <1>4
<1>9. f \in {"none", "migrations"} /\ answered =>
        report = IF {schema, migrations, posture} = {"passed"}
                 THEN [status |-> "ready", checks |-> checks("passed", schema, migrations, posture)]
                 ELSE notReady(schema, migrations, posture)
  BY <1>1, <1>4
<1>10. f \in {"none", "migrations"} /\ answered =>
        report = [status |-> IF schema = "passed" /\ migrations = "passed" /\ fit THEN "ready" ELSE "schema_not_ready",
                  checks |-> checks("passed", schema, migrations, posture)]
  BY <1>3, <1>9 DEF notReady
<1> QED
  BY <1>2, <1>4, <1>5, <1>6, <1>7, <1>8, <1>10
     DEF ReportIs, answered, notReady, schema, migrations, posture, report

\* A report that is not ready says why, and one that is, checked everything.
LEMMA ReportNames == ASSUME NEW fit \in BOOLEAN PROVE NotReadyNamesAFailure(fit)
<1> SUFFICES ASSUME NEW e \in BOOLEAN, NEW f \in Faults \ {"config"}
             PROVE  LET r == ReadinessReport(cat, fit, e, f)
                    IN (r.status # "ready") = (\E k \in DOMAIN r.checks : r.checks[k] = "failed")
  BY DEF NotReadyNamesAFailure
<1> DEFINE r == ReadinessReport(cat, fit, e, f)
           schema == State(TablesPresent(cat))
           migrations == State(~e \/ cat.migrated)
           checks(a, s, m, p) == [reachability |-> a, schema |-> s, migrations |-> m, posture |-> p]
           named == \E k \in DOMAIN r.checks : r.checks[k] = "failed"
<1>1. ReportIs(cat, fit, e, f)
  BY ReportOf
<1>2. schema \in {"passed", "failed"} /\ migrations \in {"passed", "failed"} /\ State(fit) \in {"passed", "failed"}
      /\ (fit <=> State(fit) = "passed")
  BY DEF State
<1>3. ASSUME NEW a, NEW s, NEW m, NEW p, r.checks = checks(a, s, m, p)
      PROVE  named <=> a = "failed" \/ s = "failed" \/ m = "failed" \/ p = "failed"
  BY <1>3
<1>4. f \in {"connect", "tables", "none", "migrations", "posture"}
  BY DEF Faults
<1> HIDE DEF named
<1>5. CASE f = "connect"
  <2>1. r.status = "db_unreachable" /\ r.checks = checks("failed", "not_checked", "not_checked", "not_checked")
    BY <1>1, <1>5 DEF ReportIs
  <2> QED
    BY <1>3, <2>1 DEF named
<1>6. CASE f = "tables"
  <2>1. r.status = "schema_not_ready"
        /\ r.checks = checks("passed", "failed", IF e THEN "failed" ELSE "not_checked", "not_checked")
    BY <1>1, <1>6 DEF ReportIs
  <2> QED
    BY <1>3, <2>1 DEF named
<1>7. CASE f \in {"none", "migrations", "posture"} /\ ~(~e \/ LedgerAnswers(cat, f))
  <2>1. r.status = "schema_not_ready" /\ r.checks = checks("passed", schema, "failed", "not_checked")
    BY <1>1, <1>7 DEF ReportIs
  <2> QED
    BY <1>3, <2>1 DEF named
<1>8. CASE f = "posture" /\ (~e \/ LedgerAnswers(cat, f))
  <2>1. r.status = "schema_not_ready"
        /\ r.checks = checks("passed", schema, migrations, PostureUnanswered(schema, migrations))
    BY <1>1, <1>8 DEF ReportIs
  <2>2. schema = "failed" \/ migrations = "failed" \/ PostureUnanswered(schema, migrations) = "failed"
    BY <1>2 DEF PostureUnanswered
  <2> HIDE DEF schema, migrations
  <2> QED
    BY <1>3, <2>1, <2>2 DEF named
<1>9. CASE f \in {"none", "migrations"} /\ (~e \/ LedgerAnswers(cat, f))
  <2>1. /\ r.status = IF schema = "passed" /\ migrations = "passed" /\ fit THEN "ready" ELSE "schema_not_ready"
        /\ r.checks = checks("passed", schema, migrations, State(fit))
    BY <1>1, <1>9 DEF ReportIs
  <2> HIDE DEF schema, migrations
  <2>2. r.status # "ready" <=> schema = "failed" \/ migrations = "failed" \/ State(fit) = "failed"
    BY <1>2, <2>1
  <2>3. named <=> schema = "failed" \/ migrations = "failed" \/ State(fit) = "failed"
    BY <1>3, <2>1
  <2>4. r.status # "ready" <=> named
    BY <2>2, <2>3
  <2> QED
    BY <2>4 DEF named
<1> QED
  BY <1>4, <1>5, <1>6, <1>7, <1>8, <1>9 DEF named

\* The two verifications of the migrator's database.
LEMMA Verifications ==
  ASSUME NEW fit \in BOOLEAN, fit <=> MigratorPosture(cat)
  PROVE  VerificationsAgree(fit)
<1> SUFFICES ASSUME NEW e \in BOOLEAN
             PROVE  IF "ledger" \in cat.exist
                    THEN CanonicalVerification(cat, fit, e) = ReadinessReport(cat, fit, e, "none").status
                    ELSE CanonicalVerification(cat, fit, e) = "thrown"
                         /\ ReadinessReport(cat, fit, e, "none").status = "schema_not_ready"
  BY DEF VerificationsAgree
<1> DEFINE r == ReadinessReport(cat, fit, e, "none")
           schema == State(TablesPresent(cat))
           migrations == State(~e \/ cat.migrated)
<1>1. ReportIs(cat, fit, e, "none")
  BY ReportOf DEF Faults
<1>2. (schema = "passed" <=> TablesPresent(cat)) /\ (migrations = "passed" <=> ~e \/ cat.migrated)
  BY DEF State
<1>3. LedgerAnswers(cat, "none") <=> "ledger" \in cat.exist
  BY DEF LedgerAnswers
<1>4. CASE "ledger" \in cat.exist
  <2>1. r.status = IF schema = "passed" /\ migrations = "passed" /\ fit THEN "ready" ELSE "schema_not_ready"
    BY <1>1, <1>3, <1>4 DEF ReportIs
  <2> QED
    BY <1>2, <1>4, <2>1 DEF CanonicalVerification
<1>5. CASE "ledger" \notin cat.exist
  <2>1. ~fit
    BY <1>5 DEF MigratorPosture, MigratorOwns
  <2>2. r.status = "schema_not_ready"
    <3>1. ~(~e \/ LedgerAnswers(cat, "none")) => r.status = "schema_not_ready"
      BY <1>1 DEF ReportIs
    <3>2. ~e => r.status = IF schema = "passed" /\ migrations = "passed" /\ fit THEN "ready" ELSE "schema_not_ready"
      BY <1>1 DEF ReportIs
    <3> QED
      BY <1>3, <1>5, <2>1, <3>1, <3>2
  <2> QED
    BY <1>5, <2>2 DEF CanonicalVerification
<1> QED
  BY <1>4, <1>5

\* Under its posture the migrator is nobody's other role: only its creator has it, to
\* administer, not to act as.
LEMMA MigratorAlone ==
  ASSUME NEW c, MigratorPosture(c), NEW x, x # "migrator", ~Super(c, x)
  PROVE  ~HasRole(c, x, "migrator") /\ ~MaySet(c, x, "migrator")
<1>1. \A e \in c.members : e.role = "migrator" => ~e.inherit /\ ~e.set
  BY DEF MigratorPosture, MigratorEdgeExact, EdgesOf, CreatorEdge, Edge
<1>2. /\ \A e \in {y \in Memberships(c) : y.inherit} : e.role # "migrator"
      /\ \A e \in {y \in Memberships(c) : y.set} : e.role # "migrator"
  BY <1>1 DEF Memberships, Edge
<1>3. /\ "migrator" \notin Reached(x, {e \in Memberships(c) : e.inherit})
      /\ "migrator" \notin Reached(x, {e \in Memberships(c) : e.set})
  BY <1>2, NotReached
<1> QED
  BY <1>3 DEF HasRole, MaySet

\* Ready means that migrations can go on, and that no routine is the runtime's to execute.
LEMMA Ready ==
  ASSUME WellFormed(cat), NEW fit \in BOOLEAN, fit <=> MigratorPosture(cat)
  PROVE  ReadyForMigrations(fit)
<1> SUFFICES ASSUME NEW e \in BOOLEAN, ReadinessReport(cat, fit, e, "none").status = "ready"
             PROVE  /\ \A r \in Roles : r = "migrator" \/ Super(cat, r)
                                        \/ ~(HasRole(cat, r, "migrator") \/ MaySet(cat, r, "migrator"))
                    /\ \A n \in {"accounts", "ledger", "status"} : n \in cat.exist /\ Owns(cat, "migrator", n)
                    /\ ApplicationSchemas \subseteq Creates(cat, "migrator")
                    /\ RuntimePosture(cat) =>
                         ~\E x \in Usable(cat, "runtime") :
                            Objects[x[1]].kind = "routine" /\ InApplication(x[1]) /\ x[1] \notin Made
  BY DEF ReadyForMigrations
<1>1. MigratorPosture(cat)
  <2>1. ReportIs(cat, fit, e, "none")
    BY ReportOf DEF Faults
  <2>2. fit
    <3>1. CASE ~(~e \/ LedgerAnswers(cat, "none"))
      BY <2>1, <3>1 DEF ReportIs
    <3>2. CASE ~e \/ LedgerAnswers(cat, "none")
      <4>1. ReadinessReport(cat, fit, e, "none").status =
              IF State(TablesPresent(cat)) = "passed" /\ State(~e \/ cat.migrated) = "passed" /\ fit
              THEN "ready" ELSE "schema_not_ready"
        BY <2>1, <3>2 DEF ReportIs
      <4> QED
        BY <4>1
    <3> QED
      BY <3>1, <3>2
  <2> QED
    BY <2>2
<1>2. \A r \in Roles : r = "migrator" \/ Super(cat, r)
                       \/ ~(HasRole(cat, r, "migrator") \/ MaySet(cat, r, "migrator"))
  BY <1>1, MigratorAlone
<1>3. ASSUME NEW n \in {"accounts", "ledger", "status"}
      PROVE  n \in cat.exist /\ Owns(cat, "migrator", n)
  <2>1. n \in cat.exist
    BY <1>1 DEF MigratorPosture, MigratorOwns
  <2>2. Objects[n].class = "canonical" /\ Objects[n].kind \in Relations \cup {"type"}
    BY ObjectsAre DEF Objects, Object, Relations
  <2>3. cat.owner[n] = "migrator"
    BY <1>1, <2>1, <2>2 DEF MigratorPosture, MigratorOwns, Canonical
  <2> QED
    BY <2>1, <2>3, ReachedFrom DEF Owns, HasRole
<1>4. ApplicationSchemas \subseteq Creates(cat, "migrator")
  BY <1>1 DEF MigratorPosture, MigratorSchemaAuthority, Creates, ApplicationSchemas, Schemas
<1>5. ASSUME RuntimePosture(cat), NEW x \in Usable(cat, "runtime"),
             Objects[x[1]].kind = "routine", InApplication(x[1]), x[1] \notin Made
      PROVE  FALSE
  <2>1. cat \in Catalogues
    BY DEF WellFormed
  <2>2. x[1] \in cat.exist /\ x[1] \in Names
    BY <1>5, <2>1 DEF Usable, Catalogues
  <2>3. x[1] \in {"db_tree", "helper"}
    BY <1>5, <2>2, ObjectsAre DEF Objects, Object, Made
  <2>4. Objects[x[1]].class \notin {"canonical", "extension"}
    BY <2>3 DEF Objects, Object
  <2>5. x[1] \in Retained(cat)
    BY <1>1, <1>5, <2>2, <2>4 DEF MigratorPosture, UnknownDriftAbsent
  <2>6. x[1] \notin cat.builtin
    BY <2>5 DEF Retained
  <2>7. MaySet(cat, "runtime", "runtime")
    BY <1>5, RuntimeAlone
  <2>8. x \in Contract \/ x[1] \in cat.builtin
    BY <1>5, <2>1, <2>7, ContractOnly DEF Roles
  <2> QED
    BY <2>3, <2>6, <2>8 DEF Contract
<1> QED
  BY <1>2, <1>3, <1>4, <1>5

\* Whether a variable is given, by its kind.
LEMMA GivenIs ==
  ASSUME NEW e
  PROVE  /\ \A v \in Urls : Given(e, v) <=> e[v] # NoUrl
         /\ \A v \in Secrets \cup Words \cup DOMAIN Choices : Given(e, v) <=> e[v] # "absent"
         /\ Given(e, "PLATFORM_ALLOWED_ORIGINS") <=> e["PLATFORM_ALLOWED_ORIGINS"] # <<>>
<1>1. ASSUME NEW v \in Urls PROVE Given(e, v) <=> e[v] # NoUrl
  <2>1. v # "PLATFORM_ALLOWED_ORIGINS"
    BY VariablesApart
  <2> QED
    BY <2>1 DEF Given
<1>2. ASSUME NEW v \in Secrets \cup Words \cup DOMAIN Choices PROVE Given(e, v) <=> e[v] # "absent"
  <2>1. v # "PLATFORM_ALLOWED_ORIGINS" /\ v \notin Urls
    BY VariablesApart
  <2> QED
    BY <2>1 DEF Given
<1>3. "PLATFORM_ALLOWED_ORIGINS" \notin Urls
  BY VariablesApart
<1>4. Given(e, "PLATFORM_ALLOWED_ORIGINS") <=> e["PLATFORM_ALLOWED_ORIGINS"] # <<>>
  BY <1>3 DEF Given
<1> QED
  BY <1>1, <1>2, <1>4

\* What the dry-run check takes for valid, by the kind of variable.
LEMMA ValidIs ==
  ASSUME NEW e
  PROVE  /\ \A v \in ProviderUrls : Valid(e, v) <=> e[v].scheme = "https"
         /\ Valid(e, "PLATFORM_PUBLIC_BASE_URL") <=> IsHostedBase(e.PLATFORM_PUBLIC_BASE_URL)
         /\ Valid(e, "PLATFORM_ALLOWED_ORIGINS") <=>
              IsHostedBase(e.PLATFORM_PUBLIC_BASE_URL)
              /\ e["PLATFORM_ALLOWED_ORIGINS"] = << At(e.PLATFORM_PUBLIC_BASE_URL, "none") >>
         /\ Valid(e, "AUTH_REDIRECT_URI") <=>
              IsHostedBase(e.PLATFORM_PUBLIC_BASE_URL)
              /\ e["AUTH_REDIRECT_URI"] = At(e.PLATFORM_PUBLIC_BASE_URL, "callback")
         /\ Valid(e, "PLATFORM_SQAG_APP_BASE_URL") <=> IsHostedSqagBase(e["PLATFORM_SQAG_APP_BASE_URL"])
         /\ Valid(e, "PLATFORM_COOKIE_SECURE") <=> CookieValid(e)
         /\ \A v \in Secrets : Valid(e, v) <=> e[v] = "long"
         /\ \A v \in DOMAIN Passing : Valid(e, v) <=> e[v] \in Passing[v]
         /\ \A v \in Words : Valid(e, v)
<1>1. ASSUME NEW v \in Urls \cup {"PLATFORM_ALLOWED_ORIGINS"} PROVE Valid(e, v) <=> UrlValid(e, v)
  <2>1. v # "PLATFORM_COOKIE_SECURE" /\ v \notin Secrets /\ v \notin DOMAIN Passing /\ v \notin Words
    BY VariablesApart, VariablesAre
  <2> QED
    BY <2>1 DEF Valid
<1>2. {"PLATFORM_PUBLIC_BASE_URL", "AUTH_REDIRECT_URI", "PLATFORM_SQAG_APP_BASE_URL"} \subseteq Urls \ ProviderUrls
      /\ ProviderUrls \subseteq Urls /\ "PLATFORM_ALLOWED_ORIGINS" \notin ProviderUrls
  BY DEF Urls, ProviderUrls
<1>3. ASSUME NEW v \in ProviderUrls PROVE UrlValid(e, v) <=> e[v].scheme = "https"
  <2>1. v \notin {"PLATFORM_PUBLIC_BASE_URL", "PLATFORM_ALLOWED_ORIGINS", "AUTH_REDIRECT_URI", "PLATFORM_SQAG_APP_BASE_URL"}
    BY <1>2
  <2> QED
    BY <2>1 DEF UrlValid
<1>4. UrlValid(e, "PLATFORM_PUBLIC_BASE_URL") <=> IsHostedBase(e.PLATFORM_PUBLIC_BASE_URL)
  BY <1>2 DEF UrlValid
<1>5. UrlValid(e, "PLATFORM_ALLOWED_ORIGINS") <=>
        IsHostedBase(e.PLATFORM_PUBLIC_BASE_URL)
        /\ e["PLATFORM_ALLOWED_ORIGINS"] = << At(e.PLATFORM_PUBLIC_BASE_URL, "none") >>
  BY <1>2 DEF UrlValid
<1>6. UrlValid(e, "AUTH_REDIRECT_URI") <=>
        IsHostedBase(e.PLATFORM_PUBLIC_BASE_URL)
        /\ e["AUTH_REDIRECT_URI"] = At(e.PLATFORM_PUBLIC_BASE_URL, "callback")
  BY <1>2 DEF UrlValid
<1>7. UrlValid(e, "PLATFORM_SQAG_APP_BASE_URL") <=> IsHostedSqagBase(e["PLATFORM_SQAG_APP_BASE_URL"])
  BY <1>2 DEF UrlValid, IsHostedSqagBase
<1>8. Valid(e, "PLATFORM_COOKIE_SECURE") <=> CookieValid(e)
  <2>1. "PLATFORM_COOKIE_SECURE" \in DOMAIN Choices /\ "PLATFORM_COOKIE_SECURE" \notin DOMAIN Passing
    BY VariablesAre
  <2>2. "PLATFORM_COOKIE_SECURE" \notin Urls \cup {"PLATFORM_ALLOWED_ORIGINS"}
        /\ "PLATFORM_COOKIE_SECURE" \notin Secrets /\ "PLATFORM_COOKIE_SECURE" \notin Words
    BY <2>1, VariablesApart
  <2> QED
    BY <2>1, <2>2 DEF Valid
<1>9. ASSUME NEW v \in Secrets PROVE Valid(e, v) <=> e[v] = "long"
  <2>1. v \notin Urls \cup {"PLATFORM_ALLOWED_ORIGINS"} /\ v # "PLATFORM_COOKIE_SECURE"
        /\ v \notin DOMAIN Passing /\ v \notin Words
    BY VariablesApart, VariablesAre
  <2> QED
    BY <2>1 DEF Valid
<1>10. ASSUME NEW v \in DOMAIN Passing PROVE Valid(e, v) <=> e[v] \in Passing[v]
  <2>1. v \notin Urls \cup {"PLATFORM_ALLOWED_ORIGINS"} /\ v # "PLATFORM_COOKIE_SECURE"
        /\ v \notin Secrets /\ v \notin Words
    BY VariablesApart, VariablesAre
  <2> QED
    BY <2>1 DEF Valid
<1>11. ASSUME NEW v \in Words PROVE Valid(e, v)
  <2>1. v \notin Urls \cup {"PLATFORM_ALLOWED_ORIGINS"} /\ v # "PLATFORM_COOKIE_SECURE"
        /\ v \notin Secrets /\ v \notin DOMAIN Passing
    BY VariablesApart, VariablesAre
  <2> QED
    BY <2>1 DEF Valid
<1> QED
  BY <1>1, <1>2, <1>3, <1>4, <1>5, <1>6, <1>7, <1>8, <1>9, <1>10, <1>11

\* What an environment the dry-run check passes is known to have.
Needed ==
  {"NODE_ENV", "PLATFORM_HTTP_PORT", "PLATFORM_PUBLIC_BASE_URL", "PLATFORM_ALLOWED_ORIGINS",
   "PLATFORM_COOKIE_SECURE", "DATABASE_URL", "DATABASE_EXPECTED_RUNTIME_ROLE",
   "PLATFORM_AUTH_PROVIDER_MODE", "AUTH_PROVIDER_KEY", "PLATFORM_SQAG_LAUNCH_MODE",
   "AUTH_REDIRECT_URI", "OIDC_CLIENT_ID", "OIDC_CLIENT_SECRET", "SESSION_SECRET",
   "CSRF_TOKEN_HASH_SECRET", "AUTH_STATE_HASH_SECRET", "APP_LAUNCH_TOKEN_HASH_SECRET",
   "AUTH_ISSUER_URL", "AUTH_AUTHORIZATION_URL", "AUTH_TOKEN_URL", "AUTH_JWKS_URL"}

\* A configuration that readiness reports ready has every variable the runtime needs, each with a
\* value the runtime would accept.
LEMMA ReadinessKnows ==
  ASSUME NEW e, ReadinessOk(e)
  PROVE  /\ \A v \in Needed : Given(e, v) /\ Valid(e, v)
         /\ Handoff(e) => \A v \in HandoffOnly : Given(e, v) /\ Valid(e, v)
         /\ \A v \in Optional : Given(e, v) => Valid(e, v)
<1>1. Needed \subseteq Variables
  BY VariablesAre DEF Needed, Variables, Urls, ProviderUrls, Secrets, Words
<1>2. Optional \subseteq Variables
  BY VariablesAre DEF Optional, BootstrapOnly, Variables, Urls, ProviderUrls, Words, SeedIdentity
<1>3. HandoffOnly \subseteq Variables
  BY DEF HandoffOnly, Variables, Urls, Secrets
<1>4. Needed \cap (HandoffOnly \cup Optional \cup Unchecked) = {}
  BY DEF Needed, HandoffOnly, Optional, BootstrapOnly, Unchecked, SeedIdentity, Retired, SeedOverrides
<1>5. (Optional \cup HandoffOnly) \cap Unchecked = {} /\ Optional \cap HandoffOnly = {}
  BY DEF HandoffOnly, Optional, BootstrapOnly, Unchecked, SeedIdentity, Retired, SeedOverrides
<1>6. ReadinessMissing(e) = {} /\ ReadinessInvalid(e) = {}
  BY DEF ReadinessOk
<1>7. \A v \in Required \cup HandoffOnly : Applies(e, v) => Given(e, v)
  BY <1>6 DEF ReadinessMissing
<1>8. \A v \in Variables \ Unchecked : Given(e, v) /\ Applies(e, v) => Valid(e, v)
  BY <1>6 DEF ReadinessInvalid
<1>9. ASSUME NEW v \in Needed PROVE Given(e, v) /\ Valid(e, v)
  <2>1. v \in Required /\ v \in Variables \ Unchecked /\ v \notin HandoffOnly
    BY <1>1, <1>4 DEF Required
  <2> QED
    BY <1>7, <1>8, <2>1 DEF Applies
<1>10. ASSUME Handoff(e), NEW v \in HandoffOnly PROVE Given(e, v) /\ Valid(e, v)
  <2>1. v \in Variables \ Unchecked
    BY <1>3, <1>5
  <2> QED
    BY <1>7, <1>8, <1>10, <2>1 DEF Applies
<1>11. ASSUME NEW v \in Optional, Given(e, v) PROVE Valid(e, v)
  <2>1. v \in Variables \ Unchecked /\ v \notin HandoffOnly
    BY <1>2, <1>5
  <2> QED
    BY <1>8, <1>11, <2>1 DEF Applies
<1> QED
  BY <1>9, <1>10, <1>11

\* An environment that passes the dry-run check starts the platform, unless it holds what
\* the check does not look at.
LEMMA CheckedStarts ==
  ASSUME NEW e, Configured(e), ReadinessOk(e)
  PROVE  ConfigurationAccepted(e) <=>
           ~(\/ \E v \in Retired : Given(e, v)
             \/ e.PLATFORM_SQAG_SERVICE_SECRET = "short" /\ ~Handoff(e)
             \/ e.DATABASE_EXPECTED_RUNTIME_ROLE = "other_role")
<1> DEFINE u == e.PLATFORM_PUBLIC_BASE_URL
<1>1. /\ \A v \in Needed : Given(e, v) /\ Valid(e, v)
      /\ Handoff(e) => \A v \in HandoffOnly : Given(e, v) /\ Valid(e, v)
      /\ \A v \in Optional : Given(e, v) => Valid(e, v)
  BY ReadinessKnows
<1>2. /\ e["NODE_ENV"] \in Passing["NODE_ENV"] /\ e["PLATFORM_HTTP_PORT"] \in Passing["PLATFORM_HTTP_PORT"]
      /\ e["DATABASE_URL"] \in Passing["DATABASE_URL"]
      /\ e["DATABASE_EXPECTED_RUNTIME_ROLE"] \in Passing["DATABASE_EXPECTED_RUNTIME_ROLE"]
      /\ e["PLATFORM_AUTH_PROVIDER_MODE"] \in Passing["PLATFORM_AUTH_PROVIDER_MODE"]
      /\ e["AUTH_PROVIDER_KEY"] \in Passing["AUTH_PROVIDER_KEY"]
      /\ e["PLATFORM_SQAG_LAUNCH_MODE"] \in Passing["PLATFORM_SQAG_LAUNCH_MODE"]
  <2>1. \A v \in DOMAIN Passing : Valid(e, v) => e[v] \in Passing[v]
    BY ValidIs
  <2> QED
    BY <1>1, <2>1, VariablesAre DEF Needed
<1>3. /\ e.NODE_ENV = "production" /\ e.PLATFORM_HTTP_PORT = "valid" /\ e.DATABASE_URL = "valid"
      /\ e.DATABASE_EXPECTED_RUNTIME_ROLE \in {"platform_runtime", "other_role"}
      /\ e.PLATFORM_AUTH_PROVIDER_MODE = "generic_oidc" /\ e.AUTH_PROVIDER_KEY = "auth0"
      /\ e.PLATFORM_SQAG_LAUNCH_MODE \in {"manual", "server_handoff"}
  BY <1>2 DEF Passing
<1>4. Production(e) /\ AuthEnabled(e)
  BY <1>3 DEF Production, AuthEnabled
<1>5. IsHostedBase(u) /\ e.PLATFORM_ALLOWED_ORIGINS = << At(u, "none") >> /\ e.AUTH_REDIRECT_URI = At(u, "callback")
      /\ Given(e, "PLATFORM_ALLOWED_ORIGINS") /\ Given(e, "PLATFORM_COOKIE_SECURE") /\ CookieValid(e)
  BY <1>1, ValidIs DEF Needed
<1>6. u \in UrlRecords
  BY UrlsAre DEF Configured, Variables, Urls
<1>7. u # NoUrl /\ u.scheme = "https"
  BY <1>5, <1>6, HostedBase
<1>8. PublicBase(e) = At(u, "none")
  BY <1>4, <1>7 DEF PublicBase
<1>9. At(At(u, "none"), "callback") = At(u, "callback")
  BY <1>6 DEF At, UrlRecords
<1> HIDE DEF u
<1>10. RuntimeConfigRead(e)
  <2>1. PublicBaseRead(e)
    BY <1>4, <1>5 DEF PublicBaseRead, u
  <2>2. e.PLATFORM_COOKIE_SECURE = "true"
    BY <1>4, <1>5 DEF CookieValid
  <2>3. CookieRead(e)
    BY <1>5, <2>2 DEF CookieRead, CookieSecure
  <2>4. OriginsRead(e)
    BY <1>4, <1>5, <1>8 DEF OriginsRead
  <2> QED
    BY <1>3, <2>1, <2>3, <2>4 DEF RuntimeConfigRead
<1>11. BootstrapInput(e)
  <2>1. ASSUME Handoff(e) PROVE SqagBaseRead(e)
    <3>1. IsHostedSqagBase(e.PLATFORM_SQAG_APP_BASE_URL)
      BY <1>1, <2>1, ValidIs DEF HandoffOnly
    <3>2. e.PLATFORM_SQAG_APP_BASE_URL.scheme = "https"
      BY <3>1 DEF IsHostedSqagBase, Origin, Sqag, Url
    <3> QED
      BY <3>1, <3>2 DEF SqagBaseRead, IsHttp
  <2> QED
    BY <1>3, <2>1 DEF BootstrapInput
<1>12. e.SESSION_SECRET = "long" /\ e.CSRF_TOKEN_HASH_SECRET = "long" /\ e.AUTH_STATE_HASH_SECRET = "long"
       /\ e.APP_LAUNCH_TOKEN_HASH_SECRET = "long"
  BY <1>1, ValidIs DEF Needed, Secrets
<1>13. SecretsRead(e) <=> ~(e.PLATFORM_SQAG_SERVICE_SECRET = "short" /\ ~Handoff(e))
  <2>1. e.PLATFORM_SQAG_SERVICE_SECRET \in {"absent", "short", "long"}
    BY ValuesAre DEF Configured, Variables, Secrets
  <2>2. Handoff(e) => e.PLATFORM_SQAG_SERVICE_SECRET = "long"
    BY <1>1, ValidIs DEF HandoffOnly, Secrets
  <2> QED
    BY <1>12, <2>1, <2>2 DEF SecretsRead
<1>14. AuthConfigRead(e) <=> ~\E v \in Retired : Given(e, v)
  <2>1. \A v \in ProviderUrls \ {"AUTH_USERINFO_URL"} : e[v].scheme = "https"
    BY <1>1, ValidIs DEF Needed, ProviderUrls
  <2>2. Given(e, "AUTH_USERINFO_URL") => e.AUTH_USERINFO_URL.scheme = "https"
    BY <1>1, ValidIs DEF Optional, ProviderUrls
  <2>3. e.AUTH_REDIRECT_URI.scheme = "https"
    <3>1. "callback" \in Forms
      BY DEF Forms
    <3> QED
      BY <1>5, <1>6, <1>7, <3>1, UrlsAre
  <2>4. Given(e, "OIDC_CLIENT_ID") /\ Given(e, "OIDC_CLIENT_SECRET")
    BY <1>1 DEF Needed
  <2> QED
    BY <1>3, <1>12, <2>1, <2>2, <2>3, <2>4 DEF AuthConfigRead, IsHttp
<1>15. HostedAuthUrls(e)
  <2>1. ASSUME NEW v \in ProviderUrls, Given(e, v) PROVE e[v].scheme = "https"
    <3>1. v \in Needed \/ v \in Optional
      BY DEF ProviderUrls, Needed, Optional
    <3> QED
      BY <1>1, <2>1, <3>1, ValidIs
  <2> QED
    BY <1>3, <1>5, <1>8, <1>9, <2>1 DEF HostedAuthUrls, CallbackUrl
<1>16. DatabaseConfigRead(e)
  <2>1. "DATABASE_SSL_MODE" \in Optional /\ "DATABASE_SSL_MODE" \in DOMAIN Choices /\ "DATABASE_SSL_MODE" \in DOMAIN Passing
    BY VariablesAre DEF Optional
  <2>2. e["DATABASE_SSL_MODE"] = "absent" \/ e["DATABASE_SSL_MODE"] \in Passing["DATABASE_SSL_MODE"]
    BY <1>1, <2>1, GivenIs, ValidIs
  <2>3. e.DATABASE_SSL_MODE # "other"
    BY <2>2 DEF Passing
  <2> QED
    BY <1>3, <2>3 DEF DatabaseConfigRead
<1>17. DatabaseRead(e) <=> e.DATABASE_EXPECTED_RUNTIME_ROLE # "other_role"
  BY <1>3, <1>16 DEF DatabaseRead, ExpectedRoleRead
<1> QED
  BY <1>3, <1>4, <1>10, <1>11, <1>13, <1>14, <1>15, <1>17 DEF ConfigurationAccepted

\* And with the confirmation and the names it needs, the seed command starts too.
LEMMA CheckedSeeds ==
  ASSUME NEW e, Configured(e), ReadinessOk(e), \A v \in BootstrapOnly : Given(e, v)
  PROVE  SeedStarts(e) <=>
           ~(\/ e.PLATFORM_SEED_CONFIRM = "padded"
             \/ \E v \in SeedOverrides : Given(e, v)
             \/ e.PLATFORM_SEED_BOOTSTRAP_MODE = "first_admin" /\ SeedRole(e) # "admin"
             \/ e.PLATFORM_SEED_APP_LAUNCH_URL.scheme \in {"malformed", "other"})
<1>1. /\ \A v \in Needed : Given(e, v) /\ Valid(e, v)
      /\ \A v \in Optional : Given(e, v) => Valid(e, v)
  BY ReadinessKnows
<1>2. \A v \in {"PLATFORM_SEED_CONFIRM", "PLATFORM_SEED_MEMBERSHIP_ROLE", "PLATFORM_SEED_BOOTSTRAP_MODE",
                "DATABASE_SSL_MODE"} : v \in Optional /\ v \in DOMAIN Choices /\ v \in DOMAIN Passing
  BY VariablesAre DEF Optional, BootstrapOnly
<1>3. \A v \in {"PLATFORM_SEED_CONFIRM", "PLATFORM_SEED_MEMBERSHIP_ROLE", "PLATFORM_SEED_BOOTSTRAP_MODE",
                "DATABASE_SSL_MODE"} : e[v] = "absent" \/ e[v] \in Passing[v]
  BY <1>1, <1>2, GivenIs, ValidIs
<1>4. e.PLATFORM_SEED_CONFIRM \in {"expected", "padded"}
  <2>1. "PLATFORM_SEED_CONFIRM" \in BootstrapOnly
    BY DEF BootstrapOnly
  <2>2. e["PLATFORM_SEED_CONFIRM"] # "absent"
    BY <1>2, <2>1, GivenIs
  <2> QED
    BY <1>3, <2>2 DEF Passing
<1>5. SeedRole(e) \in {"admin", "operator", "viewer"}
  <2>1. Given(e, "PLATFORM_SEED_MEMBERSHIP_ROLE") <=> e["PLATFORM_SEED_MEMBERSHIP_ROLE"] # "absent"
    BY <1>2, GivenIs
  <2> QED
    BY <1>3, <2>1 DEF SeedRole, Passing
<1>6. e.PLATFORM_SEED_BOOTSTRAP_MODE \in {"absent", "first_admin"}
  BY <1>3 DEF Passing
<1>7. DatabaseConfigRead(e)
  <2>1. e.DATABASE_SSL_MODE # "other"
    BY <1>3 DEF Passing
  <2>2. e["DATABASE_URL"] \in Passing["DATABASE_URL"]
    BY <1>1, ValidIs, VariablesAre DEF Needed
  <2> QED
    BY <2>1, <2>2 DEF DatabaseConfigRead, Passing
<1>8. (Given(e, "PLATFORM_SEED_APP_LAUNCH_URL") => IsHttp(e.PLATFORM_SEED_APP_LAUNCH_URL))
      <=> e.PLATFORM_SEED_APP_LAUNCH_URL.scheme \notin {"malformed", "other"}
  <2> DEFINE v == "PLATFORM_SEED_APP_LAUNCH_URL"
  <2>1. v \in Urls /\ v \in Variables
        /\ v \notin {"PLATFORM_PUBLIC_BASE_URL", "AUTH_REDIRECT_URI", "PLATFORM_SQAG_APP_BASE_URL"}
    BY DEF Urls, Variables
  <2>2. v \notin Secrets /\ v \notin Words /\ v \notin DOMAIN Choices /\ v # "PLATFORM_ALLOWED_ORIGINS"
    BY <2>1, VariablesApart
  <2>3. Values(v) = SomeUrls({}, {})
    BY <2>1, <2>2 DEF Values
  <2>4. e[v] \in SomeUrls({}, {})
    BY <2>1, <2>3 DEF Configured
  <2>5. e[v] = NoUrl \/ e[v].scheme \in {"malformed", "other", "http", "https"}
    BY <2>4 DEF SomeUrls, Malformed, Elsewhere, Plain, Url
  <2>6. Given(e, v) <=> e[v] # NoUrl
    BY <2>1, GivenIs
  <2>7. NoUrl.scheme = "absent"
    BY DEF NoUrl, Url
  <2> QED
    BY <2>5, <2>6, <2>7 DEF IsHttp
<1>9. \A v \in SeedIdentity : Given(e, v)
  BY DEF BootstrapOnly
<1> QED
  BY <1>4, <1>5, <1>6, <1>7, <1>8, <1>9 DEF SeedStarts, SeedRead

\* In an environment a hosted start with sign-in accepts, the check finds nothing invalid
\* but what other commands use.
LEMMA StartedChecks ==
  ASSUME NEW e, Configured(e), ConfigurationAccepted(e), Production(e), AuthEnabled(e)
  PROVE  ReadinessInvalid(e) \subseteq
           {"DATABASE_MIGRATIONS_CONFIRM", "PLATFORM_SEED_CONFIRM", "PLATFORM_SEED_BOOTSTRAP_MODE",
            "PLATFORM_SEED_MEMBERSHIP_ROLE"}
<1> DEFINE u == e.PLATFORM_PUBLIC_BASE_URL
           others == {"DATABASE_MIGRATIONS_CONFIRM", "PLATFORM_SEED_CONFIRM", "PLATFORM_SEED_BOOTSTRAP_MODE",
                      "PLATFORM_SEED_MEMBERSHIP_ROLE"}
<1>1. /\ BootstrapInput(e) /\ RuntimeConfigRead(e) /\ SecretsRead(e) /\ AuthConfigRead(e)
      /\ HostedAuthUrls(e) /\ DatabaseRead(e)
  BY DEF ConfigurationAccepted
<1>2. u \in UrlRecords
  BY UrlsAre DEF Configured, Variables, Urls
<1>3. IsHostedBase(u)
  BY <1>1 DEF RuntimeConfigRead, PublicBaseRead
<1>4. PublicBase(e) = At(u, "none")
  BY <1>2, <1>3, HostedBase DEF PublicBase
<1>5. At(At(u, "none"), "callback") = At(u, "callback")
  BY <1>2 DEF At, UrlRecords
<1> SUFFICES ASSUME NEW v \in Variables \ Unchecked, Given(e, v), Applies(e, v), v \notin others
             PROVE  Valid(e, v)
  BY DEF ReadinessInvalid
<1>6. CASE v \in ProviderUrls
  BY <1>1, <1>6, ValidIs DEF HostedAuthUrls
<1>7. CASE v \in Urls \ ProviderUrls
  <2>1. v \in {"PLATFORM_PUBLIC_BASE_URL", "AUTH_REDIRECT_URI", "PLATFORM_SQAG_APP_BASE_URL"}
    BY <1>7 DEF Urls, Unchecked
  <2>2. e["AUTH_REDIRECT_URI"] = At(u, "callback")
    BY <1>1, <1>4, <1>5 DEF HostedAuthUrls, CallbackUrl
  <2>3. v = "PLATFORM_SQAG_APP_BASE_URL" => IsHostedSqagBase(e["PLATFORM_SQAG_APP_BASE_URL"])
    BY <1>1 DEF Applies, HandoffOnly, BootstrapInput, SqagBaseRead
  <2> QED
    BY <1>3, <2>1, <2>2, <2>3, ValidIs
<1>8. CASE v = "PLATFORM_ALLOWED_ORIGINS"
  <2>1. e.PLATFORM_ALLOWED_ORIGINS = << At(u, "none") >>
    BY <1>1, <1>4, <1>8 DEF RuntimeConfigRead, OriginsRead
  <2> QED
    BY <1>3, <1>8, <2>1, ValidIs
<1>9. CASE v \in Secrets
  <2>1. v = "PLATFORM_SQAG_SERVICE_SECRET" => Handoff(e)
    BY DEF Applies, HandoffOnly
  <2>2. e[v] = "long"
    BY <1>1, <1>9, <2>1 DEF Secrets, SecretsRead, AuthConfigRead
  <2> QED
    BY <1>9, <2>2, ValidIs
<1>10. CASE v \in Words
  BY <1>10, ValidIs
<1>11. CASE v \in DOMAIN Choices
  <2>1. e[v] # "absent" /\ e[v] \in Choices[v]
    <3>1. e[v] # "absent"
      BY <1>11, GivenIs
    <3>2. e[v] \in {"absent"} \cup Choices[v]
      BY <1>11, ValuesAre DEF Configured
    <3> QED
      BY <3>1, <3>2
  <2>2. CASE v = "PLATFORM_COOKIE_SECURE"
    <3>1. CookieSecure(e)
      BY <1>1 DEF RuntimeConfigRead, CookieRead
    <3>2. CookieValid(e)
      BY <2>2, <3>1 DEF CookieSecure, CookieValid
    <3> QED
      BY <2>2, <3>2, ValidIs
  <2>3. CASE v # "PLATFORM_COOKIE_SECURE"
    <3>1. v \in DOMAIN Passing
      BY <1>11, <2>3, VariablesAre
    <3>2. e[v] \in Passing[v]
      <4>1. /\ e["NODE_ENV"] = "production" /\ e["PLATFORM_HTTP_PORT"] # "invalid" /\ e["DATABASE_URL"] = "valid"
            /\ e["DATABASE_SSL_MODE"] # "other"
            /\ e["DATABASE_EXPECTED_RUNTIME_ROLE"] \in {"absent", "platform_runtime"}
            /\ e["PLATFORM_AUTH_PROVIDER_MODE"] = "generic_oidc" /\ e["AUTH_PROVIDER_KEY"] = "auth0"
            /\ e["PLATFORM_SQAG_LAUNCH_MODE"] # "other"
        BY <1>1 DEF Production, AuthEnabled, RuntimeConfigRead, DatabaseRead, DatabaseConfigRead, ExpectedRoleRead,
                    HostedAuthUrls, BootstrapInput
      <4>2. v \in {"NODE_ENV", "PLATFORM_HTTP_PORT", "DATABASE_URL", "DATABASE_SSL_MODE",
                   "DATABASE_EXPECTED_RUNTIME_ROLE", "PLATFORM_AUTH_PROVIDER_MODE", "AUTH_PROVIDER_KEY",
                   "PLATFORM_SQAG_LAUNCH_MODE"}
        BY <1>11, <2>3, VariablesAre
      <4>3. e[v] \in Choices[v]
        BY <2>1
      <4> QED
        BY <2>1, <4>1, <4>2, <4>3 DEF Passing, Choices
    <3> QED
      BY <3>1, <3>2, ValidIs
  <2> QED
    BY <2>2, <2>3
<1> QED
  BY <1>6, <1>7, <1>8, <1>9, <1>10, <1>11 DEF Variables

\* The dry-run check and the commands it stands in for judge alike.
LEMMA Judgements == ASSUME Configured(env) PROVE JudgementsAgree
<1>1. ReadinessOk(env) => ConfigurationAccepted(env) = ~OnlyStartRefuses
  <2>1. ReadinessOk(env) => (ConfigurationAccepted(env) <=> ~OnlyStartRefuses)
    BY CheckedStarts DEF OnlyStartRefuses
  <2>2. ConfigurationAccepted(env) \in BOOLEAN
    BY DEF ConfigurationAccepted
  <2>3. OnlyStartRefuses \in BOOLEAN
    BY DEF OnlyStartRefuses
  <2> QED
    BY <2>1, <2>2, <2>3
<1>2. ReadinessOk(env) /\ (\A v \in BootstrapOnly : Given(env, v)) => SeedStarts(env) = ~OnlySeedRefuses
  <2>1. ReadinessOk(env) /\ (\A v \in BootstrapOnly : Given(env, v)) => (SeedStarts(env) <=> ~OnlySeedRefuses)
    BY CheckedSeeds DEF OnlySeedRefuses
  <2>2. SeedStarts(env) \in BOOLEAN
    BY DEF SeedStarts
  <2>3. OnlySeedRefuses \in BOOLEAN
    BY DEF OnlySeedRefuses
  <2> QED
    BY <2>1, <2>2, <2>3
<1>3. ConfigurationAccepted(env) /\ Production(env) /\ AuthEnabled(env) =>
        ReadinessInvalid(env) \subseteq
          {"DATABASE_MIGRATIONS_CONFIRM", "PLATFORM_SEED_CONFIRM", "PLATFORM_SEED_BOOTSTRAP_MODE",
           "PLATFORM_SEED_MEMBERSHIP_ROLE"}
  BY StartedChecks
<1> QED
  BY <1>1, <1>2, <1>3 DEF JudgementsAgree

\* Whatever the operators made of the database and of the environment, and whatever
\* migrations made of that: the two checks of the table grants agree, the dry-run check
\* agrees with the commands it stands in for, readiness is said only of a database whose
\* migrations can go on, a report that is not ready names a failed check, and the two
\* verifications (src/src/db/readiness.ts) say the same.
THEOREM ReportsHold == Spec => []ReportsAgree
<1>1. Admission => ReportsAgree
  <2> SUFFICES ASSUME Admission
               PROVE  /\ GrantChecksAgree /\ JudgementsAgree
                      /\ LET fit == MigratorPosture(cat)
                         IN ReadyForMigrations(fit) /\ NotReadyNamesAFailure(fit) /\ VerificationsAgree(fit)
    BY DEF ReportsAgree
  <2>1. MigratorPosture(cat) \in BOOLEAN
    BY DEF MigratorPosture
  <2> DEFINE fit == MigratorPosture(cat)
  <2>2. fit \in BOOLEAN /\ (fit <=> MigratorPosture(cat))
    BY <2>1
  <2> HIDE DEF fit
  <2>3. ReadyForMigrations(fit) /\ NotReadyNamesAFailure(fit) /\ VerificationsAgree(fit)
    BY <2>2, Ready, ReportNames, Verifications DEF Admission
  <2> QED
    BY <2>3, GrantChecks, Judgements DEF Admission, fit
<1> QED
  BY <1>1, AdmissionHolds, PTL
=============================================================================
