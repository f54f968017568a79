----------------------------- MODULE DockerPsql -----------------------------
(***************************************************************************)
(* One psql run in a container of its own, as the activation contract       *)
(* starts and ends it (src/scripts/platform-runtime-activation-contract.mjs *)
(* 866-1310): the docker client it spawned, the container the daemon keeps, *)
(* the timers, and the termination that settles the call only once both the *)
(* client and the container are known to be gone.  A call is the record d;  *)
(* the operators here are its handlers, and the module that owns the        *)
(* variable d makes actions of them.                                        *)
(***************************************************************************)
EXTENDS Naturals, FiniteSets

CONSTANT Attempts      \* terminationAttempts: docker rm + docker ps rounds that are scheduled

ASSUME AttemptsAssumption == Attempts \in Nat \ {0}

Jobs == {"probe", "install"}   \* runReadOnlyDockerPsql, runMutationCapableDockerPsql

\* "asked": the daemon was asked for the container and has not made it yet.
\* "changed": psql has run its statement and has not exited yet.
Containers == {"none", "asked", "made", "psql", "changed", "exited", "gone"}

Codes == {"unknown", "ok", "mismatch", "fail"}    \* mismatch: exit code 86

\* "unborn": the client could not be spawned; its close event is to come.
Open(x) == x.client \in {"unborn", "running"}

NoCall == [job |-> "none", client |-> "none", container |-> "none", code |-> "unknown",
           term |-> FALSE, clean |-> "idle", attempts |-> 0, retries |-> 0,
           timeout |-> FALSE, grace |-> FALSE, succeeded |-> FALSE,
           flag |-> TRUE, said |-> "none", settled |-> "no"]

CallType ==
  [job: Jobs \cup {"none"}, client: {"none", "unborn", "running", "closed"},
   container: Containers, code: Codes, term: BOOLEAN,
   clean: {"idle", "rm", "ps", "confirmed"}, attempts: 0..Attempts + 2, retries: 0..2,
   timeout: BOOLEAN, grace: BOOLEAN, succeeded: BOOLEAN,
   flag: BOOLEAN,                  \* terminationMutationMayHaveBegun
   said: {"none", "first", "second"},   \* the SQL identity a probe has read
   settled: {"no", "resolved", "failed", "failed_clean"}]

\* finish: the first settlement counts.  A rejection carries whether a change
\* of the database may have begun ("failed") or not ("failed_clean").
Finish(x, error, mayHaveBegun) ==
  IF x.settled # "no" THEN x
  ELSE [x EXCEPT !.timeout = FALSE,
                 !.settled = IF ~error THEN "resolved"
                             ELSE IF mayHaveBegun THEN "failed" ELSE "failed_clean"]

OnConfirmed(x) ==
  IF x.job = "probe" THEN Finish(x, ~x.succeeded, FALSE) ELSE Finish(x, TRUE, x.flag)

StartCleanupAttempt(x) ==
  IF x.clean # "idle" THEN x
  ELSE [x EXCEPT !.clean = "rm", !.attempts = @ + 1]

ScheduleCleanupRetry(x) ==
  [x EXCEPT !.clean = "idle", !.retries = IF x.attempts >= Attempts THEN @ ELSE @ + 1]

\* begin: SIGTERM and a grace period, or, when the client is gone or cannot
\* be signalled, SIGKILL and the removal at once.
Begin(x, signalled) ==
  IF x.term \/ x.clean = "confirmed" THEN x
  ELSE IF x.client = "running" /\ signalled
       THEN [x EXCEPT !.term = TRUE, !.grace = TRUE]
       ELSE StartCleanupAttempt([x EXCEPT !.term = TRUE])

ChildDidClose(x) ==
  LET closed == [x EXCEPT !.client = "closed"]
  IN IF ~x.term THEN closed
     ELSE StartCleanupAttempt([closed EXCEPT !.grace = FALSE])

ConfirmAbsence(x) ==
  IF x.term \/ x.clean = "confirmed" THEN x
  ELSE [x EXCEPT !.term = TRUE, !.clean = "ps"]

\* verificationDone: absence counts only once the client has closed, for a
\* client that lives may still ask for the container.
\* MUTANT of VerificationDone: absence is believed while the client lives.
AbsentIsEnough(x, absent) ==
  IF absent THEN OnConfirmed([x EXCEPT !.clean = "confirmed"])
  ELSE ScheduleCleanupRetry(x)

\* MUTANT of VerificationDone: an inconclusive round is the last one.
GivesUp(x, absent) ==
  IF absent /\ ~Open(x)
  THEN OnConfirmed([x EXCEPT !.clean = "confirmed", !.grace = FALSE, !.retries = 0])
  ELSE [x EXCEPT !.clean = "idle"]

VerificationDone(x, absent) ==
  IF absent /\ ~Open(x)
  THEN OnConfirmed([x EXCEPT !.clean = "confirmed", !.grace = FALSE, !.retries = 0])
  ELSE IF absent THEN [x EXCEPT !.clean = "idle"]
  ELSE ScheduleCleanupRetry(x)

\* The client's close event, with the code it closes with.  A password
\* installation nobody is terminating settles at once; a probe first has the
\* daemon asked whether the container is gone.
\* MUTANT of CloseEvent: every failure is reported as before any change.
CloseNeverBegun(x, code) ==
  LET closed == ChildDidClose(x)
  IN IF x.job = "install"
     THEN IF closed.term THEN closed ELSE Finish(closed, code # "ok", FALSE)
     ELSE LET ended == [closed EXCEPT !.succeeded = ~closed.term /\ code = "ok"]
          IN IF ended.succeeded THEN ConfirmAbsence(ended) ELSE Begin(ended, FALSE)

CloseEvent(x, code) ==
  LET closed == ChildDidClose(x)
  IN IF x.job = "install"
     THEN IF closed.term THEN closed ELSE Finish(closed, code # "ok", code # "mismatch")
     ELSE LET ended == [closed EXCEPT !.succeeded = ~closed.term /\ code = "ok"]
          IN IF ended.succeeded THEN ConfirmAbsence(ended) ELSE Begin(ended, FALSE)

\* The timeout, an error of the client's stdin and too much output all end the
\* call; a client that could not be spawned has changed nothing.
TimeoutEvent(x, signalled) ==
  Begin([x EXCEPT !.timeout = FALSE, !.succeeded = FALSE, !.flag = TRUE], signalled)

TroubleEvent(x, signalled) ==
  Begin([x EXCEPT !.succeeded = FALSE, !.flag = TRUE], signalled)

SpawnErrorEvent(x) ==
  LET unborn == [x EXCEPT !.client = "unborn", !.succeeded = FALSE]
  IN IF x.term THEN unborn ELSE Begin([unborn EXCEPT !.flag = FALSE], FALSE)

\* The call's first step: the client is spawned, or spawn itself throws - which
\* a probe answers with a termination without a client, an installation with
\* an error that says a change may have begun (the catch of installRuntimePasswordWithDocker).
Started(job) == [NoCall EXCEPT !.job = job, !.client = "running", !.timeout = TRUE]

SpawnThrew(job) ==
  IF job = "probe" THEN Begin([NoCall EXCEPT !.job = job], FALSE)
  ELSE [NoCall EXCEPT !.job = job, !.settled = "failed"]

Absent(x) == x.container \in {"none", "asked", "gone"}     \* what docker ps --all shows

Removed(x) ==                                              \* what docker rm --force leaves
  [x EXCEPT !.container = IF Absent(x) THEN @ ELSE "gone"]

\* psql is at work, or nothing stands in the way of its starting.
MayStillRun(x) ==
  \/ x.container = "psql"
  \/ x.client = "running" /\ x.container \in {"none", "asked", "made"}
=============================================================================
