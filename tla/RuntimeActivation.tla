------------------------- MODULE RuntimeActivation -------------------------
(***************************************************************************)
(* The activation of the database role the platform runs as                 *)
(* (src/scripts/platform-runtime-activation-contract.mjs): a wrapper, taken *)
(* as src/tests/platform-runtime-activation-postgres.test.mjs:262-440 runs  *)
(* it, goes through the phases of the journal; the mutation tracker issues   *)
(* one permit per changing phase, each against a fresh attestation of the    *)
(* provider; the password is installed by a psql in a container              *)
(* (DockerPsql), LOGIN enabled and the rollback run over the operator's      *)
(* pool.  Around it time passes, docker and the network fail, and the        *)
(* provider may move the endpoint to another branch of the database.         *)
(***************************************************************************)
EXTENDS DockerPsql

CONSTANTS
  Age,            \* maximumPhaseAttestationAgeMs, in ticks
  Validity,       \* how long an attestation is valid, in ticks
  MaxNow,         \* bound: the last tick
  MaxFaults,      \* bound: docker rm and docker ps rounds that fail
  Diverges        \* whether a docker client may die and leave its container at work

ASSUME ActivationAssumption ==
  /\ Age \in Nat \ {0} /\ Validity \in Nat \ {0} /\ MaxNow \in Nat
  /\ MaxFaults \in Nat /\ Diverges \in BOOLEAN

Permits == {"password", "login", "success", "rollback"}
Branches == {"approved", "other"}     \* what is behind the endpoint

VARIABLES
  now,        \* the clock
  branch,     \* the branch the endpoint leads to
  twin,       \* whether the other branch has the same SQL identity
  reboundAt,  \* when the provider moved the endpoint; MaxNow + 1: it has not
  role,       \* branch -> what ALTER ROLE left there
  d,          \* the psql call under way (DockerPsql)
  faults,     \* docker rounds that failed
  diverged,   \* a docker client died before its container
  tracker,    \* PlatformRuntimeActivationMutationTracker
  journal,    \* PlatformRuntimeActivationPhaseJournal
  att,        \* the provider attestation just created
  identity,   \* the SQL identity last read over the operator's pool
  pc,         \* where the wrapper is
  outcome     \* how it ended

world == <<branch, twin, reboundAt>>
activationVars == <<now, world, role, d, faults, diverged, tracker, journal, att, identity, pc, outcome>>

Dormant == [password |-> FALSE, login |-> FALSE]
NoPermit == [state |-> "none", expires |-> 0]

(***************************************************************************)
(* The provider and its attestations.                                       *)
(***************************************************************************)
SqlIdentity(b) == IF b = "other" /\ ~twin THEN "second" ELSE "first"

Observation == [at |-> now, branch |-> branch]
Expires(a) == a.at + Validity

\* matchingProviderAttestationValue with #acceptPhaseAttestation's options:
\* the same identity, unexpired, strictly newer than the last, not too old.
\* MUTANT of Acceptable: the identity of the endpoint is not compared.
AnyEndpoint(a) ==
  /\ now < Expires(a) /\ a.at > tracker.last /\ now - a.at <= Age

Acceptable(a) ==
  /\ a.branch = "approved"
  /\ now < Expires(a)
  /\ a.at > tracker.last
  /\ now - a.at <= Age

(***************************************************************************)
(* The mutation tracker.  A permit's "issued" and "consumed" stand for the   *)
(* pairs of flags #passwordPermitIssued, #loginPermitConsumed and so on.      *)
(***************************************************************************)
Issued(p) == tracker.permit[p].state # "none"
Consumed(p) == tracker.permit[p].state = "consumed"

MayIssue(p) ==
  /\ ~Issued(p)
  /\ CASE p = "password" -> tracker.validated # "none" /\ ~tracker.started
       [] p = "login"    -> tracker.started /\ ~tracker.failed /\ tracker.begun
       [] p = "success"  -> tracker.begun /\ Consumed("login")
       [] p = "rollback" -> tracker.begun /\ tracker.validated = identity

Issue(p) ==
  [tracker EXCEPT !.last = att.at,
                  !.permit[p] = [state |-> "issued", expires |-> Expires(att)]]

\* consumeRuntimeActivationPhasePermit
\* MUTANT of MayConsume: the deadline the permit carries is not checked again.
ConsumeAnytime(p) == tracker.permit[p].state = "issued"

MayConsume(p) ==
  tracker.permit[p].state = "issued" /\ now < tracker.permit[p].expires

\* Consumption, with what the permit's onConsume does.
\* MUTANT of Consume: the flag is left to the end of the installation.
ConsumeOnly(p) == [tracker EXCEPT !.permit[p].state = "consumed",
                                  !.started = @ \/ p = "password",
                                  !.begun = IF p = "success" THEN FALSE ELSE @]

Consume(p) ==
  [tracker EXCEPT !.permit[p].state = "consumed",
                  !.started = @ \/ p = "password",
                  !.begun = IF p = "password" THEN TRUE
                            ELSE IF p = "success" THEN FALSE ELSE @]

(***************************************************************************)
(* The journal.  The phases a wrapper passes one after the other are         *)
(* numbered 1 to 9; mandatory_rollback stands apart.                          *)
(***************************************************************************)
NewJournal == [next |-> 1, active |-> 0, failed |-> 0, rollback |-> "pending"]

StartPhase(j, phase) == [j EXCEPT !.active = phase]
Pass(j) == [j EXCEPT !.next = @ + 1, !.active = 0]
Fail(j) == [j EXCEPT !.failed = IF @ = 0 THEN j.active ELSE @, !.active = 0]

Ended(how) == pc' = <<"done">> /\ outcome' = how

\* The first failed phase: recorded, and the wrapper turns to its cleanup.
PhaseFails == journal' = Fail(journal) /\ pc' = <<"cleanup">>

(***************************************************************************)
(* The wrapper, phase by phase.                                              *)
(***************************************************************************)
Calm == UNCHANGED <<now, world, faults, diverged>>

ActivationInit ==
  /\ now = 0 /\ branch = "approved" /\ twin \in BOOLEAN /\ reboundAt = MaxNow + 1
  /\ role = [b \in Branches |-> Dormant]
  /\ d = NoCall /\ faults = 0 /\ diverged = FALSE
  /\ tracker = [validated |-> "none", last |-> 0, started |-> FALSE, failed |-> FALSE,
                begun |-> FALSE, permit |-> [p \in Permits |-> NoPermit]]
  /\ journal = NewJournal
  /\ att = [at |-> 0, branch |-> "approved"]          \* the planning attestation
  /\ identity = "none" /\ pc = <<"preflight">> /\ outcome = "none"

\* The dormant preflight and the operator's read of the fixture's identity,
\* then the probe of it through docker (readDockerPostgresFixtureIdentity).
Preflight ==
  /\ pc = <<"preflight">>
  /\ \E spawned \in BOOLEAN : d' = IF spawned THEN Started("probe") ELSE SpawnThrew("probe")
  /\ identity' = SqlIdentity(branch)
  /\ pc' = <<"probing">>
  /\ UNCHANGED <<role, tracker, journal, att, outcome>> /\ Calm

\* fixtureValidated: both identities agree and the planning attestation is
\* still valid; the journal passes its first phase and starts the second.
Validated ==
  /\ pc = <<"probing">> /\ d.settled # "no"
  /\ IF d.settled = "resolved" /\ d.said = identity /\ now < Expires(att)
     THEN /\ tracker' = [tracker EXCEPT !.validated = identity, !.last = att.at]
          /\ journal' = StartPhase(Pass(StartPhase(journal, 1)), 2)
          /\ pc' = <<"observe", "password">> /\ UNCHANGED outcome
     ELSE Ended("untouched") /\ UNCHANGED <<tracker, journal>>
  /\ d' = NoCall
  /\ UNCHANGED <<role, att, identity>> /\ Calm

\* A new official observation, or none: providerPhaseAttestation.
Observe(p) ==
  /\ pc = <<"observe", p>>
  /\ \/ att' = Observation /\ pc' = <<"authorise", p>> /\ UNCHANGED <<journal, outcome>>
     \/ /\ UNCHANGED att
        /\ IF p = "rollback" THEN Ended("manual") /\ UNCHANGED journal
           ELSE PhaseFails /\ UNCHANGED outcome
  /\ UNCHANGED <<role, d, tracker, identity>> /\ Calm

\* authorisePasswordInstallation, authoriseLoginEnablement,
\* authoriseSuccessFinalisation, assertRollbackFixture.
Authorise(p) ==
  /\ pc = <<"authorise", p>>
  /\ IF MayIssue(p) /\ Acceptable(att)
     THEN tracker' = Issue(p) /\ pc' = <<"use", p>> /\ UNCHANGED <<journal, outcome>>
     ELSE /\ IF p = "rollback" THEN Ended("manual") /\ UNCHANGED journal
             ELSE PhaseFails /\ UNCHANGED outcome
          /\ UNCHANGED tracker
  /\ UNCHANGED <<role, d, att, identity>> /\ Calm

\* installRuntimePasswordWithDocker consumes its permit and spawns psql.
Install ==
  /\ pc = <<"use", "password">>
  /\ IF MayConsume("password")
     THEN /\ tracker' = Consume("password")
          /\ \E spawned \in BOOLEAN :
               d' = IF spawned THEN Started("install") ELSE SpawnThrew("install")
          /\ pc' = <<"installing">> /\ UNCHANGED journal
     ELSE PhaseFails /\ UNCHANGED <<tracker, d>>
  /\ UNCHANGED <<role, att, outcome, identity>> /\ Calm

\* The installation settles: the wrapper reads the role's state over the pool,
\* or reports passwordInstallationFailed to the tracker.
Installed ==
  /\ pc = <<"installing">> /\ d.settled # "no"
  /\ IF d.settled = "resolved"
     THEN /\ UNCHANGED tracker
          /\ \/ role[branch].password /\ journal' = StartPhase(Pass(journal), 3)
                /\ pc' = <<"observe", "login">>
             \/ PhaseFails
     ELSE /\ tracker' = [tracker EXCEPT !.failed = TRUE, !.begun = d.settled = "failed"]
          /\ PhaseFails
  /\ UNCHANGED <<role, d, att, outcome, identity>> /\ Calm

\* buildRuntimeRoleStatement consumes the LOGIN permit; the statement is run
\* over the pool afterwards, and may be applied although its answer is lost.
BuildStatement(p) ==
  /\ p \in {"login", "rollback"} /\ pc = <<"use", p>>
  /\ IF MayConsume(p)
     THEN tracker' = Consume(p) /\ pc' = <<"run", p>> /\ UNCHANGED <<journal, outcome>>
     ELSE /\ IF p = "rollback" THEN Ended("manual") /\ UNCHANGED journal
             ELSE PhaseFails /\ UNCHANGED outcome
          /\ UNCHANGED tracker
  /\ UNCHANGED <<role, d, att, identity>> /\ Calm

RunLogin ==
  /\ pc = <<"run", "login">>
  /\ \E applied, answered \in BOOLEAN :
       /\ answered => applied
       /\ role' = IF applied THEN [role EXCEPT ![branch].login = TRUE] ELSE role
       /\ IF answered THEN journal' = StartPhase(Pass(journal), 4) /\ pc' = <<"verify">>
          ELSE PhaseFails
  /\ UNCHANGED <<d, tracker, att, outcome, identity>> /\ Calm

\* MUTANT of Verify: one phase too many is gone through.
VerifyOneMore ==
  /\ pc = <<"verify">>
  /\ role[branch] = [password |-> TRUE, login |-> TRUE]
  /\ journal' = StartPhase(Pass(journal), journal.active + 1)
  /\ pc' = IF journal.active = 9 THEN <<"observe", "success">> ELSE pc
  /\ UNCHANGED <<role, d, tracker, att, outcome, identity>> /\ Calm

\* The phases that only read: connection construction and establishment, the
\* identity, the SET ROLE posture, the grants and ownership.
Verify ==
  /\ pc = <<"verify">>
  /\ \/ role[branch] = [password |-> TRUE, login |-> TRUE]
        /\ journal' = StartPhase(Pass(journal), journal.active + 1)
        /\ pc' = IF journal.active = 8 THEN <<"observe", "success">> ELSE pc
     \/ PhaseFails
  /\ UNCHANGED <<role, d, tracker, att, outcome, identity>> /\ Calm

\* successFinalised, and notRequired("mandatory_rollback").
Finalise ==
  /\ pc = <<"use", "success">>
  /\ IF MayConsume("success")
     THEN /\ tracker' = Consume("success")
          /\ journal' = [Pass(journal) EXCEPT !.rollback = "not_required"]
          /\ Ended("activated")
     ELSE PhaseFails /\ UNCHANGED <<tracker, outcome>>
  /\ UNCHANGED <<role, d, att, identity>> /\ Calm

\* cleanupIfRequired: nothing to do unless a change may have begun; otherwise
\* the fixture's identity is read again over the pool, or cannot be.
Cleanup ==
  /\ pc = <<"cleanup">>
  /\ IF tracker.begun
     THEN /\ journal' = [journal EXCEPT !.rollback = "in_progress"]
          /\ \/ /\ identity' = SqlIdentity(branch)
                /\ pc' = <<"observe", "rollback">> /\ UNCHANGED outcome
             \/ Ended("manual") /\ UNCHANGED identity
     ELSE Ended("untouched") /\ UNCHANGED <<journal, identity>>
  /\ UNCHANGED <<role, d, tracker, att>> /\ Calm

RunRollback ==
  /\ pc = <<"run", "rollback">>
  /\ \E applied, answered \in BOOLEAN :
       /\ answered => applied
       /\ role' = IF applied THEN [role EXCEPT ![branch] = Dormant] ELSE role
       /\ IF answered
          THEN /\ tracker' = [tracker EXCEPT !.begun = FALSE]      \* rollbackCompleted
               /\ journal' = [journal EXCEPT !.rollback = "passed"]
               /\ Ended("rolled_back")
          ELSE /\ journal' = [journal EXCEPT !.rollback = "failed"]
               /\ Ended("manual") /\ UNCHANGED tracker
  /\ UNCHANGED <<d, att, identity>> /\ Calm

(***************************************************************************)
(* The clock, the provider and docker.                                       *)
(***************************************************************************)
Tick == now < MaxNow /\ now' = now + 1
        /\ UNCHANGED <<world, role, d, faults, diverged, tracker, journal, att, identity, pc, outcome>>

\* The provider moves the endpoint to another branch (a restore, say).
Rebind ==
  /\ branch = "approved" /\ branch' = "other" /\ reboundAt' = now
  /\ UNCHANGED <<now, twin, role, d, faults, diverged, tracker, journal, att, identity, pc, outcome>>

\* A step of the call under way that changes d alone.
Quiet == UNCHANGED <<now, world, role, tracker, journal, att, identity, pc, outcome>>
Call(x) == d' = x /\ UNCHANGED <<faults, diverged>> /\ Quiet

ClientAsks == d.client = "running" /\ d.container = "none"
              /\ Call([d EXCEPT !.container = "asked"])

DaemonMakes == d.container = "asked" /\ Call([d EXCEPT !.container = "made"])

ClientStarts == d.client = "running" /\ d.container = "made"
                /\ Call([d EXCEPT !.container = "psql"])

\* psql answers a probe; an installation it goes on with only on the fixture
\* its script names, and \quit 86 otherwise.
PsqlWorks ==
  /\ d.container = "psql"
  /\ IF d.job = "install" /\ SqlIdentity(branch) # tracker.validated
     THEN d' = [d EXCEPT !.container = "exited", !.code = "mismatch"] /\ UNCHANGED role
     ELSE /\ d' = [d EXCEPT !.container = "changed",
                            !.said = IF d.job = "probe" THEN SqlIdentity(branch) ELSE @]
          /\ role' = IF d.job = "install" THEN [role EXCEPT ![branch].password = TRUE]
                     ELSE role
  /\ UNCHANGED <<now, world, faults, diverged, tracker, journal, att, identity, pc, outcome>>

\* psql ends: well, or because the database or its connection failed.
PsqlExits ==
  /\ d.container \in {"psql", "changed"}
  /\ \E code \in IF d.container = "changed" THEN {"ok", "fail"} ELSE {"fail"} :
       Call([d EXCEPT !.container = "exited", !.code = code])

DaemonRemoves == d.container = "exited" /\ Call([d EXCEPT !.container = "gone"])   \* --rm

\* The client closes: with the container's code, because it never came to be, or
\* because it was signalled; or the daemon refuses it a container.
ClientCloses ==
  /\ Open(d)
  /\ \/ d.client = "running" /\ d.container \in {"exited", "gone"} /\ d.code # "unknown"
        /\ Call(CloseEvent(d, d.code))
     \/ (d.client = "unborn" \/ d.term) /\ Call(CloseEvent(d, "fail"))

ClientRefused == d.client = "running" /\ d.container = "none" /\ Call(CloseEvent(d, "fail"))

\* The client dies and leaves its container to itself.
ClientDies ==
  /\ Diverges /\ d.client = "running" /\ d.container \in {"asked", "made", "psql", "changed"}
  /\ d' = CloseEvent(d, "fail") /\ diverged' = TRUE /\ UNCHANGED faults /\ Quiet

SpawnFails == d.client = "running" /\ d.container = "none" /\ Call(SpawnErrorEvent(d))

TimeoutFires == d.timeout /\ \E signalled \in BOOLEAN : Call(TimeoutEvent(d, signalled))

\* stdin fails, or a probe says too much.
Trouble == d.client = "running" /\ ~d.term
           /\ \E signalled \in BOOLEAN : Call(TroubleEvent(d, signalled))

GraceFires == d.grace /\ Call(StartCleanupAttempt([d EXCEPT !.grace = FALSE]))

RetryFires == d.retries > 0 /\ Call(StartCleanupAttempt([d EXCEPT !.retries = @ - 1]))

\* A docker command of the cleanup works, or fails or times out.
Round(works, x) ==
  /\ works \/ faults < MaxFaults
  /\ d' = x /\ faults' = (IF works THEN faults ELSE faults + 1)
  /\ UNCHANGED diverged /\ Quiet

RmEnds == d.clean = "rm" /\ \E works \in BOOLEAN :
            Round(works, [(IF works THEN Removed(d) ELSE d) EXCEPT !.clean = "ps"])

PsEnds == d.clean = "ps" /\ \E works \in BOOLEAN :
            Round(works, VerificationDone(d, works /\ Absent(d)))

Docker ==
  \/ ClientAsks \/ DaemonMakes \/ ClientStarts \/ PsqlWorks \/ PsqlExits \/ DaemonRemoves
  \/ ClientCloses \/ ClientRefused \/ TimeoutFires \/ GraceFires \/ RetryFires \/ RmEnds \/ PsEnds

Wrapper ==
  \/ Preflight \/ Validated \/ Install \/ Installed \/ RunLogin \/ Verify \/ Finalise
  \/ Cleanup \/ RunRollback
  \/ \E p \in Permits : Observe(p) \/ Authorise(p) \/ BuildStatement(p)

ActivationNext == Wrapper \/ Docker \/ Tick \/ Rebind \/ ClientDies \/ SpawnFails \/ Trouble

ActivationSpec == ActivationInit /\ [][ActivationNext]_activationVars

\* The event loop runs its callbacks and timers; a client that was sent SIGKILL
\* closes; docker's commands end.  Nothing else need happen.
ActivationFairSpec ==
  /\ ActivationSpec
  /\ WF_activationVars(Wrapper) /\ WF_activationVars(ClientCloses)
  /\ WF_activationVars(TimeoutFires) /\ WF_activationVars(GraceFires) /\ WF_activationVars(RetryFires)
  /\ WF_activationVars(RmEnds) /\ WF_activationVars(PsEnds)

(***************************************************************************)
(* Properties.                                                               *)
(***************************************************************************)
\* Types, and the number of cleanup rounds one call can come to.
ActivationTypeOK ==
  /\ now \in 0..MaxNow /\ branch \in Branches /\ twin \in BOOLEAN
  /\ reboundAt \in 0..MaxNow + 1
  /\ role \in [Branches -> [password: BOOLEAN, login: BOOLEAN]]
  /\ d \in CallType /\ faults \in 0..MaxFaults /\ diverged \in BOOLEAN
  /\ tracker \in [validated: {"none", "first", "second"}, last: 0..MaxNow,
                  started: BOOLEAN, failed: BOOLEAN, begun: BOOLEAN,
                  permit: [Permits -> [state: {"none", "issued", "consumed"},
                                       expires: 0..MaxNow + Validity]]]
  /\ journal \in [next: 1..10, active: 0..9, failed: 0..9,
                  rollback: {"pending", "in_progress", "passed", "failed", "not_required"}]
  /\ att \in [at: 0..MaxNow, branch: Branches]
  /\ identity \in {"none", "first", "second"}
  /\ outcome \in {"none", "untouched", "activated", "rolled_back", "manual"}

\* Whatever became of psql, its client and its container: while the role is not
\* as it was found and the attempt has neither been finalised nor rolled back,
\* the tracker says that a change may have begun - no failure of the
\* installation loses a password that was set (passwordInstallationFailed and
\* the error flag, 231-239 and 1193-1280).
ChangesTracked ==
  (\E b \in Branches : role[b] # Dormant) /\ outcome \notin {"activated", "rolled_back"}
    => tracker.begun

\* A call that was terminated settles only when its psql has stopped and none
\* can start any more: neither the client nor the daemon has one left to run
\* (createConfirmedDockerTermination).
SettledIsDead == d.term /\ d.settled # "no" => ~MayStillRun(d)

\* What the wrapper reports is what the database holds, when the endpoint
\* stayed where it was and no container outlived its client: an activated
\* role has its password and its LOGIN, an attempt reported as rolled back or
\* as never begun left neither.
OutcomeIsTrue ==
  reboundAt > MaxNow /\ ~diverged =>
    /\ outcome = "activated" => role["approved"] = [password |-> TRUE, login |-> TRUE]
    /\ outcome \in {"rolled_back", "untouched"} => role["approved"] = Dormant

\* An endpoint moved to another branch is noticed before a permit granted
\* earlier outlives its evidence: no permit is consumed with the other branch
\* behind the endpoint for as long as an attestation is valid.
DriftWindow ==
  [][\A p \in Permits : ~Consumed(p) /\ Consumed(p)' /\ branch = "other"
       => now - reboundAt < Validity]_activationVars

\* All of it: what an attempt may say and do at any step.
ActivationSafe == [](ActivationTypeOK /\ ChangesTracked /\ SettledIsDead /\ OutcomeIsTrue) /\ DriftWindow

\* While docker's commands fail at least three times fewer than the cleanup is
\* tried, the attempt comes to an end and no call is left unsettled for ever.
\* An attempt is spent when the container is found absent before the client has
\* closed, another when the daemon makes it after its removal was tried.
AttemptEnds == <>(outcome # "none")
=============================================================================
