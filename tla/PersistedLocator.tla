--------------------------- MODULE PersistedLocator ---------------------------
(***************************************************************************)
(* The adapter that finds the one persisted backup to restore              *)
(* (src/scripts/platform-persisted-locator-adapter.py).  It answers one    *)
(* request.  It starts psql in a container, writes it a first command that *)
(* echoes a marker, and only when exactly that marker came back in time    *)
(* does it write the one query; three daemon threads (two readers, the     *)
(* writer of the first command) tell the main thread what happened through *)
(* a bounded queue of events.  Nothing the client sees proves that the     *)
(* database is done with the query, so after a failure the main thread     *)
(* waits until the timeouts the session was opened with have run out.      *)
(*                                                                         *)
(* psql and PostgreSQL are external: psql may print anything, fail or hang *)
(* at any time; PostgreSQL ends a session that is idle for longer than I   *)
(* and a statement that runs for longer than S.  Time is in ticks since    *)
(* psql was started.                                                       *)
(***************************************************************************)
EXTENDS Naturals, Sequences

CONSTANTS
  R,           \* time to become ready
  I,           \* idle_session_timeout, and time to connect
  S,           \* statement_timeout
  MARGIN,
  QueueMax,    \* EVENT_QUEUE_MAX
  MaxRows      \* bound: schedules and executions that match the query

ASSUME TimesAssumption == R \in Nat \ {0} /\ I \in Nat /\ S \in Nat /\ MARGIN \in Nat \ {0}
ASSUME QueueAssumption == QueueMax \in Nat \ {0} /\ MaxRows \in Nat \ {0}

VARIABLES
  phase,      \* where the main thread is
  now,        \* ticks since psql was started
  captures,   \* what the main thread has seen
  outcome,    \* what execute_operation returned
  frames,     \* the public frames written
  events,     \* the queue between the threads and the main thread
  readers,    \* for each channel: what is in the pipe, and whether its reader goes on
  phase1,     \* the first command: "unwritten", or what write_once said of it
  psql,       \* the client process
  session     \* its database session

vars == <<phase, now, captures, outcome, frames, events, readers, phase1, psql, session>>

T_HOST == R + 2 * I + S + MARGIN

Channels == {"stdout", "stderr"}
Statuses == {"pending", "ok", "short", "error"}

\* What psql prints on stdout, as pieces that a read may separate: the two
\* halves of the marker, the two halves of an answer, anything else, and more
\* than a capture holds.
Pieces == {"mar", "ker", "ans", "wer", "other", "flood"}
Marker == <<"mar", "ker">>

Classes == {"ZERO_ROW_MATCH", "MULTIPLE_ROW_MATCH", "PRIVATE_LOCATOR_MISSING", "EXACTLY_ONE"}
Failures == {"QUERY_NOT_EXECUTED", "QUERY_FAILED"}

\* What matches the query: schedules, executions of theirs, and whether the
\* execution's file has a name.
Rows == [schedules : 0..MaxRows, executions : 0..MaxRows, named : BOOLEAN]
NoRows == [schedules |-> 0, executions |-> 0, named |-> FALSE]

NothingSeen ==
  [stdout |-> <<>>, stderr |-> FALSE, overflow |-> FALSE, writer |-> "pending",
   outEof |-> FALSE, errEof |-> FALSE, processFailed |-> FALSE,
   started |-> FALSE, postFailure |-> FALSE]

Init ==
  /\ phase = "read"
  /\ now = 0
  /\ captures = NothingSeen
  /\ outcome = "none"
  /\ frames = <<>>
  /\ events = <<>>
  /\ readers = [ch \in Channels |-> [pipe |-> <<>>, on |-> TRUE]]
  /\ phase1 = "unwritten"
  /\ psql = [st |-> "none", reads |-> <<>>, answered |-> FALSE, noise |-> FALSE]
  /\ session = [st |-> "none", since |-> 0, rows |-> NoRows]

-----------------------------------------------------------------------------
\* Time, psql and PostgreSQL (external)

\* The server ends an idle session and a statement in time: the clock does
\* not pass the moment at which it must.
InTime ==
  /\ session.st = "idle" => now < session.since + I
  /\ session.st = "running" => now < session.since + S

Tick ==
  /\ phase \in {"ready", "accepted", "drain", "bound"}
  /\ now <= T_HOST
  /\ InTime
  /\ now' = now + 1
  /\ UNCHANGED <<phase, captures, outcome, frames, events, readers, phase1, psql, session>>

Alive == psql.st = "running"

Write(ch, pieces) ==
  readers' = [readers EXCEPT ![ch].pipe = @ \o pieces]

World == <<phase, now, captures, outcome, frames, events, phase1>>

Connect ==
  /\ Alive
  /\ session.st = "none"
  /\ now <= I
  /\ session' = [session EXCEPT !.st = "idle", !.since = now]
  /\ UNCHANGED <<World, psql, readers>>

\* \echo is psql's own: the session stays idle.
EchoMarker ==
  /\ Alive
  /\ session.st = "idle"
  /\ psql.reads # <<>> /\ Head(psql.reads) = "echo"
  /\ psql' = [psql EXCEPT !.reads = Tail(@)]
  /\ Write("stdout", Marker)
  /\ UNCHANGED <<World, session>>

RunStatement ==
  /\ Alive
  /\ session.st = "idle"
  /\ psql.reads # <<>> /\ Head(psql.reads) = "select"
  /\ psql' = [psql EXCEPT !.reads = Tail(@)]
  /\ session' = [session EXCEPT !.st = "running", !.since = now]
  /\ UNCHANGED <<World, readers>>

\* CASE WHEN count(*) > 1 THEN 2 ELSE count(*) END
Capped(n) == IF n > 1 THEN 2 ELSE n

\* The locator query: counts that stop at 2, and the identity of the backup
\* only where there is one schedule and one execution; the file name of that
\* one may be empty.
LocatorQuery(rows) ==
  [schedules |-> Capped(rows.schedules),
   executions |-> Capped(rows.executions),
   private |-> IF Capped(rows.schedules) = 1 /\ Capped(rows.executions) = 1
                 THEN (IF rows.named THEN "all" ELSE "some") ELSE "none"]

StatementAnswers ==
  /\ Alive
  /\ session.st = "running"
  /\ \E rows \in Rows :
       /\ rows.schedules = 0 => rows.executions = 0   \* an execution is of a schedule
       /\ rows.named => rows.schedules = 1 /\ rows.executions = 1   \* nobody asks otherwise
       /\ session' = [st |-> "idle", since |-> now, rows |-> rows]
  /\ psql' = [psql EXCEPT !.answered = TRUE]
  /\ Write("stdout", <<"ans", "wer">>)
  /\ UNCHANGED World

\* \q, or end of input.
Quit ==
  /\ Alive
  /\ session.st = "idle"
  /\ psql.reads # <<>> /\ Head(psql.reads) = "quit"
  /\ psql' = [psql EXCEPT !.st = "exited"]
  /\ session' = [session EXCEPT !.st = "over"]
  /\ UNCHANGED <<World, readers>>

\* psql fails, and says so on stderr or not.  PostgreSQL goes on with the
\* statement of a client that is gone.
Fail ==
  /\ Alive
  /\ psql' = [psql EXCEPT !.st = "failed"]
  /\ session' = [session EXCEPT !.st = IF @ \in {"idle", "none"} THEN "over" ELSE @]
  /\ \/ Write("stderr", <<"other">>)
     \/ UNCHANGED readers
  /\ UNCHANGED World

\* Something nobody asked for is printed, once.
Noise ==
  /\ Alive
  /\ ~psql.noise
  /\ psql' = [psql EXCEPT !.noise = TRUE]
  /\ \/ \E piece \in {"other", "flood"} : Write("stdout", <<piece>>)
     \/ Write("stderr", <<"other">>)
  /\ UNCHANGED <<World, session>>

\* A timeout of the session: idle_session_timeout or statement_timeout.
TimeOut ==
  /\ \/ session.st = "idle" /\ now >= session.since + I
     \/ session.st = "running" /\ now >= session.since + S
  /\ session' = [session EXCEPT !.st = "over"]
  /\ UNCHANGED <<World, readers, psql>>

External ==
  \/ Connect \/ EchoMarker \/ RunStatement \/ StatementAnswers \/ Quit \/ Fail
  \/ Noise \/ TimeOut

-----------------------------------------------------------------------------
\* The daemon threads

\* MUTANT of Room: the queue has no limit.
RoomAlways == phase \in {"ready", "accepted", "drain", "bound"}

\* put() blocks while the queue is full; what the threads do once the main
\* thread has its outcome changes nothing.
Room ==
  /\ phase \in {"ready", "accepted", "drain", "bound"}
  /\ Len(events) < QueueMax

\* _reader_worker: a chunk, or the end of the file and of the thread.  The
\* pipe ends when psql does.
Read(ch) ==
  /\ readers[ch].on
  /\ Room
  /\ IF readers[ch].pipe # <<>>
       THEN /\ \E n \in 1..Len(readers[ch].pipe) :
                 /\ events' = Append(events, [ch |-> ch, is |-> "data", data |-> SubSeq(readers[ch].pipe, 1, n)])
                 /\ readers' = [readers EXCEPT ![ch].pipe = SubSeq(@, n + 1, Len(@))]
       ELSE /\ psql.st \in {"exited", "failed"}
            /\ events' = Append(events, [ch |-> ch, is |-> "eof", data |-> <<>>])
            /\ readers' = [readers EXCEPT ![ch].on = FALSE]
  /\ UNCHANGED <<phase, now, captures, outcome, frames, phase1, psql, session>>

ReadError(ch) ==
  /\ readers[ch].on
  /\ Room
  /\ events' = Append(events, [ch |-> ch, is |-> "error", data |-> <<>>])
  /\ readers' = [readers EXCEPT ![ch].on = FALSE]
  /\ UNCHANGED <<phase, now, captures, outcome, frames, phase1, psql, session>>

\* _writer_worker: write_once, one attempt at the first command.
WritePhase1 ==
  /\ phase1 = "unwritten"
  /\ Room
  /\ \E status \in Statuses \ {"pending"} :
       /\ phase1' = status
       /\ events' = Append(events, [ch |-> "phase1", is |-> status, data |-> <<>>])
       /\ psql' = IF status = "ok" THEN [psql EXCEPT !.reads = Append(@, "echo")] ELSE psql
  /\ UNCHANGED <<phase, now, captures, outcome, frames, readers, session>>

Threads == WritePhase1 \/ \E ch \in Channels : Read(ch) \/ ReadError(ch)

-----------------------------------------------------------------------------
\* The main thread

\* A request is read, or it is malformed, late or has trailing input.
ReadRequest ==
  /\ phase = "read"
  /\ \/ phase' = "spawn" /\ frames' = <<"STARTED">>
     \/ phase' = "done" /\ frames' = <<"QUERY_NOT_EXECUTED">>
  /\ UNCHANGED <<now, captures, outcome, events, readers, phase1, psql, session>>

\* MUTANT of FailureOf: what is failed is judged by what was answered.
FailureUnanswered(seen) == IF Len(seen.stdout) > 2 THEN "QUERY_FAILED" ELSE "QUERY_NOT_EXECUTED"

\* failure_classification
FailureOf(seen) == IF seen.started THEN "QUERY_FAILED" ELSE "QUERY_NOT_EXECUTED"

\* execute_operation returns; its finally clause closes the pipes and kills
\* psql, which is no news of the session.
Finish(seen, result) ==
  /\ outcome' = result
  /\ phase' = "answer"
  /\ captures' = seen
  /\ psql' = IF psql.st = "none" THEN psql
             ELSE [psql EXCEPT !.st = IF @ = "exited" THEN @ ELSE "failed"]
  /\ session' = [session EXCEPT !.st = IF @ \in {"idle", "none"} THEN "over" ELSE @]
  /\ readers' = [ch \in Channels |-> [readers[ch] EXCEPT !.on = FALSE]]

Spawn ==
  /\ phase = "spawn"
  /\ \/ /\ phase' = "ready"
        /\ psql' = [psql EXCEPT !.st = "running"]
        /\ UNCHANGED <<captures, outcome, readers, session>>
     \/ Finish(captures, "QUERY_NOT_EXECUTED")
  /\ UNCHANGED <<now, frames, events, phase1>>

\* CaptureSet.append, and the flags the end of a channel sets.
Taken(seen, event) ==
  CASE event.ch = "phase1" -> [seen EXCEPT !.writer = event.is]
    [] event.ch = "stderr" ->
         (CASE event.is = "eof"   -> [seen EXCEPT !.errEof = TRUE]
            [] event.is = "error" -> seen
            [] event.is = "data"  -> [seen EXCEPT !.stderr = TRUE])
    [] event.ch = "stdout" ->
         (CASE event.is = "eof"   -> [seen EXCEPT !.outEof = TRUE]
            [] event.is = "error" -> seen
            [] event.is = "data"  -> [seen EXCEPT
                 !.stdout = @ \o event.data,
                 !.overflow = @ \/ \E k \in DOMAIN event.data : event.data[k] = "flood"])

Exited == psql.st \in {"exited", "failed"}

IsPrefixOfMarker(pieces) == pieces \in {<<>>, <<"mar">>, Marker}

\* AdmissionState.step
Refused(seen) ==
  \/ seen.stderr \/ seen.overflow \/ seen.processFailed
  \/ seen.writer \in {"short", "error"}
  \/ ~IsPrefixOfMarker(seen.stdout)
  \/ now >= R

Accepted(seen) == ~Refused(seen) /\ seen.stdout = Marker /\ seen.writer = "ok"

\* One turn of the readiness loop that takes an event.  A channel that ends or
\* fails, and a psql that has exited, refuse.
AwaitReady ==
  /\ phase = "ready"
  /\ now < R
  /\ events # <<>>
  /\ events' = Tail(events)
  /\ LET event == Head(events)
         seen == [Taken(captures, event) EXCEPT
                    !.processFailed = \/ captures.processFailed \/ Exited
                                      \/ event.is = "error"
                                      \/ event.ch = "stdout" /\ event.is = "eof"]
     IN \/ /\ Accepted(seen)
           /\ phase' = "accepted"
           /\ captures' = [seen EXCEPT !.started = TRUE]
           /\ UNCHANGED <<outcome, readers, psql, session>>
        \/ /\ ~Accepted(seen) /\ Refused(seen)
           /\ Finish(seen, FailureOf(seen))
        \/ /\ ~Accepted(seen) /\ ~Refused(seen)
           /\ captures' = seen
           /\ UNCHANGED <<phase, outcome, readers, psql, session>>
  /\ UNCHANGED <<now, frames, phase1>>

NotReady ==
  /\ phase = "ready"
  /\ now >= R
  /\ Finish(captures, FailureOf(captures))
  /\ UNCHANGED <<now, frames, events, phase1>>

\* The query and \q are written in one attempt.  A short or failed write may
\* have left the whole query in the pipe.
WritePhase2 ==
  /\ phase = "accepted"
  /\ phase' = "drain"
  /\ \E status \in Statuses \ {"pending"} :
       /\ captures' = [captures EXCEPT !.postFailure = status # "ok"]
       /\ \/ psql' = [psql EXCEPT !.reads = @ \o <<"select", "quit">>]
          \/ status # "ok" /\ psql' = [psql EXCEPT !.reads = Append(@, "select")]
          \/ status # "ok" /\ UNCHANGED psql
  /\ UNCHANGED <<now, outcome, frames, events, readers, phase1, session>>

\* MUTANT of CleanEnd: psql's exit status is enough.
ExitedClean(seen) == psql.st = "exited" /\ ~seen.postFailure

\* Both channels ended, psql exited with 0 and nothing went wrong.
CleanEnd(seen) == seen.outEof /\ seen.errEof /\ psql.st = "exited" /\ ~seen.postFailure

Watched(seen) ==
  [seen EXCEPT !.postFailure = @ \/ seen.stderr \/ seen.overflow \/ psql.st = "failed"]

\* One turn of the loop after the query: a failure is noted and the loop goes
\* on to the deadline.
Drain ==
  /\ phase = "drain"
  /\ now < T_HOST
  /\ ~CleanEnd(captures)
  /\ events # <<>>
  /\ events' = Tail(events)
  /\ captures' = [Watched(Taken(captures, Head(events))) EXCEPT
                    !.postFailure = @ \/ Head(events).is = "error"]
  /\ UNCHANGED <<phase, now, outcome, frames, readers, phase1, psql, session>>

\* extract_after_ready_marker and parse_selector_output: exactly one line.
Parsed(seen) == SubSeq(seen.stdout, 3, Len(seen.stdout)) = <<"ans", "wer">>

\* classify_selector_details: the counts decide, and the identity must be
\* there in full or, for one match, be reported missing.
Classified(answer) ==
  IF answer.schedules # 1
  THEN IF answer.schedules = 0 THEN "ZERO_ROW_MATCH" ELSE "MULTIPLE_ROW_MATCH"
  ELSE IF answer.executions # 1
  THEN IF answer.executions = 0 THEN "ZERO_ROW_MATCH" ELSE "MULTIPLE_ROW_MATCH"
  ELSE IF answer.private = "all" THEN "EXACTLY_ONE" ELSE "PRIVATE_LOCATOR_MISSING"

\* MUTANT of EndDrain: a failed query is answered at once.
EndDrainAtOnce ==
  /\ phase = "drain"
  /\ \/ CleanEnd(captures) /\ Parsed(captures)
        /\ Finish(captures, Classified(LocatorQuery(session.rows)))
     \/ (captures.postFailure \/ now >= T_HOST) /\ Finish(captures, FailureOf(captures))
  /\ UNCHANGED <<now, frames, events, phase1>>

\* MUTANT of EndDrain: the loop goes on until psql has ended clean.
EndDrainClean ==
  /\ phase = "drain"
  /\ CleanEnd(captures) /\ Parsed(captures)
  /\ Finish(captures, Classified(LocatorQuery(session.rows)))
  /\ UNCHANGED <<now, frames, events, phase1>>

\* The loop ends clean, or at the deadline, which is a failure whatever came.
EndDrain ==
  /\ phase = "drain"
  /\ \/ /\ now < T_HOST /\ CleanEnd(captures) /\ Parsed(captures)
        /\ Finish(captures, Classified(LocatorQuery(session.rows)))
     \/ /\ now < T_HOST /\ CleanEnd(captures) /\ ~Parsed(captures)
        /\ phase' = "bound"
        /\ UNCHANGED <<captures, outcome, readers, psql, session>>
     \/ /\ now >= T_HOST
        /\ Finish(captures, FailureOf(captures))
  /\ UNCHANGED <<now, frames, events, phase1>>

\* _wait_through_database_bound: events are thrown away until the deadline.
WaitThroughBound ==
  /\ phase = "bound"
  /\ \/ /\ now < T_HOST /\ events # <<>>
        /\ events' = Tail(events)
        /\ UNCHANGED <<phase, captures, outcome, readers, psql, session>>
     \/ /\ now >= T_HOST
        /\ Finish(captures, FailureOf(captures))
        /\ UNCHANGED events
  /\ UNCHANGED <<now, frames, phase1>>

\* The one terminal frame.
WriteAnswer ==
  /\ phase = "answer"
  /\ phase' = "done"
  /\ frames' = Append(frames, outcome)
  /\ UNCHANGED <<now, captures, outcome, events, readers, phase1, psql, session>>

Main ==
  \/ ReadRequest \/ Spawn \/ AwaitReady \/ NotReady \/ WritePhase2 \/ Drain
  \/ EndDrain \/ WaitThroughBound \/ WriteAnswer

Next == Main \/ Threads \/ External \/ Tick

Spec == Init /\ [][Next]_vars

\* The main thread is scheduled, and time passes: PostgreSQL keeps its
\* timeouts.  Nothing is assumed of psql or of the threads.
FairSpec == Spec /\ WF_vars(Main) /\ WF_vars(Tick) /\ WF_vars(TimeOut)

-----------------------------------------------------------------------------
\* Properties

\* The state has the types of the adapter's dataclasses and constants.
TypeOK ==
  /\ phase \in {"read", "spawn", "ready", "accepted", "drain", "bound", "answer", "done"}
  /\ now \in 0..(T_HOST + 1)
  /\ Len(events) <= QueueMax
  /\ captures.writer \in Statuses
  /\ outcome \in Classes \cup Failures \cup {"none"}
  /\ session.rows \in Rows
  /\ Len(frames) <= 2

\* QUERY_NOT_EXECUTED, on the wire, is a promise: the statement did not reach
\* the database and never will, whatever the threads have still in hand.
NotExecutedIsTrue ==
  outcome = "QUERY_NOT_EXECUTED" =>
    /\ session.st # "running"
    /\ ~psql.answered
    /\ \A k \in DOMAIN psql.reads : psql.reads[k] # "select"

\* An answer is given only when the database is done with the query: after
\* it, a restore may begin without a statement of the locator under way.
AnsweredOnceOver == outcome # "none" => session.st = "over"

\* A result is what the database counted, of a psql that ended clean: not the
\* beginning of an answer, nor one that came with an error.
ResultIsTheDatabases ==
  outcome \in Classes =>
    /\ psql.st = "exited" /\ psql.answered
    /\ readers["stderr"].pipe = <<>> /\ readers["stdout"].pipe = <<>>
    /\ ~captures.stderr /\ captures.stdout = Marker \o <<"ans", "wer">>
    /\ outcome = "EXACTLY_ONE" <=>
         session.rows = [schedules |-> 1, executions |-> 1, named |-> TRUE]

\* Whatever psql, its threads and the clock do, an answer is true.
AnswersAreTrue == TypeOK /\ NotExecutedIsTrue /\ AnsweredOnceOver /\ ResultIsTheDatabases

\* Every request is answered, though psql hang and its threads stop.
EveryRequestAnswered == <>(phase = "done")

=============================================================================
