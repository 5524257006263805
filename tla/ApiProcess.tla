------------------------------ MODULE ApiProcess ------------------------------
(***************************************************************************)
(* The life of the API's processes: start-up with the bounded retries of   *)
(* the broker connection, the job scheduler, the publisher's session, and  *)
(* the orderly shutdown on SIGTERM (index.ts, bootstrap/application.ts,    *)
(* in-memory-job-scheduler.ts, rabbitmq-publisher.ts).  What the jobs and  *)
(* the requests do is left to the module that extends this one.            *)
(***************************************************************************)
EXTENDS Integers, FiniteSets

CONSTANTS
  Apis,         \* the API processes
  Jobs,         \* the registered jobs
  MaxAttempts   \* connectPublisherWithRetry's maxAttempts

ASSUME ApiProcessAssumption == MaxAttempts \in Nat \ {0}

VARIABLES
  broker,    \* "up" or "down"
  phase,     \* where each process is between start and exit
  attempts,  \* broker connections tried in this start
  job,       \* the scheduler's handles: "off", "waiting" for its timer, or "running"
  session,   \* the publisher's `current`: "none", "live", or "dead" until its close event
  conns,     \* the connections to the broker the process holds open
  late       \* a second close event of a dropped session is to come

apiVars == <<broker, phase, attempts, job, session, conns, late>>

NoJobs == [j \in Jobs |-> "off"]

ApiInit ==
  /\ broker = "up"
  /\ phase = [p \in Apis |-> "off"]
  /\ attempts = [p \in Apis |-> 0]
  /\ job = [p \in Apis |-> NoJobs]
  /\ session = [p \in Apis |-> "none"]
  /\ conns = [p \in Apis |-> 0]
  /\ late = [p \in Apis |-> FALSE]

\* The process is gone, and with it its timers and its connections.
Gone(p) ==
  /\ phase' = [phase EXCEPT ![p] = "off"]
  /\ attempts' = [attempts EXCEPT ![p] = 0]
  /\ job' = [job EXCEPT ![p] = NoJobs]
  /\ session' = [session EXCEPT ![p] = "none"]
  /\ conns' = [conns EXCEPT ![p] = 0]
  /\ late' = [late EXCEPT ![p] = FALSE]
  /\ UNCHANGED broker

-----------------------------------------------------------------------------
(* Start-up and the publisher's session. *)

\* The database is opened and migrated before the broker is tried.
Start(p) ==
  /\ phase[p] = "off"
  /\ phase' = [phase EXCEPT ![p] = "starting"]
  /\ UNCHANGED <<broker, attempts, job, session, conns, late>>

\* The jobs are started once the publisher is connected; then the server listens.
Connect(p) ==
  /\ phase[p] = "starting"
  /\ broker = "up"
  /\ phase' = [phase EXCEPT ![p] = "serving"]
  /\ attempts' = [attempts EXCEPT ![p] = 0]
  /\ session' = [session EXCEPT ![p] = "live"]
  /\ conns' = [conns EXCEPT ![p] = @ + 1]
  /\ job' = [job EXCEPT ![p] = [j \in Jobs |-> "waiting"]]
  /\ UNCHANGED <<broker, late>>

ConnectFails(p) ==
  /\ phase[p] = "starting"
  /\ broker = "down"
  /\ attempts[p] + 1 < MaxAttempts
  /\ attempts' = [attempts EXCEPT ![p] = @ + 1]
  /\ UNCHANGED <<broker, phase, job, session, conns, late>>

\* The last attempt failed too: the start throws, which ends the process.
StartFails(p) ==
  /\ phase[p] = "starting"
  /\ broker = "down"
  /\ attempts[p] + 1 >= MaxAttempts
  /\ Gone(p)

\* getSession, when there is no session.
Reopen(p) ==
  /\ session[p] = "none"
  /\ broker = "up"
  /\ session' = [session EXCEPT ![p] = "live"]
  /\ conns' = [conns EXCEPT ![p] = @ + 1]
  /\ UNCHANGED <<broker, phase, attempts, job, late>>

\* The connections of ps are lost; each process is told by a close event later.
LoseConnections(ps) ==
  /\ session' = [p \in Apis |-> IF p \in ps /\ session[p] = "live" THEN "dead" ELSE session[p]]
  /\ conns' = [p \in Apis |-> IF p \in ps /\ session[p] = "live" THEN conns[p] - 1 ELSE conns[p]]

\* The broker closes the channel alone: the connection stays open.
LoseChannel(p) ==
  /\ session' = [session EXCEPT ![p] = "dead"]
  /\ UNCHANGED <<broker, attempts, phase, conns, late>>

\* Mutant of CloseEvent: the event is only logged.
CloseEventLogged(p) ==
  /\ session[p] = "dead"
  /\ ~late[p]
  /\ late' = [late EXCEPT ![p] = TRUE]
  /\ UNCHANGED <<broker, phase, attempts, job, session, conns>>

\* invalidate: drops the session and closes its connection, if still open.
CloseEvent(p) ==
  /\ session[p] = "dead"
  /\ session' = [session EXCEPT ![p] = "none"]
  /\ conns' = [conns EXCEPT ![p] = 0]
  /\ late' = [late EXCEPT ![p] = TRUE]
  /\ UNCHANGED <<broker, phase, attempts, job>>

\* Mutant of LateCloseEvent: no identity check, a newer session is dropped.
LateCloseDropsCurrent(p) ==
  /\ late[p]
  /\ late' = [late EXCEPT ![p] = FALSE]
  /\ session' = [session EXCEPT ![p] = "none"]
  /\ UNCHANGED <<broker, phase, attempts, job, conns>>

\* The session's other close event finds that it is not the current one.
LateCloseEvent(p) ==
  /\ late[p]
  /\ late' = [late EXCEPT ![p] = FALSE]
  /\ UNCHANGED <<broker, phase, attempts, job, session, conns>>

-----------------------------------------------------------------------------
(* The job scheduler and the shutdown. *)

TimerFires(p, j) ==
  /\ job[p][j] = "waiting"
  /\ job' = [job EXCEPT ![p][j] = "running"]
  /\ UNCHANGED <<broker, phase, attempts, session, conns, late>>

\* Once stop() has been called no further run is scheduled.
Stopped(p) == phase[p] \in {"stopping", "destroying"}

\* Mutant of EndedRun: the next run is scheduled, stopped or not.
EndedRunReschedules(p, j) == [job EXCEPT ![p][j] = "waiting"]

\* The value of job after the run of j has ended.
EndedRun(p, j) == [job EXCEPT ![p][j] = IF Stopped(p) THEN "off" ELSE "waiting"]

\* SIGTERM: the server accepts nothing more.
Shutdown(p) ==
  /\ phase[p] = "serving"
  /\ phase' = [phase EXCEPT ![p] = "closing"]
  /\ UNCHANGED <<broker, attempts, job, session, conns, late>>

\* The server's close callback, once every connection is closed: stop().
StopJobs(p, connected) ==
  /\ phase[p] = "closing"
  /\ ~connected
  /\ phase' = [phase EXCEPT ![p] = "stopping"]
  /\ job' = [job EXCEPT ![p] = [j \in Jobs |-> IF @[j] = "waiting" THEN "off" ELSE @[j]]]
  /\ UNCHANGED <<broker, attempts, session, conns, late>>

\* Mutant of ClosePublisher: stop() is not awaited.
ClosePublisherAtOnce(p) ==
  /\ phase[p] = "stopping"
  /\ phase' = [phase EXCEPT ![p] = "destroying"]
  /\ session' = [session EXCEPT ![p] = "none"]
  /\ conns' = [conns EXCEPT ![p] = IF session[p] = "live" THEN @ - 1 ELSE @]
  /\ UNCHANGED <<broker, attempts, job, late>>

\* stop() has awaited the runs in progress: the publisher's close().
ClosePublisher(p) ==
  /\ phase[p] = "stopping"
  /\ \A j \in Jobs : job[p][j] # "running"
  /\ session[p] # "dead"
  /\ phase' = [phase EXCEPT ![p] = "destroying"]
  /\ session' = [session EXCEPT ![p] = "none"]
  /\ conns' = [conns EXCEPT ![p] = IF session[p] = "live" THEN @ - 1 ELSE @]
  /\ UNCHANGED <<broker, attempts, job, late>>

\* Closing a channel that is already closed throws, which ends the process.
ClosePublisherFails(p) ==
  /\ phase[p] = "stopping"
  /\ \A j \in Jobs : job[p][j] # "running"
  /\ session[p] = "dead"
  /\ Gone(p)

\* The pool ends when the last transaction has returned its connection; then exit.
DestroyAndExit(p, transacting) ==
  /\ phase[p] = "destroying"
  /\ ~transacting
  /\ Gone(p)
===============================================================================
