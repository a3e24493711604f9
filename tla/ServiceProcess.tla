----------------------------- MODULE ServiceProcess -----------------------------
(***************************************************************************)
(* One process of the service: the event loop with the lifespan of main.py *)
(* and its endpoints, the thread of the poller's tick, and the threads of  *)
(* the jobs, which share PushMetrics and PostgresClient.  What the loop    *)
(* does between two awaits keeps everything else on it waiting.  What the  *)
(* statements do to the tables is in NotificationDelivery and              *)
(* WorkerService.                                                          *)
(***************************************************************************)
EXTENDS PushMetrics, DatabaseClient

CONSTANTS
  Job,        \* threads of subscriber and poller jobs
  PollerJob,  \* those of the poller
  Tick,       \* the thread of a tick's statements
  Loop        \* the thread of the event loop

ASSUME ProcessAssumption ==
  /\ PollerJob \subseteq Job
  /\ Tick \notin Job /\ Loop \notin Job \cup {Tick}
  /\ Thread = Job \cup {Tick, Loop}
  /\ Owner = Thread

VARIABLES
  phase,   \* where the lifespan is
  loop,    \* what the event loop is in, "free" between two callbacks
  job,     \* where each job is
  tick     \* where the tick is

process == <<phase, loop, job, tick>>
vars == <<lock, counted, call, cached, exported, swallowed, reported,
          engine, factory, session, phase, loop, job, tick>>

JobPoint == {"idle", "scope", "query", "count", "counted", "expo"}

\* The tick's thread is at "query" to "reread"; at "parked" it has ended and
\* the loop has not yet gone on with the tick.
TickPoint == {"sleep", "query", "count", "counted", "reread", "parked", "gather"}
InThread  == {"query", "count", "counted", "reread"}

TickState == [pc : TickPoint, op : {"reclaim", "claim"}, failed : BOOLEAN,
              cancelled : BOOLEAN]

NoTick == [pc |-> "sleep", op |-> "reclaim", failed |-> FALSE, cancelled |-> FALSE]

TypeOK ==
  /\ MetricsTypeOK
  /\ ClientTypeOK
  /\ phase \in {"down", "up", "stopping", "summary", "closed", "exited"}
  /\ loop \in {"free", "ready", "inc", "snapshot", "summary", "call", "close"}
  /\ job \in [Job -> JobPoint]
  /\ tick \in TickState

Init ==
  /\ MetricsInit
  /\ ClientInit
  /\ phase = "down"
  /\ loop = "free"
  /\ job = [j \in Job |-> "idle"]
  /\ tick = NoTick

JobAt(j, pc)  == job' = [job EXCEPT ![j] = pc] /\ UNCHANGED <<phase, loop, tick>>
TickAt(pc)    == tick' = [tick EXCEPT !.pc = pc] /\ UNCHANGED <<phase, loop, job>>
LoopIn(state) == loop' = state /\ UNCHANGED <<phase, job, tick>>

-----------------------------------------------------------------------------
(* The jobs: sessions, each for some statements, and calls of Expo between  *)
(* them.                                                                    *)

\* A handler got its permit; the loop hands the job to a thread.
JobStarts(j) ==
  /\ loop = "free" /\ phase \in {"up", "stopping"}
  /\ job[j] = "idle" /\ j \notin PollerJob
  /\ JobAt(j, "scope")
  /\ UNCHANGED <<metrics, client>>

JobOpens(j) == job[j] = "scope" /\ Open(j) /\ JobAt(j, "query") /\ UNCHANGED metrics

\* session() raises: the job ends.
JobRefused(j) ==
  job[j] = "scope" /\ Refused /\ JobAt(j, "idle") /\ UNCHANGED <<metrics, client>>

JobWants(j)    == job[j] = "query" /\ Want(j) /\ UNCHANGED <<metrics, process>>
JobConnects(j) == job[j] = "query" /\ Connect(j) /\ UNCHANGED <<metrics, process>>

JobCommits(j) == job[j] = "query" /\ Commit(j) /\ JobAt(j, "count") /\ UNCHANGED metrics

JobCounts(j, k) == job[j] = "count" /\ EnterInc(j, k) /\ JobAt(j, "counted") /\ UNCHANGED client

\* More statements in the same session, as the re-read in claim_by_id.
JobReadsOn(j) ==
  /\ job[j] \in {"count", "counted"} /\ Outside(j)
  /\ JobAt(j, "query")
  /\ UNCHANGED <<metrics, client>>

\* Its last statement is done, committed or only read.
Finished(j) ==
  /\ Outside(j)
  /\ \/ job[j] \in {"count", "counted"}
     \/ job[j] = "query" /\ session[j].state = "connected"

\* Defect: the session stays open around the call of Expo.
JobKeepsSession(j, next) ==
  /\ Finished(j)
  /\ IF next = "expo" THEN UNCHANGED client ELSE Close(j)
  /\ JobAt(j, next)
  /\ UNCHANGED metrics

\* session_scope closes the session; the job goes on or is over.
JobCloses(j, next) ==
  /\ Finished(j)
  /\ Close(j)
  /\ JobAt(j, next)
  /\ UNCHANGED metrics

\* Defect: without except and finally the session stays open.
JobRaisesOpen(j) == job[j] = "query" /\ JobAt(j, "idle") /\ UNCHANGED <<metrics, client>>

\* A statement raises, or the pool's timeout is over: rollback and close.
JobRaises(j) == job[j] = "query" /\ Close(j) /\ JobAt(j, "idle") /\ UNCHANGED metrics

ExpoReturns(j) == job[j] = "expo" /\ JobAt(j, "scope") /\ UNCHANGED <<metrics, client>>

-----------------------------------------------------------------------------
(* The tick                                                                 *)

\* The loop opens the session of reclaim_stale and starts its thread.
TickStarts ==
  /\ loop = "free" /\ phase = "up"
  /\ tick.pc = "sleep" /\ ~tick.cancelled
  /\ Open(Tick)
  /\ tick' = [NoTick EXCEPT !.pc = "query"]
  /\ UNCHANGED <<metrics, phase, loop, job>>

TickWants    == tick.pc \in {"query", "reread"} /\ Want(Tick) /\ UNCHANGED <<metrics, process>>
TickConnects == tick.pc \in {"query", "reread"} /\ Connect(Tick) /\ UNCHANGED <<metrics, process>>

\* The close of a cancelled tick may have come between statement and commit, which
\* has nothing to commit then.
TickCommits ==
  /\ tick.pc = "query"
  /\ \/ Commit(Tick)
     \/ tick.cancelled /\ session[Tick].state = "open" /\ UNCHANGED client
  /\ TickAt("count")
  /\ UNCHANGED metrics

TickCounts(k) == tick.pc = "count" /\ EnterInc(Tick, k) /\ TickAt("counted") /\ UNCHANGED client

\* claim_pending_batch reads the claimed rows, after its commit.
TickReads ==
  /\ tick.op = "claim" /\ tick.pc = "counted" /\ Outside(Tick)
  /\ TickAt("reread")
  /\ UNCHANGED <<metrics, client>>

\* The thread ends.  Nobody waits for that of a cancelled tick: its session has been
\* closed once, and stays as the thread leaves it.
Park(failed) ==
  /\ Abandon(Tick)
  /\ tick' = IF tick.cancelled THEN [tick EXCEPT !.pc = "sleep"]
             ELSE [tick EXCEPT !.pc = "parked", !.failed = failed]
  /\ UNCHANGED <<metrics, phase, loop, job>>

\* The pool takes back the connection of a session that was collected as garbage,
\* which may happen at any time, or never.
TickCollected ==
  /\ tick.cancelled /\ tick.pc = "sleep"
  /\ Close(Tick)
  /\ UNCHANGED <<metrics, process>>

TickReturns ==
  /\ Outside(Tick)
  /\ \/ tick.op = "reclaim" /\ tick.pc \in {"count", "counted"}
     \/ tick.op = "claim" /\ tick.pc = "count"
     \/ tick.pc = "reread" /\ session[Tick].state = "connected"
  /\ Park(FALSE)

TickRaises == tick.pc \in {"query", "reread"} /\ Park(TRUE)

\* Back on the loop: session.close() ends the tick if a statement raised ...
TickFails ==
  /\ loop = "free" /\ tick.pc = "parked" /\ tick.failed
  /\ Close(Tick)
  /\ tick' = NoTick
  /\ UNCHANGED <<metrics, phase, loop, job>>

\* ... or, after reclaim_stale, is followed by the session for the claim ...
TickClaims ==
  /\ loop = "free" /\ tick.pc = "parked" /\ tick.op = "reclaim" /\ ~tick.failed
  /\ session' = [session EXCEPT ![Tick] = [NoSession EXCEPT !.state = "open"]]
  /\ UNCHANGED <<engine, factory>>
  /\ tick' = [tick EXCEPT !.pc = "query", !.op = "claim"]
  /\ UNCHANGED <<metrics, phase, loop, job>>

\* ... or, after the claim, by the jobs in S; without any the tick is over.
TickGathers(S) ==
  /\ loop = "free" /\ tick.pc = "parked" /\ tick.op = "claim" /\ ~tick.failed
  /\ Close(Tick)
  /\ job' = [j \in Job |-> IF j \in S THEN "scope" ELSE job[j]]
  /\ tick' = IF S = {} THEN NoTick ELSE [tick EXCEPT !.pc = "gather"]
  /\ UNCHANGED <<metrics, phase, loop>>

GatherEnds ==
  /\ loop = "free" /\ tick.pc = "gather"
  /\ \A j \in PollerJob : job[j] = "idle"
  /\ tick' = NoTick
  /\ UNCHANGED <<metrics, client, phase, loop, job>>

-----------------------------------------------------------------------------
(* The event loop                                                           *)

ReadyStarts  == loop = "free" /\ phase = "up" /\ Open(Loop) /\ LoopIn("ready") /\ UNCHANGED metrics
ReadyWants   == loop = "ready" /\ Want(Loop) /\ UNCHANGED <<metrics, process>>
ReadyConnects == loop = "ready" /\ Connect(Loop) /\ UNCHANGED <<metrics, process>>

\* SELECT 1 was answered.
ReadyAnswers ==
  /\ loop = "ready" /\ session[Loop].state = "connected"
  /\ Close(Loop) /\ LoopIn("free") /\ UNCHANGED metrics

\* It raised, or the pool's timeout is over: 503.
ReadyFails ==
  /\ loop = "ready" /\ session[Loop].state \in {"waiting", "connected"}
  /\ Close(Loop) /\ LoopIn("free") /\ UNCHANGED metrics

\* A callback counts a disposition, /metrics/snapshot reads, _summary_loop logs.
LoopCalls(what) ==
  /\ loop = "free"
  /\ \/ what = "inc" /\ phase \in {"up", "stopping"}
     \/ what \in {"snapshot", "summary"} /\ phase = "up"
  /\ LoopIn(what)
  /\ UNCHANGED <<metrics, client>>

LoopEnters ==
  /\ \/ loop = "inc" /\ \E k \in Key : EnterInc(Loop, k)
     \/ loop = "snapshot" /\ Enter(Loop, "read", NoKey)
     \/ loop = "summary" /\ Enter(Loop, "copy", NoKey)
  /\ LoopIn("call")
  /\ UNCHANGED client

\* The call is over (or beyond the bound).  Only the last summary is followed by
\* PostgresClient.close().
LoopReturns ==
  /\ \/ loop = "call" /\ Outside(Loop)
     \/ loop = "inc" /\ \E k \in Key : ~Budget(k)
  /\ LoopIn(IF phase = "summary" THEN "close" ELSE "free")
  /\ UNCHANGED <<metrics, client>>

\* The lifespan up to its yield.
StartUp == phase = "down" /\ Initialize /\ phase' = "up" /\ UNCHANGED <<metrics, loop, job, tick>>

\* The server stops: no requests any more, the stop events are set.
Stop ==
  /\ loop = "free" /\ phase = "up"
  /\ phase' = "stopping"
  /\ UNCHANGED <<metrics, client, loop, job, tick>>

Summarize == phase' = "summary" /\ loop' = "summary" /\ UNCHANGED <<metrics, job>>

\* poller.stop(): the tick is over ...
StopWaits ==
  /\ loop = "free" /\ phase = "stopping" /\ tick.pc = "sleep"
  /\ Summarize
  /\ UNCHANGED <<client, tick>>

\* Defect: wait_for has no timeout.
StopNeverCancels ==
  /\ loop = "free" /\ phase = "stopping" /\ tick.pc = "parked"
  /\ Summarize
  /\ tick' = NoTick
  /\ Close(Tick)

\* ... or its ten seconds are, and the tick is cancelled.  Its session is
\* closed by the loop, also while its thread still runs a statement in it.
StopCancels ==
  /\ loop = "free" /\ phase = "stopping" /\ tick.pc # "sleep"
  /\ Summarize
  /\ CASE tick.pc \in InThread ->
            tick' = [tick EXCEPT !.cancelled = TRUE] /\ CloseUnder(Tick)
       [] tick.pc = "parked" -> tick' = NoTick /\ Close(Tick)
       [] tick.pc = "gather" -> tick' = NoTick /\ UNCHANGED client

LoopDisposes == loop = "close" /\ Dispose /\ UNCHANGED <<metrics, process>>
LoopForgets  == loop = "close" /\ ForgetEngine /\ UNCHANGED <<metrics, process>>

LoopCloses ==
  /\ loop = "close" /\ engine = "none"
  /\ ForgetFactory
  /\ phase' = "closed" /\ loop' = "free"
  /\ UNCHANGED <<metrics, job, tick>>

\* The interpreter waits for the threads that are left, then the process is gone.
Exit ==
  /\ phase = "closed"
  /\ \A j \in Job : job[j] = "idle" /\ Outside(j)
  /\ tick.pc = "sleep"
  /\ phase' = "exited"
  /\ UNCHANGED <<metrics, client, loop, job, tick>>

Exited == phase = "exited" /\ UNCHANGED vars

-----------------------------------------------------------------------------
\* What a job does by itself; only Expo can keep it waiting for ever.
JobWorks(j) ==
  \/ JobOpens(j)
  \/ JobRefused(j)
  \/ JobWants(j)
  \/ JobCommits(j)
  \/ \E next \in {"scope", "expo", "idle"} : JobCloses(j, next)

TickWorks == TickWants \/ TickCommits \/ TickReads \/ TickReturns

TickOnLoop == TickFails \/ TickClaims \/ GatherEnds
  \/ \E S \in SUBSET PollerJob : (\A j \in S : job[j] = "idle") /\ TickGathers(S)

LoopWorks == ReadyWants \/ ReadyAnswers \/ LoopReturns
  \/ LoopDisposes \/ LoopForgets \/ LoopCloses

StopStep == StopWaits \/ StopCancels

Next ==
  \/ \E j \in Job : \/ JobStarts(j) \/ JobWorks(j) \/ JobConnects(j) \/ JobReadsOn(j)
                    \/ JobRaises(j) \/ ExpoReturns(j)
                    \/ \E k \in Key : JobCounts(j, k)
  \/ TickStarts \/ TickWorks \/ TickConnects \/ TickRaises \/ TickOnLoop \/ TickCollected
  \/ \E k \in Key : TickCounts(k)
  \/ \E t \in Thread : (CallStep(t) \/ Swallow(t)) /\ UNCHANGED <<client, process>>
  \/ ReadyStarts \/ ReadyConnects \/ ReadyFails \/ LoopWorks
  \/ \E what \in {"inc", "snapshot", "summary"} : LoopCalls(what)
  \/ LoopEnters
  \/ StartUp \/ Stop \/ StopStep \/ Exit \/ Exited

Spec == Init /\ [][Next]_vars

\* Threads run, the event loop gets a connection or the lock when these are free
\* again and again, it serves every callback, and stop() times out.  Nothing makes
\* Expo return, nor a waiter for the pool give up; jobs may wait there for ever.
Fairness ==
  /\ \A t \in Thread : WF_vars(CallStep(t) /\ UNCHANGED <<client, process>>)
  /\ \A j \in Job : WF_vars(JobWorks(j))
  /\ WF_vars(TickWorks)
  /\ WF_vars(LoopWorks) /\ SF_vars(ReadyConnects) /\ SF_vars(LoopEnters)
  /\ SF_vars(StopStep)

FairSpec == Spec /\ Fairness

-----------------------------------------------------------------------------
(* Properties                                                               *)

\* Sessions are out only between their opening and their closing, whatever
\* raises or times out on the way: none is kept during a call of Expo
\* ("connection released before Expo HTTP"), and the only one that nobody closes
\* is that of a tick whose thread was at work when the shutdown cancelled it.
NoSessionLeft ==
  /\ \A j \in Job : (session[j].state # "none") <=> (job[j] \in {"query", "count", "counted"})
  /\ (session[Loop].state # "none") <=> (loop = "ready")
  /\ IF tick.cancelled THEN phase \notin {"down", "up", "stopping"}
     ELSE (session[Tick].state # "none") <=> (tick.pc \in InThread \cup {"parked"})

\* Whoever waits for a connection of an exhausted pool waits for a thread that
\* gives one back by itself: not for Expo, not for another waiter, and, when it
\* is the event loop that waits, not for the loop.
Runs(o) == (o \in Job /\ job[o] = "query") \/ (o = Tick /\ tick.pc \in InThread)
             \/ (o = Loop /\ loop = "ready")

WaitsForThread ==
  \A o \in Owner : session[o].state = "waiting" =>
    \/ Cardinality(Connected(session[o].pool)) < PoolSize
    \/ \E q \in Connected(session[o].pool) : Runs(q)

\* The event loop is never blocked for good by /ready, a counter or the close of
\* the client, also when every job hangs in its call of Expo.
LoopComesBack == (loop # "free") ~> (loop = "free")

\* The lifespan ends once its shutdown began, also when jobs or the tick hang.
ShutdownEnds == (phase = "stopping") ~> (phase = "closed")

=============================================================================
