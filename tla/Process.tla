------------------------------ MODULE Process -------------------------------
(***************************************************************************)
(* One server process from start() to the end of shutdown(), seen from its *)
(* pool of clients: the two loops hold a client each for the life of the   *)
(* server; BRPOP, starting workers, the iterations of a poller, the        *)
(* heartbeat and the listeners of the metrics take one for a moment.       *)
(* Handlers are code of the user, and take none.  What the heartbeat does   *)
(* with its client is the matter of Registry, and a listener's of Metrics. *)
(***************************************************************************)
EXTENDS Poller, Sequences

CONSTANTS
    Concurrency,    \* config.concurrency
    PluginCount,    \* config.plugins.length
    RedisPoolMax,   \* max of config.redis.pool, or of the client pool if not set
    MaxAside        \* bound: heartbeats and listeners of the metrics under way at a time

VARIABLES
    stage,      \* start(): "starting", "up"; shutdown(): "stopping", "clearing", then
                \* "done" or, if it rejects, "failed"; "gone" once the process is
    draining,   \* clientPool.drain() was called
    waiting,    \* calls of clientPool.acquire not answered yet, first come first
    turn,       \* history: the place in that line of one call, 0 when none is followed
    using,      \* how many clients each kind of caller has
    room,       \* slots that the iteration of intakeLoop may still fill
    ready,      \* jobsToStart
    working,    \* workers past their updateJob that are in activeWorkers
    lost,       \* those whose updateJob failed: in activeWorkers, never done
    settling    \* doneWorkers that are not settled yet

lineVars == <<waiting, turn>>
jobVars == <<room, ready, working, lost, settling>>
poolVars == <<stage, draining, lineVars, using, jobVars>>
processVars == <<timerVars, poolVars>>

\* Who takes a client; "aside" are the heartbeats and the listeners of the
\* metrics, which nobody awaits.
Kinds == {"intake", "loop", "fetch", "job", "iteration", "aside", "clear"}

\* buildClientPool: a client needs one of the connections of the Redis pool.
ClientPoolMax == PluginCount + 4 + Concurrency
Clients == IF RedisPoolMax < ClientPoolMax THEN RedisPoolMax ELSE ClientPoolMax

\* Both loops have theirs for good, and the intake needs another to fetch.
ASSUME ProcessAssumption ==
    /\ Concurrency \in Nat \ {0}
    /\ PluginCount \in Nat
    /\ RedisPoolMax \in Nat /\ RedisPoolMax >= 3
    /\ MaxAside \in Nat

WaitingFor(k) == Len(SelectSeq(waiting, LAMBDA u : u = k))

\* Calls of clientPool.use by callers of a kind that are under way.
Callers(k) == using[k] + WaitingFor(k)

\* The clients in use.
InUse == using["intake"] + using["loop"] + using["fetch"] + using["job"]
            + using["iteration"] + using["aside"] + using["clear"]

\* currentWorkerStatus: a worker is in activeWorkers from startJobs on.
AvailableSlots == Concurrency - (Callers("job") + working + lost) - ready

ProcessInit ==
    /\ TimersInit
    /\ stage = "starting"
    /\ draining = FALSE
    /\ waiting = <<>> /\ turn = 0
    /\ using = [k \in Kinds |-> 0]
    /\ room = 0 /\ ready = 0 /\ working = 0 /\ lost = 0 /\ settling = 0

-----------------------------------------------------------------------------
(* The pool *)

\* The calls ks join the line; one of them may be followed from here.
Join(ks) ==
    /\ waiting' = waiting \o ks
    /\ turn' \in {turn} \cup {p \in Len(waiting) + 1 .. Len(waiting \o ks) : turn = 0}

\* clientPool.use(...): acquire is called; a draining pool rejects.
Acquire(k) ==
    /\ ~draining
    /\ Join(<<k>>)

\* n events that the Metrics plugin listens to.
Emit(n) ==
    LET heard == IF draining THEN 0 ELSE
                 IF Callers("aside") + n > MaxAside THEN MaxAside - Callers("aside") ELSE n
    IN  Join([p \in 1 .. heard |-> "aside"])

\* Mutant of Grant: last come first served.
GrantLast ==
    /\ waiting # <<>>
    /\ InUse < Clients
    /\ using' = [using EXCEPT ![waiting[Len(waiting)]] = @ + 1]
    /\ waiting' = SubSeq(waiting, 1, Len(waiting) - 1)
    /\ turn' = IF turn = Len(waiting) THEN 0 ELSE turn
    /\ UNCHANGED <<timerVars, stage, draining, jobVars>>

\* A client is free or made, and goes to the first in line.
Grant ==
    /\ waiting # <<>>
    /\ InUse < Clients
    /\ using' = [using EXCEPT ![Head(waiting)] = @ + 1]
    /\ waiting' = Tail(waiting)
    /\ turn' = IF turn = 0 THEN 0 ELSE turn - 1
    /\ UNCHANGED <<timerVars, stage, draining, jobVars>>

\* The function given to use has settled: the client is released or, had it
\* failed, destroyed and replaced.
Release(k) ==
    /\ using[k] > 0
    /\ using' = [using EXCEPT ![k] = @ - 1]

-----------------------------------------------------------------------------
(* The poller, the heartbeat and the metrics *)

\* doStart and each timer call loop, which asks for a client at once; from a
\* draining pool the iteration fails at once.
StartPoller ==
    /\ stage = "starting"
    /\ DoStart
    /\ Acquire("iteration")
    /\ UNCHANGED <<stage, draining, using, jobVars>>

FirePoller ==
    /\ stage # "gone"
    /\ \E h \in Handles : Fire(h)
    /\ draining \/ Acquire("iteration")
    /\ draining => UNCHANGED lineVars
    /\ UNCHANGED <<stage, draining, using, jobVars>>

\* An iteration that has its client ends, or one that got none has failed.
EndIteration ==
    /\ stage # "gone"
    /\ EndFirst \/ \E h \in Handles : EndLoop(h)
    /\ \/ Release("iteration")
       \/ iterations > Callers("iteration") /\ UNCHANGED using
    /\ UNCHANGED <<stage, draining, lineVars, jobVars>>

\* The interval of the heartbeat fires, until cleanup clears it, whether or not
\* the beats before have got through.
StartBeat ==
    /\ stage \in {"starting", "up", "stopping"}
    /\ Callers("aside") < MaxAside
    /\ Acquire("aside")
    /\ UNCHANGED <<timerVars, stage, draining, using, jobVars>>

\* updateWorkerInfo, or the two INCRs of a listener, have been answered or have
\* failed.
EndAside ==
    /\ Release("aside")
    /\ UNCHANGED <<timerVars, stage, draining, lineVars, jobVars>>

-----------------------------------------------------------------------------
(* The loops *)

\* Mutant of StartLoops: the worker loop takes a second client.
StartLoopsTwice ==
    /\ stage = "starting" /\ life = "running"
    /\ stage' = "up"
    /\ Join(<<"intake", "loop", "loop">>)
    /\ UNCHANGED <<timerVars, draining, using, jobVars>>

\* start(), once the first iteration of the poller is over.
StartLoops ==
    /\ stage = "starting" /\ life = "running"
    /\ stage' = "up"
    /\ Join(<<"intake", "loop">>)
    /\ UNCHANGED <<timerVars, draining, using, jobVars>>

\* doFetch asks for the client BRPOP is called on: for the first job of an
\* iteration, if there are slots, or for the next one, with no second look at
\* the slots or at isShuttingDown.
StartFetch ==
    /\ using["intake"] = 1 /\ Callers("fetch") = 0
    /\ \/ stage = "up" /\ room = 0 /\ AvailableSlots > 0 /\ room' = AvailableSlots
       \/ room > 0 /\ UNCHANGED room
    /\ Acquire("fetch")
    /\ UNCHANGED <<timerVars, stage, draining, using, ready, working,
                   lost, settling>>

\* A job was fetched; or none was, or doFetch failed, which ends the iteration.
EndFetch ==
    /\ Release("fetch")
    /\ \/ ready' = ready + 1 /\ room' = room - 1
       \/ UNCHANGED ready /\ room' = 0
    /\ UNCHANGED <<timerVars, stage, draining, lineVars, working, lost,
                   settling>>

\* handleCompletedJobs: the workers that are done leave activeWorkers ...
TakeDone ==
    /\ using["loop"] = 1 /\ settling = 0
    /\ settling' \in 1 .. working
    /\ working' = working - settling'
    /\ UNCHANGED <<timerVars, stage, draining, lineVars, using, room,
                   ready, lost>>

\* ... and are settled on the client of the loop: onJobComplete or onJobError
\* is emitted, and onJobDeath before it; or a command fails, and the rest of
\* them is forgotten.
Settle ==
    /\ using["loop"] = 1 /\ settling > 0
    /\ \/ settling' = settling - 1 /\ \E n \in {1, 2} : Emit(n)
       \/ settling' = 0 /\ UNCHANGED lineVars
    /\ UNCHANGED <<timerVars, stage, draining, using, room, ready,
                   working, lost>>

\* startJobs: a worker for each job, and none waits for the updateJob of another.
StartJobs ==
    /\ using["loop"] = 1 /\ settling = 0
    /\ ready > 0 /\ ready' = 0
    /\ Join([p \in 1 .. ready |-> "job"])
    /\ UNCHANGED <<timerVars, stage, draining, using, room, working,
                   lost, settling>>

\* The updateJob of a worker is answered: onJobStarting is emitted if there is a
\* handler; or it fails, and the worker is never done.
EndJob ==
    /\ Release("job")
    /\ \/ working' = working + 1 /\ (\E n \in {0, 1} : Emit(n)) /\ UNCHANGED lost
       \/ lost' = lost + 1 /\ UNCHANGED <<working, lineVars>>
    /\ UNCHANGED <<timerVars, stage, draining, room, ready, settling>>

-----------------------------------------------------------------------------
(* shutdown() *)

\* doStop of the poller waits for the iteration it sees ...
StopPoller ==
    /\ stage = "up"
    /\ DoStop
    /\ UNCHANGED poolVars

\* ... and clears a timer; then isShuttingDown is set.
PollerStopped ==
    /\ stage = "up"
    /\ ClearTimeout
    /\ stage' = "stopping"
    /\ UNCHANGED <<draining, lineVars, using, jobVars>>

\* Each loop sees the flag at its head, and gives its client back; the worker
\* loop requeues on it before.
EndIntakeLoop ==
    /\ stage = "stopping"
    /\ Callers("fetch") = 0 /\ room = 0
    /\ Release("intake")
    /\ UNCHANGED <<timerVars, stage, draining, lineVars, jobVars>>

EndWorkerLoop ==
    /\ stage = "stopping"
    /\ settling = 0
    /\ Release("loop")
    /\ UNCHANGED <<timerVars, stage, draining, lineVars, jobVars>>

\* Mutant of CleanUpPlugins: the pool is set to drain first, and the cleanup of
\* the heartbeat gets no client, so that shutdown() rejects.
DrainFirst ==
    /\ stage = "stopping"
    /\ Callers("intake") = 0 /\ Callers("loop") = 0
    /\ draining' = TRUE
    /\ stage' = "rejected"
    /\ UNCHANGED <<timerVars, lineVars, using, jobVars>>

\* Both have terminated: cleanup of the heartbeat asks for a client.
CleanUpPlugins ==
    /\ stage = "stopping"
    /\ Callers("intake") = 0 /\ Callers("loop") = 0
    /\ Acquire("clear")
    /\ stage' = "clearing"
    /\ UNCHANGED <<timerVars, draining, using, jobVars>>

\* The record is deleted and the pool set to drain, which is not awaited; or the
\* DEL fails, and shutdown() rejects.
CleanUp ==
    /\ stage = "clearing"
    /\ Release("clear")
    /\ \/ draining' = TRUE /\ stage' = "done"
       \/ UNCHANGED draining /\ stage' = "failed"
    /\ UNCHANGED <<timerVars, lineVars, jobVars>>

\* process.exit in the signal handler, or a crash.
Die ==
    /\ stage # "gone"
    /\ stage' = "gone"
    /\ waiting' = <<>> /\ turn' = 0
    /\ using' = [k \in Kinds |-> 0]
    /\ room' = 0 /\ ready' = 0 /\ working' = 0 /\ lost' = 0 /\ settling' = 0
    /\ UNCHANGED <<timerVars, draining>>

-----------------------------------------------------------------------------
ProcessNext ==
    \/ Grant
    \/ StartPoller \/ FirePoller \/ EndIteration
    \/ StartBeat \/ EndAside
    \/ StartLoops \/ StartFetch \/ EndFetch
    \/ TakeDone \/ Settle \/ StartJobs \/ EndJob
    \/ StopPoller \/ PollerStopped \/ EndIntakeLoop \/ EndWorkerLoop
    \/ CleanUpPlugins \/ CleanUp \/ Die

ProcessSpec == ProcessInit /\ [][ProcessNext]_processVars

\* What goes on by itself once it has begun: start() and shutdown(), though nobody
\* has to call shutdown() ...
StartAndShutdown ==
    \/ StartPoller \/ StartLoops
    \/ life = "stopping" /\ PollerStopped
    \/ CleanUpPlugins \/ CleanUp

\* ... and the two loops.
IntakeLoop == StartFetch \/ EndFetch \/ EndIntakeLoop
WorkerLoop == TakeDone \/ Settle \/ StartJobs \/ EndWorkerLoop

\* The pool gives a free client away, timers fire, every use of a client ends
\* and so do handlers, and the sequences above go on.
ProcessFairness ==
    /\ WF_processVars(Grant)
    /\ WF_processVars(FirePoller) /\ WF_processVars(EndIteration)
    /\ WF_processVars(EndJob) /\ WF_processVars(EndAside)
    /\ WF_processVars(StartAndShutdown)
    /\ WF_processVars(IntakeLoop) /\ WF_processVars(WorkerLoop)

FairProcessSpec == ProcessSpec /\ ProcessFairness

-----------------------------------------------------------------------------
(* Properties *)

\* Both loops keep a client for good, and the third one is enough: whoever
\* asks for a client gets one, however many others are in line or come back.
\* One call at a time is followed, whichever it is, so that this is said of
\* every single call and not of its kind.
PoolServes == turn > 0 ~> turn = 0

\* The intake fetches again and again until it is told to stop, or until every
\* slot is held by a worker whose updateJob has failed.
KeepsFetching ==
    []<>(using["fetch"] > 0 \/ stage \notin {"starting", "up"} \/ lost = Concurrency)

\* A poller never falls silent: whatever its iterations and the pool do,
\* another follows with a client, up to the end of shutdown().
PollsAgain == []<>(using["iteration"] > 0 \/ stage \in {"done", "gone"})

\* shutdown() comes to its end, whoever is in line for a client when it is
\* called, and rejects only when the DEL of its own record has failed.
ShutdownReturns == stage = "stopping" ~> stage \in {"done", "failed", "gone"}
=============================================================================
