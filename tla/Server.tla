------------------------------- MODULE Server -------------------------------
(***************************************************************************)
(* service/src/Server: the processes that take jobs from the queues, run   *)
(* them and settle the outcome.  Each process has an intake loop and a     *)
(* worker-handle loop, sharing two in-memory lists (jobsToStart and        *)
(* activeWorkers) under one lock.                                          *)
(*                                                                         *)
(* Atomicity: JavaScript runs a process's code without interruption from   *)
(* one await to the next.  An action below is one Redis command together   *)
(* with the code that runs from its reply to the next await on Redis, on a *)
(* timer or on a job handler; awaits that only yield a microtask (the job  *)
(* lock, whose critical sections are synchronous) are not cut.             *)
(***************************************************************************)
EXTENDS Store

CONSTANTS
    Servers,        \* process instances; a restarted process is a new instance
    Runs,           \* identities of in-memory job descriptors, with their Worker
    Concurrency,    \* config.concurrency, the same for every server
    Handled,        \* jobs whose name is bound in config.jobMap
    MaxRetries,     \* options.maxRetries of each job
    NoRetries,      \* the value maxRetries === false
    EndlessRetries, \* the value maxRetries === true
    NoJob, NoRun, NoServer,
    MaxShutdowns,   \* bound: how many graceful shutdowns are requested
    MaxCrashes,     \* bound: how many processes die without shutting down
    MaxFaults       \* bound: how many Redis or user calls fail abnormally

ASSUME ServerAssumption ==
    /\ IsFiniteSet(Runs)
    /\ Concurrency \in Nat \ {0}
    /\ Handled \subseteq Jobs
    /\ MaxRetries \in [Jobs -> Nat \cup {NoRetries, EndlessRetries}]
    /\ NoRetries \notin Nat /\ EndlessRetries \notin Nat
    /\ NoJob \notin Jobs
    /\ NoRun \notin Runs
    /\ NoServer \notin Servers
    /\ {MaxShutdowns, MaxCrashes, MaxFaults} \subseteq Nat

VARIABLES
    proc,       \* life of each process
    intake,     \* intakeLoop: program counter, popped id, fetched, availableSlots
    loop,       \* workerHandleLoop: program counter, workers still to go through
    run,        \* the in-memory descriptors, and where each one is held
    budget,     \* what is left of the three bounds
    \* history: what happened to each job so far
    submitted,  \* jobs a client has enqueued
    performed,  \* jobs whose handler was called at least once
    failures,   \* how many failed attempts of the job were settled
    completed   \* jobs settled as successful

serverVars == <<proc, intake, loop, run, budget, submitted, performed, failures, completed>>
vars == <<storeVars, serverVars>>

-----------------------------------------------------------------------------
(* The life of a run:                                                      *)
(*   toStart      in jobsToStart                                           *)
(*   starting     in activeWorkers, Worker.start waits for updateJob       *)
(*   performing   in activeWorkers, the handler is running                 *)
(*   ok, err      in activeWorkers, done                                   *)
(*   leaked       in activeWorkers, and never going to be done             *)
(*   acking, failing             in doneWorkers, the outcome not stored    *)
(*   deleting, dying, retrying   in doneWorkers, the outcome stored        *)
Active == {"starting", "performing", "ok", "err", "leaked"}
Occupying == {"toStart"} \cup Active
Settling == {"acking", "failing", "deleting", "dying", "retrying"}
Phases == {"free"} \cup Occupying \cup Settling

Procs == {"up", "stopping", "stopped", "gone"}
Budgets == {"shutdown", "crash", "fault"}

FreeRun == [phase |-> "free", at |-> NoServer, job |-> NoJob, retry |-> 0,
            requeued |-> FALSE]
IdleIntake == [pc |-> "top", job |-> NoJob, fetched |-> 0, slots |-> 0]
IdleLoop == [pc |-> "top", cur |-> NoRun, todo |-> {}]

RunType == [phase : Phases, at : Servers \cup {NoServer}, job : Jobs \cup {NoJob},
            retry : Nat, requeued : BOOLEAN]
IntakeType == [pc : {"top", "fetch", "read", "ended"}, job : Jobs \cup {NoJob},
               fetched : Nat, slots : Nat]
LoopType == [pc : {"top", "settle", "finish", "cleanup", "requeue", "wedged", "ended"},
             cur : Runs \cup {NoRun}, todo : SUBSET Runs]

\* Every variable keeps the shape the code gives it.
TypeOK ==
    /\ StoreTypeOK
    /\ proc \in [Servers -> Procs]
    /\ intake \in [Servers -> IntakeType]
    /\ loop \in [Servers -> LoopType]
    /\ run \in [Runs -> RunType]
    /\ budget \in [Budgets -> Nat]
    /\ submitted \subseteq Jobs
    /\ performed \subseteq Jobs
    /\ failures \in [Jobs -> Nat]
    /\ completed \subseteq Jobs

Init ==
    /\ StoreInit
    /\ proc = [s \in Servers |-> "up"]
    /\ intake = [s \in Servers |-> IdleIntake]
    /\ loop = [s \in Servers |-> IdleLoop]
    /\ run = [r \in Runs |-> FreeRun]
    /\ budget = [b \in Budgets |-> CASE b = "shutdown" -> MaxShutdowns
                                     [] b = "crash" -> MaxCrashes
                                     [] b = "fault" -> MaxFaults]
    /\ submitted = {} /\ performed = {} /\ completed = {}
    /\ failures = [j \in Jobs |-> 0]

history == <<submitted, performed, failures, completed>>

Spend(b) ==
    /\ budget[b] > 0
    /\ budget' = [budget EXCEPT ![b] = @ - 1]

Alive(s) == proc[s] # "gone"
IsShuttingDown(s) == proc[s] # "up"

RunsOf(s, phases) == {r \in Runs : run[r].at = s /\ run[r].phase \in phases}

\* Mutant of AvailableSlots: jobsToStart is not counted.
SlotsBesideActive(s) ==
    Concurrency - Cardinality(RunsOf(s, Active))

AvailableSlots(s) == Concurrency - Cardinality(RunsOf(s, Occupying))

\* Moves every run of rs to a phase.
SetPhase(rs, phase) ==
    [r \in Runs |-> IF r \in rs THEN [run[r] EXCEPT !.phase = phase] ELSE run[r]]

\* Forgets the runs of rs: nothing refers to the descriptor any more.
Forget(rs) == [r \in Runs |-> IF r \in rs THEN FreeRun ELSE run[r]]

-----------------------------------------------------------------------------
(* Clients *)

\* performWithOptions of a new job.
Submit(j) ==
    /\ j \notin submitted
    /\ submitted' = submitted \cup {j}
    /\ Enqueue(j, 0)
    /\ UNCHANGED <<proc, intake, loop, run, budget, performed, failures, completed>>

-----------------------------------------------------------------------------
(* intakeLoop *)

\* The head of the loop, outside the lock: availableSlots is computed once
\* for the whole of intakeLoopIter.
IntakeIter(s) ==
    /\ Alive(s) /\ ~IsShuttingDown(s)
    /\ intake[s].pc = "top"
    /\ AvailableSlots(s) > 0
    /\ intake' = [intake EXCEPT ![s] = [pc |-> "fetch", job |-> NoJob, fetched |-> 0,
                                        slots |-> AvailableSlots(s)]]
    /\ UNCHANGED <<storeVars, proc, loop, run, budget, history>>

IntakeEnd(s) ==
    /\ Alive(s) /\ IsShuttingDown(s)
    /\ intake[s].pc = "top"
    /\ intake' = [intake EXCEPT ![s].pc = "ended"]
    /\ UNCHANGED <<storeVars, proc, loop, run, budget, history>>

\* BRPOP is answered.  The queue names are shuffled before every call, so any
\* queue that holds a job may be the first of them.
IntakeFetch(s, q) ==
    /\ Alive(s)
    /\ intake[s].pc = "fetch"
    /\ Pop(q)
    /\ intake' = [intake EXCEPT ![s].pc = "read", ![s].job = Last(queue[q])]
    /\ UNCHANGED <<proc, loop, run, budget, history>>

\* Mutant of IntakeTimeout: on a timeout the inner loop goes on.
IntakeRetry(s) ==
    /\ Alive(s)
    /\ intake[s].pc = "fetch"
    /\ \A q \in Queues : queue[q] = <<>>
    /\ UNCHANGED vars

\* BRPOP times out on empty queues.
IntakeTimeout(s) ==
    /\ Alive(s)
    /\ intake[s].pc = "fetch"
    /\ \A q \in Queues : queue[q] = <<>>
    /\ intake' = [intake EXCEPT ![s] = IdleIntake]
    /\ UNCHANGED <<storeVars, proc, loop, run, budget, history>>

\* readJob of the popped id, then jobsToStart.push; the inner loop goes on
\* while fetched < availableSlots, whatever isShuttingDown has become.
IntakeRead(s, r) ==
    /\ intake[s].pc = "read"
    /\ HasPayload(intake[s].job)
    /\ run[r].phase = "free"
    /\ run' = [run EXCEPT ![r] = [phase |-> "toStart", at |-> s, job |-> intake[s].job,
                                  retry |-> stored[intake[s].job], requeued |-> FALSE]]
    /\ intake' = [intake EXCEPT ![s] =
                    IF @.fetched + 1 < @.slots
                    THEN [pc |-> "fetch", job |-> NoJob,
                          fetched |-> @.fetched + 1, slots |-> @.slots]
                    ELSE IdleIntake]
    /\ UNCHANGED <<storeVars, proc, loop, budget, history>>

\* readJob finds no payload: doFetch returns null and the popped id is gone.
IntakeMissing(s) ==
    /\ intake[s].pc = "read"
    /\ ~HasPayload(intake[s].job)
    /\ intake' = [intake EXCEPT ![s] = IdleIntake]
    /\ UNCHANGED <<storeVars, proc, loop, run, budget, history>>

\* The GET of the popped id is answered.
IntakeAnswer(s) ==
    /\ Alive(s)
    /\ (\E r \in Runs : IntakeRead(s, r)) \/ IntakeMissing(s)

\* BRPOP or GET fails.  A failed BRPOP resolves to null, a failed GET raises
\* onIntakeError; either way the iteration ends.  The list may have been
\* popped although the reply was lost.
IntakeFault(s) ==
    /\ Alive(s)
    /\ intake[s].pc \in {"fetch", "read"}
    /\ Spend("fault")
    /\ \/ UNCHANGED storeVars
       \/ intake[s].pc = "fetch" /\ \E q \in Queues : Pop(q)
    /\ intake' = [intake EXCEPT ![s] = IdleIntake]
    /\ UNCHANGED <<proc, loop, run, history>>

IntakeStep(s) ==
    \/ IntakeIter(s) \/ IntakeEnd(s)
    \/ \E q \in Queues : IntakeFetch(s, q)
    \/ IntakeTimeout(s)
    \/ IntakeAnswer(s)

-----------------------------------------------------------------------------
(* Worker *)

\* Worker.start: updateJob stores startedAt, then the handler is looked up.
\* A job with no handler fails at once.
WorkerStart(r) ==
    /\ run[r].phase = "starting"
    /\ UpdateJob(run[r].job, run[r].retry)
    /\ IF run[r].job \in Handled
       THEN /\ run' = SetPhase({r}, "performing")
            /\ performed' = performed \cup {run[r].job}
       ELSE /\ run' = SetPhase({r}, "err")
            /\ UNCHANGED performed
    /\ UNCHANGED <<proc, intake, loop, budget, submitted, failures, completed>>

\* The promise of perform() settles; endedAt and done are set.
WorkerEnd(r) ==
    /\ run[r].phase = "performing"
    /\ \E outcome \in {"ok", "err"} : run' = SetPhase({r}, outcome)
    /\ UNCHANGED <<storeVars, proc, intake, loop, budget, history>>

\* updateJob rejects outside the try block, or the handler rejects with
\* something that has no stack to split: done is never set.
WorkerFault(r) ==
    /\ run[r].phase \in {"starting", "performing"}
    /\ Spend("fault")
    /\ \/ UNCHANGED storeVars
       \/ run[r].phase = "starting" /\ UpdateJob(run[r].job, run[r].retry)
    /\ run' = SetPhase({r}, "leaked")
    /\ UNCHANGED <<proc, intake, loop, history>>

WorkerStep(r) == WorkerStart(r) \/ WorkerEnd(r)

-----------------------------------------------------------------------------
(* workerHandleLoop *)

\* acquireJobLock(() => _.remove(activeWorkers, (w) => w.done)).  An iteration
\* that finds nothing to settle and nothing to start changes nothing.
HandleCompletedJobs(s) ==
    /\ Alive(s) /\ ~IsShuttingDown(s)
    /\ loop[s].pc = "top"
    /\ RunsOf(s, {"ok", "err", "toStart"}) # {}
    /\ loop' = [loop EXCEPT ![s] = [pc |-> "settle", cur |-> NoRun,
                                    todo |-> RunsOf(s, {"ok", "err"})]]
    /\ run' = [r \in Runs |->
                CASE r \in RunsOf(s, {"ok"}) -> [run[r] EXCEPT !.phase = "acking"]
                  [] r \in RunsOf(s, {"err"}) -> [run[r] EXCEPT !.phase = "failing"]
                  [] OTHER -> run[r]]
    /\ UNCHANGED <<storeVars, proc, intake, budget, history>>

\* Mutant of IsDead: the attempt to come is counted already.
IsDeadEarly(r) ==
    LET j == run[r].job IN
    \/ j \notin Handled
    \/ MaxRetries[j] = NoRetries
    \/ MaxRetries[j] = run[r].retry + 1

\* Mutant of IsDead: the count is not compared.
IsDeadNever(r) ==
    run[r].job \notin Handled \/ MaxRetries[run[r].job] = NoRetries

\* handleErroredJob: no handler, retries turned off, or all of them used up.
IsDead(r) ==
    LET j == run[r].job IN
    \/ j \notin Handled
    \/ MaxRetries[j] = NoRetries
    \/ MaxRetries[j] = run[r].retry

\* The first half of settling one worker: updateJob of its descriptor.
Settle(s, r) ==
    /\ Alive(s)
    /\ loop[s].pc = "settle"
    /\ r \in loop[s].todo
    /\ \/ /\ run[r].phase = "acking"
          /\ run' = SetPhase({r}, "deleting")
          /\ UpdateJob(run[r].job, run[r].retry)
       \/ /\ run[r].phase = "failing" /\ IsDead(r)
          /\ run' = SetPhase({r}, "dying")
          /\ UpdateJob(run[r].job, run[r].retry)
       \/ /\ run[r].phase = "failing" /\ ~IsDead(r)
          /\ run' = [run EXCEPT ![r] = [run[r] EXCEPT !.phase = "retrying",
                                                    !.retry = run[r].retry + 1]]
          /\ UpdateJob(run[r].job, run[r].retry + 1)
    /\ loop' = [loop EXCEPT ![s] = [pc |-> "finish", cur |-> r, todo |-> @.todo]]
    /\ UNCHANGED <<proc, intake, budget, history>>

\* What the second half of settling run r does to the store and the history.
SettleEffect(r) ==
    LET j == run[r].job IN
    \/ /\ run[r].phase = "deleting"
       /\ UnsafeDeleteJob(j)
       /\ completed' = completed \cup {j}
       /\ UNCHANGED failures
    \/ /\ run[r].phase = "dying"
       /\ AddToSet("dead", j, run[r].retry)
       /\ failures' = [failures EXCEPT ![j] = @ + 1]
       /\ UNCHANGED completed
    \/ /\ run[r].phase = "retrying"
       /\ AddToSet("retry", j, run[r].retry)
       /\ failures' = [failures EXCEPT ![j] = @ + 1]
       /\ UNCHANGED completed

\* The second half: DEL of the payload, or ZADD into the dead or retry set.
Finish(s) ==
    LET r == loop[s].cur IN
    /\ Alive(s)
    /\ loop[s].pc = "finish"
    /\ SettleEffect(r)
    /\ run' = Forget({r})
    /\ loop' = [loop EXCEPT ![s] = [pc |-> "settle", cur |-> NoRun, todo |-> @.todo \ {r}]]
    /\ UNCHANGED <<proc, intake, budget, submitted, performed>>

\* A command of handleCompletedJobs fails: the loop reports onJobLoopError and
\* starts over.  The workers not yet settled were already removed from
\* activeWorkers, so nothing holds them any more.
SettleFault(s) ==
    /\ Alive(s)
    /\ loop[s].pc \in {"settle", "finish"}
    /\ loop[s].todo # {}
    /\ Spend("fault")
    /\ \/ UNCHANGED <<storeVars, failures, completed>>
       \/ loop[s].pc = "finish" /\ SettleEffect(loop[s].cur)
    /\ run' = Forget(loop[s].todo)
    /\ loop' = [loop EXCEPT ![s] = IdleLoop]
    /\ UNCHANGED <<proc, intake, submitted, performed>>

\* startJobs: everything in jobsToStart becomes an active worker, then each
\* worker is started.
StartJobs(s) ==
    /\ Alive(s)
    /\ loop[s].pc = "settle"
    /\ loop[s].todo = {}
    /\ run' = SetPhase(RunsOf(s, {"toStart"}), "starting")
    /\ loop' = [loop EXCEPT ![s] = IdleLoop]
    /\ UNCHANGED <<storeVars, proc, intake, budget, history>>

\* config.dependencies() throws: the workers not yet started stay in
\* activeWorkers and are never done.
StartFault(s) ==
    /\ Alive(s)
    /\ loop[s].pc = "settle"
    /\ loop[s].todo = {}
    /\ Spend("fault")
    /\ \E rs \in SUBSET RunsOf(s, {"toStart"}) :
            /\ rs # {}
            /\ run' = [r \in Runs |->
                        CASE r \in rs -> [run[r] EXCEPT !.phase = "leaked"]
                          [] r \in RunsOf(s, {"toStart"}) \ rs ->
                                [run[r] EXCEPT !.phase = "starting"]
                          [] OTHER -> run[r]]
    /\ loop' = [loop EXCEPT ![s] = IdleLoop]
    /\ UNCHANGED <<storeVars, proc, intake, history>>

-----------------------------------------------------------------------------
(* Shutdown *)

\* shutdown(), once the pollers are stopped.
Shutdown(s) ==
    /\ proc[s] = "up"
    /\ Spend("shutdown")
    /\ proc' = [proc EXCEPT ![s] = "stopping"]
    /\ UNCHANGED <<storeVars, intake, loop, run, history>>

\* Mutant of CleanupWorkers: workers still starting are left out.
CleanupPerforming(s) ==
    /\ Alive(s) /\ IsShuttingDown(s)
    /\ loop[s].pc = "top"
    /\ loop' = [loop EXCEPT ![s] = [pc |-> "cleanup", cur |-> NoRun,
                    todo |-> RunsOf(s, {"performing", "leaked"})]]
    /\ UNCHANGED <<storeVars, proc, intake, run, budget, history>>

\* cleanupWorkersDuringShutdown takes its snapshot of the active workers
\* that are not done.
CleanupWorkers(s) ==
    /\ Alive(s) /\ IsShuttingDown(s)
    /\ loop[s].pc = "top"
    /\ loop' = [loop EXCEPT ![s] = [pc |-> "cleanup", cur |-> NoRun,
                    todo |-> RunsOf(s, {"starting", "performing", "leaked"})]]
    /\ UNCHANGED <<storeVars, proc, intake, run, budget, history>>

\* One worker of the snapshot: updateJob ...
CleanupUpdate(s, r) ==
    /\ Alive(s)
    /\ loop[s].pc = "cleanup"
    /\ r \in loop[s].todo
    /\ UpdateJob(run[r].job, run[r].retry)
    /\ loop' = [loop EXCEPT ![s] = [pc |-> "requeue", cur |-> r, todo |-> @.todo]]
    /\ UNCHANGED <<proc, intake, run, budget, history>>

\* Mutant of CleanupRequeue: the worker stays in the snapshot.
CleanupAgain(s) ==
    LET r == loop[s].cur IN
    /\ Alive(s)
    /\ loop[s].pc = "requeue"
    /\ Len(queue[QueueOf[run[r].job]]) < Cardinality(Jobs)
    /\ Requeue(run[r].job, run[r].retry)
    /\ run' = [run EXCEPT ![r].requeued = TRUE]
    /\ loop' = [loop EXCEPT ![s].pc = "cleanup"]
    /\ UNCHANGED <<proc, intake, budget, history>>

\* ... then requeue.  The handler goes on running; nobody will settle it.
CleanupRequeue(s) ==
    LET r == loop[s].cur IN
    /\ Alive(s)
    /\ loop[s].pc = "requeue"
    /\ Requeue(run[r].job, run[r].retry)
    /\ run' = [run EXCEPT ![r].requeued = TRUE]
    /\ loop' = [loop EXCEPT ![s] = [pc |-> "cleanup", cur |-> NoRun, todo |-> @.todo \ {r}]]
    /\ UNCHANGED <<proc, intake, budget, history>>

\* A command of the cleanup fails: workerHandleLoop rejects and
\* workerHandleLoopTerminated is never set.
CleanupFault(s) ==
    LET r == loop[s].cur IN
    /\ Alive(s)
    /\ loop[s].pc \in {"cleanup", "requeue"}
    /\ loop[s].todo # {}
    /\ Spend("fault")
    /\ \/ UNCHANGED <<storeVars, run>>
       \/ /\ loop[s].pc = "requeue"
          /\ Requeue(run[r].job, run[r].retry)
          /\ run' = [run EXCEPT ![r].requeued = TRUE]
    /\ loop' = [loop EXCEPT ![s] = [pc |-> "wedged", cur |-> NoRun, todo |-> {}]]
    /\ UNCHANGED <<proc, intake, history>>

CleanupEnd(s) ==
    /\ Alive(s)
    /\ loop[s].pc = "cleanup"
    /\ loop[s].todo = {}
    /\ loop' = [loop EXCEPT ![s].pc = "ended"]
    /\ UNCHANGED <<storeVars, proc, intake, run, budget, history>>

\* shutdown() sees both loops terminated, cleans up and emits onShutdown.
ShutdownDone(s) ==
    /\ proc[s] = "stopping"
    /\ intake[s].pc = "ended" /\ loop[s].pc = "ended"
    /\ proc' = [proc EXCEPT ![s] = "stopped"]
    /\ UNCHANGED <<storeVars, intake, loop, run, budget, history>>

LoopStep(s) ==
    \/ HandleCompletedJobs(s)
    \/ \E r \in Runs : Settle(s, r)
    \/ Finish(s) \/ StartJobs(s)
    \/ CleanupWorkers(s)
    \/ \E r \in Runs : CleanupUpdate(s, r)
    \/ CleanupRequeue(s) \/ CleanupEnd(s) \/ ShutdownDone(s)

\* The memory of process s is lost.
Vanish(s) ==
    /\ proc' = [proc EXCEPT ![s] = "gone"]
    /\ run' = Forget(RunsOf(s, Phases))
    /\ intake' = [intake EXCEPT ![s] = [IdleIntake EXCEPT !.pc = "ended"]]
    /\ loop' = [loop EXCEPT ![s] = [IdleLoop EXCEPT !.pc = "ended"]]

\* process.exit(0) after shutdown() in the signal handler.
Exit(s) ==
    /\ proc[s] = "stopped"
    /\ Vanish(s)
    /\ UNCHANGED <<storeVars, budget, history>>

\* The process dies at any other moment.
Crash(s) ==
    /\ proc[s] \in {"up", "stopping"}
    /\ Spend("crash")
    /\ Vanish(s)
    /\ UNCHANGED <<storeVars, history>>

-----------------------------------------------------------------------------
Faults ==
    \/ \E s \in Servers : IntakeFault(s) \/ SettleFault(s) \/ StartFault(s) \/ CleanupFault(s)
    \/ \E r \in Runs : WorkerFault(r)

Next ==
    \/ \E j \in Jobs : Submit(j)
    \/ \E s \in Servers : IntakeStep(s) \/ LoopStep(s)
    \/ \E r \in Runs : WorkerStep(r)
    \/ \E s \in Servers : Shutdown(s) \/ Exit(s) \/ Crash(s)
    \/ Faults

Spec == Init /\ [][Next]_vars

\* Node's event loop and Redis let every loop go on, BRPOP answers within its
\* timeout, and a job handler's promise settles.  Shutdown, exit, crashes and
\* faults are never forced.
Fairness ==
    /\ \A s \in Servers : WF_vars(IntakeStep(s)) /\ WF_vars(LoopStep(s))
    /\ \A r \in Runs : WF_vars(WorkerStep(r))

FairSpec == Spec /\ Fairness

-----------------------------------------------------------------------------
(* Properties *)

\* A server never holds more than config.concurrency jobs in jobsToStart and
\* activeWorkers together, although intakeLoopIter computes the number of free
\* slots without the lock, once, and fetches against it while the worker loop
\* moves jobs between the lists.
ConcurrencyBound ==
    \A s \in Servers : Cardinality(RunsOf(s, Occupying)) <= Concurrency

\* Who can still decide what becomes of job j: a place in a queue or a sorted
\* set, an intake that popped it, or a run not yet handed back by a shutdown.
Custodians(j) ==
    {<<"queue", i>> : i \in InQueue(j)}
    \cup {<<"set", z>> : z \in InSet(j)}
    \cup {<<"intake", s>> : s \in {s \in Servers : intake[s].pc = "read" /\ intake[s].job = j}}
    \cup {<<"run", r>> : r \in {r \in Runs : run[r].job = j /\ ~run[r].requeued}}

\* BRPOP, the settling of workers and the requeueing of a shutdown hand a job
\* over without ever leaving it in two hands, whatever crashes or fails.
SingleCustody == \A j \in Jobs : Cardinality(Custodians(j)) <= 1

Undisturbed ==
    budget = [b \in Budgets |-> CASE b = "shutdown" -> MaxShutdowns
                                  [] b = "crash" -> MaxCrashes
                                  [] b = "fault" -> MaxFaults]

\* As long as no process stops and no call fails, a submitted job is settled
\* as a success or is in exactly one place: the two loops lose nothing.
JobsAccounted ==
    Undisturbed => \A j \in submitted : j \in completed <=> Custodians(j) = {}

\* An id waiting in a queue or a sorted set has its payload: the DEL of one
\* settling never hits a job that is waiting again.
WaitingHasPayload == \A j \in Jobs : InRedis(j) => stored[j] # NoPayload

\* The retry count never passes maxRetries.  handleErroredJob compares the two
\* with === only, so a count that once got past it would be retried forever.
RetryBound(j, retry) == MaxRetries[j] \in Nat => retry <= MaxRetries[j]

RetriesBounded ==
    /\ \A j \in Jobs : stored[j] \in Nat => RetryBound(j, stored[j])
    /\ \A r \in Runs : run[r].phase # "free" => RetryBound(run[r].job, run[r].retry)

\* The retry count stored with a job waiting for its retry is the number of
\* its settled failures, and a job that can be retried dies exactly when its
\* first attempt and all its retries have failed.  (A shutdown can break the
\* first half, see RetriesNotSkipped.)
RetryAccounting ==
    /\ \A j \in zset["retry"] : stored[j] = failures[j]
    /\ \A j \in zset["dead"] \cap Handled :
            MaxRetries[j] \in Nat => failures[j] = MaxRetries[j] + 1

\* With shutdowns, the updateJob of a Worker.start that was under way when the
\* job was requeued may land after another server has settled the job and put
\* an older count back.  The job may then be tried too often, never too rarely.
RetriesNotSkipped ==
    /\ \A j \in zset["retry"] : stored[j] # NoPayload => stored[j] <= failures[j]
    /\ \A j \in zset["dead"] \cap Handled :
            MaxRetries[j] \in Nat => failures[j] > MaxRetries[j]

\* "TaskBotJS only guarantees at least once execution" (comment of
\* cleanupWorkersDuringShutdown): when no process crashed and no call failed,
\* a job its handler was never called for is still waiting in Redis once
\* every server has shut down.
AtLeastOnce ==
    /\ \A s \in Servers : ~Alive(s)
    /\ budget["crash"] = MaxCrashes /\ budget["fault"] = MaxFaults
    => \A j \in submitted \cap Handled : j \in performed \/ InRedis(j)

\* The promise awaited on shutdown() makes sure "that any jobs currently being
\* executed are returned to the job queue": the intake may still fetch and
\* handlers may still end while the cleanup goes through its snapshot, but no
\* unfinished worker is missed by it.
ShutdownReturnsExecuting ==
    \A s \in Servers : proc[s] = "stopped" =>
        \A r \in RunsOf(s, {"starting", "performing", "leaked"}) : run[r].requeued

\* shutdown() returns once it is called, when no Redis call of the cleanup
\* fails, although the intake goes on fetching after isShuttingDown is set.
ShutdownTerminates ==
    \A s \in Servers :
        proc[s] = "stopping" ~> proc[s] \in {"stopped", "gone"} \/ budget["fault"] < MaxFaults
=============================================================================
