# TaskBotJS in TLA+

TaskBotJS is a job queue on Redis. Clients put jobs into queues or schedule
them; server processes take jobs from the queues, run their handlers, and
retry or bury what fails; a panel lets an operator look at jobs, launch them
early and delete them. This directory holds TLA+ modules translated from the
TypeScript source, TLC configurations that check them on small instances, and
proofs of theorems that hold for every instance.

All paths are relative to the repository. `PROJECT.json` maps each definition
to the lines it stands for.

## Inventory

### Components

| component | source | state | operations | model |
|---|---|---|---|---|
| Store | `client/src/Client/*.ts`, `client/src/ClientBase` | Redis: a list per queue, `jobs/<id>`, the sorted sets `retry`, `scheduled`, `dead` | enqueue, requeue, fetch, update, delete, add to and remove from a set | `Store` |
| Server | `service/src/Server/index.ts`, `Worker.ts`, `intakes/` | `jobsToStart`, `activeWorkers`, loop flags, `isShuttingDown` | intake loop, worker-handle loop, `Worker.start`, settle, shutdown, exit | `Server` |
| Retry and scheduled plugins | `corePlugins/RetryPlugin.ts`, `ScheduledPlugin.ts`, `ScoreSortedSet.fetchAndUse` | the job an iteration has in hand | find, ZREM, GET, use | `SetPoller`, `TaskBot` |
| Janitor plugin | `corePlugins/JanitorPlugin.ts`, `ScoreSortedSet.cleanBetween` | the batch read | scan, delete batch | `WebAPI`, `System` |
| Poller | `Server/Poller.ts` | one remembered timer handle, `executing` | doStart, loop, doStop | `Poller`, `Process` |
| Web API | `webapi/src/WebAPIApp` | what each request has read so far | launch, retry, resurrect, delete, clean; lists and single jobs | `WebAPI`, `System`, `Explorer` |
| Worker registry, heartbeat | `Server/Heartbeat`, `Client/index.ts`, `Dashboard/Workers` | the `workers/<name>` keys | beat, clear, list, clean up dead workers | `Registry`, `Observed` |
| Metrics | `Server/Metrics`, `Client/Counter.ts` | the `metrics/...` keys | increment on events, dated answers | `Metrics`, `Observed` |
| Client pool | `client/src/redis/pool.ts`, `buildClientPool` | clients on loan, callers in line | acquire, release, drain | `Process` |
| Paging | `Queue.ts`, `ScoreSortedSet.ts`, `paginationMiddleware` | none | peek, map, find, the pagers | `Paging` |
| Web UI explorers | `webui/src/components/{Queue,Set}Explorer`, `Main.js`, `Ticker.js` | the URL, the page shown, queries under way | query, answer, navigate, launch, delete | `Explorer` |
| Client middleware | `client/src/ClientMiddleware.ts` | none | encode and decode passes | not modelled |
| Retry timing | `client/src/Job/backoff.ts`, `service/src/util/random.ts` | none | intervals, splay | not modelled |
| Configuration, panel server, CLI, examples | `*/Config`, `panel/src`, `example/` | none that changes | load, mount | not modelled, but for the sizes of the pools |

### How they interact

Everything shared lives in Redis; every process talks to it through `Client`,
one command or one MULTI at a time. A job's *id* is in at most one list or set
(that is what the properties below examine) and its descriptor is under
`jobs/<id>`. A job normally goes

    client --enqueue--> queue --BRPOP--> jobsToStart -> activeWorkers -> settled
    client --add--> scheduled --poller--> queue             |-> deleted (success)
                        retry --poller--> queue <-----------|-> retry
                                                            '-> dead

and every arrow that touches Redis is a place where a process may die, a call
may fail, and another process may be between two steps of its own. Inside one
server the intake loop and the worker-handle loop share `jobsToStart` and
`activeWorkers`; handlers run for as long as they like meanwhile.

### What is hard

* **Two loops over two lists**, one of which reads the number of free slots
  without the lock and uses it over many awaits.
* **BRPOP before anything else**: from the reply to the settling the job exists
  only in the memory of one process.
* **Settling in two commands** (`updateJob`, then DEL or ZADD) after the
  worker was removed from `activeWorkers`.
* **Shutdown with everything still running**: handlers go on after their jobs
  were requeued, and write the descriptor they read long ago.
* **Pollers that overlap**, within a process (two timer chains) and between
  processes, with ZREM as the only arbiter.
* **Panel requests of several commands**, of which only some look at the
  replies.
* **Strict equality on `maxRetries`**: a count that skips the limit is never
  stopped.
* **A pool everybody shares**: two loops keep a client for good; pollers (two
  chains each), heartbeats, BRPOP, all the workers that start at once and the
  listeners of the metrics stand in one line for the rest, and the shutdown
  stands in it too.
* **Records read one after another** while their servers die and others delete
  them, and counters moved by listeners nobody waits for.
* **Pages over a list that moves**, several queries under way at a time, and
  component instances that survive a change of URL with their old props.

`PROJECT.json` lists each hazard at its line with the properties that cover it.

## Modules

Every `MC_` module gives values to the constants for TLC and nothing else.

**`Store`** has the three variables of Redis that decide where a job is:
`queue`, `stored` (the retry count in the descriptor, or `NoPayload`), `zset`.
One operator is one command or MULTI. The rest of a descriptor, and scores,
are left out: no property tells them apart, and leaving due dates open allows
every order that clocks could produce. Redis executes a command or a MULTI
atomically; that is what is assumed of it.

**`Server`** has, per process, `proc` (`up`, `stopping`: `isShuttingDown`,
`stopped`: `shutdown()` has returned, `gone`), a program counter for each loop
(`intake`, `loop`), and the in-memory descriptors `run`. A run's `phase` says
which list holds it and how far it is; both lists of the code are sets of runs
by phase. One action is one Redis command with the code that follows its reply
up to the next await that can really wait. `Intake*` is `intakeLoop` /
`intakeLoopIter` / `WeightedJobIntake.fetch`; `Worker*` is `Worker.start`;
`HandleCompletedJobs`, `Settle`, `Finish`, `StartJobs` are the iteration of
`workerHandleLoop`; `Shutdown`, `Cleanup*`, `ShutdownDone`, `Exit` the graceful
end. `*Fault` actions are the rejections the code catches, or does not: a
failing command may or may not have been executed. `Crash` loses a process's
memory at any moment. `submitted`, `performed`, `failures`, `completed` are
history: no guard of the code reads them (`Submit` uses `submitted` so that an
id is used once, as the generated ids are).

**`SetPoller`** is `fetchAndUse` as the two plugins use it. **`TaskBot`** puts
servers, scheduling clients and pollers on one store; a process that goes takes
its pollers along. Pollers go on during a shutdown, because `doStop` does not
stop them reliably (see `Poller`).

**`WebAPI`** has one `request` per call of an endpoint that changes jobs, with
what it has read so far, and the janitor, which runs the same `cleanBetween`.
A request may be cut off between any two commands. **`System`** runs requests
next to `TaskBot`.

**`JobLifecycle`** is the abstract specification: one state per job (`new`,
`delayed`, `moving`, `queued`, `held`, `completed`, `dead`, `lost`), which may
follow which, and when a failure may or must not be the last. It knows no
process, list or set. Undisturbed, a job cannot be lost or handed back and dies
with exactly the last attempt it is allowed; once a process has stopped or a
call has failed, jobs in flight may be lost or handed back. `StateOf` in
`TaskBot` is the refinement mapping (from the one custodian of a job) and
`RefinesLifecycle` the claim, `Lifecycle!Spec`.

**`Poller`** is the timers of one poller: pending timers, the one handle it
remembers, the iterations in progress.

**`Registry`** is the keys `workers/<name>`: `heart` and `beats` are the
Heartbeat plugin of each server (its interval; the beats that have passed the
`isShuttingDown` check), `record` the key (`none`, `fresh`, or `old`: not written
for 15 seconds), `inquiry` a call of `getWorkerInfo` that reads one record after
another, for the list or for `cleanUpDeadWorkers`, and `widget` the component
that shows the list. **`Metrics`** is the counters: `total`, `dated`, and how many
listeners are before which of their two INCRs. **`Observed`** puts both next to
`Server`: `ObservedStart` and `ObservedFinish` emit the events of the code where
the code does, `CleanUpPlugins` stands between the end of the loops and the end
of `shutdown()`, and a process that goes takes its listeners and beats along.

**`Process`** is one server process as its pool sees it, with `Poller` inside:
`waiting` is the line in front of `clientPool.acquire`, `using` who has a
client. The loops keep theirs (`StartLoops` to `EndIntakeLoop`,
`EndWorkerLoop`); `StartFetch` and the iterations of the poller come and go.
Heartbeats and the listeners of the metrics are one kind of caller, `aside`:
nobody awaits them, and the pool cannot tell them apart; what they do with their
clients is in `Registry` and `Metrics`. Jobs are numbers here, enough to say how
many callers there are: `StartJobs` puts a caller in line for every job that is
`ready`, none waiting for another; `EndJob` makes it a worker that is `working`,
or, when its `updateJob` failed, one that never will be done (`lost`);
`TakeDone` and `Settle` take those that are done out, on the client of their
loop. `Emit` brings the listeners of an event into the line, `StartBeat` a
heartbeat at any time. `StopPoller` to `CleanUp` is `shutdown()` in its order,
with the drain last; if the DEL of the heartbeat fails, it rejects, and the
process stays. A client needs a connection of the Redis pool, so that the
smaller of the two pools counts (`Clients`). Loops may go through their
iterations until they see the flag and end between any two of them, whenever
that is. Handlers and plugins of the user may take clients too; none is in the
repository. `turn` is history: it follows one call, whichever, to the head of
the line.

**`Paging`** is arithmetic only: `LRANGE` and `ZRANGE` with negative indices,
and what `peek`, `find`, the pagination middleware and the pagers make of them.
A sorted set is ordered by `Score`, which stands for the scores and, where they
are equal, the ids: `Zrank` counts who comes before, `Ranks` is the set as a
list. **`Explorer`** is a browser on it: `route` the URL, `screen` the state of
the component that is mounted, `query` the calls of `_query` and `_fetch` under
way (one action per Redis command of their requests), `clicked` the button
pressed. `Show` is the router: a URL rendered by the same component keeps the
instance, its state and its queries (`GoOn`), as `Switch` does with routes that
render the same type; any other mounts a new one (`Mount`), and so does
`/retry`, whose redirect to `/retry/page/1` is rendered in between. The other
processes are what they do to the keys (`OthersTake`, `OthersPut`); buttons run
the requests of `WebAPI`. `Shift` marks the queries whose place has lost
something since they began, or holds an id without a descriptor: indices mean
nothing to them any more.

**`ServerProofs`**, `CustodyProofs`, `TaskBotProofs`, `LifecycleProofs`,
`SystemProofs`, `PollerProofs`, `ObservedProofs` and `ExplorerProofs` hold the
theorems; see *Proofs*.

## Runs

| run | instance | checks | result |
|---|---|---|---|
| `server_one` | 1 server, 2 slots, 3 jobs (endless retries, no retries, no handler), 2 queues, 3 runs; one shutdown, one crash, one fault; fair | `ConcurrencyBound`, `SingleCustody`, `JobsAccounted`, `ShutdownReturnsExecuting`, `ShutdownTerminates` | holds |
| `taskbot_crash` | 2 servers, 1 slot each, 2 jobs (2 retries; none, scheduled), 3 pollers; one crash, one fault | `BotSingleCustody`, `BotJobsAccounted`, `WaitingHasPayload`, `RetryAccounting`, `RetriesBounded`, `RefinesLifecycle` | holds |
| `taskbot_shutdown` | the same with 2 pollers, 3 runs and one shutdown | `BotSingleCustody`, `BotCompletedStaysOut`, `RetriesNotSkipped`, `RefinesLifecycle` | holds |
| `taskbot_live` | the same, undisturbed, fair | `JobsFinish` | holds |
| `system_panel` | 1 server, 1 slot, 2 jobs, 2 pollers, 2 requests to any endpoint | `SysSingleCustody`, `SysJobsAccounted`, `RetriesBounded`, `SysRetriesNotSkipped`, the three type invariants | holds |
| `process_pool` | one process, 3 clients, 2 slots, one poller with 3 handles, 1 heartbeat or listener at a time; shutdown or death at any time; fair | `ChainsConserved`, `NewestRemembered`, `PoolServes`, `KeepsFetching`, `PollsAgain`, `ShutdownReturns` | holds |
| `observed` | 1 server, 1 slot, 1 job (1 retry or none), 2 days, 2 inquiries; one shutdown, crash or fault, and without a job a shutdown and a fault; fair | `CountersAccount`, `DatedWithinTotal`, `CleanupRemovesTheDead`, `LiveWorkerReappears` | holds |
| `explorer` | 1 queue and 2 sets, 3 jobs, pages of 2, 2 queries at a time, 1 click at a time (delete from the queue, launch from a set), 1 visit, 1 change by others; fair | `PagesCover`, `MissedForACause`, `PageCatchesUp` | holds |
| `server_atleastonce` | as `server_one`, one shutdown | `AtLeastOnce` | violated |
| `taskbot_fetchanduse` | 1 server, 1 fault, fair | `FailedUseReturned` | violated |
| `system_contains` | as `system_panel`, one request | `RefusedOnlyIfAbsent` | violated |
| `poller_overlap` | one poller | `RunsDoNotOverlap` | violated |

What the runs show, in words:

* **Slots.** The unlocked estimate of free slots is safe: the worker loop can
  only free slots, and the intake never reserves more than it saw. Two slots and
  three jobs are the smallest instance in which the two loops can disagree by
  more than the whole capacity; the theorem covers all others.
* **Custody.** A job is never in two hands, where a hand is a position in a
  queue, a set, an intake between BRPOP and `jobsToStart`, a run that was not
  requeued, a poller between ZREM and its push, or a `Queue.launch` between LREM
  and RPUSH. Two racing pollers and two servers are needed for a race, and one
  crash or fault for each cut between two commands. With the panel this holds
  for every job no request has launched from a *set*: those launches push
  whatever ZREM finds, so a job a poller has just moved is queued twice.
* **Nothing is lost** while no process stops and no call fails; with the panel,
  unless somebody deletes the job, or the panel stops within `Queue.launch`. A
  delete is an excuse only where its LREM or ZREM found the job or its DEL took
  the payload; a request that came too late loses nothing.
* **Retries.** The count never passes `maxRetries`, so the `===` of
  `handleErroredJob` always meets it. Without shutdowns the count is exactly the
  number of failures settled. With shutdowns it is not: a `Worker.start` still
  waiting for its `updateJob` when its job was requeued may write an older count
  after another server has settled the job. `RetriesNotSkipped` says what
  remains: a job is tried too often at worst, never too rarely. With the panel
  (`SysRetriesNotSkipped`) this leaves out the jobs a launch from a set has put
  in two places: two servers may then work on the two copies, the failure of one
  writes its count to the payload, and the other copy is read with that count,
  and may be back in the retry set, before the first failure is settled. The
  theorem covers any number of servers; the run has one.
* **Shutdown** ends at whatever moment it is called, although the intake keeps
  fetching until its inner loop is over, and no unfinished worker is missed by
  the snapshot. It does not end if a command of the cleanup fails
  (`workerHandleLoopTerminated` is then never set), hence the disjunct.
* **Progress.** Every job is completed or dead in the end if no process stops.
* **The course of a job.** Two servers, their pollers and their clients together
  do to a job what `JobLifecycle` allows and nothing else: no completion without
  its handler, no death before the retries are used up, and, until something
  fails or stops, no loss and not one attempt too many. The invariants above say
  where jobs may be; this says which way they may have come.
* **The pool.** Three clients are enough for one process: every call that stands
  in line is served, however many others of its own kind or of another are in
  it, the intake keeps fetching, the poller keeps polling, and `shutdown()` ends
  whoever stands in line when it begins. A worker whose `updateJob` fails costs
  its slot for good, and only when all are gone does the fetching stop. It needs
  the order the code has, first come first served and the drain after the
  plugins: with the drain first the heartbeat gets no client, its cleanup
  rejects and the process never exits. Two clients are not enough
  (`ProcessAssumption`): `BRPOP` needs one beside the two the loops keep.
* **Chains.** `doStart` leaves two chains of timers, `doStop` ends at most one;
  the other polls on until its process dies, failing at once when the pool is
  draining.
* **Counters.** Total and dated counters never run ahead of what happened, and
  differ from it, and from each other, by what listeners under way have still to
  do unless a call failed or a process stopped. A job that dies is counted as
  died *and* as errored.
* **Workers.** A live server is listed again after any cleanup that took its
  fresh record for an old one; a cleanup that answers has removed every server
  that was dead when it began, also one whose last beat was written after its
  own clearing or whose own clearing failed, but for those whose DEL failed in
  the cleanup itself: that is caught, logged and counted 0, and the answer is
  the same.
* **Pages.** The pages the links lead to cover each queue and set, and no two of
  them share a row, but that a page of a set may share one with the next. The
  page of a job reports it missing only if it, or a page it was on, moved or
  lost a payload meanwhile, or for the rank 0 of `contains`; jobs that are only
  added while `find` scans hide nothing. And the list shows its URL's page in
  the end, in whatever order the answers came and whatever props the queries
  were made with; an empty queue, for which `_query` throws, is the exception.

### What does not hold

* `AtLeastOnce`: `cleanupWorkersDuringShutdown` looks at `activeWorkers` only.
  A job the intake has put into `jobsToStart` after the worker loop left is in
  no list that is requeued, and is lost without its handler ever being called.
* `FailedUseReturned`: `fetchAndUse` returns `fn(data)` without awaiting it.
  The catch block that should add the job back never sees its rejection.
* `RefusedOnlyIfAbsent`: `contains` is `!!ZRANK`, and rank 0 is false. The
  first member of a set cannot be launched, retried or resurrected.
* `RunsDoNotOverlap`: `doStart` sets a timer after the `loop` it awaited has
  already set one. Two chains poll from then on, overlap, and `doStop` ends at
  most one of them.

### Bounds

`MaxShutdowns`, `MaxCrashes`, `MaxFaults` bound how often processes stop and
calls fail; `Runs` bounds the descriptors in memory (one more than the slots
where a requeued run may linger, and none of the properties is vacuous when all
are in use: `IntakeRead` then waits); `Handles` the timers. Restarting a process
is a further element of `Servers`. Queue lengths, retry counts and failures need
no bound of their own: jobs are finitely many and, with endless retries,
`failures` is limited because the server has no pollers in that run. `observed`
allows one disturbance while there is a job, and a shutdown with one fault,
which may be that of its own cleanup, while there is none; a fault of the loops
of a server that is shutting down is in `server_one`. Inquiries are made while
no job is at work, and two at a time only before there are jobs: they share
nothing with jobs, and a server shuts down and crashes without jobs as it does
with them. Two days are enough for a dated answer with its ends swapped; one
server is enough for the registry because an inquiry and a server are the two
that race, and a record of a server that is gone stays as that of another would.
In `explorer`, pages of two rows and three jobs give a full page, a last page
that is not, and a set whose pages overlap; two queries are the fewest whose
answers can be swapped. `MaxMoves`, `MaxVisits` and `MaxQueries` bound the
changes by others, the visits and the queries; the jobs begin in any one of the
three lists and the browser on any. The other endpoints run in `system_panel`.
`process_pool` has the smallest pool, where everybody contends, two slots, so
that `StartJobs` brings two callers at once, and three handles: at most two
timers are pending, one more is remembered. `MaxAside` bounds how many
heartbeats and listeners are under way at a time; in the code they may pile up.
`PoolServes` does not live on that bound, nor on the number of slots: it follows
one call through the line, whatever comes behind it, and asks only that the line
moves; it holds for two at a time with one slot as well (153134 states). Run
identities, and requests, are interchangeable and reduced by symmetry where no
liveness is checked. Deadlock checking is off where a system whose jobs are all
settled, or whose processes are gone, really stops; it is on for
`poller_overlap`: a poller never stops.

### Fairness

`FairSpec` and `FairBotSpec` assume weak fairness of the intake step and the
loop step of each server, of the step of each worker and of each poller; node's
event loop serves every ready callback, BRPOP has a timeout, and pollers have
timers. Fairness of `WorkerEnd` says that handlers settle, which no server can
force (there is no cancellation, as a comment in `workerHandleLoopIter` says);
liveness is conditional on it. Nothing is assumed about which outcome a handler
has, nor that submissions, shutdowns, crashes or faults happen.
`ProcessFairness` says that the pool lends a free client, timers fire, whoever
has a client gives it back, and the steps of `start()` and `shutdown()` go on
once begun, and that handlers end; that anybody calls `shutdown()` is not
assumed, nor that there are jobs to fetch. `ObservedFairness` is that of the
heartbeats of a server that runs. `ExplorerFairness` is that of the ticker, and
of the queries under way together: a single one may never be answered.

## Proofs

Every theorem holds for any sets of servers, jobs, queues, runs, pollers and
requests, any concurrency and any bounds, from the named assumptions on the
constants only: `Runs`, `Handles` are finite, `Concurrency` is positive, a job
has one queue, its `MaxRetries` is a number or one of the two values for "never"
and "always", a poller reads one set and belongs to one server, the values that
mean "none" are none of the others, page sizes are positive and the panel asks
for no more rows than the middleware grants (both numbers are 10). Where jobs
are counted, in `Paging` and `Observed`, they are finitely many. Each module
shows one or several inductive invariants, with one lemma per action or group of
actions that touch the same thing.

| module | theorem | states |
|---|---|---|
| `ServerProofs` | `TypeCorrect` | `TypeOK` |
| | `ConcurrencyBounded` | `ConcurrencyBound` |
| | `RetriesAreBounded` | `RetriesBounded` |
| `CustodyProofs` | `CustodyIsSingle` | `SingleCustody` |
| | `WaitingJobsHavePayload` | `WaitingHasPayload` |
| | `JobsAreAccounted` | `JobsAccounted` |
| | `ShutdownHandsBack` | `ShutdownReturnsExecuting` |
| `TaskBotProofs` | `PollersKeepType` | `PollerTypeOK` |
| | `BotCustodyIsSingle` | `BotSingleCustody` |
| | `CompletedStaysOut` | `BotCompletedStaysOut` |
| | `BotWaitingJobsHavePayload` | `WaitingHasPayload`, with pollers |
| | `BotJobsAreAccounted` | `BotJobsAccounted` |
| | `RetriesAreNotSkipped` | `RetriesNotSkipped` |
| | `RetriesAreAccounted` | `RetryAccounting`, until a shutdown is requested |
| `LifecycleProofs` | `BotRetriesAreBounded` | `RetriesBounded`, with pollers |
| | `TaskBotImplementsLifecycle` | `RefinesLifecycle` |
| `SystemProofs` | `SystemKeepsType` | `TypeOK`, `PollerTypeOK`, `APITypeOK` |
| | `SysCustodyIsSingle` | `SysSingleCustody` |
| | `SysJobsAreAccounted` | `SysJobsAccounted` |
| | `SysRetriesAreBounded` | `RetriesBounded`, with pollers and requests |
| | `SysRetriesAreNotSkipped` | `SysRetriesNotSkipped` |
| `PollerProofs` | `ChainsAreConserved` | `ChainsConserved` |
| | `NewestIsRemembered` | `NewestRemembered` |
| | `ProcessImplementsTimers` | `ProcessSpec => TimersSpec` |
| | `ProcessConservesChains` | `ChainsConserved`, in the process with its pool |
| | `ProcessRemembersNewest` | `NewestRemembered`, likewise |
| `ObservedProofs` | `DeadAreRemoved` | `CleanupRemovesTheDead` |
| | `CountersTellTheTruth` | `CountersAccount` |
| | `ChartNeverExceedsTotals` | `DatedWithinTotal` |
| `ExplorerProofs` | `PagesAreCovered` | `PagesCover` |
| | `MissesHaveACause` | `MissedForACause` |

**Types.** `TypeOK` is not inductive: `Settle` and `Finish` write the job of a
run the loop points to, and nothing in `TypeOK` says that this run is in use.
`Held` adds who holds a run (`RunsHeld`), that an intake that has popped has a
job (`IntakeHeld`), and that the workers a loop goes through are its own, in the
phases it expects (`LoopOwns`). `PollersHold` and `RequestsHold` do the same for
pollers and requests: one that goes on has something to go on with, in
particular a launch from a queue has read a payload before it removes the id.

**Concurrency.** `ConcurrencyBound` is not inductive: the intake adds a run
without looking at the lists. `SlotsReserved` says that the occupied slots and
those the intake may still fill together fit into the concurrency while its
iteration is under way. Only `IntakeIter` establishes it and only `IntakeRead`
uses it up; every other action leaves the occupied runs of a server the same or
fewer, which is the lemma family `Calm*`. That is the argument of the comment in
`intakeLoopIter` ("this is a safe lower-bound estimate"), checked.

**Custody.** `SingleCustody` counts the custodians of a job, in queues, sets,
intakes and runs. The proof replaces the count by `Alone`: at most one place of
each kind, and none of another kind beside it. That is still not inductive. A
push in `CleanupRequeue` is harmless only because its run stops to be a
custodian in the same step, and only if nothing else has the job. The run that
was requeued goes on in its worker, so that no loop may settle it afterwards
(`HandedBack`: it belongs to a loop that has left its settling and has it no
longer on its list); a free run must not carry an old job (`FreeIsEmpty`); a
queue holds jobs of its own (`QueuesSorted`); and what is completed or not
submitted is nowhere (`HeldIsPending`), or `Submit` could make a second copy.
Their conjunction is `Custody`. Each action then takes a job from one place to
one place (`Passes`), shown over what the commands of the store do to the places
of a job (`LpushPushes`, `RpopPops`, ...). `TaskBotProofs` adds the pollers as a
place (`BotCustody`): two that found the same member due cannot both have it,
since only the one whose ZREM returns 1 goes on. `SystemProofs` adds the
requests that launch a queued job (`SysCustody`), except for jobs that were
launched out of a set, which the endpoint may duplicate (see `contains` above).

**Accounting.** That no job is lost without a disturbance is a second
invariant, `NothingLost`, on top of `Charged` (a process stops or a call fails
only at the cost of the budget). It uses `PendingHasPayload`: a read that finds no
payload drops the id, so that the loss of a payload would be the loss of a job.
With the panel, `SysNothingLost` leaves out what `discarded` records.

**Shutdown.** `CleanupCovers`: from the snapshot of `cleanupWorkersDuringShutdown`
on, a run of the server in one of the executing phases is requeued or still on the
list of what is to be handed back, and `stopped` comes after the list is done.

**Retries.** A count is incremented only where `IsDead` has just found it
different from `maxRetries`, and every write to the store takes the count of a
run, a poller or a launch, so that `RetriesBounded` is inductive with
`PollersBounded` and `RequestsBounded`. `RetriesNotSkipped` needs what each copy
of a count says of `failures`. `Counted` states it for runs (one more than the
failures while the retry is written and not yet added), for payloads, for
pollers and for the dead. A payload is excepted while its run has counted a
failure that is not in `failures` yet (`Ahead`). Counts agree exactly until a
shutdown is requested and are at most the failures after it: then a
`Worker.start` of a requeued run may still write its older count. This is why
`RetriesAreAccounted` has the premise `budget["shutdown"] = MaxShutdowns`; with
`MaxShutdowns = 0`, as in `taskbot_crash`, it is `RetryAccounting` outright.

With requests, a launch writes back a count it read some steps earlier.
`SysCounted` follows it: what a payload says, and what a request that may write
it back has read, is at most `Attempted`, the failures counted and the one that
is `Ahead`. A delete can take a payload from under a run, and a process can die
with a failure uncounted, so that this is claimed only of a job that can still
be handled (`SysLive`): a job that is nowhere stays so, whatever an old request
writes. Custody is what makes the bound enough: a job that is in a queue, a set,
an intake, a poller or a launch has no run beside it, so that nothing is ahead
(`NotAhead`), and whoever takes it over reads at most its failures.
`SysRetriesNotSkipped` makes the same exception as `SysSingleCustody`, for jobs
in two places.

**Refinement.** `TaskBotImplementsLifecycle` is BotSpec => `Lifecycle!Spec`
under the mapping `StateOf`. Initial states map to initial states; for the
steps, each action is shown to be a move of one job (`Advance`), a call of a
handler (`Perform`), a disturbance (`Disturb`), its aftermath (`Recover`) or a
stutter, from `Living`: custody places every job in one state, `Counted` gives
the number of failures with which a job may or must die, and `Outcomes` says why
a run is in its phase (a run that is `ok` has been performed, one that is
`dying` has no retry left).

**Poller and registry.** `TimersInv` adds to the two properties that nothing is
set before the first iteration has ended. In `Process` an iteration waits in
line for a client and the poller is started and stopped by the steps of its
server; each step is shown to be a step of `Poller` or to leave its timers alone
(`ProcessImplementsTimers`), from which the two properties follow there.
`RegistryInv` follows a cleanup: the record of a server that was dead and old
when it began is gone, still to be read, read and still to be deleted, or one
whose DEL has failed (`RestsUntilRemoved`), since a server that rests does not
beat again (`Rests`). It is proved over `ObservedSpec`, with the servers that
beat, shut down, fail to and die.

**Counters.** The two invariants are inductive together with `Custody` and
`Charged`. `Custody` is needed because `Happened` counts a completed or dead job
once: a worker that is settled must have a job that was neither
(`SettledIsNew`). `Charged` is needed because a server that has shut down tells
its listeners nothing: it takes a process that is no longer up to go untold, and
then something has been charged to the budget. A listener either moves what it
counts on (`Conserves`), or what it counts is lost with it (`Drops`); a step of a
server adds to `Happened` exactly its events (`EffectHappens`, `StartHappens`,
`FinishHappens`). Listeners under way and the days of the chart are added up by
folds over sets. `EveryNumber` (in `ServerProofs`) is induction over the numbers
stated with a set in place of a predicate, `EverySubset` the same over the
subsets of a finite set; from them `SumsExist` shows that the recursive function
in `SumFunctionOnSet` exists, and `SumMoves`, `SumUpTo` and `SumSame` what it does
when its summands change. `ObservedAssumption` says that jobs are finitely many,
without which the number of failures of all of them would mean nothing.

**Explorer.** `PagesCover` is a fact about every list and every set, no reachable
state needed beyond their types. A page is described by the positions it shows:
of a queue, those at a distance from the tail in an interval (`TailWindow`,
`QueuePage`), of a set, those whose rank is (`HeadWindow`, `SetPage`). The rest is
arithmetic: the intervals of the pages up to `LastPage` cover all positions, and
two of them are disjoint, but for one row that two neighbours of a set may share
(`PagesApart`). That a set
is a list by rank at all is shown by induction over the numbers (`RanksNumber`).

`MissedForACause` needs `StillThere`, which says of each query what it may rely
on while its place loses nothing: the job is there, and either on the page that
was just read or as far from the tail as `Queue.find` has come (`Beyond`). It is
kept because a push at the head moves nobody nearer to the tail and a push at
the tail moves everybody away from it (`NoNearer`): the scan can see a job twice
and skip none. If a job page of a set asked for page 1 first, the job is not its
first member or that page had it; members are only added meanwhile, so that a
rank that is not zero stays so (`RankGrows`). The panel's own requests and the
other processes change the lists by the same commands (`ListSteps`), and mark
the queries whose place lost something.

### Only model-checked

* Liveness: `ShutdownTerminates`, `JobsFinish`, `PoolServes`, `KeepsFetching`,
  `PollsAgain`, `ShutdownReturns`, `LiveWorkerReappears`, `PageCatchesUp`.
  Fairness and ENABLED are out of the prover's reach.
* `RetryAccounting` after a shutdown was requested: it is false then.
* The failing claims of the `violation` runs: there is nothing to prove.

## Not modelled

Logging, wording, rendering, configuration loading and packaging: they keep no
state the properties speak of. `requireAcknowledgment` is false for the one
intake in the repository, so `acknowledgeQueueJob` is never called. Clocks and
scores: any member of a set may be due, any record may be 15 seconds old.
Handler code: an outcome is chosen freely.

* *Client middleware*: the repository has none of its own; how often a
  descriptor is encoded and decoded is about its content, which no module keeps.
* *Retry timing*: powers, jitter and floating point. Every interval is allowed.
* *The other widgets of the dashboard* show one answer each; `MetricChart` is a
  placeholder. `metrics/storage` hands on what INFO says.
* *Panel server, CLI, examples*: they mount and start the parts above.

## Noticed while reading

No run shows these; they are outside what the modules keep, or too plain to need
one.

* `perform` and `scheduleAt` hand `args` on as one argument to a rest parameter
  (`client/src/ClientBase/index.ts:97,111`), so that it is wrapped once more.
* `intervalSplayMilliseconds` computes the splay from the interval
  (`service/src/util/random.ts:37`).
* `Intake.stop()` has no caller, so that `doFetch` goes on during a shutdown
  (`service/src/Server/intakes/Intake.ts:40`; the models let it).
* A worker that is done but not settled when the loop leaves for its cleanup is
  neither settled nor requeued (`service/src/Server/index.ts:343`).
* Plugins are cleaned up while requeued handlers still run, which
  `service/src/Server/ServerPlugin/index.ts:35-36` excludes.
* A record that is deleted between the SCAN and the GET of `getWorkerInfo` is
  read as null, on which the sort and the filter throw; a list of one null is
  answered, and unmounts the page (`client/src/Client/index.ts:223`,
  `ShowWorkers` in `Registry`, down to `widget = "crashed"`).
* `shutdown()` rejects when the DEL of the heartbeat fails, before
  `process.exit`: the process stays, without loops (`CleanUp` in `Process`,
  `ObservedDone`).
* `ScoreSortedSet.peek` asks ZRANGE for `offset` to `offset + limit`, both
  included, and returns one item more than its doc allows
  (`client/src/Client/ScoreSortedSet.ts:224,228`). `Paging` has it as it is;
  `PagesCover` says that it costs a row shown twice and nothing else, and would
  hold of a `peek` without it.
* A failed DEL in `cleanUpDeadWorkers` is not told by the answer, nor by the
  page (`client/src/Client/index.ts:244`).

## Plan

Every module of the inventory is written: `Store`, `Server`, `SetPoller`,
`TaskBot`, `JobLifecycle`, `WebAPI`, `System`, `Poller`, `Process`, `Registry`,
`Metrics`, `Observed`, `Paging`, `Explorer`, and the eight modules of proofs.
Every invariant and every action property that a passing run checks is stated by
a theorem (`RetryAccounting` until the first shutdown), and so are the two
refinements (`RefinesLifecycle`, `ProcessImplementsTimers`). What is left is
liveness, which the runs check.
