------------------------------ MODULE TaskBot -------------------------------
(***************************************************************************)
(* The running system: clients that enqueue and schedule jobs, servers     *)
(* that work on them, and in each server the pollers that bring retried    *)
(* and scheduled jobs back, all on one Redis.                              *)
(***************************************************************************)
EXTENDS Server, SetPoller

CONSTANTS
    OwnerOf,    \* the server each poller runs in
    Scheduled   \* the jobs clients schedule; the others are enqueued at once

ASSUME TaskBotAssumption ==
    /\ OwnerOf \in [Pollers -> Servers]
    /\ Scheduled \subseteq Jobs

botVars == <<vars, pollerVars>>

BotInit == Init /\ PollerInit

\* scheduleAtWithOptions of a new job: scheduleSet.add
ScheduleAt(j) ==
    /\ j \in Scheduled \ submitted
    /\ submitted' = submitted \cup {j}
    /\ AddToSet("scheduled", j, 0)
    /\ UNCHANGED <<proc, intake, loop, run, budget, performed, failures, completed, pollerVars>>

\* A process that goes takes its pollers with it.
BotExit(s) == Exit(s) /\ DropPollers({p \in Pollers : OwnerOf[p] = s})
BotCrash(s) == Crash(s) /\ DropPollers({p \in Pollers : OwnerOf[p] = s})

\* Pollers run until their process is gone: doStop waits at most 100ms for an
\* iteration and does not cancel the timers of the iterations it overlaps.
BotPoll(p) ==
    /\ Alive(OwnerOf[p])
    /\ PollerStep(p)
    /\ UNCHANGED serverVars

BotPollFault(p) ==
    /\ Alive(OwnerOf[p])
    /\ Spend("fault")
    /\ Fail(p)
    /\ UNCHANGED <<proc, intake, loop, run, history>>

ServerNext ==
    \/ \E j \in Jobs \ Scheduled : Submit(j)
    \/ \E s \in Servers : IntakeStep(s) \/ LoopStep(s) \/ Shutdown(s)
    \/ \E r \in Runs : WorkerStep(r)
    \/ Faults

BotNext ==
    \/ ServerNext /\ UNCHANGED pollerVars
    \/ \E j \in Jobs : ScheduleAt(j)
    \/ \E s \in Servers : BotExit(s) \/ BotCrash(s)
    \/ \E p \in Pollers : BotPoll(p) \/ BotPollFault(p)

BotSpec == BotInit /\ [][BotNext]_botVars

BotFairness ==
    /\ \A s \in Servers :
            /\ WF_botVars(IntakeStep(s) /\ UNCHANGED pollerVars)
            /\ WF_botVars(LoopStep(s) /\ UNCHANGED pollerVars)
    /\ \A r \in Runs : WF_botVars(WorkerStep(r) /\ UNCHANGED pollerVars)
    /\ \A p \in Pollers : WF_botVars(BotPoll(p))

FairBotSpec == BotSpec /\ BotFairness

-----------------------------------------------------------------------------
(* Properties *)

BotCustodians(j) == Custodians(j) \cup {<<"poller", p>> : p \in HeldBy(j)}

\* Servers, pollers and clients together never have a job in two places, even
\* when several pollers race for it and processes die or calls fail.
BotSingleCustody == \A j \in Jobs : Cardinality(BotCustodians(j)) <= 1

\* Without crash, fault or shutdown no job is ever lost on its way through
\* queue, server, retry set, poller and back.
BotJobsAccounted ==
    Undisturbed => \A j \in submitted : j \in completed <=> BotCustodians(j) = {}

\* A completed job is never brought back by a poller or a shutdown.
BotCompletedStaysOut == \A j \in completed : BotCustodians(j) = {}

\* Every submitted job is in the end completed or dead, through all its
\* retries, when its handler's promises settle and no process stops.
JobsFinish == \A j \in Jobs : j \in submitted ~> j \in completed \/ j \in zset["dead"]

\* "If the function throws an error, the data will be returned to the sorted
\* set" (doc of fetchAndUse).
FailedUseReturned == \A j \in Jobs : j \in failedUse ~> j \in completed \/ InRedis(j)

-----------------------------------------------------------------------------
(* The refinement of JobLifecycle *)

InServer(j) ==
    \/ \E s \in Servers : intake[s].pc = "read" /\ intake[s].job = j
    \/ \E r \in Runs : run[r].job = j /\ ~run[r].requeued

\* Where the one custodian of a job, or its absence, puts it in its life.  One
\* case holds at most, because the job is in one place (BotSingleCustody).
StateOf(j) ==
    CASE j \notin submitted -> "new"
      [] j \in completed -> "completed"
      [] j \in zset["dead"] -> "dead"
      [] InQueue(j) # {} -> "queued"
      [] j \in zset["retry"] \cup zset["scheduled"] -> "delayed"
      [] HeldBy(j) # {} -> "moving"
      [] InServer(j) -> "held"
      [] OTHER -> "lost"

Lifecycle == INSTANCE JobLifecycle
    WITH state <- [j \in Jobs |-> StateOf(j)], disturbed <- ~Undisturbed

\* All processes together take each job through the life JobLifecycle gives
\* it: undisturbed in the promised order and with exactly the promised number
\* of attempts, and otherwise losing or repeating no more than what was in
\* flight in the process that stopped or in the call that failed.
RefinesLifecycle == Lifecycle!Spec
=============================================================================
