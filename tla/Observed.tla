------------------------------ MODULE Observed ------------------------------
(***************************************************************************)
(* Servers with their core plugins Metrics and Heartbeat, and a panel that *)
(* shows what the plugins have written: which events of a server move      *)
(* which counters, and where in the life of a server its record comes and  *)
(* goes.                                                                   *)
(***************************************************************************)
EXTENDS Server, Registry, Metrics

\* The plugins belong to the servers; the records may outlive them.  Only of
\* finitely many jobs can be said how many were tried.
ASSUME ObservedAssumption ==
    /\ Servers \subseteq Workers
    /\ Emitters = Servers
    /\ IsFiniteSet(Jobs)

observedVars == <<vars, registryVars, metricsVars>>

ObservedInit == Init /\ RegistryInit(Servers) /\ MetricsInit

\* emit(...) of server s.  The pool of a server that has shut down is draining
\* and gives the listeners no client.
EmitFrom(s, cs) ==
    IF cs = {} \/ proc[s] = "stopped"
    THEN UNCHANGED metricsVars
    ELSE \E d \in Days : Emit(s, cs, d)

\* onJobStarting is emitted for a job that has a handler only.
ObservedStart(r) ==
    /\ WorkerStart(r)
    /\ EmitFrom(run[r].at, IF run[r].job \in Handled THEN {"processed"} ELSE {})
    /\ UNCHANGED registryVars

\* Mutant of SettledEvents: a job that dies is not an error as well.
SettledOnce(r) ==
    CASE run[r].phase = "deleting" -> {"completed"}
      [] run[r].phase = "dying" -> {"died"}
      [] run[r].phase = "retrying" -> {"errored"}

\* onJobComplete, onJobDeath and onJobError.
SettledEvents(r) ==
    CASE run[r].phase = "deleting" -> {"completed"}
      [] run[r].phase = "dying" -> {"died", "errored"}
      [] run[r].phase = "retrying" -> {"errored"}

ObservedFinish(s) ==
    /\ Finish(s)
    /\ EmitFrom(s, SettledEvents(loop[s].cur))
    /\ UNCHANGED registryVars

\* Everything else a server does before its plugins are cleaned up.
ObservedServer ==
    /\ \/ \E j \in Jobs : Submit(j)
       \/ \E s \in Servers :
            \/ IntakeStep(s) \/ Shutdown(s)
            \/ HandleCompletedJobs(s) \/ StartJobs(s)
            \/ CleanupWorkers(s) \/ CleanupRequeue(s) \/ CleanupEnd(s)
            \/ \E r \in Runs : Settle(s, r) \/ CleanupUpdate(s, r)
       \/ \E r \in Runs : WorkerEnd(r)
       \/ Faults
    /\ UNCHANGED <<registryVars, metricsVars>>

-----------------------------------------------------------------------------
(* Heartbeat *)

HeartBeats(s) ==
    /\ Beat(s) \/ UpdateWorkerInfo(s)
    /\ UNCHANGED <<vars, metricsVars>>

TerminatedLoops(s) ==
    proc[s] = "stopping" /\ intake[s].pc = "ended" /\ loop[s].pc = "ended"

\* shutdown() cleans the plugins up once both loops have terminated ...
CleanUpPlugins(s) ==
    /\ TerminatedLoops(s)
    /\ StopHeart(s) \/ ClearWorkerInfo(s)
    /\ UNCHANGED <<vars, metricsVars>>

\* ... and is done after that, unless the cleanup failed: then it rejects, and
\* the process stays as it is.
ObservedDone(s) ==
    /\ heart[s] = "still"
    /\ ShutdownDone(s)
    /\ UNCHANGED <<registryVars, metricsVars>>

ObservedGone(s) ==
    /\ Exit(s) \/ Crash(s)
    /\ StopBeating(s)
    /\ DropListeners(s)

PluginFault(s) ==
    /\ Spend("fault")
    /\ UNCHANGED <<storeVars, proc, intake, loop, run, history>>
    /\ \/ BeatFault(s) /\ UNCHANGED metricsVars
       \/ TerminatedLoops(s) /\ ClearFault(s) /\ UNCHANGED metricsVars
       \/ ListenerFault(s) /\ UNCHANGED registryVars

-----------------------------------------------------------------------------
Listening(s) == ListenerStep(s) /\ UNCHANGED <<vars, registryVars>>

Panel ==
    /\ (\E i \in Inquiries : InquiryStep(i)) \/ (\E w \in Workers : Ages(w))
    /\ UNCHANGED <<vars, metricsVars>>

ObservedNext ==
    \/ ObservedServer
    \/ \E r \in Runs : ObservedStart(r)
    \/ \E s \in Servers :
            \/ ObservedFinish(s) \/ HeartBeats(s) \/ CleanUpPlugins(s)
            \/ ObservedDone(s) \/ ObservedGone(s) \/ PluginFault(s) \/ Listening(s)
    \/ Panel

ObservedSpec == ObservedInit /\ [][ObservedNext]_observedVars

\* The interval of a heartbeat goes on and its beats get through.
ObservedFairness == \A s \in Servers : WF_observedVars(HeartBeats(s))

FairObservedSpec == ObservedSpec /\ ObservedFairness

-----------------------------------------------------------------------------
(* Properties *)

\* How often what c counts has happened.
Happened(c) ==
    CASE c = "completed" -> Cardinality(completed)
      [] c = "errored" -> SumFunctionOnSet(failures, Jobs)
      [] c = "died" -> Cardinality(zset["dead"])
      [] c = "processed" ->
            Cardinality(completed \cap Handled)
            + SumFunctionOnSet(failures, Handled)
            + Cardinality({r \in Runs : run[r].job \in Handled /\
                    run[r].phase \in {"performing", "ok", "err"} \cup Settling})

\* The counters never tell of anything that did not happen: and when no call
\* failed and no process stopped, they and the listeners under way tell of all
\* that did, a death being an error as well and an attempt that was begun being
\* processed.
CountersAccount ==
    \A c \in Counters :
        /\ c # "processed" => total[c] + Under(c, "total") <= Happened(c)
        /\ Undisturbed => total[c] + Under(c, "total") = Happened(c)

\* The chart of the days and the totals differ by the listeners between their
\* two INCRs, and by those that were lost there, never the other way round:
\* in whichever order the panel names the first and the last day.
DatedWithinTotal ==
    \A c \in Counters :
        LET shown == OfDays(c, DatedMetrics(LastDay, 1)) IN
        /\ shown + Under(c, "dated") <= total[c]
        /\ Undisturbed => shown + Under(c, "dated") = total[c]
=============================================================================
