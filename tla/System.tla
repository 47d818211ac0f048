------------------------------- MODULE System -------------------------------
(***************************************************************************)
(* TaskBot together with the panel: operators launch, delete and clean     *)
(* jobs while servers and pollers handle the same jobs.                    *)
(***************************************************************************)
EXTENDS TaskBot, WebAPI

sysVars == <<botVars, apiVars>>

SysInit == BotInit /\ APIInit

Serve(p) ==
    /\ RequestStep(p)
    /\ UNCHANGED <<serverVars, pollerVars>>

ServeFault(p) ==
    /\ RequestFault(p)
    /\ UNCHANGED <<serverVars, pollerVars>>

SysNext ==
    \/ BotNext /\ UNCHANGED apiVars
    \/ \E p \in Requests : Serve(p) \/ ServeFault(p)

SysSpec == SysInit /\ [][SysNext]_sysVars

-----------------------------------------------------------------------------
(* Properties *)

SysCustodians(j) == BotCustodians(j) \cup {<<"request", p>> : p \in LaunchingQueued(j)}

\* Only a launch from a sorted set can put a job in two places: it pushes the
\* job whether or not the job has left the set since contains.  Launching a
\* queued job, deleting and cleaning never do, whatever they race with.
SysSingleCustody == \A j \in Jobs \ relaunched : Cardinality(SysCustodians(j)) <= 1

\* Without crash, fault or shutdown of a server, an unfinished job leaves the
\* system only if somebody deleted it, the dead set was cleaned of it, or its
\* Queue.launch was cut off after the LREM: launches that end lose nothing
\* even when they race with servers, pollers and each other.
SysJobsAccounted ==
    Undisturbed =>
        \A j \in submitted \ (completed \cup discarded) : SysCustodians(j) # {}

\* No retry is skipped, although requests read payloads and write them back
\* later.  Of a job that a launch put in two places, one copy may carry the
\* count of an attempt of the other that is not settled yet.
SysRetriesNotSkipped ==
    /\ \A j \in zset["retry"] \ relaunched : stored[j] # NoPayload => stored[j] <= failures[j]
    /\ \A j \in (zset["dead"] \cap Handled) \ relaunched :
            MaxRetries[j] \in Nat => failures[j] > MaxRetries[j]

\* A launch of a job is refused as "not in set" or "already out of the set"
\* (messages of JobSortedSets and of the endpoints) only if the job is not in
\* the set.
RefusedOnlyIfAbsent ==
    [][\A p \in Requests : \A j \in Jobs :
            /\ request[p].pc = "contains" /\ request[p].jobs = {j}
            /\ request'[p].pc = "done"
            => j \notin zset[request[p].place]]_sysVars
=============================================================================
