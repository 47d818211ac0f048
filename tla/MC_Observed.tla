---------------------------- MODULE MC_Observed -----------------------------
(* One server and one job, one that is retried or one that is not, and a panel. *)
EXTENDS Observed, TLC

CONSTANTS s1, jA, jB, q1

MCQueueOf == (jA :> q1) @@ (jB :> q1)
MCMaxRetries == (jA :> 1) @@ (jB :> NoRetries)

\* At most one job, and at most one crash, shutdown or fault, of any kind; without
\* a job, a shutdown and a fault.  While the panel reads records, there is no job
\* at work and no listener under way, with which it shares nothing; and two
\* inquiries race before there are jobs.
MCNext ==
    /\ ObservedNext
    /\ Cardinality(submitted') <= 1
    /\ (\E i \in Inquiries : inquiry'[i] # NoInquiry) =>
            /\ \A r \in Runs : run'[r].phase = "free"
            /\ \A l \in Listeners : pending'[l] = 0
    /\ Cardinality({i \in Inquiries : inquiry'[i] # NoInquiry}) = 2 => submitted' = {}
    /\ \/ budget'["crash"] + budget'["shutdown"] + budget'["fault"] >= 2
       \/ submitted' = {} /\ budget'["crash"] = 1
MCSpec == ObservedInit /\ [][MCNext]_observedVars /\ ObservedFairness
=============================================================================
