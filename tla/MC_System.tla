----------------------------- MODULE MC_System ------------------------------
(* Instances of System for TLC. *)
EXTENDS System, TLC

CONSTANTS s1, jA, jB, qAll, p1, p3

\* jA may be retried once, jB never is and has a schedule.
MCQueueOf == [j \in Jobs |-> qAll]
MCMaxRetries == [j \in Jobs |-> IF j = jB THEN NoRetries ELSE 1]
MCScheduled == Jobs \cap {jB}

MCSourceOf == [p \in Pollers |-> IF p = p3 THEN "scheduled" ELSE "retry"]
MCOwnerOf == [p \in Pollers |-> s1]

\* All the endpoints that change jobs.
MCEndpoints == ({"launch", "delete"} \X Places) \cup {<<"clean", "dead">>}

RunRequestSymmetry == Permutations(Runs) \cup Permutations(Requests)
=============================================================================
