---------------------------- MODULE MC_Explorer -----------------------------
(* An instance of Explorer for TLC: three jobs on pages of two. *)
EXTENDS Explorer, TLC

CONSTANTS jA, jB, jC, qAll

MCQueueOf == [j \in Jobs |-> qAll]
MCScore == jA :> 1 @@ jB :> 2 @@ jC :> 3
\* All jobs are in one place when the browser arrives.
MCInit ==
    /\ ExplorerInit
    /\ \E place \in Shown : Members(place) = Jobs
    /\ queue[qAll] \in {<<>>, <<jC, jB, jA>>}

MCSpec == MCInit /\ [][ExplorerNext]_explorerVars /\ ExplorerFairness

MCEndpoints == {<<"delete", "queue">>, <<"launch", "dead">>}
=============================================================================
