---------------------------- MODULE MC_TaskBot ------------------------------
(* Instances of TaskBot for TLC. *)
EXTENDS TaskBot, TLC

CONSTANTS s1, s2, jA, jB, jC, qHigh, qLow, p1, p2, p3

\* jA may be retried twice, jB is never retried and has a schedule, jC has no
\* handler.
MCQueueOf == [j \in Jobs |-> IF j = jB THEN qLow ELSE qHigh]
MCMaxRetries == [j \in Jobs |-> IF j = jB THEN NoRetries ELSE 2]
MCHandled == Jobs \ {jC}
MCScheduled == Jobs \cap {jB}

\* p1 and p2 are overlapping iterations for the retry set, in two servers when
\* there are two.
MCSourceOf == [p \in Pollers |-> IF p = p3 THEN "scheduled" ELSE "retry"]
MCOwnerOf == [p \in Pollers |-> IF p = p2 /\ s2 \in Servers THEN s2 ELSE s1]

RunSymmetry == Permutations(Runs)
=============================================================================
