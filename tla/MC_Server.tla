----------------------------- MODULE MC_Server ------------------------------
(* Instances of Server for TLC: three kinds of job, two queues. *)
EXTENDS Server, TLC

CONSTANTS s1, s2, jA, jB, jC, qHigh, qLow

\* jA is retried without end, jB is never retried, jC has no handler.
MCQueueOf == (jA :> qHigh) @@ (jB :> qLow) @@ (jC :> qHigh)
MCMaxRetries == (jA :> EndlessRetries) @@ (jB :> NoRetries) @@ (jC :> 1)
MCHandled == {jA, jB}

RunSymmetry == Permutations(Runs)
=============================================================================
