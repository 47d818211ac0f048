---------------------------- MODULE JobLifecycle ----------------------------
(***************************************************************************)
(* What TaskBotJS promises about one job, whatever processes, loops, sets  *)
(* and lists it takes: the states a job goes through, in which order, and  *)
(* what the retry options say about each failure.                          *)
(*                                                                         *)
(*   new --> queued <-- moving <-- delayed      (a scheduled job is new    *)
(*             |                      ^          and then delayed)         *)
(*             +--> held -------------+                                    *)
(*                   |    \                                                *)
(*                   v     v                                               *)
(*              completed  dead                                            *)
(*                                                                         *)
(* Once a process has stopped or a call has failed (disturbed), a job in   *)
(* flight may also be handed back or be lost.                              *)
(***************************************************************************)
EXTENDS Integers

CONSTANTS
    Jobs,
    Scheduled,      \* the jobs given to scheduleAt, the others are enqueued
    Handled,        \* the jobs that have a handler
    MaxRetries,     \* a number, NoRetries or EndlessRetries for each job
    NoRetries, EndlessRetries

VARIABLES
    state,          \* where each job is
    performed,      \* the jobs whose handler was called
    failures,       \* the attempts of each job that failed and were settled
    disturbed       \* a process was told to stop or died, or a call failed

jobVars == <<state, performed, failures, disturbed>>

InFlight == {"moving", "held"}

Init ==
    /\ state = [j \in Jobs |-> "new"]
    /\ performed = {}
    /\ failures = [j \in Jobs |-> 0]
    /\ disturbed = FALSE

-----------------------------------------------------------------------------
(* What happens to one job.  Each operator gives the next state and failure  *)
(* count of j only; Next says that the other jobs keep theirs.               *)

Goes(j, from, to) ==
    /\ state[j] = from /\ state'[j] = to
    /\ failures'[j] = failures[j]

Fails(j, to) ==
    /\ state[j] = "held" /\ state'[j] = to
    /\ failures'[j] = failures[j] + 1

Stays(j) == state'[j] = state[j] /\ failures'[j] = failures[j]

Loses(j) == \E from \in {"queued", "delayed"} \cup InFlight : Goes(j, from, "lost")

\* An attempt can fail without a handler, and only then without being one.
Attempted(j) == j \in performed \/ j \notin Handled

\* A failure is the last one when there is no handler, no retry allowed, or
\* none left.  Never too early; after a disturbance perhaps too late.
MayDie(j) ==
    \/ j \notin Handled
    \/ MaxRetries[j] = NoRetries
    \/ MaxRetries[j] \in Nat /\ failures[j] >= MaxRetries[j]

MayRetry(j) ==
    /\ j \in Handled
    /\ MaxRetries[j] # NoRetries
    /\ MaxRetries[j] \in Nat => disturbed \/ failures[j] < MaxRetries[j]

Moves(j) ==
    \/ j \in Scheduled /\ Goes(j, "new", "delayed")
    \/ j \notin Scheduled /\ Goes(j, "new", "queued")
    \/ Goes(j, "delayed", "moving")
    \/ Goes(j, "moving", "queued")
    \/ Goes(j, "queued", "held")
    \/ j \in performed /\ Goes(j, "held", "completed")
    \/ Attempted(j) /\ MayRetry(j) /\ Fails(j, "delayed")
    \/ Attempted(j) /\ MayDie(j) /\ Fails(j, "dead")

-----------------------------------------------------------------------------
\* One job makes a move, the others stay where they are.
Advance ==
    /\ \E j \in Jobs : Moves(j) /\ \A k \in Jobs \ {j} : Stays(k)
    /\ UNCHANGED <<performed, disturbed>>

\* The handler of one job is called: of a job held, or after a disturbance of
\* one that was handed back and may be anywhere by now.
Perform ==
    /\ \E j \in Handled : (state[j] = "held" \/ disturbed) /\ performed' = performed \cup {j}
    /\ UNCHANGED <<state, failures, disturbed>>

Unhurt(j) == Stays(j) \/ (state[j] \in InFlight /\ Loses(j))

\* A disturbance: jobs in flight may be lost, and the call that failed may
\* still have had its effect on one job.
Disturb ==
    /\ disturbed' = TRUE
    /\ \/ \A j \in Jobs : Unhurt(j)
       \/ \E j \in Jobs : /\ Moves(j) \/ Loses(j) \/ Goes(j, "held", "queued")
                         /\ \A k \in Jobs \ {j} : Unhurt(k)
    /\ UNCHANGED performed

\* After a disturbance jobs in flight may be handed back or found lost.
Recover ==
    /\ disturbed
    /\ \A j \in Jobs : Unhurt(j) \/ Goes(j, "held", "queued")
    /\ UNCHANGED <<performed, disturbed>>

Next == Advance \/ Perform \/ Disturb \/ Recover

Spec == Init /\ [][Next]_jobVars
=============================================================================
