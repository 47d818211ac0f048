------------------------------ MODULE SetPoller -----------------------------
(***************************************************************************)
(* RetryPlugin and ScheduledPlugin: the periodic iterations that move due  *)
(* jobs from the "retry" and "scheduled" sets to their queues, one         *)
(* ScoreSortedSet.fetchAndUse at a time.  Several iterations may run at    *)
(* once, in one process or in many; a Poller below is one of them.         *)
(*                                                                         *)
(* Which members are due is left open: any member of the set may be the    *)
(* one ZRANGEBYSCORE returns.  An iteration that finds nothing ends and a  *)
(* later tick starts the next one, which is a step that changes nothing.   *)
(***************************************************************************)
EXTENDS Store

CONSTANTS
    Pollers,    \* iterations that may run at the same time
    SourceOf    \* the set each of them serves, "retry" or "scheduled"

ASSUME PollerAssumption == SourceOf \in [Pollers -> {"retry", "scheduled"}]

VARIABLES
    poller,     \* where each iteration stands in fetchAndUse
    failedUse   \* history: jobs on which the function given to fetchAndUse failed

pollerVars == <<poller, failedUse>>

\* A poller at "find" keeps nothing; 'retry' is the descriptor read at "get".
PollerType == [pc : {"find", "zrem", "get", "use"}, job : Jobs \cup {NoPayload}, retry : Nat]
IdlePoller == [pc |-> "find", job |-> NoPayload, retry |-> 0]

\* The pollers keep the shape the code gives them.
PollerTypeOK ==
    /\ poller \in [Pollers -> PollerType]
    /\ failedUse \subseteq Jobs

PollerInit ==
    /\ poller = [p \in Pollers |-> IdlePoller]
    /\ failedUse = {}

\* fetchOne: ZRANGEBYSCORE ... LIMIT 0 1
Find(p, j) ==
    /\ poller[p].pc = "find"
    /\ j \in zset[SourceOf[p]]
    /\ poller' = [poller EXCEPT ![p] = [pc |-> "zrem", job |-> j, retry |-> 0]]
    /\ UNCHANGED <<storeVars, failedUse>>

\* Mutant of Take: the reply of ZREM is not looked at.
TakeUnchecked(p) ==
    /\ poller[p].pc = "zrem"
    /\ Zrem(SourceOf[p], poller[p].job)
    /\ poller' = [poller EXCEPT ![p].pc = "get"]
    /\ UNCHANGED failedUse

\* Mutant of Take: the reply of ZREM is taken the wrong way round.
TakeInverted(p) ==
    LET j == poller[p].job IN
    /\ poller[p].pc = "zrem"
    /\ Zrem(SourceOf[p], j)
    /\ poller' = [poller EXCEPT ![p] = IF j \in zset[SourceOf[p]]
                                       THEN IdlePoller
                                       ELSE [@ EXCEPT !.pc = "get"]]
    /\ UNCHANGED failedUse

\* fetchOne: ZREM; a reply other than 1 means another iteration was faster,
\* fetchOne returns null and orElseFn ends this iteration.
Take(p) ==
    LET j == poller[p].job IN
    /\ poller[p].pc = "zrem"
    /\ Zrem(SourceOf[p], j)
    /\ poller' = [poller EXCEPT ![p] = IF j \in zset[SourceOf[p]]
                                       THEN [@ EXCEPT !.pc = "get"]
                                       ELSE IdlePoller]
    /\ UNCHANGED failedUse

\* fetchOne: GET of the payload; without one, null is parsed to null.
Read(p) ==
    LET j == poller[p].job IN
    /\ poller[p].pc = "get"
    /\ poller' = [poller EXCEPT ![p] = IF HasPayload(j)
                                       THEN [@ EXCEPT !.pc = "use", !.retry = stored[j]]
                                       ELSE IdlePoller]
    /\ UNCHANGED <<storeVars, failedUse>>

\* The function the plugin gives: a retried job goes to the end the servers
\* take from, a scheduled one to the other end.
Use(p) ==
    /\ poller[p].pc = "use"
    /\ \/ SourceOf[p] = "retry" /\ Requeue(poller[p].job, poller[p].retry)
       \/ SourceOf[p] = "scheduled" /\ Enqueue(poller[p].job, poller[p].retry)
    /\ poller' = [poller EXCEPT ![p] = IdlePoller]
    /\ UNCHANGED failedUse

\* A command fails: Poller.loop logs the error and the iteration is over.
\* fetchAndUse returns fn(data) without awaiting it, so that its catch block,
\* which would add the job back, never sees a rejection.  The command may
\* have been executed although its reply was lost.
Fail(p) ==
    LET j == poller[p].job IN
    /\ poller[p].pc # "find"
    /\ \/ UNCHANGED storeVars
       \/ poller[p].pc = "zrem" /\ Zrem(SourceOf[p], j)
       \/ poller[p].pc = "use" /\ SourceOf[p] = "retry" /\ Requeue(j, poller[p].retry)
       \/ poller[p].pc = "use" /\ SourceOf[p] = "scheduled" /\ Enqueue(j, poller[p].retry)
    /\ poller' = [poller EXCEPT ![p] = IdlePoller]
    /\ failedUse' = IF poller[p].pc = "use" THEN failedUse \cup {j} ELSE failedUse

PollerStep(p) == (\E j \in Jobs : Find(p, j)) \/ Take(p) \/ Read(p) \/ Use(p)

\* The process of the pollers of ps is gone.
DropPollers(ps) ==
    /\ poller' = [p \in Pollers |-> IF p \in ps THEN IdlePoller ELSE poller[p]]
    /\ UNCHANGED failedUse

\* The pollers that took j out of its set and have not put it anywhere yet.
HeldBy(j) == {p \in Pollers : poller[p].job = j /\ poller[p].pc \in {"get", "use"}}
=============================================================================
