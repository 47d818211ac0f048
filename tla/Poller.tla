------------------------------- MODULE Poller -------------------------------
(***************************************************************************)
(* service/src/Server/Poller: the timers that start the iterations of one  *)
(* plugin.  A chain is an iteration in progress or the pending timer that  *)
(* will start one; each iteration ends by setting the timer of the next.   *)
(***************************************************************************)
EXTENDS Integers, FiniteSets

CONSTANTS
    Handles,    \* what setTimeout returns; one not in use is taken again
    NoHandle    \* null

ASSUME PollerTimersAssumption ==
    /\ IsFiniteSet(Handles)
    /\ NoHandle \notin Handles

VARIABLES
    life,       \* doStart and doStop: "new", "first", "running", "stopping", "stopped"
    pending,    \* timers that are set and have neither fired nor been cleared
    timeout,    \* the handle the Poller remembers
    executing,  \* the flag of the same name
    iterations  \* iterations in progress, the one doStart awaits included

timerVars == <<life, pending, timeout, executing, iterations>>

TimersInit ==
    /\ life = "new"
    /\ pending = {} /\ timeout = NoHandle
    /\ executing = FALSE
    /\ iterations = 0

\* Mutant of SetLoopOnTimeout: the handle is remembered the first time only.
SetAndForget(h) ==
    /\ h \notin pending \cup {timeout}
    /\ pending' = pending \cup {h}
    /\ timeout' = IF timeout = NoHandle THEN h ELSE timeout

\* setLoopOnTimeout remembers the new handle only.
SetLoopOnTimeout(h) ==
    /\ h \notin pending \cup {timeout}
    /\ pending' = pending \cup {h}
    /\ timeout' = h

\* doStart calls and awaits loop.
DoStart ==
    /\ life = "new"
    /\ life' = "first"
    /\ executing' = TRUE
    /\ iterations' = 1
    /\ UNCHANGED <<pending, timeout>>

\* That iteration ends: loop sets a timer, and doStart, resumed in the same
\* turn of the event loop, sets another.
EndFirst ==
    /\ life = "first"
    /\ life' = "running"
    /\ executing' = FALSE
    /\ iterations' = iterations - 1
    /\ \E g, h \in Handles \ {timeout} :
            /\ g # h
            /\ pending' = pending \cup {g, h}
            /\ timeout' = h

\* A timer fires: loop runs up to its await.
Fire(h) ==
    /\ h \in pending
    /\ pending' = pending \ {h}
    /\ executing' = TRUE
    /\ iterations' = iterations + 1
    /\ UNCHANGED <<life, timeout>>

\* Mutant of EndLoop: an iteration that fails sets no timer.
EndLoopOrFail(h) ==
    /\ life # "first"
    /\ iterations > 0
    /\ SetLoopOnTimeout(h) \/ UNCHANGED <<pending, timeout>>
    /\ executing' = FALSE
    /\ iterations' = iterations - 1
    /\ UNCHANGED life

\* The iteration has ended or failed, which loop only logs.
EndLoop(h) ==
    /\ life # "first"
    /\ iterations > 0
    /\ SetLoopOnTimeout(h)
    /\ executing' = FALSE
    /\ iterations' = iterations - 1
    /\ UNCHANGED life

\* doStop: while executing it gives the iteration 100ms, once.
DoStop ==
    /\ life = "running"
    /\ executing
    /\ life' = "stopping"
    /\ UNCHANGED <<pending, timeout, executing, iterations>>

\* clearTimeout of the handle remembered, which may have fired already.
ClearTimeout ==
    /\ \/ life = "running" /\ ~executing
       \/ life = "stopping"
    /\ life' = "stopped"
    /\ pending' = pending \ {timeout}
    /\ timeout' = NoHandle
    /\ UNCHANGED <<executing, iterations>>

TimersNext ==
    \/ DoStart \/ EndFirst \/ DoStop \/ ClearTimeout
    \/ \E h \in Handles : Fire(h) \/ EndLoop(h)

TimersSpec == TimersInit /\ [][TimersNext]_timerVars

-----------------------------------------------------------------------------
(* Properties *)

Chains == Cardinality(pending) + iterations

\* doStart starts two chains; the only thing that ever ends one is doStop, and
\* it ends at most one of them.
ChainsConserved ==
    CASE life = "new" -> Chains = 0
      [] life = "first" -> Chains = 1
      [] life \in {"running", "stopping"} -> Chains = 2
      [] life = "stopped" -> Chains \in {1, 2}

\* While a poller is not being stopped its remembered handle is the timer set
\* last, so that clearing it ends a chain unless that timer has just fired.
NewestRemembered ==
    life = "running" /\ iterations = 0 => timeout \in pending

\* "the sleep between instances of polling" (TimeInterval), "the interval and
\* splay between runs of the poller" (ServerBase): a run of a poller starts
\* after the one before it has ended.
RunsDoNotOverlap == iterations <= 1
=============================================================================
