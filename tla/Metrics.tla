------------------------------ MODULE Metrics -------------------------------
(***************************************************************************)
(* The counters "metrics/<name>" and "metrics/<name>/<day>" of Redis.  The *)
(* Metrics plugin listens to the events of its server; a listener takes a  *)
(* client of the pool and increments the total, then the counter of the    *)
(* day the job was started or ended.  Nobody waits for the listeners.      *)
(***************************************************************************)
EXTENDS Integers, FiniteSets, FiniteSetsExt

CONSTANTS
    Emitters,   \* the server processes
    LastDay     \* bound: the days are 1 .. LastDay

ASSUME MetricsAssumption ==
    /\ IsFiniteSet(Emitters)
    /\ LastDay \in Nat \ {0}

VARIABLES
    total,      \* the counter of all time of each metric
    dated,      \* the counter of each metric and day
    pending     \* listeners under way: what they count, and their next INCR

metricsVars == <<total, dated, pending>>

Counters == {"processed", "completed", "errored", "died"}
Days == 1 .. LastDay
Steps == {"total", "dated"}
Listeners == Emitters \X Counters \X Days \X Steps

MetricsInit ==
    /\ total = [c \in Counters |-> 0]
    /\ dated = [c \in Counters |-> [d \in Days |-> 0]]
    /\ pending = [l \in Listeners |-> 0]

-----------------------------------------------------------------------------
\* An event of server e for a job of day d: its listener begins.
Emit(e, cs, d) ==
    /\ pending' = [l \in Listeners |->
                    pending[l] + (IF l \in {e} \X cs \X {d} \X {"total"} THEN 1 ELSE 0)]
    /\ UNCHANGED <<total, dated>>

\* Mutant of IncrementTotal: both counters are meant to move, one does.
IncrementOnly(e, c, d) ==
    LET l == <<e, c, d, "total">> IN
    /\ pending[l] > 0
    /\ total' = [total EXCEPT ![c] = @ + 1]
    /\ pending' = [pending EXCEPT ![l] = @ - 1]
    /\ UNCHANGED dated

\* INCR of the total ...
IncrementTotal(e, c, d) ==
    LET l == <<e, c, d, "total">> IN
    /\ pending[l] > 0
    /\ total' = [total EXCEPT ![c] = @ + 1]
    /\ pending' = [pending EXCEPT ![l] = @ - 1, ![<<e, c, d, "dated">>] = @ + 1]
    /\ UNCHANGED dated

\* ... and of the day.
IncrementDated(e, c, d) ==
    LET l == <<e, c, d, "dated">> IN
    /\ pending[l] > 0
    /\ dated' = [dated EXCEPT ![c][d] = @ + 1]
    /\ pending' = [pending EXCEPT ![l] = @ - 1]
    /\ UNCHANGED total

\* An INCR fails, or its answer is lost: the listener rejects and nobody
\* tries again.
ListenerFault(e) ==
    \E c \in Counters, d \in Days, step \in Steps :
        LET l == <<e, c, d, step>> IN
        /\ pending[l] > 0
        /\ pending' = [pending EXCEPT ![l] = @ - 1]
        /\ \/ UNCHANGED <<total, dated>>
           \/ step = "total" /\ total' = [total EXCEPT ![c] = @ + 1] /\ UNCHANGED dated
           \/ step = "dated" /\ dated' = [dated EXCEPT ![c][d] = @ + 1] /\ UNCHANGED total

\* The process is gone, with its listeners.
DropListeners(e) ==
    /\ pending' = [l \in Listeners |-> IF l[1] = e THEN 0 ELSE pending[l]]
    /\ UNCHANGED <<total, dated>>

ListenerStep(e) ==
    \E c \in Counters, d \in Days : IncrementTotal(e, c, d) \/ IncrementDated(e, c, d)

-----------------------------------------------------------------------------
(* What the panel reads *)

\* The days getDatedMetrics answers for, in whatever order the two ends came.
DatesOf(start, end) == (Min({start, end}) .. Max({start, end}) - 1) \cup {Max({start, end})}

DatedMetrics(start, end) == [d \in DatesOf(start, end) |-> [c \in Counters |-> dated[c][d]]]

\* The listeners under way for c, before the given step.
Under(c, step) == SumFunctionOnSet(pending, {l \in Listeners : l[2] = c /\ l[4] = step})

\* What the days of an answer add up to.
OfDays(c, answer) == SumFunction([d \in DOMAIN answer |-> answer[d][c]])
=============================================================================
