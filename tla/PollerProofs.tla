---------------------------- MODULE PollerProofs ----------------------------
(***************************************************************************)
(* What the timers of a Poller keep: how many chains there are at each     *)
(* point of its life, and which timer its one handle remembers; and that a *)
(* poller in its process, in line for a client, is one of those pollers.   *)
(***************************************************************************)
EXTENDS Process, FiniteSetTheorems, TLAPS

\* The type invariant of Poller.
TimersTypeOK ==
    /\ life \in {"new", "first", "running", "stopping", "stopped"}
    /\ pending \subseteq Handles
    /\ timeout \in Handles \cup {NoHandle}
    /\ executing \in BOOLEAN
    /\ iterations \in Nat

\* Until the iteration that doStart awaits has ended no timer is set, and what
\* is in progress is that iteration.
StartsEmpty ==
    /\ life \in {"new", "first"} => pending = {} /\ timeout = NoHandle
    /\ life = "new" => iterations = 0
    /\ life = "first" => iterations = 1

\* The inductive invariant.
TimersInv == TimersTypeOK /\ StartsEmpty /\ ChainsConserved /\ NewestRemembered

-----------------------------------------------------------------------------
\* A set of timers is finite, and a timer that is set or gone counts for one.
LEMMA TimersAreFinite ==
    ASSUME TimersTypeOK
    PROVE  IsFiniteSet(pending) /\ Cardinality(pending) \in Nat
BY PollerTimersAssumption, FS_Subset, FS_CardinalityType DEF TimersTypeOK

LEMMA TimerSet ==
    ASSUME TimersTypeOK, NEW h \in Handles, h \notin pending
    PROVE  Cardinality(pending \cup {h}) = Cardinality(pending) + 1
BY TimersAreFinite, FS_AddElement

LEMMA TimerGone ==
    ASSUME TimersTypeOK, NEW h \in pending
    PROVE  Cardinality(pending \ {h}) = Cardinality(pending) - 1
BY TimersAreFinite, FS_RemoveElement

-----------------------------------------------------------------------------
\* A chain passes from its iteration to the timer of the next one.
LEMMA KeptByEndLoop ==
    ASSUME TimersInv, NEW h \in Handles, EndLoop(h)
    PROVE  TimersInv'
<1>1. TimersTypeOK'
  <2>1. pending' \subseteq Handles /\ timeout' \in Handles
    BY DEF TimersInv, TimersTypeOK, EndLoop, SetLoopOnTimeout
  <2>2. iterations' \in Nat /\ life' = life
    BY DEF TimersInv, TimersTypeOK, EndLoop
  <2>3. executing' \in BOOLEAN
    BY DEF EndLoop
  <2> QED BY <2>1, <2>2, <2>3 DEF TimersInv, TimersTypeOK
<1>2. StartsEmpty'
  BY DEF TimersInv, TimersTypeOK, StartsEmpty, ChainsConserved, EndLoop
<1>3. Chains' = Chains
  <2>1. Cardinality(pending \cup {h}) = Cardinality(pending) + 1
    BY TimerSet DEF TimersInv, EndLoop, SetLoopOnTimeout
  <2> QED BY <2>1, TimersAreFinite DEF TimersInv, TimersTypeOK, Chains, EndLoop, SetLoopOnTimeout
<1>4. ChainsConserved'
  BY <1>3 DEF TimersInv, ChainsConserved, EndLoop
<1>5. NewestRemembered'
  BY DEF NewestRemembered, EndLoop, SetLoopOnTimeout
<1> QED BY <1>1, <1>2, <1>4, <1>5 DEF TimersInv

\* ... and from the timer to the iteration it starts.
LEMMA KeptByFire ==
    ASSUME TimersInv, NEW h \in Handles, Fire(h)
    PROVE  TimersInv'
<1>1. TimersTypeOK' /\ NewestRemembered'
  BY DEF TimersInv, TimersTypeOK, NewestRemembered, Fire
<1>2. StartsEmpty'
  BY DEF TimersInv, TimersTypeOK, StartsEmpty, Fire
<1>3. Chains' = Chains
  <2>1. Cardinality(pending \ {h}) = Cardinality(pending) - 1
    BY TimerGone DEF TimersInv, Fire
  <2> QED BY <2>1, TimersAreFinite DEF TimersInv, TimersTypeOK, Chains, Fire
<1>4. ChainsConserved'
  BY <1>3 DEF TimersInv, ChainsConserved, Fire
<1> QED BY <1>1, <1>2, <1>4 DEF TimersInv

\* The first iteration is one chain, and leaves two.
LEMMA KeptByStart ==
    ASSUME TimersInv, DoStart \/ EndFirst
    PROVE  TimersInv'
<1>1. CASE DoStart
  <2>1. TimersTypeOK' /\ StartsEmpty' /\ NewestRemembered'
    BY <1>1 DEF TimersInv, TimersTypeOK, StartsEmpty, NewestRemembered, DoStart
  <2>2. Chains' = 1
    BY <1>1, FS_EmptySet DEF TimersInv, TimersTypeOK, StartsEmpty, Chains, DoStart
  <2> QED BY <1>1, <2>1, <2>2 DEF TimersInv, ChainsConserved, DoStart
<1>2. CASE EndFirst
  <2>1. PICK g \in Handles, h \in Handles : g # h /\ pending' = pending \cup {g, h} /\ timeout' = h
    BY <1>2 DEF EndFirst
  <2>2. pending = {} /\ iterations = 1 /\ life = "first" /\ life' = "running" /\ iterations' = 0
    BY <1>2 DEF TimersInv, TimersTypeOK, StartsEmpty, EndFirst
  <2>3. TimersTypeOK' /\ StartsEmpty' /\ NewestRemembered'
    <3>1. executing' \in BOOLEAN
      BY <1>2 DEF EndFirst
    <3>2. pending' \subseteq Handles /\ timeout' \in Handles /\ timeout' \in pending'
      BY <2>1, <2>2
    <3> QED BY <2>2, <3>1, <3>2 DEF TimersTypeOK, StartsEmpty, NewestRemembered
  <2>4. Cardinality(pending') = 2
    <3>1. Cardinality({g}) = 1 /\ IsFiniteSet({g})
      BY FS_Singleton
    <3>2. Cardinality({g} \cup {h}) = 2
      BY <2>1, <3>1, FS_AddElement
    <3>3. pending' = {g} \cup {h}
      BY <2>1, <2>2
    <3> QED BY <3>2, <3>3
  <2> QED BY <2>2, <2>3, <2>4 DEF TimersInv, ChainsConserved, Chains
<1> QED BY <1>1, <1>2

\* Clearing the handle ends the chain of that timer, or none.
LEMMA KeptByStop ==
    ASSUME TimersInv, DoStop \/ ClearTimeout
    PROVE  TimersInv'
<1>1. CASE DoStop
  BY <1>1 DEF TimersInv, TimersTypeOK, StartsEmpty, ChainsConserved, Chains, NewestRemembered, DoStop
<1>2. CASE ClearTimeout
  <2>1. TimersTypeOK' /\ StartsEmpty' /\ NewestRemembered'
    BY <1>2 DEF TimersInv, TimersTypeOK, StartsEmpty, NewestRemembered, ClearTimeout
  <2>2. Chains = 2
    BY <1>2 DEF TimersInv, ChainsConserved, ClearTimeout
  <2>3. CASE timeout \in pending
    <3>1. Cardinality(pending \ {timeout}) = Cardinality(pending) - 1
      BY <2>3, TimerGone DEF TimersInv
    <3>2. Chains' = 1
      BY <1>2, <2>2, <3>1, TimersAreFinite DEF TimersInv, TimersTypeOK, Chains, ClearTimeout
    <3> QED BY <1>2, <2>1, <3>2 DEF TimersInv, ChainsConserved, ClearTimeout
  <2>4. CASE timeout \notin pending
    <3>1. pending' = pending
      BY <1>2, <2>4 DEF ClearTimeout
    <3>2. Chains' = 2
      BY <1>2, <2>2, <3>1 DEF Chains, ClearTimeout
    <3> QED BY <1>2, <2>1, <3>2 DEF TimersInv, ChainsConserved, ClearTimeout
  <2> QED BY <2>3, <2>4
<1> QED BY <1>1, <1>2

LEMMA TimersKept == TimersSpec => []TimersInv
<1>1. TimersInit => TimersInv
  <2> SUFFICES ASSUME TimersInit PROVE TimersInv
    OBVIOUS
  <2>1. executing \in BOOLEAN
    BY DEF TimersInit
  <2>2. life = "new" /\ pending = {} /\ timeout = NoHandle /\ iterations = 0
    BY DEF TimersInit
  <2>3. Chains = 0
    BY <2>2, FS_EmptySet DEF Chains
  <2> QED BY <2>1, <2>2, <2>3 DEF TimersInv, TimersTypeOK, StartsEmpty, ChainsConserved, NewestRemembered
<1>2. TimersInv /\ [TimersNext]_timerVars => TimersInv'
  <2> SUFFICES ASSUME TimersInv, [TimersNext]_timerVars PROVE TimersInv'
    OBVIOUS
  <2>1. CASE DoStart \/ EndFirst
    BY <2>1, KeptByStart
  <2>2. CASE DoStop \/ ClearTimeout
    BY <2>2, KeptByStop
  <2>3. CASE \E h \in Handles : Fire(h) \/ EndLoop(h)
    BY <2>3, KeptByFire, KeptByEndLoop
  <2>4. CASE UNCHANGED timerVars
    BY <2>4 DEF timerVars, TimersInv, TimersTypeOK, StartsEmpty, ChainsConserved, Chains, NewestRemembered
  <2> QED BY <2>1, <2>2, <2>3, <2>4 DEF TimersNext
<1> QED BY <1>1, <1>2, PTL DEF TimersSpec

-----------------------------------------------------------------------------
\* doStart leaves two chains of iterations where one was meant, no iteration
\* ends or adds one, and doStop ends at most one of them: in a Poller with any
\* number of handles.
THEOREM ChainsAreConserved == TimersSpec => []ChainsConserved
BY TimersKept, PTL DEF TimersInv

\* The handle that a Poller remembers is that of a timer still set whenever it
\* runs and no iteration is in progress, so that doStop does clear one then.
THEOREM NewestIsRemembered == TimersSpec => []NewestRemembered
BY TimersKept, PTL DEF TimersInv

-----------------------------------------------------------------------------
(* The poller in its process *)

\* Whatever else the process does, and however long an iteration waits for its
\* client, the timers make the steps of Poller and no others.
THEOREM ProcessImplementsTimers == ProcessSpec => TimersSpec
<1>1. ProcessInit => TimersInit
  BY DEF ProcessInit
<1>2. [ProcessNext]_processVars => [TimersNext]_timerVars
  <2> SUFFICES ASSUME [ProcessNext]_processVars PROVE TimersNext \/ UNCHANGED timerVars
    OBVIOUS
  <2>1. CASE StartPoller \/ FirePoller \/ EndIteration \/ StopPoller \/ PollerStopped
    BY <2>1 DEF StartPoller, FirePoller, EndIteration, StopPoller, PollerStopped, TimersNext
  <2>2. CASE Grant \/ StartBeat \/ EndAside \/ StartLoops \/ StartFetch \/ EndFetch
    BY <2>2 DEF Grant, StartBeat, EndAside, StartLoops, StartFetch, EndFetch
  <2>3. CASE TakeDone \/ Settle \/ StartJobs \/ EndJob \/ EndIntakeLoop \/ EndWorkerLoop
             \/ CleanUpPlugins \/ CleanUp \/ Die
    BY <2>3 DEF TakeDone, Settle, StartJobs, EndJob, EndIntakeLoop, EndWorkerLoop,
                CleanUpPlugins, CleanUp, Die
  <2>4. CASE UNCHANGED processVars
    BY <2>4 DEF processVars
  <2> QED BY <2>1, <2>2, <2>3, <2>4 DEF ProcessNext
<1> QED BY <1>1, <1>2, PTL DEF ProcessSpec, TimersSpec

\* Two chains for each poller of a server, whatever holds up its clients: the
\* pool never ends a chain, and of the two doStop leaves one at least.
THEOREM ProcessConservesChains == ProcessSpec => []ChainsConserved
BY ProcessImplementsTimers, ChainsAreConserved

\* The handle that a poller of a running process remembers between iterations
\* is that of a timer still set.
THEOREM ProcessRemembersNewest == ProcessSpec => []NewestRemembered
BY ProcessImplementsTimers, NewestIsRemembered
=============================================================================
