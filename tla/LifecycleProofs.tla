--------------------------- MODULE LifecycleProofs --------------------------
(***************************************************************************)
(* TaskBot implements JobLifecycle: every step of the clients, servers and *)
(* pollers is a step of the life promised to each job, or changes nothing  *)
(* in it, for every set of servers, pollers, jobs, queues and runs.        *)
(*                                                                         *)
(* The state of a job is where its one custodian is (TaskBotProofs), so a  *)
(* step is a move of the jobs whose places it changes.  That a job dies or *)
(* is retried when its options say so follows from its counts, there, too, *)
(* and from what is left to show here: which outcome of an attempt led a   *)
(* run to the phase it is in.                                              *)
(***************************************************************************)
EXTENDS TaskBotProofs

-----------------------------------------------------------------------------
(* The inductive invariant *)

\* The counts that the pollers carry are within the bound, too.
PollersBounded == \A p \in Pollers : poller[p].pc = "use" => RetryBound(poller[p].job, poller[p].retry)

\* The phases in which the handler of a run has been called, and those that
\* only a run without a handler comes to uncalled.
Called == {"performing", "ok", "acking", "deleting"}
Failed == {"err", "failing", "dying", "retrying"}

\* Why run r may be in the phase it is in.
Justified(r) ==
    /\ run[r].phase \in Called => run[r].job \in performed
    /\ run[r].phase \in Failed => run[r].job \in performed \/ run[r].job \notin Handled
    /\ run[r].phase = "dying" => IsDead(r)
    /\ run[r].phase = "retrying" => run[r].job \in Handled /\ MaxRetries[run[r].job] # NoRetries

Outcomes == RetriesBounded /\ PollersBounded /\ \A r \in Runs : Justified(r)

\* What the refinement rests on.
Living == Ground /\ Counted /\ Outcomes

-----------------------------------------------------------------------------
(* Outcomes is inductive. *)

\* Nothing that justifies the phase of run r has changed.
Unjudged(r) ==
    \/ run'[r].phase \notin Called \cup Failed
    \/ run'[r].phase = run[r].phase /\ run'[r].job = run[r].job /\ run'[r].retry = run[r].retry

LEMMA JustifiedKept ==
    ASSUME \A r \in Runs : Justified(r), performed \subseteq performed',
           NEW r \in Runs, Unjudged(r)
    PROVE  Justified(r)'
BY DEF Unjudged, Justified, IsDead, Called, Failed

\* Calling the handler, and its end.
LEMMA JustifiedWorker ==
    ASSUME Grounded, \A r \in Runs : Justified(r), NEW x \in Runs, WorkerStep(x) \/ WorkerFault(x),
           NEW r \in Runs
    PROVE  Justified(r)'
<1>1. PICK phase \in {"performing", "ok", "err", "leaked"} :
        /\ run' = SetPhase({x}, phase)
        /\ phase \in {"performing", "ok"} => run[x].job \in performed'
        /\ phase = "err" => run[x].job \in performed' \/ run[x].job \notin Handled
        /\ performed \subseteq performed'
  BY DEF WorkerStep, WorkerStart, WorkerEnd, WorkerFault, history, Justified, Called
<1>2. /\ run'[r].job = run[r].job
      /\ run'[r].phase = IF r = x THEN phase ELSE run[r].phase
  BY <1>1, SetPhaseSame DEF Grounded
<1>3. CASE r = x
  BY <1>1, <1>2, <1>3 DEF Justified, Called, Failed
<1>4. CASE r # x
  <2>1. run'[r] = run[r]
    BY <1>1, <1>4 DEF SetPhase
  <2> QED BY <1>1, <2>1, JustifiedKept DEF Unjudged
<1> QED BY <1>3, <1>4

\* Sorting what is done into successes and failures.
LEMMA JustifiedLoop ==
    ASSUME Grounded, \A r \in Runs : Justified(r), NEW s \in Servers,
           HandleCompletedJobs(s) \/ StartJobs(s) \/ StartFault(s), NEW r \in Runs
    PROVE  Justified(r)'
<1>1. UNCHANGED performed
  BY DEF HandleCompletedJobs, StartJobs, StartFault, history
<1>2. CASE HandleCompletedJobs(s)
  <2>1. /\ run'[r].job = run[r].job
        /\ \/ run'[r] = run[r]
           \/ run[r].phase = "ok" /\ run'[r].phase = "acking"
           \/ run[r].phase = "err" /\ run'[r].phase = "failing"
    BY <1>2 DEF HandleCompletedJobs, RunsOf, Grounded, Held, TypeOK, RunType
  <2>2. CASE run'[r] = run[r]
    BY <1>1, <2>2, JustifiedKept DEF Unjudged
  <2> QED BY <1>1, <2>1, <2>2 DEF Justified, Called, Failed
<1>3. CASE StartJobs(s) \/ StartFault(s)
  <2>1. run'[r] = run[r] \/ run'[r].phase \in {"starting", "leaked"}
    BY <1>3 DEF StartJobs, StartFault, SetPhase, RunsOf, Grounded, Held, TypeOK, RunType
  <2> QED BY <1>1, <2>1, JustifiedKept DEF Unjudged, Called, Failed
<1> QED BY <1>2, <1>3

\* Settling.
LEMMA JustifiedSettle ==
    ASSUME Grounded, \A r \in Runs : Justified(r), NEW s \in Servers, NEW x \in Runs, Settle(s, x),
           NEW r \in Runs
    PROVE  Justified(r)'
<1>1. UNCHANGED performed
  BY DEF Settle, history
<1>2. CASE r # x
  BY <1>1, <1>2, SettleSame, JustifiedKept DEF Grounded, Unjudged
<1>3. CASE r = x
  <2>1. /\ run'[x].job = run[x].job
        /\ \/ run[x].phase = "acking" /\ run'[x].phase = "deleting"
           \/ /\ run[x].phase = "failing" /\ IsDead(x)
              /\ run'[x].phase = "dying" /\ run'[x].retry = run[x].retry
           \/ /\ run[x].phase = "failing" /\ ~IsDead(x)
              /\ run'[x].phase = "retrying"
    <3>1. run'[x].job = run[x].job /\ run[x] \in RunType
      BY SettleSame DEF Grounded, Held, TypeOK
    <3>2. CASE run[x].phase = "acking" /\ run' = SetPhase({x}, "deleting")
      BY <3>1, <3>2 DEF SetPhase, RunType
    <3>3. CASE run[x].phase = "failing" /\ IsDead(x) /\ run' = SetPhase({x}, "dying")
      BY <3>1, <3>3 DEF SetPhase, RunType
    <3>4. CASE /\ run[x].phase = "failing" /\ ~IsDead(x)
               /\ run' = [run EXCEPT ![x] = [run[x] EXCEPT !.phase = "retrying", !.retry = run[x].retry + 1]]
      BY <3>1, <3>4 DEF RunType, Grounded, Held, TypeOK
    <3> QED BY <3>1, <3>2, <3>3, <3>4 DEF Settle
  <2> QED BY <1>1, <1>3, <2>1 DEF Justified, IsDead, Called, Failed
<1> QED BY <1>2, <1>3

LEMMA JustifiedNext ==
    ASSUME Grounded, \A r \in Runs : Justified(r), [Next]_vars, NEW r \in Runs
    PROVE  Justified(r)'
<1>1. CASE \E x \in Runs : WorkerStep(x) \/ WorkerFault(x)
  BY <1>1, JustifiedWorker
<1>2. CASE \E s \in Servers : HandleCompletedJobs(s) \/ StartJobs(s) \/ StartFault(s)
  BY <1>2, JustifiedLoop
<1>3. CASE \E s \in Servers : \E x \in Runs : Settle(s, x)
  BY <1>3, JustifiedSettle
<1>4. CASE \/ UNCHANGED vars
           \/ \E j \in Jobs : Submit(j)
           \/ \E s \in Servers : IntakeStep(s) \/ IntakeFault(s)
  <2>1. UNCHANGED performed
    BY <1>4 DEF Submit, IntakeStep, IntakeAnswer, IntakeIter, IntakeEnd, IntakeFetch, IntakeTimeout,
       IntakeRead, IntakeMissing, IntakeFault, vars, serverVars, history
  <2>2. UNCHANGED run \/ \E s \in Servers : \E x \in Runs : IntakeRead(s, x)
    BY <1>4 DEF Submit, IntakeStep, IntakeAnswer, IntakeIter, IntakeEnd, IntakeFetch, IntakeTimeout,
       IntakeMissing, IntakeFault, vars, serverVars
  <2>3. run'[r] = run[r] \/ run'[r].phase = "toStart"
    BY <2>2 DEF IntakeRead, Grounded, Held, TypeOK
  <2> QED BY <2>1, <2>3, JustifiedKept DEF Unjudged, Called, Failed
<1>5. CASE \E s \in Servers : \/ Finish(s) \/ SettleFault(s) \/ Exit(s) \/ Crash(s)
                               \/ CleanupWorkers(s) \/ CleanupEnd(s) \/ ShutdownDone(s) \/ Shutdown(s)
                               \/ CleanupRequeue(s) \/ CleanupFault(s)
                               \/ \E x \in Runs : CleanupUpdate(s, x)
  <2>1. UNCHANGED performed
    BY <1>5 DEF Finish, SettleFault, Exit, Crash, CleanupWorkers, CleanupEnd, ShutdownDone, Shutdown,
       CleanupRequeue, CleanupFault, CleanupUpdate, history
  <2>2. \/ UNCHANGED run
        \/ \E rs : run' = Forget(rs)
        \/ \E x : run' = [run EXCEPT ![x].requeued = TRUE]
    BY <1>5 DEF Finish, SettleFault, Exit, Crash, Vanish, CleanupWorkers, CleanupEnd, ShutdownDone, Shutdown,
       CleanupRequeue, CleanupFault, CleanupUpdate
  <2>3. Unjudged(r)
    BY <2>2 DEF Unjudged, Forget, FreeRun, Called, Failed, Grounded, Held, TypeOK, RunType
  <2> QED BY <2>1, <2>3, JustifiedKept
<1> QED BY <1>1, <1>2, <1>3, <1>4, <1>5 DEF Next, Faults, LoopStep

\* What a poller carries it has read, and what it writes it has carried.
LEMMA BoundPoll ==
    ASSUME BotGrounded, RetriesBounded, PollersBounded, Polls
    PROVE  RetriesBounded' /\ PollersBounded'
<1>1. PICK p \in Pollers : PollerStep(p) \/ Fail(p)
  BY DEF Polls, BotPoll, BotPollFault
<1> DEFINE j == poller[p].job
           n == poller[p].retry
<1>2. PICK x \in PollerType :
                 /\ poller' = [poller EXCEPT ![p] = x]
                 /\ \/ /\ UNCHANGED storeVars
                       /\ x.pc \in {"find", "zrem"} \/ (x.pc = "use" /\ poller[p].pc = "get" /\ x.job = j
                                                          /\ HasPayload(j) /\ x.retry = stored[j])
                    \/ j \in Jobs /\ Zrem(SourceOf[p], j) /\ x.pc \in {"find", "get"}
                    \/ /\ poller[p].pc = "use" /\ j \in Jobs /\ n \in Nat
                       /\ Requeue(j, n) \/ Enqueue(j, n)
                       /\ x.pc = "find"
  BY <1>1, PollerMoves
<1>3. UNCHANGED run
  BY PollTouches
<1>4. \A i \in Jobs : stored'[i] = stored[i] \/ RetryBound(i, stored'[i])
  <2> SUFFICES ASSUME NEW i \in Jobs, stored'[i] # stored[i] PROVE RetryBound(i, stored'[i])
    OBVIOUS
  <2>1. i = j /\ stored'[i] = n /\ poller[p].pc = "use"
    BY <1>2 DEF storeVars, Zrem, Requeue, Enqueue, BotGrounded, Grounded, Held, TypeOK, StoreTypeOK
  <2> QED BY <2>1 DEF PollersBounded
<1>5. RetriesBounded'
  BY <1>3, <1>4, BoundKept DEF SameCount
<1>6. PollersBounded'
  <2> SUFFICES ASSUME NEW q \in Pollers, poller'[q].pc = "use"
               PROVE  RetryBound(poller'[q].job, poller'[q].retry)
    BY DEF PollersBounded
  <2>1. CASE q # p
    BY <1>2, <2>1 DEF PollersBounded, BotGrounded, PollerTypeOK
  <2>2. CASE q = p
    <3>1. /\ poller'[q] = x /\ poller[p].pc = "get" /\ x.job = j /\ HasPayload(j) /\ x.retry = stored[j]
      BY <1>2, <2>2 DEF BotGrounded, PollerTypeOK
    <3>2. j \in Jobs
      BY <3>1 DEF BotGrounded, PollersHold
    <3>3. stored[j] \in Nat
      BY <3>1, <3>2 DEF HasPayload, BotGrounded, Grounded, Held, TypeOK, StoreTypeOK
    <3> QED BY <3>1, <3>2, <3>3 DEF RetriesBounded
  <2> QED BY <2>1, <2>2
<1> QED BY <1>5, <1>6

LEMMA OutcomesInit == BotInit => Outcomes
BY BoundInit DEF BotInit, Init, PollerInit, IdlePoller, FreeRun, Outcomes, PollersBounded, Justified, Called, Failed

LEMMA OutcomesNext == BotGrounded /\ Outcomes /\ [BotNext]_botVars => Outcomes'
<1> SUFFICES ASSUME BotGrounded, Outcomes, [BotNext]_botVars PROVE Outcomes'
  OBVIOUS
<1>1. CASE Serves
  <2>1. RetriesBounded' /\ \A r \in Runs : Justified(r)'
    BY <1>1, BoundNext, JustifiedNext DEF Serves, BotGrounded, Grounded, Outcomes
  <2>2. PollersBounded'
    BY <1>1 DEF Serves, pollerVars, DropPollers, IdlePoller, Outcomes, PollersBounded
  <2> QED BY <2>1, <2>2 DEF Outcomes
<1>2. CASE \E j \in Jobs : ScheduleAt(j)
  <2>1. PICK j \in Jobs : ScheduleAt(j)
    BY <1>2
  <2>2. UNCHANGED <<run, performed, pollerVars>> /\ AddToSet("scheduled", j, 0)
    BY <2>1 DEF ScheduleAt
  <2>3. RetryBound(j, 0)
    BY DEF RetryBound
  <2>4. RetriesBounded'
    BY <2>2, <2>3, StoredBound, BoundKept DEF SameCount, BotGrounded, Grounded, Outcomes
  <2>5. \A r \in Runs : Justified(r)'
    BY <2>2, JustifiedKept DEF Outcomes, Unjudged
  <2> QED BY <2>2, <2>4, <2>5 DEF pollerVars, Outcomes, PollersBounded
<1>3. CASE Polls
  <2>1. \A r \in Runs : Justified(r)'
    BY <1>3, PollTouches, JustifiedKept DEF Outcomes, Unjudged
  <2> QED BY <1>3, <2>1, BoundPoll DEF Outcomes
<1> QED BY <1>1, <1>2, <1>3, BotCases

LEMMA LivingHolds == BotSpec => []Living
<1>1. BotInit => Living
  BY GroundInit, OutcomesInit DEF Living
<1>2. Living /\ [BotNext]_botVars => Living'
  BY GroundNext, CountedNext, OutcomesNext DEF Living, Ground, BotCustody
<1> QED BY <1>1, <1>2, PTL DEF BotSpec

\* With its pollers, too, and whatever stops or fails, no job gets past the
\* number of retries its options allow.
THEOREM BotRetriesAreBounded == BotSpec => []RetriesBounded
BY LivingHolds, PTL DEF Living, Outcomes

-----------------------------------------------------------------------------
(* The state of a job *)

InHand(j) == IntakesOf(j) \cup BearersOf(j) # {}

\* What StateOf says of a job that is in one place at most.
Placed(j) ==
    /\ j \notin submitted => StateOf(j) = "new"
    /\ j \in completed => StateOf(j) = "completed"
    /\ j \in zset["dead"] => StateOf(j) = "dead"
    /\ InQueue(j) # {} => StateOf(j) = "queued"
    /\ j \in zset["retry"] \cup zset["scheduled"] => StateOf(j) = "delayed"
    /\ HeldBy(j) # {} => StateOf(j) = "moving"
    /\ InHand(j) => StateOf(j) = "held"
    /\ j \in submitted \ completed /\ BotUnheld(j) => StateOf(j) = "lost"

LEMMA InHandIsInServer == ASSUME NEW j PROVE InHand(j) <=> InServer(j)
BY DEF InHand, InServer, IntakesOf, BearersOf

LEMMA StatePlaced == BotCustody => \A j \in Jobs : Placed(j)
<1> SUFFICES ASSUME BotCustody, NEW j \in Jobs PROVE Placed(j)
  OBVIOUS
<1> DEFINE dead == j \in zset["dead"]
           waits == j \in zset["retry"] \cup zset["scheduled"]
           queued == InQueue(j) # {}
           moving == HeldBy(j) # {}
           held == InServer(j)
           new == j \notin submitted
           done == j \in completed
<1>1. /\ new => ~done
      /\ new \/ done => ~dead /\ ~queued /\ ~waits /\ ~moving /\ ~held
      /\ dead => ~queued /\ ~waits /\ ~moving /\ ~held
      /\ queued => ~waits /\ ~moving /\ ~held
      /\ waits => ~moving /\ ~held
      /\ moving => ~held
  <2>1. /\ dead => "dead" \in InSet(j)
        /\ j \in zset["retry"] => "retry" \in InSet(j)
        /\ j \in zset["scheduled"] => "scheduled" \in InSet(j)
    BY DEF InSet, SetNames
  <2>2. dead => ~waits
    BY <2>1 DEF BotCustody, BotAlone, Alone, AtMostOne
  <2>3. new => ~done
    BY DEF BotCustody
  <2>4. BotAlone(j) /\ (new \/ done => BotUnheld(j))
    BY DEF BotCustody, BotHeldIsPending
  <2>5. held <=> IntakesOf(j) # {} \/ BearersOf(j) # {}
    BY InHandIsInServer DEF InHand
  <2> HIDE DEF dead, queued, moving, held, new, done
  <2>6. dead \/ waits => InSet(j) # {}
    BY <2>1
  <2> HIDE DEF waits
  <2>7. /\ BotUnheld(j) => ~queued /\ InSet(j) = {} /\ ~held /\ ~moving
        /\ moving => Unheld(j)
        /\ queued => InSet(j) = {} /\ ~held
        /\ InSet(j) # {} => ~held
    BY <2>4, <2>5 DEF BotUnheld, Unheld, BotAlone, Alone, queued, moving
  <2>8. Unheld(j) => ~queued /\ InSet(j) = {} /\ ~held
    BY <2>5 DEF Unheld, queued
  <2> QED BY <2>2, <2>3, <2>4, <2>6, <2>7, <2>8
<1>2. StateOf(j) = CASE new -> "new" [] done -> "completed" [] dead -> "dead" [] queued -> "queued"
                     [] waits -> "delayed" [] moving -> "moving" [] held -> "held" [] OTHER -> "lost"
  BY DEF StateOf
<1>3. /\ BotUnheld(j) => ~dead /\ ~queued /\ ~waits /\ ~moving /\ ~held
      /\ InHand(j) <=> held
  BY InHandIsInServer DEF BotUnheld, Unheld, InSet, SetNames, InHand
<1>4. Placed(j) <=> /\ new => StateOf(j) = "new"
                    /\ done => StateOf(j) = "completed"
                    /\ dead => StateOf(j) = "dead"
                    /\ queued => StateOf(j) = "queued"
                    /\ waits => StateOf(j) = "delayed"
                    /\ moving => StateOf(j) = "moving"
                    /\ InHand(j) => StateOf(j) = "held"
                    /\ ~new /\ ~done /\ BotUnheld(j) => StateOf(j) = "lost"
  BY DEF Placed
<1> HIDE DEF new, done, dead, queued, waits, moving, held
<1> QED BY <1>1, <1>2, <1>3, <1>4

LEMMA NextStatePlaced == (BotCustody => \A j \in Jobs : Placed(j))'
BY StatePlaced, PTL

\* No place of the job is emptied or filled, but that a server may hand it
\* from its intake to its workers.
Still(k) ==
    /\ QueueKept(k) /\ InSet(k)' = InSet(k)
    /\ HeldBy(k)' = HeldBy(k)
    /\ InHand(k)' <=> InHand(k)
    /\ k \in submitted' <=> k \in submitted
    /\ k \in completed' <=> k \in completed

LEMMA StillStays ==
    ASSUME NEW k \in Jobs, Still(k)
    PROVE  StateOf(k)' = StateOf(k)
<1>1. /\ k \in zset'["dead"] <=> k \in zset["dead"]
      /\ k \in zset'["retry"] \cup zset'["scheduled"] <=> k \in zset["retry"] \cup zset["scheduled"]
  BY DEF Still, InSet, SetNames
<1>2. InServer(k)' <=> InServer(k)
  BY InHandIsInServer DEF Still, InHand, InServer, IntakesOf, BearersOf
<1> QED BY <1>1, <1>2 DEF Still, QueueKept, StateOf

-----------------------------------------------------------------------------
(* The steps of JobLifecycle *)

Lives == Lifecycle!Next \/ UNCHANGED Lifecycle!jobVars

LEMMA StaysOf ==
    ASSUME NEW k \in Jobs, StateOf(k)' = StateOf(k), failures'[k] = failures[k]
    PROVE  Lifecycle!Stays(k) /\ Lifecycle!Unhurt(k)
BY DEF Lifecycle!Stays, Lifecycle!Unhurt

LEMMA GoesOf ==
    ASSUME NEW k \in Jobs, NEW from, NEW to, StateOf(k) = from, StateOf(k)' = to, failures'[k] = failures[k]
    PROVE  Lifecycle!Goes(k, from, to)
BY DEF Lifecycle!Goes

LEMMA FailsOf ==
    ASSUME NEW k \in Jobs, NEW to, StateOf(k) = "held", StateOf(k)' = to, failures'[k] = failures[k] + 1
    PROVE  Lifecycle!Fails(k, to)
BY DEF Lifecycle!Fails

LEMMA LosesOf ==
    ASSUME NEW k \in Jobs, StateOf(k) \in {"queued", "delayed", "moving", "held"}, StateOf(k)' = "lost",
           failures'[k] = failures[k]
    PROVE  /\ Lifecycle!Loses(k)
           /\ StateOf(k) \in {"moving", "held"} => Lifecycle!Unhurt(k)
<1>1. Lifecycle!Loses(k)
  BY GoesOf DEF Lifecycle!Loses, Lifecycle!InFlight
<1> QED BY <1>1 DEF Lifecycle!Unhurt, Lifecycle!InFlight

\* No job, and nothing else JobLifecycle speaks of, is changed.
LEMMA Stutters ==
    ASSUME \A k \in Jobs : Still(k), UNCHANGED <<performed, failures, budget>>
    PROVE  Lives
BY StillStays DEF Lives, Lifecycle!jobVars, Undisturbed

LEMMA Advances ==
    ASSUME NEW j \in Jobs, Lifecycle!Moves(j), UNCHANGED <<performed, budget>>,
           \A k \in Jobs \ {j} : Still(k) /\ failures'[k] = failures[k]
    PROVE  Lives
<1>1. \A k \in Jobs \ {j} : Lifecycle!Stays(k)
  BY StillStays, StaysOf
<1> QED BY <1>1 DEF Lives, Lifecycle!Next, Lifecycle!Advance, Undisturbed

LEMMA Disturbs ==
    ASSUME ~Undisturbed', UNCHANGED performed,
           \/ \A k \in Jobs : Lifecycle!Unhurt(k)
           \/ \E j \in Jobs : /\ Lifecycle!Moves(j) \/ Lifecycle!Loses(j) \/ Lifecycle!Goes(j, "held", "queued")
                             /\ \A k \in Jobs \ {j} : Lifecycle!Unhurt(k)
    PROVE  Lives
BY DEF Lives, Lifecycle!Next, Lifecycle!Disturb

LEMMA Recovers ==
    ASSUME ~Undisturbed, UNCHANGED <<performed, budget>>,
           \A k \in Jobs : Lifecycle!Unhurt(k) \/ Lifecycle!Goes(k, "held", "queued")
    PROVE  Lives
BY DEF Lives, Lifecycle!Next, Lifecycle!Recover, Undisturbed

LEMMA StillUnhurt ==
    ASSUME NEW k \in Jobs, Still(k), failures'[k] = failures[k]
    PROVE  Lifecycle!Unhurt(k)
BY StillStays, StaysOf

\* A job that may be let go by those who have it in flight.
LEMMA DroppedUnhurt ==
    ASSUME Living, Living', NEW k \in Jobs, QueueKept(k), InSet(k)' = InSet(k),
           IntakesOf(k)' \subseteq IntakesOf(k), BearersOf(k)' \subseteq BearersOf(k),
           HeldBy(k)' \subseteq HeldBy(k),
           k \in submitted' <=> k \in submitted, k \in completed' <=> k \in completed,
           failures'[k] = failures[k]
    PROVE  Lifecycle!Unhurt(k)
<1>1. Placed(k) /\ Placed(k)'
  BY StatePlaced, NextStatePlaced DEF Living, Ground
<1>2. BotAlone(k) /\ (k \notin submitted \/ k \in completed => BotUnheld(k))
  BY DEF Living, Ground, BotCustody, BotHeldIsPending
<1>3. CASE (HeldBy(k)' = {} <=> HeldBy(k) = {}) /\ (InHand(k)' <=> InHand(k))
  <2>1. HeldBy(k)' = HeldBy(k)
    BY <1>2, <1>3 DEF BotAlone, AtMostOne
  <2> QED BY <1>3, <2>1, StillUnhurt DEF Still
<1>4. CASE HeldBy(k) # {} /\ HeldBy(k)' = {}
  <2>1. Unheld(k) /\ k \in submitted \ completed
    BY <1>2, <1>4 DEF BotAlone, BotUnheld
  <2>2. BotUnheld(k)'
    BY <1>4, <2>1 DEF BotUnheld, Unheld, QueueKept
  <2>3. StateOf(k) = "moving" /\ StateOf(k)' = "lost"
    BY <1>1, <1>4, <2>1, <2>2 DEF Placed
  <2> QED BY <2>3, LosesOf
<1>5. CASE InHand(k) /\ ~InHand(k)'
  <2>1. k \in submitted \ completed /\ InQueue(k) = {} /\ InSet(k) = {} /\ HeldBy(k) = {}
    BY <1>2, <1>5 DEF BotAlone, Alone, BotUnheld, Unheld, InHand
  <2>2. BotUnheld(k)'
    BY <1>5, <2>1 DEF BotUnheld, Unheld, QueueKept, InHand
  <2>3. StateOf(k) = "held" /\ StateOf(k)' = "lost"
    BY <1>1, <1>5, <2>1, <2>2 DEF Placed
  <2> QED BY <2>3, LosesOf
<1>6. (InHand(k)' => InHand(k)) /\ (HeldBy(k)' # {} => HeldBy(k) # {})
  BY DEF InHand
<1> QED BY <1>3, <1>4, <1>5, <1>6

-----------------------------------------------------------------------------
(* What the steps have in common *)

LEMMA LivingFacts ==
    ASSUME Living
    PROVE  /\ BotGrounded /\ Grounded /\ Held /\ TypeOK /\ StoreTypeOK /\ PollerTypeOK /\ PollersHold
           /\ QueuesSorted /\ FreeIsEmpty /\ Charged /\ HandsOff /\ RetriesBounded
           /\ \A k \in Jobs : BotAlone(k) /\ Alone(k)
           /\ \A k \in Jobs : ~BotUnheld(k) => k \in submitted /\ k \notin completed
           /\ \A k \in Jobs : ~BotUnheld(k) => HasPayload(k)
BY DEF Living, Ground, BotCustody, BotGrounded, Grounded, Held, TypeOK, BotAlone, BotHeldIsPending,
   PendingHasPayload, HasPayload, Outcomes

LEMMA PlacedBoth ==
    ASSUME Living, Living', NEW k \in Jobs
    PROVE  Placed(k) /\ Placed(k)'
BY StatePlaced, NextStatePlaced DEF Living, Ground

LEMMA Spent ==
    ASSUME Living, NEW b \in Budgets, Spend(b)
    PROVE  ~Undisturbed'
BY LivingFacts, SpendingDisturbs

\* A process that is neither up nor gone was told to shut down.
LEMMA StoppingDisturbs ==
    ASSUME Living, NEW s \in Servers, proc[s] \notin {"up", "gone"}
    PROVE  ~NoShutdown /\ ~Undisturbed
<1>1. ~NoShutdown
  BY LivingFacts DEF HandsOff
<1>2. Undisturbed => budget["shutdown"] = MaxShutdowns
  BY DEF Undisturbed, Budgets
<1> QED BY <1>1, <1>2 DEF NoShutdown

\* A job that the one loop of a server hands back, or one of its workers, is
\* handed back after a shutdown was requested.
LEMMA RequeuedDisturbs ==
    ASSUME Living, NEW r \in Runs, run[r].requeued
    PROVE  ~Undisturbed
<1>1. ~NoShutdown
  BY LivingFacts, NoneHandedBack
<1>2. Undisturbed => budget["shutdown"] = MaxShutdowns
  BY DEF Undisturbed, Budgets
<1> QED BY <1>1, <1>2 DEF NoShutdown

LEMMA StillQuiet ==
    ASSUME Living, UNCHANGED <<queue, zset, intake, submitted, completed, pollerVars>>,
           \A r \in Runs : run'[r].job = run[r].job /\ run'[r].requeued = run[r].requeued,
           NEW k \in Jobs
    PROVE  Still(k)
<1>1. Steady(k)
  BY LivingFacts, SameRuns
<1> QED BY <1>1 DEF Steady, Still, InHand, HeldBy, pollerVars

-----------------------------------------------------------------------------
(* Clients *)

LEMMA LivesSubmit ==
    ASSUME Living, Living', NEW j \in Jobs \ Scheduled, Submit(j), UNCHANGED pollerVars
    PROVE  Lives
<1>1. Pushed(j)
  BY LivingFacts, EnqueuePushes DEF Submit
<1>2. UNCHANGED <<zset, intake, run, performed, failures, completed, budget>> /\ submitted' = submitted \cup {j}
  BY DEF Submit, Enqueue
<1>3. ASSUME NEW k \in Jobs \ {j} PROVE Still(k)
  BY <1>1, <1>2, PlacesUntouched DEF Pushed, Still, InHand, HeldBy, pollerVars
<1>4. StateOf(j) = "new" /\ StateOf(j)' = "queued"
  BY <1>1, PlacedBoth DEF Placed, Pushed, Submit
<1>5. Lifecycle!Moves(j)
  BY <1>2, <1>4, GoesOf DEF Lifecycle!Moves
<1> QED BY <1>2, <1>3, <1>5, Advances

LEMMA LivesSchedule ==
    ASSUME Living, Living', NEW j \in Jobs, ScheduleAt(j)
    PROVE  Lives
<1>1. /\ UNCHANGED <<queue, intake, run, performed, failures, completed, budget, pollerVars>>
      /\ submitted' = submitted \cup {j} /\ j \notin submitted /\ j \in Scheduled
      /\ AddToSet("scheduled", j, 0)
  BY DEF ScheduleAt, AddToSet
<1>2. \A k \in Jobs : InSet(k)' = IF k = j THEN InSet(k) \cup {"scheduled"} ELSE InSet(k)
  BY <1>1, LivingFacts, AddToSetAdds DEF SetNames
<1>3. ASSUME NEW k \in Jobs \ {j} PROVE Still(k)
  BY <1>1, <1>2, PlacesUntouched DEF Still, InHand, HeldBy, pollerVars
<1>4. j \in zset'["scheduled"]
  BY <1>2 DEF InSet, SetNames
<1>5. StateOf(j) = "new" /\ StateOf(j)' = "delayed"
  BY <1>1, <1>4, PlacedBoth DEF Placed
<1>6. Lifecycle!Moves(j)
  BY <1>1, <1>5, GoesOf DEF Lifecycle!Moves
<1> QED BY <1>1, <1>3, <1>6, Advances

-----------------------------------------------------------------------------
(* The intake *)

LEMMA LivesIntakeQuiet ==
    ASSUME Living, NEW s \in Servers, IntakeIter(s) \/ IntakeEnd(s) \/ IntakeTimeout(s), UNCHANGED pollerVars
    PROVE  Lives
<1>1. /\ UNCHANGED <<queue, zset, run, submitted, performed, failures, completed, budget>>
      /\ intake[s].pc # "read" /\ intake'[s].pc # "read"
      /\ \A t \in Servers \ {s} : intake'[t] = intake[t]
  BY LivingFacts DEF IntakeIter, IntakeEnd, IntakeTimeout, IdleIntake, TypeOK, IntakeType, storeVars, history
<1>2. ASSUME NEW k \in Jobs PROVE Still(k)
  <2>1. IntakesOf(k)' = IntakesOf(k)
    BY <1>1 DEF IntakesOf
  <2> QED BY <1>1, <2>1, PlacesUntouched DEF Still, InHand, HeldBy, pollerVars
<1> QED BY <1>1, <1>2, Stutters

\* A job leaves its queue: j is taken by the intake of s, or lost on the way.
LEMMA PoppedPlaces ==
    ASSUME Living, Living', NEW s \in Servers, intake[s].pc = "fetch", NEW q \in Queues, Pop(q), NEW j,
           j = Last(queue[q]), NEW i, intake' = [intake EXCEPT ![s] = i], i.pc = "read" => i.job = j,
           UNCHANGED <<run, submitted, completed, pollerVars>>
    PROVE  /\ j \in Jobs /\ StateOf(j) = "queued"
           /\ StateOf(j)' = IF i.pc = "read" THEN "held" ELSE "lost"
           /\ \A k \in Jobs \ {j} : Still(k)
<1>1. /\ j \in Jobs /\ InQueue(j) # {} /\ (AtMostOne(InQueue(j)) => InQueue(j)' = {})
      /\ \A k \in Jobs \ {j} : InQueue(k)' = InQueue(k)
  BY LivingFacts, PopTakes
<1>2. intake'[s] = i /\ \A t \in Servers \ {s} : intake'[t] = intake[t]
  BY LivingFacts DEF TypeOK
<1>3. UNCHANGED zset
  BY DEF Pop
<1>4. ASSUME NEW k \in Jobs \ {j} PROVE Still(k)
  <2>1. IntakesOf(k)' = IntakesOf(k)
    BY <1>2 DEF IntakesOf
  <2> QED BY <1>1, <1>3, <2>1, PlacesUntouched DEF Still, InHand, HeldBy, pollerVars, QueueKept
<1>5. /\ InQueue(j)' = {} /\ InSet(j) = {} /\ IntakesOf(j) = {} /\ BearersOf(j) = {} /\ HeldBy(j) = {}
      /\ j \in submitted' /\ j \notin completed'
  BY <1>1, LivingFacts DEF BotAlone, Alone, BotUnheld, Unheld
<1>6. CASE i.pc = "read"
  <2>1. InHand(j)'
    BY <1>2, <1>6 DEF InHand, IntakesOf
  <2> QED BY <1>1, <1>4, <1>6, <2>1, PlacedBoth DEF Placed
<1>7. CASE i.pc # "read"
  <2>1. IntakesOf(j)' = {}
    BY <1>2, <1>5, <1>7 DEF IntakesOf
  <2>2. BotUnheld(j)'
    BY <1>3, <1>5, <2>1, PlacesUntouched DEF BotUnheld, Unheld, HeldBy, pollerVars
  <2> QED BY <1>1, <1>4, <1>5, <1>7, <2>2, PlacedBoth DEF Placed
<1> QED BY <1>6, <1>7

LEMMA LivesIntakeFetch ==
    ASSUME Living, Living', NEW s \in Servers, NEW q \in Queues, IntakeFetch(s, q), UNCHANGED pollerVars
    PROVE  Lives
<1>0. PICK j : j = Last(queue[q])
  OBVIOUS
<1> DEFINE i == [intake[s] EXCEPT !.pc = "read", !.job = j]
<1>1. intake[s] \in IntakeType /\ intake \in [Servers -> IntakeType]
  BY LivingFacts DEF TypeOK
<1>2. i.pc = "read" /\ i.job = j /\ intake' = [intake EXCEPT ![s] = i]
  BY <1>0, <1>1 DEF IntakeFetch, IntakeType
<1>3. /\ intake[s].pc = "fetch" /\ Pop(q)
      /\ UNCHANGED <<run, submitted, performed, failures, completed, budget>>
  BY DEF IntakeFetch, history
<1> HIDE DEF i
<1>4. /\ j \in Jobs /\ StateOf(j) = "queued" /\ StateOf(j)' = "held"
      /\ \A k \in Jobs \ {j} : Still(k)
  BY <1>0, <1>2, <1>3, PoppedPlaces
<1>5. Lifecycle!Moves(j)
  BY <1>3, <1>4, GoesOf DEF Lifecycle!Moves
<1> QED BY <1>3, <1>4, <1>5, Advances

\* The job goes from the intake to jobsToStart.
LEMMA LivesIntakeRead ==
    ASSUME Living, NEW s \in Servers, NEW r \in Runs, IntakeRead(s, r), UNCHANGED pollerVars
    PROVE  Lives
<1> DEFINE j == intake[s].job
<1>1. /\ UNCHANGED <<queue, zset, submitted, performed, failures, completed, budget>>
      /\ intake[s].pc = "read" /\ intake'[s].pc # "read"
      /\ \A t \in Servers \ {s} : intake'[t] = intake[t]
      /\ run'[r].job = j /\ ~run'[r].requeued
      /\ \A x \in Runs \ {r} : run'[x] = run[x]
  BY LivingFacts DEF IntakeRead, IdleIntake, TypeOK, storeVars, history
<1>2. run[r].job = NoJob
  BY LivingFacts DEF IntakeRead, FreeIsEmpty
<1>3. ASSUME NEW k \in Jobs PROVE InHand(k)' <=> InHand(k)
  <2>1. CASE k = j
    <3>1. s \in IntakesOf(k) /\ r \in BearersOf(k)'
      BY <1>1, <2>1 DEF IntakesOf, BearersOf
    <3> QED BY <3>1 DEF InHand
  <2>2. CASE k # j
    <3>1. IntakesOf(k)' = IntakesOf(k)
      BY <1>1, <2>2 DEF IntakesOf
    <3>2. BearersOf(k)' = BearersOf(k)
      BY <1>1, <1>2, <2>2, ServerAssumption DEF BearersOf
    <3> QED BY <3>1, <3>2 DEF InHand
  <2> QED BY <2>1, <2>2
<1>4. ASSUME NEW k \in Jobs PROVE Still(k)
  BY <1>1, <1>3, PlacesUntouched DEF Still, HeldBy, pollerVars
<1> QED BY <1>1, <1>4, Stutters

\* A job in the hands of an intake has its payload.
LEMMA NeverMissing ==
    ASSUME Living, NEW s \in Servers, IntakeMissing(s)
    PROVE  FALSE
<1>1. intake[s].job \in Jobs
  BY LivingFacts DEF IntakeMissing, Held, IntakeHeld
<1>2. s \in IntakesOf(intake[s].job)
  BY DEF IntakeMissing, IntakesOf
<1>3. ~BotUnheld(intake[s].job)
  BY <1>2 DEF BotUnheld, Unheld
<1> QED BY <1>1, <1>3, LivingFacts DEF IntakeMissing

LEMMA LivesIntakeFault ==
    ASSUME Living, Living', NEW s \in Servers, IntakeFault(s), UNCHANGED pollerVars
    PROVE  Lives
<1>1. ~Undisturbed' /\ UNCHANGED performed
  BY Spent DEF IntakeFault, Budgets, history
<1>2. /\ UNCHANGED <<run, submitted, failures, completed>>
      /\ intake' = [intake EXCEPT ![s] = IdleIntake] /\ IdleIntake.pc # "read"
  BY DEF IntakeFault, IdleIntake, history
<1>3. CASE UNCHANGED storeVars
  <2>1. ASSUME NEW k \in Jobs PROVE IntakesOf(k)' \subseteq IntakesOf(k)
    BY <1>2, LivingFacts DEF IntakesOf, TypeOK
  <2>2. ASSUME NEW k \in Jobs PROVE Lifecycle!Unhurt(k)
    <3>1. QueueKept(k) /\ InSet(k)' = InSet(k) /\ BearersOf(k)' = BearersOf(k) /\ HeldBy(k)' = HeldBy(k)
      BY <1>2, <1>3, PlacesUntouched DEF storeVars, HeldBy, pollerVars
    <3> QED BY <1>2, <2>1, <3>1, DroppedUnhurt
  <2> QED BY <1>1, <2>2, Disturbs
<1>4. CASE intake[s].pc = "fetch" /\ \E q \in Queues : Pop(q)
  <2>1. PICK q \in Queues : Pop(q)
    BY <1>4
  <2>0. PICK j : j = Last(queue[q])
    OBVIOUS
  <2>2. /\ j \in Jobs /\ StateOf(j) = "queued" /\ StateOf(j)' = "lost"
        /\ \A k \in Jobs \ {j} : Still(k)
    BY <1>2, <1>4, <2>0, <2>1, PoppedPlaces
  <2>3. Lifecycle!Loses(j) /\ \A k \in Jobs \ {j} : Lifecycle!Unhurt(k)
    BY <1>2, <2>2, LosesOf, StillUnhurt
  <2> QED BY <1>1, <2>2, <2>3, Disturbs
<1> QED BY <1>3, <1>4 DEF IntakeFault

LEMMA LivesIntake ==
    ASSUME Living, Living', NEW s \in Servers, IntakeStep(s) \/ IntakeFault(s), UNCHANGED pollerVars
    PROVE  Lives
BY LivesIntakeQuiet, LivesIntakeFetch, LivesIntakeRead, NeverMissing, LivesIntakeFault DEF IntakeStep, IntakeAnswer

-----------------------------------------------------------------------------
(* Workers *)

LEMMA LivesQuiet ==
    ASSUME Living, UNCHANGED <<queue, zset, intake, submitted, performed, failures, completed, budget, pollerVars>>,
           \A r \in Runs : run'[r].job = run[r].job /\ run'[r].requeued = run[r].requeued
    PROVE  Lives
BY StillQuiet, Stutters

LEMMA LivesWorkerStart ==
    ASSUME Living, NEW r \in Runs, WorkerStart(r), UNCHANGED pollerVars
    PROVE  Lives
<1>0. PICK j : j = run[r].job
  OBVIOUS
<1>1. UNCHANGED <<queue, zset, intake, submitted, failures, completed, budget>>
  BY DEF WorkerStart, UpdateJob
<1>2. \A x \in Runs : run'[x].job = run[x].job /\ run'[x].requeued = run[x].requeued
  BY LivingFacts, SetPhaseSame DEF WorkerStart
<1>3. CASE j \notin Handled
  <2>1. UNCHANGED performed
    BY <1>0, <1>3 DEF WorkerStart
  <2> QED BY <1>1, <1>2, <2>1, LivesQuiet
<1>4. CASE j \in Handled
  <2>1. j \in Jobs /\ performed' = performed \cup {j}
    BY <1>0, <1>4, ServerAssumption DEF WorkerStart
  <2>2. StateOf(j) = "held" \/ ~Undisturbed
    <3>1. CASE run[r].requeued
      BY <3>1, RequeuedDisturbs
    <3>2. CASE ~run[r].requeued
      <4>1. InHand(j)
        BY <1>0, <3>2 DEF InHand, BearersOf
      <4>2. Placed(j)
        BY <2>1, StatePlaced DEF Living, Ground
      <4> QED BY <4>1, <4>2 DEF Placed
    <3> QED BY <3>1, <3>2
  <2>3. \A k \in Jobs : StateOf(k)' = StateOf(k)
    BY <1>1, <1>2, StillQuiet, StillStays
  <2>4. Lifecycle!Perform
    BY <1>1, <1>4, <2>1, <2>2, <2>3 DEF Lifecycle!Perform, Undisturbed
  <2> QED BY <2>4 DEF Lives, Lifecycle!Next
<1> QED BY <1>3, <1>4

LEMMA LivesWorker ==
    ASSUME Living, NEW r \in Runs, WorkerStep(r) \/ WorkerFault(r), UNCHANGED pollerVars
    PROVE  Lives
<1>1. CASE WorkerEnd(r)
  <2>1. UNCHANGED <<queue, zset, intake, submitted, performed, failures, completed, budget>>
    BY <1>1 DEF WorkerEnd, storeVars, history
  <2>2. \A x \in Runs : run'[x].job = run[x].job /\ run'[x].requeued = run[x].requeued
    BY <1>1, LivingFacts, SetPhaseSame DEF WorkerEnd
  <2> QED BY <2>1, <2>2, LivesQuiet
<1>2. CASE WorkerFault(r)
  <2>1. UNCHANGED <<queue, zset, intake, submitted, performed, failures, completed>>
    BY <1>2 DEF WorkerFault, UpdateJob, storeVars, history
  <2>2. \A x \in Runs : run'[x].job = run[x].job /\ run'[x].requeued = run[x].requeued
    BY <1>2, LivingFacts, SetPhaseSame DEF WorkerFault
  <2>3. \A k \in Jobs : Lifecycle!Unhurt(k)
    BY <2>1, <2>2, StillQuiet, StillUnhurt
  <2>4. ~Undisturbed'
    BY <1>2, Spent DEF WorkerFault, Budgets
  <2> QED BY <2>1, <2>3, <2>4, Disturbs
<1> QED BY <1>1, <1>2, LivesWorkerStart DEF WorkerStep

-----------------------------------------------------------------------------
(* The worker-handle loop *)

LEMMA LivesLoopQuiet ==
    ASSUME Living, NEW s \in Servers, UNCHANGED pollerVars,
           \/ HandleCompletedJobs(s) \/ StartJobs(s) \/ CleanupWorkers(s) \/ CleanupEnd(s) \/ ShutdownDone(s)
           \/ \E r \in Runs : Settle(s, r) \/ CleanupUpdate(s, r)
    PROVE  Lives
<1>1. UNCHANGED <<queue, zset, intake, submitted, performed, failures, completed, budget>>
  BY DEF HandleCompletedJobs, StartJobs, CleanupWorkers, CleanupEnd, ShutdownDone, Settle, CleanupUpdate,
     UpdateJob, storeVars, history
<1>2. \A x \in Runs : run'[x].job = run[x].job /\ run'[x].requeued = run[x].requeued
  <2>1. CASE HandleCompletedJobs(s)
    BY <2>1, LivingFacts DEF HandleCompletedJobs, TypeOK, RunType
  <2>2. CASE StartJobs(s)
    BY <2>2, LivingFacts, SetPhaseSame DEF StartJobs
  <2>3. CASE \E r \in Runs : Settle(s, r)
    BY <2>3, LivingFacts, SettleSame
  <2>4. CASE CleanupWorkers(s) \/ CleanupEnd(s) \/ ShutdownDone(s) \/ \E r \in Runs : CleanupUpdate(s, r)
    BY <2>4 DEF CleanupWorkers, CleanupEnd, ShutdownDone, CleanupUpdate
  <2> QED BY <2>1, <2>2, <2>3, <2>4
<1> QED BY <1>1, <1>2, LivesQuiet

LEMMA LivesShutdown ==
    ASSUME Living, NEW s \in Servers, Shutdown(s) \/ StartFault(s), UNCHANGED pollerVars
    PROVE  Lives
<1>1. UNCHANGED <<queue, zset, intake, submitted, performed, failures, completed>>
  BY DEF Shutdown, StartFault, storeVars, history
<1>2. \A x \in Runs : run'[x].job = run[x].job /\ run'[x].requeued = run[x].requeued
  BY LivingFacts DEF Shutdown, StartFault, TypeOK, RunType
<1>3. ~Undisturbed'
  BY Spent DEF Shutdown, StartFault, Budgets
<1>4. \A k \in Jobs : Lifecycle!Unhurt(k)
  BY <1>1, <1>2, StillQuiet, StillUnhurt
<1> QED BY <1>1, <1>3, <1>4, Disturbs

\* The job that is settled makes the move its attempt and its options call for.
LEMMA OutcomeMoves ==
    ASSUME Living, Living', NEW s \in Servers, loop[s].pc = "finish", SettleEffect(loop[s].cur),
           NEW j, j = run[loop[s].cur].job
    PROVE  j \in Jobs /\ Lifecycle!Moves(j)
<1>0. PICK r : r = loop[s].cur
  OBVIOUS
<1>1. r \in Runs /\ j \in Jobs /\ r \in BearersOf(j) /\ run[r].job = j
  BY <1>0, LivingFacts, CurBears
<1>2. StateOf(j) = "held" /\ Placed(j)'
  <2>1. InHand(j)
    BY <1>1 DEF InHand
  <2> QED BY <1>1, <2>1, PlacedBoth DEF Placed
<1>3. Justified(r) /\ run[r].retry \in Nat
  BY <1>1, LivingFacts DEF Living, Outcomes, TypeOK, RunType
<1>4. failures[j] \in Nat
  BY <1>1, LivingFacts DEF TypeOK
<1>5. CASE run[r].phase = "deleting"
  <2>1. j \in completed' /\ failures'[j] = failures[j] /\ j \in performed
    BY <1>0, <1>1, <1>3, <1>5 DEF SettleEffect, Justified, Called
  <2>2. StateOf(j)' = "completed"
    BY <1>2, <2>1 DEF Placed
  <2> QED BY <1>1, <1>2, <2>1, <2>2, GoesOf DEF Lifecycle!Moves
<1>6. CASE run[r].phase = "dying"
  <2>1. /\ j \in zset'["dead"] /\ failures'[j] = failures[j] + 1
        /\ j \in performed \/ j \notin Handled
        /\ IsDead(r)
    BY <1>0, <1>1, <1>3, <1>6, LivingFacts DEF SettleEffect, AddToSet, Justified, Failed, StoreTypeOK, SetNames, TypeOK
  <2>2. StateOf(j)' = "dead"
    BY <1>2, <2>1 DEF Placed
  <2>3. Lifecycle!Fails(j, "dead")
    BY <1>1, <1>2, <2>1, <2>2, FailsOf
  <2>4. run[r].retry <= failures[j]
    BY <1>1, <1>6 DEF Living, Counted, RunsCounted, Agrees, Attempts
  <2>5. Lifecycle!MayDie(j)
    BY <1>1, <1>3, <1>4, <2>1, <2>4 DEF IsDead, Lifecycle!MayDie
  <2> QED BY <1>1, <2>1, <2>3, <2>5 DEF Lifecycle!Moves, Lifecycle!Attempted
<1>7. CASE run[r].phase = "retrying"
  <2>1. /\ j \in zset'["retry"] /\ failures'[j] = failures[j] + 1
        /\ j \in performed /\ j \in Handled /\ MaxRetries[j] # NoRetries
    BY <1>0, <1>1, <1>3, <1>7, LivingFacts DEF SettleEffect, AddToSet, Justified, Failed, StoreTypeOK, SetNames, TypeOK
  <2>2. StateOf(j)' = "delayed"
    BY <1>2, <2>1 DEF Placed
  <2>3. Lifecycle!Fails(j, "delayed")
    BY <1>1, <1>2, <2>1, <2>2, FailsOf
  <2>4. NoShutdown => run[r].retry = failures[j] + 1
    BY <1>1, <1>7 DEF Living, Counted, RunsCounted, Agrees, Attempts
  <2>5. MaxRetries[j] \in Nat => run[r].retry <= MaxRetries[j]
    BY <1>1, <1>7, LivingFacts DEF RetriesBounded, RetryBound
  <2>6. Undisturbed => NoShutdown
    BY DEF Undisturbed, NoShutdown, Budgets
  <2>7. MaxRetries[j] \in Nat => ~Undisturbed \/ failures[j] < MaxRetries[j]
    BY <1>3, <1>4, <2>4, <2>5, <2>6
  <2>8. Lifecycle!MayRetry(j)
    BY <2>1, <2>7 DEF Lifecycle!MayRetry
  <2> QED BY <1>1, <2>1, <2>3, <2>8 DEF Lifecycle!Moves, Lifecycle!Attempted
<1> QED BY <1>0, <1>1, <1>5, <1>6, <1>7 DEF SettleEffect

\* The other jobs keep their places, but for runs that are forgotten.
LEMMA OutcomeOthers ==
    ASSUME Living, NEW s \in Servers, loop[s].pc = "finish", SettleEffect(loop[s].cur),
           NEW j, j = run[loop[s].cur].job,
           NEW rs, run' = Forget(rs), UNCHANGED <<intake, submitted, pollerVars>>, NEW k \in Jobs \ {j}
    PROVE  /\ QueueKept(k) /\ InSet(k)' = InSet(k) /\ HeldBy(k)' = HeldBy(k) /\ IntakesOf(k)' = IntakesOf(k)
           /\ BearersOf(k)' = BearersOf(k) \ rs
           /\ k \in completed' <=> k \in completed
           /\ failures'[k] = failures[k]
<1>0. PICK r : r = loop[s].cur
  OBVIOUS
<1>1. r \in Runs /\ j \in Jobs /\ run[r].job = j
  BY <1>0, LivingFacts, CurBears
<1>2. UNCHANGED queue /\ InSet(k)' = InSet(k)
  BY <1>0, <1>1, LivingFacts DEF SettleEffect, UnsafeDeleteJob, AddToSet, InSet, StoreTypeOK, SetNames
<1>3. (k \in completed' <=> k \in completed) /\ failures'[k] = failures[k]
  BY <1>0, <1>1, LivingFacts DEF SettleEffect, TypeOK
<1> QED BY <1>2, <1>3, PlacesUntouched, ForgetBearers DEF HeldBy, pollerVars

LEMMA LivesFinish ==
    ASSUME Living, Living', NEW s \in Servers, Finish(s), UNCHANGED pollerVars
    PROVE  Lives
<1>0. PICK r, j : r = loop[s].cur /\ j = run[loop[s].cur].job
  OBVIOUS
<1>1. /\ loop[s].pc = "finish" /\ SettleEffect(loop[s].cur) /\ run' = Forget({r})
      /\ UNCHANGED <<intake, submitted, performed, budget, pollerVars>>
  BY <1>0 DEF Finish
<1>2. j \in Jobs /\ Lifecycle!Moves(j)
  BY <1>0, <1>1, OutcomeMoves
<1>3. ASSUME NEW k \in Jobs \ {j} PROVE Still(k) /\ failures'[k] = failures[k]
  <2>1. /\ QueueKept(k) /\ InSet(k)' = InSet(k) /\ HeldBy(k)' = HeldBy(k) /\ IntakesOf(k)' = IntakesOf(k)
        /\ BearersOf(k)' = BearersOf(k) \ {r}
        /\ k \in completed' <=> k \in completed
        /\ failures'[k] = failures[k]
    BY <1>0, <1>1, OutcomeOthers
  <2>2. r \notin BearersOf(k)
    BY <1>0 DEF BearersOf
  <2> QED BY <1>1, <2>1, <2>2 DEF Still, InHand
<1> QED BY <1>1, <1>2, <1>3, Advances

LEMMA LivesSettleFault ==
    ASSUME Living, Living', NEW s \in Servers, SettleFault(s), UNCHANGED pollerVars
    PROVE  Lives
<1>0. PICK rs, j : rs = loop[s].todo /\ j = run[loop[s].cur].job
  OBVIOUS
<1>1. run' = Forget(rs) /\ UNCHANGED <<intake, submitted, performed, pollerVars>> /\ ~Undisturbed'
  BY <1>0, Spent DEF SettleFault, Budgets
<1>2. CASE UNCHANGED <<storeVars, failures, completed>>
  <2>1. ASSUME NEW k \in Jobs PROVE Lifecycle!Unhurt(k)
    <3>1. /\ QueueKept(k) /\ InSet(k)' = InSet(k) /\ IntakesOf(k)' = IntakesOf(k) /\ HeldBy(k)' = HeldBy(k)
          /\ BearersOf(k)' \subseteq BearersOf(k)
      BY <1>1, <1>2, PlacesUntouched, ForgetBearers DEF storeVars, HeldBy, pollerVars
    <3> QED BY <1>1, <1>2, <3>1, DroppedUnhurt
  <2> QED BY <1>1, <2>1, Disturbs
<1>3. CASE loop[s].pc = "finish" /\ SettleEffect(loop[s].cur)
  <2>1. j \in Jobs /\ Lifecycle!Moves(j)
    BY <1>0, <1>3, OutcomeMoves
  <2>2. ASSUME NEW k \in Jobs \ {j} PROVE Lifecycle!Unhurt(k)
    <3>1. /\ QueueKept(k) /\ InSet(k)' = InSet(k) /\ HeldBy(k)' = HeldBy(k) /\ IntakesOf(k)' = IntakesOf(k)
          /\ BearersOf(k)' = BearersOf(k) \ rs
          /\ k \in completed' <=> k \in completed
          /\ failures'[k] = failures[k]
      BY <1>0, <1>1, <1>3, OutcomeOthers
    <3> QED BY <1>1, <3>1, DroppedUnhurt
  <2> QED BY <1>1, <2>1, <2>2, Disturbs
<1> QED BY <1>2, <1>3 DEF SettleFault

-----------------------------------------------------------------------------
(* Processes that stop *)

\* A job is handed back to its queue.
LEMMA HandBackGoes ==
    ASSUME Living, Living', NEW s \in Servers, loop[s].pc = "requeue",
           NEW j, j = run[loop[s].cur].job, Requeue(j, run[loop[s].cur].retry),
           run' = [run EXCEPT ![loop[s].cur].requeued = TRUE],
           UNCHANGED <<intake, submitted, completed, failures, pollerVars>>
    PROVE  /\ j \in Jobs /\ Lifecycle!Goes(j, "held", "queued")
           /\ \A k \in Jobs \ {j} : Lifecycle!Unhurt(k)
<1>0. PICK r : r = loop[s].cur
  OBVIOUS
<1>1. r \in Runs /\ j \in Jobs /\ r \in BearersOf(j) /\ run[r].job = j
  BY <1>0, LivingFacts, CurBears
<1>2. Pushed(j) /\ UNCHANGED zset
  BY <1>1, LivingFacts, RequeuePushes DEF Requeue
<1>3. \A x \in Runs : /\ run'[x].job = run[x].job
                      /\ x # r => run'[x].requeued = run[x].requeued
  BY <1>0, LivingFacts DEF TypeOK, RunType
<1>4. ASSUME NEW k \in Jobs \ {j} PROVE Lifecycle!Unhurt(k)
  <2>1. BearersOf(k)' = BearersOf(k)
    BY <1>1, <1>3 DEF BearersOf
  <2> QED BY <1>2, <2>1, PlacesUntouched, StillUnhurt DEF Pushed, Still, InHand, HeldBy, pollerVars
<1>5. StateOf(j) = "held" /\ StateOf(j)' = "queued"
  <2>1. InHand(j) /\ InQueue(j)' # {}
    BY <1>1, <1>2 DEF InHand, Pushed
  <2> QED BY <1>1, <2>1, PlacedBoth DEF Placed
<1> QED BY <1>1, <1>4, <1>5, GoesOf

LEMMA LivesCleanup ==
    ASSUME Living, Living', NEW s \in Servers, CleanupRequeue(s) \/ CleanupFault(s), UNCHANGED pollerVars
    PROVE  Lives
<1>0. PICK j : j = run[loop[s].cur].job
  OBVIOUS
<1>1. UNCHANGED <<intake, submitted, performed, completed, failures>>
  BY DEF CleanupRequeue, CleanupFault, history
<1>2. CASE CleanupRequeue(s)
  <2>1. /\ loop[s].pc = "requeue" /\ Requeue(j, run[loop[s].cur].retry)
        /\ run' = [run EXCEPT ![loop[s].cur].requeued = TRUE] /\ UNCHANGED budget
    BY <1>0, <1>2 DEF CleanupRequeue
  <2>2. ~Undisturbed
    <3>1. proc[s] \notin {"up", "gone"}
      BY <1>2, LivingFacts DEF CleanupRequeue, Alive, HandsOff
    <3> QED BY <3>1, StoppingDisturbs
  <2>3. /\ j \in Jobs /\ Lifecycle!Goes(j, "held", "queued")
        /\ \A k \in Jobs \ {j} : Lifecycle!Unhurt(k)
    BY <1>0, <1>1, <2>1, HandBackGoes
  <2> QED BY <1>1, <2>1, <2>2, <2>3, Recovers
<1>3. CASE CleanupFault(s)
  <2>1. ~Undisturbed'
    BY <1>3, Spent DEF CleanupFault, Budgets
  <2>2. CASE UNCHANGED <<storeVars, run>>
    <3>1. \A k \in Jobs : Lifecycle!Unhurt(k)
      BY <1>1, <2>2, StillQuiet, StillUnhurt DEF storeVars
    <3> QED BY <1>1, <2>1, <3>1, Disturbs
  <2>3. CASE /\ loop[s].pc = "requeue" /\ Requeue(j, run[loop[s].cur].retry)
             /\ run' = [run EXCEPT ![loop[s].cur].requeued = TRUE]
    <3>1. /\ j \in Jobs /\ Lifecycle!Goes(j, "held", "queued")
          /\ \A k \in Jobs \ {j} : Lifecycle!Unhurt(k)
      BY <1>0, <1>1, <2>3, HandBackGoes
    <3> QED BY <1>1, <2>1, <3>1, Disturbs
  <2> QED BY <1>0, <1>3, <2>2, <2>3 DEF CleanupFault
<1> QED BY <1>2, <1>3

\* What was in flight in the process is lost.
LEMMA VanishUnhurt ==
    ASSUME Living, Living', NEW s \in Servers, Vanish(s), NEW ps, DropPollers(ps),
           UNCHANGED <<storeVars, history>>, NEW k \in Jobs
    PROVE  Lifecycle!Unhurt(k)
<1>1. QueueKept(k) /\ InSet(k)' = InSet(k)
  BY PlacesUntouched DEF storeVars
<1>2. IntakesOf(k)' \subseteq IntakesOf(k)
  BY LivingFacts DEF Vanish, IdleIntake, IntakesOf, TypeOK, IntakeType
<1>3. BearersOf(k)' \subseteq BearersOf(k)
  BY ForgetBearers DEF Vanish
<1>4. HeldBy(k)' \subseteq HeldBy(k)
  BY DEF DropPollers, IdlePoller, HeldBy
<1> QED BY <1>1, <1>2, <1>3, <1>4, DroppedUnhurt DEF history

LEMMA LivesVanish ==
    ASSUME Living, Living', NEW s \in Servers, BotExit(s) \/ BotCrash(s)
    PROVE  Lives
<1>1. \A k \in Jobs : Lifecycle!Unhurt(k)
  BY VanishUnhurt DEF BotExit, BotCrash, Exit, Crash
<1>2. CASE BotExit(s)
  <2>1. ~Undisturbed
    BY <1>2, StoppingDisturbs DEF BotExit, Exit
  <2> QED BY <1>1, <1>2, <2>1, Recovers DEF BotExit, Exit, history
<1>3. CASE BotCrash(s)
  <2>1. ~Undisturbed'
    BY <1>3, Spent DEF BotCrash, Crash, Budgets
  <2> QED BY <1>1, <1>3, <2>1, Disturbs DEF BotCrash, Crash, history
<1> QED BY <1>2, <1>3

-----------------------------------------------------------------------------
(* Pollers *)

\* What a poller does to the jobs: nothing, or a move of the one it is about;
\* if its call fails, the job may be lost on its way.
LEMMA PollMoves ==
    ASSUME Living, Living', NEW p \in Pollers, PollerStep(p) \/ Fail(p),
           UNCHANGED <<intake, run, submitted, completed, failures>>
    PROVE  /\ \/ \A k \in Jobs : Lifecycle!Unhurt(k)
              \/ \E j \in Jobs : /\ Lifecycle!Moves(j) \/ Lifecycle!Loses(j)
                                /\ \A k \in Jobs \ {j} : Still(k)
           /\ PollerStep(p) => \/ \A k \in Jobs : Still(k)
                               \/ \E j \in Jobs : Lifecycle!Moves(j) /\ \A k \in Jobs \ {j} : Still(k)
<1>0. PICK j, n, z : j = poller[p].job /\ n = poller[p].retry /\ z = SourceOf[p]
  OBVIOUS
<1>1. PICK x \in PollerType :
        /\ poller' = [poller EXCEPT ![p] = x]
        /\ \/ /\ UNCHANGED storeVars
              /\ x.pc \in {"find", "zrem"} \/ (x.pc = "use" /\ poller[p].pc = "get" /\ x.job = j)
              /\ PollerStep(p) => \/ poller[p].pc = "find"
                                  \/ poller[p].pc = "get" /\ (HasPayload(j) => x.pc = "use")
           \/ /\ poller[p].pc = "zrem" /\ j \in Jobs /\ Zrem(z, j)
              /\ x.pc = "find" \/ (x.pc = "get" /\ x.job = j /\ j \in zset[z])
              /\ PollerStep(p) => (j \in zset[z] => x.pc = "get")
           \/ /\ poller[p].pc = "use" /\ j \in Jobs
              /\ Requeue(j, n) \/ Enqueue(j, n)
              /\ x.pc = "find"
  BY <1>0, LivingFacts, PollerMoves
<1>2. \A k \in Jobs : HeldBy(k)' = IF x.job = k /\ x.pc \in {"get", "use"} THEN HeldBy(k) \cup {p} ELSE HeldBy(k) \ {p}
  BY <1>1, LivingFacts, HeldByMove
<1>3. \A k \in Jobs : /\ p \in HeldBy(k) <=> j = k /\ poller[p].pc \in {"get", "use"}
                      /\ IntakesOf(k)' = IntakesOf(k) /\ BearersOf(k)' = BearersOf(k) /\ (InHand(k)' <=> InHand(k))
  BY <1>0, PlacesUntouched DEF HeldBy, InHand
<1>4. \A k \in Jobs \ {j} : x.pc \in {"find", "zrem"} \/ x.job = j => HeldBy(k)' = HeldBy(k)
  BY <1>2, <1>3
<1>5. UNCHANGED <<submitted, completed>>
  OBVIOUS
<1>6. z \in {"retry", "scheduled"} /\ z \in SetNames
  BY <1>0, PollerAssumption DEF SetNames
<1>7. CASE /\ UNCHANGED storeVars
           /\ x.pc \in {"find", "zrem"} \/ (x.pc = "use" /\ poller[p].pc = "get" /\ x.job = j)
           /\ PollerStep(p) => \/ poller[p].pc = "find"
                               \/ poller[p].pc = "get" /\ (HasPayload(j) => x.pc = "use")
  <2>1. \A k \in Jobs : QueueKept(k) /\ InSet(k)' = InSet(k) /\ HeldBy(k)' \subseteq HeldBy(k)
    BY <1>2, <1>3, <1>7, PlacesUntouched DEF storeVars
  <2>2. ASSUME PollerStep(p), NEW k \in Jobs PROVE HeldBy(k)' = HeldBy(k)
    <3>1. CASE poller[p].pc = "find"
      BY <1>2, <1>3, <1>7, <3>1
    <3>2. CASE poller[p].pc = "get"
      <4>1. j \in Jobs /\ p \in HeldBy(j)
        BY <1>0, <1>3, <3>2, LivingFacts DEF PollersHold
      <4>2. HasPayload(j)
        BY <4>1, LivingFacts DEF BotUnheld
      <4> QED BY <1>2, <1>3, <1>7, <2>2, <3>2, <4>2
    <3> QED BY <1>7, <2>2, <3>1, <3>2
  <2>3. ASSUME NEW k \in Jobs PROVE Lifecycle!Unhurt(k)
    BY <1>3, <2>1, DroppedUnhurt
  <2>4. ASSUME PollerStep(p), NEW k \in Jobs PROVE Still(k)
    BY <1>3, <2>1, <2>2, <2>4 DEF Still
  <2> QED BY <2>3, <2>4
<1>8. CASE /\ poller[p].pc = "zrem" /\ j \in Jobs /\ Zrem(z, j)
           /\ x.pc = "find" \/ (x.pc = "get" /\ x.job = j /\ j \in zset[z])
           /\ PollerStep(p) => (j \in zset[z] => x.pc = "get")
  <2>1. \A k \in Jobs : InSet(k)' = IF k = j THEN InSet(k) \ {z} ELSE InSet(k)
    BY <1>6, <1>8, LivingFacts, ZremTakes
  <2>2. z \in InSet(j) <=> j \in zset[z]
    BY <1>6 DEF InSet
  <2>3. \A k \in Jobs : QueueKept(k)
    BY <1>8, PlacesUntouched DEF Zrem
  <2>4. \A k \in Jobs \ {j} : Still(k)
    BY <1>3, <1>8, <1>4, <1>5, <2>1, <2>3 DEF Still
  <2>5. CASE j \notin zset[z]
    <3>1. x.pc = "find" /\ InSet(j)' = InSet(j) /\ HeldBy(j)' = HeldBy(j)
      BY <1>2, <1>3, <1>8, <2>1, <2>2, <2>5
    <3>2. Still(j)
      BY <1>3, <1>8, <2>3, <3>1 DEF Still
    <3>3. \A k \in Jobs : Still(k) /\ Lifecycle!Unhurt(k)
      BY <2>4, <3>2, StillUnhurt
    <3> QED BY <3>3
  <2>6. CASE j \in zset[z]
    <3>1. /\ StateOf(j) = "delayed"
          /\ InQueue(j) = {} /\ InSet(j) = {z} /\ ~InHand(j) /\ HeldBy(j) = {}
          /\ j \in submitted /\ j \notin completed
      <4>1. Placed(j) /\ BotAlone(j) /\ z \in InSet(j)
        BY <1>8, <2>2, <2>6, PlacedBoth, LivingFacts
      <4>2. StateOf(j) = "delayed"
        BY <1>6, <2>6, <4>1 DEF Placed
      <4>3. InSet(j) = {z} /\ ~Unheld(j)
        BY <4>1 DEF BotAlone, Alone, AtMostOne, Unheld
      <4>4. InQueue(j) = {} /\ ~InHand(j) /\ HeldBy(j) = {}
        BY <4>1, <4>3 DEF BotAlone, Alone, InHand
      <4> QED BY <1>8, <4>2, <4>3, <4>4, LivingFacts DEF BotUnheld
    <3>2. CASE x.pc = "get"
      <4>1. HeldBy(j)' # {}
        BY <1>2, <1>8, <3>2
      <4>2. StateOf(j)' = "moving"
        BY <1>8, <4>1, PlacedBoth DEF Placed
      <4>3. Lifecycle!Moves(j)
        BY <1>8, <3>1, <4>2, GoesOf DEF Lifecycle!Moves
      <4> QED BY <1>8, <2>4, <4>3
    <3>3. CASE x.pc # "get"
      <4>1. HeldBy(j)' = {} /\ InSet(j)' = {} /\ InQueue(j)' = {} /\ ~InHand(j)'
        BY <1>2, <1>3, <1>8, <2>1, <2>3, <3>1, <3>3 DEF QueueKept
      <4>2. BotUnheld(j)'
        BY <4>1 DEF BotUnheld, Unheld, InHand
      <4>3. StateOf(j)' = "lost"
        BY <1>8, <3>1, <4>2, PlacedBoth DEF Placed
      <4>4. Lifecycle!Loses(j)
        BY <1>8, <3>1, <4>3, LosesOf
      <4>5. ~PollerStep(p)
        BY <1>8, <2>6, <3>3
      <4> QED BY <1>8, <2>4, <4>4, <4>5
    <3> QED BY <3>2, <3>3
  <2> QED BY <2>5, <2>6
<1>9. CASE /\ poller[p].pc = "use" /\ j \in Jobs
           /\ Requeue(j, n) \/ Enqueue(j, n)
           /\ x.pc = "find"
  <2>1. Pushed(j) /\ UNCHANGED zset
    BY <1>9, LivingFacts, RequeuePushes, EnqueuePushes DEF Requeue, Enqueue
  <2>2. \A k \in Jobs \ {j} : QueueKept(k) /\ InSet(k)' = InSet(k)
    BY <2>1, PlacesUntouched DEF Pushed
  <2>3. \A k \in Jobs \ {j} : Still(k)
    BY <1>3, <1>9, <1>4, <1>5, <2>2 DEF Still
  <2>4. StateOf(j) = "moving" /\ StateOf(j)' = "queued"
    <3>1. HeldBy(j) # {} /\ InQueue(j)' # {}
      BY <1>3, <1>9, <2>1 DEF Pushed
    <3> QED BY <1>9, <3>1, PlacedBoth DEF Placed
  <2>5. Lifecycle!Moves(j)
    BY <1>9, <2>4, GoesOf DEF Lifecycle!Moves
  <2> QED BY <1>9, <2>3, <2>5
<1> QED BY <1>1, <1>7, <1>8, <1>9

LEMMA LivesPolls ==
    ASSUME Living, Living', NEW p \in Pollers, BotPoll(p) \/ BotPollFault(p)
    PROVE  Lives
<1>1. UNCHANGED <<intake, run, submitted, performed, completed, failures>>
  BY DEF BotPoll, BotPollFault, serverVars, history
<1>2. CASE BotPoll(p)
  <2>1. PollerStep(p) /\ UNCHANGED budget
    BY <1>2 DEF BotPoll, serverVars
  <2>2. CASE \A k \in Jobs : Still(k)
    BY <1>1, <2>1, <2>2, Stutters
  <2>3. CASE \E j \in Jobs : Lifecycle!Moves(j) /\ \A k \in Jobs \ {j} : Still(k)
    BY <1>1, <2>1, <2>3, Advances
  <2> QED BY <1>1, <2>1, <2>2, <2>3, PollMoves
<1>3. CASE BotPollFault(p)
  <2>1. Fail(p) /\ ~Undisturbed'
    BY <1>3, Spent DEF BotPollFault, Budgets
  <2>2. \/ \A k \in Jobs : Lifecycle!Unhurt(k)
        \/ \E j \in Jobs : /\ Lifecycle!Moves(j) \/ Lifecycle!Loses(j)
                          /\ \A k \in Jobs \ {j} : Lifecycle!Unhurt(k)
    <3>1. \A k \in Jobs : Still(k) => Lifecycle!Unhurt(k)
      BY <1>1, StillUnhurt
    <3> QED BY <1>1, <2>1, <3>1, PollMoves
  <2> QED BY <1>1, <2>1, <2>2, Disturbs
<1> QED BY <1>2, <1>3

-----------------------------------------------------------------------------
(* The refinement *)

LEMMA LivesInit == BotInit => Lifecycle!Init
<1> SUFFICES ASSUME BotInit PROVE Lifecycle!Init
  OBVIOUS
<1>1. \A j \in Jobs : StateOf(j) = "new"
  <2>1. BotCustody /\ submitted = {}
    BY BotCustodyInit DEF BotInit, Init
  <2> QED BY <2>1, StatePlaced DEF Placed
<1>2. performed = {} /\ failures = [j \in Jobs |-> 0] /\ Undisturbed
  BY DEF BotInit, Init, Undisturbed
<1> QED BY <1>1, <1>2 DEF Lifecycle!Init

LEMMA LivesNext == Living /\ Living' /\ [BotNext]_botVars => Lives
<1> SUFFICES ASSUME Living, Living', [BotNext]_botVars PROVE Lives
  OBVIOUS
<1>1. CASE ServerNext /\ UNCHANGED pollerVars
  <2>1. CASE \E j \in Jobs \ Scheduled : Submit(j)
    BY <1>1, <2>1, LivesSubmit
  <2>2. CASE \E s \in Servers : IntakeStep(s) \/ IntakeFault(s)
    BY <1>1, <2>2, LivesIntake
  <2>3. CASE \E r \in Runs : WorkerStep(r) \/ WorkerFault(r)
    BY <1>1, <2>3, LivesWorker
  <2>4. CASE \E s \in Servers : \/ HandleCompletedJobs(s) \/ StartJobs(s) \/ CleanupWorkers(s)
                                \/ CleanupEnd(s) \/ ShutdownDone(s)
                                \/ \E r \in Runs : Settle(s, r) \/ CleanupUpdate(s, r)
    BY <1>1, <2>4, LivesLoopQuiet
  <2>5. CASE \E s \in Servers : Shutdown(s) \/ StartFault(s)
    BY <1>1, <2>5, LivesShutdown
  <2>6. CASE \E s \in Servers : Finish(s)
    BY <1>1, <2>6, LivesFinish
  <2>7. CASE \E s \in Servers : SettleFault(s)
    BY <1>1, <2>7, LivesSettleFault
  <2>8. CASE \E s \in Servers : CleanupRequeue(s) \/ CleanupFault(s)
    BY <1>1, <2>8, LivesCleanup
  <2> QED BY <1>1, <2>1, <2>2, <2>3, <2>4, <2>5, <2>6, <2>7, <2>8 DEF ServerNext, Faults, LoopStep
<1>2. CASE \E j \in Jobs : ScheduleAt(j)
  BY <1>2, LivesSchedule
<1>3. CASE \E s \in Servers : BotExit(s) \/ BotCrash(s)
  BY <1>3, LivesVanish
<1>4. CASE \E p \in Pollers : BotPoll(p) \/ BotPollFault(p)
  BY <1>4, LivesPolls
<1>5. CASE UNCHANGED botVars
  <2>1. UNCHANGED <<queue, zset, intake, run, submitted, performed, failures, completed, budget, pollerVars>>
    BY <1>5 DEF botVars, vars, serverVars, storeVars
  <2> QED BY <2>1, LivesQuiet
<1> QED BY <1>1, <1>2, <1>3, <1>4, <1>5 DEF BotNext

\* Clients, servers and pollers take each job through the life JobLifecycle
\* promises it.  Undisturbed, a job makes its moves in the promised order, is
\* retried as often as its options say and dies no sooner and no later; when
\* processes stop or calls fail, what is in flight there is lost or handed
\* back, and no other job is touched.
THEOREM TaskBotImplementsLifecycle == BotSpec => RefinesLifecycle
<1>1. Living /\ Living' /\ [BotNext]_botVars => [Lifecycle!Next]_(Lifecycle!jobVars)
  BY LivesNext DEF Lives
<1> QED BY <1>1, LivesInit, LivingHolds, PTL DEF BotSpec, RefinesLifecycle, Lifecycle!Spec
=============================================================================
