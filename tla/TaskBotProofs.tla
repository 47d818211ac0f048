---------------------------- MODULE TaskBotProofs ---------------------------
(***************************************************************************)
(* Theorems about TaskBot: servers and their pollers on one Redis, for     *)
(* every set of servers, pollers, jobs, queues and runs, and whatever      *)
(* stops or fails.                                                         *)
(*                                                                         *)
(* A step of the running system is a step of the servers, about which      *)
(* CustodyProofs has said everything, or one of a client that schedules a  *)
(* job, or one of a poller, which changes nothing but the store and itself.*)
(* Between the ZREM and the push the poller is the one place that has the  *)
(* job.  The second half follows the retry counts.                         *)
(***************************************************************************)
EXTENDS TaskBot, CustodyProofs

-----------------------------------------------------------------------------
(* The places of a job, the pollers among them *)

BotUnheld(j) == Unheld(j) /\ HeldBy(j) = {}

BotAlone(j) == Alone(j) /\ AtMostOne(HeldBy(j)) /\ (HeldBy(j) # {} => Unheld(j))

\* A poller that goes on has a job to go on with.
PollersHold == \A p \in Pollers : poller[p].pc # "find" => poller[p].job \in Jobs

BotGrounded == Grounded /\ PollerTypeOK /\ PollersHold

BotHeldIsPending == \A j \in Jobs : j \notin submitted \/ j \in completed => BotUnheld(j)

BotCustody ==
    /\ BotGrounded
    /\ \A j \in Jobs : BotAlone(j)
    /\ BotHeldIsPending
    /\ completed \subseteq submitted
    /\ PendingHasPayload

BotNothingLost == Undisturbed => \A j \in submitted \ completed : ~BotUnheld(j)

\* The job comes to no second place, and from nowhere to none.
BotPasses(k) == (BotAlone(k) => BotAlone(k)') /\ (BotUnheld(k) => BotUnheld(k)')

\* ... and is not lost either.
BotKeeps(k) == BotPasses(k) /\ (BotUnheld(k)' => BotUnheld(k))

-----------------------------------------------------------------------------
(* The steps of the running system *)

\* A step of the servers; the pollers of a process that goes are gone with it.
Serves == [Next]_vars /\ (UNCHANGED pollerVars \/ \E ps : DropPollers(ps))

Polls == \E p \in Pollers : BotPoll(p) \/ BotPollFault(p)

LEMMA BotCases ==
    ASSUME [BotNext]_botVars
    PROVE  Serves \/ (\E j \in Jobs : ScheduleAt(j)) \/ Polls
<1>1. CASE ServerNext /\ UNCHANGED pollerVars
  BY <1>1 DEF ServerNext, Next, Serves
<1>2. CASE \E s \in Servers : BotExit(s) \/ BotCrash(s)
  BY <1>2 DEF BotExit, BotCrash, Next, Serves
<1>3. CASE UNCHANGED botVars
  BY <1>3 DEF botVars, Serves
<1> QED BY <1>1, <1>2, <1>3 DEF BotNext, Polls

\* A step of a poller touches the store, the poller and the bound on faults.
LEMMA PollTouches ==
    ASSUME Polls
    PROVE  /\ UNCHANGED <<proc, intake, loop, run, submitted, performed, failures, completed>>
           /\ UNCHANGED budget \/ Spend("fault")
BY DEF Polls, BotPoll, BotPollFault, serverVars, history

\* The holder of a job after one poller has moved on.
LEMMA HeldByMove ==
    ASSUME PollerTypeOK, NEW p \in Pollers, NEW x, poller' = [poller EXCEPT ![p] = x], NEW k
    PROVE  HeldBy(k)' = IF x.job = k /\ x.pc \in {"get", "use"} THEN HeldBy(k) \cup {p} ELSE HeldBy(k) \ {p}
BY DEF PollerTypeOK, HeldBy

LEMMA ZremTakes ==
    ASSUME StoreTypeOK, NEW z \in SetNames, NEW j \in Jobs, Zrem(z, j)
    PROVE  /\ StoreTypeOK'
           /\ \A k \in Jobs : InSet(k)' = IF k = j THEN InSet(k) \ {z} ELSE InSet(k)
BY DEF StoreTypeOK, Zrem, InSet

LEMMA AddToSetAdds ==
    ASSUME StoreTypeOK, NEW z \in SetNames, NEW j \in Jobs, NEW n \in Nat, AddToSet(z, j, n)
    PROVE  \A k \in Jobs : InSet(k)' = IF k = j THEN InSet(k) \cup {z} ELSE InSet(k)
BY DEF StoreTypeOK, AddToSet, InSet

\* What one poller does: how it changes, and what it asks of the store.
LEMMA PollerMoves ==
    ASSUME BotGrounded, NEW p \in Pollers, PollerStep(p) \/ Fail(p)
    PROVE  LET j == poller[p].job
               n == poller[p].retry
           IN  \E x \in PollerType :
                 /\ poller' = [poller EXCEPT ![p] = x]
                 /\ x.pc # "find" => x.job \in Jobs
                 /\ \/ /\ UNCHANGED storeVars
                       /\ x.pc \in {"find", "zrem"} \/ (x.pc = "use" /\ poller[p].pc = "get" /\ x.job = j
                                                          /\ HasPayload(j) /\ x.retry = stored[j])
                       /\ PollerStep(p) => \/ poller[p].pc = "find"
                                           \/ poller[p].pc = "get" /\ (HasPayload(j) => x.pc = "use")
                    \/ /\ poller[p].pc = "zrem" /\ j \in Jobs /\ Zrem(SourceOf[p], j)
                       /\ x.pc = "find" \/ (x.pc = "get" /\ x.job = j /\ j \in zset[SourceOf[p]])
                       /\ PollerStep(p) => (j \in zset[SourceOf[p]] => x.pc = "get")
                    \/ /\ poller[p].pc = "use" /\ j \in Jobs /\ n \in Nat
                       /\ Requeue(j, n) \/ Enqueue(j, n)
                       /\ x.pc = "find"
<1> DEFINE j == poller[p].job
           n == poller[p].retry
<1>1. /\ poller[p] \in PollerType /\ IdlePoller \in PollerType /\ IdlePoller.pc = "find"
      /\ n \in Nat /\ (poller[p].pc # "find" => j \in Jobs)
  BY DEF BotGrounded, PollerTypeOK, PollersHold, PollerType, IdlePoller
<1>2. ASSUME NEW k \in Jobs, Find(p, k)
      PROVE  \E x \in PollerType : poller' = [poller EXCEPT ![p] = x] /\ x.pc = "zrem" /\ x.job \in Jobs
  <2> DEFINE x == [pc |-> "zrem", job |-> k, retry |-> 0]
  <2>1. x \in PollerType /\ x.pc = "zrem" /\ x.job \in Jobs
    BY DEF PollerType
  <2>2. poller' = [poller EXCEPT ![p] = x]
    BY <1>2 DEF Find
  <2> QED BY <2>1, <2>2
<1>3. CASE \E k \in Jobs : Find(p, k)
  BY <1>2, <1>3 DEF Find
<1>4. CASE Take(p)
  <2>1. CASE j \in zset[SourceOf[p]]
    <3> DEFINE x == [poller[p] EXCEPT !.pc = "get"]
    <3>1. x \in PollerType /\ x.pc = "get" /\ x.job = j /\ poller' = [poller EXCEPT ![p] = x]
      BY <1>1, <1>4, <2>1 DEF Take, PollerType
    <3> HIDE DEF x
    <3> QED BY <1>1, <1>4, <2>1, <3>1 DEF Take
  <2>2. CASE j \notin zset[SourceOf[p]]
    BY <1>1, <1>4, <2>2 DEF Take
  <2> QED BY <2>1, <2>2
<1>5. CASE Read(p)
  <2>1. CASE HasPayload(j)
    <3> DEFINE x == [poller[p] EXCEPT !.pc = "use", !.retry = stored[j]]
    <3>1. poller[p].pc = "get" /\ j \in Jobs /\ UNCHANGED storeVars
      BY <1>1, <1>5 DEF Read
    <3>2. stored[j] \in Nat
      BY <2>1, <3>1 DEF HasPayload, BotGrounded, Grounded, Held, TypeOK, StoreTypeOK
    <3>3. x \in PollerType /\ x.pc = "use" /\ x.job = j /\ x.retry = stored[j] /\ poller' = [poller EXCEPT ![p] = x]
      BY <1>1, <1>5, <2>1, <3>2 DEF Read, PollerType
    <3> HIDE DEF x
    <3> QED BY <2>1, <3>1, <3>3
  <2>2. CASE ~HasPayload(j)
    BY <1>1, <1>5, <2>2 DEF Read
  <2> QED BY <2>1, <2>2
<1>6. CASE Use(p)
  BY <1>1, <1>6 DEF Use
<1>7. CASE Fail(p) /\ ~PollerStep(p)
  BY <1>1, <1>7 DEF Fail
<1> QED BY <1>3, <1>4, <1>5, <1>6, <1>7 DEF PollerStep

-----------------------------------------------------------------------------
(* BotGrounded is inductive. *)

\* What a poller asks of the store leaves the rest as it was.
LEMMA GroundedPoll ==
    ASSUME BotGrounded, Polls
    PROVE  BotGrounded'
<1>1. PICK p \in Pollers : PollerStep(p) \/ Fail(p)
  BY DEF Polls, BotPoll, BotPollFault
<1>2. PICK x \in PollerType :
        /\ poller' = [poller EXCEPT ![p] = x] /\ (x.pc # "find" => x.job \in Jobs)
        /\ \/ UNCHANGED storeVars
           \/ poller[p].job \in Jobs /\ Zrem(SourceOf[p], poller[p].job)
           \/ /\ poller[p].job \in Jobs /\ poller[p].retry \in Nat
              /\ Requeue(poller[p].job, poller[p].retry) \/ Enqueue(poller[p].job, poller[p].retry)
  BY <1>1, PollerMoves
<1>3. StoreTypeOK' /\ QueuesSorted'
  <2>1. StoreTypeOK /\ QueuesSorted
    BY DEF BotGrounded, Grounded, Held, TypeOK
  <2>2. CASE UNCHANGED storeVars
    BY <2>1, <2>2, QueueUntouched DEF storeVars, StoreTypeOK
  <2>3. CASE poller[p].job \in Jobs /\ Zrem(SourceOf[p], poller[p].job)
    BY <2>1, <2>3, ZremTakes, QueueUntouched, PollerAssumption DEF Zrem, SetNames
  <2>4. CASE /\ poller[p].job \in Jobs /\ poller[p].retry \in Nat
             /\ Requeue(poller[p].job, poller[p].retry) \/ Enqueue(poller[p].job, poller[p].retry)
    BY <2>1, <2>4, RequeueType, EnqueueType, RequeuePushes, EnqueuePushes DEF Pushed
  <2> QED BY <1>2, <2>2, <2>3, <2>4
<1>4. Grounded'
  <2>1. budget' \in [Budgets -> Nat]
    BY PollTouches, SpendType DEF Budgets, BotGrounded, Grounded, Held, TypeOK
  <2>2. UNCHANGED <<proc, intake, loop, run, submitted, performed, failures, completed>>
    BY PollTouches
  <2> QED BY <1>3, <2>1, <2>2 DEF BotGrounded, Grounded, Held, TypeOK, RunsHeld, IntakeHeld, LoopOwns, RunsOf,
        FreeIsEmpty, HandedBack
<1>5. PollerTypeOK' /\ PollersHold'
  <2>1. failedUse' \subseteq Jobs
    BY <1>1 DEF BotGrounded, PollerTypeOK, PollersHold, PollerStep, Find, Take, Read, Use, Fail
  <2> QED BY <1>2, <2>1 DEF BotGrounded, PollerTypeOK, PollersHold
<1> QED BY <1>4, <1>5 DEF BotGrounded

LEMMA GroundedSchedule ==
    ASSUME BotGrounded, NEW j \in Jobs, ScheduleAt(j)
    PROVE  BotGrounded'
<1>1. StoreTypeOK' /\ QueuesSorted'
  BY AddToSetType, QueueUntouched DEF ScheduleAt, AddToSet, SetNames, BotGrounded, Grounded, Held, TypeOK
<1> QED
  BY <1>1 DEF ScheduleAt, pollerVars, BotGrounded, Grounded, Held, TypeOK, RunsHeld, IntakeHeld, LoopOwns, RunsOf,
        FreeIsEmpty, HandedBack, PollerTypeOK, PollersHold

LEMMA GroundedServes ==
    ASSUME BotGrounded, Serves
    PROVE  BotGrounded'
<1>1. Grounded'
  BY GroundedNext DEF BotGrounded, Serves
<1>2. PollerTypeOK' /\ PollersHold'
  <2>1. CASE UNCHANGED pollerVars
    BY <2>1 DEF pollerVars, BotGrounded, PollerTypeOK, PollersHold
  <2>2. CASE \E ps : DropPollers(ps)
    <3>1. IdlePoller \in PollerType /\ IdlePoller.pc = "find"
      BY DEF IdlePoller, PollerType
    <3> QED BY <2>2, <3>1 DEF DropPollers, BotGrounded, PollerTypeOK, PollersHold
  <2> QED BY <2>1, <2>2 DEF Serves
<1> QED BY <1>1, <1>2 DEF BotGrounded

LEMMA BotGroundedInit == BotInit => BotGrounded
BY GroundedInit DEF BotInit, PollerInit, BotGrounded, PollerTypeOK, PollersHold, PollerType, IdlePoller

LEMMA BotGroundedNext == BotGrounded /\ [BotNext]_botVars => BotGrounded'
BY BotCases, GroundedPoll, GroundedSchedule, GroundedServes

-----------------------------------------------------------------------------
(* What a poller does to the custody of a job *)

\* Nothing but this changes where a server has a job.
Aside == UNCHANGED <<intake, run>>

\* A poller that asks nothing of the store.
LEMMA PollQuiet ==
    ASSUME UNCHANGED storeVars, Aside, NEW k, HeldBy(k)' \subseteq HeldBy(k)
    PROVE  BotPasses(k) /\ (HeldBy(k)' = HeldBy(k) => BotKeeps(k))
<1>1. Keeps(k)
  BY PlacesUntouched, SteadyKeeps DEF Aside, storeVars, Steady
<1> QED BY <1>1 DEF Keeps, Passes, BotKeeps, BotPasses, BotAlone, BotUnheld, AtMostOne

\* A poller that takes a job out of its set.
LEMMA PollTakes ==
    ASSUME BotGrounded, Aside, NEW p \in Pollers, NEW j \in Jobs, Zrem(SourceOf[p], j), NEW k \in Jobs,
           HeldBy(k)' \subseteq IF k = j /\ j \in zset[SourceOf[p]] THEN HeldBy(k) \cup {p} ELSE HeldBy(k)
    PROVE  /\ BotPasses(k)
           /\ HeldBy(k)' = (IF k = j /\ j \in zset[SourceOf[p]] THEN HeldBy(k) \cup {p} ELSE HeldBy(k))
                => BotKeeps(k)
<1> DEFINE z == SourceOf[p]
<1>1. z \in SetNames
  BY PollerAssumption DEF SetNames
<1>2. InSet(k)' = IF k = j THEN InSet(k) \ {z} ELSE InSet(k)
  BY <1>1, ZremTakes DEF BotGrounded, Grounded, Held, TypeOK
<1>3. QueueKept(k) /\ IntakesOf(k)' = IntakesOf(k) /\ BearersOf(k)' = BearersOf(k)
  BY PlacesUntouched DEF Zrem, Aside
<1>4. z \in InSet(k) <=> k \in zset[z]
  BY <1>1 DEF InSet
<1> HIDE DEF z
<1>5. CASE k # j \/ j \notin zset[z]
  <2>1. Steady(k)
    BY <1>2, <1>3, <1>4, <1>5 DEF Steady
  <2>2. HeldBy(k)' \subseteq HeldBy(k)
    BY <1>5 DEF z
  <2>3. Keeps(k)
    BY <2>1, SteadyKeeps
  <2>4. BotPasses(k) /\ (HeldBy(k)' = HeldBy(k) => BotKeeps(k))
    BY <2>2, <2>3 DEF Keeps, Passes, BotKeeps, BotPasses, BotAlone, BotUnheld, AtMostOne
  <2> QED BY <1>5, <2>4 DEF z
<1>6. CASE k = j /\ j \in zset[z]
  <2>1. ~Unheld(k)
    BY <1>4, <1>6 DEF Unheld
  <2>2. BotAlone(k) => Unheld(k)' /\ HeldBy(k) = {}
    BY <1>2, <1>3, <1>4, <1>6, <2>1 DEF BotAlone, Alone, Unheld, QueueKept, AtMostOne
  <2>3. HeldBy(k)' \subseteq HeldBy(k) \cup {p}
    BY <1>6 DEF z
  <2>4. BotAlone(k) => BotAlone(k)'
    BY <2>2, <2>3 DEF BotAlone, Alone, Unheld, AtMostOne
  <2> QED BY <1>6, <2>1, <2>4 DEF BotKeeps, BotPasses, BotUnheld, z
<1> QED BY <1>5, <1>6

\* A poller that puts its job in its queue.
LEMMA PollPushes ==
    ASSUME BotGrounded, Aside, NEW j \in Jobs, NEW p \in HeldBy(j), NEW n, Requeue(j, n) \/ Enqueue(j, n),
           NEW k \in Jobs, HeldBy(k)' = HeldBy(k) \ {p}
    PROVE  BotKeeps(k)
<1>1. Pushed(j)
  BY RequeuePushes, EnqueuePushes DEF BotGrounded, Grounded, Held, TypeOK
<1>2. InSet(k)' = InSet(k) /\ IntakesOf(k)' = IntakesOf(k) /\ BearersOf(k)' = BearersOf(k)
  BY PlacesUntouched DEF Requeue, Enqueue, Aside
<1>3. CASE k # j
  <2>1. Steady(k)
    BY <1>1, <1>2, <1>3 DEF Steady, Pushed
  <2>2. HeldBy(k)' = HeldBy(k)
    BY <1>3 DEF HeldBy
  <2> QED BY <2>1, <2>2, SteadyKeeps DEF Keeps, Passes, BotKeeps, BotPasses, BotAlone, BotUnheld, AtMostOne
<1>4. CASE k = j
  <2>1. BotAlone(k) => Alone(k)' /\ HeldBy(k)' = {}
    BY <1>1, <1>2, <1>4 DEF Pushed, BotAlone, Alone, Unheld, AtMostOne
  <2>2. ~BotUnheld(k) /\ ~BotUnheld(k)'
    BY <1>1, <1>4 DEF Pushed, BotUnheld, Unheld
  <2> QED BY <2>1, <2>2 DEF BotKeeps, BotPasses, BotAlone, AtMostOne
<1> QED BY <1>3, <1>4

\* A poller hands a job on, and loses it only if a call fails or the payload
\* is missing.
LEMMA PollCustody ==
    ASSUME BotGrounded, Aside, NEW p \in Pollers, PollerStep(p) \/ Fail(p), NEW k \in Jobs
    PROVE  BotPasses(k) /\ (PollerStep(p) /\ HasPayload(k) => BotKeeps(k))
<1> DEFINE j == poller[p].job
           n == poller[p].retry
<1>1. PICK x \in PollerType :
                 /\ poller' = [poller EXCEPT ![p] = x]
                 /\ \/ /\ UNCHANGED storeVars
                       /\ x.pc \in {"find", "zrem"} \/ (x.pc = "use" /\ poller[p].pc = "get" /\ x.job = j)
                       /\ PollerStep(p) => \/ poller[p].pc = "find"
                                           \/ poller[p].pc = "get" /\ (HasPayload(j) => x.pc = "use")
                    \/ /\ poller[p].pc = "zrem" /\ j \in Jobs /\ Zrem(SourceOf[p], j)
                       /\ x.pc = "find" \/ (x.pc = "get" /\ x.job = j /\ j \in zset[SourceOf[p]])
                       /\ PollerStep(p) => (j \in zset[SourceOf[p]] => x.pc = "get")
                    \/ /\ poller[p].pc = "use" /\ j \in Jobs /\ n \in Nat
                       /\ Requeue(j, n) \/ Enqueue(j, n)
                       /\ x.pc = "find"
  BY PollerMoves
<1>2. HeldBy(k)' = IF x.job = k /\ x.pc \in {"get", "use"} THEN HeldBy(k) \cup {p} ELSE HeldBy(k) \ {p}
  BY <1>1, HeldByMove DEF BotGrounded
<1>3. p \in HeldBy(k) <=> j = k /\ poller[p].pc \in {"get", "use"}
  BY DEF HeldBy
<1>4. CASE /\ UNCHANGED storeVars
           /\ x.pc \in {"find", "zrem"} \/ (x.pc = "use" /\ poller[p].pc = "get" /\ x.job = j)
           /\ PollerStep(p) => \/ poller[p].pc = "find"
                               \/ poller[p].pc = "get" /\ (HasPayload(j) => x.pc = "use")
  <2>1. HeldBy(k)' \subseteq HeldBy(k)
    BY <1>2, <1>3, <1>4
  <2>2. PollerStep(p) /\ HasPayload(k) => HeldBy(k)' = HeldBy(k)
    BY <1>2, <1>3, <1>4
  <2> QED BY <1>4, <2>1, <2>2, PollQuiet
<1>5. CASE /\ poller[p].pc = "zrem" /\ j \in Jobs /\ Zrem(SourceOf[p], j)
           /\ x.pc = "find" \/ (x.pc = "get" /\ x.job = j /\ j \in zset[SourceOf[p]])
           /\ PollerStep(p) => (j \in zset[SourceOf[p]] => x.pc = "get")
  <2>1. HeldBy(k)' \subseteq IF k = j /\ j \in zset[SourceOf[p]] THEN HeldBy(k) \cup {p} ELSE HeldBy(k)
    BY <1>2, <1>3, <1>5
  <2>2. PollerStep(p) =>
          HeldBy(k)' = IF k = j /\ j \in zset[SourceOf[p]] THEN HeldBy(k) \cup {p} ELSE HeldBy(k)
    BY <1>2, <1>3, <1>5
  <2> HIDE DEF j
  <2> QED BY <1>5, <2>1, <2>2, PollTakes DEF BotKeeps
<1>6. CASE /\ poller[p].pc = "use" /\ j \in Jobs /\ n \in Nat
           /\ Requeue(j, n) \/ Enqueue(j, n)
           /\ x.pc = "find"
  <2>1. HeldBy(k)' = HeldBy(k) \ {p} /\ p \in HeldBy(j)
    BY <1>2, <1>6 DEF HeldBy
  <2> HIDE DEF j
  <2>2. BotKeeps(k)
    BY <1>6, <2>1, PollPushes
  <2> QED BY <2>2 DEF BotKeeps
<1> QED BY <1>1, <1>4, <1>5, <1>6

-----------------------------------------------------------------------------
(* BotCustody is inductive. *)

\* The pollers of a process that goes drop what they have.
LEMMA ServesHeldBy ==
    ASSUME Serves, NEW k
    PROVE  HeldBy(k)' \subseteq HeldBy(k) /\ (UNCHANGED pollerVars => HeldBy(k)' = HeldBy(k))
BY DEF Serves, DropPollers, pollerVars, IdlePoller, HeldBy

LEMMA ScheduleAtPlaces ==
    ASSUME BotGrounded, NEW j \in Jobs, ScheduleAt(j), NEW k \in Jobs
    PROVE  IF k = j THEN BotUnheld(k) => BotAlone(k)' /\ ~BotUnheld(k)' ELSE BotKeeps(k)
<1>1. InSet(k)' = IF k = j THEN InSet(k) \cup {"scheduled"} ELSE InSet(k)
  BY AddToSetAdds DEF ScheduleAt, SetNames, BotGrounded, Grounded, Held, TypeOK
<1>2. QueueKept(k) /\ IntakesOf(k)' = IntakesOf(k) /\ BearersOf(k)' = BearersOf(k)
  BY PlacesUntouched DEF ScheduleAt, AddToSet
<1>3. HeldBy(k)' = HeldBy(k)
  BY DEF ScheduleAt, pollerVars, HeldBy
<1>4. CASE k = j
  BY <1>1, <1>2, <1>3, <1>4 DEF QueueKept, BotUnheld, Unheld, BotAlone, Alone, AtMostOne
<1>5. CASE k # j
  <2>1. Keeps(k)
    BY <1>1, <1>2, <1>5, SteadyKeeps DEF Steady
  <2> QED BY <1>3, <1>5, <2>1 DEF Keeps, Passes, BotKeeps, BotPasses, BotAlone, BotUnheld, AtMostOne
<1> QED BY <1>4, <1>5

\* What every step of the running system does to the custody of every job.
LEMMA BotCustodyStep ==
    ASSUME BotGrounded, [BotNext]_botVars, NEW k \in Jobs
    PROVE  /\ k \notin submitted' \ submitted => BotPasses(k)
           /\ k \in submitted' \ submitted => (BotUnheld(k) => BotAlone(k)')
           /\ k \in completed' \ completed => ~BotUnheld(k) /\ (BotAlone(k) => BotUnheld(k)')
<1>1. CASE Serves
  <2>1. HeldBy(k)' \subseteq HeldBy(k)
    BY <1>1, ServesHeldBy
  <2>2. /\ k \notin submitted' \ submitted => Passes(k)
        /\ k \in submitted' \ submitted => (Unheld(k) => Alone(k)')
        /\ k \in completed' \ completed => ~Unheld(k) /\ (Alone(k) => Unheld(k)')
    BY <1>1, CustodyStep DEF Serves, BotGrounded
  <2> QED BY <2>1, <2>2 DEF Passes, BotPasses, BotAlone, BotUnheld, AtMostOne
<1>2. ASSUME NEW j \in Jobs, ScheduleAt(j)
      PROVE  /\ k \notin submitted' \ submitted => BotPasses(k)
             /\ k \in submitted' \ submitted => (BotUnheld(k) => BotAlone(k)')
             /\ completed' = completed
  <2>1. submitted' \ submitted = {j} /\ completed' = completed
    BY <1>2 DEF ScheduleAt
  <2> QED BY <1>2, <2>1, ScheduleAtPlaces DEF BotKeeps
<1>3. CASE Polls
  <2>1. UNCHANGED <<submitted, completed>> /\ Aside
    BY <1>3, PollTouches DEF Aside
  <2>2. BotPasses(k)
    BY <1>3, <2>1, PollCustody DEF Polls, BotPoll, BotPollFault
  <2> QED BY <2>1, <2>2
<1> QED BY <1>1, <1>2, <1>3, BotCases

\* A payload is deleted with the completion of its job only.
LEMMA BotPayloadKept ==
    ASSUME BotGrounded, [BotNext]_botVars, NEW k \in Jobs
    PROVE  \/ k \in completed'
           \/ k \in submitted' \ submitted /\ stored'[k] # NoPayload
           \/ k \notin submitted' \ submitted /\ (stored'[k] = stored[k] \/ stored'[k] # NoPayload)
<1>1. CASE Serves
  BY <1>1, PayloadKept DEF Serves, BotGrounded
<1>2. NoPayload \notin Nat /\ StoreTypeOK
  BY StoreAssumption DEF BotGrounded, Grounded, Held, TypeOK
<1>3. ASSUME NEW j \in Jobs, ScheduleAt(j)
      PROVE  IF k = j THEN stored'[k] # NoPayload ELSE stored'[k] = stored[k] /\ k \notin submitted' \ submitted
  BY <1>2, <1>3 DEF ScheduleAt, AddToSet, StoreTypeOK
<1>4. CASE \E j \in Jobs : ScheduleAt(j)
  BY <1>3, <1>4
<1>5. CASE Polls
  <2>1. PICK p \in Pollers : PollerStep(p) \/ Fail(p)
    BY <1>5 DEF Polls, BotPoll, BotPollFault
  <2>2. \/ UNCHANGED stored
        \/ \E j \in Jobs, n \in Nat : Requeue(j, n) \/ Enqueue(j, n)
    BY <2>1, PollerMoves, BotGrounded DEF storeVars, Zrem
  <2>3. stored'[k] = stored[k] \/ stored'[k] # NoPayload
    BY <1>2, <2>2 DEF StoreTypeOK, Requeue, Enqueue
  <2> QED BY <1>5, <2>3, PollTouches
<1> QED BY <1>1, <1>4, <1>5, BotCases

\* What is submitted or completed stays so.
LEMMA HistoryGrows ==
    ASSUME BotGrounded, [BotNext]_botVars
    PROVE  submitted \subseteq submitted' /\ completed \subseteq completed'
<1>1. CASE Serves
  <2>1. ASSUME NEW s \in Servers, Finish(s) \/ SettleFault(s) PROVE completed \subseteq completed'
    BY <2>1 DEF Finish, SettleFault, SettleEffect
  <2> QED BY <1>1, <2>1, HistorySteps DEF Serves
<1>2. CASE \E j \in Jobs : ScheduleAt(j)
  BY <1>2 DEF ScheduleAt
<1>3. CASE Polls
  BY <1>3, PollTouches
<1> QED BY <1>1, <1>2, <1>3, BotCases

LEMMA BotCustodyInit == BotInit => BotCustody
<1> SUFFICES ASSUME BotInit PROVE BotCustody
  OBVIOUS
<1>1. \A j \in Jobs : HeldBy(j) = {}
  BY DEF BotInit, PollerInit, IdlePoller, HeldBy
<1>2. \A j \in Jobs : Unheld(j) /\ Alone(j)
  BY CustodyInit DEF BotInit, Init, Custody, HeldIsPending
<1> QED BY <1>1, <1>2, BotGroundedInit, CustodyInit
        DEF BotInit, Custody, BotCustody, BotHeldIsPending, BotUnheld, BotAlone, Init, AtMostOne

LEMMA BotCustodyNext == BotCustody /\ [BotNext]_botVars => BotCustody'
<1> SUFFICES ASSUME BotCustody, [BotNext]_botVars PROVE BotCustody'
  OBVIOUS
<1>1. BotGrounded /\ BotGrounded'
  BY BotGroundedNext DEF BotCustody
<1>2. /\ submitted \subseteq submitted' /\ completed \subseteq completed'
      /\ submitted' \subseteq Jobs /\ completed' \subseteq Jobs
  BY <1>1, HistoryGrows DEF BotGrounded, Grounded, Held, TypeOK
<1>3. ASSUME NEW k \in Jobs
      PROVE  /\ BotAlone(k)'
             /\ k \notin submitted' \/ k \in completed' => BotUnheld(k)'
             /\ k \in completed' => k \in submitted'
             /\ k \in submitted' \ completed' => stored'[k] # NoPayload
  <2>1. /\ BotAlone(k) /\ (k \notin submitted \/ k \in completed => BotUnheld(k))
        /\ k \in completed => k \in submitted
        /\ k \in submitted \ completed => stored[k] # NoPayload
    BY DEF BotCustody, BotHeldIsPending, PendingHasPayload
  <2>2. /\ k \notin submitted' \ submitted => BotPasses(k)
        /\ k \in submitted' \ submitted => (BotUnheld(k) => BotAlone(k)')
        /\ k \in completed' \ completed => ~BotUnheld(k) /\ (BotAlone(k) => BotUnheld(k)')
    BY <1>1, BotCustodyStep
  <2>3. /\ k \in submitted \ completed' => stored'[k] # NoPayload
        /\ k \in submitted' \ submitted /\ k \notin completed' => stored'[k] # NoPayload
    BY <1>1, <1>2, <2>1, BotPayloadKept
  <2> QED BY <1>2, <2>1, <2>2, <2>3 DEF BotPasses
<1> QED BY <1>1, <1>2, <1>3 DEF BotCustody, BotHeldIsPending, PendingHasPayload

LEMMA BotCustodyHolds == BotSpec => []BotCustody
BY BotCustodyInit, BotCustodyNext, PTL DEF BotSpec

\* The custodians of a job are none, or one, as its places say.
LEMMA BotCustodiansOfPlaces ==
    ASSUME NEW j \in Jobs
    PROVE  /\ BotCustodians(j) = {} <=> BotUnheld(j)
           /\ BotAlone(j) => AtMostOne(BotCustodians(j))
<1>1. BotCustodians(j) = {} <=> BotUnheld(j)
  BY CustodiansOfPlaces DEF BotCustodians, BotUnheld
<1>2. ASSUME BotAlone(j) PROVE AtMostOne(BotCustodians(j))
  <2>1. CASE HeldBy(j) = {}
    <3>1. BotCustodians(j) = Custodians(j)
      BY <2>1 DEF BotCustodians
    <3> QED BY <1>2, <3>1, CustodiansOfPlaces DEF BotAlone
  <2>2. CASE HeldBy(j) # {}
    <3>1. BotCustodians(j) = {<<"poller", p>> : p \in HeldBy(j)} /\ AtMostOne(HeldBy(j))
      BY <1>2, <2>2, CustodiansOfPlaces DEF BotCustodians, BotAlone
    <3> QED BY <3>1 DEF AtMostOne
  <2> QED BY <2>1, <2>2
<1> QED BY <1>1, <1>2

\* The pollers keep the shape the code gives them.
THEOREM PollersKeepType == BotSpec => []PollerTypeOK
<1>1. BotCustody => PollerTypeOK
  BY DEF BotCustody, BotGrounded
<1> QED BY BotCustodyHolds, <1>1, PTL

\* No job is ever in two hands, those of the pollers included: not when the
\* iterations of several servers overlap and find the same job due, and not
\* when a server dies or a command fails half way.
THEOREM BotCustodyIsSingle == BotSpec => []BotSingleCustody
<1>1. BotCustody => BotSingleCustody
  BY BotCustodiansOfPlaces, OneAtMost DEF BotCustody, BotSingleCustody
<1> QED BY BotCustodyHolds, <1>1, PTL

\* A completed job is nowhere any more, so that nothing brings it back.
THEOREM CompletedStaysOut == BotSpec => []BotCompletedStaysOut
<1>1. BotCustody => BotCompletedStaysOut
  BY BotCustodiansOfPlaces DEF BotCustody, BotGrounded, Grounded, Held, TypeOK, BotHeldIsPending, BotCompletedStaysOut
<1> QED BY BotCustodyHolds, <1>1, PTL

\* A job that waits in a queue or a set has its payload, whatever the pollers
\* wrote last.
THEOREM BotWaitingJobsHavePayload == BotSpec => []WaitingHasPayload
<1>1. BotCustody => WaitingHasPayload
  <2> SUFFICES ASSUME BotCustody, NEW j \in Jobs, InRedis(j) PROVE stored[j] # NoPayload
    BY DEF WaitingHasPayload
  <2>1. ~BotUnheld(j)
    BY DEF InRedis, BotUnheld, Unheld
  <2>2. j \in submitted \ completed
    BY <2>1 DEF BotCustody, BotHeldIsPending
  <2> QED BY <2>2 DEF BotCustody, PendingHasPayload
<1> QED BY BotCustodyHolds, <1>1, PTL

-----------------------------------------------------------------------------
(* Nothing is lost while nothing stops or fails. *)

LEMMA BotBudgetSteps ==
    ASSUME BotGrounded, [BotNext]_botVars
    PROVE  \/ \E b \in Budgets : Spend(b)
           \/ UNCHANGED budget /\ \A s \in Servers : proc[s] = "up" => proc'[s] = "up"
<1>1. CASE Serves
  BY <1>1, BudgetSteps DEF Serves, BotGrounded, Grounded, Held
<1>2. CASE \E j \in Jobs : ScheduleAt(j)
  BY <1>2 DEF ScheduleAt
<1>3. CASE Polls
  BY <1>3, PollTouches DEF Budgets
<1> QED BY <1>1, <1>2, <1>3, BotCases

LEMMA BotChargedNext == BotGrounded /\ Charged /\ [BotNext]_botVars => Charged'
<1> SUFFICES ASSUME BotGrounded, Charged, [BotNext]_botVars PROVE Charged'
  OBVIOUS
<1>1. CASE \E b \in Budgets : Spend(b)
  BY <1>1, SpendingDisturbs DEF BotGrounded, Grounded, Held
<1>2. CASE UNCHANGED budget /\ \A s \in Servers : proc[s] = "up" => proc'[s] = "up"
  BY <1>2 DEF Charged, Undisturbed
<1> QED BY <1>1, <1>2, BotBudgetSteps

\* Servers that are up and their pollers keep every job that has a payload,
\* or complete it.
LEMMA BotKeepsOrCompletes ==
    ASSUME BotGrounded, [BotNext]_botVars, ~\E b \in Budgets : Spend(b), \A s \in Servers : proc[s] = "up",
           NEW k \in Jobs, HasPayload(k), k \notin submitted' \ submitted
    PROVE  BotKeeps(k) \/ k \in completed'
<1>1. "fault" \in Budgets /\ "crash" \in Budgets
  BY DEF Budgets
<1>2. CASE ServerNext /\ UNCHANGED pollerVars
  <2>1. Serves
    BY <1>2 DEF ServerNext, Next, Serves
  <2>2. HeldBy(k)' = HeldBy(k)
    BY <1>2, <2>1, ServesHeldBy
  <2>3. Keeps(k) \/ k \in completed'
    BY <2>1, KeepsOrCompletes DEF Serves, BotGrounded
  <2> QED BY <2>2, <2>3 DEF Keeps, Passes, BotKeeps, BotPasses, BotAlone, BotUnheld, AtMostOne
<1>3. ASSUME NEW j \in Jobs, ScheduleAt(j) PROVE BotKeeps(k)
  <2>1. submitted' \ submitted = {j}
    BY <1>3 DEF ScheduleAt
  <2> QED BY <1>3, <2>1, ScheduleAtPlaces
<1>4. ~\E s \in Servers : BotExit(s) \/ BotCrash(s)
  BY <1>1 DEF BotExit, BotCrash, Exit, Crash
<1>5. ASSUME NEW p \in Pollers, BotPoll(p) \/ BotPollFault(p) PROVE BotKeeps(k)
  <2>1. BotPoll(p)
    BY <1>1, <1>5 DEF BotPollFault
  <2> QED BY <2>1, PollCustody DEF BotPoll, serverVars, Aside
<1>6. CASE UNCHANGED botVars
  <2>1. Keeps(k) /\ HeldBy(k)' = HeldBy(k)
    BY <1>6, CustodyIdle DEF botVars, pollerVars, HeldBy
  <2> QED BY <2>1 DEF Keeps, Passes, BotKeeps, BotPasses, BotAlone, BotUnheld, AtMostOne
<1> QED BY <1>2, <1>3, <1>4, <1>5, <1>6 DEF BotNext

LEMMA BotNothingLostNext == BotCustody /\ Charged /\ BotNothingLost /\ [BotNext]_botVars => BotNothingLost'
<1> SUFFICES ASSUME BotCustody, Charged, BotNothingLost, [BotNext]_botVars, Undisturbed',
                    NEW j \in submitted' \ completed'
             PROVE  ~BotUnheld(j)'
  BY DEF BotNothingLost
<1>1. BotGrounded /\ TypeOK /\ BotCustody'
  BY BotCustodyNext DEF BotCustody, BotGrounded, Grounded, Held
<1>2. ~(\E b \in Budgets : Spend(b)) /\ UNCHANGED budget
  BY <1>1, SpendingDisturbs, BotBudgetSteps
<1>3. \A s \in Servers : proc[s] = "up"
  BY <1>2 DEF Charged, Undisturbed
<1>4. j \in Jobs /\ (j \in submitted => j \notin completed)
  BY <1>1, HistoryGrows DEF BotCustody, BotGrounded, Grounded, Held, TypeOK
<1>5. CASE j \in submitted' \ submitted
  <2>1. BotUnheld(j)
    BY <1>4, <1>5 DEF BotCustody, BotHeldIsPending
  <2>2. CASE ScheduleAt(j)
    BY <1>1, <1>4, <2>1, <2>2, ScheduleAtPlaces
  <2>3. CASE Submit(j)
    BY <1>1, <1>4, <2>1, <2>3, CustodySubmit DEF BotGrounded, BotUnheld
  <2>4. Submit(j) \/ ScheduleAt(j)
    <3>1. CASE Serves
      BY <1>5, <3>1, HistorySteps DEF Serves
    <3>2. CASE \E i \in Jobs : ScheduleAt(i)
      BY <1>5, <3>2 DEF ScheduleAt
    <3>3. CASE Polls
      BY <1>5, <3>3, PollTouches
    <3> QED BY <3>1, <3>2, <3>3, BotCases
  <2> QED BY <2>2, <2>3, <2>4
<1>6. CASE j \in submitted
  <2>1. HasPayload(j) /\ ~BotUnheld(j)
    BY <1>2, <1>4, <1>6 DEF BotCustody, PendingHasPayload, HasPayload, BotNothingLost, Undisturbed
  <2>2. BotKeeps(j)
    BY <1>1, <1>2, <1>3, <1>4, <1>6, <2>1, BotKeepsOrCompletes
  <2> QED BY <2>1, <2>2 DEF BotKeeps
<1> QED BY <1>5, <1>6

\* Until a process is told to stop, dies or has a call fail, no job is lost on
\* its way through queue, server, retry set and poller and back, in however
\* many servers: one that is not completed is somewhere, and one that is
\* completed is nowhere.
THEOREM BotJobsAreAccounted == BotSpec => []BotJobsAccounted
<1>1. BotInit => BotCustody /\ Charged /\ BotNothingLost
  <2>1. BotInit => Charged
    BY ChargedInit DEF BotInit
  <2>2. BotInit => BotNothingLost
    BY DEF BotInit, Init, BotNothingLost
  <2> QED BY <2>1, <2>2, BotCustodyInit
<1>2. BotCustody /\ Charged /\ BotNothingLost /\ [BotNext]_botVars
        => BotCustody' /\ Charged' /\ BotNothingLost'
  BY BotCustodyNext, BotChargedNext, BotNothingLostNext DEF BotCustody
<1>3. BotCustody /\ BotNothingLost => BotJobsAccounted
  <2> SUFFICES ASSUME BotCustody, BotNothingLost, Undisturbed, NEW j \in submitted
               PROVE  j \in completed <=> BotCustodians(j) = {}
    BY DEF BotJobsAccounted
  <2>1. j \in Jobs /\ (j \in completed => BotUnheld(j)) /\ (j \notin completed => ~BotUnheld(j))
    BY DEF BotCustody, BotGrounded, Grounded, Held, TypeOK, BotHeldIsPending, BotNothingLost
  <2> QED BY <2>1, BotCustodiansOfPlaces
<1> QED BY <1>1, <1>2, <1>3, PTL DEF BotSpec

-----------------------------------------------------------------------------
(* What the retry counts of a job say about its failures.  A count travels *)
(* from the store to a run, to a poller and back.  Every copy that can     *)
(* still decide something agrees with the failures settled so far, because *)
(* whoever has the job is the only one to have it.  Copies nobody will     *)
(* settle any more, those of handlers that go on in a server that has      *)
(* handed their jobs back, may be behind, and write what they know: that   *)
(* is why the counts agree up to the first shutdown only, and are never    *)
(* ahead after it.                                                         *)

\* No shutdown was requested so far.
NoShutdown == budget["shutdown"] = MaxShutdowns

\* A count of retries that is never ahead of the failures, and without a
\* shutdown never behind them either.
Agrees(n, f) == n <= f /\ (NoShutdown => n = f)

\* A run that is to be retried has been counted already, its failure has not.
Attempts(r) ==
    IF run[r].phase = "retrying" THEN failures[run[r].job] + 1 ELSE failures[run[r].job]

RunsCounted == \A r \in Runs : run[r].phase # "free" => Agrees(run[r].retry, Attempts(r))

\* The payload of the job was written by a run whose failure is not counted yet.
Ahead(j) == \E r \in BearersOf(j) : run[r].phase = "retrying"

\* The payload of a job that may still run; of a dead one it counts no more.
StoredCounted ==
    \A j \in Jobs \ zset["dead"] :
        stored[j] \in Nat /\ ~BotUnheld(j) /\ ~Ahead(j) => Agrees(stored[j], failures[j])

PollersCounted ==
    \A p \in Pollers : poller[p].pc = "use" => Agrees(poller[p].retry, failures[poller[p].job])

NeverFailed == \A j \in Jobs \ submitted : failures[j] = 0

\* A run that dies has used up the retries of its job, if it had any.
DyingSpent ==
    \A r \in Runs :
        run[r].phase = "dying" /\ run[r].job \in Handled /\ MaxRetries[run[r].job] \in Nat
            => run[r].retry = MaxRetries[run[r].job]

DeadSpent ==
    \A j \in zset["dead"] \cap Handled :
        MaxRetries[j] \in Nat => failures[j] > MaxRetries[j] /\ (NoShutdown => failures[j] = MaxRetries[j] + 1)

Counted ==
    RunsCounted /\ StoredCounted /\ PollersCounted /\ NeverFailed /\ DyingSpent /\ DeadSpent

\* Only a shutdown makes a loop hand its workers back, and a process that is
\* gone has no runs.
HandsOff ==
    /\ budget["shutdown"] <= MaxShutdowns
    /\ NoShutdown => \A s \in Servers : proc[s] \in {"up", "gone"}
    /\ \A s \in Servers :
            loop[s].pc \in {"cleanup", "requeue", "wedged", "ended"} => proc[s] # "up"
    /\ \A r \in Runs : \A s \in Servers : run[r].at = s => proc[s] # "gone"

-----------------------------------------------------------------------------
(* Hands off the workers, until a shutdown *)

LEMMA ShutdownBudget ==
    ASSUME BotGrounded, Charged, [BotNext]_botVars
    PROVE  NoShutdown' => NoShutdown /\ ~Spend("shutdown")
<1>1. budget \in [Budgets -> Nat] /\ MaxShutdowns \in Nat /\ budget["shutdown"] <= MaxShutdowns
  BY ServerAssumption DEF BotGrounded, Grounded, Held, TypeOK, Charged
<1>2. ASSUME NEW b \in Budgets, Spend(b)
      PROVE  /\ budget'["shutdown"] <= budget["shutdown"]
             /\ b = "shutdown" => budget'["shutdown"] < budget["shutdown"]
  BY <1>1, <1>2 DEF Spend, Budgets
<1>3. "shutdown" \in Budgets /\ budget["shutdown"] \in Nat /\ budget'["shutdown"] \in Nat
  BY BotGroundedNext DEF Budgets, BotGrounded, Grounded, Held, TypeOK
<1> QED BY <1>1, <1>2, <1>3, BotBudgetSteps DEF NoShutdown

LEMMA NoneHandedBack ==
    ASSUME BotGrounded, HandsOff, NoShutdown, NEW r \in Runs
    PROVE  ~run[r].requeued
BY DEF HandsOff, BotGrounded, Grounded, HandedBack

\* What the steps of the servers do to a process and its loop.
LEMMA HandsOffProc ==
    ASSUME Grounded, [Next]_vars, NEW s \in Servers
    PROVE  /\ proc'[s] = proc[s] \/ proc'[s] = "gone"
              \/ (proc[s] = "stopping" /\ proc'[s] = "stopped")
              \/ (Spend("shutdown") /\ proc[s] = "up" /\ proc'[s] = "stopping")
           /\ \/ loop'[s].pc \in {"cleanup", "requeue", "wedged", "ended"} =>
                    loop[s].pc \in {"cleanup", "requeue", "wedged", "ended"}
              \/ proc[s] # "up" /\ UNCHANGED proc
              \/ proc'[s] = "gone"
<1>1. ASSUME NEW t \in Servers, Shutdown(t) \/ ShutdownDone(t)
      PROVE  /\ UNCHANGED loop
             /\ \/ proc'[s] = proc[s]
                \/ proc[s] = "stopping" /\ proc'[s] = "stopped"
                \/ Spend("shutdown") /\ proc[s] = "up" /\ proc'[s] = "stopping"
  BY <1>1 DEF Shutdown, ShutdownDone, Grounded, Held, TypeOK
<1>2. ASSUME NEW t \in Servers, Exit(t) \/ Crash(t)
      PROVE  IF s = t THEN proc'[s] = "gone" ELSE proc'[s] = proc[s] /\ loop'[s] = loop[s]
  BY <1>2 DEF Exit, Crash, Vanish, Grounded, Held, TypeOK
<1>3. CASE \/ UNCHANGED vars
           \/ \E j \in Jobs : Submit(j)
           \/ \E t \in Servers : IntakeStep(t) \/ IntakeFault(t)
           \/ \E r \in Runs : WorkerStep(r) \/ WorkerFault(r)
  <2>1. UNCHANGED <<proc, loop>>
    BY <1>3 DEF Submit, IntakeStep, IntakeAnswer, IntakeIter, IntakeEnd, IntakeFetch, IntakeTimeout,
       IntakeRead, IntakeMissing, IntakeFault, WorkerStep, WorkerStart, WorkerEnd, WorkerFault, vars, serverVars
  <2> QED BY <2>1
<1>4. ASSUME NEW t \in Servers,
             \/ HandleCompletedJobs(t) \/ Finish(t) \/ SettleFault(t) \/ StartJobs(t) \/ StartFault(t)
             \/ \E r \in Runs : Settle(t, r)
      PROVE  /\ UNCHANGED proc
             /\ loop'[s] = loop[s] \/ loop'[s].pc \in {"top", "settle", "finish"}
  <2>1. PICK l : loop' = [loop EXCEPT ![t] = l] /\ l.pc \in {"top", "settle", "finish"}
    BY <1>4 DEF HandleCompletedJobs, Finish, SettleFault, StartJobs, StartFault, Settle, IdleLoop
  <2>2. UNCHANGED proc
    BY <1>4 DEF HandleCompletedJobs, Finish, SettleFault, StartJobs, StartFault, Settle
  <2> QED BY <2>1, <2>2 DEF Grounded, Held, TypeOK
<1>5. ASSUME NEW t \in Servers,
             \/ CleanupWorkers(t) \/ CleanupEnd(t) \/ CleanupRequeue(t) \/ CleanupFault(t)
             \/ \E r \in Runs : CleanupUpdate(t, r)
      PROVE  /\ UNCHANGED proc
             /\ \/ loop'[s] = loop[s] \/ proc[s] # "up"
                \/ loop[s].pc \in {"cleanup", "requeue", "wedged", "ended"}
  BY <1>5 DEF CleanupWorkers, CleanupEnd, CleanupRequeue, CleanupFault, CleanupUpdate, IsShuttingDown,
     Grounded, Held, TypeOK
<1>6. CASE \E t \in Servers : Shutdown(t) \/ ShutdownDone(t) \/ Exit(t) \/ Crash(t)
  BY <1>1, <1>2, <1>6
<1>7. CASE \E t \in Servers : \/ HandleCompletedJobs(t) \/ Finish(t) \/ SettleFault(t) \/ StartJobs(t) \/ StartFault(t)
                               \/ \E r \in Runs : Settle(t, r)
  BY <1>4, <1>7
<1>8. CASE \E t \in Servers : \/ CleanupWorkers(t) \/ CleanupEnd(t) \/ CleanupRequeue(t) \/ CleanupFault(t)
                               \/ \E r \in Runs : CleanupUpdate(t, r)
  BY <1>5, <1>8
<1> QED BY <1>3, <1>6, <1>7, <1>8 DEF Next, Faults, LoopStep

\* A run is begun by a process that is there, and forgotten with it.
LEMMA HandsOffRuns ==
    ASSUME Grounded, [Next]_vars, NEW r \in Runs, NEW s \in Servers, run'[r].at = s,
           run[r].at = s => proc[s] # "gone"
    PROVE  proc'[s] # "gone"
<1>1. s # NoServer
  BY ServerAssumption
<1>2. ASSUME NEW t \in Servers, Exit(t) \/ Crash(t) PROVE proc'[s] # "gone"
  <2>1. run'[r] = run[r] /\ r \notin RunsOf(t, Phases)
    BY <1>1, <1>2 DEF Exit, Crash, Vanish, Forget, FreeRun
  <2>2. run[r].phase \in Phases
    BY DEF Grounded, Held, TypeOK, RunType
  <2>3. t # s
    BY <2>1, <2>2 DEF RunsOf
  <2> QED BY <1>2, <2>1, <2>3 DEF Exit, Crash, Vanish, Grounded, Held, TypeOK
<1>3. ASSUME ~\E t \in Servers : Exit(t) \/ Crash(t)
      PROVE  proc[s] # "gone" => proc'[s] # "gone"
  <2>1. UNCHANGED proc \/ \E t \in Servers : Shutdown(t) \/ ShutdownDone(t)
    BY <1>3 DEF Next, Faults, Submit, IntakeStep, IntakeAnswer, IntakeIter, IntakeEnd, IntakeFetch, IntakeTimeout,
       IntakeRead, IntakeMissing, IntakeFault, WorkerStep, WorkerStart, WorkerEnd, WorkerFault, vars, serverVars,
       LoopStep, HandleCompletedJobs, Finish, SettleFault, StartJobs, StartFault, Settle,
       CleanupWorkers, CleanupEnd, CleanupRequeue, CleanupFault, CleanupUpdate
  <2> QED BY <2>1 DEF Shutdown, ShutdownDone, Grounded, Held, TypeOK
<1>4. ASSUME NEW t \in Servers, NEW x \in Runs, IntakeRead(t, x), Alive(t)
      PROVE  run'[r].at = run[r].at \/ (s = t /\ proc[s] # "gone")
  BY <1>4 DEF IntakeRead, Alive, Grounded, Held, TypeOK
<1>5. CASE \E t \in Servers, x \in Runs : IntakeRead(t, x) /\ Alive(t)
  <2>1. proc[s] # "gone"
    BY <1>4, <1>5
  <2>2. UNCHANGED proc
    BY <1>5 DEF IntakeRead
  <2> QED BY <2>1, <2>2
<1>6. ASSUME ~\E t \in Servers, x \in Runs : IntakeRead(t, x) /\ Alive(t)
      PROVE  run'[r].at = s => run[r].at = s
  <2>1. CASE \/ UNCHANGED run
             \/ \E rs, phase : run' = SetPhase(rs, phase)
             \/ \E rs : run' = Forget(rs)
    <3>1. CASE \E rs : run' = Forget(rs)
      BY <1>1, <3>1 DEF Forget, FreeRun
    <3>2. CASE \E rs, phase : run' = SetPhase(rs, phase)
      BY <3>2, SetPhaseSame DEF Grounded
    <3> QED BY <2>1, <3>1, <3>2
  <2>2. CASE \E t \in Servers : HandleCompletedJobs(t) \/ StartFault(t) \/ CleanupRequeue(t) \/ CleanupFault(t)
    BY <2>2 DEF HandleCompletedJobs, StartFault, CleanupRequeue, CleanupFault, Grounded, Held, TypeOK, RunType
  <2>3. CASE \E t \in Servers : \E x \in Runs : Settle(t, x)
    BY <2>3, SettleSame DEF Grounded
  <2>4. CASE \/ UNCHANGED vars
             \/ \E j \in Jobs : Submit(j)
             \/ \E t \in Servers : IntakeStep(t) \/ IntakeFault(t)
             \/ \E x \in Runs : WorkerStep(x) \/ WorkerFault(x)
    BY <1>6, <2>1, <2>4 DEF Submit, IntakeStep, IntakeAnswer, IntakeIter, IntakeEnd, IntakeFetch, IntakeTimeout,
       IntakeMissing, IntakeFault, WorkerStep, WorkerStart, WorkerEnd, WorkerFault, vars, serverVars
  <2>5. CASE \E t \in Servers : \/ Finish(t) \/ SettleFault(t) \/ StartJobs(t) \/ Exit(t) \/ Crash(t)
                                 \/ CleanupWorkers(t) \/ CleanupEnd(t) \/ ShutdownDone(t) \/ Shutdown(t)
                                 \/ \E x \in Runs : CleanupUpdate(t, x)
    BY <2>1, <2>5 DEF Finish, SettleFault, StartJobs, Exit, Crash, Vanish, CleanupWorkers, CleanupEnd,
       ShutdownDone, Shutdown, CleanupUpdate
  <2> QED BY <2>2, <2>3, <2>4, <2>5 DEF Next, Faults, LoopStep
<1> QED BY <1>2, <1>3, <1>5, <1>6

LEMMA HandsOffNext == BotGrounded /\ Charged /\ HandsOff /\ [BotNext]_botVars => HandsOff'
<1> SUFFICES ASSUME BotGrounded, Charged, HandsOff, [BotNext]_botVars PROVE HandsOff'
  OBVIOUS
<1>1. budget'["shutdown"] <= MaxShutdowns
  BY BotChargedNext DEF Charged
<1>2. NoShutdown' => NoShutdown /\ ~Spend("shutdown")
  BY ShutdownBudget
<1>3. CASE Serves
  <2>1. Grounded /\ [Next]_vars
    BY <1>3 DEF BotGrounded, Serves
  <2>2. ASSUME NEW s \in Servers
        PROVE  /\ NoShutdown' => proc'[s] \in {"up", "gone"}
               /\ loop'[s].pc \in {"cleanup", "requeue", "wedged", "ended"} => proc'[s] # "up"
    BY <1>2, <2>1, HandsOffProc DEF HandsOff
  <2>3. \A r \in Runs : \A s \in Servers : run'[r].at = s => proc'[s] # "gone"
    BY <2>1, HandsOffRuns DEF HandsOff
  <2> QED BY <1>1, <2>2, <2>3 DEF HandsOff
<1>4. CASE Polls \/ \E j \in Jobs : ScheduleAt(j)
  <2>1. UNCHANGED <<proc, loop, run>>
    BY <1>4, PollTouches DEF ScheduleAt
  <2> QED BY <1>1, <1>2, <2>1 DEF HandsOff
<1> QED BY <1>3, <1>4, BotCases

-----------------------------------------------------------------------------
(* What keeps the counts in agreement *)

\* The invariant the counts rest on.
Ground == BotCustody /\ Charged /\ HandsOff

\* A run that goes on with the count it has.
GoesOn(r) ==
    \/ run'[r].phase = "free"
    \/ /\ run[r].phase # "free"
       /\ run'[r].job = run[r].job /\ run'[r].retry = run[r].retry
       /\ run'[r].phase = "retrying" <=> run[r].phase = "retrying"
       /\ run'[r].phase = "dying" => run[r].phase = "dying"

\* The payload of a job that may still run says what it said, or a count that
\* agrees.
PayloadAgrees(j) ==
    stored'[j] \in Nat /\ ~BotUnheld(j)' /\ ~Ahead(j)' =>
        \/ stored'[j] = stored[j] /\ ~BotUnheld(j) /\ ~Ahead(j)
        \/ Agrees(stored'[j], failures[j])

\* A step in which no failure is counted, as far as the runs are concerned.
LEMMA RunsCountedKept ==
    ASSUME Counted, NoShutdown' => NoShutdown, UNCHANGED failures,
           \A r \in Runs :
                \/ GoesOn(r)
                \/ /\ Agrees(run'[r].retry, IF run'[r].phase = "retrying" THEN failures[run'[r].job] + 1
                                                                       ELSE failures[run'[r].job])
                   /\ run'[r].phase = "dying" /\ run'[r].job \in Handled /\ MaxRetries[run'[r].job] \in Nat
                            => run'[r].retry = MaxRetries[run'[r].job]
    PROVE  RunsCounted' /\ DyingSpent'
BY DEF Counted, RunsCounted, DyingSpent, GoesOn, Attempts, Agrees

\* ... and the rest.
LEMMA CountedKept ==
    ASSUME Counted, NoShutdown' => NoShutdown, UNCHANGED failures, RunsCounted', DyingSpent',
           submitted \subseteq submitted', zset'["dead"] = zset["dead"],
           \A j \in Jobs \ zset["dead"] : PayloadAgrees(j),
           \A p \in Pollers : poller'[p].pc = "use" =>
                \/ poller'[p] = poller[p]
                \/ Agrees(poller'[p].retry, failures[poller'[p].job])
    PROVE  Counted'
<1>1. StoredCounted'
  BY DEF Counted, StoredCounted, PayloadAgrees, Agrees
<1>2. PollersCounted'
  BY DEF Counted, PollersCounted, Agrees
<1>3. NeverFailed' /\ DeadSpent'
  BY DEF Counted, NeverFailed, DeadSpent
<1> QED BY <1>1, <1>2, <1>3 DEF Counted

\* No run comes to wait for its retry or leaves that.
RetryingStay == \A r \in Runs : run[r].phase = "retrying" => run'[r] = run[r]

LEMMA PayloadUntouched ==
    ASSUME Ground, [BotNext]_botVars, RetryingStay, NEW j \in Jobs, j \notin submitted' \ submitted,
           stored'[j] = stored[j]
    PROVE  PayloadAgrees(j)
<1>1. ~Ahead(j)' => ~Ahead(j)
  BY DEF RetryingStay, Ahead, BearersOf
<1>2. ~BotUnheld(j)' => ~BotUnheld(j)
  BY BotCustodyStep DEF Ground, BotCustody, BotPasses
<1> QED BY <1>1, <1>2 DEF PayloadAgrees

\* A worker, started or not yet settled, writes the count it has.
LEMMA WorkerWrites ==
    ASSUME Ground, Counted, [BotNext]_botVars, RetryingStay, NEW r \in Runs,
           run[r].phase \notin {"free", "retrying"},
           stored' = [stored EXCEPT ![run[r].job] = run[r].retry], NEW j \in Jobs, j \notin submitted' \ submitted
    PROVE  PayloadAgrees(j)
<1>1. CASE j # run[r].job
  BY <1>1, PayloadUntouched DEF Ground, BotCustody, BotGrounded, Grounded, Held, TypeOK, StoreTypeOK
<1>2. CASE j = run[r].job
  <2>1. stored'[j] = run[r].retry
    BY <1>2 DEF Ground, BotCustody, BotGrounded, Grounded, Held, TypeOK, StoreTypeOK
  <2>2. Agrees(run[r].retry, failures[j])
    BY <1>2 DEF Counted, RunsCounted, Attempts
  <2> QED BY <2>1, <2>2 DEF PayloadAgrees
<1> QED BY <1>1, <1>2

-----------------------------------------------------------------------------
(* The counts, step by step: clients and the intake *)

LEMMA CountedClient ==
    ASSUME Ground, Counted, [BotNext]_botVars, NEW j \in Jobs,
           (Submit(j) /\ UNCHANGED pollerVars) \/ ScheduleAt(j)
    PROVE  Counted'
<1>1. /\ UNCHANGED <<run, failures, poller>> /\ submitted' = submitted \cup {j} /\ j \notin submitted
      /\ UNCHANGED budget /\ stored' = [stored EXCEPT ![j] = 0]
      /\ zset'["dead"] = zset["dead"]
  BY DEF Submit, ScheduleAt, pollerVars, Enqueue, AddToSet, SetNames, Ground, BotCustody, BotGrounded, Grounded,
     Held, TypeOK, StoreTypeOK
<1>2. RunsCounted' /\ DyingSpent'
  BY <1>1, RunsCountedKept DEF GoesOn, NoShutdown
<1>3. ASSUME NEW k \in Jobs PROVE PayloadAgrees(k)
  <2>1. CASE k = j
    <3>1. stored'[k] = 0 /\ failures[k] = 0
      BY <1>1, <2>1 DEF Counted, NeverFailed, Ground, BotCustody, BotGrounded, Grounded, Held, TypeOK, StoreTypeOK
    <3>2. Agrees(0, 0)
      BY DEF Agrees
    <3> QED BY <3>1, <3>2 DEF PayloadAgrees
  <2>2. CASE k # j
    <3>1. stored'[k] = stored[k] /\ k \notin submitted' \ submitted
      BY <1>1, <2>2 DEF Ground, BotCustody, BotGrounded, Grounded, Held, TypeOK, StoreTypeOK
    <3> QED BY <1>1, <3>1, PayloadUntouched DEF RetryingStay
  <2> QED BY <2>1, <2>2
<1> QED BY <1>1, <1>2, <1>3, CountedKept DEF NoShutdown

\* Steps of the servers in which no payload is written, no set changes and the
\* runs go on.
LEMMA CountedStill ==
    ASSUME Ground, Counted, [BotNext]_botVars, UNCHANGED <<pollerVars, stored, zset, failures, submitted>>,
           \A r \in Runs : GoesOn(r), RetryingStay
    PROVE  Counted'
<1>1. NoShutdown' => NoShutdown
  BY ShutdownBudget DEF Ground, BotCustody
<1>2. RunsCounted' /\ DyingSpent'
  BY <1>1, RunsCountedKept
<1>3. \A j \in Jobs : PayloadAgrees(j)
  BY PayloadUntouched
<1> QED BY <1>1, <1>2, <1>3, CountedKept DEF pollerVars

LEMMA CountedIntake ==
    ASSUME Ground, Counted, [BotNext]_botVars, NEW s \in Servers, IntakeStep(s) \/ IntakeFault(s),
           UNCHANGED pollerVars
    PROVE  Counted'
<1>1. UNCHANGED <<stored, zset, failures, submitted>>
  BY DEF IntakeStep, IntakeAnswer, IntakeIter, IntakeEnd, IntakeFetch, IntakeTimeout, IntakeRead,
     IntakeMissing, IntakeFault, Pop, storeVars, history
<1>2. CASE UNCHANGED run
  <2>1. \A r \in Runs : GoesOn(r)
    BY <1>2 DEF GoesOn
  <2> QED BY <1>1, <1>2, <2>1, CountedStill DEF RetryingStay
<1>3. ASSUME NEW r \in Runs, IntakeRead(s, r) PROVE Counted'
  <2> DEFINE j == intake[s].job
  <2>1. /\ run[r].phase = "free" /\ stored[j] # NoPayload /\ intake[s].pc = "read" /\ j \in Jobs
        /\ run'[r].phase = "toStart" /\ run'[r].job = j /\ run'[r].retry = stored[j]
        /\ \A x \in Runs \ {r} : run'[x] = run[x]
    BY <1>3 DEF IntakeRead, HasPayload, Ground, BotCustody, BotGrounded, Grounded, Held, IntakeHeld, TypeOK
  <2>2. IntakesOf(j) # {}
    BY <2>1 DEF IntakesOf
  <2>3. ~BotUnheld(j) /\ ~Ahead(j) /\ j \notin zset["dead"]
    BY <2>1, <2>2 DEF Ground, BotCustody, BotAlone, Alone, BotUnheld, Unheld, Ahead, InSet, SetNames
  <2>4. stored[j] \in Nat
    BY <2>1 DEF Ground, BotCustody, BotGrounded, Grounded, Held, TypeOK, StoreTypeOK
  <2>5. Agrees(stored[j], failures[j])
    BY <2>1, <2>3, <2>4 DEF Counted, StoredCounted
  <2>6. NoShutdown' => NoShutdown
    BY ShutdownBudget DEF Ground, BotCustody
  <2> HIDE DEF j
  <2>7. RunsCounted' /\ DyingSpent'
    <3>1. \A x \in Runs \ {r} : GoesOn(x)
      BY <2>1 DEF GoesOn
    <3> QED BY <1>1, <2>1, <2>5, <2>6, <3>1, RunsCountedKept
  <2>8. \A k \in Jobs : PayloadAgrees(k)
    BY <1>1, <2>1, PayloadUntouched DEF RetryingStay
  <2> QED BY <1>1, <2>6, <2>7, <2>8, CountedKept DEF pollerVars
<1> QED
  BY <1>2, <1>3 DEF IntakeStep, IntakeAnswer, IntakeIter, IntakeEnd, IntakeFetch, IntakeTimeout,
     IntakeMissing, IntakeFault

-----------------------------------------------------------------------------
(* The counts, step by step: workers, loop and shutdown *)

\* A step in which the runs go on, and a worker writes the count it has or
\* nobody does.
GoOn ==
    /\ UNCHANGED <<zset, failures, submitted>>
    /\ RetryingStay /\ \A r \in Runs : GoesOn(r)
    /\ \/ UNCHANGED stored
       \/ \E x \in Runs :
             /\ run[x].phase \notin {"free", "retrying"}
             /\ stored' = [stored EXCEPT ![run[x].job] = run[x].retry]

LEMMA CountedGoOn ==
    ASSUME Ground, Counted, [BotNext]_botVars, UNCHANGED pollerVars, GoOn
    PROVE  Counted'
<1>1. CASE UNCHANGED stored
  BY <1>1, CountedStill DEF GoOn
<1>2. ASSUME NEW x \in Runs, run[x].phase \notin {"free", "retrying"},
             stored' = [stored EXCEPT ![run[x].job] = run[x].retry]
      PROVE  Counted'
  <2>1. NoShutdown' => NoShutdown
    BY ShutdownBudget DEF Ground, BotCustody
  <2>2. RunsCounted' /\ DyingSpent'
    BY <2>1, RunsCountedKept DEF GoOn
  <2>3. \A j \in Jobs : PayloadAgrees(j)
    BY <1>2, WorkerWrites DEF GoOn
  <2> QED BY <2>1, <2>2, <2>3, CountedKept DEF pollerVars, GoOn
<1> QED BY <1>1, <1>2 DEF GoOn

LEMMA WorkersGoOn ==
    ASSUME BotGrounded, NEW r \in Runs, WorkerStep(r) \/ WorkerFault(r)
    PROVE  GoOn
<1>1. /\ UNCHANGED <<zset, failures, submitted>>
      /\ UNCHANGED stored \/ stored' = [stored EXCEPT ![run[r].job] = run[r].retry]
      /\ run[r].phase \in {"starting", "performing"}
      /\ \E phase \in Active : run' = SetPhase({r}, phase)
  BY DEF WorkerStep, WorkerStart, WorkerEnd, WorkerFault, UpdateJob, storeVars, history, Active
<1>2. PICK phase \in Active : run' = SetPhase({r}, phase)
  BY <1>1
<1>3. ASSUME NEW x \in Runs PROVE GoesOn(x) /\ (run[x].phase = "retrying" => run'[x] = run[x])
  <2>1. CASE x = r
    <3>1. run[x] \in RunType /\ run'[x] = [run[x] EXCEPT !.phase = phase]
      BY <1>2, <2>1 DEF SetPhase, BotGrounded, Grounded, Held, TypeOK
    <3>2. run'[x].phase = phase /\ run'[x].job = run[x].job /\ run'[x].retry = run[x].retry
      BY <3>1 DEF RunType
    <3> QED BY <1>1, <2>1, <3>2 DEF GoesOn, Active
  <2>2. CASE x # r
    BY <1>2, <2>2 DEF SetPhase, GoesOn
  <2> QED BY <2>1, <2>2
<1> QED BY <1>1, <1>3 DEF GoOn, RetryingStay

LEMMA LoopGoesOn ==
    ASSUME BotGrounded, NEW s \in Servers, HandleCompletedJobs(s) \/ StartJobs(s) \/ StartFault(s)
    PROVE  GoOn
<1>1. UNCHANGED <<stored, zset, failures, submitted>>
  BY DEF HandleCompletedJobs, StartJobs, StartFault, storeVars, history
<1>2. ASSUME NEW r \in Runs
      PROVE  \/ run'[r] = run[r]
             \/ /\ run[r].phase \in {"ok", "err", "toStart"}
                /\ \E phase \in {"acking", "failing", "starting", "leaked"} :
                        run'[r] = [run[r] EXCEPT !.phase = phase]
  BY DEF HandleCompletedJobs, StartJobs, StartFault, SetPhase, RunsOf
<1>3. ASSUME NEW r \in Runs PROVE GoesOn(r) /\ (run[r].phase = "retrying" => run'[r] = run[r])
  <2>1. run[r] \in RunType
    BY DEF BotGrounded, Grounded, Held, TypeOK
  <2> QED BY <1>2, <2>1 DEF RunType, GoesOn
<1> QED BY <1>1, <1>3 DEF GoOn, RetryingStay

LEMMA CleanupGoesOn ==
    ASSUME BotGrounded, NEW s \in Servers,
           \/ CleanupWorkers(s) \/ CleanupEnd(s) \/ ShutdownDone(s) \/ Shutdown(s)
           \/ CleanupRequeue(s) \/ CleanupFault(s) \/ \E r \in Runs : CleanupUpdate(s, r)
    PROVE  GoOn
<1>1. UNCHANGED <<zset, failures, submitted>>
  BY DEF CleanupWorkers, CleanupEnd, ShutdownDone, Shutdown, CleanupRequeue, CleanupFault, CleanupUpdate,
     UpdateJob, Requeue, storeVars, history
<1>2. ASSUME NEW r \in Runs PROVE GoesOn(r)
  <2>1. \/ UNCHANGED run
        \/ run' = [run EXCEPT ![loop[s].cur].requeued = TRUE] /\ loop[s].pc = "requeue"
    BY DEF CleanupWorkers, CleanupEnd, ShutdownDone, Shutdown, CleanupRequeue, CleanupFault, CleanupUpdate
  <2> QED BY <2>1 DEF GoesOn, BotGrounded, Grounded, Held, TypeOK, RunType
<1>3. loop[s].pc \in {"cleanup", "requeue"} => \A r \in loop[s].todo : r \in Runs /\ run[r].phase \in Active
  BY DEF BotGrounded, Grounded, Held, LoopOwns, RunsOf
<1>4. "retrying" \notin Active /\ "free" \notin Active
  BY DEF Active
<1>5. CASE UNCHANGED run /\ \E r \in Runs : CleanupUpdate(s, r)
  <2>1. PICK r \in Runs : CleanupUpdate(s, r)
    BY <1>5
  <2>2. run[r].phase \notin {"free", "retrying"} /\ stored' = [stored EXCEPT ![run[r].job] = run[r].retry]
    BY <1>3, <1>4, <2>1 DEF CleanupUpdate, UpdateJob
  <2> QED BY <1>1, <1>2, <1>5, <2>2 DEF GoOn, RetryingStay
<1>6. CASE UNCHANGED <<run, stored>>
  BY <1>1, <1>2, <1>6 DEF GoOn, RetryingStay
<1>7. CASE /\ loop[s].pc = "requeue"
           /\ Requeue(run[loop[s].cur].job, run[loop[s].cur].retry)
           /\ run' = [run EXCEPT ![loop[s].cur].requeued = TRUE]
  <2>1. loop[s].cur \in Runs /\ run[loop[s].cur].phase \in Active
    BY <1>3, <1>7 DEF BotGrounded, Grounded, Held, LoopOwns
  <2>2. \A r \in Runs \ {loop[s].cur} : run'[r] = run[r]
    BY <1>7 DEF BotGrounded, Grounded, Held, TypeOK
  <2>3. RetryingStay
    BY <1>4, <2>1, <2>2 DEF RetryingStay
  <2>4. stored' = [stored EXCEPT ![run[loop[s].cur].job] = run[loop[s].cur].retry]
    BY <1>7 DEF Requeue
  <2> QED BY <1>1, <1>2, <1>4, <2>1, <2>3, <2>4 DEF GoOn
<1> QED
  BY <1>5, <1>6, <1>7 DEF CleanupWorkers, CleanupEnd, ShutdownDone, Shutdown, CleanupRequeue, CleanupFault,
     CleanupUpdate, storeVars

\* The first half of settling: the count of a worker to be retried is ahead of
\* its failure by one, and one that dies has used its retries up.
LEMMA SettleCounts ==
    ASSUME BotGrounded, NEW s \in Servers, NEW r \in Runs, Settle(s, r)
    PROVE  LET j == run[r].job IN
           /\ UNCHANGED <<zset, failures, submitted>>
           /\ j \in Jobs /\ run[r].retry \in Nat /\ r \in BearersOf(j)
           /\ run[r].phase \in {"acking", "failing"} /\ run'[r].job = j /\ ~run'[r].requeued
           /\ \A x \in Runs \ {r} : run'[x] = run[x]
           /\ \/ /\ run'[r].phase = "deleting" /\ run'[r].retry = run[r].retry
                 /\ stored' = [stored EXCEPT ![j] = run[r].retry]
              \/ /\ run'[r].phase = "dying" /\ run'[r].retry = run[r].retry /\ IsDead(r)
                 /\ stored' = [stored EXCEPT ![j] = run[r].retry]
              \/ /\ run'[r].phase = "retrying" /\ run'[r].retry = run[r].retry + 1
                 /\ stored' = [stored EXCEPT ![j] = run[r].retry + 1]
<1> DEFINE j == run[r].job
<1>1. /\ UNCHANGED <<zset, failures, submitted>>
      /\ run[r].phase \in {"acking", "failing"} /\ j \in Jobs /\ run[r].retry \in Nat /\ run \in [Runs -> RunType]
      /\ ~run[r].requeued
  <2>1. r \in loop[s].todo /\ run[r].phase \in {"acking", "failing"} /\ loop[s].pc = "settle"
    BY DEF Settle
  <2>2. run[r].at = s
    BY <2>1 DEF BotGrounded, Grounded, Held, LoopOwns, RunsOf
  <2>3. ~run[r].requeued
    BY <2>1, <2>2 DEF BotGrounded, Grounded, HandedBack
  <2>4. j \in Jobs /\ run[r].retry \in Nat
    BY <2>1, HeldRun DEF BotGrounded, Grounded
  <2> QED BY <2>1, <2>3, <2>4 DEF Settle, UpdateJob, history, BotGrounded, Grounded, Held, TypeOK
<1>2. \A x \in Runs \ {r} : run'[x] = run[x]
  BY SettleSame DEF BotGrounded, Grounded
<1>3. /\ run'[r].job = j /\ ~run'[r].requeued
      /\ \/ /\ run'[r].phase = "deleting" /\ run'[r].retry = run[r].retry
            /\ stored' = [stored EXCEPT ![j] = run[r].retry]
         \/ /\ run'[r].phase = "dying" /\ run'[r].retry = run[r].retry /\ IsDead(r)
            /\ stored' = [stored EXCEPT ![j] = run[r].retry]
         \/ /\ run'[r].phase = "retrying" /\ run'[r].retry = run[r].retry + 1
            /\ stored' = [stored EXCEPT ![j] = run[r].retry + 1]
  <2>1. run[r] \in RunType
    BY <1>1
  <2>2. CASE /\ run' = SetPhase({r}, "deleting")
             /\ stored' = [stored EXCEPT ![j] = run[r].retry]
    <3>1. run'[r] = [run[r] EXCEPT !.phase = "deleting"]
      BY <2>2 DEF SetPhase
    <3> QED BY <1>1, <2>1, <2>2, <3>1 DEF RunType
  <2>3. CASE /\ run' = SetPhase({r}, "dying") /\ IsDead(r)
             /\ stored' = [stored EXCEPT ![j] = run[r].retry]
    <3>1. run'[r] = [run[r] EXCEPT !.phase = "dying"]
      BY <2>3 DEF SetPhase
    <3> QED BY <1>1, <2>1, <2>3, <3>1 DEF RunType
  <2>4. CASE /\ run' = [run EXCEPT ![r] = [run[r] EXCEPT !.phase = "retrying",
                                                        !.retry = run[r].retry + 1]]
             /\ stored' = [stored EXCEPT ![j] = run[r].retry + 1]
    <3>1. run'[r] = [run[r] EXCEPT !.phase = "retrying", !.retry = run[r].retry + 1]
      BY <1>1, <2>4
    <3> QED BY <1>1, <2>1, <2>4, <3>1 DEF RunType
  <2> QED BY <2>2, <2>3, <2>4 DEF Settle, UpdateJob
<1>4. r \in BearersOf(j)
  BY <1>1 DEF BearersOf
<1> HIDE DEF j
<1>5. /\ UNCHANGED <<zset, failures, submitted>>
      /\ j \in Jobs /\ run[r].retry \in Nat /\ run[r].phase \in {"acking", "failing"}
  BY <1>1
<1> QED BY <1>2, <1>3, <1>4, <1>5 DEF j

LEMMA CountedSettle ==
    ASSUME Ground, Counted, [BotNext]_botVars, NEW s \in Servers, NEW r \in Runs, Settle(s, r),
           UNCHANGED pollerVars
    PROVE  Counted'
<1> DEFINE j == run[r].job
<1>1. /\ UNCHANGED <<zset, failures, submitted>>
      /\ j \in Jobs /\ run[r].retry \in Nat /\ r \in BearersOf(j)
      /\ run[r].phase \in {"acking", "failing"} /\ run'[r].job = j /\ ~run'[r].requeued
      /\ \A x \in Runs \ {r} : run'[x] = run[x]
      /\ \/ /\ run'[r].phase = "deleting" /\ run'[r].retry = run[r].retry
            /\ stored' = [stored EXCEPT ![j] = run[r].retry]
         \/ /\ run'[r].phase = "dying" /\ run'[r].retry = run[r].retry /\ IsDead(r)
            /\ stored' = [stored EXCEPT ![j] = run[r].retry]
         \/ /\ run'[r].phase = "retrying" /\ run'[r].retry = run[r].retry + 1
            /\ stored' = [stored EXCEPT ![j] = run[r].retry + 1]
  BY SettleCounts DEF Ground, BotCustody
<1>2. NoShutdown' => NoShutdown
  BY ShutdownBudget DEF Ground, BotCustody
<1>3. Agrees(run[r].retry, failures[j])
  BY <1>1 DEF Counted, RunsCounted, Attempts
<1>4. failures[j] \in Nat
  BY <1>1 DEF Ground, BotCustody, BotGrounded, Grounded, Held, TypeOK
<1>5. RetryingStay
  BY <1>1 DEF RetryingStay
<1>6. RunsCounted' /\ DyingSpent'
  <2>1. \A x \in Runs \ {r} : GoesOn(x)
    BY <1>1 DEF GoesOn
  <2>2. /\ Agrees(run'[r].retry, IF run'[r].phase = "retrying" THEN failures[run'[r].job] + 1
                                                              ELSE failures[run'[r].job])
        /\ run'[r].phase = "dying" /\ run'[r].job \in Handled /\ MaxRetries[run'[r].job] \in Nat
                => run'[r].retry = MaxRetries[run'[r].job]
    BY <1>1, <1>3, <1>4, ServerAssumption DEF Agrees, IsDead
  <2> QED BY <1>1, <1>2, <2>1, <2>2, RunsCountedKept
<1>7. ASSUME NEW k \in Jobs PROVE PayloadAgrees(k)
  <2>1. CASE stored' = [stored EXCEPT ![j] = run[r].retry]
    BY <1>1, <1>5, <2>1, WorkerWrites
  <2>2. CASE k = j /\ run'[r].phase = "retrying"
    <3>1. Ahead(k)'
      BY <1>1, <2>2 DEF Ahead, BearersOf
    <3> QED BY <3>1 DEF PayloadAgrees
  <2>3. CASE k # j /\ stored' = [stored EXCEPT ![j] = run[r].retry + 1]
    <3>1. stored'[k] = stored[k]
      BY <2>3 DEF Ground, BotCustody, BotGrounded, Grounded, Held, TypeOK, StoreTypeOK
    <3> QED BY <1>1, <1>5, <3>1, PayloadUntouched
  <2> QED BY <1>1, <2>1, <2>2, <2>3
<1> QED BY <1>1, <1>2, <1>6, <1>7, CountedKept DEF pollerVars

\* A job whose run is forgotten before its failure is counted is nowhere.
LEMMA PayloadForgotten ==
    ASSUME Ground, [BotNext]_botVars, NEW k \in Jobs, k \notin submitted' \ submitted, stored'[k] = stored[k],
           NEW rs, run' = Forget(rs), QueueKept(k), InSet(k)' = InSet(k),
           IntakesOf(k)' \subseteq IntakesOf(k), HeldBy(k)' \subseteq HeldBy(k)
    PROVE  PayloadAgrees(k)
<1>1. ~BotUnheld(k)' => ~BotUnheld(k)
  BY BotCustodyStep DEF Ground, BotCustody, BotPasses
<1>2. ASSUME Ahead(k), ~Ahead(k)' PROVE BotUnheld(k)'
  <2>1. PICK x \in BearersOf(k) : run[x].phase = "retrying"
    BY <1>2 DEF Ahead
  <2>2. x \in rs
    BY <1>2, <2>1 DEF Ahead, BearersOf, Forget
  <2>3. /\ InQueue(k) = {} /\ InSet(k) = {} /\ IntakesOf(k) = {} /\ HeldBy(k) = {}
        /\ \A y \in BearersOf(k) : y = x
    BY <2>1 DEF Ground, BotCustody, BotAlone, Alone, Unheld, AtMostOne
  <2>4. BearersOf(k)' = {}
    BY <2>2, <2>3, ForgetBearers
  <2> QED BY <2>3, <2>4 DEF BotUnheld, Unheld, QueueKept
<1> QED BY <1>1, <1>2 DEF PayloadAgrees

LEMMA CountedForget ==
    ASSUME Ground, Counted, Serves, [BotNext]_botVars, NEW rs, run' = Forget(rs),
           UNCHANGED <<storeVars, failures, submitted>>, \A k \in Jobs : IntakesOf(k)' \subseteq IntakesOf(k)
    PROVE  Counted'
<1>1. NoShutdown' => NoShutdown
  BY ShutdownBudget DEF Ground, BotCustody
<1>2. RunsCounted' /\ DyingSpent'
  <2>1. \A r \in Runs : GoesOn(r)
    BY DEF GoesOn, Forget, FreeRun
  <2> QED BY <1>1, <2>1, RunsCountedKept
<1>3. \A k \in Jobs : PayloadAgrees(k)
  BY PayloadForgotten, PlacesUntouched, ServesHeldBy DEF storeVars
<1>4. \A p \in Pollers : poller'[p].pc = "use" => poller'[p] = poller[p]
  BY DEF Serves, DropPollers, IdlePoller, pollerVars
<1> QED BY <1>1, <1>2, <1>3, <1>4, CountedKept DEF storeVars

LEMMA CountedVanish ==
    ASSUME Ground, Counted, Serves, [BotNext]_botVars, NEW s \in Servers, Exit(s) \/ Crash(s)
    PROVE  Counted'
<1>1. \A k \in Jobs : IntakesOf(k)' \subseteq IntakesOf(k)
  BY DEF Exit, Crash, Vanish, IdleIntake, IntakesOf, Ground, BotCustody, BotGrounded, Grounded, Held, TypeOK
<1> QED BY <1>1, CountedForget DEF Exit, Crash, Vanish, history

\* The second half of settling: the failure is counted.
LEMMA OutcomeCounts ==
    ASSUME BotGrounded, NEW s \in Servers, loop[s].pc = "finish", SettleEffect(loop[s].cur),
           NEW rs, run' = Forget(rs), loop[s].cur \in rs
    PROVE  LET r == loop[s].cur
               j == run[r].job
           IN  /\ r \in Runs /\ j \in Jobs /\ r \in BearersOf(j) /\ run[r].retry \in Nat
               /\ run[r].phase \in {"deleting", "dying", "retrying"}
               /\ \A x \in Runs : run'[x].phase # "free" => run'[x] = run[x] /\ x # r
               /\ \A k \in Jobs \ {j} : QueueKept(k) /\ InSet(k)' = InSet(k) /\ stored'[k] = stored[k]
               /\ IF run[r].phase = "deleting"
                  THEN UNCHANGED <<failures, zset>> /\ stored'[j] = NoPayload
                  ELSE /\ failures' = [failures EXCEPT ![j] = @ + 1]
                       /\ stored'[j] = run[r].retry
                       /\ zset' = [zset EXCEPT ![IF run[r].phase = "dying" THEN "dead" ELSE "retry"] = @ \cup {j}]
<1> DEFINE r == loop[s].cur
           j == run[r].job
<1>1. r \in Runs /\ j \in Jobs /\ r \in BearersOf(j) /\ run[r].retry \in Nat
  <2>1. Grounded /\ Held
    BY DEF BotGrounded, Grounded
  <2>2. r \in Runs /\ j \in Jobs /\ r \in BearersOf(j)
    BY <2>1, CurBears
  <2>3. run[r].phase # "free"
    BY <2>1, <2>2, BearersInUse
  <2> QED BY <2>1, <2>2, <2>3, HeldRun
<1>2. \A x \in Runs : run'[x].phase # "free" => run'[x] = run[x] /\ x # r
  BY DEF Forget, FreeRun
<1>3. run[r].phase \in {"deleting", "dying", "retrying"}
  BY DEF SettleEffect
<1>4. stored \in [Jobs -> Nat \cup {NoPayload}] /\ zset \in [SetNames -> SUBSET Jobs]
  BY DEF BotGrounded, Grounded, Held, TypeOK, StoreTypeOK
<1>5. \A k \in Jobs \ {j} : QueueKept(k) /\ InSet(k)' = InSet(k) /\ stored'[k] = stored[k]
  <2>1. UNCHANGED queue /\ \/ UNCHANGED zset /\ stored' = [stored EXCEPT ![j] = NoPayload]
                           \/ \E z \in SetNames : \E n : /\ zset' = [zset EXCEPT ![z] = @ \cup {j}]
                                                          /\ stored' = [stored EXCEPT ![j] = n]
    BY DEF SettleEffect, UnsafeDeleteJob, AddToSet, SetNames
  <2> HIDE DEF j
  <2> QED BY <1>4, <2>1, PlacesUntouched DEF InSet
<1>6. IF run[r].phase = "deleting"
      THEN UNCHANGED <<failures, zset>> /\ stored'[j] = NoPayload
      ELSE /\ failures' = [failures EXCEPT ![j] = @ + 1]
           /\ stored'[j] = run[r].retry
           /\ zset' = [zset EXCEPT ![IF run[r].phase = "dying" THEN "dead" ELSE "retry"] = @ \cup {j}]
  BY <1>1, <1>4 DEF SettleEffect, UnsafeDeleteJob, AddToSet
<1> HIDE DEF r, j
<1>7. QED
  BY <1>1, <1>2, <1>3, <1>5, <1>6 DEF r, j

LEMMA CountedOutcome ==
    ASSUME Ground, Counted, [BotNext]_botVars, NEW s \in Servers, loop[s].pc = "finish", SettleEffect(loop[s].cur),
           NEW rs, run' = Forget(rs), loop[s].cur \in rs, UNCHANGED <<intake, submitted, pollerVars>>
    PROVE  Counted'
<1> DEFINE r == loop[s].cur
           j == run[r].job
<1>1. /\ r \in Runs /\ j \in Jobs /\ r \in BearersOf(j) /\ run[r].retry \in Nat
      /\ run[r].phase \in {"deleting", "dying", "retrying"}
      /\ \A x \in Runs : run'[x].phase # "free" => run'[x] = run[x] /\ x # r
      /\ \A k \in Jobs \ {j} : QueueKept(k) /\ InSet(k)' = InSet(k) /\ stored'[k] = stored[k]
      /\ IF run[r].phase = "deleting"
         THEN UNCHANGED <<failures, zset>> /\ stored'[j] = NoPayload
         ELSE /\ failures' = [failures EXCEPT ![j] = @ + 1]
              /\ stored'[j] = run[r].retry
              /\ zset' = [zset EXCEPT ![IF run[r].phase = "dying" THEN "dead" ELSE "retry"] = @ \cup {j}]
  BY OutcomeCounts DEF Ground, BotCustody
<1>2. /\ InSet(j) = {} /\ HeldBy(j) = {} /\ \A x \in BearersOf(j) : x = r
      /\ j \in submitted
  BY <1>1 DEF Ground, BotCustody, BotAlone, Alone, Unheld, AtMostOne, BotHeldIsPending, BotUnheld
<1>3. NoShutdown' => NoShutdown
  BY ShutdownBudget DEF Ground, BotCustody
<1>4. \A x \in Runs : run'[x].phase # "free" => run'[x] = run[x] /\ x # r
  BY <1>1
<1>5. Agrees(run[r].retry, Attempts(r))
  BY <1>1 DEF Counted, RunsCounted
<1>6. \A k \in Jobs : HeldBy(k)' = HeldBy(k) /\ IntakesOf(k)' = IntakesOf(k)
  BY DEF HeldBy, IntakesOf, pollerVars
<1>7. \A k \in Jobs \ {j} : QueueKept(k) /\ InSet(k)' = InSet(k) /\ stored'[k] = stored[k]
  BY <1>1
<1>8. \A k \in Jobs \ {j} : PayloadAgrees(k)
  BY <1>6, <1>7, PayloadForgotten
<1>9. CASE run[r].phase = "deleting"
  <2>1. UNCHANGED <<failures, zset>> /\ stored'[j] = NoPayload
    BY <1>1, <1>9
  <2>2. RunsCounted' /\ DyingSpent'
    BY <1>3, <1>4, <2>1, RunsCountedKept DEF GoesOn
  <2>3. PayloadAgrees(j)
    BY <2>1, StoreAssumption DEF PayloadAgrees
  <2> HIDE DEF j
  <2> QED BY <1>3, <1>8, <2>1, <2>2, <2>3, CountedKept DEF pollerVars
<1>10. CASE run[r].phase \in {"dying", "retrying"}
  <2>1. /\ failures' = [failures EXCEPT ![j] = @ + 1]
        /\ failures \in [Jobs -> Nat] /\ failures' \in [Jobs -> Nat]
        /\ failures'[j] = failures[j] + 1 /\ \A k \in Jobs \ {j} : failures'[k] = failures[k]
    BY <1>1, <1>10 DEF Ground, BotCustody, BotGrounded, Grounded, Held, TypeOK
  <2>2. ASSUME NEW x \in Runs, run'[x].phase # "free"
        PROVE  /\ run'[x] = run[x] /\ run[x].phase # "free"
               /\ run[x].job \in Jobs /\ run[x].retry \in Nat
               /\ run[x].job = j => ~NoShutdown
    <3>1. run'[x] = run[x] /\ x # r
      BY <1>4, <2>2
    <3>2. run[x].job = j => run[x].requeued
      BY <1>2, <3>1 DEF BearersOf
    <3> QED BY <2>2, <3>1, <3>2, HeldRun, NoneHandedBack DEF Ground, BotCustody, BotGrounded, Grounded
  <2>3. RunsCounted'
    <3> SUFFICES ASSUME NEW x \in Runs, run'[x].phase # "free"
                 PROVE  /\ run'[x].retry <= Attempts(x)'
                        /\ NoShutdown' => run'[x].retry = Attempts(x)'
      BY DEF RunsCounted, Agrees
    <3>1. /\ run'[x] = run[x] /\ run[x].job \in Jobs /\ run[x].retry \in Nat
          /\ run[x].retry <= Attempts(x) /\ (NoShutdown => run[x].retry = Attempts(x))
          /\ run[x].job = j => ~NoShutdown
      BY <2>2 DEF Counted, RunsCounted, Agrees
    <3> HIDE DEF j
    <3>2. CASE run[x].job = j
      BY <1>3, <2>1, <3>1, <3>2 DEF Attempts
    <3>3. CASE run[x].job # j
      BY <1>3, <2>1, <3>1, <3>3 DEF Attempts
    <3> QED BY <3>2, <3>3
  <2>4. DyingSpent'
    BY <2>2 DEF Counted, DyingSpent
  <2>5. NeverFailed'
    BY <1>2, <2>1 DEF Counted, NeverFailed
  <2>6. PollersCounted'
    <3> SUFFICES ASSUME NEW p \in Pollers, poller[p].pc = "use"
                 PROVE  /\ poller[p].retry <= failures'[poller[p].job]
                        /\ NoShutdown' => poller[p].retry = failures'[poller[p].job]
      BY DEF PollersCounted, Agrees, pollerVars
    <3>1. poller[p].job \in Jobs /\ p \in HeldBy(poller[p].job)
      BY DEF HeldBy, Ground, BotCustody, BotGrounded, PollersHold
    <3>2. poller[p].job # j
      BY <1>2, <3>1
    <3> QED BY <1>3, <2>1, <3>1, <3>2 DEF Counted, PollersCounted, Agrees
  <2>7. /\ run[r].phase = "dying" => zset' = [zset EXCEPT !["dead"] = @ \cup {j}]
        /\ run[r].phase = "retrying" => zset' = [zset EXCEPT !["retry"] = @ \cup {j}] /\ stored'[j] = run[r].retry
    BY <1>1
  <2>8. /\ j \notin zset["dead"]
        /\ zset'["dead"] = IF run[r].phase = "dying" THEN zset["dead"] \cup {j} ELSE zset["dead"]
    BY <1>2, <1>10, <2>7 DEF InSet, SetNames, Ground, BotCustody, BotGrounded, Grounded, Held, TypeOK, StoreTypeOK
  <2>9. StoredCounted'
    <3> SUFFICES ASSUME NEW k \in Jobs, k \notin zset'["dead"], stored'[k] \in Nat, ~BotUnheld(k)', ~Ahead(k)'
                 PROVE  stored'[k] <= failures'[k] /\ (NoShutdown' => stored'[k] = failures'[k])
      BY DEF StoredCounted, Agrees
    <3>1. CASE k = j
      <4>1. run[r].phase = "retrying" /\ stored'[j] = run[r].retry
        BY <1>10, <2>7, <2>8, <3>1
      <4> QED BY <1>3, <1>5, <2>1, <3>1, <4>1 DEF Agrees, Attempts
    <3>2. CASE k # j
      <4>1. Agrees(stored'[k], failures[k])
        <5>1. \/ stored'[k] = stored[k] /\ ~BotUnheld(k) /\ ~Ahead(k)
              \/ Agrees(stored'[k], failures[k])
          BY <1>8, <3>2 DEF PayloadAgrees
        <5>2. k \notin zset["dead"]
          BY <2>8
        <5> QED BY <5>1, <5>2 DEF Counted, StoredCounted
      <4> QED BY <1>3, <2>1, <3>2, <4>1 DEF Agrees
    <3> QED BY <3>1, <3>2
  <2>10. DeadSpent'
    <3> SUFFICES ASSUME NEW k \in Jobs, k \in zset'["dead"], k \in Handled, MaxRetries[k] \in Nat
                 PROVE  failures'[k] > MaxRetries[k] /\ (NoShutdown' => failures'[k] = MaxRetries[k] + 1)
      BY ServerAssumption DEF DeadSpent
    <3>1. CASE k # j
      BY <1>3, <2>1, <2>8, <3>1 DEF Counted, DeadSpent
    <3>2. CASE k = j
      <4>1. run[r].phase = "dying"
        BY <2>8, <3>2
      <4>2. run[r].retry = MaxRetries[k]
        BY <1>1, <3>2, <4>1 DEF Counted, DyingSpent
      <4>3. MaxRetries[k] <= failures[k] /\ (NoShutdown => MaxRetries[k] = failures[k])
        BY <1>5, <3>2, <4>1, <4>2 DEF Agrees, Attempts
      <4>4. failures[k] \in Nat /\ failures'[k] = failures[k] + 1
        BY <2>1, <3>2
      <4> QED BY <1>3, <4>3, <4>4
    <3> QED BY <3>1, <3>2
  <2> QED BY <2>3, <2>4, <2>5, <2>6, <2>9, <2>10 DEF Counted
<1> QED BY <1>1, <1>9, <1>10

LEMMA CountedSettled ==
    ASSUME Ground, Counted, Serves, [BotNext]_botVars, NEW s \in Servers, Finish(s) \/ SettleFault(s),
           UNCHANGED pollerVars
    PROVE  Counted'
<1>1. CASE Finish(s)
  BY <1>1, CountedOutcome DEF Finish
<1>2. CASE SettleFault(s) /\ loop[s].pc = "finish" /\ SettleEffect(loop[s].cur)
  <2>1. loop[s].cur \in loop[s].todo
    BY <1>2 DEF Ground, BotCustody, BotGrounded, Grounded, Held, LoopOwns
  <2> QED BY <1>2, <2>1, CountedOutcome DEF SettleFault
<1>3. CASE SettleFault(s) /\ UNCHANGED <<storeVars, failures>>
  <2>1. \A k \in Jobs : IntakesOf(k)' \subseteq IntakesOf(k)
    BY <1>3, PlacesUntouched DEF SettleFault
  <2> QED BY <1>3, <2>1, CountedForget DEF SettleFault
<1> QED BY <1>1, <1>2, <1>3 DEF SettleFault

-----------------------------------------------------------------------------
(* The counts, step by step: pollers *)

LEMMA CountedPoll ==
    ASSUME Ground, Counted, [BotNext]_botVars, Polls
    PROVE  Counted'
<1>1. PICK p \in Pollers : PollerStep(p) \/ Fail(p)
  BY DEF Polls, BotPoll, BotPollFault
<1> DEFINE j == poller[p].job
           n == poller[p].retry
<1>2. PICK x \in PollerType :
                 /\ poller' = [poller EXCEPT ![p] = x]
                 /\ \/ /\ UNCHANGED storeVars
                       /\ x.pc \in {"find", "zrem"} \/ (x.pc = "use" /\ poller[p].pc = "get" /\ x.job = j
                                                          /\ HasPayload(j) /\ x.retry = stored[j])
                    \/ j \in Jobs /\ Zrem(SourceOf[p], j) /\ x.pc \in {"find", "get"}
                    \/ /\ poller[p].pc = "use" /\ j \in Jobs /\ n \in Nat
                       /\ Requeue(j, n) \/ Enqueue(j, n)
                       /\ x.pc = "find"
  BY <1>1, PollerMoves DEF Ground, BotCustody
<1>3. UNCHANGED <<run, failures, submitted>> /\ (NoShutdown' => NoShutdown)
  BY PollTouches, ShutdownBudget DEF Ground, BotCustody
<1>4. RunsCounted' /\ DyingSpent'
  BY <1>3, RunsCountedKept DEF GoesOn
<1>5. zset'["dead"] = zset["dead"]
  BY <1>2, PollerAssumption DEF storeVars, Zrem, Requeue, Enqueue, Ground, BotCustody, BotGrounded, Grounded, Held,
     TypeOK, StoreTypeOK, SetNames
<1>6. ASSUME NEW k \in Jobs PROVE PayloadAgrees(k)
  <2>1. CASE stored'[k] = stored[k]
    BY <1>3, <2>1, PayloadUntouched DEF RetryingStay
  <2>2. CASE stored'[k] # stored[k]
    <3>1. k = j /\ stored'[k] = n /\ poller[p].pc = "use"
      BY <1>2, <2>2 DEF storeVars, Zrem, Requeue, Enqueue, Ground, BotCustody, BotGrounded, Grounded, Held,
         TypeOK, StoreTypeOK
    <3>2. Agrees(n, failures[j])
      BY <3>1 DEF Counted, PollersCounted
    <3> HIDE DEF j, n
    <3> QED BY <3>1, <3>2 DEF PayloadAgrees
  <2> QED BY <2>1, <2>2
<1>7. ASSUME NEW q \in Pollers, poller'[q].pc = "use"
      PROVE  poller'[q] = poller[q] \/ Agrees(poller'[q].retry, failures[poller'[q].job])
  <2>1. CASE q # p
    BY <1>2, <2>1 DEF Ground, BotCustody, BotGrounded, PollerTypeOK
  <2>2. CASE q = p
    <3>1. /\ poller'[q] = x /\ x.pc = "use" /\ poller[p].pc = "get" /\ x.job = j
          /\ HasPayload(j) /\ x.retry = stored[j]
      BY <1>2, <1>7, <2>2 DEF Ground, BotCustody, BotGrounded, PollerTypeOK
    <3>2. j \in Jobs /\ p \in HeldBy(j)
      BY <3>1 DEF HeldBy, Ground, BotCustody, BotGrounded, PollersHold
    <3> HIDE DEF j
    <3>3. ~BotUnheld(j) /\ ~Ahead(j) /\ j \notin zset["dead"]
      BY <3>2 DEF Ground, BotCustody, BotAlone, BotUnheld, Unheld, Ahead, InSet, SetNames
    <3>4. stored[j] \in Nat
      BY <3>1, <3>2 DEF HasPayload, Ground, BotCustody, BotGrounded, Grounded, Held, TypeOK, StoreTypeOK
    <3>5. Agrees(stored[j], failures[j])
      BY <3>2, <3>3, <3>4 DEF Counted, StoredCounted
    <3> QED BY <3>1, <3>5
  <2> QED BY <2>1, <2>2
<1> QED BY <1>3, <1>4, <1>5, <1>6, <1>7, CountedKept

-----------------------------------------------------------------------------
(* The counts agree. *)

LEMMA GroundInit == BotInit => Ground /\ Counted
<1> SUFFICES ASSUME BotInit PROVE Ground /\ Counted
  OBVIOUS
<1>1. BotCustody /\ Charged
  BY BotCustodyInit, ChargedInit DEF BotInit
<1>2. HandsOff
  BY <1>1, ServerAssumption DEF BotInit, Init, IdleLoop, FreeRun, HandsOff, Charged
<1>3. Counted
  BY StoreAssumption DEF BotInit, Init, StoreInit, PollerInit, FreeRun, IdlePoller, SetNames, Counted, RunsCounted,
     StoredCounted, PollersCounted, NeverFailed, DyingSpent, DeadSpent
<1> QED BY <1>1, <1>2, <1>3 DEF Ground

LEMMA GroundNext == Ground /\ [BotNext]_botVars => Ground'
BY BotCustodyNext, BotChargedNext, HandsOffNext DEF Ground, BotCustody

LEMMA CountedNext == Ground /\ Counted /\ [BotNext]_botVars => Counted'
<1> SUFFICES ASSUME Ground, Counted, [BotNext]_botVars PROVE Counted'
  OBVIOUS
<1>1. CASE ServerNext /\ UNCHANGED pollerVars
  <2>1. Serves
    BY <1>1 DEF ServerNext, Next, Serves
  <2>2. CASE \E j \in Jobs : Submit(j)
    BY <1>1, <2>2, CountedClient
  <2>3. CASE \E s \in Servers : IntakeStep(s) \/ IntakeFault(s)
    BY <1>1, <2>3, CountedIntake
  <2>4. CASE \E r \in Runs : WorkerStep(r) \/ WorkerFault(r)
    BY <1>1, <2>4, WorkersGoOn, CountedGoOn DEF Ground, BotCustody
  <2>5. CASE \E s \in Servers : HandleCompletedJobs(s) \/ StartJobs(s) \/ StartFault(s)
    BY <1>1, <2>5, LoopGoesOn, CountedGoOn DEF Ground, BotCustody
  <2>6. CASE \E s \in Servers : \E r \in Runs : Settle(s, r)
    BY <1>1, <2>6, CountedSettle
  <2>7. CASE \E s \in Servers : Finish(s) \/ SettleFault(s)
    BY <1>1, <2>1, <2>7, CountedSettled
  <2>8. CASE \E s \in Servers : \/ CleanupWorkers(s) \/ CleanupEnd(s) \/ ShutdownDone(s) \/ Shutdown(s)
                                \/ CleanupRequeue(s) \/ CleanupFault(s) \/ \E r \in Runs : CleanupUpdate(s, r)
    BY <1>1, <2>8, CleanupGoesOn, CountedGoOn DEF Ground, BotCustody
  <2> QED BY <1>1, <2>2, <2>3, <2>4, <2>5, <2>6, <2>7, <2>8 DEF ServerNext, Faults, LoopStep
<1>2. CASE \E s \in Servers : BotExit(s) \/ BotCrash(s)
  <2>1. Serves /\ \E s \in Servers : Exit(s) \/ Crash(s)
    BY <1>2 DEF BotExit, BotCrash, Next, Serves
  <2> QED BY <2>1, CountedVanish
<1>3. CASE UNCHANGED botVars
  <2>1. UNCHANGED <<pollerVars, stored, zset, failures, submitted, run>>
    BY <1>3 DEF botVars, vars, serverVars, storeVars
  <2> QED BY <2>1, CountedStill DEF GoesOn, RetryingStay
<1>4. CASE \E j \in Jobs : ScheduleAt(j)
  BY <1>4, CountedClient
<1>5. CASE \E p \in Pollers : BotPoll(p) \/ BotPollFault(p)
  BY <1>5, CountedPoll DEF Polls
<1> QED BY <1>1, <1>2, <1>3, <1>4, <1>5 DEF BotNext

LEMMA CountsAgree == BotSpec => [](Ground /\ Counted)
BY GroundInit, GroundNext, CountedNext, PTL DEF BotSpec

\* What is proved of a job that waits for its retry.
LEMMA RetriedAgrees ==
    ASSUME Ground, Counted, NEW j \in zset["retry"], stored[j] # NoPayload
    PROVE  Agrees(stored[j], failures[j])
<1>1. j \in Jobs /\ "retry" \in InSet(j) /\ stored[j] \in Nat
  BY DEF InSet, SetNames, Ground, BotCustody, BotGrounded, Grounded, Held, TypeOK, StoreTypeOK
<1>2. ~BotUnheld(j) /\ ~Ahead(j) /\ j \notin zset["dead"]
  BY <1>1 DEF Ground, BotCustody, BotAlone, Alone, BotUnheld, Unheld, Ahead, InSet, SetNames, AtMostOne
<1> QED BY <1>1, <1>2 DEF Counted, StoredCounted

\* Whatever stops or fails, a job is never tried too rarely: what waits for a
\* retry has no more retries on its count than failures, and what is dead has
\* failed more often than it may be retried.
THEOREM RetriesAreNotSkipped == BotSpec => []RetriesNotSkipped
<1>1. Ground /\ Counted => RetriesNotSkipped
  BY RetriedAgrees DEF Agrees, Counted, DeadSpent, RetriesNotSkipped
<1> QED BY CountsAgree, <1>1, PTL

\* Until the first shutdown is requested a job is tried exactly as often as its
\* options say, although processes die and calls fail.
THEOREM RetriesAreAccounted == BotSpec => [](budget["shutdown"] = MaxShutdowns => RetryAccounting)
<1>1. Ground /\ Counted /\ NoShutdown => RetryAccounting
  <2> SUFFICES ASSUME Ground, Counted, NoShutdown PROVE RetryAccounting
    OBVIOUS
  <2>1. ASSUME NEW j \in zset["retry"] PROVE stored[j] = failures[j]
    <3>1. j \in Jobs /\ "retry" \in InSet(j)
      BY DEF InSet, SetNames, Ground, BotCustody, BotGrounded, Grounded, Held, TypeOK, StoreTypeOK
    <3>2. j \in submitted \ completed
      BY <3>1 DEF Ground, BotCustody, BotHeldIsPending, BotUnheld, Unheld
    <3>3. stored[j] # NoPayload
      BY <3>2 DEF Ground, BotCustody, PendingHasPayload
    <3> QED BY <3>3, RetriedAgrees DEF Agrees
  <2>2. \A j \in zset["dead"] \cap Handled : MaxRetries[j] \in Nat => failures[j] = MaxRetries[j] + 1
    BY DEF Counted, DeadSpent
  <2> QED BY <2>1, <2>2 DEF RetryAccounting
<1> QED BY CountsAgree, <1>1, PTL DEF NoShutdown
=============================================================================
