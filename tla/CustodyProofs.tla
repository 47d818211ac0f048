---------------------------- MODULE CustodyProofs ---------------------------
(***************************************************************************)
(* Theorems about Server: who holds a job, for every set of servers, jobs, *)
(* queues and runs, and whatever stops or fails.                           *)
(*                                                                         *)
(* The custodians of a job are counted by place: positions in its queue,   *)
(* sorted sets, intakes and runs.  Alone(j) says that they are one at most *)
(* and makes no arithmetic necessary.  A step of the servers either leaves *)
(* the places of a job as they are, or hands the job from one place, which *)
(* is then empty, to another, which was.  What makes this an induction is  *)
(* Grounded: a queue holds its own jobs only, a free run has no job, and a *)
(* run that was handed back to its queue is one its loop will not touch    *)
(* again, so that nobody settles it a second time.                         *)
(***************************************************************************)
EXTENDS ServerProofs

-----------------------------------------------------------------------------
(* The places of a job *)

IntakesOf(j) == {s \in Servers : intake[s].pc = "read" /\ intake[s].job = j}
BearersOf(j) == {r \in Runs : run[r].job = j /\ ~run[r].requeued}

\* No place has the job.
Unheld(j) == InQueue(j) = {} /\ InSet(j) = {} /\ IntakesOf(j) = {} /\ BearersOf(j) = {}

AtMostOne(S) == \A x, y \in S : x = y

\* One place at most has the job, and has it once.
Alone(j) ==
    /\ AtMostOne(InQueue(j)) /\ AtMostOne(InSet(j))
    /\ AtMostOne(IntakesOf(j)) /\ AtMostOne(BearersOf(j))
    /\ InQueue(j) # {} => InSet(j) = {} /\ IntakesOf(j) = {} /\ BearersOf(j) = {}
    /\ InSet(j) # {} => IntakesOf(j) = {} /\ BearersOf(j) = {}
    /\ IntakesOf(j) # {} => BearersOf(j) = {}

-----------------------------------------------------------------------------
(* The inductive invariant *)

\* A queue holds jobs of its own.
QueuesSorted == \A q \in Queues : \A i \in DOMAIN queue[q] : QueueOf[queue[q][i]] = q

\* A free run has no job.
FreeIsEmpty == \A r \in Runs : run[r].phase = "free" => run[r].job = NoJob /\ ~run[r].requeued

\* A loop hands workers back only once it has left its settling for good, and
\* drops them from its list.
HandedBack ==
    \A r \in Runs : run[r].requeued =>
        /\ run[r].at \in Servers
        /\ loop[run[r].at].pc \in {"cleanup", "requeue", "wedged", "ended"}
        /\ r \notin loop[run[r].at].todo

Grounded == Held /\ QueuesSorted /\ FreeIsEmpty /\ HandedBack

\* A completed job is nowhere, nor is a job nobody has submitted.
HeldIsPending == \A j \in Jobs : j \notin submitted \/ j \in completed => Unheld(j)

\* A job that was submitted and is not completed has its payload.
PendingHasPayload == \A j \in submitted \ completed : stored[j] # NoPayload

Custody ==
    /\ Grounded
    /\ \A j \in Jobs : Alone(j)
    /\ HeldIsPending
    /\ completed \subseteq submitted
    /\ PendingHasPayload

\* What a loop leaves to be handed back, once it has begun its cleanup, is on
\* its list; and only a process whose loop came to its end has stopped.
CleanupCovers ==
    \A s \in Servers :
        /\ loop[s].pc \in {"cleanup", "requeue", "ended"} =>
                \A r \in RunsOf(s, {"starting", "performing", "leaked"}) :
                        run[r].requeued \/ r \in loop[s].todo
        /\ proc[s] = "stopped" => loop[s].pc = "ended"

\* No process stops and no call fails without being charged to the budget.
Charged ==
    /\ budget["shutdown"] <= MaxShutdowns
    /\ budget["crash"] <= MaxCrashes
    /\ budget["fault"] <= MaxFaults
    /\ Undisturbed => \A s \in Servers : proc[s] = "up"

\* Nothing is lost while nothing stops or fails.
NothingLost == Undisturbed => \A j \in submitted \ completed : ~Unheld(j)

-----------------------------------------------------------------------------
(* What the commands of the store do to the places of a job *)

\* The queue of k has it exactly if it had, and once if it had it once.
QueueKept(k) ==
    /\ InQueue(k)' = {} <=> InQueue(k) = {}
    /\ AtMostOne(InQueue(k)) => AtMostOne(InQueue(k)')

\* j comes to its queue, and no other job.
Pushed(j) ==
    /\ QueuesSorted'
    /\ InQueue(j)' # {}
    /\ InQueue(j) = {} => AtMostOne(InQueue(j)')
    /\ \A k \in Jobs \ {j} : QueueKept(k)

LEMMA QueueUntouched ==
    ASSUME UNCHANGED queue
    PROVE  (QueuesSorted => QueuesSorted') /\ \A k \in Jobs : QueueKept(k)
BY DEF QueuesSorted, QueueKept, InQueue

\* LPUSH moves every position by one.
LEMMA LpushPushes ==
    ASSUME StoreTypeOK, QueuesSorted, NEW j \in Jobs,
           queue' = [queue EXCEPT ![QueueOf[j]] = Cons(j, @)]
    PROVE  Pushed(j)
<1> DEFINE l == queue[QueueOf[j]]
<1>1. QueueOf[j] \in Queues /\ l \in Seq(Jobs)
  BY StoreAssumption DEF StoreTypeOK
<1>2. queue'[QueueOf[j]] = Cons(j, l) /\ \A q \in Queues \ {QueueOf[j]} : queue'[q] = queue[q]
  BY <1>1 DEF StoreTypeOK
<1>3. /\ DOMAIN Cons(j, l) = 1 .. Len(l) + 1
      /\ Cons(j, l)[1] = j
      /\ \A i \in 1 .. Len(l) : Cons(j, l)[i + 1] = l[i]
      /\ \A i \in 2 .. Len(l) + 1 : Cons(j, l)[i] = l[i - 1] /\ i - 1 \in 1 .. Len(l)
  BY <1>1 DEF Cons
<1>4. DOMAIN l = 1 .. Len(l) /\ Len(l) \in Nat
  BY <1>1
<1> HIDE DEF l
<1>5. QueuesSorted'
  <2> SUFFICES ASSUME NEW q \in Queues, NEW i \in DOMAIN queue'[q] PROVE QueueOf[queue'[q][i]] = q
    BY DEF QueuesSorted
  <2>1. CASE q # QueueOf[j]
    BY <1>2, <2>1 DEF QueuesSorted
  <2>2. CASE q = QueueOf[j]
    <3>1. i = 1 \/ (i \in 2 .. Len(l) + 1 /\ i - 1 \in DOMAIN l)
      BY <1>2, <1>3, <1>4, <2>2
    <3> QED BY <1>1, <1>2, <1>3, <2>2, <3>1 DEF QueuesSorted, l
  <2> QED BY <2>1, <2>2
<1>6. InQueue(j)' # {} /\ (InQueue(j) = {} => AtMostOne(InQueue(j)'))
  <2>1. InQueue(j) = {i \in 1 .. Len(l) : l[i] = j}
    BY <1>4 DEF InQueue, l
  <2>2. InQueue(j)' = {i \in 1 .. Len(l) + 1 : Cons(j, l)[i] = j}
    BY <1>2, <1>3 DEF InQueue
  <2>3. 1 \in InQueue(j)'
    BY <1>3, <1>4, <2>2
  <2>4. ASSUME InQueue(j) = {}, NEW i \in InQueue(j)' PROVE i = 1
    <3>1. i # 1 => i \in 2 .. Len(l) + 1
      BY <1>4, <2>2
    <3>2. i # 1 => i - 1 \in InQueue(j)
      BY <1>3, <2>1, <2>2, <3>1
    <3> QED BY <2>4, <3>2
  <2> QED BY <2>3, <2>4 DEF AtMostOne
<1>7. ASSUME NEW k \in Jobs \ {j}, QueueOf[k] = QueueOf[j] PROVE QueueKept(k)
  <2>1. InQueue(k) = {i \in 1 .. Len(l) : l[i] = k}
    BY <1>4, <1>7 DEF InQueue, l
  <2>2. InQueue(k)' = {i \in 1 .. Len(l) + 1 : Cons(j, l)[i] = k}
    BY <1>2, <1>3, <1>7 DEF InQueue
  <2>3. ASSUME NEW i \in InQueue(k)' PROVE i \in Int /\ i - 1 \in InQueue(k)
    <3>1. i \in 1 .. Len(l) + 1 /\ Cons(j, l)[i] = k /\ i # 1
      BY <1>3, <2>2
    <3> QED BY <1>3, <1>4, <2>1, <3>1
  <2>4. ASSUME NEW i \in InQueue(k) PROVE i + 1 \in InQueue(k)'
    BY <1>3, <1>4, <2>1, <2>2
  <2>5. AtMostOne(InQueue(k)) => AtMostOne(InQueue(k)')
    <3> SUFFICES ASSUME AtMostOne(InQueue(k)), NEW x \in InQueue(k)', NEW y \in InQueue(k)'
                 PROVE  x = y
      BY DEF AtMostOne
    <3>1. x - 1 = y - 1 /\ x \in Int /\ y \in Int
      BY <2>3 DEF AtMostOne
    <3> QED BY <3>1
  <2> QED BY <2>3, <2>4, <2>5 DEF QueueKept
<1>8. ASSUME NEW k \in Jobs \ {j}, QueueOf[k] # QueueOf[j] PROVE QueueKept(k)
  <2>1. QueueOf[k] \in Queues
    BY StoreAssumption
  <2> QED BY <1>2, <1>8, <2>1 DEF QueueKept, InQueue
<1> QED BY <1>5, <1>6, <1>7, <1>8 DEF Pushed

LEMMA EnqueuePushes ==
    ASSUME StoreTypeOK, QueuesSorted, NEW j \in Jobs, NEW n, Enqueue(j, n)
    PROVE  Pushed(j)
BY LpushPushes DEF Enqueue

\* RPUSH leaves the positions as they are.
LEMMA RpushPushes ==
    ASSUME StoreTypeOK, QueuesSorted, NEW j \in Jobs,
           queue' = [queue EXCEPT ![QueueOf[j]] = Append(@, j)]
    PROVE  Pushed(j)
<1> DEFINE l == queue[QueueOf[j]]
<1>1. QueueOf[j] \in Queues /\ l \in Seq(Jobs)
  BY StoreAssumption DEF StoreTypeOK
<1>2. queue'[QueueOf[j]] = Append(l, j) /\ \A q \in Queues \ {QueueOf[j]} : queue'[q] = queue[q]
  BY <1>1 DEF StoreTypeOK
<1>3. /\ DOMAIN Append(l, j) = 1 .. Len(l) + 1
      /\ Append(l, j)[Len(l) + 1] = j
      /\ \A i \in 1 .. Len(l) : Append(l, j)[i] = l[i]
  BY <1>1
<1>4. DOMAIN l = 1 .. Len(l) /\ Len(l) \in Nat
  BY <1>1
<1> HIDE DEF l
<1>5. QueuesSorted'
  <2> SUFFICES ASSUME NEW q \in Queues, NEW i \in DOMAIN queue'[q] PROVE QueueOf[queue'[q][i]] = q
    BY DEF QueuesSorted
  <2>1. CASE q # QueueOf[j]
    BY <1>2, <2>1 DEF QueuesSorted
  <2>2. CASE q = QueueOf[j]
    <3>1. i = Len(l) + 1 \/ i \in DOMAIN l
      BY <1>2, <1>3, <1>4, <2>2
    <3> QED BY <1>1, <1>2, <1>3, <1>4, <2>2, <3>1 DEF QueuesSorted, l
  <2> QED BY <2>1, <2>2
<1>6. ASSUME NEW k \in Jobs, QueueOf[k] = QueueOf[j]
      PROVE  InQueue(k)' = InQueue(k) \cup (IF k = j THEN {Len(l) + 1} ELSE {})
  <2>1. InQueue(k) = {i \in 1 .. Len(l) : l[i] = k}
    BY <1>4, <1>6 DEF InQueue, l
  <2>2. InQueue(k)' = {i \in 1 .. Len(l) + 1 : Append(l, j)[i] = k}
    BY <1>2, <1>3, <1>6 DEF InQueue
  <2> QED BY <1>3, <1>4, <2>1, <2>2
<1>7. ASSUME NEW k \in Jobs, QueueOf[k] # QueueOf[j] PROVE InQueue(k)' = InQueue(k)
  <2>1. QueueOf[k] \in Queues
    BY StoreAssumption
  <2> QED BY <1>2, <1>7, <2>1 DEF InQueue
<1> QED BY <1>5, <1>6, <1>7 DEF Pushed, QueueKept, AtMostOne

LEMMA RequeuePushes ==
    ASSUME StoreTypeOK, QueuesSorted, NEW j \in Jobs, NEW n, Requeue(j, n)
    PROVE  Pushed(j)
BY RpushPushes DEF Requeue

\* BRPOP takes a job that is in its queue.
LEMMA PopTakes ==
    ASSUME StoreTypeOK, QueuesSorted, NEW q \in Queues, Pop(q), NEW j, j = Last(queue[q])
    PROVE  /\ j \in Jobs /\ QueuesSorted'
           /\ InQueue(j) # {}
           /\ AtMostOne(InQueue(j)) => InQueue(j)' = {}
           /\ \A k \in Jobs \ {j} : InQueue(k)' = InQueue(k)
<1> DEFINE l == queue[q]
<1>1. l \in Seq(Jobs) /\ l # <<>>
  BY DEF StoreTypeOK, Pop
<1>2. queue'[q] = Front(l) /\ \A p \in Queues \ {q} : queue'[p] = queue[p]
  BY DEF Pop, StoreTypeOK
<1>3. /\ DOMAIN l = 1 .. Len(l) /\ Len(l) \in Nat \ {0}
      /\ j = l[Len(l)] /\ j \in Jobs
  BY <1>1 DEF Last
<1>4. /\ DOMAIN Front(l) = 1 .. Len(l) - 1
      /\ \A i \in 1 .. Len(l) - 1 : Front(l)[i] = l[i]
  BY <1>1 DEF Front
<1>5. QueueOf[j] = q
  BY <1>3 DEF QueuesSorted
<1> HIDE DEF l
<1>6. QueuesSorted'
  <2> SUFFICES ASSUME NEW p \in Queues, NEW i \in DOMAIN queue'[p] PROVE QueueOf[queue'[p][i]] = p
    BY DEF QueuesSorted
  <2> QED BY <1>2, <1>3, <1>4 DEF QueuesSorted, l
<1>7. ASSUME NEW k \in Jobs, QueueOf[k] = q
      PROVE  InQueue(k) = {i \in 1 .. Len(l) : l[i] = k} /\ InQueue(k)' = {i \in 1 .. Len(l) - 1 : l[i] = k}
  <2>1. InQueue(k) = {i \in 1 .. Len(l) : l[i] = k}
    BY <1>3, <1>7 DEF InQueue, l
  <2>2. InQueue(k)' = {i \in 1 .. Len(l) - 1 : Front(l)[i] = k}
    BY <1>2, <1>4, <1>7 DEF InQueue
  <2> QED BY <1>4, <2>1, <2>2
<1>8. ASSUME NEW k \in Jobs \ {j} PROVE InQueue(k)' = InQueue(k)
  <2>1. CASE QueueOf[k] = q
    <3>1. \A i \in 1 .. Len(l) : l[i] = k => i \in 1 .. Len(l) - 1
      BY <1>3
    <3>2. {i \in 1 .. Len(l) : l[i] = k} = {i \in 1 .. Len(l) - 1 : l[i] = k}
      BY <1>3, <3>1
    <3> QED BY <1>7, <2>1, <3>2
  <2>2. CASE QueueOf[k] # q
    BY <1>2, <2>2, StoreAssumption DEF InQueue
  <2> QED BY <2>1, <2>2
<1>9. Len(l) \in InQueue(j)
  BY <1>3, <1>5, <1>7
<1>10. AtMostOne(InQueue(j)) => InQueue(j)' = {}
  BY <1>3, <1>5, <1>7, <1>9 DEF AtMostOne
<1> QED BY <1>3, <1>6, <1>8, <1>9, <1>10

-----------------------------------------------------------------------------
(* What a step does to the custody of a job *)

\* No place gains or loses the job.
Steady(k) ==
    /\ QueueKept(k) /\ InSet(k)' = InSet(k)
    /\ IntakesOf(k)' = IntakesOf(k) /\ BearersOf(k)' = BearersOf(k)

\* No place gains the job.
Shrinks(k) ==
    /\ InQueue(k) = {} => InQueue(k)' = {}
    /\ AtMostOne(InQueue(k)) => AtMostOne(InQueue(k)')
    /\ InSet(k)' \subseteq InSet(k)
    /\ IntakesOf(k)' \subseteq IntakesOf(k) /\ BearersOf(k)' \subseteq BearersOf(k)

\* The job comes to no second place, and from nowhere to none.
Passes(k) == (Alone(k) => Alone(k)') /\ (Unheld(k) => Unheld(k)')

\* ... and is not lost either.
Keeps(k) == Passes(k) /\ (Unheld(k)' => Unheld(k))

LEMMA SteadyKeeps == ASSUME NEW k, Steady(k) PROVE Keeps(k)
BY DEF Steady, QueueKept, Keeps, Passes, Alone, Unheld

LEMMA ShrinksPasses == ASSUME NEW k, Shrinks(k) PROVE Passes(k)
BY DEF Shrinks, Passes, Alone, Unheld, AtMostOne

\* Places that the variables of a step do not concern.
LEMMA PlacesUntouched ==
    ASSUME NEW k
    PROVE  /\ UNCHANGED queue => QueueKept(k)
           /\ UNCHANGED zset => InSet(k)' = InSet(k)
           /\ UNCHANGED intake => IntakesOf(k)' = IntakesOf(k)
           /\ UNCHANGED run => BearersOf(k)' = BearersOf(k)
BY DEF QueueKept, InQueue, InSet, IntakesOf, BearersOf

\* A step that only moves runs from phase to phase.
LEMMA SameBearers ==
    ASSUME \A r \in Runs : run'[r].job = run[r].job /\ run'[r].requeued = run[r].requeued, NEW k
    PROVE  BearersOf(k)' = BearersOf(k)
BY DEF BearersOf

LEMMA SameRuns ==
    ASSUME Held, UNCHANGED <<queue, zset, intake>>, NEW k \in Jobs,
           \A r \in Runs : run'[r].job = run[r].job /\ run'[r].requeued = run[r].requeued
    PROVE  Steady(k)
BY SameBearers, PlacesUntouched DEF Steady

LEMMA SetPhaseSame ==
    ASSUME Held, NEW rs, NEW phase, run' = SetPhase(rs, phase)
    PROVE  \A r \in Runs : /\ run'[r].job = run[r].job /\ run'[r].requeued = run[r].requeued
                          /\ run'[r].at = run[r].at
                          /\ run'[r].phase = IF r \in rs THEN phase ELSE run[r].phase
BY DEF Held, TypeOK, RunType, SetPhase

\* Nobody bears a job that is none.
LEMMA BearersInUse ==
    ASSUME Grounded, NEW k \in Jobs, NEW r \in BearersOf(k)
    PROVE  r \in Runs /\ run[r].phase # "free" /\ run[r].job = k /\ ~run[r].requeued
BY ServerAssumption DEF Grounded, FreeIsEmpty, BearersOf

\* Forgetting runs takes their jobs from them.
LEMMA ForgetBearers ==
    ASSUME NEW rs, run' = Forget(rs), NEW k \in Jobs
    PROVE  BearersOf(k)' = BearersOf(k) \ rs
BY ServerAssumption DEF Forget, FreeRun, BearersOf

-----------------------------------------------------------------------------
(* Custody: clients and the intake *)

LEMMA CustodySubmit ==
    ASSUME Grounded, NEW j \in Jobs, Submit(j), NEW k \in Jobs
    PROVE  IF k = j THEN Unheld(k) => Alone(k)' /\ ~Unheld(k)'
                    ELSE Keeps(k)
<1>1. Pushed(j)
  BY EnqueuePushes DEF Submit, Grounded, Held, TypeOK
<1>2. InSet(k)' = InSet(k) /\ IntakesOf(k)' = IntakesOf(k) /\ BearersOf(k)' = BearersOf(k)
  BY PlacesUntouched DEF Submit, Enqueue
<1>3. CASE k # j
  <2>1. Steady(k)
    BY <1>1, <1>2, <1>3 DEF Steady, Pushed
  <2> QED BY <1>3, <2>1, SteadyKeeps
<1>4. CASE k = j
  BY <1>1, <1>2, <1>4 DEF Pushed, Unheld, Alone, AtMostOne
<1> QED BY <1>3, <1>4

LEMMA CustodyIntakeQuiet ==
    ASSUME Grounded, NEW s \in Servers, IntakeIter(s) \/ IntakeEnd(s) \/ IntakeTimeout(s),
           NEW k \in Jobs
    PROVE  Keeps(k)
<1>1. IntakesOf(k)' = IntakesOf(k)
  <2>1. intake[s].pc # "read" /\ intake'[s].pc # "read"
    BY DEF IntakeIter, IntakeEnd, IntakeTimeout, IdleIntake, Grounded, Held, TypeOK, IntakeType
  <2>2. \A t \in Servers \ {s} : intake'[t] = intake[t]
    BY DEF IntakeIter, IntakeEnd, IntakeTimeout, Grounded, Held, TypeOK
  <2> QED BY <2>1, <2>2 DEF IntakesOf
<1>2. UNCHANGED <<queue, zset, run>>
  BY DEF IntakeIter, IntakeEnd, IntakeTimeout, storeVars
<1> QED BY <1>1, <1>2, PlacesUntouched, SteadyKeeps DEF Steady

LEMMA CustodyIntakeFetch ==
    ASSUME Grounded, NEW s \in Servers, NEW q \in Queues, IntakeFetch(s, q), NEW k \in Jobs
    PROVE  Keeps(k)
<1>1. PICK j : j = Last(queue[q])
  OBVIOUS
<1>2. /\ j \in Jobs /\ InQueue(j) # {}
      /\ AtMostOne(InQueue(j)) => InQueue(j)' = {}
      /\ \A i \in Jobs \ {j} : InQueue(i)' = InQueue(i)
  BY <1>1, PopTakes DEF IntakeFetch, Grounded, Held, TypeOK
<1>3. IntakesOf(k)' = IF k = j THEN IntakesOf(k) \cup {s} ELSE IntakesOf(k)
  BY <1>1 DEF IntakeFetch, IntakesOf, Grounded, Held, TypeOK, IntakeType
<1>4. InSet(k)' = InSet(k) /\ BearersOf(k)' = BearersOf(k)
  BY PlacesUntouched DEF IntakeFetch, Pop
<1>5. CASE k # j
  <2>1. Steady(k)
    BY <1>2, <1>3, <1>4, <1>5 DEF Steady, QueueKept
  <2> QED BY <2>1, SteadyKeeps
<1>6. CASE k = j
  BY <1>2, <1>3, <1>4, <1>6 DEF Keeps, Passes, Unheld, Alone, AtMostOne
<1> QED BY <1>5, <1>6

LEMMA CustodyIntakeRead ==
    ASSUME Grounded, NEW s \in Servers, NEW r \in Runs, IntakeRead(s, r), NEW k \in Jobs
    PROVE  Keeps(k)
<1> DEFINE j == intake[s].job
<1>1. intake[s].pc = "read" /\ intake'[s].pc # "read"
  BY DEF IntakeRead, IdleIntake, Grounded, Held, TypeOK
<1>2. IntakesOf(k)' = IntakesOf(k) \ {s} /\ (s \in IntakesOf(k) <=> k = j)
  BY <1>1 DEF IntakeRead, IntakesOf, Grounded, Held, TypeOK
<1>3. run[r].job = NoJob /\ run'[r].job = j /\ ~run'[r].requeued
  BY DEF IntakeRead, Grounded, Held, TypeOK, FreeIsEmpty
<1>4. BearersOf(k)' = IF k = j THEN BearersOf(k) \cup {r} ELSE BearersOf(k)
  BY <1>3, ServerAssumption DEF IntakeRead, BearersOf, Grounded, Held, TypeOK
<1>5. QueueKept(k) /\ InSet(k)' = InSet(k)
  BY PlacesUntouched DEF IntakeRead, storeVars
<1> HIDE DEF j
<1>6. CASE k # j
  BY <1>2, <1>4, <1>5, <1>6, SteadyKeeps DEF Steady
<1>7. CASE k = j
  BY <1>2, <1>4, <1>5, <1>7 DEF QueueKept, Keeps, Passes, Unheld, Alone, AtMostOne
<1> QED BY <1>6, <1>7

\* A popped id without a payload is dropped.
LEMMA CustodyIntakeMissing ==
    ASSUME Grounded, NEW s \in Servers, IntakeMissing(s), NEW k \in Jobs
    PROVE  Passes(k) /\ (HasPayload(k) => Keeps(k))
<1>1. IntakesOf(k)' = IntakesOf(k) \ {s} /\ (s \in IntakesOf(k) => ~HasPayload(k))
  BY DEF IntakeMissing, IdleIntake, IntakesOf, Grounded, Held, TypeOK
<1>2. QueueKept(k) /\ InSet(k)' = InSet(k) /\ BearersOf(k)' = BearersOf(k)
  BY PlacesUntouched DEF IntakeMissing, storeVars
<1>3. Passes(k)
  BY <1>1, <1>2, ShrinksPasses DEF Shrinks, QueueKept
<1>4. HasPayload(k) => Steady(k)
  BY <1>1, <1>2 DEF Steady
<1> QED BY <1>3, <1>4, SteadyKeeps

LEMMA CustodyIntakeFault ==
    ASSUME Grounded, NEW s \in Servers, IntakeFault(s), NEW k \in Jobs
    PROVE  Passes(k)
<1>1. IntakesOf(k)' \subseteq IntakesOf(k)
  BY DEF IntakeFault, IdleIntake, IntakesOf, Grounded, Held, TypeOK
<1>2. InSet(k)' = InSet(k) /\ BearersOf(k)' = BearersOf(k)
  BY PlacesUntouched DEF IntakeFault, Pop, storeVars
<1>3. (InQueue(k) = {} => InQueue(k)' = {}) /\ (AtMostOne(InQueue(k)) => AtMostOne(InQueue(k)'))
  <2>1. CASE UNCHANGED queue
    BY <2>1, PlacesUntouched DEF QueueKept
  <2>2. ASSUME NEW q \in Queues, Pop(q)
        PROVE  (InQueue(k) = {} => InQueue(k)' = {}) /\ (AtMostOne(InQueue(k)) => AtMostOne(InQueue(k)'))
    <3>1. PICK j : j = Last(queue[q])
      OBVIOUS
    <3>2. /\ j \in Jobs /\ InQueue(j) # {}
          /\ AtMostOne(InQueue(j)) => InQueue(j)' = {}
          /\ \A i \in Jobs \ {j} : InQueue(i)' = InQueue(i)
      BY <2>2, <3>1, PopTakes DEF Grounded, Held, TypeOK
    <3> QED BY <3>2 DEF AtMostOne
  <2> QED BY <2>1, <2>2 DEF IntakeFault, storeVars
<1> QED BY <1>1, <1>2, <1>3, ShrinksPasses DEF Shrinks

-----------------------------------------------------------------------------
(* Custody: workers, loop and shutdown *)

\* Steps that leave every job to the run that has it.
LEMMA CustodyRunsOnly ==
    ASSUME Grounded, NEW k \in Jobs,
           \/ \E r \in Runs : WorkerStep(r) \/ WorkerFault(r)
           \/ \E s \in Servers : HandleCompletedJobs(s) \/ StartJobs(s) \/ StartFault(s)
    PROVE  Keeps(k)
<1>1. UNCHANGED <<queue, zset, intake>>
  BY DEF WorkerStep, WorkerStart, WorkerEnd, WorkerFault, HandleCompletedJobs, StartJobs, StartFault,
         UpdateJob, storeVars
<1>2. \A r \in Runs : run'[r].job = run[r].job /\ run'[r].requeued = run[r].requeued
  <2>1. CASE \E rs, phase : run' = SetPhase(rs, phase)
    BY <2>1, SetPhaseSame DEF Grounded
  <2>2. CASE \E s \in Servers : HandleCompletedJobs(s) \/ StartFault(s)
    BY <2>2 DEF HandleCompletedJobs, StartFault, Grounded, Held, TypeOK, RunType
  <2> QED
    BY <2>1, <2>2 DEF WorkerStep, WorkerStart, WorkerEnd, WorkerFault, StartJobs
<1> QED BY <1>1, <1>2, SameRuns, SteadyKeeps DEF Grounded

\* Settling a worker changes its phase and perhaps its count.
LEMMA SettleSame ==
    ASSUME Held, NEW s \in Servers, NEW r \in Runs, Settle(s, r), NEW x \in Runs
    PROVE  /\ run'[x].job = run[x].job /\ run'[x].requeued = run[x].requeued
           /\ run'[x].at = run[x].at
           /\ IF x = r THEN run[x].phase \in {"acking", "failing"} /\ run'[x].phase \in {"deleting", "dying", "retrying"}
                       ELSE run'[x] = run[x]
<1>1. CASE \E phase \in {"deleting", "dying", "retrying"} : run' = SetPhase({r}, phase)
  <2>1. x # r => run'[x] = run[x]
    BY <1>1 DEF SetPhase
  <2>2. PICK phase \in {"deleting", "dying", "retrying"} : run' = SetPhase({r}, phase)
    BY <1>1
  <2>3. /\ run'[x].job = run[x].job /\ run'[x].requeued = run[x].requeued /\ run'[x].at = run[x].at
        /\ x = r => run'[x].phase = phase
    BY <2>2, SetPhaseSame
  <2>4. run[r].phase \in {"acking", "failing"}
    BY DEF Settle
  <2> QED BY <2>1, <2>3, <2>4
<1>2. CASE run' = [run EXCEPT ![r] = [run[r] EXCEPT !.phase = "retrying", !.retry = run[r].retry + 1]]
  <2>1. x # r => run'[x] = run[x]
    BY <1>2 DEF Held, TypeOK
  <2>2. run[r].phase \in {"acking", "failing"}
    BY DEF Settle
  <2> QED BY <1>2, <2>1, <2>2 DEF Held, TypeOK, RunType
<1> QED BY <1>1, <1>2 DEF Settle

LEMMA CustodySettle ==
    ASSUME Grounded, NEW s \in Servers, NEW r \in Runs, Settle(s, r), NEW k \in Jobs
    PROVE  Keeps(k)
<1>1. UNCHANGED <<queue, zset, intake>>
  BY DEF Settle, UpdateJob
<1> QED BY <1>1, SettleSame, SameRuns, SteadyKeeps DEF Grounded

\* Steps that leave every job where it is.
LEMMA CustodyIdle ==
    ASSUME NEW k \in Jobs,
           \/ UNCHANGED vars
           \/ \E s \in Servers : \/ CleanupWorkers(s) \/ CleanupEnd(s) \/ ShutdownDone(s) \/ Shutdown(s)
                                 \/ \E r \in Runs : CleanupUpdate(s, r)
    PROVE  Keeps(k)
<1>1. UNCHANGED <<queue, zset, intake, run>>
  BY DEF vars, storeVars, serverVars, CleanupWorkers, CleanupEnd, ShutdownDone, Shutdown,
         CleanupUpdate, UpdateJob
<1> QED BY <1>1, PlacesUntouched, SteadyKeeps DEF Steady

\* The worker a loop settles or hands back is the one that bears its job.
LEMMA CurBears ==
    ASSUME Grounded, NEW s \in Servers, loop[s].pc \in {"finish", "requeue"}
    PROVE  /\ loop[s].cur \in Runs /\ run[loop[s].cur].job \in Jobs
           /\ loop[s].cur \in BearersOf(run[loop[s].cur].job)
<1> DEFINE r == loop[s].cur
<1>1. r \in Runs /\ run[r].at = s /\ run[r].job \in Jobs
  BY LoopCur DEF Grounded
<1>2. r \in loop[s].todo
  BY DEF Grounded, Held, LoopOwns
<1>3. ~run[r].requeued
  BY <1>1, <1>2 DEF Grounded, HandedBack
<1> QED BY <1>1, <1>3 DEF BearersOf

\* The outcome of a worker: its job is completed and nowhere, or in a set.
LEMMA CustodyOutcome ==
    ASSUME Grounded, NEW s \in Servers, loop[s].pc = "finish", SettleEffect(loop[s].cur),
           NEW rs, run' = Forget(rs), loop[s].cur \in rs, UNCHANGED intake, NEW k \in Jobs
    PROVE  /\ Passes(k)
           /\ k \in completed' \ completed => ~Unheld(k) /\ (Alone(k) => Unheld(k)')
           /\ rs = {loop[s].cur} => Keeps(k) \/ k \in completed'
<1> DEFINE r == loop[s].cur
           j == run[r].job
<1>1. r \in Runs /\ j \in Jobs /\ r \in BearersOf(j)
  BY CurBears
<1>2. BearersOf(k)' = BearersOf(k) \ rs /\ IntakesOf(k)' = IntakesOf(k)
  BY ForgetBearers, PlacesUntouched
<1>3. r \in rs /\ (r \in BearersOf(k) <=> k = j)
  BY <1>1 DEF BearersOf
<1>4. QueueKept(k)
  BY PlacesUntouched DEF SettleEffect, UnsafeDeleteJob, AddToSet
<1>5. CASE UNCHANGED zset /\ completed' = completed \cup {j}
  <2>1. InSet(k)' = InSet(k)
    BY <1>5, PlacesUntouched
  <2>2. Passes(k)
    BY <1>2, <1>4, <2>1, ShrinksPasses DEF Shrinks, QueueKept
  <2>3. k = j => ~Unheld(k) /\ (Alone(k) => Unheld(k)')
    BY <1>2, <1>3, <1>4, <2>1 DEF QueueKept, Unheld, Alone, AtMostOne
  <2>4. rs = {r} /\ k # j => Steady(k)
    BY <1>2, <1>3, <1>4, <2>1 DEF Steady
  <2> QED BY <1>5, <2>2, <2>3, <2>4, SteadyKeeps
<1>6. ASSUME NEW z \in SetNames, zset' = [zset EXCEPT ![z] = @ \cup {j}], completed' = completed
      PROVE  Passes(k) /\ (rs = {r} => Keeps(k))
  <2>1. InSet(k)' = IF k = j THEN InSet(k) \cup {z} ELSE InSet(k)
    BY <1>6 DEF InSet, Grounded, Held, TypeOK, StoreTypeOK
  <2> HIDE DEF r, j
  <2>2. CASE k = j
    BY <1>2, <1>3, <1>4, <2>1, <2>2 DEF QueueKept, Keeps, Passes, Alone, Unheld, AtMostOne
  <2>3. CASE k # j
    <3>1. Passes(k)
      BY <1>2, <1>4, <2>1, <2>3, ShrinksPasses DEF Shrinks, QueueKept
    <3>2. rs = {r} => Steady(k)
      BY <1>2, <1>3, <1>4, <2>1, <2>3 DEF Steady
    <3> QED BY <3>1, <3>2, SteadyKeeps
  <2> QED BY <2>2, <2>3
<1>7. \/ UNCHANGED zset /\ completed' = completed \cup {j}
      \/ \E z \in SetNames : zset' = [zset EXCEPT ![z] = @ \cup {j}] /\ completed' = completed
  BY DEF SettleEffect, UnsafeDeleteJob, AddToSet, SetNames
<1> QED BY <1>5, <1>6, <1>7

LEMMA CustodyFinish ==
    ASSUME Grounded, NEW s \in Servers, Finish(s), NEW k \in Jobs
    PROVE  /\ Passes(k)
           /\ k \in completed' \ completed => ~Unheld(k) /\ (Alone(k) => Unheld(k)')
           /\ Keeps(k) \/ k \in completed'
BY CustodyOutcome DEF Finish

LEMMA CustodySettleFault ==
    ASSUME Grounded, NEW s \in Servers, SettleFault(s), NEW k \in Jobs
    PROVE  /\ Passes(k)
           /\ k \in completed' \ completed => ~Unheld(k) /\ (Alone(k) => Unheld(k)')
<1>1. run' = Forget(loop[s].todo) /\ UNCHANGED intake
  BY DEF SettleFault
<1>2. CASE UNCHANGED <<storeVars, completed>>
  <2>1. Shrinks(k)
    BY <1>1, <1>2, PlacesUntouched, ForgetBearers DEF Shrinks, QueueKept, storeVars
  <2> QED BY <1>2, <2>1, ShrinksPasses
<1>3. CASE loop[s].pc = "finish" /\ SettleEffect(loop[s].cur)
  <2>1. loop[s].cur \in loop[s].todo
    BY <1>3 DEF Grounded, Held, LoopOwns
  <2> QED BY <1>1, <1>3, <2>1, CustodyOutcome
<1> QED BY <1>2, <1>3 DEF SettleFault

\* A worker's job goes back to its queue.
LEMMA CustodyHandBack ==
    ASSUME Grounded, NEW s \in Servers, loop[s].pc = "requeue",
           Requeue(run[loop[s].cur].job, run[loop[s].cur].retry),
           run' = [run EXCEPT ![loop[s].cur].requeued = TRUE], UNCHANGED intake, NEW k \in Jobs
    PROVE  Keeps(k)
<1> DEFINE r == loop[s].cur
           j == run[r].job
<1>1. r \in Runs /\ j \in Jobs /\ r \in BearersOf(j)
  BY CurBears
<1>2. BearersOf(k)' = BearersOf(k) \ {r}
  <2>1. run[r] \in RunType /\ run'[r] = [run[r] EXCEPT !.requeued = TRUE]
    BY <1>1 DEF Grounded, Held, TypeOK
  <2>2. run'[r].requeued
    BY <2>1 DEF RunType
  <2>3. \A x \in Runs \ {r} : run'[x] = run[x]
    BY DEF Grounded, Held, TypeOK
  <2> QED BY <2>2, <2>3 DEF BearersOf
<1>3. r \in BearersOf(k) <=> k = j
  BY <1>1 DEF BearersOf
<1>4. IntakesOf(k)' = IntakesOf(k) /\ InSet(k)' = InSet(k)
  BY PlacesUntouched DEF Requeue
<1>5. PICK i \in Jobs : i = j
  BY <1>1
<1>6. Pushed(i)
  BY <1>5, RequeuePushes DEF Grounded, Held, TypeOK
<1> HIDE DEF r, j
<1>7. CASE k = j
  BY <1>2, <1>3, <1>4, <1>5, <1>6, <1>7 DEF Pushed, Keeps, Passes, Alone, Unheld, AtMostOne
<1>8. CASE k # j
  <2>1. Steady(k)
    BY <1>2, <1>3, <1>4, <1>5, <1>6, <1>8 DEF Pushed, Steady
  <2> QED BY <2>1, SteadyKeeps
<1> QED BY <1>7, <1>8

LEMMA CustodyCleanup ==
    ASSUME Grounded, NEW s \in Servers, CleanupRequeue(s) \/ CleanupFault(s), NEW k \in Jobs
    PROVE  Keeps(k)
<1>1. CASE UNCHANGED <<storeVars, run, intake>>
  BY <1>1, PlacesUntouched, SteadyKeeps DEF Steady, storeVars
<1>2. CASE /\ loop[s].pc = "requeue" /\ UNCHANGED intake
           /\ Requeue(run[loop[s].cur].job, run[loop[s].cur].retry)
           /\ run' = [run EXCEPT ![loop[s].cur].requeued = TRUE]
  BY <1>2, CustodyHandBack
<1> QED BY <1>1, <1>2 DEF CleanupRequeue, CleanupFault

LEMMA CustodyVanish ==
    ASSUME Grounded, NEW s \in Servers, Exit(s) \/ Crash(s), NEW k \in Jobs
    PROVE  Passes(k)
<1>1. BearersOf(k)' \subseteq BearersOf(k)
  BY ForgetBearers DEF Exit, Crash, Vanish
<1>2. IntakesOf(k)' \subseteq IntakesOf(k)
  BY DEF Exit, Crash, Vanish, IdleIntake, IntakesOf, Grounded, Held, TypeOK
<1>3. QueueKept(k) /\ InSet(k)' = InSet(k)
  BY PlacesUntouched DEF Exit, Crash, storeVars
<1> QED BY <1>1, <1>2, <1>3, ShrinksPasses DEF Shrinks, QueueKept

-----------------------------------------------------------------------------
(* Grounded is inductive. *)

\* A step after which a free run is one that was free before, or is forgotten.
LEMMA FreeStaysEmpty ==
    ASSUME FreeIsEmpty,
           \A r \in Runs : \/ run'[r] = FreeRun
                          \/ run'[r].phase # "free"
                          \/ run'[r] = run[r]
    PROVE  FreeIsEmpty'
BY DEF FreeIsEmpty, FreeRun

\* A step that hands no run back, and of no loop that has any.
LEMMA HandedBackKept ==
    ASSUME Held, HandedBack,
           \A r \in Runs : run'[r].requeued => run[r].requeued /\ run'[r].at = run[r].at,
           \A s \in Servers : loop[s].pc \in {"cleanup", "requeue", "wedged", "ended"} =>
                /\ loop'[s].pc \in {"cleanup", "requeue", "wedged", "ended"}
                /\ loop'[s].todo \subseteq loop[s].todo
    PROVE  HandedBack'
BY DEF HandedBack

LEMMA GroundedQueues ==
    ASSUME Grounded, [Next]_vars
    PROVE  QueuesSorted'
<1>1. CASE UNCHANGED queue
  BY <1>1, QueueUntouched DEF Grounded
<1>2. CASE \E q \in Queues : Pop(q)
  <2>1. PICK q \in Queues : Pop(q)
    BY <1>2
  <2>2. PICK j : j = Last(queue[q])
    OBVIOUS
  <2> QED BY <2>1, <2>2, PopTakes DEF Grounded, Held, TypeOK
<1>3. CASE \E j \in Jobs : \E n : Enqueue(j, n) \/ Requeue(j, n)
  <2>1. PICK j \in Jobs : \E n : Enqueue(j, n) \/ Requeue(j, n)
    BY <1>3
  <2>2. PICK n : Enqueue(j, n) \/ Requeue(j, n)
    BY <2>1
  <2> QED BY <2>2, EnqueuePushes, RequeuePushes DEF Pushed, Grounded, Held, TypeOK
<1>4. CASE \E s \in Servers : IntakeStep(s) \/ IntakeFault(s)
  BY <1>1, <1>2, <1>4 DEF IntakeStep, IntakeAnswer, IntakeIter, IntakeEnd, IntakeFetch, IntakeTimeout, IntakeRead,
     IntakeMissing, IntakeFault, storeVars
<1>5. CASE \E s \in Servers : CleanupRequeue(s) \/ CleanupFault(s)
  <2>1. PICK s \in Servers : CleanupRequeue(s) \/ CleanupFault(s)
    BY <1>5
  <2>2. loop[s].pc = "requeue" => run[loop[s].cur].job \in Jobs
    BY LoopCur DEF Grounded
  <2> QED BY <1>1, <1>3, <2>1, <2>2 DEF CleanupRequeue, CleanupFault, storeVars
<1>6. CASE \/ \E r \in Runs : WorkerStep(r) \/ WorkerFault(r)
           \/ \E s \in Servers : \/ HandleCompletedJobs(s) \/ StartJobs(s) \/ StartFault(s)
                                 \/ CleanupWorkers(s) \/ CleanupEnd(s) \/ ShutdownDone(s)
                                 \/ Shutdown(s) \/ Exit(s) \/ Crash(s)
                                 \/ \E r \in Runs : Settle(s, r) \/ CleanupUpdate(s, r)
           \/ UNCHANGED vars
  <2>1. UNCHANGED queue
    BY <1>6 DEF WorkerStep, WorkerStart, WorkerEnd, WorkerFault, HandleCompletedJobs, StartJobs, StartFault,
       CleanupWorkers, CleanupEnd, ShutdownDone, Shutdown, Exit, Crash, Settle, CleanupUpdate,
       UpdateJob, vars, storeVars
  <2> QED BY <1>1, <2>1
<1>7. CASE \E s \in Servers : Finish(s) \/ SettleFault(s)
  <2>1. UNCHANGED queue
    BY <1>7 DEF Finish, SettleFault, SettleEffect, UnsafeDeleteJob, AddToSet, storeVars
  <2> QED BY <1>1, <2>1
<1>8. CASE \E j \in Jobs : Submit(j)
  BY <1>3, <1>8 DEF Submit
<1> QED
  BY <1>4, <1>5, <1>6, <1>7, <1>8 DEF Next, Faults, LoopStep

LEMMA GroundedFree ==
    ASSUME Grounded, [Next]_vars
    PROVE  FreeIsEmpty'
<1>1. CASE \A r \in Runs : \/ run'[r] = FreeRun \/ run'[r].phase # "free" \/ run'[r] = run[r]
  BY <1>1, FreeStaysEmpty DEF Grounded
<1>2. CASE \/ \E j \in Jobs : Submit(j)
           \/ \E s \in Servers : \/ IntakeStep(s) \/ IntakeFault(s)
           \/ UNCHANGED vars
  <2>1. UNCHANGED run \/ \E s \in Servers : \E r \in Runs : IntakeRead(s, r)
    BY <1>2 DEF Submit, IntakeStep, IntakeAnswer, IntakeIter, IntakeEnd, IntakeFetch, IntakeTimeout,
       IntakeMissing, IntakeFault, vars, serverVars
  <2>2. ASSUME NEW s \in Servers, NEW x \in Runs, IntakeRead(s, x)
        PROVE  \A r \in Runs : run'[r].phase # "free" \/ run'[r] = run[r]
    BY <2>2 DEF IntakeRead, Grounded, Held, TypeOK
  <2> QED BY <1>1, <2>1, <2>2
<1>3. CASE \E r \in Runs : WorkerStep(r) \/ WorkerFault(r)
  <2>1. \A r \in Runs : run'[r].phase # "free" \/ run'[r] = run[r]
    <3>1. PICK x \in Runs, phase \in Active : run' = SetPhase({x}, phase)
      BY <1>3 DEF WorkerStep, WorkerStart, WorkerEnd, WorkerFault, Active
    <3>2. "free" \notin Active
      BY DEF Active
    <3>3. \A r \in Runs \ {x} : run'[r] = run[r]
      BY <3>1 DEF SetPhase
    <3> QED BY <3>1, <3>2, <3>3, SetPhaseSame DEF Grounded
  <2> QED BY <1>1, <2>1
<1>4. CASE \E s \in Servers : HandleCompletedJobs(s) \/ StartJobs(s) \/ StartFault(s)
  <2>1. \A r \in Runs : run'[r].phase # "free" \/ run'[r] = run[r]
    BY <1>4 DEF HandleCompletedJobs, StartJobs, StartFault, SetPhase, Grounded, Held, TypeOK, RunType
  <2> QED BY <1>1, <2>1
<1>5. CASE \E s \in Servers : \E r \in Runs : Settle(s, r)
  <2>1. \A r \in Runs : run'[r].phase # "free" \/ run'[r] = run[r]
    BY <1>5, SettleSame DEF Grounded
  <2> QED BY <1>1, <2>1
<1>6. CASE \E s \in Servers : Finish(s) \/ SettleFault(s) \/ Exit(s) \/ Crash(s)
  <2>1. \A r \in Runs : run'[r] = FreeRun \/ run'[r] = run[r]
    BY <1>6 DEF Finish, SettleFault, Exit, Crash, Vanish, Forget
  <2> QED BY <1>1, <2>1
<1>7. CASE \E s \in Servers : CleanupRequeue(s) \/ CleanupFault(s)
  <2>1. PICK s \in Servers : CleanupRequeue(s) \/ CleanupFault(s)
    BY <1>7
  <2>2. CASE UNCHANGED run
    BY <1>1, <2>2
  <2>3. CASE loop[s].pc = "requeue" /\ run' = [run EXCEPT ![loop[s].cur].requeued = TRUE]
    <3>1. loop[s].cur \in Runs /\ run[loop[s].cur].job \in Jobs
      BY <2>3, LoopCur DEF Grounded
    <3>2. run[loop[s].cur].phase # "free"
      BY <3>1, ServerAssumption DEF Grounded, FreeIsEmpty
    <3>3. \A r \in Runs : run'[r].phase = run[r].phase \/ run'[r] = run[r]
      BY <2>3, <3>1 DEF Grounded, Held, TypeOK, RunType
    <3>4. \A r \in Runs \ {loop[s].cur} : run'[r] = run[r]
      BY <2>3 DEF Grounded, Held, TypeOK
    <3> QED BY <1>1, <3>2, <3>3, <3>4
  <2> QED BY <2>1, <2>2, <2>3 DEF CleanupRequeue, CleanupFault
<1>8. CASE \E s \in Servers : \/ CleanupWorkers(s) \/ CleanupEnd(s) \/ ShutdownDone(s) \/ Shutdown(s)
                              \/ \E r \in Runs : CleanupUpdate(s, r)
  BY <1>1, <1>8 DEF CleanupWorkers, CleanupEnd, ShutdownDone, Shutdown, CleanupUpdate
<1> QED
  BY <1>2, <1>3, <1>4, <1>5, <1>6, <1>7, <1>8 DEF Next, Faults, LoopStep

LEMMA GroundedHanded ==
    ASSUME Grounded, [Next]_vars
    PROVE  HandedBack'
<1> DEFINE Gone(s) == loop[s].pc \in {"cleanup", "requeue", "wedged", "ended"}
           NoneNew == \A r \in Runs : run'[r].requeued => run[r].requeued /\ run'[r].at = run[r].at
           LoopsGoOn == \A s \in Servers : Gone(s) => Gone(s)' /\ loop'[s].todo \subseteq loop[s].todo
<1>1. CASE NoneNew /\ LoopsGoOn
  BY <1>1, HandedBackKept DEF Grounded
<1>2. CASE \/ \E j \in Jobs : Submit(j)
           \/ \E s \in Servers : IntakeStep(s) \/ IntakeFault(s)
           \/ UNCHANGED vars
  <2>1. UNCHANGED loop
    BY <1>2 DEF Submit, IntakeStep, IntakeAnswer, IntakeIter, IntakeEnd, IntakeFetch, IntakeTimeout,
       IntakeRead, IntakeMissing, IntakeFault, vars, serverVars
  <2>2. UNCHANGED run \/ \E s \in Servers : \E r \in Runs : IntakeRead(s, r)
    BY <1>2 DEF Submit, IntakeStep, IntakeAnswer, IntakeIter, IntakeEnd, IntakeFetch, IntakeTimeout,
       IntakeMissing, IntakeFault, vars, serverVars
  <2>3. NoneNew
    <3>1. ASSUME NEW s \in Servers, NEW x \in Runs, IntakeRead(s, x) PROVE NoneNew
      BY <3>1 DEF IntakeRead, Grounded, Held, TypeOK
    <3> QED BY <2>2, <3>1
  <2> QED BY <1>1, <2>1, <2>3
<1>3. CASE \E r \in Runs : WorkerStep(r) \/ WorkerFault(r)
  <2>1. UNCHANGED loop /\ \E x, phase : run' = SetPhase({x}, phase)
    BY <1>3 DEF WorkerStep, WorkerStart, WorkerEnd, WorkerFault
  <2>2. NoneNew
    BY <2>1, SetPhaseSame DEF Grounded
  <2> QED BY <1>1, <2>1, <2>2
<1>4. ASSUME NEW s \in Servers,
             \/ HandleCompletedJobs(s) \/ StartJobs(s) \/ StartFault(s)
             \/ Finish(s) \/ SettleFault(s) \/ CleanupWorkers(s)
             \/ \E r \in Runs : Settle(s, r)
      PROVE  HandedBack'
  <2>1. ~Gone(s) /\ \A t \in Servers \ {s} : loop'[t] = loop[t]
    BY <1>4 DEF HandleCompletedJobs, StartJobs, StartFault, Finish, SettleFault, CleanupWorkers, Settle,
       Grounded, Held, TypeOK
  <2>2. LoopsGoOn
    BY <2>1
  <2>3. NoneNew
    <3>1. CASE HandleCompletedJobs(s) \/ StartJobs(s) \/ StartFault(s)
      BY <3>1 DEF HandleCompletedJobs, StartJobs, StartFault, SetPhase, Grounded, Held, TypeOK, RunType
    <3>2. CASE Finish(s) \/ SettleFault(s) \/ CleanupWorkers(s)
      BY <3>2 DEF Finish, SettleFault, CleanupWorkers, Forget, FreeRun
    <3>3. CASE \E r \in Runs : Settle(s, r)
      BY <3>3, SettleSame DEF Grounded
    <3> QED BY <1>4, <3>1, <3>2, <3>3
  <2> QED BY <1>1, <2>2, <2>3
<1>5. ASSUME NEW s \in Servers, CleanupEnd(s) \/ ShutdownDone(s) \/ Shutdown(s) \/ \E r \in Runs : CleanupUpdate(s, r)
      PROVE  HandedBack'
  <2>1. UNCHANGED run
    BY <1>5 DEF CleanupEnd, ShutdownDone, Shutdown, CleanupUpdate
  <2>2. LoopsGoOn
    BY <1>5 DEF CleanupEnd, ShutdownDone, Shutdown, CleanupUpdate, Grounded, Held, TypeOK, LoopType
  <2> QED BY <1>1, <2>1, <2>2
<1>6. ASSUME NEW s \in Servers, Exit(s) \/ Crash(s)
      PROVE  HandedBack'
  <2>1. \A r \in Runs : run'[r].requeued => run'[r] = run[r]
    BY <1>6 DEF Exit, Crash, Vanish, Forget, FreeRun
  <2>2. LoopsGoOn
    BY <1>6 DEF Exit, Crash, Vanish, IdleLoop, Grounded, Held, TypeOK, LoopType
  <2> QED BY <1>1, <2>1, <2>2
<1>7. ASSUME NEW s \in Servers, CleanupRequeue(s) \/ CleanupFault(s)
      PROVE  HandedBack'
  <2> DEFINE x == loop[s].cur
  <2>1. /\ Gone(s)' /\ \A t \in Servers \ {s} : loop'[t] = loop[t]
        /\ loop'[s].todo \subseteq loop[s].todo
    BY <1>7 DEF CleanupRequeue, CleanupFault, Grounded, Held, TypeOK, LoopType
  <2>2. CASE UNCHANGED run
    BY <1>1, <2>1, <2>2
  <2>3. CASE /\ loop[s].pc = "requeue" /\ x \notin loop'[s].todo
             /\ run' = [run EXCEPT ![x].requeued = TRUE]
    <3>1. x \in Runs /\ run[x].at = s
      BY <2>3, LoopCur DEF Grounded
    <3>2. run'[x].at = s
      BY <2>3, <3>1 DEF Grounded, Held, TypeOK, RunType
    <3>3. \A r \in Runs \ {x} : run'[r] = run[r]
      BY <2>3 DEF Grounded, Held, TypeOK
    <3> HIDE DEF x
    <3> QED BY <2>1, <2>3, <3>1, <3>2, <3>3 DEF Grounded, HandedBack
  <2>4. x \notin loop'[s].todo
    BY <1>7 DEF CleanupRequeue, CleanupFault, Grounded, Held, TypeOK
  <2> QED BY <1>7, <2>2, <2>3, <2>4 DEF CleanupRequeue, CleanupFault
<1> QED
  BY <1>2, <1>3, <1>4, <1>5, <1>6, <1>7 DEF Next, Faults, LoopStep

LEMMA GroundedInit == Init => Grounded
BY HeldInit DEF Init, StoreInit, Grounded, QueuesSorted, FreeIsEmpty, FreeRun, HandedBack

LEMMA GroundedNext == Grounded /\ [Next]_vars => Grounded'
BY HeldNext, GroundedQueues, GroundedFree, GroundedHanded DEF Grounded

-----------------------------------------------------------------------------
(* Custody is inductive. *)

\* completed grows where a worker is settled, submitted where a client submits.
LEMMA HistorySteps ==
    ASSUME [Next]_vars
    PROVE  /\ completed' = completed \/ \E s \in Servers : Finish(s) \/ SettleFault(s)
           /\ submitted' = submitted \/ \E j \in Jobs : Submit(j) /\ submitted' = submitted \cup {j}
<1>1. CASE \E s \in Servers : IntakeStep(s) \/ IntakeFault(s)
  BY <1>1 DEF IntakeStep, IntakeAnswer, IntakeIter, IntakeEnd, IntakeFetch, IntakeTimeout, IntakeRead,
     IntakeMissing, IntakeFault, history
<1>2. CASE \E r \in Runs : WorkerStep(r) \/ WorkerFault(r)
  BY <1>2 DEF WorkerStep, WorkerStart, WorkerEnd, WorkerFault, history
<1>3. CASE \E s \in Servers : \/ HandleCompletedJobs(s) \/ StartJobs(s) \/ StartFault(s)
                              \/ CleanupWorkers(s) \/ CleanupEnd(s) \/ ShutdownDone(s) \/ Shutdown(s)
                              \/ CleanupRequeue(s) \/ CleanupFault(s) \/ Exit(s) \/ Crash(s)
                              \/ \E r \in Runs : Settle(s, r) \/ CleanupUpdate(s, r)
  BY <1>3 DEF HandleCompletedJobs, StartJobs, StartFault, CleanupWorkers, CleanupEnd, ShutdownDone,
     Shutdown, CleanupRequeue, CleanupFault, Exit, Crash, Settle, CleanupUpdate, history
<1>4. CASE \E s \in Servers : Finish(s) \/ SettleFault(s)
  BY <1>4 DEF Finish, SettleFault
<1>5. CASE UNCHANGED vars
  BY <1>5 DEF vars, serverVars
<1>6. CASE \E j \in Jobs : Submit(j)
  BY <1>6 DEF Submit
<1> QED BY <1>1, <1>2, <1>3, <1>4, <1>5, <1>6 DEF Next, Faults, LoopStep

\* What every step of the servers does to the custody of every job.
LEMMA CustodyStep ==
    ASSUME Grounded, [Next]_vars, NEW k \in Jobs
    PROVE  /\ k \notin submitted' \ submitted => Passes(k)
           /\ k \in submitted' \ submitted => (Unheld(k) => Alone(k)')
           /\ k \in completed' \ completed => ~Unheld(k) /\ (Alone(k) => Unheld(k)')
<1>1. k \in completed' \ completed => ~Unheld(k) /\ (Alone(k) => Unheld(k)')
  BY HistorySteps, CustodyFinish, CustodySettleFault
<1>2. ASSUME NEW j \in Jobs, Submit(j)
      PROVE  /\ k \notin submitted' \ submitted => Passes(k)
             /\ k \in submitted' \ submitted => (Unheld(k) => Alone(k)')
  <2>1. submitted' \ submitted = {j}
    BY <1>2 DEF Submit
  <2> QED BY <1>2, <2>1, CustodySubmit DEF Keeps
<1>3. ASSUME ~\E j \in Jobs : Submit(j)
      PROVE  Passes(k) /\ submitted' = submitted
  <2>1. submitted' = submitted
    BY <1>3, HistorySteps
  <2> SUFFICES Passes(k)
    BY <2>1
  <2>2. ASSUME NEW s \in Servers, IntakeStep(s) \/ IntakeFault(s) PROVE Passes(k)
    <3>1. CASE IntakeIter(s) \/ IntakeEnd(s) \/ IntakeTimeout(s)
      BY <3>1, CustodyIntakeQuiet DEF Keeps
    <3>2. CASE \E q \in Queues : IntakeFetch(s, q)
      BY <3>2, CustodyIntakeFetch DEF Keeps
    <3>3. CASE \E r \in Runs : IntakeRead(s, r)
      BY <3>3, CustodyIntakeRead DEF Keeps
    <3>4. CASE IntakeMissing(s) \/ IntakeFault(s)
      BY <3>4, CustodyIntakeMissing, CustodyIntakeFault
    <3> QED BY <2>2, <3>1, <3>2, <3>3, <3>4 DEF IntakeStep, IntakeAnswer
  <2>3. CASE \/ \E r \in Runs : WorkerStep(r) \/ WorkerFault(r)
             \/ \E s \in Servers : HandleCompletedJobs(s) \/ StartJobs(s) \/ StartFault(s)
    BY <2>3, CustodyRunsOnly DEF Keeps
  <2>4. CASE \/ UNCHANGED vars
             \/ \E s \in Servers : \/ CleanupWorkers(s) \/ CleanupEnd(s) \/ ShutdownDone(s) \/ Shutdown(s)
                                   \/ \E r \in Runs : CleanupUpdate(s, r)
    BY <2>4, CustodyIdle DEF Keeps
  <2>5. CASE \E s \in Servers : \/ Finish(s) \/ SettleFault(s) \/ CleanupRequeue(s) \/ CleanupFault(s)
                                \/ Exit(s) \/ Crash(s) \/ \E r \in Runs : Settle(s, r)
    BY <2>5, CustodyFinish, CustodySettleFault, CustodyCleanup, CustodyVanish, CustodySettle DEF Keeps
  <2> QED BY <1>3, <2>1, <2>2, <2>3, <2>4, <2>5 DEF Next, Faults, LoopStep
<1> QED BY <1>1, <1>2, <1>3

\* A payload is deleted with the completion of its job only.
LEMMA PayloadKept ==
    ASSUME Grounded, [Next]_vars, NEW k \in Jobs
    PROVE  \/ k \in completed'
           \/ k \in submitted' \ submitted /\ stored'[k] # NoPayload
           \/ k \notin submitted' \ submitted /\ (stored'[k] = stored[k] \/ stored'[k] # NoPayload)
<1> DEFINE Written == stored'[k] = stored[k] \/ stored'[k] # NoPayload
<1>1. NoPayload \notin Nat /\ StoreTypeOK
  BY StoreAssumption DEF Grounded, Held, TypeOK
<1>2. ASSUME NEW j \in Jobs, NEW n \in Nat, UpdateJob(j, n) \/ Requeue(j, n) \/ \E z \in SetNames : AddToSet(z, j, n)
      PROVE  Written
  BY <1>1, <1>2 DEF StoreTypeOK, UpdateJob, Requeue, AddToSet
<1>3. ASSUME NEW j \in Jobs, Submit(j)
      PROVE  Written /\ (k \in submitted' \ submitted => stored'[k] # NoPayload)
  BY <1>1, <1>3 DEF Submit, Enqueue, StoreTypeOK
<1>4. ASSUME NEW s \in Servers, IntakeStep(s) \/ IntakeFault(s) PROVE Written
  BY <1>4 DEF IntakeStep, IntakeAnswer, IntakeIter, IntakeEnd, IntakeFetch, IntakeTimeout, IntakeRead,
     IntakeMissing, IntakeFault, Pop, storeVars
<1>5. ASSUME NEW r \in Runs, WorkerStep(r) \/ WorkerFault(r) PROVE Written
  <2>1. run[r].job \in Jobs /\ run[r].retry \in Nat
    BY <1>5, HeldRun DEF WorkerStep, WorkerStart, WorkerEnd, WorkerFault, Grounded
  <2>2. UNCHANGED stored \/ UpdateJob(run[r].job, run[r].retry)
    BY <1>5 DEF WorkerStep, WorkerStart, WorkerEnd, WorkerFault, storeVars
  <2> QED BY <1>2, <2>1, <2>2
<1>6. ASSUME NEW s \in Servers, NEW r \in Runs, Settle(s, r) \/ CleanupUpdate(s, r) PROVE Written
  <2>1. run[r].phase # "free"
    BY <1>6 DEF Settle, CleanupUpdate, Grounded, Held, LoopOwns, RunsOf, Active
  <2>2. run[r].job \in Jobs /\ run[r].retry \in Nat
    BY <2>1, HeldRun DEF Grounded
  <2>3. UpdateJob(run[r].job, run[r].retry) \/ UpdateJob(run[r].job, run[r].retry + 1)
    BY <1>6 DEF Settle, CleanupUpdate
  <2>4. run[r].retry + 1 \in Nat
    BY <2>2
  <2> QED BY <1>2, <2>2, <2>3, <2>4
<1>7. ASSUME NEW s \in Servers, Finish(s) \/ SettleFault(s) PROVE Written \/ k \in completed'
  <2> DEFINE r == loop[s].cur
  <2>1. CASE UNCHANGED storeVars
    BY <2>1 DEF storeVars
  <2>2. CASE loop[s].pc = "finish" /\ SettleEffect(r)
    <3>1. r \in Runs /\ run[r].job \in Jobs /\ run[r].retry \in Nat
      BY <2>2, LoopCur DEF Grounded
    <3>2. \/ UnsafeDeleteJob(run[r].job) /\ run[r].job \in completed'
          \/ \E z \in SetNames : AddToSet(z, run[r].job, run[r].retry)
      BY <2>2 DEF SettleEffect, SetNames
    <3>3. CASE UnsafeDeleteJob(run[r].job) /\ run[r].job \in completed'
      BY <1>1, <3>1, <3>3 DEF UnsafeDeleteJob, StoreTypeOK
    <3> HIDE DEF r
    <3> QED BY <1>2, <3>1, <3>2, <3>3
  <2> QED BY <1>7, <2>1, <2>2 DEF Finish, SettleFault
<1>8. ASSUME NEW s \in Servers, CleanupRequeue(s) \/ CleanupFault(s) PROVE Written
  <2> DEFINE r == loop[s].cur
  <2>1. UNCHANGED stored \/ (loop[s].pc = "requeue" /\ Requeue(run[r].job, run[r].retry))
    BY <1>8 DEF CleanupRequeue, CleanupFault, storeVars
  <2>2. loop[s].pc = "requeue" => run[r].job \in Jobs /\ run[r].retry \in Nat
    BY LoopCur DEF Grounded
  <2> HIDE DEF r
  <2> QED BY <1>2, <2>1, <2>2
<1>9. ASSUME \/ UNCHANGED vars
             \/ \E s \in Servers : \/ HandleCompletedJobs(s) \/ StartJobs(s) \/ StartFault(s)
                                   \/ CleanupWorkers(s) \/ CleanupEnd(s) \/ ShutdownDone(s)
                                   \/ Shutdown(s) \/ Exit(s) \/ Crash(s)
      PROVE  Written
  BY <1>9 DEF vars, HandleCompletedJobs, StartJobs, StartFault, CleanupWorkers, CleanupEnd, ShutdownDone,
     Shutdown, Exit, Crash, storeVars
<1>10. Written \/ k \in completed'
  BY <1>3, <1>4, <1>5, <1>6, <1>7, <1>8, <1>9 DEF Next, Faults, LoopStep
<1>11. k \in submitted' \ submitted => stored'[k] # NoPayload
  BY <1>3, HistorySteps
<1> QED BY <1>10, <1>11

LEMMA CustodyInit == Init => Custody
<1> SUFFICES ASSUME Init PROVE Custody
  OBVIOUS
<1>1. \A j \in Jobs : Unheld(j)
  BY StoreAssumption, ServerAssumption DEF Init, StoreInit, SetNames, IdleIntake, FreeRun, Unheld, InQueue, InSet, IntakesOf,
     BearersOf
<1>2. \A j \in Jobs : Alone(j)
  BY <1>1 DEF Unheld, Alone, AtMostOne
<1> QED BY <1>1, <1>2, GroundedInit DEF Init, Custody, HeldIsPending, PendingHasPayload

LEMMA CustodyNext == Custody /\ [Next]_vars => Custody'
<1> SUFFICES ASSUME Custody, [Next]_vars PROVE Custody'
  OBVIOUS
<1>1. Grounded /\ Grounded'
  BY GroundedNext DEF Custody
<1>2. submitted \subseteq submitted' /\ submitted' \subseteq Jobs /\ completed' \subseteq Jobs
  BY <1>1, HistorySteps DEF Grounded, Held, TypeOK
<1>3. completed \subseteq completed'
  <2>1. ASSUME NEW s \in Servers, Finish(s) \/ SettleFault(s) PROVE completed \subseteq completed'
    BY <2>1 DEF Finish, SettleFault, SettleEffect
  <2> QED BY <2>1, HistorySteps
<1>4. ASSUME NEW k \in Jobs
      PROVE  /\ Alone(k)'
             /\ k \notin submitted' \/ k \in completed' => Unheld(k)'
             /\ k \in completed' => k \in submitted'
             /\ k \in submitted' \ completed' => stored'[k] # NoPayload
  <2>1. /\ Alone(k) /\ (k \notin submitted \/ k \in completed => Unheld(k))
        /\ k \in completed => k \in submitted
        /\ k \in submitted \ completed => stored[k] # NoPayload
    BY DEF Custody, HeldIsPending, PendingHasPayload
  <2>2. /\ k \notin submitted' \ submitted => Passes(k)
        /\ k \in submitted' \ submitted => (Unheld(k) => Alone(k)')
        /\ k \in completed' \ completed => ~Unheld(k) /\ (Alone(k) => Unheld(k)')
    BY <1>1, CustodyStep
  <2>3. /\ k \in submitted \ completed' => stored'[k] # NoPayload
        /\ k \in submitted' \ submitted /\ k \notin completed' => stored'[k] # NoPayload
    BY <1>1, <1>3, <2>1, PayloadKept
  <2> QED BY <1>2, <1>3, <2>1, <2>2, <2>3 DEF Passes
<1> QED BY <1>1, <1>2, <1>4 DEF Custody, HeldIsPending, PendingHasPayload

\* The custodians of a job are none, or one, as its places say.
LEMMA CustodiansOfPlaces ==
    ASSUME NEW j \in Jobs
    PROVE  /\ Custodians(j) = {} <=> Unheld(j)
           /\ Alone(j) => AtMostOne(Custodians(j))
<1>1. Custodians(j) = {<<"queue", i>> : i \in InQueue(j)} \cup {<<"set", z>> : z \in InSet(j)}
        \cup {<<"intake", s>> : s \in IntakesOf(j)} \cup {<<"run", r>> : r \in BearersOf(j)}
  BY DEF Custodians, IntakesOf, BearersOf
<1>2. Custodians(j) = {} <=> Unheld(j)
  BY <1>1 DEF Unheld
<1>3. ASSUME Alone(j), NEW x \in Custodians(j), NEW y \in Custodians(j) PROVE x = y
  <2>1. \/ InQueue(j) # {} /\ Custodians(j) = {<<"queue", i>> : i \in InQueue(j)}
        \/ InSet(j) # {} /\ Custodians(j) = {<<"set", z>> : z \in InSet(j)}
        \/ IntakesOf(j) # {} /\ Custodians(j) = {<<"intake", s>> : s \in IntakesOf(j)}
        \/ BearersOf(j) # {} /\ Custodians(j) = {<<"run", r>> : r \in BearersOf(j)}
    <3>1. InQueue(j) # {} \/ InSet(j) # {} \/ IntakesOf(j) # {} \/ BearersOf(j) # {}
      BY <1>2, <1>3 DEF Unheld
    <3>2. CASE InQueue(j) # {}
      BY <1>1, <1>3, <3>2 DEF Alone
    <3>3. CASE InQueue(j) = {} /\ InSet(j) # {}
      BY <1>1, <1>3, <3>3 DEF Alone
    <3>4. CASE InQueue(j) = {} /\ InSet(j) = {} /\ IntakesOf(j) # {}
      BY <1>1, <1>3, <3>4 DEF Alone
    <3>5. CASE InQueue(j) = {} /\ InSet(j) = {} /\ IntakesOf(j) = {} /\ BearersOf(j) # {}
      BY <1>1, <1>3, <3>5 DEF Alone
    <3> QED BY <3>1, <3>2, <3>3, <3>4, <3>5
  <2>2. ASSUME NEW kind, NEW S, AtMostOne(S), Custodians(j) = {<<kind, a>> : a \in S} PROVE x = y
    BY <1>3, <2>2 DEF AtMostOne
  <2>3. AtMostOne(InQueue(j)) /\ AtMostOne(InSet(j)) /\ AtMostOne(IntakesOf(j)) /\ AtMostOne(BearersOf(j))
    BY <1>3 DEF Alone
  <2> QED BY <2>1, <2>2, <2>3
<1> QED BY <1>2, <1>3 DEF AtMostOne

LEMMA OneAtMost ==
    ASSUME NEW S, AtMostOne(S)
    PROVE  Cardinality(S) <= 1
<1>1. CASE S = {}
  BY <1>1, FS_EmptySet
<1>2. CASE S # {}
  <2>1. PICK x \in S : S = {x}
    BY <1>2 DEF AtMostOne
  <2>2. Cardinality({x}) = 1
    BY FS_Singleton
  <2> QED BY <2>1, <2>2
<1> QED BY <1>1, <1>2

\* No job is ever in two hands: not while one loop fetches and the other
\* settles, not when workers are handed back in a shutdown and their handlers
\* go on, and not when processes die or calls fail at any point.
THEOREM CustodyIsSingle == Spec => []SingleCustody
<1>1. Custody => SingleCustody
  BY CustodiansOfPlaces, OneAtMost DEF Custody, SingleCustody
<1> QED BY CustodyInit, CustodyNext, <1>1, PTL DEF Spec

\* A job that waits in a queue or a set has its payload.
THEOREM WaitingJobsHavePayload == Spec => []WaitingHasPayload
<1>1. Custody => WaitingHasPayload
  <2> SUFFICES ASSUME Custody, NEW j \in Jobs, InRedis(j) PROVE stored[j] # NoPayload
    BY DEF WaitingHasPayload
  <2>1. ~Unheld(j)
    BY DEF InRedis, Unheld
  <2>2. j \in submitted \ completed
    BY <2>1 DEF Custody, HeldIsPending
  <2> QED BY <2>2 DEF Custody, PendingHasPayload
<1> QED BY CustodyInit, CustodyNext, <1>1, PTL DEF Spec

-----------------------------------------------------------------------------
(* Nothing is lost while nothing stops or fails. *)

\* What a step may take from the bounds, and what it may do to a process
\* without taking any.
LEMMA BudgetSteps ==
    ASSUME TypeOK, [Next]_vars
    PROVE  \/ \E b \in Budgets : Spend(b)
           \/ UNCHANGED budget /\ \A s \in Servers : proc[s] = "up" => proc'[s] = "up"
<1>1. CASE \/ \E j \in Jobs : Submit(j)
           \/ \E r \in Runs : WorkerStep(r)
           \/ \E s \in Servers : IntakeStep(s)
           \/ UNCHANGED vars
  BY <1>1 DEF Submit, WorkerStep, WorkerStart, WorkerEnd, IntakeStep, IntakeAnswer, IntakeIter, IntakeEnd,
     IntakeFetch, IntakeTimeout, IntakeRead, IntakeMissing, vars, serverVars
<1>2. CASE \E s \in Servers : LoopStep(s) \/ Exit(s)
  <2>1. UNCHANGED budget
    BY <1>2 DEF LoopStep, HandleCompletedJobs, Settle, Finish, StartJobs, CleanupWorkers, CleanupUpdate,
       CleanupRequeue, CleanupEnd, ShutdownDone, Exit
  <2>2. \A s \in Servers : proc[s] = "up" => proc'[s] = "up"
    BY <1>2 DEF LoopStep, HandleCompletedJobs, Settle, Finish, StartJobs, CleanupWorkers, CleanupUpdate,
       CleanupRequeue, CleanupEnd, ShutdownDone, Exit, Vanish, TypeOK
  <2> QED BY <2>1, <2>2
<1>3. CASE \E s \in Servers : Shutdown(s) \/ Crash(s)
  BY <1>3 DEF Shutdown, Crash, Budgets
<1>4. CASE Faults
  BY <1>4 DEF Faults, IntakeFault, SettleFault, StartFault, CleanupFault, WorkerFault, Budgets
<1> QED BY <1>1, <1>2, <1>3, <1>4 DEF Next

LEMMA SpendingDisturbs ==
    ASSUME TypeOK, Charged, NEW b \in Budgets, Spend(b)
    PROVE  ~Undisturbed' /\ Charged'
<1>1. b \in {"shutdown", "crash", "fault"} /\ budget[b] \in Nat /\ budget'[b] = budget[b] - 1
  BY DEF TypeOK, Spend, Budgets
<1>2. \A c \in Budgets \ {b} : budget'[c] = budget[c]
  BY DEF TypeOK, Spend
<1>3. {MaxShutdowns, MaxCrashes, MaxFaults} \subseteq Nat /\ \A c \in Budgets : budget[c] \in Nat
  BY ServerAssumption DEF TypeOK
<1>4. /\ budget'["shutdown"] <= MaxShutdowns /\ budget'["crash"] <= MaxCrashes /\ budget'["fault"] <= MaxFaults
      /\ budget'["shutdown"] < MaxShutdowns \/ budget'["crash"] < MaxCrashes \/ budget'["fault"] < MaxFaults
  BY <1>1, <1>2, <1>3 DEF Charged, Budgets
<1>5. ~Undisturbed'
  <2> SUFFICES ASSUME Undisturbed' PROVE FALSE
    OBVIOUS
  <2>1. /\ budget'["shutdown"] = MaxShutdowns /\ budget'["crash"] = MaxCrashes
        /\ budget'["fault"] = MaxFaults
    BY DEF Undisturbed, Budgets
  <2> QED BY <1>3, <1>4, <2>1
<1> QED BY <1>4, <1>5 DEF Charged

LEMMA ChargedInit == Init => Charged
<1>1. Init => /\ budget["shutdown"] = MaxShutdowns /\ budget["crash"] = MaxCrashes
              /\ budget["fault"] = MaxFaults
  BY DEF Init, Budgets
<1>2. MaxShutdowns <= MaxShutdowns /\ MaxCrashes <= MaxCrashes /\ MaxFaults <= MaxFaults
  BY ServerAssumption
<1>3. Init => \A s \in Servers : proc[s] = "up"
  BY DEF Init
<1> QED BY <1>1, <1>2, <1>3 DEF Charged

LEMMA ChargedNext == TypeOK /\ Charged /\ [Next]_vars => Charged'
<1> SUFFICES ASSUME TypeOK, Charged, [Next]_vars PROVE Charged'
  OBVIOUS
<1>1. CASE \E b \in Budgets : Spend(b)
  BY <1>1, SpendingDisturbs
<1>2. CASE UNCHANGED budget /\ \A s \in Servers : proc[s] = "up" => proc'[s] = "up"
  BY <1>2 DEF Charged, Undisturbed
<1> QED BY <1>1, <1>2, BudgetSteps

\* Servers that are up keep every job that has a payload, or complete it.
LEMMA KeepsOrCompletes ==
    ASSUME Grounded, [Next]_vars, ~\E b \in Budgets : Spend(b), \A s \in Servers : proc[s] = "up",
           NEW k \in Jobs, HasPayload(k), k \notin submitted' \ submitted
    PROVE  Keeps(k) \/ k \in completed'
<1>1. "fault" \in Budgets /\ "shutdown" \in Budgets /\ "crash" \in Budgets
  BY DEF Budgets
<1>2. ASSUME NEW j \in Jobs, Submit(j) PROVE Keeps(k)
  <2>1. submitted' \ submitted = {j}
    BY <1>2 DEF Submit
  <2> QED BY <1>2, <2>1, CustodySubmit
<1>3. ASSUME NEW s \in Servers, IntakeStep(s) PROVE Keeps(k)
  BY <1>3, CustodyIntakeQuiet, CustodyIntakeFetch, CustodyIntakeRead, CustodyIntakeMissing
  DEF IntakeStep, IntakeAnswer
<1>4. ASSUME NEW s \in Servers, LoopStep(s) PROVE Keeps(k) \/ k \in completed'
  BY <1>4, CustodyRunsOnly, CustodySettle, CustodyFinish, CustodyIdle, CustodyCleanup DEF LoopStep
<1>5. ASSUME NEW r \in Runs, WorkerStep(r) PROVE Keeps(k)
  BY <1>5, CustodyRunsOnly
<1>6. ~Faults /\ ~\E s \in Servers : Shutdown(s) \/ Exit(s) \/ Crash(s)
  BY <1>1 DEF Faults, IntakeFault, SettleFault, StartFault, CleanupFault, WorkerFault, Shutdown, Exit, Crash
<1>7. UNCHANGED vars => Keeps(k)
  BY CustodyIdle
<1> QED BY <1>2, <1>3, <1>4, <1>5, <1>6, <1>7 DEF Next

LEMMA NothingLostNext == Custody /\ Charged /\ NothingLost /\ [Next]_vars => NothingLost'
<1> SUFFICES ASSUME Custody, Charged, NothingLost, [Next]_vars, Undisturbed',
                    NEW j \in submitted' \ completed'
             PROVE  ~Unheld(j)'
  BY DEF NothingLost
<1>1. Grounded /\ TypeOK /\ Custody'
  BY CustodyNext DEF Custody, Grounded, Held
<1>2. ~(\E b \in Budgets : Spend(b)) /\ UNCHANGED budget
  BY <1>1, SpendingDisturbs, BudgetSteps
<1>3. \A s \in Servers : proc[s] = "up"
  BY <1>2 DEF Charged, Undisturbed
<1>4. j \in Jobs
  BY <1>1 DEF Custody, Grounded, Held, TypeOK
<1>5. CASE j \in submitted' \ submitted
  <2>1. Submit(j)
    BY <1>5, HistorySteps
  <2>2. Unheld(j)
    BY <1>4, <1>5 DEF Custody, HeldIsPending
  <2> QED BY <1>1, <1>4, <2>1, <2>2, CustodySubmit
<1>6. CASE j \in submitted
  <2>1. j \notin completed
    <3>1. ASSUME NEW s \in Servers, Finish(s) \/ SettleFault(s) PROVE completed \subseteq completed'
      BY <3>1 DEF Finish, SettleFault, SettleEffect
    <3> QED BY <3>1, HistorySteps
  <2>2. HasPayload(j) /\ ~Unheld(j)
    BY <1>2, <1>6, <2>1 DEF Custody, PendingHasPayload, HasPayload, NothingLost, Undisturbed
  <2>3. Keeps(j)
    BY <1>1, <1>2, <1>3, <1>4, <1>6, <2>2, KeepsOrCompletes
  <2> QED BY <2>2, <2>3 DEF Keeps
<1> QED BY <1>5, <1>6

\* Until a process is told to stop, dies or has a call fail, the two loops of
\* every server lose no job: one that is not completed is somewhere, and one
\* that is completed is nowhere.
THEOREM JobsAreAccounted == Spec => []JobsAccounted
<1>1. Init => Custody /\ Charged /\ NothingLost
  <2>1. Init => NothingLost
    BY DEF Init, NothingLost
  <2> QED BY <2>1, ChargedInit, CustodyInit
<1>2. Custody /\ Charged /\ NothingLost /\ [Next]_vars => Custody' /\ Charged' /\ NothingLost'
  BY CustodyNext, ChargedNext, NothingLostNext DEF Custody, Grounded, Held
<1>3. Custody /\ NothingLost => JobsAccounted
  <2> SUFFICES ASSUME Custody, NothingLost, Undisturbed, NEW j \in submitted
               PROVE  j \in completed <=> Custodians(j) = {}
    BY DEF JobsAccounted
  <2>1. j \in Jobs /\ (j \in completed => Unheld(j)) /\ (j \notin completed => ~Unheld(j))
    BY DEF Custody, Grounded, Held, TypeOK, HeldIsPending, NothingLost
  <2> QED BY <2>1, CustodiansOfPlaces
<1> QED BY <1>1, <1>2, <1>3, PTL DEF Spec

-----------------------------------------------------------------------------
(* A shutdown hands back what is being executed. *)

Executing == {"starting", "performing", "leaked"}

\* A step of no loop in its cleanup, after which no server executes anything
\* it did not execute before.
LEMMA CoverKept ==
    ASSUME CleanupCovers, UNCHANGED proc,
           \A s \in Servers :
                \/ loop'[s] = loop[s]
                \/ /\ loop[s].pc \in {"top", "settle", "finish"}
                   /\ loop'[s].pc \in {"top", "settle", "finish"},
           \A s \in Servers : loop'[s].pc \notin {"top", "settle", "finish"} =>
                \A r \in RunsOf(s, Executing)' : r \in RunsOf(s, Executing) /\ run'[r].requeued = run[r].requeued
    PROVE  CleanupCovers'
<1> SUFFICES ASSUME NEW s \in Servers
             PROVE  /\ loop'[s].pc \in {"cleanup", "requeue", "ended"} =>
                          \A r \in RunsOf(s, Executing)' : run'[r].requeued \/ r \in loop'[s].todo
                    /\ proc'[s] = "stopped" => loop'[s].pc = "ended"
  BY DEF CleanupCovers, Executing
<1> QED BY DEF CleanupCovers, Executing

LEMMA CoverNext == Grounded /\ CleanupCovers /\ [Next]_vars => CleanupCovers'
<1> SUFFICES ASSUME Grounded, CleanupCovers, [Next]_vars PROVE CleanupCovers'
  OBVIOUS
<1> DEFINE Covered(s) == /\ loop'[s].pc \in {"cleanup", "requeue", "ended"} =>
                                \A r \in RunsOf(s, Executing)' : run'[r].requeued \/ r \in loop'[s].todo
                         /\ proc'[s] = "stopped" => loop'[s].pc = "ended"
           Fewer == \A s \in Servers :
                        \A r \in RunsOf(s, Executing)' :
                                r \in RunsOf(s, Executing) /\ run'[r].requeued = run[r].requeued
<1>1. (\A s \in Servers : Covered(s)) => CleanupCovers'
  BY DEF CleanupCovers, Executing
<1>2. CASE \/ UNCHANGED vars
           \/ \E j \in Jobs : Submit(j)
           \/ \E s \in Servers : IntakeStep(s) \/ IntakeFault(s)
  <2>1. UNCHANGED <<loop, proc>>
    BY <1>2 DEF Submit, IntakeStep, IntakeAnswer, IntakeIter, IntakeEnd, IntakeFetch, IntakeTimeout,
       IntakeRead, IntakeMissing, IntakeFault, vars, serverVars
  <2>2. UNCHANGED run \/ \E s \in Servers : \E r \in Runs : IntakeRead(s, r)
    BY <1>2 DEF Submit, IntakeStep, IntakeAnswer, IntakeIter, IntakeEnd, IntakeFetch, IntakeTimeout,
       IntakeMissing, IntakeFault, vars, serverVars
  <2>3. Fewer
    <3>1. CASE UNCHANGED run
      BY <3>1 DEF RunsOf
    <3>2. ASSUME NEW s \in Servers, NEW x \in Runs, IntakeRead(s, x) PROVE Fewer
      <4>1. run'[x].phase = "toStart" /\ \A r \in Runs \ {x} : run'[r] = run[r]
        BY <3>2 DEF IntakeRead, Grounded, Held, TypeOK
      <4> QED BY <4>1 DEF RunsOf, Executing
    <3> QED BY <2>2, <3>1, <3>2
  <2> QED BY <2>1, <2>3, CoverKept
<1>3. CASE \E r \in Runs : WorkerStep(r) \/ WorkerFault(r)
  <2>1. UNCHANGED <<loop, proc>>
    BY <1>3 DEF WorkerStep, WorkerStart, WorkerEnd, WorkerFault
  <2>2. PICK x \in Runs, phase \in Active : run' = SetPhase({x}, phase) /\ run[x].phase \in Executing
    BY <1>3 DEF WorkerStep, WorkerStart, WorkerEnd, WorkerFault, Active, Executing
  <2>3. Fewer
    <3>1. \A r \in Runs : /\ run'[r].at = run[r].at /\ run'[r].requeued = run[r].requeued
                          /\ run'[r].phase = run[r].phase \/ run[r].phase \in Executing
      BY <2>2, SetPhaseSame DEF Grounded
    <3> QED BY <3>1 DEF RunsOf
  <2> QED BY <2>1, <2>3, CoverKept
<1>4. ASSUME NEW s \in Servers,
             \/ HandleCompletedJobs(s) \/ Finish(s) \/ SettleFault(s) \/ StartJobs(s) \/ StartFault(s)
             \/ \E r \in Runs : Settle(s, r)
      PROVE  CleanupCovers'
  <2>1. UNCHANGED proc
    BY <1>4 DEF HandleCompletedJobs, Finish, SettleFault, StartJobs, StartFault, Settle
  <2>2. /\ loop[s].pc \in {"top", "settle", "finish"} /\ loop'[s].pc \in {"top", "settle", "finish"}
        /\ \A t \in Servers \ {s} : loop'[t] = loop[t]
    <3>1. PICK l : loop' = [loop EXCEPT ![s] = l] /\ l.pc \in {"top", "settle", "finish"}
      BY <1>4 DEF HandleCompletedJobs, Finish, SettleFault, StartJobs, StartFault, Settle, IdleLoop
    <3>2. loop[s].pc \in {"top", "settle", "finish"}
      BY <1>4 DEF HandleCompletedJobs, Finish, SettleFault, StartJobs, StartFault, Settle
    <3> QED BY <3>1, <3>2 DEF Grounded, Held, TypeOK
  <2>3. ASSUME NEW t \in Servers \ {s}, NEW r \in RunsOf(t, Executing)'
        PROVE  r \in RunsOf(t, Executing) /\ run'[r].requeued = run[r].requeued
    <3>1. CASE HandleCompletedJobs(s) \/ StartJobs(s) \/ StartFault(s)
      BY <2>3, <3>1 DEF HandleCompletedJobs, StartJobs, StartFault, SetPhase, RunsOf, Grounded, Held, TypeOK, RunType
    <3>2. CASE Finish(s) \/ SettleFault(s)
      <4>1. r \in Runs /\ run'[r].phase # "free"
        BY <2>3 DEF RunsOf, Executing
      <4>2. run'[r] = run[r]
        BY <3>2, <4>1 DEF Finish, SettleFault, Forget, FreeRun
      <4> QED BY <2>3, <4>2 DEF RunsOf
    <3>3. CASE \E x \in Runs : Settle(s, x)
      <4>1. PICK x \in Runs : Settle(s, x)
        BY <3>3
      <4>2. r \in Runs /\ run'[r].at = t /\ run'[r].phase \in Executing
        BY <2>3 DEF RunsOf
      <4>3. run'[r] = run[r]
        BY <4>1, <4>2, SettleSame DEF Grounded, Executing
      <4> QED BY <4>2, <4>3 DEF RunsOf
    <3> QED BY <1>4, <3>1, <3>2, <3>3
  <2> QED BY <2>1, <2>2, <2>3, CoverKept
<1>5. ASSUME NEW s \in Servers, NEW t \in Servers,
             CleanupWorkers(s) \/ CleanupEnd(s) \/ ShutdownDone(s) \/ Shutdown(s) \/ \E r \in Runs : CleanupUpdate(s, r)
      PROVE  Covered(t)
  <2>1. UNCHANGED run /\ RunsOf(t, Executing)' = RunsOf(t, Executing)
    BY <1>5 DEF CleanupWorkers, CleanupEnd, ShutdownDone, Shutdown, CleanupUpdate, RunsOf
  <2>2. CASE t # s \/ UNCHANGED loop
    BY <1>5, <2>1, <2>2 DEF CleanupCovers, CleanupWorkers, CleanupEnd, ShutdownDone, Shutdown, CleanupUpdate,
       Executing, Grounded, Held, TypeOK
  <2>3. CASE t = s /\ CleanupWorkers(s)
    BY <2>1, <2>3 DEF CleanupCovers, CleanupWorkers, Executing, Grounded, Held, TypeOK
  <2>4. CASE t = s /\ (CleanupEnd(s) \/ \E r \in Runs : CleanupUpdate(s, r))
    BY <2>1, <2>4 DEF CleanupCovers, CleanupEnd, CleanupUpdate, Executing, Grounded, Held, TypeOK, LoopType
  <2> QED BY <1>5, <2>2, <2>3, <2>4 DEF ShutdownDone, Shutdown
<1>6. ASSUME NEW s \in Servers, NEW t \in Servers, CleanupRequeue(s) \/ CleanupFault(s)
      PROVE  Covered(t)
  <2> DEFINE x == loop[s].cur
  <2>1. UNCHANGED proc /\ \A u \in Servers \ {s} : loop'[u] = loop[u]
    BY <1>6 DEF CleanupRequeue, CleanupFault, Grounded, Held, TypeOK
  <2>2. UNCHANGED run \/ (loop[s].pc = "requeue" /\ run' = [run EXCEPT ![x].requeued = TRUE])
    BY <1>6 DEF CleanupRequeue, CleanupFault
  <2>3. \A r \in Runs : /\ run'[r].at = run[r].at /\ run'[r].phase = run[r].phase
                        /\ run[r].requeued => run'[r].requeued
    BY <2>2 DEF Grounded, Held, TypeOK, RunType
  <2>4. RunsOf(t, Executing)' = RunsOf(t, Executing)
    BY <2>3 DEF RunsOf
  <2>5. CASE t # s
    <3>1. loop'[t] = loop[t]
      BY <2>1, <2>5
    <3> QED BY <2>1, <2>3, <2>4, <3>1 DEF CleanupCovers, Executing, RunsOf
  <2>6. CASE t = s /\ CleanupRequeue(s)
    <3>1. x \in Runs /\ run' = [run EXCEPT ![x].requeued = TRUE]
      BY <2>6, LoopCur DEF CleanupRequeue, Grounded
    <3>2. run'[x].requeued
      BY <3>1 DEF Grounded, Held, TypeOK, RunType
    <3>3. /\ loop[s].pc = "requeue" /\ loop'[s].pc = "cleanup"
          /\ loop'[s].todo = loop[s].todo \ {x}
      BY <2>6 DEF CleanupRequeue, Grounded, Held, TypeOK
    <3> HIDE DEF x
    <3> QED BY <2>1, <2>3, <2>4, <2>6, <3>2, <3>3 DEF CleanupCovers, Executing, RunsOf
  <2>7. CASE t = s /\ CleanupFault(s)
    <3>1. loop'[s].pc = "wedged" /\ loop[s].pc \in {"cleanup", "requeue"}
      BY <2>7 DEF CleanupFault, Grounded, Held, TypeOK
    <3> QED BY <2>1, <2>7, <3>1 DEF CleanupCovers
  <2> QED BY <1>6, <2>5, <2>6, <2>7
<1>7. ASSUME NEW s \in Servers, NEW t \in Servers, Exit(s) \/ Crash(s)
      PROVE  Covered(t)
  <2>1. /\ proc' = [proc EXCEPT ![s] = "gone"] /\ run' = Forget(RunsOf(s, Phases))
        /\ \A u \in Servers \ {s} : loop'[u] = loop[u]
        /\ loop'[s].pc = "ended"
    BY <1>7 DEF Exit, Crash, Vanish, IdleLoop, Grounded, Held, TypeOK
  <2>2. ASSUME NEW r \in RunsOf(t, Executing)' PROVE t # s /\ run'[r] = run[r]
    <3>1. r \in Runs /\ run'[r].at = t /\ run'[r].phase \in Executing
      BY <2>2 DEF RunsOf
    <3>2. run'[r] = run[r] /\ r \notin RunsOf(s, Phases)
      BY <2>1, <3>1 DEF Forget, FreeRun, Executing
    <3>3. run[r].phase \in Phases
      BY <3>1 DEF Grounded, Held, TypeOK, RunType
    <3> QED BY <3>1, <3>2, <3>3 DEF RunsOf
  <2>3. CASE t = s
    <3>1. RunsOf(t, Executing)' = {} /\ proc'[t] = "gone" /\ loop'[t].pc = "ended"
      BY <2>1, <2>2, <2>3 DEF Grounded, Held, TypeOK
    <3> QED BY <3>1
  <2>4. CASE t # s
    <3>1. proc'[t] = proc[t] /\ loop'[t] = loop[t]
      BY <2>1, <2>4 DEF Grounded, Held, TypeOK
    <3>2. RunsOf(t, Executing)' \subseteq RunsOf(t, Executing)
      BY <2>2 DEF RunsOf
    <3> QED BY <2>2, <3>1, <3>2 DEF CleanupCovers, Executing
  <2> QED BY <2>3, <2>4
<1> HIDE DEF Covered
<1> QED BY <1>1, <1>2, <1>3, <1>4, <1>5, <1>6, <1>7 DEF Next, Faults, LoopStep

\* A process that has shut down has handed back every worker whose handler had
\* not come to its end: none that was taken, started or left by a failed call
\* while it went through its snapshot is missing from it.
THEOREM ShutdownHandsBack == Spec => []ShutdownReturnsExecuting
<1>1. Init => Grounded /\ CleanupCovers
  BY GroundedInit DEF Init, IdleLoop, CleanupCovers
<1>2. Grounded /\ CleanupCovers /\ [Next]_vars => Grounded' /\ CleanupCovers'
  BY GroundedNext, CoverNext
<1>3. Grounded /\ CleanupCovers => ShutdownReturnsExecuting
  BY DEF Grounded, Held, LoopOwns, CleanupCovers, ShutdownReturnsExecuting
<1> QED BY <1>1, <1>2, <1>3, PTL DEF Spec
=============================================================================
