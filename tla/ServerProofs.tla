---------------------------- MODULE ServerProofs ----------------------------
(***************************************************************************)
(* Theorems about Server, for every set of servers, jobs, queues and runs, *)
(* every concurrency and every bound.                                      *)
(*                                                                         *)
(* The argument: Held (who holds a run, and which runs a worker loop is    *)
(* going through) is inductive together with the typing; the bound on the  *)
(* number of occupied slots and the bound on retries then follow from it.  *)
(***************************************************************************)
EXTENDS Server, FiniteSetTheorems, WellFoundedInduction, TLAPS

-----------------------------------------------------------------------------
(* Numbers *)

\* A nonempty set of numbers has a smallest member.  The argument goes through
\* a relation without a name, because the provers do not take < for one.
LEMMA LeastOfRelation ==
    ASSUME NEW R, IsWellFoundedOn(R, Nat), \A x, y \in Nat : x < y => <<x, y>> \in R,
           NEW I, I \subseteq Nat, I # {}
    PROVE  \E m \in I : \A x \in I : m <= x
<1>1. PICK m \in I : \A x \in I : ~ (<<x, m>> \in R)
  BY ONLY IsWellFoundedOn(R, Nat), I \subseteq Nat, I # {}, WFMin, Zenon
<1>2. ASSUME NEW x \in I PROVE m <= x
  <2>1. ~(x < m)
    BY <1>1, Zenon
  <2> QED BY <2>1
<1> QED BY <1>2

LEMMA LessIsWellFounded ==
    \E R : IsWellFoundedOn(R, Nat) /\ \A x, y \in Nat : x < y => <<x, y>> \in R
<1> DEFINE R == OpToRel(<, Nat)
<1>1. IsWellFoundedOn(R, Nat)
  BY ONLY NatLessThanWellFounded
<1>2. \A x, y \in Nat : x < y => <<x, y>> \in R
  BY DEF OpToRel
<1> HIDE DEF R
<1> QED BY <1>1, <1>2

\* Induction over the numbers, for what a set can hold.
LEMMA EveryNumber ==
    ASSUME NEW Good, 0 \in Good, \A n \in Nat : n \in Good => n + 1 \in Good
    PROVE  Nat \subseteq Good
<1> DEFINE Bad == {n \in Nat : n \notin Good}
<1> SUFFICES ASSUME Bad # {} PROVE FALSE
  OBVIOUS
<1>1. PICK R : IsWellFoundedOn(R, Nat) /\ \A x, y \in Nat : x < y => <<x, y>> \in R
  BY LessIsWellFounded
<1>2. PICK m \in Bad : \A x \in Bad : m <= x
  <2>1. Bad \subseteq Nat
    OBVIOUS
  <2> HIDE DEF Bad
  <2> QED BY <1>1, <2>1, LeastOfRelation
<1>3. m # 0 /\ m \in Nat
  OBVIOUS
<1>4. m - 1 \in Nat /\ m - 1 \notin Bad
  BY <1>2, <1>3
<1>5. m - 1 \in Good
  BY <1>4
<1>6. (m - 1) + 1 \in Good
  BY <1>4, <1>5
<1> QED BY <1>3, <1>6

-----------------------------------------------------------------------------
(* The inductive invariant *)

\* A run in use belongs to a server and has a job; a free one belongs to none.
RunsHeld ==
    \A r \in Runs :
        IF run[r].phase = "free" THEN run[r].at = NoServer
                                 ELSE run[r].at \in Servers /\ run[r].job \in Jobs

IntakeHeld == \A s \in Servers : intake[s].pc = "read" => intake[s].job \in Jobs

\* The workers a loop is going through are its own: removed from
\* activeWorkers while it settles, still active while it cleans up.
LoopOwns ==
    \A s \in Servers :
        /\ loop[s].pc \in {"settle", "finish"} => loop[s].todo \subseteq RunsOf(s, Settling)
        /\ loop[s].pc \in {"cleanup", "requeue"} => loop[s].todo \subseteq RunsOf(s, Active)
        /\ loop[s].pc \in {"top", "wedged", "ended"} => loop[s].todo = {}
        /\ loop[s].pc \in {"finish", "requeue"} => loop[s].cur \in loop[s].todo

Held == TypeOK /\ RunsHeld /\ IntakeHeld /\ LoopOwns

-----------------------------------------------------------------------------
(* The operators the actions are built from keep the types. *)

LEMMA SetPhaseType ==
    ASSUME run \in [Runs -> RunType], NEW rs, NEW phase \in Phases
    PROVE  SetPhase(rs, phase) \in [Runs -> RunType]
BY DEF SetPhase, RunType

LEMMA FreeRunType == FreeRun \in RunType
BY DEF FreeRun, RunType, Phases

LEMMA ForgetType ==
    ASSUME run \in [Runs -> RunType], NEW rs
    PROVE  Forget(rs) \in [Runs -> RunType]
BY FreeRunType DEF Forget

LEMMA UpdateJobType ==
    ASSUME StoreTypeOK, NEW j \in Jobs, NEW n \in Nat, UpdateJob(j, n)
    PROVE  StoreTypeOK'
BY DEF StoreTypeOK, UpdateJob

LEMMA DeleteType ==
    ASSUME StoreTypeOK, NEW j \in Jobs, UnsafeDeleteJob(j)
    PROVE  StoreTypeOK'
BY DEF StoreTypeOK, UnsafeDeleteJob

LEMMA PopType ==
    ASSUME StoreTypeOK, NEW q \in Queues, Pop(q)
    PROVE  StoreTypeOK' /\ Last(queue[q]) \in Jobs
<1>1. queue[q] \in Seq(Jobs) /\ queue[q] # <<>>
  BY DEF StoreTypeOK, Pop
<1>2. Last(queue[q]) \in Jobs
  BY <1>1 DEF Last
<1>3. Front(queue[q]) \in Seq(Jobs)
  BY <1>1 DEF Front
<1> QED BY <1>2, <1>3 DEF StoreTypeOK, Pop

LEMMA EnqueueType ==
    ASSUME StoreTypeOK, NEW j \in Jobs, NEW n \in Nat, Enqueue(j, n)
    PROVE  StoreTypeOK'
<1>1. QueueOf[j] \in Queues
  BY StoreAssumption
<1>2. Cons(j, queue[QueueOf[j]]) \in Seq(Jobs)
  BY <1>1 DEF Cons, StoreTypeOK
<1> QED BY <1>1, <1>2 DEF StoreTypeOK, Enqueue

LEMMA RequeueType ==
    ASSUME StoreTypeOK, NEW j \in Jobs, NEW n \in Nat, Requeue(j, n)
    PROVE  StoreTypeOK'
<1>1. QueueOf[j] \in Queues
  BY StoreAssumption
<1>2. Append(queue[QueueOf[j]], j) \in Seq(Jobs)
  BY <1>1 DEF StoreTypeOK
<1> QED BY <1>1, <1>2 DEF StoreTypeOK, Requeue

LEMMA AddToSetType ==
    ASSUME StoreTypeOK, NEW z \in SetNames, NEW j \in Jobs, NEW n \in Nat, AddToSet(z, j, n)
    PROVE  StoreTypeOK'
BY DEF StoreTypeOK, AddToSet

LEMMA SpendType ==
    ASSUME budget \in [Budgets -> Nat], NEW b \in Budgets, Spend(b)
    PROVE  budget' \in [Budgets -> Nat]
BY DEF Spend

-----------------------------------------------------------------------------
\* Facts about the runs a server holds.
LEMMA HeldRun ==
    ASSUME Held, NEW r \in Runs, run[r].phase # "free"
    PROVE  run[r].at \in Servers /\ run[r].job \in Jobs /\ run[r].retry \in Nat
BY DEF Held, RunsHeld, TypeOK, RunType

LEMMA LoopCur ==
    ASSUME Held, NEW s \in Servers, loop[s].pc \in {"finish", "requeue"}
    PROVE  /\ loop[s].cur \in Runs
           /\ run[loop[s].cur].at = s
           /\ run[loop[s].cur].job \in Jobs
           /\ run[loop[s].cur].retry \in Nat
<1>1. loop[s].cur \in RunsOf(s, Settling \cup Active)
  BY DEF Held, LoopOwns, RunsOf
<1>2. loop[s].cur \in Runs /\ run[loop[s].cur].at = s /\ run[loop[s].cur].phase # "free"
  BY <1>1 DEF RunsOf, Settling, Active
<1> QED BY <1>2, HeldRun

-----------------------------------------------------------------------------
(* Held is inductive: the intake. *)

LEMMA HeldSubmit == ASSUME Held, NEW j \in Jobs, Submit(j) PROVE Held'
<1>1. StoreTypeOK'
  BY EnqueueType DEF Held, TypeOK, Submit
<1> QED BY <1>1 DEF Held, TypeOK, RunsHeld, IntakeHeld, LoopOwns, Submit, RunsOf

LEMMA SlotsType == ASSUME NEW s PROVE IsFiniteSet(RunsOf(s, Occupying)) /\ Cardinality(RunsOf(s, Occupying)) \in Nat
BY ServerAssumption, FS_Subset, FS_CardinalityType DEF RunsOf

LEMMA HeldIntakeQuiet ==
    ASSUME Held, NEW s \in Servers, IntakeIter(s) \/ IntakeEnd(s) \/ IntakeTimeout(s) \/ IntakeMissing(s)
    PROVE  Held'
<1>1. AvailableSlots(s) \in Int
  BY SlotsType, ServerAssumption DEF AvailableSlots
<1>2. \E i \in IntakeType : i.pc # "read" /\ intake' = [intake EXCEPT ![s] = i]
  <2>1. CASE IntakeIter(s)
    <3> DEFINE i == [pc |-> "fetch", job |-> NoJob, fetched |-> 0, slots |-> AvailableSlots(s)]
    <3> QED BY <1>1, <2>1, i \in IntakeType DEF IntakeIter, IntakeType
  <2>2. CASE IntakeEnd(s)
    <3> DEFINE i == [intake[s] EXCEPT !.pc = "ended"]
    <3>1. i \in IntakeType
      BY DEF Held, TypeOK, IntakeType
    <3> QED BY <2>2, <3>1 DEF IntakeEnd, Held, TypeOK, IntakeType
  <2>3. CASE IntakeTimeout(s) \/ IntakeMissing(s)
    BY <2>3 DEF IntakeTimeout, IntakeMissing, IntakeType, IdleIntake
  <2> QED BY <2>1, <2>2, <2>3
<1>3. UNCHANGED <<storeVars, proc, loop, run, budget, history>>
  BY DEF IntakeIter, IntakeEnd, IntakeTimeout, IntakeMissing
<1>4. intake' \in [Servers -> IntakeType] /\ IntakeHeld'
  BY <1>2 DEF Held, TypeOK, IntakeHeld
<1> QED
  BY <1>3, <1>4 DEF Held, TypeOK, StoreTypeOK, RunsHeld, LoopOwns, RunsOf, storeVars, history

LEMMA HeldIntakeFetch ==
    ASSUME Held, NEW s \in Servers, NEW q \in Queues, IntakeFetch(s, q)
    PROVE  Held'
<1>1. StoreTypeOK' /\ Last(queue[q]) \in Jobs
  BY PopType DEF Held, TypeOK, IntakeFetch
<1>2. intake' \in [Servers -> IntakeType] /\ IntakeHeld'
  BY <1>1 DEF Held, TypeOK, IntakeHeld, IntakeType, IntakeFetch
<1> QED
  BY <1>1, <1>2 DEF Held, TypeOK, RunsHeld, LoopOwns, RunsOf, history, IntakeFetch

LEMMA HeldIntakeRead ==
    ASSUME Held, NEW s \in Servers, NEW r \in Runs, IntakeRead(s, r)
    PROVE  Held'
<1>1. intake[s].job \in Jobs /\ stored[intake[s].job] \in Nat
  BY DEF Held, IntakeHeld, TypeOK, StoreTypeOK, IntakeRead, HasPayload
<1>2. run' \in [Runs -> RunType] /\ RunsHeld'
  BY <1>1 DEF Held, TypeOK, RunsHeld, RunType, Phases, Occupying, IntakeRead
<1>3. intake' \in [Servers -> IntakeType] /\ IntakeHeld'
  BY DEF Held, TypeOK, IntakeHeld, IntakeType, IdleIntake, IntakeRead
<1>4. \A t \in Servers : RunsOf(t, Settling) \subseteq RunsOf(t, Settling)' /\ RunsOf(t, Active) \subseteq RunsOf(t, Active)'
  BY DEF IntakeRead, RunsOf, Settling, Active, Held, TypeOK
<1>5. LoopOwns'
  BY <1>4 DEF Held, LoopOwns, IntakeRead
<1> QED
  BY <1>2, <1>3, <1>5 DEF Held, TypeOK, StoreTypeOK, storeVars, history, IntakeRead

LEMMA HeldIntakeFault ==
    ASSUME Held, NEW s \in Servers, IntakeFault(s)
    PROVE  Held'
<1>1. StoreTypeOK'
  BY PopType DEF Held, TypeOK, StoreTypeOK, storeVars, IntakeFault
<1>2. intake' \in [Servers -> IntakeType] /\ IntakeHeld'
  BY DEF Held, TypeOK, IntakeHeld, IntakeType, IdleIntake, IntakeFault
<1>3. budget' \in [Budgets -> Nat]
  BY SpendType DEF Held, TypeOK, Budgets, IntakeFault
<1> QED
  BY <1>1, <1>2, <1>3 DEF Held, TypeOK, RunsHeld, LoopOwns, RunsOf, history, IntakeFault
-----------------------------------------------------------------------------
(* Held is inductive: the workers. *)

\* A run that stays active keeps every list of LoopOwns as it was.
LEMMA ActiveToActive ==
    ASSUME Held, NEW r \in Runs, run[r].phase \in Active,
           NEW phase \in Active, run' = SetPhase({r}, phase), UNCHANGED loop
    PROVE  run' \in [Runs -> RunType] /\ RunsHeld' /\ LoopOwns'
<1>1. run' \in [Runs -> RunType]
  BY SetPhaseType DEF Held, TypeOK, Phases, Occupying
<1>2. RunsHeld'
  BY DEF Held, TypeOK, RunType, RunsHeld, SetPhase, Active
<1>3. \A t \in Servers : /\ RunsOf(t, Settling) = RunsOf(t, Settling)'
                        /\ RunsOf(t, Active) = RunsOf(t, Active)'
  BY DEF Held, TypeOK, RunType, SetPhase, RunsOf, Settling, Active
<1>4. LoopOwns'
  BY <1>3 DEF Held, LoopOwns
<1> QED BY <1>1, <1>2, <1>4

LEMMA HeldWorkerStart ==
    ASSUME Held, NEW r \in Runs, WorkerStart(r)
    PROVE  Held'
<1>1. run[r].job \in Jobs /\ run[r].retry \in Nat
  BY HeldRun DEF WorkerStart
<1>2. StoreTypeOK'
  BY <1>1, UpdateJobType DEF Held, TypeOK, WorkerStart
<1>3. run' \in [Runs -> RunType] /\ RunsHeld' /\ LoopOwns'
  BY ActiveToActive DEF WorkerStart, Active
<1> QED
  BY <1>1, <1>2, <1>3 DEF Held, TypeOK, IntakeHeld, WorkerStart

LEMMA HeldWorkerEnd ==
    ASSUME Held, NEW r \in Runs, WorkerEnd(r)
    PROVE  Held'
<1>1. run' \in [Runs -> RunType] /\ RunsHeld' /\ LoopOwns'
  BY ActiveToActive DEF WorkerEnd, Active
<1> QED
  BY <1>1 DEF Held, TypeOK, StoreTypeOK, IntakeHeld, WorkerEnd, storeVars, history

LEMMA HeldWorkerFault ==
    ASSUME Held, NEW r \in Runs, WorkerFault(r)
    PROVE  Held'
<1>1. run[r].job \in Jobs /\ run[r].retry \in Nat
  BY HeldRun DEF WorkerFault
<1>2. StoreTypeOK'
  BY <1>1, UpdateJobType DEF Held, TypeOK, StoreTypeOK, storeVars, WorkerFault
<1>3. run' \in [Runs -> RunType] /\ RunsHeld' /\ LoopOwns'
  BY ActiveToActive DEF WorkerFault, Active
<1>4. budget' \in [Budgets -> Nat]
  BY SpendType DEF Held, TypeOK, Budgets, WorkerFault
<1> QED
  BY <1>2, <1>3, <1>4 DEF Held, TypeOK, IntakeHeld, WorkerFault, history

-----------------------------------------------------------------------------
(* Held is inductive: the worker-handle loop. *)

\* What a step of the loop of server s has to show: the runs of the other
\* servers are untouched, and s owns the runs its loop goes through.
LEMMA LoopStepOwns ==
    ASSUME Held, NEW s \in Servers, NEW l \in LoopType,
           loop' = [loop EXCEPT ![s] = l],
           run' \in [Runs -> RunType],
           \A r \in Runs : run'[r] # run[r] => run[r].at = s /\ run'[r].at \in {s, NoServer},
           RunsHeld',
           l.pc \in {"settle", "finish"} => l.todo \subseteq RunsOf(s, Settling)',
           l.pc \in {"cleanup", "requeue"} => l.todo \subseteq RunsOf(s, Active)',
           l.pc \in {"top", "wedged", "ended"} => l.todo = {},
           l.pc \in {"finish", "requeue"} => l.cur \in l.todo
    PROVE  loop' \in [Servers -> LoopType] /\ LoopOwns'
<1>1. loop' \in [Servers -> LoopType]
  BY DEF Held, TypeOK
<1>2. ASSUME NEW t \in Servers, t # s, NEW phases
      PROVE  RunsOf(t, phases) \subseteq RunsOf(t, phases)'
  BY <1>2 DEF RunsOf
<1>3. \A t \in Servers \ {s} : loop'[t] = loop[t]
  BY DEF Held, TypeOK
<1>4. loop'[s] = l
  BY DEF Held, TypeOK
<1>5. LoopOwns'
  BY <1>2, <1>3, <1>4 DEF Held, LoopOwns
<1> QED BY <1>1, <1>5

LEMMA HeldHandleCompletedJobs ==
    ASSUME Held, NEW s \in Servers, HandleCompletedJobs(s)
    PROVE  Held'
<1> DEFINE l == [pc |-> "settle", cur |-> NoRun, todo |-> RunsOf(s, {"ok", "err"})]
<1>1. run' \in [Runs -> RunType]
  BY DEF HandleCompletedJobs, Held, TypeOK, RunType, RunsOf, Phases, Settling
<1>2. \A r \in Runs : run'[r] # run[r] => run[r].at = s /\ run'[r].at = s
  BY DEF HandleCompletedJobs, Held, TypeOK, RunType, RunsOf
<1>3. RunsHeld'
  BY DEF HandleCompletedJobs, Held, TypeOK, RunType, RunsOf, RunsHeld
<1>4. RunsOf(s, {"ok", "err"}) \subseteq RunsOf(s, Settling)'
  BY DEF HandleCompletedJobs, Held, TypeOK, RunType, RunsOf, Settling
<1>5. l \in LoopType /\ loop' = [loop EXCEPT ![s] = l]
  BY DEF HandleCompletedJobs, LoopType, RunsOf
<1>6. loop' \in [Servers -> LoopType] /\ LoopOwns'
  <2> HIDE DEF l
  <2>1. l.pc = "settle" /\ l.todo = RunsOf(s, {"ok", "err"})
    BY DEF l
  <2> QED BY <1>1, <1>2, <1>3, <1>4, <1>5, <2>1, LoopStepOwns
<1> QED
  BY <1>1, <1>3, <1>6 DEF HandleCompletedJobs, Held, TypeOK, StoreTypeOK, IntakeHeld, storeVars, history

LEMMA HeldSettle ==
    ASSUME Held, NEW s \in Servers, NEW r \in Runs, Settle(s, r)
    PROVE  Held'
<1> DEFINE l == [pc |-> "finish", cur |-> r, todo |-> loop[s].todo]
<1>1. r \in loop[s].todo /\ loop[s].todo \subseteq RunsOf(s, Settling)
  BY DEF Settle, Held, LoopOwns
<1>2. run[r].at = s /\ run[r].job \in Jobs /\ run[r].retry \in Nat
  BY <1>1, HeldRun DEF RunsOf, Settling
<1>3. PICK phase \in Settling, n \in Nat :
            run' = [run EXCEPT ![r] = [run[r] EXCEPT !.phase = phase, !.retry = n]]
  <2>1. ASSUME NEW phase \in Settling
        PROVE  SetPhase({r}, phase) =
                    [run EXCEPT ![r] = [run[r] EXCEPT !.phase = phase, !.retry = run[r].retry]]
    BY DEF SetPhase, Held, TypeOK, RunType
  <2>2. CASE run' = SetPhase({r}, "deleting") \/ run' = SetPhase({r}, "dying")
    BY <2>1, <2>2, <1>2 DEF Settling
  <2>3. CASE run' = [run EXCEPT ![r] = [run[r] EXCEPT !.phase = "retrying", !.retry = run[r].retry + 1]]
    <3> "retrying" \in Settling /\ run[r].retry + 1 \in Nat
      BY <1>2 DEF Settling
    <3> WITNESS "retrying" \in Settling, run[r].retry + 1 \in Nat
    <3> QED BY <2>3
  <2> HIDE DEF l
  <2>4. \/ run' = SetPhase({r}, "deleting") \/ run' = SetPhase({r}, "dying")
        \/ run' = [run EXCEPT ![r] = [run[r] EXCEPT !.phase = "retrying", !.retry = run[r].retry + 1]]
    BY DEF Settle
  <2> QED BY <2>2, <2>3, <2>4
<1>4. run' \in [Runs -> RunType] /\ RunsHeld'
  BY <1>2, <1>3 DEF Held, TypeOK, RunType, RunsHeld, Phases, Settling
<1>5. \A x \in Runs : run'[x] # run[x] => run[x].at = s /\ run'[x].at = s
  BY <1>2, <1>3 DEF Held, TypeOK, RunType
<1>6. RunsOf(s, Settling) \subseteq RunsOf(s, Settling)'
  BY <1>2, <1>3 DEF Held, TypeOK, RunType, RunsOf
<1>7. /\ l \in LoopType /\ loop' = [loop EXCEPT ![s] = l]
      /\ l.pc = "finish" /\ l.cur = r /\ l.todo = loop[s].todo
  BY DEF Settle, Held, TypeOK, LoopType
<1>8. loop' \in [Servers -> LoopType] /\ LoopOwns'
  <2> HIDE DEF l
  <2>1. l.todo \subseteq RunsOf(s, Settling)' /\ l.cur \in l.todo
    BY <1>1, <1>6, <1>7
  <2> QED BY <1>4, <1>5, <1>7, <2>1, LoopStepOwns
<1>9. StoreTypeOK'
  BY <1>2, UpdateJobType DEF Settle, Held, TypeOK
<1> QED
  BY <1>4, <1>8, <1>9 DEF Settle, Held, TypeOK, IntakeHeld, history

LEMMA SettleEffectType ==
    ASSUME Held, NEW s \in Servers, loop[s].pc = "finish", SettleEffect(loop[s].cur)
    PROVE  StoreTypeOK' /\ completed' \subseteq Jobs /\ failures' \in [Jobs -> Nat]
<1> DEFINE r == loop[s].cur
<1>1. r \in Runs /\ run[r].job \in Jobs /\ run[r].retry \in Nat
  BY LoopCur
<1>2. CASE run[r].phase = "deleting"
  BY <1>1, <1>2, DeleteType DEF SettleEffect, Held, TypeOK
<1>3. CASE run[r].phase = "dying"
  BY <1>1, <1>3, AddToSetType DEF SettleEffect, Held, TypeOK, SetNames
<1>4. CASE run[r].phase = "retrying"
  BY <1>1, <1>4, AddToSetType DEF SettleEffect, Held, TypeOK, SetNames
<1> QED BY <1>2, <1>3, <1>4 DEF SettleEffect

\* Forgetting runs of server s.
LEMMA ForgetOwn ==
    ASSUME Held, NEW s \in Servers, NEW rs, rs \subseteq RunsOf(s, Phases), run' = Forget(rs)
    PROVE  /\ run' \in [Runs -> RunType] /\ RunsHeld'
           /\ \A r \in Runs : run'[r] # run[r] => run[r].at = s /\ run'[r].at = NoServer
           /\ \A phases : RunsOf(s, phases) \ rs \subseteq RunsOf(s, phases)'
<1>1. run' \in [Runs -> RunType]
  BY ForgetType DEF Held, TypeOK
<1> QED
  BY <1>1 DEF Forget, FreeRun, Held, TypeOK, RunType, RunsHeld, RunsOf

LEMMA HeldFinish ==
    ASSUME Held, NEW s \in Servers, Finish(s)
    PROVE  Held'
<1> DEFINE r == loop[s].cur
           l == [pc |-> "settle", cur |-> NoRun, todo |-> loop[s].todo \ {r}]
<1>1. r \in loop[s].todo /\ loop[s].todo \subseteq RunsOf(s, Settling)
  BY DEF Finish, Held, LoopOwns
<1>2. {r} \subseteq RunsOf(s, Phases)
  BY <1>1 DEF RunsOf, Phases
<1>3. /\ run' \in [Runs -> RunType] /\ RunsHeld'
      /\ \A x \in Runs : run'[x] # run[x] => run[x].at = s /\ run'[x].at = NoServer
      /\ RunsOf(s, Settling) \ {r} \subseteq RunsOf(s, Settling)'
  BY <1>2, ForgetOwn DEF Finish
<1>4. l \in LoopType /\ loop' = [loop EXCEPT ![s] = l]
  BY <1>1 DEF Finish, LoopType, RunsOf
<1>5. loop' \in [Servers -> LoopType] /\ LoopOwns'
  <2>1. l.pc = "settle" /\ l.todo = loop[s].todo \ {r}
    OBVIOUS
  <2> HIDE DEF l, r
  <2> QED BY <1>1, <1>3, <1>4, <2>1, LoopStepOwns
<1>6. StoreTypeOK' /\ completed' \subseteq Jobs /\ failures' \in [Jobs -> Nat]
  BY SettleEffectType DEF Finish
<1> QED
  BY <1>3, <1>5, <1>6 DEF Finish, Held, TypeOK, IntakeHeld

LEMMA IdleLoopType == IdleLoop \in LoopType /\ IdleLoop.pc = "top" /\ IdleLoop.todo = {}
BY DEF IdleLoop, LoopType

LEMMA HeldSettleFault ==
    ASSUME Held, NEW s \in Servers, SettleFault(s)
    PROVE  Held'
<1>1. loop[s].todo \subseteq RunsOf(s, Phases)
  BY DEF SettleFault, Held, LoopOwns, RunsOf, Phases
<1>2. /\ run' \in [Runs -> RunType] /\ RunsHeld'
      /\ \A x \in Runs : run'[x] # run[x] => run[x].at = s /\ run'[x].at = NoServer
  BY <1>1, ForgetOwn DEF SettleFault
<1>3. loop' \in [Servers -> LoopType] /\ LoopOwns'
  BY <1>2, IdleLoopType, LoopStepOwns DEF SettleFault
<1>4. StoreTypeOK' /\ completed' \subseteq Jobs /\ failures' \in [Jobs -> Nat]
  BY SettleEffectType DEF SettleFault, Held, TypeOK, StoreTypeOK, storeVars
<1>5. budget' \in [Budgets -> Nat]
  BY SpendType DEF Held, TypeOK, Budgets, SettleFault
<1> QED
  BY <1>2, <1>3, <1>4, <1>5 DEF SettleFault, Held, TypeOK, IntakeHeld

LEMMA HeldStartJobs ==
    ASSUME Held, NEW s \in Servers, StartJobs(s) \/ StartFault(s)
    PROVE  Held'
<1>1. \A r \in Runs : \/ run'[r] = run[r]
                     \/ \E phase \in Active : /\ r \in RunsOf(s, {"toStart"})
                                             /\ run'[r] = [run[r] EXCEPT !.phase = phase]
  BY DEF StartJobs, StartFault, SetPhase, Active
<1>2. run' = [r \in Runs |-> run'[r]]
  BY DEF StartJobs, StartFault, SetPhase
<1>3. run' \in [Runs -> RunType]
  BY <1>1, <1>2 DEF Held, TypeOK, RunType, Phases, Occupying
<1>4. RunsHeld'
  BY <1>1 DEF Held, TypeOK, RunType, RunsHeld, RunsOf, Active
<1>5. ASSUME NEW r \in Runs, run'[r] # run[r]
      PROVE  run[r].at = s /\ run'[r].at = s
  <2>1. PICK phase \in Active : r \in RunsOf(s, {"toStart"}) /\ run'[r] = [run[r] EXCEPT !.phase = phase]
    BY <1>1, <1>5
  <2>2. run[r] \in RunType
    BY DEF Held, TypeOK
  <2> QED BY <2>1, <2>2 DEF RunsOf, RunType
<1>6. loop' = [loop EXCEPT ![s] = IdleLoop]
  BY DEF StartJobs, StartFault
<1>7. loop' \in [Servers -> LoopType] /\ LoopOwns'
  BY <1>3, <1>4, <1>5, <1>6, IdleLoopType, LoopStepOwns
<1>8. budget' \in [Budgets -> Nat]
  BY SpendType DEF Held, TypeOK, Budgets, StartJobs, StartFault
<1> QED
  BY <1>3, <1>4, <1>7, <1>8 DEF StartJobs, StartFault, Held, TypeOK, StoreTypeOK, IntakeHeld, storeVars, history
-----------------------------------------------------------------------------
(* Held is inductive: shutdown, exit and crash. *)

LEMMA HeldShutdown ==
    ASSUME Held, NEW s \in Servers, Shutdown(s) \/ ShutdownDone(s)
    PROVE  Held'
<1>1. proc' \in [Servers -> Procs]
  BY DEF Shutdown, ShutdownDone, Held, TypeOK, Procs
<1>2. budget' \in [Budgets -> Nat]
  BY SpendType DEF Shutdown, ShutdownDone, Held, TypeOK, Budgets
<1> QED
  BY <1>1, <1>2 DEF Shutdown, ShutdownDone, Held, TypeOK, StoreTypeOK, RunsHeld, IntakeHeld,
                    LoopOwns, RunsOf, storeVars, history

\* A loop step that leaves the runs alone.
LEMMA HeldLoopOnly ==
    ASSUME Held, NEW s \in Servers, CleanupWorkers(s) \/ CleanupEnd(s)
    PROVE  Held'
<1>1. run' = run /\ run' \in [Runs -> RunType] /\ RunsHeld'
  BY DEF CleanupWorkers, CleanupEnd, Held, TypeOK, RunsHeld
<1>2. ASSUME CleanupWorkers(s) PROVE loop' \in [Servers -> LoopType] /\ LoopOwns'
  <2> DEFINE todo == RunsOf(s, {"starting", "performing", "leaked"})
             l == [pc |-> "cleanup", cur |-> NoRun, todo |-> todo]
  <2>1. todo \subseteq RunsOf(s, Active)'
    BY <1>1 DEF RunsOf, Active
  <2>2. l \in LoopType /\ loop' = [loop EXCEPT ![s] = l] /\ l.pc = "cleanup" /\ l.todo = todo
    BY <1>2 DEF CleanupWorkers, LoopType, RunsOf
  <2> HIDE DEF l
  <2> QED BY <1>1, <2>1, <2>2, LoopStepOwns
<1>3. ASSUME CleanupEnd(s) PROVE loop' \in [Servers -> LoopType] /\ LoopOwns'
  <2> DEFINE l == [loop[s] EXCEPT !.pc = "ended"]
  <2>1. l \in LoopType /\ l.pc = "ended" /\ l.todo = {}
    BY <1>3 DEF CleanupEnd, Held, TypeOK, LoopType
  <2>2. loop' = [loop EXCEPT ![s] = l]
    BY <1>3 DEF CleanupEnd
  <2> HIDE DEF l
  <2> QED BY <1>1, <2>1, <2>2, LoopStepOwns
<1>4. loop' \in [Servers -> LoopType] /\ LoopOwns'
  BY <1>2, <1>3
<1> QED
  BY <1>1, <1>4 DEF CleanupWorkers, CleanupEnd, Held, TypeOK, StoreTypeOK, IntakeHeld, storeVars, history

LEMMA HeldCleanupUpdate ==
    ASSUME Held, NEW s \in Servers, NEW r \in Runs, CleanupUpdate(s, r)
    PROVE  Held'
<1> DEFINE l == [pc |-> "requeue", cur |-> r, todo |-> loop[s].todo]
<1>1. r \in loop[s].todo /\ loop[s].todo \subseteq RunsOf(s, Active)
  BY DEF CleanupUpdate, Held, LoopOwns
<1>2. run[r].job \in Jobs /\ run[r].retry \in Nat
  BY <1>1, HeldRun DEF RunsOf, Active
<1>3. run' = run /\ run' \in [Runs -> RunType] /\ RunsHeld'
  BY DEF CleanupUpdate, Held, TypeOK, RunsHeld
<1>4. loop[s].todo \subseteq RunsOf(s, Active)'
  BY <1>1, <1>3 DEF RunsOf
<1>5. /\ l \in LoopType /\ loop' = [loop EXCEPT ![s] = l]
      /\ l.pc = "requeue" /\ l.cur = r /\ l.todo = loop[s].todo
  BY DEF CleanupUpdate, Held, TypeOK, LoopType
<1>6. loop' \in [Servers -> LoopType] /\ LoopOwns'
  <2> HIDE DEF l
  <2> QED BY <1>1, <1>3, <1>4, <1>5, LoopStepOwns
<1>7. StoreTypeOK'
  BY <1>2, UpdateJobType DEF CleanupUpdate, Held, TypeOK
<1> QED
  BY <1>3, <1>6, <1>7 DEF CleanupUpdate, Held, TypeOK, IntakeHeld, history

\* Marking the run of a cleanup as requeued, or leaving it.
LEMMA MarkRequeued ==
    ASSUME Held, NEW s \in Servers, loop[s].pc = "requeue",
           \/ run' = [run EXCEPT ![loop[s].cur].requeued = TRUE]
           \/ run' = run
    PROVE  /\ run' \in [Runs -> RunType] /\ RunsHeld'
           /\ \A r \in Runs : run'[r] # run[r] => run[r].at = s /\ run'[r].at = s
           /\ RunsOf(s, Active) \subseteq RunsOf(s, Active)'
<1>1. loop[s].cur \in Runs /\ run[loop[s].cur].at = s
  BY LoopCur
<1>2. run' \in [Runs -> RunType]
  <2>1. [run[loop[s].cur] EXCEPT !.requeued = TRUE] \in RunType
    <3>1. run[loop[s].cur] \in RunType
      BY <1>1 DEF Held, TypeOK
    <3> QED BY <3>1 DEF RunType
  <2>2. run \in [Runs -> RunType]
    BY DEF Held, TypeOK
  <2> QED BY <1>1, <2>1, <2>2
<1> QED BY <1>1, <1>2 DEF Held, TypeOK, RunType, RunsHeld, RunsOf

LEMMA HeldCleanupRequeue ==
    ASSUME Held, NEW s \in Servers, CleanupRequeue(s)
    PROVE  Held'
<1> DEFINE l == [pc |-> "cleanup", cur |-> NoRun, todo |-> loop[s].todo \ {loop[s].cur}]
<1>1. loop[s].pc = "requeue" /\ loop[s].todo \subseteq RunsOf(s, Active)
  BY DEF CleanupRequeue, Held, LoopOwns
<1>2. run' = [run EXCEPT ![loop[s].cur].requeued = TRUE]
  BY DEF CleanupRequeue
<1>3. /\ run' \in [Runs -> RunType] /\ RunsHeld'
      /\ \A r \in Runs : run'[r] # run[r] => run[r].at = s /\ run'[r].at = s
      /\ RunsOf(s, Active) \subseteq RunsOf(s, Active)'
  BY <1>1, <1>2, MarkRequeued
<1>4. l.todo \subseteq RunsOf(s, Active)'
  BY <1>1, <1>3
<1>5. l \in LoopType /\ loop' = [loop EXCEPT ![s] = l] /\ l.pc = "cleanup"
  BY DEF CleanupRequeue, Held, TypeOK, LoopType
<1>6. loop' \in [Servers -> LoopType] /\ LoopOwns'
  <2> HIDE DEF l
  <2> QED BY <1>3, <1>4, <1>5, LoopStepOwns
<1>7. StoreTypeOK'
  BY <1>1, LoopCur, RequeueType DEF CleanupRequeue, Held, TypeOK
<1> QED
  BY <1>3, <1>6, <1>7 DEF CleanupRequeue, Held, TypeOK, IntakeHeld, history

LEMMA HeldCleanupFault ==
    ASSUME Held, NEW s \in Servers, CleanupFault(s)
    PROVE  Held'
<1> DEFINE l == [pc |-> "wedged", cur |-> NoRun, todo |-> {}]
<1>1. /\ run' \in [Runs -> RunType] /\ RunsHeld'
      /\ \A r \in Runs : run'[r] # run[r] => run[r].at = s /\ run'[r].at = s
  <2>1. CASE run' = run
    BY <2>1 DEF Held, TypeOK, RunsHeld
  <2>2. CASE loop[s].pc = "requeue" /\ run' = [run EXCEPT ![loop[s].cur].requeued = TRUE]
    BY <2>2, MarkRequeued
  <2> QED BY <2>1, <2>2 DEF CleanupFault
<1>2. l \in LoopType /\ loop' = [loop EXCEPT ![s] = l] /\ l.pc = "wedged" /\ l.todo = {}
  BY DEF CleanupFault, LoopType
<1>3. loop' \in [Servers -> LoopType] /\ LoopOwns'
  <2> HIDE DEF l
  <2> QED BY <1>1, <1>2, LoopStepOwns
<1>4. StoreTypeOK'
  BY LoopCur, RequeueType DEF CleanupFault, Held, TypeOK, StoreTypeOK, storeVars
<1>5. budget' \in [Budgets -> Nat]
  BY SpendType DEF Held, TypeOK, Budgets, CleanupFault
<1> QED
  BY <1>1, <1>3, <1>4, <1>5 DEF CleanupFault, Held, TypeOK, IntakeHeld, history

LEMMA HeldVanish ==
    ASSUME Held, NEW s \in Servers, Exit(s) \/ Crash(s)
    PROVE  Held'
<1> DEFINE l == [IdleLoop EXCEPT !.pc = "ended"]
<1>1. /\ run' \in [Runs -> RunType] /\ RunsHeld'
      /\ \A r \in Runs : run'[r] # run[r] => run[r].at = s /\ run'[r].at = NoServer
  BY ForgetOwn DEF Exit, Crash, Vanish
<1>2. l \in LoopType /\ loop' = [loop EXCEPT ![s] = l] /\ l.pc = "ended" /\ l.todo = {}
  BY DEF Exit, Crash, Vanish, IdleLoop, LoopType
<1>3. loop' \in [Servers -> LoopType] /\ LoopOwns'
  <2> HIDE DEF l
  <2> QED BY <1>1, <1>2, LoopStepOwns
<1>4. intake' \in [Servers -> IntakeType] /\ IntakeHeld'
  <2> DEFINE i == [IdleIntake EXCEPT !.pc = "ended"]
  <2>1. i \in IntakeType /\ i.pc = "ended"
    BY DEF IdleIntake, IntakeType
  <2>2. intake' = [intake EXCEPT ![s] = i]
    BY DEF Exit, Crash, Vanish
  <2> HIDE DEF i
  <2> QED BY <2>1, <2>2 DEF Held, TypeOK, IntakeHeld
<1>5. budget' \in [Budgets -> Nat]
  BY SpendType DEF Held, TypeOK, Budgets, Exit, Crash
<1>6. proc' \in [Servers -> Procs]
  BY DEF Exit, Crash, Vanish, Held, TypeOK, Procs
<1> QED
  BY <1>1, <1>3, <1>4, <1>5, <1>6 DEF Exit, Crash, Held, TypeOK, StoreTypeOK, storeVars, history

-----------------------------------------------------------------------------
LEMMA HeldInit == Init => Held
<1> SUFFICES ASSUME Init PROVE Held
  OBVIOUS
<1>1. StoreTypeOK
  BY DEF Init, StoreInit, StoreTypeOK
<1>2. budget \in [Budgets -> Nat]
  BY ServerAssumption DEF Init, Budgets
<1>3. run \in [Runs -> RunType]
  BY FreeRunType DEF Init
<1>4. TypeOK
  BY <1>1, <1>2, <1>3 DEF Init, TypeOK, Procs, IdleIntake, IntakeType, IdleLoop, LoopType
<1> QED
  BY <1>4 DEF Init, Held, RunsHeld, IntakeHeld, LoopOwns, FreeRun, IdleIntake, IdleLoop

LEMMA HeldNext == Held /\ [Next]_vars => Held'
<1> SUFFICES ASSUME Held, [Next]_vars PROVE Held'
  OBVIOUS
<1>1. CASE \E j \in Jobs : Submit(j)
  BY <1>1, HeldSubmit
<1>2. CASE \E s \in Servers : IntakeStep(s) \/ IntakeFault(s)
  BY <1>2, HeldIntakeQuiet, HeldIntakeFetch, HeldIntakeRead, HeldIntakeFault DEF IntakeStep, IntakeAnswer
<1>3. CASE \E r \in Runs : WorkerStep(r) \/ WorkerFault(r)
  BY <1>3, HeldWorkerStart, HeldWorkerEnd, HeldWorkerFault DEF WorkerStep
<1>4. CASE \E s \in Servers : LoopStep(s)
  BY <1>4, HeldHandleCompletedJobs, HeldSettle, HeldFinish, HeldStartJobs, HeldLoopOnly,
     HeldCleanupUpdate, HeldCleanupRequeue, HeldShutdown DEF LoopStep
<1>5. CASE \E s \in Servers : SettleFault(s) \/ StartFault(s) \/ CleanupFault(s)
  BY <1>5, HeldSettleFault, HeldStartJobs, HeldCleanupFault
<1>6. CASE \E s \in Servers : Shutdown(s) \/ Exit(s) \/ Crash(s)
  BY <1>6, HeldShutdown, HeldVanish
<1>7. CASE UNCHANGED vars
  BY <1>7 DEF vars, serverVars, storeVars, Held, TypeOK, StoreTypeOK, RunsHeld, IntakeHeld, LoopOwns, RunsOf
<1> QED
  BY <1>1, <1>2, <1>3, <1>4, <1>5, <1>6, <1>7 DEF Next, Faults

\* Every variable keeps its type in every behaviour of the servers; Held is the
\* inductive invariant.
THEOREM TypeCorrect == Spec => []TypeOK
<1>1. Held => TypeOK
  BY DEF Held
<1> QED BY HeldInit, HeldNext, <1>1, PTL DEF Spec
-----------------------------------------------------------------------------
(* The bound on occupied slots.                                            *)
(*                                                                         *)
(* ConcurrencyBound is not inductive: what makes it hold is that an intake *)
(* in its inner loop still has slots - fetched jobs to add, computed while *)
(* the lists held at most concurrency minus slots jobs, and that everybody *)
(* else only takes jobs off the lists in the meantime.                     *)

Fetching(s) == intake[s].pc \in {"fetch", "read"}

SlotsReserved ==
    \A s \in Servers :
        /\ Cardinality(RunsOf(s, Occupying)) <= Concurrency
        /\ Fetching(s) =>
                /\ intake[s].fetched < intake[s].slots
                /\ Cardinality(RunsOf(s, Occupying)) + (intake[s].slots - intake[s].fetched)
                        <= Concurrency

\* A step that adds no job to the lists of s and leaves what the intake of s
\* counts on as it is, unless the intake leaves its inner loop.
Calm(s) ==
    /\ RunsOf(s, Occupying)' \subseteq RunsOf(s, Occupying)
    /\ Fetching(s)' => /\ Fetching(s)
                       /\ intake'[s].fetched = intake[s].fetched
                       /\ intake'[s].slots = intake[s].slots

LEMMA CalmKeeps ==
    ASSUME Held, Held', SlotsReserved, NEW s \in Servers, Calm(s)
    PROVE  /\ Cardinality(RunsOf(s, Occupying)') <= Concurrency
           /\ Fetching(s)' =>
                /\ intake'[s].fetched < intake'[s].slots
                /\ Cardinality(RunsOf(s, Occupying)') + (intake'[s].slots - intake'[s].fetched)
                        <= Concurrency
<1>1. /\ IsFiniteSet(RunsOf(s, Occupying)) /\ Cardinality(RunsOf(s, Occupying)) \in Nat
  BY SlotsType
<1>2. /\ Cardinality(RunsOf(s, Occupying)') \in Nat
      /\ Cardinality(RunsOf(s, Occupying)') <= Cardinality(RunsOf(s, Occupying))
  BY <1>1, FS_Subset, FS_CardinalityType DEF Calm
<1>3. intake[s].slots \in Nat /\ intake[s].fetched \in Nat /\ Concurrency \in Nat
  BY ServerAssumption DEF Held, TypeOK, IntakeType
<1> QED BY <1>1, <1>2, <1>3 DEF SlotsReserved, Calm

\* Only an intake's own iteration and its own push are not calm.
LEMMA CalmIntake ==
    ASSUME Held, NEW s \in Servers, NEW t \in Servers,
           \/ IntakeEnd(s) \/ IntakeTimeout(s) \/ IntakeMissing(s) \/ IntakeFault(s)
           \/ \E q \in Queues : IntakeFetch(s, q)
           \/ t # s /\ IntakeIter(s)
           \/ t # s /\ \E r \in Runs : IntakeRead(s, r)
    PROVE  Calm(t)
<1>1. RunsOf(t, Occupying)' \subseteq RunsOf(t, Occupying)
  <2>1. CASE run' = run
    BY <2>1 DEF RunsOf
  <2>2. ASSUME t # s, NEW r \in Runs, IntakeRead(s, r)
        PROVE  RunsOf(t, Occupying)' \subseteq RunsOf(t, Occupying)
    <3>1. \A x \in Runs : run'[x] = run[x] \/ run'[x].at = s
      BY <2>2 DEF IntakeRead, Held, TypeOK
    <3> QED BY <2>2, <3>1 DEF RunsOf
  <2>3. /\ IntakeEnd(s) \/ IntakeTimeout(s) \/ IntakeMissing(s) \/ IntakeFault(s) => run' = run
        /\ \A q \in Queues : IntakeFetch(s, q) => run' = run
        /\ IntakeIter(s) => run' = run
    BY DEF IntakeEnd, IntakeTimeout, IntakeMissing, IntakeFault, IntakeFetch, IntakeIter
  <2> QED BY <2>1, <2>2, <2>3
<1>2. CASE t # s
  BY <1>1, <1>2 DEF Calm, Fetching, IntakeEnd, IntakeTimeout, IntakeMissing, IntakeFault,
         IntakeFetch, IntakeIter, IntakeRead, Held, TypeOK
<1>3. CASE t = s
  BY <1>1, <1>3 DEF Calm, Fetching, IntakeEnd, IntakeTimeout, IntakeMissing, IntakeFault,
         IntakeFetch, Held, TypeOK, IntakeType, IdleIntake
<1> QED BY <1>2, <1>3

\* Phases that change without leaving or entering the two lists, or that leave.
LEMMA CalmRuns ==
    ASSUME Held, NEW t \in Servers, UNCHANGED intake,
           \A r \in Runs : \/ run'[r] = run[r]
                          \/ (run[r].phase \in Occupying /\ run'[r].at = run[r].at)
                          \/ run'[r].phase \notin Occupying
    PROVE  Calm(t)
BY DEF Calm, Fetching, RunsOf

LEMMA CalmWorker ==
    ASSUME Held, NEW r \in Runs, NEW t \in Servers, WorkerStep(r) \/ WorkerFault(r)
    PROVE  Calm(t)
<1>1. run[r].phase \in Occupying /\ \E phase \in Active : run' = SetPhase({r}, phase)
  BY DEF WorkerStep, WorkerStart, WorkerEnd, WorkerFault, Active, Occupying
<1>2. \A x \in Runs : run'[x] = run[x] \/ (run[x].phase \in Occupying /\ run'[x].at = run[x].at)
  BY <1>1 DEF SetPhase, Held, TypeOK, RunType
<1> QED BY <1>2, CalmRuns DEF WorkerStep, WorkerStart, WorkerEnd, WorkerFault

LEMMA CalmLoop ==
    ASSUME Held, NEW s \in Servers, NEW t \in Servers,
           LoopStep(s) \/ SettleFault(s) \/ StartFault(s) \/ CleanupFault(s) \/ Shutdown(s)
    PROVE  Calm(t)
<1>1. CASE HandleCompletedJobs(s)
  <2>1. \A r \in Runs : run'[r] = run[r] \/ (run[r].phase \in Occupying /\ run'[r].at = run[r].at)
    BY <1>1 DEF HandleCompletedJobs, RunsOf, Occupying, Active, Held, TypeOK, RunType
  <2> QED BY <1>1, <2>1, CalmRuns DEF HandleCompletedJobs
<1>2. ASSUME NEW r \in Runs, Settle(s, r) PROVE Calm(t)
  <2>1. \A x \in Runs : run'[x] = run[x] \/ run'[x].phase \notin Occupying
    BY <1>2 DEF Settle, SetPhase, Held, TypeOK, RunType, Occupying, Active
  <2> QED BY <1>2, <2>1, CalmRuns DEF Settle
<1>3. CASE Finish(s) \/ SettleFault(s)
  <2>1. \A x \in Runs : run'[x] = run[x] \/ run'[x].phase \notin Occupying
    BY <1>3 DEF Finish, SettleFault, Forget, FreeRun, Occupying, Active
  <2> QED BY <1>3, <2>1, CalmRuns DEF Finish, SettleFault
<1>4. CASE StartJobs(s) \/ StartFault(s)
  <2>1. \A r \in Runs : run'[r] = run[r] \/ (run[r].phase \in Occupying /\ run'[r].at = run[r].at)
    BY <1>4 DEF StartJobs, StartFault, SetPhase, RunsOf, Occupying, Held, TypeOK, RunType
  <2> QED BY <1>4, <2>1, CalmRuns DEF StartJobs, StartFault
<1>5. CASE CleanupWorkers(s) \/ CleanupEnd(s) \/ ShutdownDone(s) \/ Shutdown(s)
  BY <1>5, CalmRuns DEF CleanupWorkers, CleanupEnd, ShutdownDone, Shutdown
<1>6. ASSUME NEW r \in Runs, CleanupUpdate(s, r) PROVE Calm(t)
  BY <1>6, CalmRuns DEF CleanupUpdate
<1>7. CASE CleanupRequeue(s) \/ CleanupFault(s)
  <2>1. \A r \in Runs : run'[r].phase = run[r].phase /\ run'[r].at = run[r].at
    BY <1>7 DEF CleanupRequeue, CleanupFault, Held, TypeOK, RunType
  <2>2. RunsOf(t, Occupying)' \subseteq RunsOf(t, Occupying)
    BY <2>1 DEF RunsOf
  <2> QED BY <1>7, <2>2 DEF Calm, Fetching, CleanupRequeue, CleanupFault
<1> QED BY <1>1, <1>2, <1>3, <1>4, <1>5, <1>6, <1>7 DEF LoopStep

LEMMA CalmVanish ==
    ASSUME Held, NEW s \in Servers, NEW t \in Servers, Exit(s) \/ Crash(s)
    PROVE  Calm(t)
<1>1. \A x \in Runs : run'[x] = run[x] \/ run'[x].phase \notin Occupying
  BY DEF Exit, Crash, Vanish, Forget, FreeRun, Occupying, Active
<1>2. RunsOf(t, Occupying)' \subseteq RunsOf(t, Occupying)
  BY <1>1 DEF RunsOf
<1>3. intake'[t] = intake[t] \/ intake'[t].pc = "ended"
  BY DEF Exit, Crash, Vanish, IdleIntake, Held, TypeOK
<1> QED BY <1>2, <1>3 DEF Calm, Fetching
\* The two steps that are not calm keep the reservation for their own reasons.
LEMMA IterReserves ==
    ASSUME Held, SlotsReserved, NEW s \in Servers, IntakeIter(s)
    PROVE  /\ Cardinality(RunsOf(s, Occupying)') <= Concurrency
           /\ intake'[s].fetched < intake'[s].slots
           /\ Cardinality(RunsOf(s, Occupying)') + (intake'[s].slots - intake'[s].fetched)
                    <= Concurrency
<1>1. RunsOf(s, Occupying)' = RunsOf(s, Occupying)
  BY DEF IntakeIter, RunsOf
<1>2. intake'[s].fetched = 0 /\ intake'[s].slots = AvailableSlots(s) /\ AvailableSlots(s) > 0
  BY DEF IntakeIter, Held, TypeOK
<1>3. Cardinality(RunsOf(s, Occupying)) \in Nat /\ Concurrency \in Nat
  BY SlotsType, ServerAssumption
<1> QED BY <1>1, <1>2, <1>3 DEF AvailableSlots

LEMMA ReadReserves ==
    ASSUME Held, SlotsReserved, NEW s \in Servers, NEW r \in Runs, IntakeRead(s, r)
    PROVE  /\ Cardinality(RunsOf(s, Occupying)') <= Concurrency
           /\ Fetching(s)' =>
                /\ intake'[s].fetched < intake'[s].slots
                /\ Cardinality(RunsOf(s, Occupying)') + (intake'[s].slots - intake'[s].fetched)
                        <= Concurrency
<1> DEFINE n == Cardinality(RunsOf(s, Occupying))
<1>1. RunsOf(s, Occupying)' = RunsOf(s, Occupying) \cup {r}
  BY DEF IntakeRead, RunsOf, Occupying, Active, Held, TypeOK
<1>2. Cardinality(RunsOf(s, Occupying)') = n + 1
  <2>1. r \notin RunsOf(s, Occupying)
    BY DEF IntakeRead, RunsOf, Occupying, Active
  <2> QED BY <1>1, <2>1, SlotsType, FS_AddElement
<1>3. Fetching(s) /\ n \in Nat /\ intake[s].slots \in Nat /\ intake[s].fetched \in Nat
  BY SlotsType DEF IntakeRead, Fetching, Held, TypeOK, IntakeType
<1>4. intake[s].fetched < intake[s].slots /\ n + (intake[s].slots - intake[s].fetched) <= Concurrency
  BY <1>3 DEF SlotsReserved
<1>5. Fetching(s)' => /\ intake[s].fetched + 1 < intake[s].slots
                     /\ intake'[s].fetched = intake[s].fetched + 1
                     /\ intake'[s].slots = intake[s].slots
  BY DEF IntakeRead, Fetching, IdleIntake, Held, TypeOK
<1>6. Concurrency \in Nat
  BY ServerAssumption
<1> HIDE DEF n
<1> QED BY <1>2, <1>3, <1>4, <1>5, <1>6

LEMMA ReservedInit == Init => SlotsReserved
<1>1. ASSUME Init, NEW s \in Servers PROVE RunsOf(s, Occupying) = {} /\ ~Fetching(s)
  BY <1>1 DEF Init, FreeRun, RunsOf, Occupying, Active, IdleIntake, Fetching
<1>2. Cardinality({}) <= Concurrency
  BY FS_EmptySet, ServerAssumption
<1> QED BY <1>1, <1>2 DEF SlotsReserved

LEMMA ReservedNext == Held /\ Held' /\ SlotsReserved /\ [Next]_vars => SlotsReserved'
<1> SUFFICES ASSUME Held, Held', SlotsReserved, [Next]_vars, NEW t \in Servers
             PROVE  /\ Cardinality(RunsOf(t, Occupying)') <= Concurrency
                    /\ Fetching(t)' =>
                        /\ intake'[t].fetched < intake'[t].slots
                        /\ Cardinality(RunsOf(t, Occupying)') + (intake'[t].slots - intake'[t].fetched)
                                <= Concurrency
  BY DEF SlotsReserved
<1>1. CASE IntakeIter(t)
  BY <1>1, IterReserves
<1>2. CASE \E r \in Runs : IntakeRead(t, r)
  BY <1>2, ReadReserves
<1>3. CASE Calm(t)
  BY <1>3, CalmKeeps
<1>4. ~IntakeIter(t) /\ ~(\E r \in Runs : IntakeRead(t, r)) => Calm(t)
  <2> SUFFICES ASSUME ~IntakeIter(t), ~(\E r \in Runs : IntakeRead(t, r)) PROVE Calm(t)
    OBVIOUS
  <2>1. CASE UNCHANGED vars
    BY <2>1 DEF vars, serverVars, Calm, Fetching, RunsOf
  <2>2. CASE \E j \in Jobs : Submit(j)
    BY <2>2 DEF Submit, Calm, Fetching, RunsOf
  <2>3. CASE \E s \in Servers : IntakeStep(s) \/ IntakeFault(s)
    BY <2>3, CalmIntake DEF IntakeStep, IntakeAnswer
  <2>4. CASE \E r \in Runs : WorkerStep(r) \/ WorkerFault(r)
    BY <2>4, CalmWorker
  <2>5. CASE \E s \in Servers : LoopStep(s) \/ SettleFault(s) \/ StartFault(s) \/ CleanupFault(s) \/ Shutdown(s)
    BY <2>5, CalmLoop
  <2>6. CASE \E s \in Servers : Exit(s) \/ Crash(s)
    BY <2>6, CalmVanish
  <2> QED BY <2>1, <2>2, <2>3, <2>4, <2>5, <2>6 DEF Next, Faults
<1> QED BY <1>1, <1>2, <1>3, <1>4

\* No server ever holds more jobs than config.concurrency, whatever shutdowns,
\* crashes and failures happen.
THEOREM ConcurrencyBounded == Spec => []ConcurrencyBound
<1>1. Init => Held /\ SlotsReserved
  BY HeldInit, ReservedInit
<1>2. Held /\ SlotsReserved /\ [Next]_vars => Held' /\ SlotsReserved'
  BY HeldNext, ReservedNext
<1>3. SlotsReserved => ConcurrencyBound
  BY DEF SlotsReserved, ConcurrencyBound
<1> QED BY <1>1, <1>2, <1>3, PTL DEF Spec
-----------------------------------------------------------------------------
(* The bound on retries.                                                   *)

\* The step leaves the job and the count of run r as they are.
SameCount(r) ==
    /\ run[r].phase # "free"
    /\ run'[r].job = run[r].job /\ run'[r].retry = run[r].retry

\* What a step has to show: every count it writes, in Redis or in memory, is
\* one it read, or is within the bound.
LEMMA BoundKept ==
    ASSUME RetriesBounded,
           \A j \in Jobs : \/ stored'[j] = stored[j] \/ stored'[j] \notin Nat
                          \/ RetryBound(j, stored'[j]),
           \A r \in Runs : \/ run'[r].phase = "free"
                          \/ SameCount(r)
                          \/ RetryBound(run'[r].job, run'[r].retry)
    PROVE  RetriesBounded'
BY DEF RetriesBounded, RetryBound, SameCount

\* Writing the count of a run, or deleting the payload, keeps stored within the bound.
LEMMA StoredBound ==
    ASSUME Held, RetriesBounded, NEW j \in Jobs, NEW n, RetryBound(j, n),
           \/ UpdateJob(j, n) \/ UnsafeDeleteJob(j) \/ Requeue(j, n)
           \/ \E z : AddToSet(z, j, n)
    PROVE  \A i \in Jobs : stored'[i] = stored[i] \/ stored'[i] \notin Nat \/ RetryBound(i, stored'[i])
BY StoreAssumption DEF Held, TypeOK, StoreTypeOK, UpdateJob, UnsafeDeleteJob, Requeue, AddToSet

\* Changing phases, marking a run or forgetting it writes no count.
LEMMA RunsBound ==
    ASSUME Held, RetriesBounded,
           \A r \in Runs : \/ run'[r] = run[r] \/ run'[r].phase = "free"
                          \/ SameCount(r)
    PROVE  \A r \in Runs : \/ run'[r].phase = "free"
                          \/ SameCount(r)
                          \/ RetryBound(run'[r].job, run'[r].retry)
BY DEF SameCount

LEMMA BoundIntake ==
    ASSUME Held, RetriesBounded, NEW s \in Servers, IntakeStep(s) \/ IntakeFault(s)
    PROVE  RetriesBounded'
<1>1. stored' = stored
  BY DEF IntakeStep, IntakeFault, IntakeIter, IntakeEnd, IntakeFetch, IntakeTimeout, IntakeAnswer, IntakeRead,
         IntakeMissing, Pop, storeVars
<1>2. CASE run' = run
  BY <1>1, <1>2 DEF RetriesBounded
<1>3. ASSUME NEW r \in Runs, IntakeRead(s, r) PROVE RetriesBounded'
  <2>1. intake[s].job \in Jobs /\ stored[intake[s].job] \in Nat
    BY <1>3 DEF Held, IntakeHeld, TypeOK, StoreTypeOK, IntakeRead, HasPayload
  <2>2. RetryBound(intake[s].job, stored[intake[s].job])
    BY <2>1 DEF RetriesBounded
  <2>3. run'[r].job = intake[s].job /\ run'[r].retry = stored[intake[s].job]
    BY <1>3 DEF IntakeRead, Held, TypeOK
  <2>4. \A x \in Runs \ {r} : run'[x] = run[x]
    BY <1>3 DEF IntakeRead, Held, TypeOK
  <2> QED BY <1>1, <2>2, <2>3, <2>4 DEF RetriesBounded
<1> QED
  BY <1>2, <1>3 DEF IntakeStep, IntakeFault, IntakeIter, IntakeEnd, IntakeFetch, IntakeTimeout,
       IntakeAnswer, IntakeMissing

LEMMA BoundWorker ==
    ASSUME Held, RetriesBounded, NEW r \in Runs, WorkerStep(r) \/ WorkerFault(r)
    PROVE  RetriesBounded'
<1>1. run[r].phase # "free" /\ \E phase : run' = SetPhase({r}, phase)
  BY DEF WorkerStep, WorkerStart, WorkerEnd, WorkerFault
<1>2. run[r].job \in Jobs /\ RetryBound(run[r].job, run[r].retry)
  BY <1>1, HeldRun DEF RetriesBounded
<1>3. UpdateJob(run[r].job, run[r].retry) \/ stored' = stored
  BY DEF WorkerStep, WorkerStart, WorkerEnd, WorkerFault, storeVars
<1>4. \A i \in Jobs : stored'[i] = stored[i] \/ stored'[i] \notin Nat \/ RetryBound(i, stored'[i])
  BY <1>2, <1>3, StoredBound
<1>5. \A x \in Runs : run'[x] = run[x] \/ SameCount(x)
  BY <1>1 DEF SetPhase, SameCount, Held, TypeOK, RunType
<1> QED BY <1>4, <1>5, RunsBound, BoundKept

\* handleErroredJob: the count grows only when it differs from maxRetries, and
\* by the invariant it was not above it.
LEMMA BoundSettle ==
    ASSUME Held, RetriesBounded, NEW s \in Servers, NEW r \in Runs, Settle(s, r)
    PROVE  RetriesBounded'
<1>1. run[r].phase # "free"
  BY DEF Settle
<1>2. run[r].job \in Jobs /\ run[r].retry \in Nat /\ RetryBound(run[r].job, run[r].retry)
  BY <1>1, HeldRun DEF RetriesBounded
<1>3. CASE UpdateJob(run[r].job, run[r].retry) /\ \E phase : run' = SetPhase({r}, phase)
  <2>1. \A x \in Runs : run'[x] = run[x] \/ SameCount(x)
    BY <1>1, <1>3 DEF SameCount, SetPhase, Held, TypeOK, RunType
  <2> QED BY <1>2, <1>3, <2>1, StoredBound, RunsBound, BoundKept
<1>4. CASE /\ ~IsDead(r)
           /\ run' = [run EXCEPT ![r] = [run[r] EXCEPT !.phase = "retrying", !.retry = run[r].retry + 1]]
           /\ UpdateJob(run[r].job, run[r].retry + 1)
  <2>1. RetryBound(run[r].job, run[r].retry + 1)
    BY <1>2, <1>4 DEF RetryBound, IsDead
  <2>2. run'[r].job = run[r].job /\ run'[r].retry = run[r].retry + 1
    BY <1>4 DEF Held, TypeOK, RunType
  <2>3. \A x \in Runs \ {r} : run'[x] = run[x]
    BY <1>4 DEF Held, TypeOK
  <2>4. \A i \in Jobs : stored'[i] = stored[i] \/ stored'[i] \notin Nat \/ RetryBound(i, stored'[i])
    BY <1>2, <1>4, <2>1, StoredBound
  <2>5. \A x \in Runs : \/ run'[x].phase = "free"
                       \/ SameCount(x)
                       \/ RetryBound(run'[x].job, run'[x].retry)
    BY <2>1, <2>2, <2>3 DEF SameCount
  <2> QED BY <2>4, <2>5, BoundKept
<1>5. \/ UpdateJob(run[r].job, run[r].retry) /\ \E phase : run' = SetPhase({r}, phase)
      \/ /\ ~IsDead(r)
         /\ run' = [run EXCEPT ![r] = [run[r] EXCEPT !.phase = "retrying", !.retry = run[r].retry + 1]]
         /\ UpdateJob(run[r].job, run[r].retry + 1)
  BY DEF Settle
<1> QED BY <1>3, <1>4, <1>5

\* The outcome of a worker, or the end of its list, forgets runs and writes one count.
LEMMA BoundSettled ==
    ASSUME Held, RetriesBounded, NEW s \in Servers, Finish(s) \/ SettleFault(s)
    PROVE  RetriesBounded'
<1> DEFINE r == loop[s].cur
<1>1. \A x \in Runs : run'[x] = run[x] \/ run'[x].phase = "free"
  BY DEF Finish, SettleFault, Forget, FreeRun
<1>2. CASE stored' = stored
  BY <1>1, <1>2, RunsBound, BoundKept
<1>3. CASE loop[s].pc = "finish" /\ SettleEffect(r)
  <2>1. r \in Runs /\ run[r].job \in Jobs
    BY <1>3, LoopCur
  <2>2. run[r].phase # "free"
    BY <1>3 DEF SettleEffect
  <2>3. RetryBound(run[r].job, run[r].retry)
    BY <2>1, <2>2 DEF RetriesBounded
  <2>4. UnsafeDeleteJob(run[r].job) \/ \E z : AddToSet(z, run[r].job, run[r].retry)
    BY <1>3 DEF SettleEffect
  <2> HIDE DEF r
  <2> QED BY <1>1, <2>1, <2>3, <2>4, StoredBound, RunsBound, BoundKept
<1> QED BY <1>2, <1>3 DEF Finish, SettleFault, storeVars

LEMMA BoundLoop ==
    ASSUME Held, RetriesBounded, NEW s \in Servers,
           HandleCompletedJobs(s) \/ StartJobs(s) \/ StartFault(s)
    PROVE  RetriesBounded'
<1>1. \A x \in Runs : run'[x] = run[x] \/ SameCount(x)
  BY DEF SameCount, HandleCompletedJobs, StartJobs, StartFault, SetPhase, RunsOf, Held, TypeOK, RunType
<1>2. stored' = stored
  BY DEF HandleCompletedJobs, StartJobs, StartFault, storeVars
<1> QED BY <1>1, <1>2, RunsBound, BoundKept

LEMMA BoundCleanup ==
    ASSUME Held, RetriesBounded, NEW s \in Servers,
           CleanupRequeue(s) \/ CleanupFault(s) \/ \E r \in Runs : CleanupUpdate(s, r)
    PROVE  RetriesBounded'
<1>1. ASSUME NEW r \in Runs, run[r].phase # "free", run' = run \/ run' = [run EXCEPT ![r].requeued = TRUE],
             \/ stored' = stored \/ UpdateJob(run[r].job, run[r].retry)
             \/ Requeue(run[r].job, run[r].retry)
      PROVE  RetriesBounded'
  <2>1. run[r].job \in Jobs /\ RetryBound(run[r].job, run[r].retry)
    BY <1>1, HeldRun DEF RetriesBounded
  <2>2. \A i \in Jobs : stored'[i] = stored[i] \/ stored'[i] \notin Nat \/ RetryBound(i, stored'[i])
    BY <1>1, <2>1, StoredBound
  <2>3. \A x \in Runs : run'[x] = run[x] \/ SameCount(x)
    <3>1. run[r] \in RunType /\ run \in [Runs -> RunType]
      BY DEF Held, TypeOK
    <3> DEFINE d == [run[r] EXCEPT !.requeued = TRUE]
    <3>2. d.job = run[r].job /\ d.retry = run[r].retry
      BY <3>1 DEF RunType
    <3>3. \A x \in Runs : run'[x] = run[x] \/ (x = r /\ run'[x] = d)
      BY <1>1, <3>1
    <3> HIDE DEF d
    <3> QED BY <1>1, <3>2, <3>3 DEF SameCount
  <2> QED BY <2>2, <2>3, RunsBound, BoundKept
<1>2. ASSUME NEW r \in Runs, CleanupUpdate(s, r) PROVE RetriesBounded'
  <2>1. run[r].phase # "free"
    BY <1>2 DEF CleanupUpdate, Held, LoopOwns, RunsOf, Active
  <2> QED BY <1>1, <1>2, <2>1 DEF CleanupUpdate
<1>3. CASE CleanupRequeue(s) \/ (CleanupFault(s) /\ loop[s].pc = "requeue")
  <2>1. loop[s].cur \in Runs /\ run[loop[s].cur].phase # "free"
    BY <1>3 DEF CleanupRequeue, Held, LoopOwns, RunsOf, Active
  <2> QED BY <1>1, <1>3, <2>1 DEF CleanupRequeue, CleanupFault, storeVars
<1>4. CASE CleanupFault(s) /\ loop[s].pc # "requeue"
  <2>1. stored' = stored /\ run' = run
    BY <1>4 DEF CleanupFault, storeVars
  <2> QED BY <2>1, RunsBound, BoundKept
<1> QED BY <1>2, <1>3, <1>4

LEMMA BoundInit == Init => RetriesBounded
BY StoreAssumption DEF Init, StoreInit, FreeRun, RetriesBounded

LEMMA BoundNext == Held /\ RetriesBounded /\ [Next]_vars => RetriesBounded'
<1> SUFFICES ASSUME Held, RetriesBounded, [Next]_vars PROVE RetriesBounded'
  OBVIOUS
<1>1. CASE \E j \in Jobs : Submit(j)
  <2>1. PICK j \in Jobs : Submit(j)
    BY <1>1
  <2>2. RetryBound(j, 0)
    BY DEF RetryBound
  <2>3. \A i \in Jobs : stored'[i] = stored[i] \/ stored'[i] \notin Nat \/ RetryBound(i, stored'[i])
    BY <2>1, <2>2 DEF Submit, Enqueue, Held, TypeOK, StoreTypeOK
  <2> QED BY <2>1, <2>3, RunsBound, BoundKept DEF Submit
<1>2. CASE \E s \in Servers : IntakeStep(s) \/ IntakeFault(s)
  BY <1>2, BoundIntake
<1>3. CASE \E r \in Runs : WorkerStep(r) \/ WorkerFault(r)
  BY <1>3, BoundWorker
<1>4. CASE \E s \in Servers : LoopStep(s) \/ SettleFault(s) \/ StartFault(s) \/ CleanupFault(s)
  <2>1. PICK s \in Servers : LoopStep(s) \/ SettleFault(s) \/ StartFault(s) \/ CleanupFault(s)
    BY <1>4
  <2>2. CASE CleanupWorkers(s) \/ CleanupEnd(s) \/ ShutdownDone(s)
    <3>1. stored' = stored /\ run' = run
      BY <2>2 DEF CleanupWorkers, CleanupEnd, ShutdownDone, storeVars
    <3> QED BY <3>1, RunsBound, BoundKept
  <2> QED BY <2>1, <2>2, BoundLoop, BoundSettle, BoundSettled, BoundCleanup DEF LoopStep
<1>5. CASE \E s \in Servers : Exit(s) \/ Crash(s)
  <2>1. stored' = stored /\ \A x \in Runs : run'[x] = run[x] \/ run'[x].phase = "free"
    BY <1>5 DEF Exit, Crash, Vanish, Forget, FreeRun, storeVars
  <2> QED BY <2>1, RunsBound, BoundKept
<1>6. CASE \/ UNCHANGED vars
           \/ \E s \in Servers : Shutdown(s)
  <2>1. stored' = stored /\ run' = run
    BY <1>6 DEF vars, serverVars, Shutdown, storeVars
  <2> QED BY <2>1, RunsBound, BoundKept
<1> QED
  BY <1>1, <1>2, <1>3, <1>4, <1>5, <1>6 DEF Next, Faults

\* The retry count of a job never passes its maxRetries, in Redis or in the
\* memory of a server, so that the === of handleErroredJob always ends the job.
THEOREM RetriesAreBounded == Spec => []RetriesBounded
<1>1. Init => Held /\ RetriesBounded
  BY HeldInit, BoundInit
<1>2. Held /\ RetriesBounded /\ [Next]_vars => Held' /\ RetriesBounded'
  BY HeldNext, BoundNext
<1> QED BY <1>1, <1>2, PTL DEF Spec
=============================================================================
