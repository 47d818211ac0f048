---------------------------- MODULE SystemProofs ----------------------------
(***************************************************************************)
(* Theorems about System: the running system together with the panel, for  *)
(* every set of servers, pollers, requests, jobs, queues and runs.         *)
(*                                                                         *)
(* A step is one of the running system, about which TaskBotProofs and      *)
(* LifecycleProofs have said everything that concerns one step, or one     *)
(* command of a request, which changes the store, the request and what is  *)
(* recorded of requests.  A request that launches a queued job is the one  *)
(* place that has it between the LREM and the push.  What servers and      *)
(* pollers keep for every job, the system keeps for the jobs no launch has *)
(* pushed out of a set.                                                    *)
(***************************************************************************)
EXTENDS System, LifecycleProofs

-----------------------------------------------------------------------------
(* LREM *)

\* A nonempty set of numbers has a smallest member.
LEMMA SmallestNumber ==
    ASSUME NEW I, I \subseteq Nat, I # {}
    PROVE  Min(I) \in I /\ \A x \in I : Min(I) <= x
<1>1. PICK R : IsWellFoundedOn(R, Nat) /\ \A x, y \in Nat : x < y => <<x, y>> \in R
  BY LessIsWellFounded
<1>2. \E m \in I : \A x \in I : m <= x
  BY <1>1, LeastOfRelation
<1> QED BY <1>2 DEF Min

\* RemoveFirst takes out one place that holds e and moves what follows it up.
LEMMA RemoveFirstRemoves ==
    ASSUME NEW S, NEW s \in Seq(S), NEW e
    PROVE  \/ RemoveFirst(s, e) = s /\ \A i \in 1 .. Len(s) : s[i] # e
           \/ \E i \in 1 .. Len(s) :
                 /\ s[i] = e
                 /\ RemoveFirst(s, e) \in Seq(S)
                 /\ Len(RemoveFirst(s, e)) = Len(s) - 1
                 /\ \A m \in 1 .. Len(s) - 1 :
                        RemoveFirst(s, e)[m] = IF m < i THEN s[m] ELSE s[m + 1]
<1>1. CASE \A i \in 1 .. Len(s) : s[i] # e
  BY <1>1 DEF RemoveFirst
<1>2. CASE \E i \in 1 .. Len(s) : s[i] = e
  <2> DEFINE I == {i \in 1 .. Len(s) : s[i] = e}
  <2>1. I \subseteq Nat /\ I # {}
    BY <1>2
  <2>2. PICK m : m = Min(I)
    OBVIOUS
  <2>3. m \in I
    BY <2>1, <2>2, SmallestNumber
  <2>4. RemoveFirst(s, e) = SubSeq(s, 1, m - 1) \o SubSeq(s, m + 1, Len(s))
    BY <1>2, <2>1, <2>2 DEF RemoveFirst, SelectInSeq, RemoveAt
  <2>5. m \in 1 .. Len(s) /\ s[m] = e
    BY <2>3
  <2> DEFINE a == SubSeq(s, 1, m - 1)
             b == SubSeq(s, m + 1, Len(s))
  <2>6. a \in Seq(S) /\ Len(a) = m - 1 /\ \A x \in 1 .. m - 1 : a[x] = s[x]
    BY <2>5
  <2>7. b \in Seq(S) /\ Len(b) = Len(s) - m /\ \A x \in 1 .. Len(s) - m : b[x] = s[x + m]
    BY <2>5
  <2> HIDE DEF a, b, I
  <2>8. /\ a \o b \in Seq(S) /\ Len(a \o b) = Len(s) - 1
        /\ \A x \in 1 .. Len(s) - 1 : (a \o b)[x] = IF x < m THEN a[x] ELSE b[x - (m - 1)]
    <3>1. Len(a) \in Nat /\ Len(b) \in Nat /\ Len(a) + Len(b) = Len(s) - 1 /\ Len(a) + 1 = m
      BY <2>5, <2>6, <2>7
    <3>2. a \in Seq(S) /\ b \in Seq(S)
      BY <2>6, <2>7
    <3>3. /\ a \o b \in Seq(S) /\ Len(a \o b) = Len(a) + Len(b)
          /\ \A x \in 1 .. Len(a) + Len(b) : (a \o b)[x] = IF x <= Len(a) THEN a[x] ELSE b[x - Len(a)]
      BY ONLY <3>2
    <3>4. Len(a) = m - 1 /\ \A x \in 1 .. Len(s) - 1 : x <= Len(a) <=> x < m
      BY <2>5, <3>1
    <3> QED BY <3>1, <3>3, <3>4
  <2>9. \A x \in 1 .. Len(s) - 1 : (a \o b)[x] = IF x < m THEN s[x] ELSE s[x + 1]
    <3> SUFFICES ASSUME NEW x \in 1 .. Len(s) - 1
                 PROVE  (a \o b)[x] = IF x < m THEN s[x] ELSE s[x + 1]
      OBVIOUS
    <3>1. CASE x < m
      BY <2>5, <2>6, <2>8, <3>1
    <3>2. CASE ~(x < m)
      <4>1. x - (m - 1) \in 1 .. Len(s) - m /\ x - (m - 1) + m = x + 1
        BY <2>5, <3>2
      <4> QED BY <2>7, <2>8, <3>2, <4>1
    <3> QED BY <3>1, <3>2
  <2>10. RemoveFirst(s, e) = a \o b
    BY <2>4 DEF a, b
  <2> QED BY <2>5, <2>8, <2>9, <2>10
<1> QED BY <1>1, <1>2

\* LREM of a job that is once in its queue takes it out, and no other job.
LEMMA LremTakes ==
    ASSUME StoreTypeOK, QueuesSorted, NEW j \in Jobs,
           queue' = [queue EXCEPT ![QueueOf[j]] = RemoveFirst(@, j)]
    PROVE  /\ queue' \in [Queues -> Seq(Jobs)] /\ QueuesSorted'
           /\ AtMostOne(InQueue(j)) => InQueue(j)' = {}
           /\ InQueue(j) = {} => UNCHANGED queue
           /\ \A k \in Jobs \ {j} : QueueKept(k)
<1> DEFINE l == queue[QueueOf[j]]
           m == RemoveFirst(l, j)
<1>1. QueueOf[j] \in Queues /\ l \in Seq(Jobs)
  BY StoreAssumption DEF StoreTypeOK
<1>2. queue'[QueueOf[j]] = m /\ \A q \in Queues \ {QueueOf[j]} : queue'[q] = queue[q]
  BY <1>1 DEF StoreTypeOK
<1>3. InQueue(j) = {i \in 1 .. Len(l) : l[i] = j}
  BY <1>1 DEF InQueue
<1>4. CASE m = l /\ \A i \in 1 .. Len(l) : l[i] # j
  <2>1. UNCHANGED queue
    BY <1>1, <1>4 DEF StoreTypeOK
  <2>2. InQueue(j) = {}
    BY <1>3, <1>4
  <2> QED BY <2>1, <2>2, QueueUntouched DEF StoreTypeOK, InQueue
<1>5. ASSUME NEW i \in 1 .. Len(l), l[i] = j, m \in Seq(Jobs), Len(m) = Len(l) - 1,
             \A x \in 1 .. Len(l) - 1 : m[x] = IF x < i THEN l[x] ELSE l[x + 1]
      PROVE  /\ queue' \in [Queues -> Seq(Jobs)] /\ QueuesSorted'
             /\ AtMostOne(InQueue(j)) => InQueue(j)' = {}
             /\ InQueue(j) = {} => UNCHANGED queue
             /\ \A k \in Jobs \ {j} : QueueKept(k)
  <2> DEFINE from(x) == IF x < i THEN x ELSE x + 1
  <2>1. Len(l) \in Nat /\ DOMAIN l = 1 .. Len(l) /\ DOMAIN m = 1 .. Len(l) - 1
    BY <1>1, <1>5
  <2>2. \A x \in 1 .. Len(l) - 1 : from(x) \in 1 .. Len(l) /\ from(x) # i /\ m[x] = l[from(x)]
    BY <1>5, <2>1
  <2>3. \A x, y \in 1 .. Len(l) - 1 : from(x) = from(y) => x = y
    BY <1>5, <2>1
  <2>4. \A y \in 1 .. Len(l) : y # i => \E x \in 1 .. Len(l) - 1 : from(x) = y
    <3> SUFFICES ASSUME NEW y \in 1 .. Len(l), y # i PROVE \E x \in 1 .. Len(l) - 1 : from(x) = y
      OBVIOUS
    <3>1. CASE y < i
      BY <1>5, <2>1, <3>1
    <3>2. CASE y > i
      <4>1. y - 1 \in 1 .. Len(l) - 1 /\ from(y - 1) = y
        BY <1>5, <2>1, <3>2
      <4> QED BY <4>1
    <3> QED BY <3>1, <3>2
  <2>5. queue' \in [Queues -> Seq(Jobs)]
    BY <1>1, <1>5 DEF StoreTypeOK
  <2> HIDE DEF l, m, from
  <2>6. \A k \in Jobs : QueueOf[k] = QueueOf[j] => /\ InQueue(k) = {y \in 1 .. Len(l) : l[y] = k}
                                                   /\ InQueue(k)' = {x \in 1 .. Len(l) - 1 : m[x] = k}
    BY <1>2, <2>1 DEF InQueue, l
  <2>7. QueuesSorted'
    <3> SUFFICES ASSUME NEW q \in Queues, NEW x \in DOMAIN queue'[q] PROVE QueueOf[queue'[q][x]] = q
      BY DEF QueuesSorted
    <3>1. CASE q # QueueOf[j]
      BY <1>2, <3>1 DEF QueuesSorted
    <3>2. CASE q = QueueOf[j]
      <4>1. m[x] = l[from(x)] /\ from(x) \in DOMAIN l /\ queue'[q] = m
        BY <1>2, <2>1, <2>2, <3>2
      <4> QED BY <3>2, <4>1 DEF QueuesSorted, l
    <3> QED BY <3>1, <3>2
  <2>8. i \in InQueue(j)
    BY <1>5, <2>6
  <2>9. ASSUME AtMostOne(InQueue(j)), NEW x \in InQueue(j)' PROVE FALSE
    <3>1. from(x) \in InQueue(j) /\ from(x) # i
      BY <2>2, <2>6, <2>9
    <3> QED BY <2>8, <2>9, <3>1 DEF AtMostOne
  <2>10. ASSUME NEW k \in Jobs \ {j}, QueueOf[k] = QueueOf[j] PROVE QueueKept(k)
    <3>1. ASSUME NEW x \in InQueue(k)' PROVE x \in 1 .. Len(l) - 1 /\ from(x) \in InQueue(k)
      BY <2>2, <2>6, <2>10, <3>1
    <3>2. ASSUME NEW y \in InQueue(k) PROVE InQueue(k)' # {}
      <4>1. y \in 1 .. Len(l) /\ l[y] = k /\ y # i
        BY <1>5, <2>6, <2>10, <3>2
      <4>2. PICK x \in 1 .. Len(l) - 1 : from(x) = y
        BY <2>4, <4>1
      <4> QED BY <2>2, <2>6, <2>10, <4>1, <4>2
    <3>3. AtMostOne(InQueue(k)) => AtMostOne(InQueue(k)')
      BY <2>3, <3>1 DEF AtMostOne
    <3> QED BY <3>1, <3>2, <3>3 DEF QueueKept
  <2>11. ASSUME NEW k \in Jobs \ {j}, QueueOf[k] # QueueOf[j] PROVE QueueKept(k)
    BY <1>2, <2>11, StoreAssumption DEF QueueKept, InQueue
  <2> QED BY <2>5, <2>7, <2>8, <2>9, <2>10, <2>11
<1>6. \/ m = l /\ \A i \in 1 .. Len(l) : l[i] # j
      \/ \E i \in 1 .. Len(l) : /\ l[i] = j /\ m \in Seq(Jobs) /\ Len(m) = Len(l) - 1
                                 /\ \A x \in 1 .. Len(l) - 1 : m[x] = IF x < i THEN l[x] ELSE l[x + 1]
  <2>1. l \in Seq(Jobs)
    BY <1>1
  <2> HIDE DEF l
  <2> QED BY <2>1, RemoveFirstRemoves
<1> QED BY <1>4, <1>5, <1>6

-----------------------------------------------------------------------------
(* The inductive invariant *)

\* A request that launches a queued job has read a payload.
RequestsHold ==
    \A p \in Requests :
        request[p].pc = "lrem" /\ request[p].kind = "launch" => request[p].retry \in Nat

SysGrounded == BotGrounded /\ APITypeOK /\ RequestsHold

SysUnheld(j) == BotUnheld(j) /\ LaunchingQueued(j) = {}

SysAlone(j) ==
    /\ BotAlone(j) /\ AtMostOne(LaunchingQueued(j))
    /\ LaunchingQueued(j) # {} => BotUnheld(j)

SysCustody ==
    /\ SysGrounded
    /\ \A j \in Jobs \ relaunched :
            /\ SysAlone(j)
            /\ j \notin submitted \/ j \in completed => SysUnheld(j)
            /\ j \in completed => j \in submitted

\* A job nobody has completed or discarded has its payload, ...
SysPendingHasPayload == \A j \in submitted \ (completed \cup discarded) : stored[j] # NoPayload

\* ... and is somewhere while no server stops and no call of one fails.
SysNothingLost == Undisturbed => \A j \in submitted \ (completed \cup discarded) : ~SysUnheld(j)

\* What a launch has read it may write back.
RequestsBounded ==
    \A p \in Requests :
        request[p].pc \in {"lrem", "move", "requeue"} /\ request[p].retry \in Nat
            => \A j \in request[p].jobs : RetryBound(j, request[p].retry)

-----------------------------------------------------------------------------
(* The steps of the system *)

Answers(p) == Serve(p) \/ ServeFault(p)

LEMMA SysCases ==
    ASSUME [SysNext]_sysVars
    PROVE  ([BotNext]_botVars /\ UNCHANGED apiVars) \/ \E p \in Requests : Answers(p)
BY DEF SysNext, sysVars, Answers

\* A command of a request touches the store and what is known of requests.
LEMMA AnswerTouches ==
    ASSUME NEW p, Answers(p)
    PROVE  /\ UNCHANGED <<proc, intake, loop, run, budget, submitted, performed, failures, completed>>
           /\ UNCHANGED <<poller, failedUse>>
           /\ RequestStep(p) \/ RequestFault(p)
BY DEF Answers, Serve, ServeFault, serverVars, pollerVars

\* What a request is after one of its commands.
Becomes(p, x) ==
    /\ x \in RequestType
    /\ request' = [request EXCEPT ![p] = x]
    /\ x.pc \in {"move", "requeue"} => x.retry \in Nat
    /\ x.pc = "lrem" /\ x.kind = "launch" => x.retry \in Nat
    /\ x.pc \in {"lrem", "move", "requeue"} /\ x.retry \in Nat =>
          \/ x.jobs = request[p].jobs /\ x.retry = request[p].retry /\ request[p].pc = "lrem"
          \/ \E j \in Jobs : x.jobs = {j} /\ x.retry = stored[j]

\* What a command asks of the store: nothing, or one of six things.
Asks(p, x, j) ==
    \/ /\ request[p].pc = "move" /\ Move(p, j) /\ x.pc = "done"
    \/ /\ request[p].pc = "lrem" /\ RemoveQueued(p, j)
       /\ x.pc = "requeue" <=> request[p].kind = "launch" /\ InQueue(j) # {}
       /\ x.pc \in {"done", "requeue"}
       /\ x.pc = "requeue" => x.jobs = {j}
    \/ /\ request[p].pc = "requeue" /\ RequeueLaunched(p, j) /\ x.pc = "done"
    \/ /\ request[p].pc = "zrem" /\ DeleteFromSet(p, j) /\ x.pc = "del"
    \/ /\ request[p].pc = "del" /\ DeletePayload(p, j) /\ x.pc = "done"

LEMMA GotoType ==
    ASSUME APITypeOK, NEW p \in Requests, NEW pc, Goto(p, pc),
           pc \in {"new", "contains", "read", "move", "lrem", "requeue", "zrem", "del", "scan", "clean", "done"}
    PROVE  \E x \in RequestType :
                /\ request' = [request EXCEPT ![p] = x] /\ x.pc = pc
                /\ pc # "done" => x.kind = request[p].kind /\ x.jobs = request[p].jobs /\ x.retry = request[p].retry
<1>1. request[p] \in RequestType /\ NewRequest \in RequestType
  BY DEF APITypeOK, RequestType, NewRequest, Kinds, Places, SetNames
<1>2. CASE pc = "done"
  <2> DEFINE x == [NewRequest EXCEPT !.pc = pc]
  <2>1. x \in RequestType /\ x.pc = pc
    BY <1>1, <1>2 DEF RequestType
  <2>2. request' = [request EXCEPT ![p] = x]
    BY <1>2 DEF Goto, APITypeOK
  <2> QED BY <1>2, <2>1, <2>2
<1>3. CASE pc # "done"
  <2> DEFINE x == [request[p] EXCEPT !.pc = pc]
  <2>1. x \in RequestType /\ x.pc = pc /\ x.kind = request[p].kind /\ x.jobs = request[p].jobs
        /\ x.retry = request[p].retry
    BY <1>1 DEF RequestType
  <2>2. request' = [request EXCEPT ![p] = x]
    BY <1>3 DEF Goto, APITypeOK
  <2> QED BY <2>1, <2>2
<1> QED BY <1>2, <1>3

\* One command of a request: how the request goes on, and what it asks.
LEMMA RequestMoves ==
    ASSUME SysGrounded, NEW p \in Requests, RequestStep(p) \/ RequestFault(p)
    PROVE  \E x : /\ Becomes(p, x)
                  /\ \/ /\ UNCHANGED storeVars /\ x.pc # "requeue"
                        /\ \A k \in Jobs : p \in LaunchingQueued(k) => k \in discarded'
                     \/ \E j \in Jobs : request[p].jobs = {j} /\ Asks(p, x, j)
                     \/ request[p].pc = "clean" /\ CleanDead(p) /\ x.pc = "scan"
<1> DEFINE q == request[p]
           moves(x) == /\ Becomes(p, x)
                       /\ \/ /\ UNCHANGED storeVars /\ x.pc # "requeue"
                             /\ \A k \in Jobs : p \in LaunchingQueued(k) => k \in discarded'
                          \/ \E j \in Jobs : q.jobs = {j} /\ Asks(p, x, j)
                          \/ q.pc = "clean" /\ CleanDead(p) /\ x.pc = "scan"
<1>1. /\ APITypeOK /\ q \in RequestType /\ StoreTypeOK
      /\ q.pc = "lrem" /\ q.kind = "launch" => q.retry \in Nat
  BY DEF SysGrounded, BotGrounded, Grounded, Held, TypeOK, APITypeOK, RequestsHold
<1>2. q.pc # "requeue" => \A k \in Jobs : p \notin LaunchingQueued(k)
  BY DEF LaunchingQueued
<1>3. ASSUME NEW kind \in Kinds, NEW place \in Places, NEW j \in Jobs, Receive(p, kind, place, j)
      PROVE  \E x : moves(x)
  <2> DEFINE x == [pc |-> FirstStep(kind, place), kind |-> kind, place |-> place, jobs |-> {j}, retry |-> NoPayload]
  <2>1. FirstStep(kind, place) \in {"scan", "read", "contains", "lrem", "zrem"}
        /\ (FirstStep(kind, place) = "lrem" => kind = "delete")
    BY DEF FirstStep, Kinds
  <2>2. /\ x \in RequestType /\ x.retry \notin Nat
        /\ x.pc \in {"scan", "read", "contains", "lrem", "zrem"} /\ (x.pc = "lrem" => x.kind # "launch")
    BY <2>1, StoreAssumption DEF RequestType
  <2>3. request' = [request EXCEPT ![p] = x] /\ UNCHANGED storeVars /\ q.pc = "new"
    BY <1>3 DEF Receive
  <2> HIDE DEF x
  <2>4. Becomes(p, x)
    BY <2>2, <2>3 DEF Becomes
  <2> QED BY <1>2, <2>2, <2>3, <2>4
<1>4. ASSUME NEW j \in Jobs, CheckContains(p, j) PROVE \E x : moves(x)
  <2>1. PICK x \in RequestType : request' = [request EXCEPT ![p] = x] /\ x.pc \in {"read", "done"}
    BY <1>1, <1>4, GotoType DEF CheckContains
  <2>2. Becomes(p, x) /\ UNCHANGED storeVars /\ q.pc = "contains"
    BY <1>4, <2>1 DEF Becomes, CheckContains
  <2> QED BY <1>2, <2>1, <2>2
<1>5. ASSUME NEW j \in Jobs, ReadLaunched(p, j) PROVE \E x : moves(x)
  <2>1. q.pc = "read" /\ q.jobs = {j} /\ UNCHANGED storeVars
    BY <1>5 DEF ReadLaunched
  <2>2. CASE ~HasPayload(j)
    <3>1. PICK x \in RequestType : request' = [request EXCEPT ![p] = x] /\ x.pc = "done"
      BY <1>1, <1>5, <2>2, GotoType DEF ReadLaunched
    <3>2. Becomes(p, x)
      BY <3>1 DEF Becomes
    <3> QED BY <1>2, <2>1, <3>1, <3>2
  <2>3. CASE HasPayload(j)
    <3> DEFINE x == [q EXCEPT !.retry = stored[j], !.pc = IF q.place = "queue" THEN "lrem" ELSE "move"]
    <3>1. stored[j] \in Nat
      BY <1>1, <2>3 DEF HasPayload, StoreTypeOK
    <3>2. /\ x \in RequestType /\ x.retry = stored[j] /\ x.jobs = {j} /\ x.pc \in {"lrem", "move"}
      BY <1>1, <2>1, <3>1 DEF RequestType
    <3>3. request' = [request EXCEPT ![p] = x]
      BY <1>1, <1>5, <2>3 DEF ReadLaunched, APITypeOK
    <3> HIDE DEF x
    <3>4. Becomes(p, x)
      BY <3>1, <3>2, <3>3 DEF Becomes
    <3> QED BY <1>2, <2>1, <3>2, <3>4
  <2> QED BY <2>2, <2>3
<1>6. ASSUME NEW j \in Jobs, Move(p, j) PROVE \E x : moves(x)
  <2>1. PICK x \in RequestType : request' = [request EXCEPT ![p] = x] /\ x.pc = "done"
    BY <1>1, <1>6, GotoType DEF Move
  <2>2. Becomes(p, x) /\ q.pc = "move" /\ q.jobs = {j}
    BY <1>6, <2>1 DEF Becomes, Move
  <2> QED BY <1>6, <2>1, <2>2 DEF Asks
<1>7. ASSUME NEW j \in Jobs, RemoveQueued(p, j) PROVE \E x : moves(x)
  <2> DEFINE goes == q.kind = "launch" /\ InQueue(j) # {}
  <2>1. q.pc = "lrem" /\ q.jobs = {j} /\ Goto(p, IF goes THEN "requeue" ELSE "done")
    BY <1>7 DEF RemoveQueued
  <2> HIDE DEF goes
  <2>2. PICK x \in RequestType :
            /\ request' = [request EXCEPT ![p] = x] /\ x.pc = IF goes THEN "requeue" ELSE "done"
            /\ goes => x.kind = q.kind /\ x.jobs = q.jobs /\ x.retry = q.retry
    BY <1>1, <2>1, GotoType
  <2>3. Becomes(p, x)
    BY <1>1, <2>1, <2>2 DEF Becomes, goes
  <2>4. Asks(p, x, j)
    BY <1>7, <2>1, <2>2 DEF Asks, goes
  <2> QED BY <2>1, <2>3, <2>4
<1>8. ASSUME NEW j \in Jobs, RequeueLaunched(p, j) PROVE \E x : moves(x)
  <2>1. PICK x \in RequestType : request' = [request EXCEPT ![p] = x] /\ x.pc = "done"
    BY <1>1, <1>8, GotoType DEF RequeueLaunched
  <2>2. Becomes(p, x) /\ q.pc = "requeue" /\ q.jobs = {j}
    BY <1>8, <2>1 DEF Becomes, RequeueLaunched
  <2> QED BY <1>8, <2>1, <2>2 DEF Asks
<1>9. ASSUME NEW j \in Jobs, DeleteFromSet(p, j) PROVE \E x : moves(x)
  <2>1. PICK x \in RequestType : request' = [request EXCEPT ![p] = x] /\ x.pc = "del" /\ x.jobs = q.jobs
    BY <1>1, <1>9, GotoType DEF DeleteFromSet
  <2>2. q.pc = "zrem" /\ q.jobs = {j}
    BY <1>9 DEF DeleteFromSet
  <2>3. Becomes(p, x)
    BY <2>1, <2>2 DEF Becomes
  <2> QED BY <1>9, <2>1, <2>2, <2>3 DEF Asks
<1>10. ASSUME NEW j \in Jobs, DeletePayload(p, j) PROVE \E x : moves(x)
  <2>1. PICK x \in RequestType : request' = [request EXCEPT ![p] = x] /\ x.pc = "done"
    BY <1>1, <1>10, GotoType DEF DeletePayload
  <2>2. Becomes(p, x) /\ q.pc = "del" /\ q.jobs = {j}
    BY <1>10, <2>1 DEF Becomes, DeletePayload
  <2> QED BY <1>10, <2>1, <2>2 DEF Asks
<1>11. ASSUME ScanDead(p) PROVE \E x : moves(x)
  <2>1. q.pc = "scan" /\ UNCHANGED storeVars
    BY <1>11 DEF ScanDead
  <2>2. CASE Goto(p, "done")
    <3>1. PICK x \in RequestType : request' = [request EXCEPT ![p] = x] /\ x.pc = "done"
      BY <1>1, <2>2, GotoType
    <3>2. Becomes(p, x)
      BY <3>1 DEF Becomes
    <3> QED BY <1>2, <2>1, <3>1, <3>2
  <2>3. ASSUME NEW ids \in SUBSET zset["dead"],
               request' = [request EXCEPT ![p].jobs = ids, ![p].pc = "clean"]
        PROVE  \E x : moves(x)
    <3> DEFINE x == [q EXCEPT !.jobs = ids, !.pc = "clean"]
    <3>1. ids \subseteq Jobs
      BY <1>1 DEF StoreTypeOK, SetNames
    <3>2. x \in RequestType /\ x.pc = "clean"
      BY <1>1, <3>1 DEF RequestType
    <3>3. request' = [request EXCEPT ![p] = x]
      BY <1>1, <2>3 DEF APITypeOK
    <3> HIDE DEF x
    <3>4. Becomes(p, x)
      BY <3>2, <3>3 DEF Becomes
    <3> QED BY <1>2, <2>1, <3>2, <3>4
  <2> QED BY <1>11, <2>2, <2>3 DEF ScanDead
<1>12. ASSUME CleanDead(p) PROVE \E x : moves(x)
  <2>1. PICK x \in RequestType : request' = [request EXCEPT ![p] = x] /\ x.pc = "scan"
    BY <1>1, <1>12, GotoType DEF CleanDead
  <2>2. Becomes(p, x) /\ q.pc = "clean"
    BY <1>12, <2>1 DEF Becomes, CleanDead
  <2> QED BY <1>12, <2>1, <2>2
<1>13. ASSUME RequestFault(p) PROVE \E x : moves(x)
  <2>1. PICK x \in RequestType : request' = [request EXCEPT ![p] = x] /\ x.pc = "done"
    BY <1>1, <1>13, GotoType DEF RequestFault
  <2>2. Becomes(p, x) /\ UNCHANGED storeVars /\ \A k \in Jobs : p \in LaunchingQueued(k) => k \in discarded'
    BY <1>13, <2>1 DEF Becomes, RequestFault
  <2> QED BY <2>1, <2>2
<1> HIDE DEF moves
<1>14. \E x : moves(x)
  BY <1>3, <1>4, <1>5, <1>6, <1>7, <1>8, <1>9, <1>10, <1>11, <1>12, <1>13 DEF RequestStep
<1> QED BY <1>14 DEF moves

-----------------------------------------------------------------------------
(* What the commands of requests do to the store *)

\* What each command does with its own job; p is the request, x what it becomes.
Launches(p, x, j) ==
    \/ x.pc = "done" /\ j \in relaunched' /\ stored'[j] \in Nat /\ InQueue(j)' # {}
    \/ /\ x.pc = "requeue" /\ x.jobs = {j} /\ UNCHANGED stored /\ InSet(j)' = InSet(j)
       /\ InQueue(j) # {} /\ (AtMostOne(InQueue(j)) => InQueue(j)' = {})
    \/ x.pc # "requeue" /\ UNCHANGED storeVars /\ request[p].pc # "requeue"
    \/ /\ x.pc = "done" /\ request[p].pc = "requeue" /\ stored'[j] \in Nat /\ InSet(j)' = InSet(j)
       /\ InQueue(j)' # {} /\ (InQueue(j) = {} => AtMostOne(InQueue(j)'))

Discards(p, x, j) ==
    /\ j \in discarded' /\ request[p].pc # "requeue" /\ x.pc # "requeue"
    /\ InSet(j)' \subseteq InSet(j)
    /\ InQueue(j) = {} => InQueue(j)' = {}
    /\ AtMostOne(InQueue(j)) => AtMostOne(InQueue(j)')

\* The other jobs stay as they are.
Spares(j) ==
    /\ StoreTypeOK' /\ QueuesSorted'
    /\ \A k \in Jobs \ {j} : QueueKept(k) /\ InSet(k)' = InSet(k) /\ stored'[k] = stored[k]
    /\ discarded' \in {discarded, discarded \cup {j}} /\ relaunched' \in {relaunched, relaunched \cup {j}}

LEMMA AsksStore ==
    ASSUME SysGrounded, NEW p \in Requests, NEW x, NEW j \in Jobs, request[p].jobs = {j}, Asks(p, x, j)
    PROVE  Spares(j) /\ (Launches(p, x, j) \/ Discards(p, x, j))
<1> DEFINE q == request[p]
<1>1. /\ StoreTypeOK /\ QueuesSorted /\ q \in RequestType /\ NoPayload \notin Nat
      /\ q.pc \in {"move", "requeue"} => q.retry \in Nat
  BY StoreAssumption DEF SysGrounded, BotGrounded, Grounded, Held, TypeOK, APITypeOK, RequestsHold
<1>2. QueueOf[j] \in Queues /\ queue \in [Queues -> Seq(Jobs)]
  BY <1>1, StoreAssumption DEF StoreTypeOK
<1>3. CASE q.pc = "move" /\ Move(p, j) /\ x.pc = "done"
  <2>1. /\ zset' = [zset EXCEPT ![q.place] = @ \ {j}] /\ stored' = [stored EXCEPT ![j] = q.retry]
        /\ relaunched' = relaunched \cup {j} /\ UNCHANGED discarded /\ q.retry \in Nat
    BY <1>1, <1>3 DEF Move
  <2>2. /\ zset' \in [SetNames -> SUBSET Jobs] /\ stored' \in [Jobs -> Nat \cup {NoPayload}]
        /\ stored'[j] \in Nat /\ \A k \in Jobs \ {j} : InSet(k)' = InSet(k) /\ stored'[k] = stored[k]
    BY <1>1, <2>1 DEF StoreTypeOK, InSet
  <2>3. queue' \in [Queues -> Seq(Jobs)] /\ Pushed(j)
    <3>1. CASE q.place = "scheduled"
      <4>1. queue' = [queue EXCEPT ![QueueOf[j]] = Append(@, j)]
        BY <1>3, <3>1 DEF Move
      <4>2. Append(queue[QueueOf[j]], j) \in Seq(Jobs)
        BY <1>2
      <4> QED BY <1>1, <1>2, <4>1, <4>2, RpushPushes
    <3>2. CASE q.place # "scheduled"
      <4>1. queue' = [queue EXCEPT ![QueueOf[j]] = Cons(j, @)]
        BY <1>3, <3>2 DEF Move
      <4>2. Cons(j, queue[QueueOf[j]]) \in Seq(Jobs)
        BY <1>2 DEF Cons
      <4> QED BY <1>1, <1>2, <4>1, <4>2, LpushPushes
    <3> QED BY <3>1, <3>2
  <2> QED BY <1>3, <2>1, <2>2, <2>3 DEF Spares, Launches, StoreTypeOK, Pushed
<1>4. CASE /\ q.pc = "lrem" /\ RemoveQueued(p, j)
           /\ x.pc = "requeue" <=> q.kind = "launch" /\ InQueue(j) # {}
           /\ x.pc \in {"done", "requeue"}
           /\ x.pc = "requeue" => x.jobs = {j}
  <2>1. /\ queue' = [queue EXCEPT ![QueueOf[j]] = RemoveFirst(@, j)] /\ UNCHANGED <<stored, zset, relaunched>>
        /\ discarded' = IF q.kind # "launch" /\ InQueue(j) # {} THEN discarded \cup {j} ELSE discarded
    BY <1>4 DEF RemoveQueued
  <2>2. /\ queue' \in [Queues -> Seq(Jobs)] /\ QueuesSorted'
        /\ AtMostOne(InQueue(j)) => InQueue(j)' = {}
        /\ InQueue(j) = {} => UNCHANGED queue
        /\ \A k \in Jobs \ {j} : QueueKept(k)
    BY <1>1, <2>1, LremTakes
  <2>3. \A k \in Jobs : InSet(k)' = InSet(k)
    BY <2>1 DEF InSet
  <2>4. Spares(j)
    BY <1>1, <2>1, <2>2, <2>3 DEF Spares, StoreTypeOK
  <2>5. CASE q.kind = "launch" /\ InQueue(j) # {}
    BY <1>4, <2>1, <2>2, <2>3, <2>4, <2>5 DEF Launches
  <2>6. CASE InQueue(j) = {}
    BY <1>4, <2>1, <2>2, <2>4, <2>6 DEF Launches, storeVars
  <2>7. CASE q.kind # "launch" /\ InQueue(j) # {}
    <3>1. InQueue(j) = {} => InQueue(j)' = {}
      BY <2>2 DEF InQueue
    <3> QED BY <1>4, <2>1, <2>2, <2>3, <2>4, <2>7, <3>1 DEF Discards, AtMostOne
  <2> QED BY <2>5, <2>6, <2>7
<1>5. CASE q.pc = "requeue" /\ RequeueLaunched(p, j) /\ x.pc = "done"
  <2>1. Requeue(j, q.retry) /\ UNCHANGED <<relaunched, discarded>> /\ q.retry \in Nat
    BY <1>1, <1>5 DEF RequeueLaunched
  <2>2. StoreTypeOK' /\ Pushed(j)
    BY <1>1, <2>1, RequeueType, RequeuePushes
  <2>3. /\ stored'[j] \in Nat /\ \A k \in Jobs \ {j} : stored'[k] = stored[k]
        /\ \A k \in Jobs : InSet(k)' = InSet(k)
    BY <1>1, <2>1 DEF Requeue, StoreTypeOK, InSet
  <2> QED BY <1>5, <2>1, <2>2, <2>3 DEF Spares, Launches, Pushed
<1>6. CASE \/ q.pc = "zrem" /\ DeleteFromSet(p, j) /\ x.pc = "del"
           \/ q.pc = "del" /\ DeletePayload(p, j) /\ x.pc = "done"
  <2>1. /\ UNCHANGED <<queue, relaunched>>
        /\ \/ /\ zset' = [zset EXCEPT ![q.place] = @ \ {j}] /\ UNCHANGED stored
              /\ discarded' = IF j \in zset[q.place] THEN discarded \cup {j} ELSE discarded
           \/ /\ stored' = [stored EXCEPT ![j] = NoPayload] /\ UNCHANGED zset
              /\ discarded' = discarded \cup {j}
    BY <1>1, <1>6 DEF DeleteFromSet, DeletePayload, Zrem, UnsafeDeleteJob
  <2>2. /\ zset' \in [SetNames -> SUBSET Jobs] /\ stored' \in [Jobs -> Nat \cup {NoPayload}]
        /\ \A k \in Jobs : InSet(k)' \subseteq InSet(k)
        /\ \A k \in Jobs \ {j} : InSet(k)' = InSet(k) /\ stored'[k] = stored[k]
    BY <1>1, <2>1 DEF StoreTypeOK, InSet
  <2>3. QueuesSorted' /\ \A k \in Jobs : QueueKept(k)
    BY <1>1, <2>1, QueueUntouched
  <2>4. Spares(j)
    BY <1>1, <2>1, <2>2, <2>3 DEF Spares, StoreTypeOK
  <2>5. CASE j \in discarded'
    BY <1>6, <2>2, <2>3, <2>4, <2>5 DEF Discards, QueueKept
  <2>6. CASE j \notin discarded'
    <3>1. zset' = [zset EXCEPT ![q.place] = @ \ {j}] /\ j \notin zset[q.place] /\ UNCHANGED <<queue, stored>>
      BY <2>1, <2>6
    <3>2. UNCHANGED zset
      BY <1>1, <3>1 DEF StoreTypeOK
    <3> QED BY <1>6, <2>4, <3>1, <3>2 DEF Launches, storeVars
  <2> QED BY <2>5, <2>6
<1> QED BY <1>3, <1>4, <1>5, <1>6 DEF Asks

\* The MULTI of cleanBetween takes members out of the dead set, and their
\* payloads.
LEMMA CleanStore ==
    ASSUME SysGrounded, NEW p \in Requests, CleanDead(p)
    PROVE  /\ StoreTypeOK' /\ QueuesSorted' /\ UNCHANGED relaunched
           /\ discarded \subseteq discarded' /\ discarded' \subseteq Jobs
           /\ \A k \in Jobs : /\ QueueKept(k) /\ InSet(k)' \subseteq InSet(k)
                              /\ k \notin discarded' => InSet(k)' = InSet(k) /\ stored'[k] = stored[k]
<1>1. StoreTypeOK /\ QueuesSorted /\ request[p].jobs \subseteq Jobs /\ discarded \subseteq Jobs
  BY DEF SysGrounded, BotGrounded, Grounded, Held, TypeOK, APITypeOK, RequestType
<1>2. /\ zset' = [zset EXCEPT !["dead"] = @ \ request[p].jobs] /\ UNCHANGED <<queue, relaunched>>
      /\ stored' = [j \in Jobs |-> IF j \in request[p].jobs THEN NoPayload ELSE stored[j]]
      /\ discarded' = discarded \cup request[p].jobs
  BY DEF CleanDead
<1>3. /\ zset' \in [SetNames -> SUBSET Jobs] /\ stored' \in [Jobs -> Nat \cup {NoPayload}]
      /\ \A k \in Jobs : /\ InSet(k)' \subseteq InSet(k)
                         /\ k \notin request[p].jobs => InSet(k)' = InSet(k) /\ stored'[k] = stored[k]
  BY <1>1, <1>2 DEF StoreTypeOK, InSet, SetNames
<1> QED BY <1>1, <1>2, <1>3, QueueUntouched DEF StoreTypeOK

-----------------------------------------------------------------------------
(* SysGrounded is inductive. *)

\* What is recorded of requests stays recorded, and is about jobs.
LEMMA RecordsGrow ==
    ASSUME APITypeOK, NEW p \in Requests, RequestStep(p) \/ RequestFault(p)
    PROVE  /\ relaunched \subseteq relaunched' /\ relaunched' \subseteq Jobs
           /\ discarded \subseteq discarded' /\ discarded' \subseteq Jobs
<1>1. request[p].jobs \subseteq Jobs /\ relaunched \subseteq Jobs /\ discarded \subseteq Jobs
  BY DEF APITypeOK, RequestType
<1>2. ASSUME NEW j \in Jobs, \/ CheckContains(p, j) \/ ReadLaunched(p, j) \/ Move(p, j)
                             \/ RemoveQueued(p, j) \/ RequeueLaunched(p, j)
                             \/ DeleteFromSet(p, j) \/ DeletePayload(p, j)
      PROVE  relaunched' \in {relaunched, relaunched \cup {j}} /\ discarded' \in {discarded, discarded \cup {j}}
  <2>1. relaunched' \in {relaunched, relaunched \cup {j}}
    BY <1>2 DEF CheckContains, ReadLaunched, Move, RemoveQueued, RequeueLaunched, DeleteFromSet, DeletePayload
  <2>2. discarded' \in {discarded, discarded \cup {j}}
    BY <1>2 DEF CheckContains, ReadLaunched, Move, RemoveQueued, RequeueLaunched, DeleteFromSet, DeletePayload
  <2> QED BY <2>1, <2>2
<1>3. CASE \/ \E kind \in Kinds, place \in Places, j \in Jobs : Receive(p, kind, place, j)
           \/ ScanDead(p)
  BY <1>1, <1>3 DEF Receive, ScanDead
<1>4. CASE CleanDead(p) \/ RequestFault(p)
  BY <1>1, <1>4 DEF CleanDead, RequestFault
<1> QED BY <1>1, <1>2, <1>3, <1>4 DEF RequestStep

LEMMA SysGroundedAnswers ==
    ASSUME SysGrounded, NEW p \in Requests, Answers(p)
    PROVE  SysGrounded'
<1>1. PICK x : /\ Becomes(p, x)
               /\ \/ UNCHANGED storeVars
                  \/ \E j \in Jobs : request[p].jobs = {j} /\ Asks(p, x, j)
                  \/ CleanDead(p)
  BY AnswerTouches, RequestMoves
<1>2. /\ StoreTypeOK /\ QueuesSorted /\ APITypeOK /\ discarded \subseteq Jobs /\ relaunched \subseteq Jobs
  BY DEF SysGrounded, BotGrounded, Grounded, Held, TypeOK, APITypeOK
<1>3. /\ StoreTypeOK' /\ QueuesSorted' /\ relaunched' \subseteq Jobs
      /\ discarded \subseteq discarded' /\ discarded' \subseteq Jobs
  <2>1. CASE UNCHANGED storeVars
    <3>1. StoreTypeOK' /\ QueuesSorted'
      BY <1>2, <2>1, QueueUntouched DEF storeVars, StoreTypeOK
    <3> QED BY <1>2, <3>1, AnswerTouches, RecordsGrow
  <2>2. CASE \E j \in Jobs : request[p].jobs = {j} /\ Asks(p, x, j)
    <3>1. PICK j \in Jobs : Spares(j)
      BY <2>2, AsksStore
    <3> QED BY <1>2, <3>1 DEF Spares
  <2>3. CASE CleanDead(p)
    BY <1>2, <2>3, CleanStore
  <2> QED BY <1>1, <2>1, <2>2, <2>3
<1>4. BotGrounded'
  BY <1>3, AnswerTouches DEF SysGrounded, BotGrounded, Grounded, Held, TypeOK, RunsHeld, IntakeHeld, LoopOwns, RunsOf,
        FreeIsEmpty, HandedBack, PollerTypeOK, PollersHold
<1>5. /\ request' \in [Requests -> RequestType] /\ request'[p] = x
      /\ \A r \in Requests \ {p} : request'[r] = request[r]
  BY <1>1, <1>2 DEF Becomes, APITypeOK
<1>6. /\ \A r \in Requests : request'[r].pc \in {"move", "requeue"} => request'[r].retry \in Nat
      /\ \A r \in Requests : request'[r].pc = "lrem" /\ request'[r].kind = "launch" => request'[r].retry \in Nat
  BY <1>1, <1>2, <1>5 DEF Becomes, APITypeOK, SysGrounded, RequestsHold
<1> QED BY <1>3, <1>4, <1>5, <1>6 DEF SysGrounded, APITypeOK, RequestsHold

LEMMA SysGroundedInit == SysInit => SysGrounded
<1> SUFFICES ASSUME SysInit PROVE SysGrounded
  OBVIOUS
<1>1. NewRequest \in RequestType /\ NewRequest.pc = "new"
  BY DEF NewRequest, RequestType, Kinds, Places, SetNames
<1> QED BY <1>1, BotGroundedInit DEF SysInit, APIInit, SysGrounded, APITypeOK, RequestsHold

LEMMA SysGroundedNext == SysGrounded /\ [SysNext]_sysVars => SysGrounded'
<1>1. SysGrounded /\ [BotNext]_botVars /\ UNCHANGED apiVars => SysGrounded'
  BY BotGroundedNext DEF SysGrounded, apiVars, APITypeOK, RequestsHold
<1> QED BY <1>1, SysCases, SysGroundedAnswers

-----------------------------------------------------------------------------
(* SysCustody is inductive. *)

\* Passes, with what the requests hold.
SysPasses(k) == (SysAlone(k) => SysAlone(k)') /\ (SysUnheld(k) => SysUnheld(k)')

\* What the requests hold is all that changes, besides queues and sets.
LEMMA AnswerPlaces ==
    ASSUME NEW p, Answers(p), NEW k
    PROVE  IntakesOf(k)' = IntakesOf(k) /\ BearersOf(k)' = BearersOf(k) /\ HeldBy(k)' = HeldBy(k)
BY AnswerTouches DEF IntakesOf, BearersOf, HeldBy

LEMMA LaunchingMoves ==
    ASSUME SysGrounded, NEW p \in Requests, NEW x, Becomes(p, x), NEW k
    PROVE  /\ LaunchingQueued(k)' = IF x.pc = "requeue" /\ x.jobs = {k} THEN LaunchingQueued(k) \cup {p}
                                                                 ELSE LaunchingQueued(k) \ {p}
           /\ p \in LaunchingQueued(k) <=> request[p].pc = "requeue" /\ request[p].jobs = {k}
BY DEF Becomes, SysGrounded, APITypeOK, LaunchingQueued

\* A command that puts the job in no queue or set.
LEMMA AnswerShrinks ==
    ASSUME NEW p, Answers(p), NEW k, InSet(k)' \subseteq InSet(k),
           InQueue(k) = {} => InQueue(k)' = {}, AtMostOne(InQueue(k)) => AtMostOne(InQueue(k)'),
           LaunchingQueued(k)' \subseteq LaunchingQueued(k)
    PROVE  SysPasses(k)
BY AnswerPlaces DEF SysPasses, SysAlone, SysUnheld, BotAlone, BotUnheld, Alone, Unheld, AtMostOne

\* A command of a request hands a job on, unless it launches the job from a
\* set, and loses it only if that is recorded.
LEMMA AnswerCustody ==
    ASSUME SysGrounded, NEW p \in Requests, Answers(p), NEW k \in Jobs
    PROVE  /\ k \notin relaunched' => SysPasses(k)
           /\ k \notin discarded' => (SysUnheld(k)' => SysUnheld(k))
<1>1. PICK x : /\ Becomes(p, x)
               /\ \/ /\ UNCHANGED storeVars /\ x.pc # "requeue"
                     /\ \A i \in Jobs : p \in LaunchingQueued(i) => i \in discarded'
                  \/ \E j \in Jobs : request[p].jobs = {j} /\ Asks(p, x, j)
                  \/ request[p].pc = "clean" /\ CleanDead(p) /\ x.pc = "scan"
  BY AnswerTouches, RequestMoves
<1>2. /\ LaunchingQueued(k)' = IF x.pc = "requeue" /\ x.jobs = {k} THEN LaunchingQueued(k) \cup {p}
                                                            ELSE LaunchingQueued(k) \ {p}
      /\ p \in LaunchingQueued(k) <=> request[p].pc = "requeue" /\ request[p].jobs = {k}
  BY <1>1, LaunchingMoves
<1>3. IntakesOf(k)' = IntakesOf(k) /\ BearersOf(k)' = BearersOf(k) /\ HeldBy(k)' = HeldBy(k)
  BY AnswerPlaces
<1>4. CASE /\ UNCHANGED storeVars /\ x.pc # "requeue"
           /\ \A i \in Jobs : p \in LaunchingQueued(i) => i \in discarded'
  <2>1. InQueue(k)' = InQueue(k) /\ InSet(k)' = InSet(k)
    BY <1>4 DEF storeVars, InQueue, InSet
  <2>2. LaunchingQueued(k)' \subseteq LaunchingQueued(k)
        /\ (k \notin discarded' => LaunchingQueued(k)' = LaunchingQueued(k))
    BY <1>2, <1>4
  <2> QED BY <1>3, <2>1, <2>2, AnswerShrinks DEF SysUnheld, BotUnheld, Unheld
<1>5. CASE request[p].pc = "clean" /\ CleanDead(p) /\ x.pc = "scan"
  <2>1. QueueKept(k) /\ InSet(k)' \subseteq InSet(k) /\ (k \notin discarded' => InSet(k)' = InSet(k))
    BY <1>5, CleanStore
  <2>2. LaunchingQueued(k)' = LaunchingQueued(k)
    BY <1>2, <1>5
  <2> QED BY <1>3, <2>1, <2>2, AnswerShrinks DEF QueueKept, SysUnheld, BotUnheld, Unheld
<1>6. ASSUME NEW j \in Jobs, request[p].jobs = {j}, Asks(p, x, j)
      PROVE  /\ k \notin relaunched' => SysPasses(k)
             /\ k \notin discarded' => (SysUnheld(k)' => SysUnheld(k))
  <2>1. Spares(j) /\ (Launches(p, x, j) \/ Discards(p, x, j))
    BY <1>6, AsksStore
  <2>2. x.pc = "requeue" => x.jobs = {j}
    BY <1>6 DEF Asks
  <2>3. CASE k # j
    <3>1. QueueKept(k) /\ InSet(k)' = InSet(k)
      BY <2>1, <2>3 DEF Spares
    <3>2. LaunchingQueued(k)' = LaunchingQueued(k)
      BY <1>2, <1>6, <2>2, <2>3
    <3> QED BY <1>3, <3>1, <3>2, AnswerShrinks DEF QueueKept, SysUnheld, BotUnheld, Unheld
  <2>4. CASE k = j /\ Discards(p, x, j)
    BY <1>2, <2>4, AnswerShrinks DEF Discards
  <2>5. CASE k = j /\ x.pc = "done" /\ j \in relaunched' /\ InQueue(j)' # {}
    BY <2>5 DEF SysUnheld, BotUnheld, Unheld
  <2>6. CASE /\ k = j /\ x.pc = "requeue" /\ x.jobs = {j} /\ InSet(j)' = InSet(j)
             /\ InQueue(j) # {} /\ (AtMostOne(InQueue(j)) => InQueue(j)' = {})
    <3>1. ~SysUnheld(k) /\ ~SysUnheld(k)'
      BY <1>2, <2>6 DEF SysUnheld, BotUnheld, Unheld
    <3>2. ASSUME SysAlone(k) PROVE SysAlone(k)'
      <4>1. /\ InSet(k) = {} /\ IntakesOf(k) = {} /\ BearersOf(k) = {} /\ HeldBy(k) = {}
            /\ LaunchingQueued(k) = {} /\ InQueue(k)' = {}
        BY <2>6, <3>2 DEF SysAlone, BotAlone, BotUnheld, Alone, Unheld
      <4>2. LaunchingQueued(k)' = {p} /\ BotUnheld(k)'
        BY <1>2, <1>3, <2>6, <4>1 DEF BotUnheld, Unheld
      <4> QED BY <4>2 DEF SysAlone, BotAlone, Alone, BotUnheld, Unheld, AtMostOne
    <3> QED BY <3>1, <3>2 DEF SysPasses
  <2>7. CASE k = j /\ x.pc # "requeue" /\ UNCHANGED storeVars /\ request[p].pc # "requeue"
    <3>1. InQueue(k)' = InQueue(k) /\ InSet(k)' = InSet(k) /\ LaunchingQueued(k)' = LaunchingQueued(k)
      BY <1>2, <2>7 DEF storeVars, InQueue, InSet
    <3> QED BY <1>3, <3>1, AnswerShrinks DEF SysUnheld, BotUnheld, Unheld
  <2>8. CASE /\ k = j /\ x.pc = "done" /\ request[p].pc = "requeue" /\ InSet(j)' = InSet(j)
             /\ InQueue(j)' # {} /\ (InQueue(j) = {} => AtMostOne(InQueue(j)'))
    <3>1. p \in LaunchingQueued(k) /\ ~SysUnheld(k) /\ ~SysUnheld(k)' /\ LaunchingQueued(k)' = LaunchingQueued(k) \ {p}
      BY <1>2, <1>6, <2>8 DEF SysUnheld, BotUnheld, Unheld
    <3>2. ASSUME SysAlone(k) PROVE SysAlone(k)'
      <4>1. BotUnheld(k) /\ LaunchingQueued(k)' = {}
        BY <3>1, <3>2 DEF SysAlone, AtMostOne
      <4>2. BotAlone(k)'
        BY <1>3, <2>8, <4>1 DEF BotAlone, BotUnheld, Alone, Unheld, AtMostOne
      <4> QED BY <4>1, <4>2 DEF SysAlone, AtMostOne
    <3> QED BY <3>1, <3>2 DEF SysPasses
  <2> QED BY <2>1, <2>3, <2>4, <2>5, <2>6, <2>7, <2>8 DEF Launches
<1> QED BY <1>1, <1>4, <1>5, <1>6

\* The launches go on while a step of the others is taken.
LEMMA LaunchingStays ==
    ASSUME UNCHANGED apiVars, NEW k
    PROVE  LaunchingQueued(k)' = LaunchingQueued(k)
BY DEF apiVars, LaunchingQueued

LEMMA SysCustodyInit == SysInit => SysCustody
<1> SUFFICES ASSUME SysInit, NEW j \in Jobs PROVE SysAlone(j) /\ SysUnheld(j)
  BY SysGroundedInit DEF SysCustody, SysInit, BotInit, Init
<1>1. LaunchingQueued(j) = {}
  BY DEF SysInit, APIInit, NewRequest, LaunchingQueued
<1>2. BotAlone(j) /\ BotUnheld(j)
  BY BotCustodyInit DEF SysInit, BotInit, Init, BotCustody, BotHeldIsPending
<1> QED BY <1>1, <1>2 DEF SysAlone, SysUnheld, AtMostOne

LEMMA SysCustodyNext == SysCustody /\ [SysNext]_sysVars => SysCustody'
<1> SUFFICES ASSUME SysCustody, [SysNext]_sysVars, NEW k \in Jobs \ relaunched'
             PROVE  /\ SysAlone(k)'
                    /\ k \notin submitted' \/ k \in completed' => SysUnheld(k)'
                    /\ k \in completed' => k \in submitted'
  BY SysGroundedNext DEF SysCustody
<1>1. SysGrounded
  BY DEF SysCustody
<1>2. CASE [BotNext]_botVars /\ UNCHANGED apiVars
  <2>1. k \notin relaunched /\ LaunchingQueued(k)' = LaunchingQueued(k)
    BY <1>2, LaunchingStays DEF apiVars
  <2>2. /\ SysAlone(k) /\ (k \notin submitted \/ k \in completed => SysUnheld(k))
        /\ k \in completed => k \in submitted
    BY <2>1 DEF SysCustody
  <2>3. /\ k \notin submitted' \ submitted => BotPasses(k)
        /\ k \in submitted' \ submitted => (BotUnheld(k) => BotAlone(k)')
        /\ k \in completed' \ completed => ~BotUnheld(k) /\ (BotAlone(k) => BotUnheld(k)')
    BY <1>1, <1>2, BotCustodyStep DEF SysGrounded
  <2>4. k \in submitted => k \in submitted'
    BY <1>1, <1>2, HistoryGrows DEF SysGrounded
  <2>5. CASE k \in submitted' \ submitted
    BY <2>1, <2>2, <2>3, <2>5 DEF SysAlone, SysUnheld
  <2>6. CASE k \notin submitted' \ submitted
    <3>1. SysAlone(k)' /\ (SysUnheld(k) => SysUnheld(k)')
      BY <2>1, <2>2, <2>3, <2>6 DEF BotPasses, SysAlone, SysUnheld, AtMostOne
    <3>2. k \in completed' \ completed => SysUnheld(k)' /\ k \in submitted
      BY <2>1, <2>2, <2>3 DEF SysAlone, SysUnheld
    <3> QED BY <2>2, <2>4, <2>6, <3>1, <3>2
  <2> QED BY <1>1, <2>5, <2>6
<1>3. ASSUME NEW p \in Requests, Answers(p)
      PROVE  /\ SysAlone(k)' /\ (k \notin submitted' \/ k \in completed' => SysUnheld(k)')
             /\ k \in completed' => k \in submitted'
  <2>1. k \notin relaunched
    BY <1>1, <1>3, AnswerTouches, RecordsGrow DEF SysGrounded
  <2>2. /\ SysAlone(k) /\ (k \notin submitted \/ k \in completed => SysUnheld(k))
        /\ k \in completed => k \in submitted
    BY <2>1 DEF SysCustody
  <2>3. SysPasses(k)
    BY <1>1, <1>3, AnswerCustody
  <2> QED BY <1>3, <2>2, <2>3, AnswerTouches DEF SysPasses
<1> QED BY <1>1, <1>2, <1>3, SysCases

LEMMA SysCustodyHolds == SysSpec => []SysCustody
BY SysCustodyInit, SysCustodyNext, PTL DEF SysSpec

\* The custodians of a job are none, or one, as its places say.
LEMMA SysCustodiansOfPlaces ==
    ASSUME NEW j \in Jobs
    PROVE  /\ SysCustodians(j) = {} <=> SysUnheld(j)
           /\ SysAlone(j) => AtMostOne(SysCustodians(j))
<1>1. SysCustodians(j) = {} <=> SysUnheld(j)
  BY BotCustodiansOfPlaces DEF SysCustodians, SysUnheld
<1>2. ASSUME SysAlone(j) PROVE AtMostOne(SysCustodians(j))
  <2>1. CASE LaunchingQueued(j) = {}
    <3>1. SysCustodians(j) = BotCustodians(j)
      BY <2>1 DEF SysCustodians
    <3> QED BY <1>2, <3>1, BotCustodiansOfPlaces DEF SysAlone
  <2>2. CASE LaunchingQueued(j) # {}
    <3>1. SysCustodians(j) = {<<"request", p>> : p \in LaunchingQueued(j)} /\ AtMostOne(LaunchingQueued(j))
      BY <1>2, <2>2, BotCustodiansOfPlaces DEF SysCustodians, SysAlone
    <3> QED BY <3>1 DEF AtMostOne
  <2> QED BY <2>1, <2>2
<1> QED BY <1>1, <1>2

\* Servers, pollers and requests keep the shape the code gives them.
THEOREM SystemKeepsType == SysSpec => [](TypeOK /\ PollerTypeOK /\ APITypeOK)
<1>1. SysCustody => TypeOK /\ PollerTypeOK /\ APITypeOK
  BY DEF SysCustody, SysGrounded, BotGrounded, Grounded, Held
<1> QED BY SysCustodyHolds, <1>1, PTL

\* Whatever the panel deletes, cleans or launches from a queue, and whatever it
\* races with, no job gets into two hands: only a launch from a sorted set can
\* duplicate one.
THEOREM SysCustodyIsSingle == SysSpec => []SysSingleCustody
<1>1. SysCustody => SysSingleCustody
  BY SysCustodiansOfPlaces, OneAtMost DEF SysCustody, SysSingleCustody
<1> QED BY SysCustodyHolds, <1>1, PTL

-----------------------------------------------------------------------------
(* Nothing is lost that nobody discarded. *)

LEMMA SysPendingNext == SysGrounded /\ SysPendingHasPayload /\ [SysNext]_sysVars => SysPendingHasPayload'
<1> SUFFICES ASSUME SysGrounded, SysPendingHasPayload, [SysNext]_sysVars,
                    NEW k \in submitted', k \notin completed', k \notin discarded'
             PROVE  stored'[k] # NoPayload
  BY DEF SysPendingHasPayload
<1>1. k \in Jobs /\ NoPayload \notin Nat
  BY SysGroundedNext, StoreAssumption DEF SysGrounded, BotGrounded, Grounded, Held, TypeOK
<1>2. CASE [BotNext]_botVars /\ UNCHANGED apiVars
  <2>1. k \notin completed /\ k \notin discarded
    BY <1>2, HistoryGrows DEF SysGrounded, apiVars
  <2> QED BY <1>1, <1>2, <2>1, BotPayloadKept DEF SysGrounded, SysPendingHasPayload
<1>3. ASSUME NEW p \in Requests, Answers(p) PROVE stored'[k] # NoPayload
  <2>1. k \in submitted /\ k \notin completed /\ k \notin discarded
    BY <1>3, AnswerTouches, RecordsGrow DEF SysGrounded
  <2>2. stored[k] # NoPayload
    BY <2>1 DEF SysPendingHasPayload
  <2>3. PICK x : \/ UNCHANGED storeVars
                 \/ \E j \in Jobs : request[p].jobs = {j} /\ Asks(p, x, j)
                 \/ CleanDead(p)
    BY <1>3, AnswerTouches, RequestMoves
  <2>4. CASE UNCHANGED storeVars
    BY <2>2, <2>4 DEF storeVars
  <2>5. CASE CleanDead(p)
    BY <1>1, <2>2, <2>5, CleanStore
  <2>6. ASSUME NEW j \in Jobs, request[p].jobs = {j}, Asks(p, x, j) PROVE stored'[k] # NoPayload
    BY <1>1, <2>2, <2>6, AsksStore DEF Spares, Launches, Discards, storeVars
  <2> QED BY <2>3, <2>4, <2>5, <2>6
<1> QED BY <1>2, <1>3, SysCases

LEMMA SysChargedNext == SysGrounded /\ Charged /\ [SysNext]_sysVars => Charged'
<1>1. ASSUME Charged, NEW p \in Requests, Answers(p) PROVE Charged'
  BY <1>1, AnswerTouches DEF Charged, Undisturbed
<1> QED BY <1>1, SysCases, BotChargedNext DEF SysGrounded

\* A client puts a new job in a queue or in the scheduled set.
LEMMA NewJobsArrive ==
    ASSUME BotGrounded, [BotNext]_botVars, NEW k \in submitted' \ submitted
    PROVE  ~BotUnheld(k)'
<1>1. StoreTypeOK /\ QueuesSorted
  BY DEF BotGrounded, Grounded, Held, TypeOK
<1>2. CASE Submit(k) /\ k \in Jobs
  BY <1>1, <1>2, EnqueuePushes DEF Submit, Pushed, BotUnheld, Unheld
<1>3. CASE ScheduleAt(k) /\ k \in Jobs
  BY <1>1, <1>3, AddToSetAdds DEF ScheduleAt, SetNames, BotUnheld, Unheld
<1>4. CASE Serves
  <2>1. PICK j \in Jobs : Submit(j) /\ submitted' = submitted \cup {j}
    BY <1>4, HistorySteps DEF Serves
  <2> QED BY <1>2, <2>1
<1>5. CASE \E j \in Jobs : ScheduleAt(j)
  BY <1>3, <1>5 DEF ScheduleAt
<1>6. CASE Polls
  BY <1>6, PollTouches
<1> QED BY <1>4, <1>5, <1>6, BotCases

LEMMA SysNothingLostNext ==
    SysGrounded /\ SysPendingHasPayload /\ Charged /\ SysNothingLost /\ [SysNext]_sysVars => SysNothingLost'
<1> SUFFICES ASSUME SysGrounded, SysPendingHasPayload, Charged, SysNothingLost, [SysNext]_sysVars, Undisturbed',
                    NEW k \in submitted', k \notin completed', k \notin discarded'
             PROVE  ~SysUnheld(k)'
  BY DEF SysNothingLost
<1>1. k \in Jobs
  BY SysGroundedNext DEF SysGrounded, BotGrounded, Grounded, Held, TypeOK
<1>2. CASE [BotNext]_botVars /\ UNCHANGED apiVars
  <2>1. BotGrounded /\ TypeOK
    BY DEF SysGrounded, BotGrounded, Grounded, Held
  <2>2. ~(\E b \in Budgets : Spend(b)) /\ UNCHANGED budget
    BY <1>2, <2>1, SpendingDisturbs, BotBudgetSteps
  <2>3. \A s \in Servers : proc[s] = "up"
    BY <2>2 DEF Charged, Undisturbed
  <2>4. LaunchingQueued(k)' = LaunchingQueued(k)
    BY <1>2, LaunchingStays
  <2>5. CASE k \in submitted' \ submitted
    BY <1>2, <2>1, <2>5, NewJobsArrive DEF SysUnheld
  <2>6. CASE k \in submitted
    <3>1. k \notin completed /\ k \notin discarded
      BY <1>2, <2>1, HistoryGrows DEF apiVars
    <3>2. HasPayload(k) /\ ~SysUnheld(k)
      BY <2>2, <2>6, <3>1 DEF SysPendingHasPayload, HasPayload, SysNothingLost, Undisturbed
    <3>3. BotKeeps(k)
      BY <1>1, <1>2, <2>1, <2>2, <2>3, <2>6, <3>2, BotKeepsOrCompletes
    <3> QED BY <2>4, <3>2, <3>3 DEF BotKeeps, SysUnheld
  <2> QED BY <2>5, <2>6
<1>3. ASSUME NEW p \in Requests, Answers(p) PROVE ~SysUnheld(k)'
  <2>1. k \in submitted /\ k \notin completed /\ k \notin discarded /\ Undisturbed
    BY <1>3, AnswerTouches, RecordsGrow DEF SysGrounded, Undisturbed
  <2>2. ~SysUnheld(k)
    BY <2>1 DEF SysNothingLost
  <2> QED BY <1>1, <1>3, <2>2, AnswerCustody
<1> QED BY <1>2, <1>3, SysCases

\* While no server stops and no call of one fails, a job that is neither
\* completed nor deleted, cleaned or lost with the request that held it is in
\* some place, however launches race with servers, pollers and each other.
THEOREM SysJobsAreAccounted == SysSpec => []SysJobsAccounted
<1> DEFINE Inv == SysGrounded /\ SysPendingHasPayload /\ Charged /\ SysNothingLost
<1>1. SysInit => Inv
  <2>1. SysInit => submitted = {} /\ Charged
    BY ChargedInit DEF SysInit, BotInit, Init
  <2> QED BY <2>1, SysGroundedInit DEF SysPendingHasPayload, SysNothingLost
<1>2. Inv /\ [SysNext]_sysVars => Inv'
  BY SysGroundedNext, SysPendingNext, SysChargedNext, SysNothingLostNext
<1>3. Inv => SysJobsAccounted
  <2>1. SysGrounded => submitted \subseteq Jobs
    BY DEF SysGrounded, BotGrounded, Grounded, Held, TypeOK
  <2> QED BY <2>1, SysCustodiansOfPlaces DEF SysNothingLost, SysJobsAccounted
<1> HIDE DEF Inv
<1> QED BY <1>1, <1>2, <1>3, PTL DEF SysSpec

-----------------------------------------------------------------------------
(* No request carries a count past its bound. *)

LEMMA RequestsBoundNext ==
    ASSUME SysGrounded, RetriesBounded, RequestsBounded, NEW p \in Requests, Answers(p)
    PROVE  RetriesBounded' /\ RequestsBounded'
<1>1. PICK x : /\ Becomes(p, x)
               /\ \/ UNCHANGED storeVars
                  \/ \E j \in Jobs : request[p].jobs = {j} /\ Asks(p, x, j)
                  \/ CleanDead(p)
  BY AnswerTouches, RequestMoves
<1>2. request \in [Requests -> RequestType] /\ StoreTypeOK /\ UNCHANGED run
  BY AnswerTouches DEF SysGrounded, APITypeOK, BotGrounded, Grounded, Held, TypeOK
<1>3. RequestsBounded'
  <2> SUFFICES ASSUME NEW r \in Requests, request'[r].pc \in {"lrem", "move", "requeue"}, request'[r].retry \in Nat,
                      NEW i \in request'[r].jobs
               PROVE  RetryBound(i, request'[r].retry)
    BY DEF RequestsBounded
  <2>1. CASE r # p
    BY <1>1, <1>2, <2>1 DEF Becomes, RequestsBounded
  <2>2. CASE r = p
    <3>1. request'[r] = x
      BY <1>1, <1>2, <2>2 DEF Becomes
    <3>2. \/ x.jobs = request[p].jobs /\ x.retry = request[p].retry /\ request[p].pc = "lrem"
          \/ \E j \in Jobs : x.jobs = {j} /\ x.retry = stored[j]
      BY <1>1, <3>1 DEF Becomes
    <3> QED BY <3>1, <3>2 DEF RequestsBounded, RetriesBounded
  <2> QED BY <2>1, <2>2
<1>4. \A i \in Jobs : stored'[i] = stored[i] \/ stored'[i] \notin Nat \/ RetryBound(i, stored'[i])
  <2> SUFFICES ASSUME NEW i \in Jobs, stored'[i] # stored[i], stored'[i] \in Nat PROVE RetryBound(i, stored'[i])
    OBVIOUS
  <2>1. CASE UNCHANGED storeVars
    BY <2>1 DEF storeVars
  <2>2. CASE CleanDead(p)
    BY <2>2, StoreAssumption DEF CleanDead
  <2>3. ASSUME NEW j \in Jobs, request[p].jobs = {j}, Asks(p, x, j) PROVE RetryBound(i, stored'[i])
    <3>1. \/ request[p].pc \in {"move", "requeue"} /\ stored' = [stored EXCEPT ![j] = request[p].retry]
          \/ stored' = [stored EXCEPT ![j] = NoPayload]
          \/ UNCHANGED stored
      BY <2>3 DEF Asks, Move, RemoveQueued, RequeueLaunched, DeleteFromSet, DeletePayload, Requeue, Zrem, UnsafeDeleteJob
    <3>2. i = j /\ request[p].pc \in {"move", "requeue"} /\ stored'[i] = request[p].retry
      BY <1>2, <3>1, StoreAssumption DEF StoreTypeOK
    <3> QED BY <2>3, <3>2 DEF RequestsBounded
  <2> QED BY <1>1, <2>1, <2>2, <2>3
<1>5. RetriesBounded'
  BY <1>2, <1>4, BoundKept DEF SameCount
<1> QED BY <1>3, <1>5

\* No launch brings back a count past the retries of the job, however old the
\* payload it read is: with the panel, too, the === of handleErroredJob ends
\* every job.
THEOREM SysRetriesAreBounded == SysSpec => []RetriesBounded
<1> DEFINE Inv == SysGrounded /\ Outcomes /\ RequestsBounded
<1>1. SysInit => Inv
  <2>1. SysInit => RequestsBounded
    BY DEF SysInit, APIInit, NewRequest, RequestsBounded
  <2> QED BY <2>1, SysGroundedInit, OutcomesInit DEF SysInit
<1>2. Inv /\ [SysNext]_sysVars => Inv'
  <2> SUFFICES ASSUME Inv, [SysNext]_sysVars PROVE Outcomes' /\ RequestsBounded'
    BY SysGroundedNext
  <2>1. CASE [BotNext]_botVars /\ UNCHANGED apiVars
    BY <2>1, OutcomesNext DEF SysGrounded, apiVars, RequestsBounded
  <2>2. ASSUME NEW p \in Requests, Answers(p) PROVE Outcomes' /\ RequestsBounded'
    <3>1. RetriesBounded' /\ RequestsBounded'
      BY <2>2, RequestsBoundNext DEF Outcomes
    <3>2. PollersBounded' /\ \A r \in Runs : Justified(r)'
      <4>1. UNCHANGED <<run, performed, poller>>
        BY <2>2, AnswerTouches
      <4>2. PollersBounded'
        BY <4>1 DEF Outcomes, PollersBounded
      <4> QED BY <4>1, <4>2, JustifiedKept DEF Outcomes, Unjudged
    <3> QED BY <3>1, <3>2 DEF Outcomes
  <2> QED BY <2>1, <2>2, SysCases
<1>3. Inv => RetriesBounded
  BY DEF Outcomes
<1> HIDE DEF Inv
<1> QED BY <1>1, <1>2, <1>3, PTL DEF SysSpec

-----------------------------------------------------------------------------
(* The counts of a job that was not launched out of a set *)

\* The job may still be handled, or be submitted.
SysLive(j) == j \notin submitted \/ ~SysUnheld(j)

\* The failed attempts of a job, with the one that is not counted yet.
Attempted(j) == IF Ahead(j) THEN failures[j] + 1 ELSE failures[j]

\* No copy of the count is ahead of the attempts, be it in a run, in a poller,
\* in the payload or read by a request that may write it back.
RunCounted(j, r) ==
    run[r].phase # "free" /\ run[r].job = j =>
        /\ run[r].retry <= Attempts(r)
        /\ run[r].phase = "dying" /\ j \in Handled /\ MaxRetries[j] \in Nat
                => run[r].retry = MaxRetries[j]

PollerCounted(j, p) == poller[p].pc = "use" /\ poller[p].job = j => poller[p].retry <= failures[j]

RequestCounted(j, p) ==
    request[p].pc \in {"lrem", "requeue"} /\ request[p].jobs = {j} /\ request[p].retry \in Nat
        => request[p].retry <= Attempted(j)

SysCounted(j) ==
    /\ \A r \in Runs : RunCounted(j, r)
    /\ \A p \in Pollers : PollerCounted(j, p)
    /\ SysLive(j) => /\ stored[j] \in Nat => stored[j] <= Attempted(j)
                     /\ \A p \in Requests : RequestCounted(j, p)
    /\ j \in zset["dead"] \cap Handled /\ MaxRetries[j] \in Nat => failures[j] > MaxRetries[j]

\* What SysCustody says of such a job.
SysKept(j) == SysAlone(j) /\ (j \notin submitted => SysUnheld(j))

CountsTyped(j) ==
    /\ failures[j] \in Nat /\ Attempted(j) \in Nat /\ failures[j] <= Attempted(j)
    /\ stored[j] \in Nat \cup {NoPayload}
    /\ \A r \in Runs : run[r].phase # "free" => run[r].job \in Jobs /\ run[r].retry \in Nat
    /\ \A p \in Pollers : poller[p].retry \in Nat

LEMMA CountTypes == SysGrounded => \A j \in Jobs : CountsTyped(j)
<1> SUFFICES ASSUME SysGrounded, NEW j \in Jobs PROVE CountsTyped(j)
  OBVIOUS
<1>1. failures[j] \in Nat /\ stored[j] \in Nat \cup {NoPayload}
  BY DEF SysGrounded, BotGrounded, Grounded, Held, TypeOK, StoreTypeOK
<1>2. Attempted(j) \in Nat /\ failures[j] <= Attempted(j)
  BY <1>1 DEF Attempted
<1>3. \A r \in Runs : run[r].phase # "free" => run[r].job \in Jobs /\ run[r].retry \in Nat
  BY HeldRun DEF SysGrounded, BotGrounded, Grounded
<1>4. \A p \in Pollers : poller[p].retry \in Nat
  BY DEF SysGrounded, BotGrounded, PollerTypeOK, PollerType
<1> QED BY <1>1, <1>2, <1>3, <1>4 DEF CountsTyped

LEMMA NextCountTypes == (SysGrounded => \A j \in Jobs : CountsTyped(j))'
BY CountTypes, PTL

\* A step of which each copy of the count stays what it was, goes, or agrees
\* with the attempts there are by then.
LEMMA SysCountedKept ==
    ASSUME SysGrounded, SysGrounded', NEW j \in Jobs, SysCounted(j), failures[j] <= failures'[j],
           SysLive(j)' => SysLive(j) /\ Attempted(j) <= Attempted(j)',
           \A r \in Runs : run'[r].job = j => GoesOn(r) \/ RunCounted(j, r)',
           stored'[j] \in Nat => stored'[j] = stored[j] \/ (SysLive(j)' => stored'[j] <= Attempted(j)'),
           \A p \in Pollers : poller'[p] = poller[p] \/ PollerCounted(j, p)',
           \A p \in Requests : request'[p] = request[p] \/ (SysLive(j)' => RequestCounted(j, p)'),
           j \in zset'["dead"] => j \in zset["dead"] \/ (j \in Handled /\ MaxRetries[j] \in Nat => failures'[j] > MaxRetries[j])
    PROVE  SysCounted(j)'
<1>1. /\ failures[j] \in Nat /\ Attempted(j) \in Nat /\ failures[j] <= Attempted(j)
      /\ failures'[j] \in Nat /\ Attempted(j)' \in Nat /\ failures'[j] <= Attempted(j)'
      /\ \A r \in Runs : run'[r].phase # "free" => run'[r].retry \in Nat
      /\ \A p \in Pollers : poller'[p].retry \in Nat
  BY CountTypes, NextCountTypes DEF CountsTyped
<1>2. ASSUME NEW r \in Runs PROVE RunCounted(j, r)'
  <2>1. SUFFICES ASSUME GoesOn(r), run'[r].phase # "free", run'[r].job = j PROVE RunCounted(j, r)'
    BY DEF RunCounted
  <2>2. RunCounted(j, r)
    BY DEF SysCounted
  <2>3. run[r].phase # "free" /\ run[r].job = j /\ run'[r].retry = run[r].retry /\ run'[r].retry \in Nat
        /\ (run'[r].phase = "retrying" <=> run[r].phase = "retrying") /\ (run'[r].phase = "dying" => run[r].phase = "dying")
    BY <1>1, <2>1 DEF GoesOn
  <2>4. run[r].retry <= Attempts(r) /\ Attempts(r) \in Nat /\ Attempts(r)' \in Nat /\ Attempts(r) <= Attempts(r)'
    BY <1>1, <2>1, <2>2, <2>3 DEF RunCounted, Attempts
  <2>5. run'[r].retry <= Attempts(r)'
    BY <2>3, <2>4
  <2> QED BY <2>2, <2>3, <2>5 DEF RunCounted
<1>3. ASSUME NEW p \in Pollers PROVE PollerCounted(j, p)'
  BY <1>1 DEF SysCounted, PollerCounted
<1>4. ASSUME SysLive(j)'
      PROVE  /\ stored'[j] \in Nat => stored'[j] <= Attempted(j)'
             /\ \A p \in Requests : RequestCounted(j, p)'
  BY <1>1, <1>4 DEF SysCounted, RequestCounted
<1>5. j \in zset'["dead"] /\ j \in Handled /\ MaxRetries[j] \in Nat => failures'[j] > MaxRetries[j]
  BY <1>1 DEF SysCounted
<1> QED BY <1>2, <1>3, <1>4, <1>5 DEF SysCounted

\* Of a job that is alone each step leaves it so, and brings it to no life.
LEMMA SysLiveStays ==
    ASSUME SysGrounded, [BotNext]_botVars, UNCHANGED apiVars, NEW j \in Jobs, SysKept(j)
    PROVE  SysLive(j)' => SysLive(j)
<1>1. LaunchingQueued(j)' = LaunchingQueued(j)
  BY LaunchingStays
<1>2. j \notin submitted' \ submitted => BotPasses(j)
  BY BotCustodyStep DEF SysGrounded
<1>3. j \in submitted => j \in submitted'
  BY HistoryGrows DEF SysGrounded
<1> QED BY <1>1, <1>2, <1>3 DEF SysLive, SysUnheld, BotPasses

\* A step of clients, servers or pollers in which no failure of the job is
\* counted.
LEMMA SysCountedCalm ==
    ASSUME SysGrounded, [BotNext]_botVars, UNCHANGED apiVars, NEW j \in Jobs, SysKept(j), SysCounted(j),
           failures'[j] = failures[j],
           SysLive(j)' /\ Ahead(j) => Ahead(j)',
           \A r \in Runs : run'[r].job = j => GoesOn(r) \/ RunCounted(j, r)',
           stored'[j] \in Nat => stored'[j] = stored[j] \/ (SysLive(j)' => stored'[j] <= Attempted(j)'),
           \A p \in Pollers : poller'[p] = poller[p] \/ PollerCounted(j, p)',
           j \in zset'["dead"] => j \in zset["dead"]
    PROVE  SysCounted(j)'
<1>1. SysGrounded'
  BY SysGroundedNext DEF SysNext, sysVars, botVars
<1>2. failures[j] \in Nat
  BY CountTypes DEF CountsTyped
<1>3. SysLive(j)' => SysLive(j) /\ Attempted(j) <= Attempted(j)'
  BY <1>2, SysLiveStays DEF Attempted
<1>4. \A p \in Requests : request'[p] = request[p]
  BY DEF apiVars
<1> QED BY <1>1, <1>2, <1>3, <1>4, SysCountedKept

\* The count that a run has and writes.
LEMMA RunWrites ==
    ASSUME SysGrounded, SysGrounded', NEW j \in Jobs, SysCounted(j), failures'[j] = failures[j],
           NEW x \in Runs, run[x].phase \notin {"free", "retrying"},
           stored' = [stored EXCEPT ![run[x].job] = run[x].retry]
    PROVE  stored'[j] = stored[j] \/ stored'[j] <= Attempted(j)'
<1>1. stored \in [Jobs -> Nat \cup {NoPayload}]
  BY DEF SysGrounded, BotGrounded, Grounded, Held, TypeOK, StoreTypeOK
<1>2. CASE run[x].job = j
  <2>1. stored'[j] = run[x].retry /\ run[x].retry <= failures[j]
    BY <1>1, <1>2 DEF SysCounted, RunCounted, Attempts
  <2>2. failures'[j] <= Attempted(j)' /\ run[x].retry \in Nat /\ failures[j] \in Nat /\ Attempted(j)' \in Nat
    BY CountTypes, NextCountTypes DEF CountsTyped
  <2> QED BY <2>1, <2>2
<1>3. CASE run[x].job # j
  BY <1>1, <1>3
<1> QED BY <1>2, <1>3

LEMMA SysCountedGoOn ==
    ASSUME SysGrounded, [BotNext]_botVars, UNCHANGED <<apiVars, pollerVars>>, NEW j \in Jobs, SysKept(j),
           SysCounted(j), GoOn
    PROVE  SysCounted(j)'
<1>1. SysGrounded'
  BY SysGroundedNext DEF SysNext, sysVars, botVars
<1>2. Ahead(j) => Ahead(j)'
  BY DEF Ahead, BearersOf, GoOn, RetryingStay
<1>3. stored'[j] = stored[j] \/ stored'[j] <= Attempted(j)'
  BY <1>1, RunWrites DEF GoOn
<1> QED BY <1>2, <1>3, SysCountedCalm DEF GoOn, pollerVars

LEMMA SysCountedClient ==
    ASSUME SysGrounded, [BotNext]_botVars, UNCHANGED apiVars, NEW j \in Jobs, SysKept(j), SysCounted(j),
           NEW k \in Jobs, (Submit(k) /\ UNCHANGED pollerVars) \/ ScheduleAt(k)
    PROVE  SysCounted(j)'
<1>1. SysGrounded'
  BY SysGroundedNext DEF SysNext, sysVars, botVars
<1>2. /\ UNCHANGED <<run, failures, poller>> /\ stored' = [stored EXCEPT ![k] = 0]
      /\ zset'["dead"] = zset["dead"]
  BY DEF Submit, ScheduleAt, pollerVars, Enqueue, AddToSet, SetNames, SysGrounded, BotGrounded, Grounded,
     Held, TypeOK, StoreTypeOK
<1>3. Ahead(j) => Ahead(j)'
  BY <1>2 DEF Ahead, BearersOf
<1>4. stored'[j] = stored[j] \/ stored'[j] <= Attempted(j)'
  <2>1. stored'[j] = stored[j] \/ stored'[j] = 0
    BY <1>2 DEF SysGrounded, BotGrounded, Grounded, Held, TypeOK, StoreTypeOK
  <2>2. Attempted(j)' \in Nat
    BY <1>1, NextCountTypes DEF CountsTyped
  <2> QED BY <2>1, <2>2
<1>5. \A r \in Runs : GoesOn(r)
  BY <1>2 DEF GoesOn
<1> QED BY <1>2, <1>3, <1>4, <1>5, SysCountedCalm

\* What has the job, if it is alone, is not ahead of it.
LEMMA NotAhead ==
    ASSUME NEW j, SysKept(j),
           IntakesOf(j) # {} \/ HeldBy(j) # {} \/ InSet(j) # {} \/ InQueue(j) # {} \/ LaunchingQueued(j) # {}
    PROVE  SysLive(j) /\ ~Ahead(j) /\ Attempted(j) = failures[j]
<1>1. SysLive(j)
  BY DEF SysLive, SysUnheld, BotUnheld, Unheld
<1>2. BearersOf(j) = {}
  BY DEF SysKept, SysAlone, BotAlone, Alone, BotUnheld, Unheld
<1> QED BY <1>1, <1>2 DEF Ahead, Attempted

LEMMA SysCountedIntake ==
    ASSUME SysGrounded, [BotNext]_botVars, UNCHANGED <<apiVars, pollerVars>>, NEW j \in Jobs, SysKept(j),
           SysCounted(j), NEW s \in Servers, IntakeStep(s) \/ IntakeFault(s)
    PROVE  SysCounted(j)'
<1>1. UNCHANGED <<stored, zset, failures, submitted>>
  BY DEF IntakeStep, IntakeAnswer, IntakeIter, IntakeEnd, IntakeFetch, IntakeTimeout, IntakeRead,
     IntakeMissing, IntakeFault, Pop, storeVars, history
<1>2. CASE UNCHANGED run
  BY <1>1, <1>2, SysCountedGoOn DEF GoOn, GoesOn, RetryingStay
<1>3. ASSUME NEW r \in Runs, IntakeRead(s, r) PROVE SysCounted(j)'
  <2>1. /\ run[r].phase = "free" /\ stored[intake[s].job] # NoPayload /\ intake[s].pc = "read"
        /\ run'[r].phase = "toStart" /\ run'[r].job = intake[s].job /\ run'[r].retry = stored[intake[s].job]
        /\ \A x \in Runs \ {r} : run'[x] = run[x]
    BY <1>3 DEF IntakeRead, HasPayload, SysGrounded, BotGrounded, Grounded, Held, TypeOK
  <2>2. Ahead(j) => Ahead(j)'
    BY <2>1 DEF Ahead, BearersOf
  <2>3. RunCounted(j, r)'
    <3>1. SUFFICES ASSUME intake[s].job = j PROVE run'[r].retry <= failures'[j]
      BY <2>1 DEF RunCounted, Attempts
    <3>2. IntakesOf(j) # {}
      BY <2>1, <3>1 DEF IntakesOf
    <3>3. stored[j] \in Nat
      BY <2>1, <3>1, CountTypes DEF CountsTyped
    <3> QED BY <1>1, <2>1, <3>1, <3>2, <3>3, NotAhead DEF SysCounted
  <2>4. \A x \in Runs \ {r} : GoesOn(x)
    BY <2>1 DEF GoesOn
  <2> QED BY <1>1, <2>2, <2>3, <2>4, SysCountedCalm DEF pollerVars
<1> QED
  BY <1>2, <1>3 DEF IntakeStep, IntakeAnswer, IntakeIter, IntakeEnd, IntakeFetch, IntakeTimeout,
     IntakeMissing, IntakeFault

LEMMA SysCountedSettle ==
    ASSUME SysGrounded, [BotNext]_botVars, UNCHANGED <<apiVars, pollerVars>>, NEW j \in Jobs, SysKept(j),
           SysCounted(j), NEW s \in Servers, NEW r \in Runs, Settle(s, r)
    PROVE  SysCounted(j)'
<1> DEFINE i == run[r].job
<1>1. /\ UNCHANGED <<zset, failures, submitted>>
      /\ i \in Jobs /\ run[r].retry \in Nat /\ r \in BearersOf(i)
      /\ run[r].phase \in {"acking", "failing"} /\ run'[r].job = i /\ ~run'[r].requeued
      /\ \A x \in Runs \ {r} : run'[x] = run[x]
      /\ \/ /\ run'[r].phase = "deleting" /\ run'[r].retry = run[r].retry
            /\ stored' = [stored EXCEPT ![i] = run[r].retry]
         \/ /\ run'[r].phase = "dying" /\ run'[r].retry = run[r].retry /\ IsDead(r)
            /\ stored' = [stored EXCEPT ![i] = run[r].retry]
         \/ /\ run'[r].phase = "retrying" /\ run'[r].retry = run[r].retry + 1
            /\ stored' = [stored EXCEPT ![i] = run[r].retry + 1]
  BY SettleCounts DEF SysGrounded
<1>2. SysGrounded'
  BY SysGroundedNext DEF SysNext, sysVars, botVars
<1>3. Ahead(j) => Ahead(j)'
  BY <1>1 DEF Ahead, BearersOf
<1>4. failures[j] \in Nat
  BY CountTypes DEF CountsTyped
<1>5. i = j => run[r].retry <= failures[j]
  BY <1>1 DEF SysCounted, RunCounted, Attempts
<1>6. RunCounted(j, r)'
  BY <1>1, <1>4, <1>5, ServerAssumption DEF RunCounted, Attempts, IsDead
<1>7. stored'[j] = stored[j] \/ stored'[j] <= Attempted(j)'
  <2>1. CASE stored' = [stored EXCEPT ![i] = run[r].retry]
    BY <1>1, <1>2, <2>1, RunWrites
  <2>2. CASE run'[r].phase = "retrying" /\ stored' = [stored EXCEPT ![i] = run[r].retry + 1]
    <3>1. stored'[j] = IF i = j THEN run[r].retry + 1 ELSE stored[j]
      BY <2>2 DEF SysGrounded, BotGrounded, Grounded, Held, TypeOK, StoreTypeOK
    <3>2. i = j => Ahead(j)'
      BY <1>1, <2>2 DEF Ahead, BearersOf
    <3>3. i = j => Attempted(j)' = failures[j] + 1
      BY <1>1, <3>2 DEF Attempted
    <3> HIDE DEF i
    <3> QED BY <1>1, <1>4, <1>5, <3>1, <3>3
  <2> QED BY <1>1, <2>1, <2>2
<1>8. \A x \in Runs \ {r} : GoesOn(x)
  BY <1>1 DEF GoesOn
<1> QED BY <1>1, <1>3, <1>6, <1>7, <1>8, SysCountedCalm DEF pollerVars

\* Runs are forgotten.  A job whose failure they had still to count is nowhere.
LEMMA ForgottenAhead ==
    ASSUME NEW j \in Jobs, SysKept(j), UNCHANGED apiVars, NEW rs, run' = Forget(rs), submitted \subseteq submitted',
           QueueKept(j), InSet(j)' = InSet(j), IntakesOf(j)' \subseteq IntakesOf(j), HeldBy(j)' \subseteq HeldBy(j),
           SysLive(j)', Ahead(j)
    PROVE  Ahead(j)'
<1>1. SUFFICES ASSUME ~Ahead(j)' PROVE SysUnheld(j)' /\ j \in submitted'
  BY DEF SysLive
<1>2. PICK x \in BearersOf(j) : run[x].phase = "retrying"
  BY DEF Ahead
<1>3. x \in rs
  BY <1>1, <1>2 DEF Ahead, BearersOf, Forget
<1>4. /\ InQueue(j) = {} /\ InSet(j) = {} /\ IntakesOf(j) = {} /\ HeldBy(j) = {} /\ LaunchingQueued(j) = {}
      /\ \A y \in BearersOf(j) : y = x
  BY <1>2 DEF SysKept, SysAlone, BotAlone, Alone, BotUnheld, Unheld, AtMostOne
<1>5. BearersOf(j)' = {}
  BY <1>3, <1>4, ForgetBearers
<1>6. LaunchingQueued(j)' = {}
  BY <1>4, LaunchingStays
<1>7. j \in submitted
  BY <1>2 DEF SysKept, SysUnheld, BotUnheld, Unheld
<1> QED BY <1>4, <1>5, <1>6, <1>7 DEF SysUnheld, BotUnheld, Unheld, QueueKept

LEMMA SysCountedForget ==
    ASSUME SysGrounded, [BotNext]_botVars, Serves, UNCHANGED apiVars, NEW j \in Jobs, SysKept(j), SysCounted(j),
           NEW rs, run' = Forget(rs), UNCHANGED <<storeVars, failures, submitted>>,
           IntakesOf(j)' \subseteq IntakesOf(j)
    PROVE  SysCounted(j)'
<1>1. \A r \in Runs : GoesOn(r)
  BY DEF GoesOn, Forget, FreeRun
<1>2. SysLive(j)' /\ Ahead(j) => Ahead(j)'
  BY ForgottenAhead, PlacesUntouched, ServesHeldBy DEF storeVars
<1>3. \A p \in Pollers : poller'[p] = poller[p] \/ PollerCounted(j, p)'
  BY DEF Serves, DropPollers, IdlePoller, pollerVars, PollerCounted
<1> QED BY <1>1, <1>2, <1>3, SysCountedCalm DEF storeVars

LEMMA SysCountedOutcome ==
    ASSUME SysGrounded, [BotNext]_botVars, UNCHANGED <<apiVars, pollerVars>>, NEW j \in Jobs, SysKept(j),
           SysCounted(j), NEW s \in Servers, loop[s].pc = "finish", SettleEffect(loop[s].cur),
           NEW rs, run' = Forget(rs), loop[s].cur \in rs, UNCHANGED <<intake, submitted>>
    PROVE  SysCounted(j)'
<1> DEFINE r == loop[s].cur
           i == run[r].job
<1>1. /\ r \in Runs /\ i \in Jobs /\ r \in BearersOf(i) /\ run[r].retry \in Nat
      /\ run[r].phase \in {"deleting", "dying", "retrying"}
      /\ \A x \in Runs : run'[x].phase # "free" => run'[x] = run[x] /\ x # r
      /\ \A k \in Jobs \ {i} : QueueKept(k) /\ InSet(k)' = InSet(k) /\ stored'[k] = stored[k]
      /\ IF run[r].phase = "deleting"
         THEN UNCHANGED <<failures, zset>> /\ stored'[i] = NoPayload
         ELSE /\ failures' = [failures EXCEPT ![i] = @ + 1]
              /\ stored'[i] = run[r].retry
              /\ zset' = [zset EXCEPT ![IF run[r].phase = "dying" THEN "dead" ELSE "retry"] = @ \cup {i}]
  BY OutcomeCounts DEF SysGrounded
<1>2. SysGrounded'
  BY SysGroundedNext DEF SysNext, sysVars, botVars
<1>3. failures \in [Jobs -> Nat] /\ zset \in [SetNames -> SUBSET Jobs] /\ "dead" \in SetNames
  BY DEF SysGrounded, BotGrounded, Grounded, Held, TypeOK, StoreTypeOK, SetNames
<1>4. \A x \in Runs : GoesOn(x)
  BY <1>1 DEF GoesOn
<1>5. IntakesOf(j)' = IntakesOf(j) /\ HeldBy(j)' = HeldBy(j)
  BY DEF HeldBy, IntakesOf, pollerVars
<1> HIDE DEF r
<1>6. CASE i # j
  <2>1. failures'[j] = failures[j] /\ (j \in zset'["dead"] => j \in zset["dead"])
    BY <1>1, <1>3, <1>6
  <2>2. SysLive(j)' /\ Ahead(j) => Ahead(j)'
    BY <1>1, <1>5, <1>6, ForgottenAhead
  <2> QED BY <1>1, <1>4, <1>6, <2>1, <2>2, SysCountedCalm DEF pollerVars
<1>7. CASE i = j /\ run[r].phase = "deleting"
  <2>1. stored'[j] \notin Nat
    BY <1>1, <1>7, StoreAssumption
  <2>2. Ahead(j) => Ahead(j)'
    <3>1. \A y \in BearersOf(j) : y = r
      BY <1>1, <1>7 DEF SysKept, SysAlone, BotAlone, Alone, AtMostOne
    <3> QED BY <1>7, <3>1 DEF Ahead
  <2> QED BY <1>1, <1>4, <1>7, <2>1, <2>2, SysCountedCalm DEF pollerVars
<1>8. CASE i = j /\ run[r].phase # "deleting"
  <2>1. failures[j] \in Nat /\ failures'[j] = failures[j] + 1
    BY <1>1, <1>3, <1>8
  <2>2. run[r].retry <= IF run[r].phase = "retrying" THEN failures[j] + 1 ELSE failures[j]
    BY <1>1, <1>8 DEF SysCounted, RunCounted, Attempts
  <2>3. Attempted(j)' \in Nat /\ failures'[j] <= Attempted(j)' /\ Attempted(j) <= failures'[j] /\ Attempted(j) \in Nat
    BY <1>2, <2>1, CountTypes, NextCountTypes DEF CountsTyped, Attempted
  <2>4. Attempted(j) <= Attempted(j)' /\ run[r].retry <= Attempted(j)'
    BY <1>1, <2>1, <2>2, <2>3
  <2>5. SysLive(j)' => SysLive(j)
    BY SysLiveStays
  <2>6. stored'[j] <= Attempted(j)'
    BY <1>1, <1>8, <2>4
  <2>7. j \in zset'["dead"] => j \in zset["dead"] \/ (j \in Handled /\ MaxRetries[j] \in Nat => failures'[j] > MaxRetries[j])
    <3>1. SUFFICES ASSUME run[r].phase = "dying", j \in Handled, MaxRetries[j] \in Nat PROVE failures'[j] > MaxRetries[j]
      BY <1>1, <1>3, <1>8
    <3>2. run[r].retry = MaxRetries[j]
      BY <1>1, <1>8, <3>1 DEF SysCounted, RunCounted
    <3> QED BY <2>1, <2>2, <3>1, <3>2
  <2>8. \A p \in Pollers : poller'[p] = poller[p]
    BY DEF pollerVars
  <2>9. \A p \in Requests : request'[p] = request[p]
    BY DEF apiVars
  <2> HIDE DEF i
  <2> QED BY <1>2, <1>4, <2>1, <2>4, <2>5, <2>6, <2>7, <2>8, <2>9, SysCountedKept
<1> QED BY <1>6, <1>7, <1>8

LEMMA SysCountedSettled ==
    ASSUME SysGrounded, [BotNext]_botVars, Serves, UNCHANGED <<apiVars, pollerVars>>, NEW j \in Jobs, SysKept(j),
           SysCounted(j), NEW s \in Servers, Finish(s) \/ SettleFault(s)
    PROVE  SysCounted(j)'
<1>1. CASE Finish(s)
  BY <1>1, SysCountedOutcome DEF Finish
<1>2. CASE SettleFault(s) /\ loop[s].pc = "finish" /\ SettleEffect(loop[s].cur)
  <2>1. loop[s].cur \in loop[s].todo
    BY <1>2 DEF SysGrounded, BotGrounded, Grounded, Held, LoopOwns
  <2> QED BY <1>2, <2>1, SysCountedOutcome DEF SettleFault
<1>3. CASE SettleFault(s) /\ UNCHANGED <<storeVars, failures>>
  <2>1. IntakesOf(j)' \subseteq IntakesOf(j)
    BY <1>3, PlacesUntouched DEF SettleFault
  <2> QED BY <1>3, <2>1, SysCountedForget DEF SettleFault
<1> QED BY <1>1, <1>2, <1>3 DEF SettleFault

LEMMA SysCountedVanish ==
    ASSUME SysGrounded, [BotNext]_botVars, Serves, UNCHANGED apiVars, NEW j \in Jobs, SysKept(j), SysCounted(j),
           NEW s \in Servers, Exit(s) \/ Crash(s)
    PROVE  SysCounted(j)'
<1>1. IntakesOf(j)' \subseteq IntakesOf(j)
  BY DEF Exit, Crash, Vanish, IdleIntake, IntakesOf, SysGrounded, BotGrounded, Grounded, Held, TypeOK
<1> QED BY <1>1, SysCountedForget DEF Exit, Crash, Vanish, history

LEMMA SysCountedPoll ==
    ASSUME SysGrounded, [BotNext]_botVars, UNCHANGED apiVars, NEW j \in Jobs, SysKept(j), SysCounted(j),
           NEW p \in Pollers, PollerStep(p) \/ Fail(p), UNCHANGED <<run, failures>>
    PROVE  SysCounted(j)'
<1> DEFINE i == poller[p].job
           n == poller[p].retry
<1>1. PICK x \in PollerType :
                 /\ poller' = [poller EXCEPT ![p] = x]
                 /\ \/ /\ UNCHANGED storeVars
                       /\ x.pc \in {"find", "zrem"} \/ (x.pc = "use" /\ poller[p].pc = "get" /\ x.job = i
                                                          /\ HasPayload(i) /\ x.retry = stored[i])
                    \/ i \in Jobs /\ Zrem(SourceOf[p], i) /\ x.pc \in {"find", "get"}
                    \/ /\ poller[p].pc = "use" /\ i \in Jobs /\ n \in Nat
                       /\ Requeue(i, n) \/ Enqueue(i, n)
                       /\ x.pc = "find"
  BY PollerMoves DEF SysGrounded
<1>2. SysGrounded'
  BY SysGroundedNext DEF SysNext, sysVars, botVars
<1>3. poller \in [Pollers -> PollerType] /\ stored \in [Jobs -> Nat \cup {NoPayload}]
  BY DEF SysGrounded, BotGrounded, PollerTypeOK, Grounded, Held, TypeOK, StoreTypeOK
<1>4. zset'["dead"] = zset["dead"]
  BY <1>1, PollerAssumption DEF storeVars, Zrem, Requeue, Enqueue, SysGrounded, BotGrounded, Grounded, Held,
     TypeOK, StoreTypeOK, SetNames
<1>5. /\ failures[j] \in Nat /\ failures'[j] = failures[j]
      /\ Attempted(j)' \in Nat /\ failures[j] <= Attempted(j)'
  BY <1>2, CountTypes, NextCountTypes DEF CountsTyped
<1>6. stored'[j] = stored[j] \/ stored'[j] <= Attempted(j)'
  <2>1. SUFFICES ASSUME stored'[j] # stored[j] PROVE stored'[j] <= Attempted(j)'
    OBVIOUS
  <2>2. i = j /\ stored'[j] = n /\ n \in Nat /\ poller[p].pc = "use"
    BY <1>1, <1>3, <2>1 DEF storeVars, Zrem, Requeue, Enqueue
  <2>3. n <= failures[j]
    BY <2>2 DEF SysCounted, PollerCounted
  <2> HIDE DEF i, n
  <2> QED BY <1>5, <2>2, <2>3
<1>7. PollerCounted(j, p)'
  <2>1. SUFFICES ASSUME x.pc = "use", x.job = j PROVE x.retry <= failures[j]
    BY <1>1, <1>3 DEF PollerCounted
  <2>2. poller[p].pc = "get" /\ i = j /\ HasPayload(j) /\ x.retry = stored[j]
    BY <1>1, <2>1
  <2>3. HeldBy(j) # {}
    BY <2>2 DEF HeldBy
  <2> HIDE DEF i
  <2>4. stored[j] \in Nat
    BY <1>3, <2>2 DEF HasPayload
  <2> QED BY <2>2, <2>3, <2>4, NotAhead DEF SysCounted
<1>8. \A q \in Pollers : poller'[q] = poller[q] \/ PollerCounted(j, q)'
  BY <1>1, <1>3, <1>7
<1>9. Ahead(j) => Ahead(j)'
  BY DEF Ahead, BearersOf
<1>10. \A r \in Runs : GoesOn(r)
  BY DEF GoesOn
<1> QED BY <1>4, <1>5, <1>6, <1>8, <1>9, <1>10, SysCountedCalm

\* What a request has read, when the job could still run or go on to run, it
\* may write back.
LEMMA SysCountedAnswer ==
    ASSUME SysGrounded, NEW p \in Requests, Answers(p), NEW j \in Jobs, j \notin relaunched', SysKept(j),
           SysCounted(j)
    PROVE  SysCounted(j)'
<1>1. PICK x : /\ Becomes(p, x)
               /\ \/ UNCHANGED storeVars
                  \/ \E i \in Jobs : request[p].jobs = {i} /\ Asks(p, x, i)
                  \/ CleanDead(p)
  BY AnswerTouches, RequestMoves
<1>2. UNCHANGED <<run, poller, failures, submitted>>
  BY AnswerTouches
<1>3. SysGrounded'
  BY SysGroundedAnswers
<1>4. request \in [Requests -> RequestType] /\ stored \in [Jobs -> Nat \cup {NoPayload}]
      /\ zset \in [SetNames -> SUBSET Jobs] /\ "dead" \in SetNames
  BY DEF SysGrounded, APITypeOK, BotGrounded, Grounded, Held, TypeOK, StoreTypeOK, SetNames
<1>5. Attempted(j)' = Attempted(j) /\ Attempted(j) \in Nat /\ failures[j] \in Nat
  BY <1>2, CountTypes DEF CountsTyped, Attempted, Ahead, BearersOf
<1>6. SysLive(j)' => SysLive(j)
  <2>1. SysPasses(j)
    BY AnswerCustody
  <2> QED BY <1>2, <2>1 DEF SysKept, SysPasses, SysLive
<1>7. ASSUME stored'[j] \in Nat, stored'[j] # stored[j] PROVE SysLive(j) /\ stored'[j] <= Attempted(j)
  <2>1. CASE CleanDead(p)
    BY <1>4, <1>7, <2>1, StoreAssumption DEF CleanDead
  <2>2. ASSUME NEW i \in Jobs, request[p].jobs = {i}, Asks(p, x, i) PROVE SysLive(j) /\ stored'[j] <= Attempted(j)
    <3>1. \/ request[p].pc = "move" /\ stored' = [stored EXCEPT ![i] = request[p].retry]
             /\ relaunched' = relaunched \cup {i}
          \/ request[p].pc = "requeue" /\ stored' = [stored EXCEPT ![i] = request[p].retry]
          \/ stored' = [stored EXCEPT ![i] = NoPayload]
          \/ UNCHANGED stored
      BY <2>2 DEF Asks, Move, RemoveQueued, RequeueLaunched, DeleteFromSet, DeletePayload, Requeue, Zrem,
         UnsafeDeleteJob
    <3>2. i = j /\ request[p].pc = "requeue" /\ stored'[j] = request[p].retry
      BY <1>4, <1>7, <3>1, StoreAssumption
    <3>3. LaunchingQueued(j) # {}
      BY <2>2, <3>2 DEF LaunchingQueued
    <3>4. SysLive(j)
      BY <3>3 DEF SysLive, SysUnheld
    <3> QED BY <1>7, <2>2, <3>2, <3>4 DEF SysCounted, RequestCounted
  <2> QED BY <1>1, <1>7, <2>1, <2>2 DEF storeVars
<1>8. ASSUME NEW q \in Requests PROVE request'[q] = request[q] \/ (SysLive(j)' => RequestCounted(j, q)')
  <2>1. SUFFICES ASSUME q = p, SysLive(j), x.pc \in {"lrem", "requeue"}, x.jobs = {j}, x.retry \in Nat
                 PROVE  x.retry <= Attempted(j)
    BY <1>1, <1>4, <1>5, <1>6 DEF Becomes, RequestCounted
  <2>2. CASE x.jobs = request[p].jobs /\ x.retry = request[p].retry /\ request[p].pc = "lrem"
    BY <2>1, <2>2 DEF SysCounted, RequestCounted
  <2>3. CASE \E i \in Jobs : x.jobs = {i} /\ x.retry = stored[i]
    BY <2>1, <2>3 DEF SysCounted
  <2> QED BY <1>1, <2>1, <2>2, <2>3 DEF Becomes
<1>9. j \in zset'["dead"] => j \in zset["dead"]
  <2>1. CASE CleanDead(p)
    BY <1>4, <2>1 DEF CleanDead
  <2>2. ASSUME NEW i \in Jobs, Asks(p, x, i) PROVE j \in zset'["dead"] => j \in zset["dead"]
    BY <1>4, <2>2 DEF Asks, Move, RemoveQueued, RequeueLaunched, DeleteFromSet, DeletePayload, Requeue, Zrem,
       UnsafeDeleteJob
  <2> QED BY <1>1, <2>1, <2>2 DEF storeVars
<1>10. \A r \in Runs : GoesOn(r)
  BY <1>2 DEF GoesOn
<1> QED BY <1>2, <1>3, <1>5, <1>6, <1>7, <1>8, <1>9, <1>10, SysCountedKept

\* The steps of clients, servers and pollers, one by one.
LEMMA SysCountedServes ==
    ASSUME SysGrounded, [BotNext]_botVars, UNCHANGED apiVars, NEW j \in Jobs, SysKept(j), SysCounted(j)
    PROVE  SysCounted(j)'
<1>1. CASE ServerNext /\ UNCHANGED pollerVars
  <2>1. Serves /\ BotGrounded /\ UNCHANGED <<apiVars, pollerVars>>
    BY <1>1 DEF ServerNext, Next, Serves, SysGrounded
  <2>2. CASE \E k \in Jobs : Submit(k)
    BY <1>1, <2>2, SysCountedClient
  <2>3. CASE \E s \in Servers : IntakeStep(s) \/ IntakeFault(s)
    BY <2>1, <2>3, SysCountedIntake
  <2>4. CASE \E r \in Runs : WorkerStep(r) \/ WorkerFault(r)
    BY <2>1, <2>4, WorkersGoOn, SysCountedGoOn
  <2>5. CASE \E s \in Servers : HandleCompletedJobs(s) \/ StartJobs(s) \/ StartFault(s)
    BY <2>1, <2>5, LoopGoesOn, SysCountedGoOn
  <2>6. CASE \E s \in Servers : \E r \in Runs : Settle(s, r)
    BY <2>1, <2>6, SysCountedSettle
  <2>7. CASE \E s \in Servers : Finish(s) \/ SettleFault(s)
    BY <2>1, <2>7, SysCountedSettled
  <2>8. CASE \E s \in Servers : \/ CleanupWorkers(s) \/ CleanupEnd(s) \/ ShutdownDone(s) \/ Shutdown(s)
                                \/ CleanupRequeue(s) \/ CleanupFault(s) \/ \E r \in Runs : CleanupUpdate(s, r)
    BY <2>1, <2>8, CleanupGoesOn, SysCountedGoOn
  <2> QED BY <1>1, <2>2, <2>3, <2>4, <2>5, <2>6, <2>7, <2>8 DEF ServerNext, Faults, LoopStep
<1>2. CASE \E s \in Servers : BotExit(s) \/ BotCrash(s)
  <2>1. Serves /\ \E s \in Servers : Exit(s) \/ Crash(s)
    BY <1>2 DEF BotExit, BotCrash, Next, Serves
  <2> QED BY <2>1, SysCountedVanish
<1>3. CASE UNCHANGED botVars
  <2>1. UNCHANGED <<apiVars, pollerVars>> /\ GoOn
    BY <1>3 DEF botVars, vars, serverVars, storeVars, history, GoOn, GoesOn, RetryingStay
  <2> QED BY <2>1, SysCountedGoOn
<1>4. CASE \E k \in Jobs : ScheduleAt(k)
  BY <1>4, SysCountedClient
<1>5. CASE \E p \in Pollers : BotPoll(p) \/ BotPollFault(p)
  <2>1. UNCHANGED <<run, failures>> /\ \E p \in Pollers : PollerStep(p) \/ Fail(p)
    BY <1>5, PollTouches DEF Polls, BotPoll, BotPollFault
  <2> QED BY <2>1, SysCountedPoll
<1> QED BY <1>1, <1>2, <1>3, <1>4, <1>5 DEF BotNext

NeverAhead == \A j \in Jobs \ relaunched : SysCounted(j)

LEMMA NeverAheadInit == SysInit => NeverAhead
<1> SUFFICES ASSUME SysInit, NEW j \in Jobs PROVE SysCounted(j)
  BY DEF NeverAhead
<1>1. /\ \A r \in Runs : run[r].phase = "free"
      /\ \A p \in Pollers : poller[p].pc # "use"
      /\ \A p \in Requests : request[p].pc = "new"
      /\ stored[j] = NoPayload /\ zset["dead"] = {}
  BY DEF SysInit, BotInit, Init, StoreInit, PollerInit, IdlePoller, APIInit, NewRequest, FreeRun, SetNames
<1> QED BY <1>1, StoreAssumption DEF SysCounted, RunCounted, PollerCounted, RequestCounted

LEMMA NeverAheadNext == SysCustody /\ NeverAhead /\ [SysNext]_sysVars => NeverAhead'
<1> SUFFICES ASSUME SysCustody, NeverAhead, [SysNext]_sysVars, NEW j \in Jobs \ relaunched'
             PROVE  SysCounted(j)'
  BY DEF NeverAhead
<1>1. SysGrounded
  BY DEF SysCustody
<1>2. j \notin relaunched => SysKept(j) /\ SysCounted(j)
  BY DEF SysCustody, NeverAhead, SysKept
<1>3. CASE [BotNext]_botVars /\ UNCHANGED apiVars
  BY <1>1, <1>2, <1>3, SysCountedServes DEF apiVars
<1>4. ASSUME NEW p \in Requests, Answers(p) PROVE SysCounted(j)'
  <2>1. j \notin relaunched
    BY <1>1, <1>4, AnswerTouches, RecordsGrow DEF SysGrounded
  <2> QED BY <1>1, <1>2, <1>4, <2>1, SysCountedAnswer
<1> QED BY <1>3, <1>4, SysCases

\* Requests read a payload and write it back later, while servers retry and
\* pollers move the same job.  However these interleave, and whatever stops or
\* fails, a job no launch has put in two places is never tried too rarely.
THEOREM SysRetriesAreNotSkipped == SysSpec => []SysRetriesNotSkipped
<1>1. SysCustody /\ NeverAhead => SysRetriesNotSkipped
  <2> SUFFICES ASSUME SysCustody, NeverAhead PROVE SysRetriesNotSkipped
    OBVIOUS
  <2>1. zset \in [SetNames -> SUBSET Jobs] /\ {"retry", "dead"} \subseteq SetNames
    BY DEF SysCustody, SysGrounded, BotGrounded, Grounded, Held, TypeOK, StoreTypeOK, SetNames
  <2>2. ASSUME NEW j \in zset["retry"] \ relaunched, stored[j] # NoPayload PROVE stored[j] <= failures[j]
    <3>1. j \in Jobs /\ InSet(j) # {}
      BY <2>1, <2>2 DEF InSet
    <3>2. SysCounted(j) /\ SysKept(j)
      BY <2>2, <3>1 DEF SysCustody, NeverAhead, SysKept
    <3>3. stored[j] \in Nat
      BY <2>2, <3>1, CountTypes DEF SysCustody, CountsTyped
    <3> QED BY <3>1, <3>2, <3>3, NotAhead DEF SysCounted
  <2>3. \A j \in (zset["dead"] \cap Handled) \ relaunched : MaxRetries[j] \in Nat => failures[j] > MaxRetries[j]
    BY <2>1 DEF NeverAhead, SysCounted
  <2> QED BY <2>2, <2>3 DEF SysRetriesNotSkipped
<1> QED BY SysCustodyInit, SysCustodyNext, NeverAheadInit, NeverAheadNext, <1>1, PTL DEF SysSpec
=============================================================================
