------------------------------- MODULE Store --------------------------------
(***************************************************************************)
(* The Redis keys every TaskBotJS process shares: one list per queue, one  *)
(* string "jobs/<id>" per job and the sorted sets "retry", "scheduled" and *)
(* "dead".  An operator below is one command, or one MULTI/EXEC block,     *)
(* that the client library sends; Redis executes it atomically.            *)
(*                                                                         *)
(* A job descriptor is abstracted to what decides where the job goes next: *)
(* its status.retry count.  Scores are abstracted away: a member of a      *)
(* sorted set may become due at any time.                                  *)
(***************************************************************************)
EXTENDS Integers, Sequences, FiniteSets, SequencesExt

CONSTANTS
    Jobs,       \* job identifiers
    Queues,     \* queue names
    QueueOf,    \* options.queue of each job
    NoPayload   \* stands for an absent "jobs/<id>" key

ASSUME StoreAssumption ==
    /\ QueueOf \in [Jobs -> Queues]
    /\ NoPayload \notin Nat

VARIABLES
    queue,      \* list of each queue: LPUSH adds at the head, BRPOP takes the tail
    stored,     \* status.retry in the stored descriptor, or NoPayload
    zset        \* members of each sorted set

storeVars == <<queue, stored, zset>>

SetNames == {"retry", "scheduled", "dead"}

StoreTypeOK ==
    /\ queue \in [Queues -> Seq(Jobs)]
    /\ stored \in [Jobs -> Nat \cup {NoPayload}]
    /\ zset \in [SetNames -> SUBSET Jobs]

StoreInit ==
    /\ queue = [q \in Queues |-> <<>>]
    /\ stored = [j \in Jobs |-> NoPayload]
    /\ zset = [z \in SetNames |-> {}]

-----------------------------------------------------------------------------
(* Client *)

\* updateJob: SET jobs/<id>
UpdateJob(j, retry) ==
    /\ stored' = [stored EXCEPT ![j] = retry]
    /\ UNCHANGED <<queue, zset>>

\* Mutant of HasPayload: the check is left out.
AnyPayload(j) == TRUE

\* readJob and the null check of its callers.
HasPayload(j) == stored[j] # NoPayload

\* unsafeDeleteJob: DEL jobs/<id>
UnsafeDeleteJob(j) ==
    /\ stored' = [stored EXCEPT ![j] = NoPayload]
    /\ UNCHANGED <<queue, zset>>

\* Mutant of Pop: the id is read and stays in the list.
PopReadsOnly(q) ==
    /\ queue[q] # <<>>
    /\ UNCHANGED storeVars

\* fetchQueueJob, first half: BRPOP answered from queue q
Pop(q) ==
    /\ queue[q] # <<>>
    /\ queue' = [queue EXCEPT ![q] = Front(@)]
    /\ UNCHANGED <<stored, zset>>

-----------------------------------------------------------------------------
(* Queue *)

\* Mutant of Enqueue: LPUSH without SET.
EnqueueIdOnly(j, retry) ==
    /\ queue' = [queue EXCEPT ![QueueOf[j]] = Cons(j, @)]
    /\ UNCHANGED <<stored, zset>>

\* enqueue: MULTI, SET, LPUSH -- the job waits behind the whole queue
Enqueue(j, retry) ==
    /\ queue' = [queue EXCEPT ![QueueOf[j]] = Cons(j, @)]
    /\ stored' = [stored EXCEPT ![j] = retry]
    /\ UNCHANGED zset

\* requeue: MULTI, SET, RPUSH -- the job is the next one taken
Requeue(j, retry) ==
    /\ queue' = [queue EXCEPT ![QueueOf[j]] = Append(@, j)]
    /\ stored' = [stored EXCEPT ![j] = retry]
    /\ UNCHANGED zset

-----------------------------------------------------------------------------
(* ScoreSortedSet *)

\* Mutant of AddToSet: SET without ZADD.
AddPayloadOnly(z, j, retry) ==
    /\ stored' = [stored EXCEPT ![j] = retry]
    /\ UNCHANGED <<queue, zset>>

\* add: MULTI, SET, ZADD -- an id already present only changes its score
AddToSet(z, j, retry) ==
    /\ zset' = [zset EXCEPT ![z] = @ \cup {j}]
    /\ stored' = [stored EXCEPT ![j] = retry]
    /\ UNCHANGED queue

\* ZREM; its reply is 1 exactly when j was a member
Zrem(z, j) ==
    /\ zset' = [zset EXCEPT ![z] = @ \ {j}]
    /\ UNCHANGED <<queue, stored>>

-----------------------------------------------------------------------------
\* Positions of j in its queue, and the sorted sets j is in.
InQueue(j) == LET l == queue[QueueOf[j]] IN {i \in DOMAIN l : l[i] = j}
InSet(j) == {z \in SetNames : j \in zset[z]}
InRedis(j) == InQueue(j) # {} \/ InSet(j) # {}
=============================================================================
