------------------------------- MODULE WebAPI -------------------------------
(***************************************************************************)
(* webapi/src/WebAPIApp: the endpoints of the panel that change jobs.  A   *)
(* request takes several Redis commands, and every other process goes on   *)
(* between two of them.  JanitorPlugin cleans the dead set with the same   *)
(* code as POST /dead/clean and is a request here as well.                 *)
(***************************************************************************)
EXTENDS Store

CONSTANTS
    Requests,   \* each is one call of an endpoint, answered once
    Endpoints   \* the pairs <<kind, place>> that are called

Kinds == {"launch", "delete", "clean"}
Places == SetNames \cup {"queue"}

ASSUME WebAPIAssumption == Endpoints \subseteq Kinds \X Places

VARIABLES
    request,    \* what each request asks for, where it stands, what it has read
    relaunched, \* history: jobs a launch moved from a set to a queue
    discarded   \* history: jobs taken out or deleted by a request, or lost with one

apiVars == <<request, relaunched, discarded>>

RequestType == [pc : {"new", "contains", "read", "move", "lrem", "requeue", "zrem", "del",
                      "scan", "clean", "done"},
                kind : Kinds, place : Places, jobs : SUBSET Jobs,
                retry : Nat \cup {NoPayload}]

\* Requests and history keep the shape the code gives them.
APITypeOK ==
    /\ request \in [Requests -> RequestType]
    /\ \A p \in Requests : request[p].pc \in {"move", "requeue"} => request[p].retry \in Nat
    /\ relaunched \subseteq Jobs /\ discarded \subseteq Jobs

NewRequest == [pc |-> "new", kind |-> "clean", place |-> "dead", jobs |-> {},
               retry |-> NoPayload]

APIInit ==
    /\ request = [p \in Requests |-> NewRequest]
    /\ relaunched = {} /\ discarded = {}

\* The first command of an endpoint.
FirstStep(kind, place) ==
    CASE kind = "clean" -> "scan"
      [] kind = "launch" -> IF place = "queue" THEN "read" ELSE "contains"
      [] kind = "delete" -> IF place = "queue" THEN "lrem" ELSE "zrem"

\* An answered request keeps nothing.
Goto(p, pc) ==
    request' = [request EXCEPT ![p] = IF pc = "done" THEN [NewRequest EXCEPT !.pc = pc]
                                                     ELSE [@ EXCEPT !.pc = pc]]

\* A request arrives; it names any job, wherever that job is by now.
Receive(p, kind, place, j) ==
    /\ request[p].pc = "new"
    /\ <<kind, place>> \in Endpoints
    /\ request' = [request EXCEPT ![p] = [pc |-> FirstStep(kind, place), kind |-> kind,
                                          place |-> place, jobs |-> {j}, retry |-> NoPayload]]
    /\ UNCHANGED <<storeVars, relaunched, discarded>>

\* contains: !!ZRANK.  The first member of the set has rank 0, which !! makes
\* false, so a member is found only if some other member precedes it.
Ranked(z, j) == j \in zset[z] /\ zset[z] # {j}

CheckContains(p, j) ==
    /\ request[p].pc = "contains" /\ request[p].jobs = {j}
    /\ \/ Ranked(request[p].place, j) /\ Goto(p, "read")
       \/ Goto(p, "done")
    /\ UNCHANGED <<storeVars, relaunched, discarded>>

\* readJob of the job to launch.
ReadLaunched(p, j) ==
    /\ request[p].pc = "read" /\ request[p].jobs = {j}
    /\ \/ ~HasPayload(j) /\ Goto(p, "done")
       \/ /\ HasPayload(j)
          /\ request' = [request EXCEPT ![p].retry = stored[j],
                            ![p].pc = IF request[p].place = "queue" THEN "lrem" ELSE "move"]
    /\ UNCHANGED <<storeVars, relaunched, discarded>>

\* Mutant of Move: the push is left out of the MULTI.
MoveOutOnly(p, j) ==
    /\ request[p].pc = "move" /\ request[p].jobs = {j}
    /\ zset' = [zset EXCEPT ![request[p].place] = @ \ {j}]
    /\ stored' = [stored EXCEPT ![j] = request[p].retry]
    /\ Goto(p, "done")
    /\ relaunched' = relaunched \cup {j}
    /\ UNCHANGED <<queue, discarded>>

\* retry, launch and resurrect: MULTI, ZREM, SET and a push, whether the job
\* is still in the set or not.  A scheduled job goes to the front.
Move(p, j) ==
    /\ request[p].pc = "move" /\ request[p].jobs = {j}
    /\ zset' = [zset EXCEPT ![request[p].place] = @ \ {j}]
    /\ stored' = [stored EXCEPT ![j] = request[p].retry]
    /\ queue' = [queue EXCEPT ![QueueOf[j]] =
                    IF request[p].place = "scheduled" THEN Append(@, j) ELSE Cons(j, @)]
    /\ Goto(p, "done")
    /\ relaunched' = relaunched \cup {j}
    /\ UNCHANGED discarded

\* Mutant of RemoveQueued: a launch goes on whatever LREM replied.
RemoveQueuedUnchecked(p, j) ==
    /\ request[p].pc = "lrem" /\ request[p].jobs = {j}
    /\ queue' = [queue EXCEPT ![QueueOf[j]] = RemoveFirst(@, j)]
    /\ IF request[p].kind = "launch"
       THEN Goto(p, "requeue") /\ UNCHANGED discarded
       ELSE Goto(p, "done") /\ discarded' = discarded \cup {j}
    /\ UNCHANGED <<stored, zset, relaunched>>

\* Queue.remove: LREM of one occurrence; a launch goes on only if there was one.
RemoveQueued(p, j) ==
    LET launches == request[p].kind = "launch"
        found == InQueue(j) # {}
    IN  /\ request[p].pc = "lrem" /\ request[p].jobs = {j}
        /\ queue' = [queue EXCEPT ![QueueOf[j]] = RemoveFirst(@, j)]
        /\ Goto(p, IF launches /\ found THEN "requeue" ELSE "done")
        /\ discarded' = IF ~launches /\ found THEN discarded \cup {j} ELSE discarded
    /\ UNCHANGED <<stored, zset, relaunched>>

\* Queue.launch puts the job back in front, with the payload read before.
RequeueLaunched(p, j) ==
    /\ request[p].pc = "requeue" /\ request[p].jobs = {j}
    /\ Requeue(j, request[p].retry)
    /\ Goto(p, "done")
    /\ UNCHANGED <<relaunched, discarded>>

\* DELETE of a job in a set: ZREM, whose reply is not looked at ...
DeleteFromSet(p, j) ==
    /\ request[p].pc = "zrem" /\ request[p].jobs = {j}
    /\ Zrem(request[p].place, j)
    /\ Goto(p, "del")
    /\ discarded' = IF j \in zset[request[p].place] THEN discarded \cup {j} ELSE discarded
    /\ UNCHANGED relaunched

\* ... then DEL of the payload.
DeletePayload(p, j) ==
    /\ request[p].pc = "del" /\ request[p].jobs = {j}
    /\ UnsafeDeleteJob(j)
    /\ Goto(p, "done")
    /\ discarded' = discarded \cup {j}
    /\ UNCHANGED relaunched

\* cleanBetween reads a batch of ids.  Which members are older than the cutoff
\* and fit in the batch is left open; the loop ends on an empty one.
ScanDead(p) ==
    /\ request[p].pc = "scan"
    /\ \/ Goto(p, "done")
       \/ \E ids \in (SUBSET zset["dead"]) \ {{}} :
                request' = [request EXCEPT ![p].jobs = ids, ![p].pc = "clean"]
    /\ UNCHANGED <<storeVars, relaunched, discarded>>

\* MULTI of ZREM and DEL for every id of the batch.
CleanDead(p) ==
    LET ids == request[p].jobs IN
    /\ request[p].pc = "clean"
    /\ zset' = [zset EXCEPT !["dead"] = @ \ ids]
    /\ stored' = [j \in Jobs |-> IF j \in ids THEN NoPayload ELSE stored[j]]
    /\ Goto(p, "scan")
    /\ discarded' = discarded \cup ids
    /\ UNCHANGED <<queue, relaunched>>

RequestStep(p) ==
    \/ \E kind \in Kinds, place \in Places, j \in Jobs : Receive(p, kind, place, j)
    \/ \E j \in Jobs :
            \/ CheckContains(p, j) \/ ReadLaunched(p, j) \/ Move(p, j)
            \/ RemoveQueued(p, j) \/ RequeueLaunched(p, j)
            \/ DeleteFromSet(p, j) \/ DeletePayload(p, j)
    \/ ScanDead(p) \/ CleanDead(p)

\* A request holds j between the LREM and the push of Queue.launch.
LaunchingQueued(j) == {p \in Requests : request[p].pc = "requeue" /\ request[p].jobs = {j}}

\* The panel stops or a command fails without effect: the request ends here,
\* and takes along the job it holds.
RequestFault(p) ==
    /\ request[p].pc \notin {"new", "done"}
    /\ Goto(p, "done")
    /\ discarded' = discarded \cup {j \in Jobs : p \in LaunchingQueued(j)}
    /\ UNCHANGED <<storeVars, relaunched>>
=============================================================================
