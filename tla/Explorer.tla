------------------------------ MODULE Explorer ------------------------------
(***************************************************************************)
(* webui: one browser on the pages that list a queue or a sorted set and   *)
(* on the page of one job, the Web API that answers it, and every other    *)
(* process reduced to what it does to the keys these pages read.           *)
(*                                                                         *)
(* A query is one call of _query or _fetch: several requests, each several *)
(* Redis commands, while the store changes, the user goes on and a tick    *)
(* starts the next query.  Answers land in any order.                      *)
(***************************************************************************)
EXTENDS WebAPI, Paging

CONSTANTS
    Browsed,    \* the queue shown under "/queues/:queueName"
    Shown,      \* the places the user visits, a subset of Places
    Remembered, \* the jobs whose pages the browser may remember
    MaxQueries, \* bound: how many queries are under way at a time
    NoSize,     \* null, the size before the first answer
    NoJobId,    \* the route is not about one job
    MaxMoves,   \* bound: what the other processes do, and failing queries
    MaxVisits   \* bound: how often the user goes to another page

ASSUME ExplorerAssumption ==
    /\ Browsed \in Queues
    /\ Shown \subseteq Places
    /\ Remembered \subseteq Jobs
    /\ NoSize \notin Nat
    /\ NoJobId \notin Jobs
    /\ {MaxQueries, MaxMoves, MaxVisits} \subseteq Nat

VARIABLES
    route,      \* the URL: a list with its page, or a job with its pageHint
    screen,     \* the state of the component: size and rows, or the job
    query,      \* the queries under way, in the order they were begun
    clicked,    \* the click on Launch or Delete that is not answered yet
    left        \* what is left of the two bounds

uiVars == <<route, screen, query, clicked, left>>
explorerVars == <<storeVars, apiVars, uiVars>>

Blank == [size |-> NoSize, rows |-> <<>>]
NoClick == [at |-> "none", place |-> "queue", page |-> 0, job |-> NoJobId]

ListRoute(place, page) == [at |-> "list", place |-> place, page |-> page, job |-> NoJobId]
JobRoute(place, hint, j) == [at |-> "job", place |-> place, page |-> hint, job |-> j]

Members(place) == IF place = "queue" THEN ToSet(queue[Browsed]) ELSE zset[place]

\* Not every id of the place can be read.
SomeMissing(place) == \E j \in Members(place) : ~HasPayload(j)

-----------------------------------------------------------------------------
(* Queries *)

\* The last command of _fetch: GET of the one job.
SingleGet(place) == IF place = "queue" THEN "find" ELSE "contains"

FirstCommand(r) ==
    CASE r.at = "list" -> IF r.place = "queue" THEN "keys" ELSE "zcard"
      [] r.at = "job" -> IF r.page # 0 THEN "range" ELSE SingleGet(r.place)

NewQuery(r) ==
    [pc |-> FirstCommand(r), to |-> r, size |-> NoSize, rows |-> <<>>, x |-> 0,
     shifted |-> r.job \notin Members(r.place) \/ SomeMissing(r.place)]

\* A call of _query or _fetch for route r.
Begin(r) ==
    /\ Len(query) < MaxQueries
    /\ query' = Append(query, NewQuery(r))

\* It has set the state, or has rejected.
Over(q) == query' = RemoveAt(query, q)

Reply(q, pc, size, rows) ==
    /\ query' = [query EXCEPT ![q].pc = pc, ![q].size = size, ![q].rows = rows]
    /\ UNCHANGED <<storeVars, apiVars, route, screen, clicked, left>>

\* GET /queues: Redis has no empty list, so that an empty queue is not among
\* the keys; .find(...) answers undefined and _query rejects.
QueueKeys(q) ==
    /\ query[q].pc = "keys"
    /\ IF queue[Browsed] = <<>>
       THEN Over(q)
       ELSE query' = [query EXCEPT ![q].pc = "llen"]
    /\ UNCHANGED <<storeVars, apiVars, route, screen, clicked, left>>

QueueSize(q) ==
    /\ query[q].pc = "llen"
    /\ Reply(q, "range", SizeOf("queue", Browsed), <<>>)

\* GET /metrics/basic
SetSize(q) ==
    /\ query[q].pc = "zcard"
    /\ Reply(q, "range", SizeOf(query[q].to.place, Browsed), <<>>)

\* readJobs: the ids that have a descriptor.
Readable(ids) == SelectSeq(ids, HasPayload)

\* GET of a page: the ids ...
PageIds(q) ==
    /\ query[q].pc = "range"
    /\ Reply(q, "mget", query[q].size,
             RowsOf(query[q].to.place, Browsed, query[q].to.page))

\* ... and their descriptors.  Ids without one are left out.  For _query these
\* are the rows; _fetch looks for its job among them.
PageRows(q) ==
    LET ids == query[q].rows
        to == query[q].to
    IN  /\ query[q].pc = "mget"
        /\ \/ /\ to.at = "list"
              /\ Reply(q, "answered", query[q].size, Readable(ids))
           \/ /\ to.at = "job"
              /\ IF to.job \in ToSet(ids) /\ HasPayload(to.job)
                 THEN Reply(q, "answered", NoSize, <<to.job>>)
                 ELSE Reply(q, SingleGet(to.place), NoSize, <<>>)

\* GET /queues/:queueName/:jobId: one page of Queue.find, the ids ...
FindIds(q) ==
    LET ids == FindPage(queue[Browsed], query[q].x) IN
    /\ query[q].pc = "find"
    /\ IF ids = <<>> THEN Reply(q, "missed", NoSize, <<>>)
                     ELSE Reply(q, "findread", NoSize, ids)

\* ... and their descriptors; the first one missing ends the scan.
FindRows(q) ==
    LET ids == query[q].rows
        ends == {i \in DOMAIN ids : ~HasPayload(ids[i]) \/ ids[i] = query[q].to.job}
    IN  /\ query[q].pc = "findread"
        /\ \/ /\ ends = {}
              /\ query' = [query EXCEPT ![q].pc = "find", ![q].rows = <<>>, ![q].x = @ + 1]
           \/ \E i \in ends :
                /\ \A k \in ends : i <= k
                /\ query' = [query EXCEPT ![q] =
                        IF HasPayload(ids[i])
                        THEN [@ EXCEPT !.pc = "answered", !.rows = <<ids[i]>>]
                        ELSE [@ EXCEPT !.pc = "missed", !.rows = <<>>]]
        /\ UNCHANGED <<storeVars, apiVars, route, screen, clicked, left>>

\* GET /retry/:jobId and its like: contains, then readJob.
ContainsJob(q) ==
    /\ query[q].pc = "contains"
    /\ Reply(q, IF FoundByRank(query[q].to.place, query[q].to.job) THEN "get" ELSE "missed",
             NoSize, <<>>)

GetJob(q) ==
    /\ query[q].pc = "get"
    /\ IF HasPayload(query[q].to.job)
       THEN Reply(q, "answered", NoSize, <<query[q].to.job>>)
       ELSE Reply(q, "missed", NoSize, <<>>)

\* setState.
Land(q) ==
    /\ query[q].pc = "answered"
    /\ screen' = [size |-> query[q].size, rows |-> query[q].rows]
    /\ Over(q)
    /\ UNCHANGED <<storeVars, apiVars, route, clicked, left>>

\* The 404 is logged; the job that was shown stays.
LandMissed(q) ==
    /\ query[q].pc = "missed"
    /\ Over(q)
    /\ UNCHANGED <<storeVars, apiVars, route, screen, clicked, left>>

QueryStep(q) ==
    \/ QueueKeys(q) \/ QueueSize(q) \/ SetSize(q) \/ PageIds(q) \/ PageRows(q)
    \/ FindIds(q) \/ FindRows(q) \/ ContainsJob(q) \/ GetJob(q)
    \/ Land(q) \/ LandMissed(q)

-----------------------------------------------------------------------------
(* The user, the ticker and the router *)

SpendOne(b) ==
    /\ left[b] > 0
    /\ left' = [left EXCEPT ![b] = @ - 1]

\* Mutant of Tick: a tick queries what is not there yet only.
TickOnce ==
    /\ screen.size = NoSize
    /\ Begin(route)
    /\ UNCHANGED <<storeVars, apiVars, route, screen, clicked, left>>

\* The tick changes and componentWillReceiveProps queries again.
Tick ==
    /\ Begin(route)
    /\ UNCHANGED <<storeVars, apiVars, route, screen, clicked, left>>

\* Two routes that React renders with one instance of a component.
SameInstance(r, n) == r.at = n.at /\ (r.place = "queue") = (n.place = "queue")

\* A new instance starts blank and queries for its route; an answer for the
\* old one finds nothing mounted.
Mount(n) ==
    /\ route' = n
    /\ screen' = Blank
    /\ query' = <<NewQuery(n)>>

\* An instance that goes on queries only if its page (or its job) changes, and
\* still with the other props it had.
GoOn(n) ==
    /\ route' = n
    /\ UNCHANGED screen
    /\ CASE n.at = "list" /\ n.page # route.page -> Begin([route EXCEPT !.page = n.page])
         [] n.at = "job" /\ n.job # route.job -> Begin(route)
         [] OTHER -> UNCHANGED query

\* The router shows route n.
Show(n) == IF SameInstance(route, n) THEN GoOn(n) ELSE Mount(n)

\* The links QueueExplorer renders: none but a spinner for a size of null or 0.
QueueLinks ==
    IF screen.size \in {NoSize, 0} THEN {}
    ELSE {ListRoute("queue", page) : page \in PagerLinks(route.page, screen.size)}
         \cup {JobRoute("queue", route.page, j) : j \in ToSet(screen.rows)}

\* SetExplorer, which renders an empty set as a table with no row.
SetLinks ==
    IF screen.size = NoSize THEN {}
    ELSE {ListRoute(route.place, page) : page \in PagerLinks(route.page, screen.size)}
         \cup {JobRoute(route.place, route.page, j) : j \in ToSet(screen.rows)}

\* JobTable: the job that is shown names its queue.
JobLinks == {ListRoute("queue", 1) : j \in ToSet(screen.rows)}

Links ==
    CASE route.at = "job" -> JobLinks
      [] route.at = "list" /\ route.place = "queue" -> QueueLinks
      [] OTHER -> SetLinks

\* The URLs the browser may remember.
Bookmarks == {ListRoute(place, 1) : place \in Shown}
             \cup {JobRoute(place, 0, j) : place \in Shown, j \in Remembered}

\* The user follows a link or goes back to a URL.
Visit(n) ==
    /\ n \in (Links \cup Bookmarks) \ {route}
    /\ SpendOne("visits")
    /\ Show(n)
    /\ clicked' = IF clicked.at = "list" /\ ~SameInstance(route, n) THEN NoClick ELSE clicked
    /\ UNCHANGED <<storeVars, apiVars>>

\* The request of a button: about the job shown and the place of the URL.
Click(p, kind) ==
    /\ clicked = NoClick
    /\ \E j \in ToSet(screen.rows) : Receive(p, kind, route.place, j)
    /\ clicked' = [route EXCEPT !.job = NoJobId]
    /\ UNCHANGED <<route, screen, query, left>>

\* _launch and _delete of a row of a list ...
ClickRow(p, kind) == route.at = "list" /\ Click(p, kind)

\* ... and of the page of a job.
ClickJob(p, kind) == route.at = "job" /\ Click(p, kind)

\* The request is answered.
Answered(p) ==
    /\ clicked # NoClick
    /\ request[p].pc = "done"
    /\ clicked' = NoClick
    /\ UNCHANGED <<storeVars, apiVars, left>>

\* With an error, which is logged ...
ClickFailed(p) ==
    /\ Answered(p)
    /\ UNCHANGED <<route, screen, query>>

\* ... or well: the list queries the page it was clicked on, with the queue or
\* set it shows by now,
RefreshList(p) ==
    /\ clicked.at = "list"
    /\ Answered(p)
    /\ Begin([route EXCEPT !.page = clicked.page])
    /\ UNCHANGED <<route, screen>>

\* and the page of a job goes to the list, wherever the user is by now: by
\* "/retry" or its like, whose redirect to "/retry/page/1" unmounts a list that
\* is shown.
GoToList(p) ==
    /\ clicked.at = "job"
    /\ Answered(p)
    /\ Mount(ListRoute(clicked.place, 1))

\* A request of a query is lost; _query rejects.
QueryFault(q) ==
    /\ SpendOne("moves")
    /\ Over(q)
    /\ UNCHANGED <<storeVars, apiVars, route, screen, clicked>>

-----------------------------------------------------------------------------
(* The store changes *)

\* Something is taken out of a place: a queue may have a job twice.
TakenFrom(place) ==
    IF place = "queue" THEN Len(queue'[Browsed]) < Len(queue[Browsed])
                       ELSE ~(zset[place] \subseteq zset'[place])

\* What left a place, and what lost its payload, shifts the pages after it.
Disturbed == {place \in Places : TakenFrom(place) \/ SomeMissing(place)'}

Shift ==
    query' = [q \in DOMAIN query |-> IF query[q].to.place \in Disturbed
                                     THEN [query[q] EXCEPT !.shifted = TRUE]
                                     ELSE query[q]]

Held(j) == HasPayload(j) /\ ~InRedis(j) /\ LaunchingQueued(j) = {}

\* The servers and pollers: a job is taken out of a queue or a set ...
OthersTake ==
    /\ SpendOne("moves")
    /\ \/ Pop(Browsed)
       \/ \E z \in {"retry", "scheduled"}, j \in Jobs : j \in zset[z] /\ Zrem(z, j)
    /\ Shift
    /\ UNCHANGED <<apiVars, route, screen, clicked>>

\* ... and is put back somewhere, or finished.
OthersPut(j) ==
    /\ SpendOne("moves")
    /\ Held(j)
    /\ \/ Enqueue(j, stored[j]) \/ Requeue(j, stored[j])
       \/ \E z \in {"retry", "dead"} : AddToSet(z, j, stored[j])
       \/ UnsafeDeleteJob(j)
    /\ Shift
    /\ UNCHANGED <<apiVars, route, screen, clicked>>

\* The Web API goes on with the request of a click.
ServeClick(p) ==
    /\ request[p].pc # "new"
    /\ RequestStep(p)
    /\ Shift
    /\ UNCHANGED <<route, screen, clicked, left>>

-----------------------------------------------------------------------------
\* Any place for each job, as the servers may have left them.
ExplorerInit ==
    /\ queue \in [Queues -> {l \in UNION {[1 .. n -> Jobs] : n \in 0 .. Cardinality(Jobs)} :
                                IsInjective(l)}]
    /\ zset \in [SetNames -> SUBSET Jobs]
    /\ \A j \in Jobs : Cardinality(InQueue(j)) + Cardinality(InSet(j)) <= 1
    /\ stored = [j \in Jobs |-> IF InRedis(j) THEN 0 ELSE NoPayload]
    /\ APIInit
    /\ \E place \in Shown : route = ListRoute(place, 1)
    /\ screen = Blank
    /\ query = <<>>
    /\ clicked = NoClick
    /\ left = [moves |-> MaxMoves, visits |-> MaxVisits]

ExplorerNext ==
    \/ \E q \in DOMAIN query : QueryStep(q) \/ QueryFault(q)
    \/ Tick
    \/ \E n \in Links \cup Bookmarks : Visit(n)
    \/ \E p \in Requests :
            \/ \E kind \in Kinds : ClickRow(p, kind) \/ ClickJob(p, kind)
            \/ ClickFailed(p) \/ RefreshList(p) \/ GoToList(p) \/ ServeClick(p)
    \/ OthersTake
    \/ \E j \in Jobs : OthersPut(j)

ExplorerSpec == ExplorerInit /\ [][ExplorerNext]_explorerVars

\* The interval timer goes on, and of the queries under way one or another
\* gets its answers; a single one may hang.
ExplorerFairness ==
    /\ WF_explorerVars(Tick)
    /\ WF_explorerVars(\E q \in DOMAIN query : QueryStep(q))

FairExplorerSpec == ExplorerSpec /\ ExplorerFairness

-----------------------------------------------------------------------------
(* Properties *)

\* The pages that the Next links from page 1 lead to have every member of the
\* place, each on one of them, but that a page of a set may share one row with
\* the next: it has one row more than its limit.
Covered(place) ==
    LET size == SizeOf(place, Browsed)
        rows(page) == ToSet(RowsOf(place, Browsed, page))
    IN  /\ \A page \in 1 .. LastPage(size) - 1 : HasNext(page, size)
        /\ Members(place) = UNION {rows(page) : page \in 1 .. LastPage(size)}
        /\ \A page \in 1 .. LastPage(size), later \in 1 .. LastPage(size) :
                page < later =>
                    Cardinality(rows(page) \cap rows(later)) <=
                        IF place # "queue" /\ later = page + 1 THEN 1 ELSE 0

\* Every job of a queue or a set can be paged to.  (A launch from a set can put
\* a job in its queue twice; such a queue is left out.)
PagesCover ==
    \A place \in {place \in Shown : place = "queue" => IsInjective(queue[Browsed])} :
        Covered(place)

\* The page of a job that stays where it is says "not found" only for the first
\* member of a set, and not if pageHint says page 1: nothing that is only added
\* while Queue.find scans hides the job, and no readable job is passed over.
MissedForACause ==
    [][\A q \in DOMAIN query \cap DOMAIN query' :
        /\ query[q].pc # "missed" /\ query' = [query EXCEPT ![q] = query'[q]]
        /\ query'[q].pc = "missed" /\ ~query'[q].shifted
        => LET to == query[q].to
           IN  to.place # "queue" /\ to.page # 1 /\ Zrank(to.place, to.job) = 0]_explorerVars

\* Whatever order answers landed in, whatever props a query was made with and
\* however a request failed: once the store and the user rest, the list shows
\* the page of its URL and keeps showing it.  But a queue that has become empty
\* keeps its last rows.
PageCatchesUp ==
    <>[](/\ route.at = "list"
         /\ route.place = "queue" => queue[Browsed] # <<>>
         => /\ screen.size = SizeOf(route.place, Browsed)
            /\ screen.rows = Readable(RowsOf(route.place, Browsed, route.page)))
=============================================================================
