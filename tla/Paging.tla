------------------------------- MODULE Paging -------------------------------
(***************************************************************************)
(* How the client library cuts lists and sorted sets into pages, and how   *)
(* the panel counts them: the arithmetic of Queue.peek, Queue.find,        *)
(* ScoreSortedSet.peek, the pagination middleware and the pagers of        *)
(* QueueExplorer and SetExplorer.                                          *)
(***************************************************************************)
EXTENDS Store

CONSTANTS
    Score,      \* places the jobs in any set; ids decide between equal scores
    PageSize,   \* PAGE_SIZE of both explorers, 10
    MaxLimit,   \* the most rows the middleware lets a request ask for, 10
    ScanSize    \* pageSize of Queue.find, 10

ASSUME PagingAssumption ==
    /\ IsFiniteSet(Jobs)
    /\ Score \in [Jobs -> Int]
    /\ \A i, j \in Jobs : Score[i] = Score[j] => i = j
    /\ {PageSize, MaxLimit, ScanSize} \subseteq Nat \ {0}
    /\ PageSize <= MaxLimit

-----------------------------------------------------------------------------
(* Redis *)

\* LRANGE and ZRANGE: both ends belong to the range; a negative index counts
\* from the end.
Range0(l, a, b) ==
    LET n == Len(l)
        At(i) == IF i >= 0 THEN i ELSE IF n + i >= 0 THEN n + i ELSE 0
        last == IF b >= 0 THEN b ELSE n + b
    IN  SubSeq(l, At(a) + 1, IF last < n THEN last + 1 ELSE n)

\* ZRANK of a member: how many come before it.
Zrank(z, j) == Cardinality({k \in zset[z] : Score[k] < Score[j]})

\* The members of a sorted set by rank.
Ranks(z) ==
    [i \in 1 .. Cardinality(zset[z]) |-> CHOOSE j \in zset[z] : Zrank(z, j) = i - 1]

-----------------------------------------------------------------------------
(* Client *)

\* Queue.peek: the rows in the order the servers will take them.
QueuePeek(l, limit, offset) ==
    LET pageStart == -offset - 1
        pageEnd == pageStart - limit + 1
    IN  Reverse(Range0(l, Min({pageStart, pageEnd}), Max({pageStart, pageEnd})))

\* Mutant of FindPage: one less at the far end of each page.
FindPageShort(l, x) ==
    Reverse(Range0(l, -((x + 1) * ScanSize) + 1, -1 - x * ScanSize))

\* The x-th page that Queue.map, forEach and find go through.
FindPage(l, x) ==
    Reverse(Range0(l, -((x + 1) * ScanSize), -1 - x * ScanSize))

\* ScoreSortedSet.peek: one row more than the limit.
SetPeek(z, limit, offset) == Range0(Ranks(z), offset, offset + limit)

\* ScoreSortedSet.contains: !!ZRANK
FoundByRank(z, j) == j \in zset[z] /\ Zrank(z, j) # 0

-----------------------------------------------------------------------------
(* Web API *)

ClampLimit(limit) == Max({0, Min({MaxLimit, limit})})
ClampOffset(offset) == Max({0, offset})

\* GET /queues/:queueName, GET /retry, /scheduled and /dead: the ids.
PageOf(place, q, limit, offset) ==
    IF place = "queue"
    THEN QueuePeek(queue[q], ClampLimit(limit), ClampOffset(offset))
    ELSE SetPeek(place, ClampLimit(limit), ClampOffset(offset))

SizeOf(place, q) ==
    IF place = "queue" THEN Len(queue[q]) ELSE Cardinality(zset[place])

-----------------------------------------------------------------------------
(* The pagers *)

Offset(page) == (page - 1) * PageSize

RowsOf(place, q, page) == PageOf(place, q, PageSize, Offset(page))

\* Mutant of LastPage: whole pages only.
LastPageWhole(size) == size \div PageSize

LastPage(size) == size \div PageSize + 1

HasNext(page, size) == page * PageSize <= size
HasPrevious(page) == page - 1 >= 1

\* First and Previous, Next and Last.
PagerLinks(page, size) ==
    (IF HasPrevious(page) THEN {1, page - 1} ELSE {})
    \cup (IF HasNext(page, size) THEN {page + 1, LastPage(size)} ELSE {})
=============================================================================
