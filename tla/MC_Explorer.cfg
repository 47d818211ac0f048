SPECIFICATION MCSpec
CONSTANTS
    jA = jA  jB = jB  jC = jC  qAll = qAll
    Jobs = {jA, jB, jC}
    Queues = {qAll}
    QueueOf <- MCQueueOf
    Browsed = qAll
    Score <- MCScore
    PageSize = 2  MaxLimit = 2  ScanSize = 2
    Shown = {"queue", "retry", "dead"}
    MaxQueries = 2
    Requests = {h1}
    Endpoints <- MCEndpoints
    NoPayload = NoPayload  NoSize = NoSize  NoJobId = NoJobId
    Remembered = {jA}
    MaxMoves = 1  MaxVisits = 1
INVARIANTS
    PagesCover
PROPERTIES
    MissedForACause
    PageCatchesUp
CHECK_DEADLOCK FALSE
