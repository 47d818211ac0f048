SPECIFICATION SysSpec
CONSTANTS
    s1 = s1  jA = jA  jB = jB  qAll = qAll  p1 = p1  p3 = p3
    Servers = {s1}
    Jobs = {jA, jB}
    Queues = {qAll}
    QueueOf <- MCQueueOf
    MaxRetries <- MCMaxRetries
    Handled = {jA, jB}
    Scheduled <- MCScheduled
    Pollers = {p1, p3}
    SourceOf <- MCSourceOf
    OwnerOf <- MCOwnerOf
    Requests = {q1}
    Endpoints <- MCEndpoints
    Runs = {r1, r2}
    Concurrency = 1
    NoPayload = NoPayload  NoRetries = NoRetries  EndlessRetries = EndlessRetries
    NoJob = NoJob  NoRun = NoRun  NoServer = NoServer
    MaxShutdowns = 0  MaxCrashes = 0  MaxFaults = 0
PROPERTIES
    RefusedOnlyIfAbsent
CHECK_DEADLOCK FALSE
