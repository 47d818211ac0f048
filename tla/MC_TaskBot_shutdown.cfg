SPECIFICATION BotSpec
CONSTANTS
    s1 = s1  s2 = s2  jA = jA  jB = jB  jC = jC  qHigh = qHigh  qLow = qLow
    p1 = p1  p2 = p2  p3 = p3
    Servers = {s1, s2}
    Jobs = {jA, jB}
    Queues = {qHigh, qLow}
    QueueOf <- MCQueueOf
    MaxRetries <- MCMaxRetries
    Handled <- MCHandled
    Scheduled <- MCScheduled
    Pollers = {p1, p3}
    SourceOf <- MCSourceOf
    OwnerOf <- MCOwnerOf
    Runs = {r1, r2, r3}
    Concurrency = 1
    NoPayload = NoPayload  NoRetries = NoRetries  EndlessRetries = EndlessRetries
    NoJob = NoJob  NoRun = NoRun  NoServer = NoServer
    MaxShutdowns = 1  MaxCrashes = 0  MaxFaults = 0
SYMMETRY RunSymmetry
INVARIANTS
    BotSingleCustody
    BotCompletedStaysOut
    RetriesNotSkipped
PROPERTIES
    RefinesLifecycle
CHECK_DEADLOCK FALSE
