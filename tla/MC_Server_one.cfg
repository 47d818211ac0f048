SPECIFICATION FairSpec
CONSTANTS
    s1 = s1  s2 = s2  jA = jA  jB = jB  jC = jC  qHigh = qHigh  qLow = qLow
    Servers = {s1}
    Jobs = {jA, jB, jC}
    Queues = {qHigh, qLow}
    QueueOf <- MCQueueOf
    MaxRetries <- MCMaxRetries
    Handled <- MCHandled
    Runs = {r1, r2, r3}
    Concurrency = 2
    NoPayload = NoPayload  NoRetries = NoRetries  EndlessRetries = EndlessRetries
    NoJob = NoJob  NoRun = NoRun  NoServer = NoServer
    MaxShutdowns = 1  MaxCrashes = 1  MaxFaults = 1
INVARIANTS
    ConcurrencyBound
    SingleCustody
    JobsAccounted
    ShutdownReturnsExecuting
PROPERTIES
    ShutdownTerminates
CHECK_DEADLOCK FALSE
