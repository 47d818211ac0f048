SPECIFICATION MCSpec
CONSTANTS
    s1 = s1  jA = jA  jB = jB  q1 = q1
    Servers = {s1}
    Emitters = {s1}
    Workers = {s1}
    Inquiries = {i1, i2}
    MaxBeats = 1
    LastDay = 2
    Jobs = {jA, jB}
    Queues = {q1}
    QueueOf <- MCQueueOf
    MaxRetries <- MCMaxRetries
    Handled = {jA, jB}
    Runs = {r1}
    Concurrency = 1
    NoPayload = NoPayload  NoRetries = NoRetries  EndlessRetries = EndlessRetries
    NoJob = NoJob  NoRun = NoRun  NoServer = NoServer
    MaxShutdowns = 1  MaxCrashes = 1  MaxFaults = 1
INVARIANTS
    CountersAccount
    DatedWithinTotal
    CleanupRemovesTheDead
PROPERTIES
    LiveWorkerReappears
CHECK_DEADLOCK FALSE
