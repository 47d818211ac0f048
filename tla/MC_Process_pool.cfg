SPECIFICATION FairProcessSpec
CONSTANTS
    Handles = {h1, h2, h3}
    NoHandle = NoHandle
    Concurrency = 2
    PluginCount = 0
    RedisPoolMax = 3
    MaxAside = 1
INVARIANTS
    ChainsConserved
    NewestRemembered
PROPERTIES
    PoolServes
    KeepsFetching
    PollsAgain
    ShutdownReturns
CHECK_DEADLOCK FALSE
