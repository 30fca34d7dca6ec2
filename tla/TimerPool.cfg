SPECIFICATION TimerSpec
CONSTANTS
    PoolSize = 2
    NTimers = 3
    NStress = 1
    Handles = {h1, h2, h3}
    Workers = {worker}
    CommandLen = 2
    JobLen = 1
    NULL = NULL
INVARIANTS
    EntriesHaveTimers
    NothingAfterDelete
    SurvivorsWereRefused
