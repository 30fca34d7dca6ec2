SPECIFICATION FairSpec
CONSTANTS
    Sources <- MCSources
    QueueLen <- MCQueueLen
    SetLen = 4
    WorkerLen = 1
    Workers = {worker0, worker1}
INVARIANTS
    SetMirrorsQueues
    OnePlaceAtATime
PROPERTIES
    UrgentIsSettled
