SPECIFICATION FairSpec
CONSTANTS
    Last = 3
    QueueLen = 2
    MaxItems = 5
INVARIANTS
    WakeUpsHaveItems
    NothingDuplicated
    StagesRunInOrder
PROPERTIES
    SignalsAreServed
