SPECIFICATION FairSpec
CONSTANTS
    w0 = w0
    w1 = w1
    w2 = w2
    Workers <- MCWorkers
    Counter = w0
    MaxCycle = 3
    MaxTime = 1
PROPERTIES
    AllPassTogether
