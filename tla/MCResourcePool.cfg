SPECIFICATION Spec
CONSTANTS
    r1 = r1
    r2 = r2
    r3 = r3
    p1 = p1
    p2 = p2
    Resources <- MCResources
    Producers <- MCProducers
    Greedy = greedy
    Chaos = chaos
    Manager = manager
    MaxResources = 3
    InitialPool = 2
    MinPool = 1
    Hoard = 2
    FailLimit = 1
SYMMETRY MCSymmetry
INVARIANTS
    EveryUseIsSound
    TokensComeBack
    TokenFindsResource
