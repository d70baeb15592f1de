SPECIFICATION FairSpec
CONSTANTS
    Backends <- BothBackends
    NServices = 2
    Slots = 2
    MaxGen = 1
INVARIANTS
    OneWrapper
    AllServed
PROPERTIES
    OldWrappersEnd
    Ends
CHECK_DEADLOCK FALSE
