SPECIFICATION FairSpec
CONSTANTS
    Nodes = {0, 1}
    Downstream <- Ring
    Tables = {1}
    Loop <- EveryTable
    Forward <- EveryTable
    Apply <- EveryTable
    Batched = {0, 1}
    Threads = {main}
    Main = main
    Writers = {0, 1}
    Closers = {}
    Keys = {1, 10}
    KeyHalf = 4
    MaxInc = 1
INVARIANTS
    AppliedAtMostOnce
    NothingLostOrDoubled
PROPERTIES
    EventuallyApplied
