SPECIFICATION Spec
CONSTANTS
    Nodes = {0, 1, 2}
    Downstream <- Chain
    Tables = {1}
    Loop <- NoTable
    Forward <- WhereDownstream
    Apply <- EveryTable
    Batched = {0, 1}
    Threads = {main}
    Main = main
    Writers = {0}
    Closers = {}
    Keys = {1, 2}
    KeyHalf = 4
    MaxInc = 2
INVARIANTS
    NoAbort
    NothingLostOrDoubled
PROPERTY
    Replicated
