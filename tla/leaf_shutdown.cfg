SPECIFICATION FairSpec
CONSTANTS
    Nodes = {0, 1}
    Downstream <- Chain
    Tables = {1}
    Loop <- NoTable
    Forward <- WhereDownstream
    Apply <- EveryTable
    Batched = {0, 1}
    Threads = {main}
    Main = main
    Writers = {}
    Closers = {0, 1}
    Keys = {1}
    KeyHalf = 4
    MaxInc = 0
PROPERTIES
    ShutDownReturns
CHECK_DEADLOCK FALSE
