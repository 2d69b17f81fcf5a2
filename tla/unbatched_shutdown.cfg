SPECIFICATION FairSpec
CONSTANTS
    Nodes = {0, 1}
    Downstream <- Ring
    Tables = {1}
    Loop <- EveryTable
    Forward <- EveryTable
    Apply <- EveryTable
    Batched = {}
    Threads = {main}
    Main = main
    Writers = {}
    Closers = {0, 1}
    Keys = {1}
    KeyHalf = 4
    MaxInc = 0
PROPERTIES
    ShutDownReturns
CHECK_DEADLOCK FALSE
