SPECIFICATION BufferSpec
CONSTANTS
    Nodes = {0, 1, 2, 3}
    Downstream <- Chain
    Tables = {1}
    Loop <- NoTable
    Forward <- WhereDownstream
    Apply <- EveryTable
    Batched = {}
    Threads = {main}
    Main = main
    Writers = {}
    Closers = {}
    Keys = {1}
    KeyHalf = 4
    MaxInc = 0
    Capacity = 3
    Numbers = {0, 1}
INVARIANTS
    LookupIsExact
    IterationIsPrefix
