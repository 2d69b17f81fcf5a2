SPECIFICATION FairSpec
CONSTANTS
    Nodes = {0, 1}
    Downstream <- FanInAndChain
    MaxPending = 2
INVARIANTS TypeOK NoHandshakeAbort PeersKnown PropStartIsHeard HandshakeOverFirst StartedIsRunning
PROPERTY EveryStartReturns
