SPECIFICATION FairSpec
CONSTANTS
    Callers = {a, b, c}
    Keys = {1}
    Deltas = {1}
    MaxCalls = 2
INVARIANT NoNullRead
PROPERTIES TableIsAtomic EveryCallReturns
