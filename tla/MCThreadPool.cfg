CONSTANTS
    Workers = {w1, w2}
    Controllers = {c1, c2}
    Items = {i1, i2}
    NumQueues = 2
    InitDraining <- MCInitDraining
    MaxStops = 1
SPECIFICATION FairSpec
INVARIANTS
    PausedIsQuiet
PROPERTIES
    DrainWaits
    
    ItemsGetDone
    LoneCallReturns
