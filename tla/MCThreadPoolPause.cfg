CONSTANTS
    Workers = {w1, w2}
    Controllers = {c1, c2}
    Items = {i1, i2}
    NumQueues = 1
    InitDraining <- MCInitDraining
    MaxStops = 0
SPECIFICATION FairSpec
PROPERTIES
    PauseReturns
