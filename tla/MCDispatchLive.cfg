CONSTANTS
    a = a
    b = b
    c = c
    d = d
    l = l
    f = f
    MinCost = 4
    MaxTokens = 8
    Mail <- MCMailLive
    Fast <- MCNone
    Streams <- MCStreamsLive
    Resets <- MCNone
    Faults <- MCNone
    PrioLow = 3
    PrioHighest = 4
SPECIFICATION FairSpec
INVARIANT
    NoLostWakeup
PROPERTIES
    NoStarvation
    ShutdownEnds
CHECK_DEADLOCK FALSE
