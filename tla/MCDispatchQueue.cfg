CONSTANTS
    a = a
    b = b
    c = c
    d = d
    l = l
    f = f
    MinCost = 4
    MaxTokens = 8
    Mail <- MCMail
    Fast <- MCFast
    Streams <- MCStreams
    Resets <- MCResets
    Faults <- MCFaults
    PrioLow = 3
    PrioHighest = 4
SPECIFICATION Spec
INVARIANTS
    QueueSound
    
    DrainedAtExit
PROPERTIES
    TakenInOrder
    TakeTurns
CHECK_DEADLOCK FALSE
