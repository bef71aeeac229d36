CONSTANTS
    Clients = {c1, c2, c3}
    Amounts <- MCAmounts
    Maxes <- MCMaxes
    InitCounts <- MCInitCounts
    MaxChanges = 1
SPECIFICATION FairSpec
INVARIANTS
    TypeOK
    QueueIsWaiters
    NoLostWakeup
    AtMostOneOversize
    
PROPERTIES
    GrantsInOrder
    EveryWaiterGranted
