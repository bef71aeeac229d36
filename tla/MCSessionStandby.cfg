CONSTANTS
    Slots <- MCPeersSlots
    Policies <- MCPeers
    Loads <- MCPeersLoads
    SeqMod = 4
    MaxFaults = 1
    MarkDowns = TRUE
SPECIFICATION FairSpec
PROPERTIES
    Reconnects
CHECK_DEADLOCK FALSE
