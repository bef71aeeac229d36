CONSTANTS
    Slots <- MCSlots
    Policies <- MCPolicies
    Loads <- MCLoads
    SeqMod = 16
    MaxFaults = 1
    MarkDowns = TRUE
SPECIFICATION LiveSpec
INVARIANTS
    SentIsTail
PROPERTIES
    FromFirst
    FromSecond
CHECK_DEADLOCK FALSE
