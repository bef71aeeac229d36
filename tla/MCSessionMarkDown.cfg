CONSTANTS
    Slots <- MCLosslessSlots
    Policies <- MCLossless
    Loads <- MCLosslessLoads
    SeqMod = 16
    MaxFaults = 2
    MarkDowns = TRUE
SPECIFICATION Spec
PROPERTIES
    ClosedForGood
CHECK_DEADLOCK FALSE
