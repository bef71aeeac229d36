CONSTANTS
    Slots <- MCMoreSlots
    Policies <- MCMore
    Loads <- MCMoreLoads
    SeqMod = 4
    MaxFaults = 2
    MarkDowns = FALSE
SPECIFICATION Spec
INVARIANTS
    OpenIsRegistered
    EndsAgree
    
    NoTie
CHECK_DEADLOCK FALSE
