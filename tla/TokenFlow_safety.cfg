SPECIFICATION Spec
CONSTANTS
    b1 = b1
    b2 = b2
    c1 = c1
    none = none
    NoProc = none
    Bridges <- TwoBridges
    Commands <- OneCommand
    Faults <- AllFaults
    MaxTokens = 2
    MaxCauses = 1
SYMMETRY BridgeSymmetry
INVARIANTS TypeOK NoReplay WindowsJustified
PROPERTIES RejectedNotReturned UsableGrantKept OneHolder
