SPECIFICATION LFairSpec
CONSTANTS
    b1 = b1
    b2 = b2
    q1 = q1
    q2 = q2
    none = none
    noreq = noreq
    NoProc = none
    NoReq = noreq
    Bridges <- TwoBridges
    Commands <- NoCommand
    Requests <- TwoRequests
    Faults <- LadderFaults
    MaxTokens = 4
    MaxCauses = 10
    MaxCycles = 1
INVARIANTS LTypeOK WindowsJustified
PROPERTIES NoNeedlessRepair LadderEnds LockReleased
