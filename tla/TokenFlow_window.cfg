SPECIFICATION Spec
CONSTANTS
    b1 = b1
    b2 = b2
    c1 = c1
    none = none
    NoProc = none
    Bridges <- OneBridge
    Commands <- NoCommand
    Faults <- StaleOnly
    MaxTokens = 3
    MaxCauses = 2
INVARIANTS OneWindowPerProcess
