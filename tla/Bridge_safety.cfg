SPECIFICATION Spec
CONSTANTS
    r1 = r1
    r2 = r2
    none = none
    Nobody = none
    Reqs <- TwoReqs
    Faults <- ProtocolFaults
    MaxDeaths = 1
SYMMETRY ReqSymmetry
INVARIANTS TypeOK OneAnswer ExecutedOnce SessionsJustified SerialUntilReady ExitAnswersAll
PROPERTIES LiveSessionKept SessionsChained
