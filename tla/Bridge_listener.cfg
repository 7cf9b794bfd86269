SPECIFICATION Spec
CONSTANTS
    r1 = r1
    r2 = r2
    none = none
    Nobody = none
    Reqs <- OneReq
    Faults <- NoFaults
    MaxDeaths = 1
INVARIANTS ListenerKept
