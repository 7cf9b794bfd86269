SPECIFICATION FairSpec
CONSTANTS
    r1 = r1
    r2 = r2
    none = none
    Nobody = none
    Reqs <- OneReq
    Faults <- ProtocolFaults
    MaxDeaths = 2
PROPERTIES Settles
