SPECIFICATION Spec
CONSTANTS
    b1 = b1
    b2 = b2
    c1 = c1
    none = none
    old = old
    new = new
    NoProc = none
    NoIssuer = none
    Current = new
    Retired = old
    Veterans <- OneVeteran
    Bridges <- TwoBridges
    Commands <- NoCommand
    Faults <- NoFaults
    MaxClients = 3
    MaxTokens = 3
    MaxCauses = 2
PROPERTIES GoodRegistrationKept
