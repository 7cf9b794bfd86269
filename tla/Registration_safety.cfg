SPECIFICATION Spec
CONSTANTS
    b1 = b1
    b2 = b2
    c1 = c1
    none = none
    old = old
    new = new
    NoProc = none
    NoIssuer = none
    Current = new
    Retired = old
    Veterans <- NoVeteran
    Bridges <- TwoBridges
    Commands <- OneCommand
    Faults <- AllFaults
    MaxClients = 2
    MaxTokens = 2
    MaxCauses = 2
SYMMETRY BridgeSymmetry
INVARIANTS TypeOK RegistrationsJustified BridgeLoginCurrent OwedLogin
PROPERTIES GoodRegistrationKept
