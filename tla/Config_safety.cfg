SPECIFICATION Spec
CHECK_DEADLOCK FALSE
CONSTANTS
    c1 = c1
    c2 = c2
    a = a
    b = b
    keep = keep
    none = none
    NoProfile = none
    Profiles <- ThreeProfiles
    Names <- TwoNames
    Commands <- TwoCommands
    URLs <- TwoURLs
    Documents <- HandWritten
    Clients <- ClientFiles
    Samples <- AllSamples
    Faults <- AllFaults
    MaxRuns = 2
SYMMETRY CommandSymmetry
INVARIANTS TypeOK    Recoverable
INVARIANTS SpliceKeepsOthers SpliceReplaces SpliceRestores
PROPERTIES OthersUntouched
