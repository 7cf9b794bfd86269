SPECIFICATION Spec
CONSTANTS
    k1 = k1
    k2 = k2
    TokenKeys <- TwoKeys
    MaxKeys = 2
INVARIANTS SavedReadable
