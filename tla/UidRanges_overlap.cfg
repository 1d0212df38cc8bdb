CONSTANTS
    UidSpan = 5
    MaxNumber = 5
    MaxArgs = 2
    MaxRanges = 3
SPECIFICATION Spec
INVARIANT HasUidFindsCovered
