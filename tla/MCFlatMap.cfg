\* Four keys of which two are stored at a time, every hash function.
SPECIFICATION FairSpec
CONSTANTS
    Keys = {1, 2, 3, 4}
    Values = {v1, v2}
    None = None
    Cap = 4
    Expected = 2
    Homes <- MCHomes
INVARIANTS
    TableInv
PROPERTIES
    ImplementsMap
    ReturnsWithEmpty
