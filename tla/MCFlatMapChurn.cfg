\* The same map, used until no slot is empty.
SPECIFICATION FairSpec
CONSTANTS
    Keys = {1, 2, 3, 4}
    Values = {v1, v2}
    None = None
    Cap = 4
    Expected = 2
    Homes <- MCHomes
PROPERTIES
    MissingReturns
