\* Without symmetry, for liveness.
SPECIFICATION FairSpec
CONSTANTS
    Ids = {i1, i2, i3}
    NullId = NullId
    Handles = {h1, h2}
    Null = Null
    TickRange = 2
    QMod = 4
    Quantities = {1, 2}
    Owners = {0}
    Times = {1}
    Lives <- MCLivesOnce
PROPERTIES
    CallsReturn
