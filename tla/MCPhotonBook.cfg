\* Fewer slots than identifiers; expiries before, at and after a check.
SPECIFICATION Spec
CONSTANTS
    Ids = {i1, i2, i3}
    NullId = NullId
    Handles = {h1, h2}
    Null = Null
    TickRange = 1
    QMod = 4
    Quantities = {1, 2}
    Owners = {0, 1}
    Times = {1, 2}
    Lives <- MCLives
SYMMETRY Symmetry
INVARIANTS
    TypeOK
    EventsShowBook
    ExpiryInv
PROPERTIES
    PhantomsExplained
    NoneOverdue
    ExpiresOnlyDue
