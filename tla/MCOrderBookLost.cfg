\* One slot, two identifiers: the second order cannot rest.
SPECIFICATION Spec
CONSTANTS
    Ids = {i1, i2}
    NullId = NullId
    Handles = {h1}
    Null = Null
    TickRange = 2
    QMod = 4
    Quantities = {1, 3}
    Owners = {0, 1}
SYMMETRY Symmetry
INVARIANTS
    RestingIsInBook
