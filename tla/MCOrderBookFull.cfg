\* Fewer slots than identifiers: orders meet an exhausted pool.
SPECIFICATION Spec
CONSTANTS
    Ids = {i1, i2, i3, i4}
    NullId = NullId
    Handles = {h1, h2, h3}
    Null = Null
    TickRange = 3
    QMod = 4
    Quantities = {0, 1, 3}
    Owners = {0, 1}
SYMMETRY Symmetry
INVARIANTS
    TypeOK
    Linked
    Grounded
    IndexExact
    BestPrices
    ModifyKeepsOrder
