\* A slot for every identifier: the pool is never exhausted; three orders fill
\* a level, and their quantities overflow it.
SPECIFICATION Spec
CONSTANTS
    Ids = {i1, i2, i3}
    NullId = NullId
    Handles = {h1, h2, h3}
    Null = Null
    TickRange = 2
    QMod = 4
    Quantities = {1, 3}
    Owners = {0, 1}
SYMMETRY Symmetry
INVARIANTS
    FifosHoldTheLiveOrders
    LevelTotals
    FokAllOrNothing
    DroppedOnlyBySelfTrade
    RestingIsInBook
PROPERTIES
    TimePriority
    ImplementsRef
