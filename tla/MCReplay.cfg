\* A tick of two prices, and a price out of range.
SPECIFICATION Spec
CONSTANTS
    Ids = {r1, r2, r3, hidden}
    NullId = NullId
    Hidden = hidden
    Handles = {h1, h2, h3}
    Null = Null
    TickRange = 1
    TickDivisor = 2
    RawPrices = {0, 1, 2}
    QMod = 4
    Quantities = {1, 2}
    Owners = {0}
    Symbols = {s1, s2}
    AnySymbol = AnySymbol
SYMMETRY Symmetry
INVARIANTS
    ReplayInv
PROPERTIES
    TradesExplained
