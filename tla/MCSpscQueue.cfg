\* Four slots, so three items at most; three items that differ.
SPECIFICATION Spec
CONSTANTS
    Capacity = 4
    Items = {x, y, z}
    NoItem = NoItem
SYMMETRY Symmetry
INVARIANTS
    TypeOK
    RingOrder
    NoSlotRace
PROPERTIES
    ImplementsFifo
