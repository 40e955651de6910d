\* Four slots, both policies.
SPECIFICATION Spec
CONSTANTS
    Capacity = 4
    Object = Object
INVARIANTS
    PoolInv
PROPERTIES
    ReuseOrder
    ImplementsSlotPool
