\* A publisher batch that is reached.
SPECIFICATION Spec
CONSTANTS
    InBound = 1
    OutBound = 3
    CoreBatch = 9
    PubBatch = 2
    MaxEvents = 2
    MaxTrades = 2
INVARIANTS
    TradesAccounted
