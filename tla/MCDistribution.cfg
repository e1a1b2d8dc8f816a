CONSTANTS
    Scopes = {node, coop}
    NodeScope = node
    ReceiptNodes = {r1, r2}
    Amounts = {20}
    Rates = {1}
    MaxTime = 2
    MaxSpent = 21
    Interval = 1
    MaxIntervals = 1
SPECIFICATION DSpec
SYMMETRY Symmetry
INVARIANTS
    PoolsSound
    TickCovered
PROPERTIES
    TransferAtomic
    FractionHeld
