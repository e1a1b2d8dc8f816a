CONSTANTS
    alice = alice
    bob = bob
    carol = carol
    Entities = {alice, bob, carol}
    Workers = {w1, w2}
    None = None
    Opening <- MCOpening
    Transfers <- MCTransfers
    Batches <- MCBatches
    MaxCalls = 3
SPECIFICATION FairSpec
CHECK_DEADLOCK FALSE
INVARIANTS
    LocksHeld
    StatsExact
PROPERTIES
    ImplementsBook
    CallsEnd
