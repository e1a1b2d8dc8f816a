CONSTANTS
    Dids = {d1, d2}
    Spenders = {s1, s2}
    Endowment = 2
    Amounts = {0, 1, 2}
    Rate = 1
    MaxOps = 2
    MaxTicks = 2
    u1 = u1
    u2 = u2
    Callers = {c1, c2}
    Users = {u1, u2}
    Quantities = {1, 2}
    Expiries = {1, 9}
    Policies <- MCPolicies
    TokenMax = 3
    MaxSecs = 2
    MaxRecords = 3
    MaxUsed = 5
SPECIFICATION EconomySpec
INVARIANTS
    LedgerSound
    LimitsHeld
PROPERTIES
    TickEnds
    TokensNotCreated
