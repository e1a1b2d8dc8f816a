SPECIFICATION MCSpec
CONSTANTS
    Parts = {"forum"}
    f1 = f1
    f2 = f2
    coop = coop
    comm = comm
    adm = adm
    usr = usr
    k1 = k1
    k2 = k2
    Configured = {AnyIssuer}
    Issuers = {Service}
    Conns = {k1, k2}
    v1 = v1
    v2 = v2
    Federations = {f1, f2}
    Coops = {coop}
    Communities = {comm}
    Subjects = {usr}
    BadSubject = BadSubject
    Unknown = Unknown
    Service = Service
    AnyIssuer = AnyIssuer
    NoOrg = NoOrg
    Grants <- MCGrants
    Roots <- MCRoots
    Leeway = 0
    Retention = 1
    MaxNow = 2
    MaxTokens = 4
    MaxCalls = 3
    Voters = {v1, v3}
    v3 = v3
    VoteTypes <- MCVoteTypes
    Deadlines = {1}
    Receipts <- MCReceipts
    Balances <- MCBalances
    Transactions <- MCTransactions
    ExampleVotes <- MCExampleVotes
    ExampleCounts <- MCExampleCounts
    MaxProposals = 2
    MaxThreads = 2
    Clients = {w}
    w = w
    Scopes <- MCScopes
    Capacity = 1
    MaxEvents = 2
    Entities <- MCEntities
    Opening <- MCOpening
    Transfers <- MCTransfers
    Callers = {c1, c2}
    LedgerFeds = {"f1", "f2"}
    Registry <- MCRegistry
    Claims <- MCClaims
    Requests <- MCRequests
    BatchBodies <- MCBatchBodies
    StatsFeds = {"f1"}
    PageSizes = {1, 2}
    None = None
    MaxRequests = 3
SYMMETRY MCSymmetry
CONSTRAINT MCBounded
CHECK_DEADLOCK FALSE
INVARIANT IssuedTokensWork
