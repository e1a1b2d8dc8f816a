SPECIFICATION MCSpec
CONSTANTS
    Parts = {"runtime"}
    Jobs = {j1}
    Dids = {d1, d2}
    Handlers = {h1, h2}
    None = None
    MaxRecords = 2
    Tasks = {t1, t2}
    Proposals = {p}
    Receipts = {r}
    PolledJobs = {"j1", "j2"}
    Keys = {k1, k2}
    NodeDid = k1
    KeyPath = FALSE
    CidOk = {r}
    ReceiptCost <- Cost
    JobParams <- Params
    Unset = Unset
    MaxCrashes = 1
    MaxOps = 5
    Defs <- MCDefs
    MaxDefs = 2
    ValidDids = {"did"}
    HostMana = 5
    GuestCalls <- MCGuestCalls
    MaxRuns = 3
    MaxCalls = 3
    SignBit = 4
    MemoryLen = 5
    GuestTexts <- MCTexts
    MaxFuel = 2
    Executions = 2
CHECK_DEADLOCK FALSE
INVARIANT OneChargePerExecution
