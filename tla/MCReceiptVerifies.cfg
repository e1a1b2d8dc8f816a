SPECIFICATION MCSpec
CONSTANTS
    Sides = {"evidence"}
    n1 = n1
    n2 = n2
    bad = bad
    i1 = i1
    i2 = i2
    d1 = d1
    d2 = d2
    d3 = d3
    k1 = k1
    k2 = k2
    k3 = k3
    f1 = f1
    f2 = f2
    Tasks = {t1, t2}
    Nodes = {n1, n2, bad}
    Ids = {i1, i2}
    CidOf <- WorkingCid
    NoCid = NoCid
    None = None
    MaxOps = 7
    Dids = {d1, d2, d3}
    KeyOf <- MCKeyOf
    Entries = {cpu, mem}
    Bodies = {b1, b2}
    Forms = {f1, f2}
    Weights <- MCWeights
    WeightRange = 16
    Registrations <- MCRegistrations
    Rules <- MCRules
    Proofs <- MCProofs
    MaxProof = 3
    Absent = Absent
    Subjects = {"a", "b"}
    Clients = {c1, c2}
    Durations = {1, 4}
    Stakes = {1}
    StakeLog <- Logs
    Stamps = {1, 2}
    Events <- SomeEvents
    NoValue = NoValue
    MaxRecords = 2
    Requests = {q1, q2}
    MeshJobs = {"j1", "j2", "j3"}
    RequiredMana <- Mana
    Price <- Prices
    Offer <- Offers
    Need <- Needs
    Policy <- Policies
    TTL = 1
    HttpTimeout = 1
    MaxNow = 2
    MaxBids <- Limit
CONSTRAINT MCBounded
CHECK_DEADLOCK FALSE
INVARIANT ReceiptVerifies
