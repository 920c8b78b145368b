\* One instance processes one request of any kind at a time.
SPECIFICATION Spec
CONSTANTS
    Keys = {k1, k2}
    NoID = NoID
    NoExpiry = NoExpiry
    Instances = {i1}
    NoEntry = NoEntry
    NegEntry = NegEntry
    Requests = {r1, r2, r3}
    Clients = {c1, c2}
    NoRow = NoRow
    NoRequest = NoRequest
    IdemKeys = {}
    NoIdem = NoIdem
    Shards = {"s1", "s2"}
    Shard <- TwoShards
    Workload <- SequentialWorkload
    InitDB <- SequentialDB
    SchemaComplete = TRUE
    TenantAuthWired = TRUE
    FaultySteps = {"find", "lock", "tx", "count", "insert", "release"}
    AllowEviction = TRUE
    MaxInFlight = 1
    MaxCrashes = 1
    MaxNow = 1
    i1 = i1
    i2 = i2
    k1 = k1
    k2 = k2
    c1 = c1
    c2 = c2
    x1 = x1
    r1 = r1
    r2 = r2
    r3 = r3
SYMMETRY RequestSymmetry
INVARIANTS
    PublicIndexCoherent
    StoreCoherent
PROPERTIES
    KnownLicenseIsFound
CHECK_DEADLOCK FALSE
