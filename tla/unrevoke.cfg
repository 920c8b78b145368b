\* An update after a revocation.
SPECIFICATION Spec
CONSTANTS
    Keys = {k1}
    NoID = NoID
    NoExpiry = NoExpiry
    Instances = {i1}
    NoEntry = NoEntry
    NegEntry = NegEntry
    Requests = {r1, r2}
    Clients = {c1, c2}
    NoRow = NoRow
    NoRequest = NoRequest
    IdemKeys = {x1}
    NoIdem = NoIdem
    Shards = {"s1", "s2"}
    Shard <- OneShard
    Workload <- UpdateAfterRevoke
    InitDB <- StoredDB
    SchemaComplete = TRUE
    TenantAuthWired = TRUE
    FaultySteps = {}
    AllowEviction = FALSE
    MaxInFlight = 1
    MaxCrashes = 0
    MaxNow = 0
    i1 = i1
    i2 = i2
    k1 = k1
    k2 = k2
    c1 = c1
    c2 = c2
    x1 = x1
    r1 = r1
    r2 = r2
    r3 = r3
PROPERTY RevokedIsTerminal
CHECK_DEADLOCK FALSE
