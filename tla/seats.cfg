\* Two instances contend for the seats of one license.
SPECIFICATION Spec
CONSTANTS
    Keys = {k1}
    NoID = NoID
    NoExpiry = NoExpiry
    Instances = {i1, i2}
    NoEntry = NoEntry
    NegEntry = NegEntry
    Requests = {r1, r2, r3}
    Clients = {c1, c2}
    NoRow = NoRow
    NoRequest = NoRequest
    IdemKeys = {x1}
    NoIdem = NoIdem
    Shards = {"s1", "s2"}
    Shard <- TwoShards
    Workload <- SeatWorkload
    InitDB <- SeatDB
    SchemaComplete = TRUE
    TenantAuthWired = TRUE
    FaultySteps = {"find", "lock", "tx", "count", "insert", "release", "reread", "write"}
    AllowEviction = FALSE
    MaxInFlight = 3
    MaxCrashes = 0
    MaxNow = 0
    i1 = i1
    i2 = i2
    k1 = k1
    k2 = k2
    c1 = c1
    c2 = c2
    x1 = x1
    r1 = r1
    r2 = r2
    r3 = r3
SYMMETRY RequestSymmetry
INVARIANTS
    UniqueIndexNeverFires
    AnswerNamesOwnRow
PROPERTIES
    SeatGrantedWithinLimit
    ImplementsSeatLedger
CHECK_DEADLOCK FALSE
