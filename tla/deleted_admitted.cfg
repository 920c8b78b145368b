\* The key of a deleted tenant.
SPECIFICATION Spec
CONSTANTS
    k1 = k1
    k2 = k2
    k3 = k3
    i1 = i1
    i2 = i2
    t1 = t1
    t2 = t2
    s1 = s1
    s2 = s2
    Tenants = {t1}
    ApiKeys = {k1, k2}
    NoKey = NoKey
    Networks = {anywhere, n1}
    Anywhere = anywhere
    Instances = {i1}
    NoEntry = NoEntry
    Slots = {s1}
    Kinds = {"create", "delete"}
    FaultySteps <- NoFaults
    Graces = {0, 1}
    NoTenant = NoTenant
    AllowEviction = FALSE
    AllowLoss = FALSE
    MaxOps = 2
    MaxNow = 1
CHECK_DEADLOCK FALSE
INVARIANTS
    DeletedRefused
