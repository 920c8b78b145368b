\* Two tenants and three keys on two instances, two operations at a time.
SPECIFICATION Spec
CONSTANTS
    k1 = k1
    k2 = k2
    k3 = k3
    i1 = i1
    i2 = i2
    t1 = t1
    t2 = t2
    s1 = s1
    s2 = s2
    Tenants = {t1, t2}
    ApiKeys = {k1, k2, k3}
    NoKey = NoKey
    Networks = {anywhere, n1}
    Anywhere = anywhere
    Instances = {i1, i2}
    NoEntry = NoEntry
    Slots = {s1, s2}
    Kinds <- Everything
    FaultySteps <- AllFaults
    Graces = {0, 1}
    NoTenant = NoTenant
    AllowEviction = TRUE
    AllowLoss = TRUE
    MaxOps = 4
    MaxNow = 1
SYMMETRY Symmetric
CHECK_DEADLOCK FALSE
INVARIANTS
    WarmIsExact
    KeyOpensOwnTenant
    SuspensionHolds
