\* A plan ID, two tenants and a license on two instances, two operations at a
\* time.
SPECIFICATION Spec
CONSTANTS
    f1 = f1
    f2 = f2
    f3 = f3
    q = q
    i1 = i1
    i2 = i2
    t1 = t1
    t2 = t2
    s1 = s1
    s2 = s2
    Tenants = {t1, t2}
    NoTenant = NoTenant
    Plans = {p1}
    Keys = {k1}
    Features = {f1, f2, f3}
    Products = {q}
    NoProduct = NoProduct
    Contents <- SomeContents
    Terms <- SomeTerms
    Instances = {i1, i2}
    NoInstance = NoInstance
    NoEntry = NoEntry
    NoRow = NoRow
    Slots = {s1, s2}
    Kinds <- Everything
    FaultySteps <- Faults
    AllowLoss = TRUE
    MaxOps = 3
    MaxNow = 1
SYMMETRY Symmetric
CHECK_DEADLOCK FALSE
INVARIANTS
    FeaturesWereGranted
    WriterIsCurrent
    DeleteHolds
PROPERTIES
    ResolvedAsDocumented
