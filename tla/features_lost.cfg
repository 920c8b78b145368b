\* A license of a plan, its features after the service has been restarted.
SPECIFICATION Spec
CONSTANTS
    f1 = f1
    f2 = f2
    f3 = f3
    q = q
    i1 = i1
    i2 = i2
    t1 = t1
    t2 = t2
    s1 = s1
    s2 = s2
    Tenants = {t1}
    NoTenant = NoTenant
    Plans = {p1}
    Keys = {k1}
    Features = {f1, f2, f3}
    Products = {q}
    NoProduct = NoProduct
    Contents <- SomeContents
    Terms <- SomeTerms
    Instances = {i1}
    NoInstance = NoInstance
    NoEntry = NoEntry
    NoRow = NoRow
    Slots = {s1}
    Kinds = {"createPlan", "createLicense", "restart"}
    FaultySteps = {}
    AllowLoss = FALSE
    MaxOps = 3
    MaxNow = 0
CHECK_DEADLOCK FALSE
INVARIANT FeaturesResolved
