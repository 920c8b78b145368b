\* Four requests, two buckets, half a second a tick.
SPECIFICATION Spec
CONSTANTS
    first = first
    second = second
    r1 = r1
    r2 = r2
    r3 = r3
    r4 = r4
    Requests = {r1, r2, r3, r4}
    Keys = {first, second}
    Wanted <- SomeWanted
    Managed = {second}
    Rps <- SomeRps
    Burst <- SomeBurst
    Scale = 2
    IdleEvict = 4
    MaxBuckets = 2
    MaxNow = 5
    None = None
SYMMETRY Alike
CHECK_DEADLOCK FALSE
INVARIANTS
    WithinRate
PROPERTIES
    RefusedForCause
