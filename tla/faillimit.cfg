\* Two clients of one address and tenant, served by one instance or two, with Redis
\* or without: a second failure within a minute is a strike.
SPECIFICATION Spec
CONSTANTS
    r1 = r1
    r2 = r2
    i1 = i1
    i2 = i2
    key = key
    ip = ip
    Requests = {r1, r2}
    Instances = {i1, i2}
    Keys = {key}
    Ips = {ip}
    KeyOf <- OneKey
    IpOf <- OneIp
    Redis = Redis
    Setups <- SomeSetups
    LocalCacheEnabled = TRUE
    FailOpen = TRUE
    FailsPerMinute = 1
    GlobalFailsPerMinute = 1
    BlockDurations <- TwoBlocks
    LocalBlockTTL = 3
    Second = 2
    Minute = 2
    Day = 4
    MaxNow = 3
    MaxFaults = 1
    MaxAgain = 2
    None = None
SYMMETRY Alike
CHECK_DEADLOCK FALSE
INVARIANTS
    BlocksArePromised
PROPERTIES
    BlockHolds
    StrikeForCause
