SPECIFICATION L2Spec
CONSTANTS
    Calls = {c1, c2}
    Threshold = 1
    Cooldown = 1
    TTL = 2
    NoEntry = NoEntry
INVARIANTS
    StaleWithinTTL
PROPERTIES
    Recovers
    OutageOpens
