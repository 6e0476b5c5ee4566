SPECIFICATION Spec
CONSTANTS
    g1 = g1
    g2 = g2
    Gates = {g1, g2}
    Ids = {1, 2}
    Window = 4
    FallbackLimit = 2
    ServerLimit = 2
    Safety = 0
    ProbeGap = 1
    Ttl = 3
    MaxFlight = 2
    LogThreshold = 2
    FlushEvery = 2
    RetryAfters <- MCRetryAfters
    MaxRestarts = 0
    MaxDamage = 0
    None = None
    Missing = Missing
    Unreadable = Unreadable
    Garbled = Garbled
INVARIANTS
    PaceKept
