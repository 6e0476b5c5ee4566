SPECIFICATION FairSpec
CONSTANTS
    g1 = g1
    g2 = g2
    Gates = {g1}
    Ids = {1, 2, 3}
    Window = 4
    FallbackLimit = 2
    ServerLimit = 1
    Safety = 0
    ProbeGap = 3
    Ttl = 2
    MaxFlight = 2
    LogThreshold = 2
    FlushEvery = 2
    RetryAfters <- MCRetryAfters
    MaxRestarts = 1
    MaxDamage = 1
    None = None
    Missing = Missing
    Unreadable = Unreadable
    Garbled = Garbled
INVARIANTS
    IInv
    PaceKept
    AllowanceKept
PROPERTIES
    OneProbe
    CooldownHonoured
    TurnsKeepComing
