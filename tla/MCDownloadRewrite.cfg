SPECIFICATION Spec
CONSTANTS
    p1 = p1
    p2 = p2
    v1 = v1
    v2 = v2
    Procs = {p1, p2}
    Versions = {v1, v2}
    None = None
    NoChecksum = NoChecksum
    Size <- MCSize
    MaxSize <- MCMaxSize
    Checksums <- MCChecksums
    Policies = {"resume"}
    HardLinks = {TRUE}
    RangeSupport = {TRUE, FALSE}
    ExpectedSizes = {0}
    MaxRefresh = 1
    MaxCrashes = 1
    MaxErrors = 0
    MaxLocal = 0
INVARIANTS
    EvidenceIntact
