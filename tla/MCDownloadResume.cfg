SPECIFICATION Spec
CONSTANTS
    p1 = p1
    p2 = p2
    v1 = v1
    v2 = v2
    Procs = {p1, p2}
    Versions = {v1, v2}
    None = None
    NoChecksum = NoChecksum
    Size <- MCSize
    MaxSize <- MCMaxSize
    Checksums <- MCChecksums
    Policies = {"resume", "mtime"}
    HardLinks = {TRUE, FALSE}
    RangeSupport = {TRUE, FALSE}
    ExpectedSizes = {0, 2}
    MaxRefresh = 1
    MaxCrashes = 1
    MaxErrors = 1
    MaxLocal = 1
SYMMETRY Symmetry
INVARIANTS
    IInv
    EvidenceIntactUnlessKilled
    WholeUnlessRefreshed
