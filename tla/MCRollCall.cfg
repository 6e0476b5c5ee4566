SPECIFICATION FairSpec
CONSTANTS
    c1 = c1
    c2 = c2
    c3 = c3
    c4 = c4
    m1 = m1
    m2 = m2
    Syncs = {s1, s2}
    LastRoll = 2
    LastEdition = 3
    Checksums = {c1, c2, c3, c4}
    NoChecksum = NoChecksum
    Bytes <- MCBytes
    Size <- MCSize
    Entries <- MCEntries
    Malformed = {c3}
    Disputed = {}
    Members = {m1, m2}
    KnownAtStart = {m1}
    BatchSize = 1
    Modes = {"load", "download_only"}
    Nobody = Nobody
    MaxRefresh = 2
    MaxErrors = 1
    MaxStops = 1
INVARIANTS TypeOK RecordMeansLoaded SucceededIsComplete
PROPERTIES ImplementsStore EventuallyReflected
