SPECIFICATION FairSpec
CONSTANTS
    za = za
    zb = zb
    zc = zc
    zx = zx
    None = None
    NoChecksum = None
    Checksums = {za, zb, zc, zx}
    Zips <- MCZips
    Bills <- MCBills
    Published <- MCPublished
    Holds <- MCHolds
    Unreadable <- MCUnreadable
    Corrupt <- MCCorrupt
    Size <- MCSize
    Splice <- MCSplice
    Lake <- MCLake
    BatchSize = 1
    MaxFaults = 2
    MaxLegacy = 1
INVARIANTS
    TypeOK
    OneVersionUnlessBeside
    SucceededIsLoaded
PROPERTIES
    ReplacedByNewer
    EventuallyLoadedUnlessStuck
