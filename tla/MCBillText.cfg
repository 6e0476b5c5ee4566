SPECIFICATION FairSpec
CONSTANTS
    za = za
    zb = zb
    zc = zc
    zx = zx
    x1 = x1
    x2 = x2
    x3 = x3
    None = None
    NoChecksum = None
    Checksums = {za, zb, zc, zx, x1, x2, x3}
    Texts <- MCTexts
    Bills <- MCBills
    BillOf <- MCBillOf
    Publications <- MCPublications
    XmlOf <- MCXmlOf
    Holds <- MCHolds
    Unreadable <- MCUnreadable
    Corrupt <- MCCorrupt
    Size <- MCSize
    Splice <- MCSplice
    BatchSize = 1
    MaxFaults = 1
INVARIANTS
    TypeOK
    SucceededIsExact
    DocumentFollowsRecord
PROPERTIES
    LostOnlyIfDelisted
    EventuallyAttachedUnlessStuck
