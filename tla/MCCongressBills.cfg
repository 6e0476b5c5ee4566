SPECIFICATION FairSpec
CONSTANTS
    LastBill = 4
    LastPage = 2
    LastCongress = 2
    PageOf <- MCPageOf
    CongressOf <- MCCongressOf
    Detail = detail
    Cosponsors = cosponsors
    Parts = {detail, cosponsors}
    RecoveryKeys <- MCKeys
    Servers <- MCServers
    Limits = {2, 4}
    Ingested = {3}
    BillWindow = 2
    SaveWindow = 2
    MaxErrors = 1
    MaxKills = 1
INVARIANTS TypeOK EvidenceFirst SucceededIsSavedUnlessTorn ClosedIsQuiet
PROPERTIES LossBounded EventuallySaved
