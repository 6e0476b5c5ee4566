SPECIFICATION Spec
CONSTANTS
    LastBill = 4
    LastPage = 2
    LastCongress = 2
    PageOf <- MCPageOf
    CongressOf <- MCCongressOf
    Detail = detail
    Cosponsors = cosponsors
    Parts = {detail, cosponsors}
    RecoveryKeys <- MCNoKeys
    Servers <- MCWell
    Limits = {4}
    Ingested = {}
    BillWindow = 2
    SaveWindow = 2
    MaxErrors = 1
    MaxKills = 1
INVARIANTS SucceededIsSaved
