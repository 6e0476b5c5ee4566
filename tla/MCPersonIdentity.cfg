SPECIFICATION Spec
CONSTANTS
    b1 = b1
    b2 = b2
    g1 = g1
    h2 = h2
    x = x
    o1 = o1
    o2 = o2
    l1 = l1
    l2 = l2
    s1 = s1
    s2 = s2
    s3 = s3
    Identifiers = {b1, b2, g1, h2, x, o1, o2}
    Bioguides = {b1, b2}
    Persons = {p1, p2, p3, p4}
    Nobody = Nobody
    Sources = {s1, s2, s3}
    Legislators = {l1, l2}
    IdsOf <- MCIds
    BioguideOf <- MCBioguideOf
    Files <- MCFiles
    Exceptions <- MCExceptions
    Rolls = {r1}
    Terms = {t1}
    VoteIds = {b1, o2}
    TermIds = {b1, o1}
SYMMETRY MCSymmetry
INVARIANTS TypeOK OneBioguide NothingMisplacedInSilence IdentityIsEvidence VotesFollowPeople
