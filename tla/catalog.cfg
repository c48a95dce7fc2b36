SPECIFICATION Spec
CONSTANTS
    c1 = c1
    c2 = c2
    w1 = w1
    a1 = a1
    a2 = a2
    v1 = v1
    v2 = v2
    k1 = k1
    k2 = k2
    t1 = t1
    t2 = t2
    none = none
    Clients = {c1, c2}
    Admins = {c2}
    Works = {w1}
    Arrangements = {a1, a2}
    Voices = {v1, v2}
    Collections = {k1, k2}
    Tags = {t1, t2}
    Names = {1, 2}
    Kindless = {2}
    arrangementOf <- MCArrangementOf
    slugify <- MCSlugify
    rank <- MCRank
    Populations <- MCPopulations
    MaxPage = 2
    MaxRequests = 2
INVARIANTS TypeOK KeysUnique AuditTruthful AuditComplete PagesPartition
PROPERTIES FrozenWhileDeleted
CHECK_DEADLOCK FALSE
