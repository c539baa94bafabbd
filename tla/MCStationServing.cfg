SPECIFICATION MCSpec
CONSTANTS
    one = s1
    Stations = {s1, s2, s3, s4}
    Requests = {q1, q2}
    None = None
    MaxEntries = 2
    Ttl = 1
    StaleIfError = 0
    MaxTime = 1
    MaxSample = 2
    Readers = {r1, r2}
    Nobody = Nobody
    KeptFor = 2
    LastMoment = 2
    ApiKeys = {k1, k2, k3, k4}
    Limit <- MCLimit
    MaxWindows = 2
    LastMinute = 1
    MaxUses = 6
    Records <- MCRecords
    Ascending = TRUE
    PageLimit = 2
    MaxPages = 4
    MaxAsks = 5
    MaxDisturbances = 3
SYMMETRY MCSymmetry
INVARIANTS
    AnswersNeverGoBack
    LastFetchedWins
    CacheStaysBounded
    ChecksNeverGoBack
    LimitHolds
    WalkIsComplete
CHECK_DEADLOCK FALSE
