SPECIFICATION MCSpec
CONSTANTS
    c1 = c1
    c2 = c2
    u1 = u1
    f1 = f1
    s1 = s1
    s2 = s2
    o1 = o1
    o3 = o3
    farther = p3
    outlying = s3
    Users = {u1, u2}
    MaxSessions = 3
    Calls = {c1, c2}
    None = None
    MaxEpochs = 4
    MaxReloads = 1
    Scopes = {a1, a2}
    Farms = {f1, f2}
    Plots = {p1, p3}
    Spots = {s1, s2, s3}
    FarmOf <- MCFarmOf
    PlotOf <- MCPlotOf
    Null = Null
    MaxWalks = 3
    MaxVisits = 1
    MaxRefusals = 1
    Plotted = {s1, s2}
    Metrics = {m1, m2}
    Void = Void
    MaxWindows = 1
    MaxRounds = 2
    MaxTries = 2
    MaxDenials = 1
    MaxMail = 2
    PageSize = 1
    MenuSize = 2
    MaxLoads = 2
    MaxMarks = 1
    MaxAbsences = 1
    Origins = {o1, o2, o3}
    Nodes = {n1}
    MaxGuests = 3
    GrantLimit = 1
    Emails = {e1}
    Missing = Missing
    MaxFills = 2
    MaxReveals = 3
    MaxSaves = 1
    MaxSeeks = 2
    MaxOpenings = 2
    t1 = t1
    MaxPeople = 4
    DeskLimit = 2
    MaxTrips = 2
    MaxLeaves = 3
    Sieves = {v1, v2}
    MaxDepth = 2
    MaxReadings = 3
    Posts = {t1, t2}
    Screens = {w1, w2}
    NoPost = NoPost
    MaxHails = 3
    KeyIds = {k1, k2}
    MaxSecrets = 2
    MaxPosts = 2
    Terms = {q1, q2}
    NoTerm = NoTerm
    MaxHunts = 4
INVARIANTS
    TokenIsTheUsers
    WaitsForAnAnswer
    WhatIsShownIsCurrent
PROPERTIES
    SessionEndsForItsOwnReason
    LoadingEnds
CHECK_DEADLOCK FALSE
