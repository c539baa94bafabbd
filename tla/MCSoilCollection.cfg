SPECIFICATION Spec
CONSTANTS
    p1 = p1  p2 = p2  x = x  y = y
    None = None
    Procs <- MCProcs
    Values <- MCValues
    Upstreams <- MCUpstreams
    MaxTime = 3
    Retention = 2
    Window = 2
    PageSize = 3
    MaxPages = 2
    StationLimit = 2
    PruneBatch = 1
    MaxFaults = 1
    Queries <- MCQueries
SYMMETRY MCSymmetry
INVARIANTS
    CoverageIsStored
    WatermarkIsStored
PROPERTIES
    WatermarkNeverGoesBack
    NothingIsStoredAfterRemoval
