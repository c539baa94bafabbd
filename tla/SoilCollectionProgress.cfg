SPECIFICATION Spec
CONSTANTS
    p1 = p1  p2 = p2  x = x  y = y
    None = None
    Procs = {p1}
    Values <- MCValues
    Upstreams <- MCLaterUpstreams
    MaxTime = 3
    Retention = 3
    Window = 1
    PageSize = 3
    MaxPages = 1
    StationLimit = 3
    PruneBatch = 1
    MaxFaults = 2
    Queries = {}
PROPERTIES
    CatchesUp
