SPECIFICATION MCSpec
CONSTANTS
    root = root
    farmer = farmer
    developer = developer
    farm1 = farm1
    plot1 = plot1
    st1 = st1
    st2 = st2
    c1 = c1
    c2 = c2
    s1 = s1
    k1 = k1
    Users = {root, farmer, developer}
    Farms = {farm1}
    Plots = {plot1}
    FarmOf <- MCFarmOf
    Stations = {st1, st2}
    Codes = {c1, c2}
    Sources = {s1}
    Keys = {k1, k2, k3}
    Requests = {q1, q2}
    System = System
    None = None
    MaxChanges = 4
    Rank <- MCRank
    PageSize = 1
INVARIANTS
    ListedOwnersAreValid
CHECK_DEADLOCK FALSE
