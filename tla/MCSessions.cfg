SPECIFICATION Spec
CONSTANTS
    u1 = u1  s1 = s1  s2 = s2  s3 = s3  s4 = s4  q1 = q1  q2 = q2  q3 = q3
    None = None
    Users <- MCUsers
    SessionIds <- MCSessionIds
    Requests <- MCRequests
    MaxFailed = 2
    FailureBound = 2
    MaxPassword = 1
INVARIANTS
    FamilyIsAChain
    DisabledHasNoSession
    ResetEndsSessions
    LocksAtTheLimit
SYMMETRY Symmetry
CHECK_DEADLOCK FALSE
