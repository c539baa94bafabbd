SPECIFICATION LeaseSpec
CONSTANTS
    p1 = p1  p2 = p2
    None = None
    Procs <- MCProcs
    LeaseTime = 2
    Batch = 1
    MaxTime = 6
INVARIANTS
    WriterHoldsLease
PROPERTIES
    ImplementsFencedWriter
SYMMETRY Symmetry
