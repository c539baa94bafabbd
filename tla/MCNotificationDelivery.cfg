SPECIFICATION DeliverySpec
CONSTANTS
    w1 = w1  w2 = w2
    NoJob = NoJob
    Workers <- MCWorkers
    NJobs = 2
    NUsers = 3
    RecipientBatch = 2
    BatchesPerRun = 2
    MaxFailures = 1
    MaxGrantChanges = 1
INVARIANTS
    DeliveredExactlyOnce
PROPERTIES
    EveryJobIsDelivered
