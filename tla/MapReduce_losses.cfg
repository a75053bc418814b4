SPECIFICATION Spec
CONSTANTS
    w1 = w1
    w2 = w2
    w3 = w3
    h1 = h1
    h2 = h2
    m1 = m1
    m2 = m2
    Worker <- ThreeWorkers
    Host = {h1, h2}
    HostOf <- ThreeHostOf
    MasterHost = {m1}
    NumJobs = 1
    NumShards = 2
    NumReducers = 1
    MaxFaults <- LossFaults
    MaxMasters = 1
INVARIANTS
    StrandedByLoss
    UnlockedWritesAlone
    AbandonedByLoss
    MutualWaitNeedsFault
PROPERTIES
    CompletedStays
CHECK_DEADLOCK FALSE
