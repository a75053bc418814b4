SPECIFICATION Spec
CONSTANTS
    w1 = w1
    w2 = w2
    w3 = w3
    h1 = h1
    h2 = h2
    m1 = m1
    m2 = m2
    Worker <- TwoWorkers
    Host = {h1, h2}
    HostOf <- TwoHostOf
    MasterHost = {m1, m2}
    NumJobs = 1
    NumShards = 2
    NumReducers = 2
    MaxFaults <- MasterFault
    MaxMasters = 2
INVARIANTS
    TypeOK
    InputsUploaded
CHECK_DEADLOCK FALSE
PROPERTIES
    ImplementsBoard
