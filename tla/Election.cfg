SPECIFICATION ElectionFairSpec
CONSTANTS
    p1 = p1
    p2 = p2
    p3 = p3
    p4 = p4
    Process <- FourProcesses
    Cutoff = 2
    MaxTrouble = 1
INVARIANTS
    SoleLeader
    LeadersNeedTrouble
PROPERTIES
    LeaderElected
CHECK_DEADLOCK FALSE
