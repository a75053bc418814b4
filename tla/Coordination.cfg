SPECIFICATION CoordinationSpec
CONSTANTS
    w1 = w1
    w2 = w2
    w3 = w3
    NoNode = NoNode
    Worker <- ThreeWorkers
    MaxTasks = 2
    MaxJobs = 3
    MaxCrashes = 2
INVARIANTS
    SomeoneSurvives
    IdleAtRest
    InOrder
PROPERTIES
    AnsweredCompletes
CHECK_DEADLOCK FALSE
