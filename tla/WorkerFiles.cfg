SPECIFICATION Spec
CONSTANTS
    v1 = v1
    v2 = v2
    Worker <- TwoWorkers
    NumWords = 3
    NumReducers = 2
    NumShards = 2
    MaxLength = 2
    Inputs <- AllInputs
    MaxRuns = 3
INVARIANTS
    ExactIfFresh
    NoForeignWords
    NeverUndercounts
CHECK_DEADLOCK FALSE
