SPECIFICATION TextSpec
CONSTANTS
    Inputs <- AllInputs
    MaxInt = 10
    MaxTotal = 6
    MaxShardSize = 4
    Slack = 1
INVARIANTS
    NoByteTwice
    NoByteLost
    ShardsFull
    EveryWordRead
    OverlapNearEnds
PROPERTIES
    Progress
