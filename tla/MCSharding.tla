----------------------------- MODULE MCSharding -----------------------------
EXTENDS ShardText
CONSTANTS MaxTotal, MaxShardSize

Sizes ==
    {<<a>> : a \in 0 .. MaxTotal} \cup UNION
    {{<<a, b>> : b \in 0 .. MaxTotal - a} : a \in 0 .. MaxTotal} \cup UNION
    {{<<a, b, c>> : c \in {MaxTotal - a - b, 0}} :
        <<a, b>> \in {p \in (0 .. MaxTotal) \X (0 .. MaxTotal) : p[1] + p[2] <= MaxTotal}}

AllInputs == [sizes : Sizes, shardSize : 1 .. MaxShardSize]
=============================================================================
