------------------------------ MODULE Sharding ------------------------------
(***************************************************************************)
(* createShardAllocations of src/master/sharding.h: cut the files of a job *)
(* into shards of shardSize bytes.  A shard is a list of pieces; a piece   *)
(* is a range of bytes of one file, both ends included, counted from 1.    *)
(***************************************************************************)
EXTENDS Accumulate

CONSTANTS
    Inputs,   \* the jobs considered: the sizes of the files and the shard size
    MaxInt    \* largest value of the code's int

(* A shard size is positive (with 0 or less the inner loop never ends) and *)
(* startOffset + requiredShardSize fits an int.                            *)
ASSUME InputsAssumption ==
    /\ MaxInt \in Nat
    /\ \A in \in Inputs :
         /\ in.sizes \in Seq(Nat) /\ in.shardSize \in Nat \ {0}
         /\ \A f \in DOMAIN in.sizes : in.sizes[f] + in.shardSize <= MaxInt

VARIABLES
    input,     \* the job
    i,         \* index of the current file
    start,     \* startOffset
    current,   \* currentShard->files
    capacity,  \* currentShard->capacity
    shards     \* allShards

vars == <<input, i, start, current, capacity, shards>>

N        == Len(input.sizes)
FileSize == input.sizes[i]
Required == input.shardSize - capacity

Piece == [file : Nat \ {0}, first : Nat \ {0}, last : Nat]

(* min(fileSize, (startOffset + requiredShardSize) - 1) *)
EndOffset ==
    IF FileSize <= start + Required - 1 THEN FileSize ELSE start + Required - 1

(* isShardComplete *)
\* mutant: a full shard is not recognised
Complete_Over(cap) == cap > input.shardSize
Complete(cap) == cap = input.shardSize

\* mutant: the next piece starts on the last byte of this one
NextStart_Same == EndOffset
NextStart == EndOffset + 1

(* isLastByte && i == n - 1 && !isShardComplete *)
\* mutant: the last shard is only kept when it is full
LastByte_Never(end) == FALSE
\* mutant: a shard also ends where a file ends
LastByte_EveryFile(end) == end = FileSize
LastByte(end) == end = FileSize /\ i = N

Init ==
    /\ input \in Inputs
    /\ i = 1 /\ start = 1
    /\ current = << >> /\ capacity = 0 /\ shards = << >>

(* One turn of the inner loop: cut a piece off the current file, close the *)
(* shard when it is full or when this was the last byte of the last file.  *)
Cut ==
    /\ i <= N
    /\ start <= FileSize
    /\ LET piece == [file |-> i, first |-> start, last |-> EndOffset]
           cap   == capacity + (EndOffset - start + 1)
       IN  IF Complete(cap)
             THEN /\ shards' = Append(shards, Append(current, piece))
                  /\ current' = << >> /\ capacity' = 0
             ELSE /\ shards' = IF LastByte(EndOffset)
                                 THEN Append(shards, Append(current, piece)) ELSE shards
                  /\ current' = Append(current, piece) /\ capacity' = cap
    /\ start' = NextStart
    /\ UNCHANGED <<input, i>>

(* The file is used up, or empty: on to the next one, from its first byte *)
NextFile ==
    /\ i <= N
    /\ start > FileSize
    /\ i' = i + 1 /\ start' = 1
    /\ UNCHANGED <<input, current, capacity, shards>>

Done == i > N

(* The shards have been returned *)
Returned == Done /\ UNCHANGED vars

Next == Cut \/ NextFile \/ Returned
Spec == Init /\ [][Next]_vars

-----------------------------------------------------------------------------
(* Properties *)

(* Type invariant; no shard ever gets more than shardSize bytes *)
TypeOK ==
    /\ input \in Inputs
    /\ i \in 1 .. N + 1 /\ start \in Nat \ {0}
    /\ current \in Seq(Piece) /\ shards \in Seq(Seq(Piece))
    /\ capacity \in 0 .. input.shardSize

Holds(p, f, b)      == p.file = f /\ p.first <= b /\ b <= p.last
ShardHolds(s, f, b) == \E m \in DOMAIN s : Holds(s[m], f, b)
InShards(f, b)      == \E k \in DOMAIN shards : ShardHolds(shards[k], f, b)
InCurrent(f, b)     == ShardHolds(current, f, b)

(* No byte is handed out twice: no two pieces of the shards returned by    *)
(* createShardAllocations overlap, within a shard or across shards.        *)
Apart(p, q)    == p.file = q.file => p.last < q.first \/ q.last < p.first
AllApart(s, t) == \A m \in DOMAIN s, n \in DOMAIN t : Apart(s[m], t[n])
SelfApart(s)   == \A m, n \in DOMAIN s : m # n => Apart(s[m], s[n])
NoByteTwice ==
    \A k \in DOMAIN shards : /\ SelfApart(shards[k])
                             /\ \A l \in DOMAIN shards : k # l => AllApart(shards[k], shards[l])

(* The shards hand out every byte of every file, unless the last file is   *)
(* empty: then the shard that is not full when that file is reached is     *)
(* dropped, and its bytes, exactly, are missing.                           *)
NoByteLost ==
    Done => \A f \in 1 .. N : \A b \in 1 .. input.sizes[f] :
              \/ InShards(f, b)
              \/ input.sizes[N] = 0 /\ InCurrent(f, b)

(* Every shard but the last is full: the sizes of its pieces add up to     *)
(* shardSize; the last one is neither empty nor larger.                    *)
SizeOf(shard) ==
    Total([m \in DOMAIN shard |-> shard[m].last - shard[m].first + 1], Len(shard))
ShardsFull ==
    \A k \in DOMAIN shards : /\ SizeOf(shards[k]) \in 1 .. input.shardSize
                             /\ k < Len(shards) => SizeOf(shards[k]) = input.shardSize

(* A byte of a file that follows is handed out after all of those before:  *)
(* every turn of the inner loop takes at least one byte, so the loop ends. *)
ProgressStep == i \in 1 .. N /\ i' = i => start' > start
Progress == [][ProgressStep]_vars
=============================================================================
