------------------------------ MODULE ShardText ------------------------------
(***************************************************************************)
(* What the map tasks read: the shards of createShardAllocations, turned   *)
(* into FileInfo messages by bootstrap_tasks, and adjust_shard_boundaries  *)
(* of src/worker/worker.cpp applied to each of their pieces.               *)
(*                                                                         *)
(* A byte of a file is a letter (isalnum) or a blank.  The function moves  *)
(* the offsets of its ShardFileInfo to word boundaries, but returns the    *)
(* data it read before it did: the piece and what follows it.              *)
(***************************************************************************)
EXTENDS Sharding

CONSTANT Slack   \* bytes added to the end of a piece, 100 in the code

ASSUME SlackAssumption == Slack \in Nat

VARIABLES
    text,   \* the bytes <<file, offset>> that are letters
    read    \* for each map task done: the bytes it gave to the mapper

textVars == <<vars, text, read>>

Letter(f, b) == <<f, b>> \in text

(* startOffset counts from 0 in the blob store and from 1 in a shard; the  *)
(* range ends at end + Slack, counted from 0, or where the file ends.      *)
ReadFrom(first) == IF first = 0 THEN 0 ELSE first - 1
Lesser(m, n) == IF m <= n THEN m ELSE n
\* mutant: the piece alone is read
Window_Piece(p) == p
\* mutant: the end of the range is taken for its length
Window_EndIsLength(p) ==
    [file |-> p.file, first |-> ReadFrom(p.first) + 1,
     last |-> Lesser(input.sizes[p.file], ReadFrom(p.first) + p.last + Slack)]
Window(p) ==
    [file |-> p.file, first |-> ReadFrom(p.first) + 1,
     last |-> Lesser(input.sizes[p.file], p.last + Slack + 1)]

(* A piece that begins with a letter: skip the word, then the blanks.      *)
(* Without another word in the data the second loop runs off its end.      *)
RunsOff(p) ==
    /\ Letter(p.file, p.first)
    /\ \A b, c \in p.first .. Window(p).last :
         b < c /\ ~Letter(p.file, b) => ~Letter(p.file, c)

Lost == << >>

TextInit ==
    /\ Init
    /\ text \in SUBSET UNION {{f} \X (1 .. input.sizes[f]) : f \in 1 .. N}
    /\ read = << >>

Allocate == (Cut \/ NextFile) /\ UNCHANGED <<text, read>>

(* The next map task reads its pieces, one after the other.  A loop that   *)
(* ran off the end either found a letter in memory or ended the worker.    *)
ReadShard ==
    /\ Done
    /\ Len(read) < Len(shards)
    /\ LET shard == shards[Len(read) + 1]
       IN  \/ read' = Append(read, [m \in DOMAIN shard |-> Window(shard[m])])
           \/ /\ \E m \in DOMAIN shard : RunsOff(shard[m])
              /\ read' = Append(read, Lost)
    /\ UNCHANGED <<vars, text>>

AllRead == Done /\ Len(read) = Len(shards)

(* The map phase is over *)
MapsDone == AllRead /\ UNCHANGED textVars

TextNext == Allocate \/ ReadShard \/ MapsDone
TextSpec == TextInit /\ [][TextNext]_textVars

-----------------------------------------------------------------------------
(* Properties *)

IsWord(f, a, b) ==
    /\ a <= b
    /\ \A c \in a .. b : Letter(f, c)
    /\ ~Letter(f, a - 1) /\ ~Letter(f, b + 1)

Sees(windows, f, a, b) == \E m \in DOMAIN windows :
    windows[m].file = f /\ windows[m].first <= a /\ b <= windows[m].last

(* No word gets lost at a shard boundary: every word of up to Slack + 2    *)
(* letters is read whole by some map task (adjust_shard_boundaries reads   *)
(* on beyond its piece), unless the worker that had the word's first byte  *)
(* ran off its data, or createShardAllocations dropped the last shard.     *)
EveryWordRead ==
    AllRead => \A f \in 1 .. N : \A a, b \in 1 .. input.sizes[f] :
        IsWord(f, a, b) /\ b - a <= Slack + 1 =>
           \/ \E k \in DOMAIN read : Sees(read[k], f, a, b)
           \/ \E k \in DOMAIN read : read[k] = Lost /\ ShardHolds(shards[k], f, a)
           \/ input.sizes[N] = 0

(* What a map task reads of another one's bytes lies within Slack + 1      *)
(* bytes after the end of one of its own pieces: counts can only be wrong  *)
(* there.                                                                  *)
OverlapNearEnds ==
    \A k, l \in DOMAIN read : k # l =>
        \A m \in DOMAIN read[k], n \in DOMAIN shards[l] :
            read[k][m].file = shards[l][n].file =>
               \/ read[k][m].last < shards[l][n].first
               \/ shards[l][n].last < read[k][m].first
               \/ shards[l][n].first - shards[k][m].last \in 1 .. Slack + 1
=============================================================================
