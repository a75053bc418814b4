--------------------------- MODULE ShardingProofs ---------------------------
(***************************************************************************)
(* createShardAllocations hands out every byte once, for every job: the    *)
(* type invariant, NoByteTwice, NoByteLost and Progress of Sharding.       *)
(*                                                                         *)
(* The invariant Inv relates the pieces made so far to the position        *)
(* (i, start): they hold the bytes before it (Covers) and no others        *)
(* (Behind), they do not overlap (NoByteTwice, Disjoint), and from the     *)
(* last byte of the last file on the open shard is kept (Flushed).         *)
(* The sizes of the shards (Filled) and what the map tasks read of them    *)
(* (ShardText) follow in parts of their own.                               *)
(***************************************************************************)
EXTENDS ShardText, Induction

USE InputsAssumption

(* The open shard has room: it is closed the moment it is full *)
Room == capacity < input.shardSize

(* A byte before the position has been handed out *)
Covers ==
    \A f \in 1 .. N : \A b \in 1 .. input.sizes[f] :
        f < i \/ (f = i /\ b < start) => InShards(f, b) \/ InCurrent(f, b)

(* A piece ends before the position *)
EndsBefore(p, f, b)   == p.file < f \/ (p.file = f /\ p.last < b)
AllBefore(s, f, b)    == \A m \in DOMAIN s : EndsBefore(s[m], f, b)
Behind == /\ AllBefore(current, i, start)
          /\ \A k \in DOMAIN shards : AllBefore(shards[k], i, start)

(* The last byte of the last file has been handed out *)
AtEnd == i > N \/ (i = N /\ start > FileSize)

(* The pieces of the open shard overlap with no others, until it is kept *)
Disjoint == /\ SelfApart(current)
            /\ ~AtEnd => \A k \in DOMAIN shards : AllApart(shards[k], current)

(* At the end, the open shard is one of the shards, or the last file is   *)
(* empty.                                                                *)
Flushed == N > 0 /\ input.sizes[N] > 0 /\ AtEnd =>
             current = << >> \/ \E k \in DOMAIN shards : shards[k] = current

Inv == TypeOK /\ Room /\ Covers /\ Behind /\ NoByteTwice /\ Disjoint /\ Flushed

-----------------------------------------------------------------------------
(* What the input is like *)
LEMMA InputType ==
  ASSUME input \in Inputs
  PROVE  /\ N \in Nat /\ input.shardSize \in Nat \ {0}
         /\ \A f \in 1 .. N : input.sizes[f] \in Nat /\ input.sizes[f] + input.shardSize <= MaxInt
BY DEF N

(* The piece cut is not empty, lies in its file and fits the open shard *)
LEMMA CutPiece ==
  ASSUME TypeOK, Room, i <= N, start <= FileSize
  PROVE  /\ i \in 1 .. N /\ FileSize \in Nat
         /\ EndOffset \in Nat /\ start <= EndOffset /\ EndOffset <= FileSize
         /\ EndOffset - start + 1 \in 1 .. Required
         /\ Required \in Nat \ {0}
<1>1. i \in 1 .. N /\ FileSize \in Nat BY InputType DEF TypeOK, FileSize
<1>2. Required \in Nat \ {0} BY InputType DEF TypeOK, Room, Required
<1> QED BY <1>1, <1>2 DEF TypeOK, EndOffset

(* What Append does to a sequence *)
LEMMA AppendAt ==
  ASSUME NEW S, NEW s \in Seq(S), NEW e \in S
  PROVE  /\ Append(s, e) \in Seq(S)
         /\ DOMAIN Append(s, e) = DOMAIN s \cup {Len(s) + 1}
         /\ Len(s) + 1 \notin DOMAIN s
         /\ \A m \in DOMAIN s : Append(s, e)[m] = s[m]
         /\ Append(s, e)[Len(s) + 1] = e
BY AppendProperties

-----------------------------------------------------------------------------
(* The invariant holds initially *)
LEMMA InitInv == Init => Inv
<1> SUFFICES ASSUME Init PROVE Inv OBVIOUS
<1> USE DEF Init
<1>1. TypeOK
  <2>1. current \in Seq(Piece) /\ shards \in Seq(Seq(Piece)) BY EmptySeq
  <2> QED BY <2>1, InputType DEF TypeOK
<1>2. Room BY InputType DEF Room
<1>3. Covers BY InputType DEF Covers
<1> QED BY <1>1, <1>2, <1>3
  DEF Inv, Behind, AllBefore, NoByteTwice, Disjoint, SelfApart, Flushed

(* NextFile: the position moves from the end of a file to the next file *)
LEMMA NextFileInv == ASSUME Inv, NextFile PROVE Inv'
<1> USE DEF Inv, NextFile
<1>1. i \in Nat /\ N \in Nat /\ i \in 1 .. N /\ N' = N BY InputType DEF TypeOK, N
<1>2. FileSize \in Nat /\ FileSize = input.sizes[i] /\ start \in Nat
  BY <1>1, InputType DEF TypeOK, FileSize
<1>3. TypeOK' BY <1>1 DEF TypeOK
<1>4. Room' BY DEF Room
<1>5. Covers' BY <1>1, <1>2 DEF Covers, InShards, InCurrent, ShardHolds, Holds
<1>6. Behind'
  <2>1. \A p \in Piece : EndsBefore(p, i, start) => EndsBefore(p, i + 1, 1)
    BY <1>1 DEF EndsBefore, Piece
  <2> QED BY <2>1 DEF Behind, AllBefore, TypeOK
<1>7. NoByteTwice' BY DEF NoByteTwice, SelfApart, AllApart
<1>8. Disjoint'
  <2>1. SelfApart(current)' BY DEF Disjoint, SelfApart
  <2>2. AtEnd => AtEnd' BY <1>1 DEF AtEnd
  <2> QED BY <2>1, <2>2 DEF Disjoint, AllApart
<1>9. Flushed'
  <2>1. N > 0 /\ input.sizes[N] > 0 /\ AtEnd' => AtEnd
    BY <1>1, <1>2, InputType DEF AtEnd, FileSize, TypeOK
  <2> QED BY <1>1, <2>1 DEF Flushed
<1> QED BY <1>3, <1>4, <1>5, <1>6, <1>7, <1>8, <1>9

(* Cut: the open shard gets a piece, and is closed or kept open *)
LEMMA CutInv == ASSUME Inv, Cut PROVE Inv'
<1> USE DEF Inv
<1> DEFINE piece  == [file |-> i, first |-> start, last |-> EndOffset]
           cap    == capacity + (EndOffset - start + 1)
           longer == Append(current, piece)
           closed == Append(shards, longer)
<1>1. /\ i <= N /\ start <= FileSize /\ start' = EndOffset + 1
      /\ UNCHANGED <<input, i>> /\ N' = N
  BY DEF Cut, NextStart, N
<1>2. /\ i \in 1 .. N /\ N \in Nat /\ start \in Nat \ {0} /\ capacity \in Nat
      /\ input.shardSize \in Nat \ {0}
  BY <1>1, InputType DEF TypeOK
<1>3. /\ FileSize \in Nat /\ FileSize = input.sizes[i]
      /\ EndOffset \in Nat /\ start <= EndOffset /\ EndOffset <= FileSize
      /\ cap \in 1 .. input.shardSize
  BY <1>1, <1>2, CutPiece DEF FileSize, Required
<1>4. piece \in Piece /\ current \in Seq(Piece) /\ shards \in Seq(Seq(Piece))
  BY <1>2, <1>3 DEF Piece, TypeOK
<1>5. /\ longer \in Seq(Piece) /\ DOMAIN longer = DOMAIN current \cup {Len(current) + 1}
      /\ Len(current) + 1 \notin DOMAIN current
      /\ \A m \in DOMAIN current : longer[m] = current[m]
      /\ longer[Len(current) + 1] = piece
  BY <1>4, AppendAt
<1>6. /\ closed \in Seq(Seq(Piece)) /\ DOMAIN closed = DOMAIN shards \cup {Len(shards) + 1}
      /\ Len(shards) + 1 \notin DOMAIN shards
      /\ \A k \in DOMAIN shards : closed[k] = shards[k]
      /\ closed[Len(shards) + 1] = longer
  BY <1>4, <1>5, AppendAt

<1>7. \/ /\ cap = input.shardSize
         /\ shards' = closed /\ current' = << >> /\ capacity' = 0
      \/ /\ cap < input.shardSize /\ i = N /\ EndOffset = FileSize
         /\ shards' = closed /\ current' = longer /\ capacity' = cap
      \/ /\ cap < input.shardSize /\ ~(i = N /\ EndOffset = FileSize)
         /\ shards' = shards /\ current' = longer /\ capacity' = cap
  BY <1>2, <1>3 DEF Cut, Complete, LastByte
<1>8. \A m \in DOMAIN current : current[m] \in Piece BY <1>4
<1>9. \A k \in DOMAIN shards : \A m \in DOMAIN shards[k] : shards[k][m] \in Piece
  BY <1>4
<1> HIDE DEF piece, longer, closed
<1>10. TypeOK'
  <2>1. << >> \in Seq(Piece) BY EmptySeq
  <2>2. capacity' \in 0 .. input.shardSize BY <1>2, <1>3, <1>7
  <2>3. current' \in Seq(Piece) /\ shards' \in Seq(Seq(Piece))
    BY <1>4, <1>5, <1>6, <1>7, <2>1
  <2>4. input' \in Inputs /\ capacity' \in 0 .. input'.shardSize
    BY <1>1, <2>2 DEF TypeOK
  <2>5. i' \in 1 .. N' + 1 BY <1>1, <1>2
  <2>6. start' \in Nat \ {0} BY <1>1, <1>3
  <2> QED BY <2>3, <2>4, <2>5, <2>6 DEF TypeOK
<1>11. Room' BY <1>1, <1>2, <1>7 DEF Room
<1>12. Behind'
  <2>1. \A p \in Piece : EndsBefore(p, i, start) => EndsBefore(p, i, EndOffset + 1)
    BY <1>2, <1>3 DEF EndsBefore, Piece
  <2>2. EndsBefore(piece, i, EndOffset + 1) BY <1>2, <1>3 DEF EndsBefore, piece
  <2>3. AllBefore(longer, i, EndOffset + 1)
    BY <1>5, <1>8, <2>1, <2>2 DEF Behind, AllBefore
  <2>4. \A k \in DOMAIN shards : AllBefore(shards[k], i, EndOffset + 1)
    BY <1>9, <2>1 DEF Behind, AllBefore
  <2>5. \A k \in DOMAIN closed : AllBefore(closed[k], i, EndOffset + 1)
    BY <1>6, <2>3, <2>4
  <2>6. AllBefore(<< >>, i, EndOffset + 1) BY DEF AllBefore
  <2> QED BY <1>1, <1>7, <2>3, <2>4, <2>5, <2>6 DEF Behind
<1>13. ~AtEnd BY <1>1, <1>2, <1>3 DEF AtEnd
<1>14. \A p \in Piece : EndsBefore(p, i, start) => Apart(p, piece) /\ Apart(piece, p)
  BY <1>2, <1>3 DEF EndsBefore, Apart, Piece, piece
<1>15. SelfApart(longer)
  <2>1. SelfApart(current) BY DEF Disjoint
  <2>2. \A m \in DOMAIN current : Apart(current[m], piece) /\ Apart(piece, current[m])
    BY <1>8, <1>14 DEF Behind, AllBefore
  <2> QED BY <1>5, <2>1, <2>2 DEF SelfApart
<1>16. \A k \in DOMAIN shards : AllApart(shards[k], longer) /\ AllApart(longer, shards[k])
  <2> SUFFICES ASSUME NEW k \in DOMAIN shards, NEW m \in DOMAIN shards[k],
                      NEW n \in DOMAIN longer
               PROVE  Apart(shards[k][m], longer[n]) /\ Apart(longer[n], shards[k][m])
    BY DEF AllApart
  <2>1. EndsBefore(shards[k][m], i, start) /\ shards[k][m] \in Piece
    BY <1>9 DEF Behind, AllBefore
  <2>2. CASE n \in DOMAIN current
    <3>1. Apart(shards[k][m], current[n]) BY <1>13, <2>2 DEF Disjoint, AllApart
    <3>2. Apart(current[n], shards[k][m]) BY <3>1 DEF Apart
    <3> QED BY <1>5, <2>2, <3>1, <3>2
  <2>3. CASE n = Len(current) + 1 BY <1>5, <1>14, <2>1, <2>3
  <2> QED BY <1>5, <2>2, <2>3
<1>17. NoByteTwice'
  <2>1. CASE shards' = shards BY <2>1 DEF NoByteTwice, SelfApart, AllApart
  <2>2. CASE shards' = closed
    <3>1. \A k \in DOMAIN closed : SelfApart(closed[k])
      BY <1>6, <1>15 DEF NoByteTwice
    <3>2. \A k, l \in DOMAIN closed : k # l => AllApart(closed[k], closed[l])
      BY <1>6, <1>16 DEF NoByteTwice
    <3> QED BY <2>2, <3>1, <3>2 DEF NoByteTwice, SelfApart, AllApart
  <2> QED BY <1>7, <2>1, <2>2
<1>18. AtEnd' <=> i = N /\ EndOffset = FileSize
  BY <1>1, <1>2, <1>3 DEF AtEnd, FileSize
<1>19. Disjoint'
  <2>1. SelfApart(current') BY <1>7, <1>15 DEF SelfApart
  <2>2. ~AtEnd' => \A k \in DOMAIN shards' : AllApart(shards'[k], current')
    BY <1>7, <1>16, <1>18 DEF AllApart
  <2> QED BY <2>1, <2>2 DEF Disjoint, SelfApart, AllApart
<1>20. Flushed' BY <1>6, <1>7, <1>18 DEF Flushed
<1>21. Covers'
  <2> SUFFICES ASSUME NEW f \in 1 .. N, NEW b \in 1 .. input.sizes[f],
                      f < i \/ (f = i /\ b < EndOffset + 1)
               PROVE  InShards(f, b)' \/ InCurrent(f, b)'
    BY <1>1 DEF Covers
  <2>1. \A k \in DOMAIN shards : k \in DOMAIN shards' /\ shards'[k] = shards[k]
    BY <1>6, <1>7
  <2>2. InShards(f, b) => InShards(f, b)' BY <2>1 DEF InShards, ShardHolds
  <2>3. ShardHolds(longer, f, b) => InShards(f, b)' \/ InCurrent(f, b)'
    BY <1>6, <1>7 DEF InShards, InCurrent, ShardHolds
  <2>4. InCurrent(f, b) => ShardHolds(longer, f, b)
    BY <1>5 DEF InCurrent, ShardHolds
  <2>5. CASE f < i \/ (f = i /\ b < start) BY <2>2, <2>3, <2>4, <2>5 DEF Covers
  <2>6. CASE f = i /\ b >= start
    <3>1. Holds(piece, f, b) BY <1>2, <1>3, <2>6 DEF Holds, piece
    <3>2. ShardHolds(longer, f, b) BY <1>5, <3>1 DEF ShardHolds
    <3> QED BY <2>3, <3>2
  <2> QED BY <1>2, <1>3, <2>5, <2>6
<1> QED BY <1>10, <1>11, <1>12, <1>17, <1>19, <1>20, <1>21

(* Every step keeps the invariant *)
LEMMA StepInv == Inv /\ [Next]_vars => Inv'
<1> SUFFICES ASSUME Inv, [Next]_vars PROVE Inv' OBVIOUS
<1>1. CASE Cut BY <1>1, CutInv
<1>2. CASE NextFile BY <1>2, NextFileInv
<1>3. CASE UNCHANGED vars
  BY <1>3 DEF vars, Inv, TypeOK, Room, Covers, Behind, NoByteTwice, Disjoint,
       Flushed, AtEnd, FileSize, N, InShards, InCurrent, ShardHolds, SelfApart, AllApart
<1> QED BY <1>1, <1>2, <1>3 DEF Next, Returned

(* The invariant holds in every reachable state *)
LEMMA Invariance == Spec => []Inv
<1> QED BY InitInv, StepInv, PTL DEF Spec

-----------------------------------------------------------------------------
(* TypeOK of createShardAllocations holds for every job: no shard gets     *)
(* more than shardSize bytes.                                              *)
THEOREM TypeCorrect == Spec => []TypeOK
<1>1. Inv => TypeOK BY DEF Inv
<1> QED BY <1>1, Invariance, PTL

(* No byte of any file is in two pieces of the shards returned. *)
THEOREM NoByteTwiceCorrect == Spec => []NoByteTwice
<1>1. Inv => NoByteTwice BY DEF Inv
<1> QED BY <1>1, Invariance, PTL

(* Every byte is in some shard, but for those of the open shard when the   *)
(* last file is empty.                                                     *)
THEOREM NoByteLostCorrect == Spec => []NoByteLost
<1>1. Inv => NoByteLost
  <2> SUFFICES ASSUME Inv, Done, NEW f \in 1 .. N, NEW b \in 1 .. input.sizes[f], ~InShards(f, b)
               PROVE  input.sizes[N] = 0 /\ InCurrent(f, b)
    BY DEF NoByteLost
  <2>1. N \in Nat /\ input \in Inputs BY InputType DEF Inv, TypeOK
  <2>2. N > 0 /\ input.sizes[N] \in Nat /\ i = N + 1
    BY <2>1, InputType DEF Inv, TypeOK, Done
  <2>3. InCurrent(f, b) BY <2>1, <2>2 DEF Inv, Covers
  <2>4. CASE input.sizes[N] > 0
    <3>1. current = << >> \/ \E k \in DOMAIN shards : shards[k] = current
      BY <2>1, <2>2, <2>4 DEF Inv, Flushed, AtEnd
    <3>2. current # << >> BY <2>3 DEF InCurrent, ShardHolds
    <3> QED BY <2>3, <3>1, <3>2 DEF InCurrent, InShards
  <2> QED BY <2>2, <2>3, <2>4
<1> QED BY <1>1, Invariance, PTL

(* Every turn of the inner loop moves startOffset forward. *)
THEOREM ProgressCorrect == Spec => Progress
<1>1. Inv /\ [Next]_vars => [ProgressStep]_vars
  <2> SUFFICES ASSUME Inv, Next, i \in 1 .. N, i' = i, ~UNCHANGED vars PROVE start' > start
    BY DEF ProgressStep
  <2>1. Cut BY DEF Next, NextFile, Returned, Inv, TypeOK
  <2>2. EndOffset \in Nat /\ start <= EndOffset /\ start \in Nat
    BY <2>1, CutPiece DEF Inv, TypeOK, Cut
  <2> QED BY <2>1, <2>2 DEF Cut, NextStart
<1> QED BY <1>1, Invariance, PTL DEF Spec, Progress

(* The sums the inner loop computes fit an int when the size of every file *)
(* plus shardSize does.                                                    *)
THEOREM SumsFitInt == Spec => [](i <= N /\ start <= FileSize => start + Required <= MaxInt)
<1>1. Inv => (i <= N /\ start <= FileSize => start + Required <= MaxInt)
  <2> SUFFICES ASSUME Inv, i <= N, start <= FileSize PROVE start + Required <= MaxInt
    OBVIOUS
  <2>1. i \in 1 .. N /\ FileSize \in Nat BY CutPiece DEF Inv
  <2>2. FileSize + input.shardSize <= MaxInt BY <2>1, InputType DEF Inv, TypeOK, FileSize
  <2> QED BY <2>1, <2>2, InputType DEF Inv, TypeOK, Required
<1> QED BY <1>1, Invariance, PTL
-----------------------------------------------------------------------------
(* The sizes of the shards *)

Width(p) == p.last - p.first + 1

LEMMA SizeOfEmpty == SizeOf(<< >>) = 0
BY TotalNone DEF SizeOf

LEMMA SizeOfLonger ==
  ASSUME NEW s \in Seq(Piece), NEW p \in Piece
  PROVE  SizeOf(Append(s, p)) = SizeOf(s) + Width(p)
<1> DEFINE t == Append(s, p)
           f == [m \in DOMAIN s |-> s[m].last - s[m].first + 1]
           g == [m \in DOMAIN t |-> t[m].last - t[m].first + 1]
           n == Len(s)
<1>1. /\ n \in Nat /\ Len(t) = n + 1 /\ DOMAIN s = 1 .. n /\ DOMAIN t = 1 .. n + 1
      /\ t[n + 1] = p /\ \A m \in 1 .. n : t[m] = s[m] /\ s[m] \in Piece
  OBVIOUS
<1>2. n + 1 \in 1 .. n + 1 /\ \A m \in 1 .. n : m \in 1 .. n + 1 BY <1>1
<1> HIDE DEF t, n
<1>3. \A m \in 1 .. n + 1 : t[m] \in Piece BY <1>1
<1>4. \A m \in 1 .. n : f[m] = Width(s[m]) /\ f[m] \in Int BY <1>1 DEF Width, Piece
<1>5. \A m \in 1 .. n + 1 : g[m] = Width(t[m]) /\ g[m] \in Int
  BY <1>1, <1>3 DEF Width, Piece
<1> HIDE DEF f, g
<1>6. Total(g, n + 1) = Total(g, (n + 1) - 1) + g[n + 1] BY <1>1, <1>2, <1>5, TotalUnfold
<1>7. Total(f, n) = Total(g, n)
  <2>1. \A m \in 1 .. n : f[m] \in Int /\ f[m] = g[m] BY <1>1, <1>2, <1>4, <1>5
  <2> QED BY <1>1, <2>1, TotalEqual
<1>8. (n + 1) - 1 = n BY <1>1
<1>9. SizeOf(s) = Total(f, n) BY DEF SizeOf, f, n
<1>10. SizeOf(t) = Total(g, n + 1) BY <1>1 DEF SizeOf, g
<1> QED BY <1>1, <1>2, <1>5, <1>6, <1>7, <1>8, <1>9, <1>10 DEF t

(* The capacity is what the open shard holds, and every shard is full but  *)
(* the last one, when the end has been reached.                            *)
Filled ==
    /\ capacity = SizeOf(current)
    /\ \A k \in DOMAIN shards :
          /\ SizeOf(shards[k]) \in 1 .. input.shardSize
          /\ k < Len(shards) \/ ~AtEnd => SizeOf(shards[k]) = input.shardSize

LEMMA FilledStep == Inv /\ Filled /\ [Next]_vars => Filled'
<1> SUFFICES ASSUME Inv, Filled, [Next]_vars PROVE Filled' OBVIOUS
<1>1. CASE Cut
  <2> DEFINE piece  == [file |-> i, first |-> start, last |-> EndOffset]
             cap    == capacity + (EndOffset - start + 1)
             longer == Append(current, piece)
             closed == Append(shards, longer)
  <2>1. /\ i <= N /\ start <= FileSize /\ start' = EndOffset + 1
        /\ UNCHANGED <<input, i>> /\ N' = N
    BY <1>1 DEF Cut, NextStart, N
  <2>2. /\ i \in 1 .. N /\ N \in Nat /\ start \in Nat \ {0} /\ capacity \in Nat
        /\ input.shardSize \in Nat \ {0}
    BY <2>1, InputType DEF Inv, TypeOK
  <2>3. /\ FileSize \in Nat /\ FileSize = input.sizes[i]
        /\ EndOffset \in Nat /\ start <= EndOffset /\ EndOffset <= FileSize
        /\ cap \in 1 .. input.shardSize
    BY <2>1, <2>2, CutPiece DEF FileSize, Required, Inv
  <2>4. piece \in Piece /\ current \in Seq(Piece) /\ shards \in Seq(Seq(Piece))
    BY <2>2, <2>3 DEF Piece, Inv, TypeOK
  <2>5. ~AtEnd /\ (AtEnd' <=> i = N /\ EndOffset = FileSize)
    BY <2>1, <2>2, <2>3 DEF AtEnd, FileSize
  <2>6. SizeOf(longer) = cap BY <2>4, SizeOfLonger DEF Filled, Width
  <2>7. longer \in Seq(Piece) BY <2>4, AppendAt
  <2>8. /\ DOMAIN closed = DOMAIN shards \cup {Len(shards) + 1}
        /\ \A k \in DOMAIN shards : closed[k] = shards[k]
        /\ closed[Len(shards) + 1] = longer /\ Len(closed) = Len(shards) + 1
    BY <2>4, <2>7, AppendAt
  <2>9. \/ /\ cap = input.shardSize
           /\ shards' = closed /\ current' = << >> /\ capacity' = 0
        \/ /\ cap < input.shardSize /\ i = N /\ EndOffset = FileSize
           /\ shards' = closed /\ current' = longer /\ capacity' = cap
        \/ /\ cap < input.shardSize /\ ~(i = N /\ EndOffset = FileSize)
           /\ shards' = shards /\ current' = longer /\ capacity' = cap
    <3>1. IF Complete(cap)
          THEN shards' = closed /\ current' = << >> /\ capacity' = 0
          ELSE /\ shards' = IF LastByte(EndOffset) THEN closed ELSE shards
               /\ current' = longer /\ capacity' = cap
      BY <1>1, Zenon DEF Cut
    <3> HIDE DEF piece, longer, closed, cap
    <3>2. CASE Complete(cap) BY <3>1, <3>2 DEF Complete
    <3>3. CASE ~Complete(cap)
      <4>1. cap < input.shardSize BY <2>2, <2>3, <3>3 DEF Complete
      <4> QED BY <3>1, <3>3, <4>1 DEF LastByte
    <3> QED BY <3>2, <3>3
  <2> HIDE DEF piece, longer, closed, cap
  <2>10. \A k \in DOMAIN shards : SizeOf(shards[k]) = input.shardSize
    BY <2>5 DEF Filled
  <2>11. capacity' = SizeOf(current') BY <2>6, <2>9, SizeOfEmpty
  <2>12. ASSUME NEW k \in DOMAIN shards'
         PROVE  /\ SizeOf(shards'[k]) \in 1 .. input.shardSize
                /\ k < Len(shards') \/ ~AtEnd' => SizeOf(shards'[k]) = input.shardSize
    <3>1. input.shardSize \in 1 .. input.shardSize BY <2>2
    <3>2. CASE k \in DOMAIN shards
      <4>1. shards'[k] = shards[k] BY <2>8, <2>9, <3>2
      <4> QED BY <2>10, <3>1, <3>2, <4>1
    <3>3. CASE k \notin DOMAIN shards
      <4>1. shards' = closed /\ k = Len(shards) + 1 /\ shards'[k] = longer
        BY <2>8, <2>9, <3>3
      <4>2. Len(shards') = k /\ k \in Nat BY <2>4, <2>8, <4>1
      <4>3. ~AtEnd' => cap = input.shardSize BY <2>5, <2>9, <4>1, <3>3
      <4> QED BY <2>3, <2>6, <4>1, <4>2, <4>3
    <3> QED BY <3>2, <3>3
  <2> QED BY <2>1, <2>11, <2>12 DEF Filled, SizeOf
<1>2. CASE NextFile
  <2>1. i \in Nat /\ N \in Nat /\ i \in 1 .. N /\ N' = N
    BY <1>2, InputType DEF Inv, TypeOK, N, NextFile
  <2>2. AtEnd => AtEnd' BY <1>2, <2>1 DEF AtEnd, NextFile
  <2> QED BY <1>2, <2>2 DEF Filled, SizeOf, NextFile
<1>3. CASE UNCHANGED vars
  BY <1>3 DEF vars, Filled, SizeOf, AtEnd, FileSize, N
<1> QED BY <1>1, <1>2, <1>3 DEF Next, Returned

(* Every shard but the last is full, and the last one is neither empty nor *)
(* larger.                                                                 *)
THEOREM ShardsFullCorrect == Spec => []ShardsFull
<1>1. Init => Filled
  BY SizeOfEmpty DEF Init, Filled
<1>2. Filled => ShardsFull BY DEF Filled, ShardsFull
<1> QED BY <1>1, <1>2, FilledStep, Invariance, PTL DEF Spec

-----------------------------------------------------------------------------
(***************************************************************************)
(* What a map task reads, for every job, text and slack: no word is lost   *)
(* at a shard boundary, and a task reads bytes of others only just beyond  *)
(* its own.  Both follow from what is proved above of the shards           *)
(* (ShardText implements Sharding) and from ReadInv: a task reads the      *)
(* windows of its shard's pieces, or nothing.                              *)
(***************************************************************************)

USE SlackAssumption

(* A piece lies in its file *)
PieceOK(p)   == p \in Piece /\ p.file \in 1 .. N /\ p.last <= input.sizes[p.file]
AllOK(shard) == \A m \in DOMAIN shard : PieceOK(shard[m])
PiecesInv    == AllOK(current) /\ \A k \in DOMAIN shards : AllOK(shards[k])

(* A map task that is done read the windows of its pieces, or nothing *)
ReadBy(windows, shard) ==
    \/ windows = Lost
    \/ /\ DOMAIN windows = DOMAIN shard
       /\ \A m \in DOMAIN shard : windows[m] = Window(shard[m])
ReadInv ==
    /\ read # << >> => Done
    /\ DOMAIN read \subseteq DOMAIN shards
    /\ \A k \in DOMAIN read : ReadBy(read[k], shards[k])
    /\ \E S : read \in Seq(S)

(* The shards of ShardText are those of Sharding. *)
THEOREM TextImplementsSharding == TextSpec => Spec
<1>1. TextInit => Init BY DEF TextInit
<1>2. [TextNext]_textVars => [Next]_vars
  BY DEF TextNext, Allocate, ReadShard, MapsDone, Next, textVars
<1> QED BY <1>1, <1>2, PTL DEF TextSpec, Spec

(* A window covers its piece and at most Slack + 1 bytes more *)
LEMMA WindowOf ==
  ASSUME input \in Inputs, NEW p, PieceOK(p)
  PROVE  /\ p.first \in Nat \ {0} /\ p.last \in Nat /\ p.file \in 1 .. N
         /\ Window(p).file = p.file /\ Window(p).first = p.first
         /\ Window(p).last \in Nat
         /\ p.last <= Window(p).last /\ Window(p).last <= p.last + Slack + 1
         /\ \A b \in 1 .. input.sizes[p.file] : b <= p.last + Slack + 1 => b <= Window(p).last
<1>1. input.sizes[p.file] \in Nat BY InputType DEF PieceOK
<1> QED BY <1>1 DEF Piece, PieceOK, Window, ReadFrom, Lesser

(* Cutting keeps the pieces in their files *)
LEMMA PiecesInvariant == Spec => []PiecesInv
<1>1. Init => PiecesInv BY DEF Init, PiecesInv, AllOK
<1>2. Inv /\ PiecesInv /\ [Next]_vars => PiecesInv'
  <2> SUFFICES ASSUME Inv, PiecesInv, [Next]_vars PROVE PiecesInv' OBVIOUS
  <2>1. CASE Cut
    <3> DEFINE piece == [file |-> i, first |-> start, last |-> EndOffset]
               longer == Append(current, piece)
    <3>1. PieceOK(piece)
      BY <2>1, CutPiece DEF Inv, TypeOK, Cut, PieceOK, Piece, FileSize
    <3>2. AllOK(longer)
      <4>1. current \in Seq(Piece) /\ piece \in Piece BY <3>1 DEF Inv, TypeOK, PieceOK
      <4> QED BY <4>1, <3>1, AppendAt DEF PiecesInv, AllOK
    <3>3. /\ DOMAIN Append(shards, longer) = DOMAIN shards \cup {Len(shards) + 1}
          /\ \A k \in DOMAIN shards : Append(shards, longer)[k] = shards[k]
          /\ Append(shards, longer)[Len(shards) + 1] = longer
      <4>1. longer \in Seq(Piece) /\ shards \in Seq(Seq(Piece))
        BY <3>1, AppendAt DEF Inv, TypeOK, PieceOK
      <4> QED BY <4>1, AppendAt
    <3>4. /\ current' \in {<< >>, longer} /\ shards' \in {shards, Append(shards, longer)}
          /\ input' = input
      BY <2>1 DEF Cut
    <3> HIDE DEF longer, piece
    <3>5. AllOK(current') BY <3>2, <3>4 DEF AllOK
    <3>6. \A k \in DOMAIN shards' : AllOK(shards'[k])
      BY <3>2, <3>3, <3>4 DEF PiecesInv
    <3>7. \A s : AllOK(s) = (\A m \in DOMAIN s : PieceOK(s[m])) BY DEF AllOK
    <3> QED BY <3>4, <3>5, <3>6 DEF PiecesInv, AllOK, PieceOK, N
  <2>2. CASE NextFile BY <2>2 DEF NextFile, PiecesInv, AllOK, PieceOK, N
  <2>3. CASE UNCHANGED vars BY <2>3 DEF vars, PiecesInv, AllOK, PieceOK, N
  <2> QED BY <2>1, <2>2, <2>3 DEF Next, Returned
<1> QED BY <1>1, <1>2, Invariance, PTL DEF Spec

LEMMA ReadInvariant == TextSpec => []ReadInv
<1>1. TextInit => ReadInv
  <2> SUFFICES ASSUME TextInit PROVE ReadInv OBVIOUS
  <2>1. read = << >> /\ read \in Seq({}) BY DEF TextInit
  <2> QED BY <2>1 DEF ReadInv
<1>2. TypeOK /\ ReadInv /\ [TextNext]_textVars => ReadInv'
  <2> SUFFICES ASSUME TypeOK, ReadInv, [TextNext]_textVars PROVE ReadInv' OBVIOUS
  <2>1. CASE Allocate
    <3>1. ~Done BY <2>1, InputType DEF Allocate, Cut, NextFile, Done, TypeOK
    <3>2. read = << >> /\ read' = << >> BY <2>1, <3>1 DEF ReadInv, Allocate
    <3> QED BY <3>2 DEF ReadInv
  <2>2. CASE ReadShard
    <3> DEFINE k0 == Len(read) + 1
    <3>1. PICK S : read \in Seq(S) BY DEF ReadInv
    <3>2. PICK w : read' = Append(read, w) /\ ReadBy(w, shards[k0])
      BY <2>2 DEF ReadShard, ReadBy
    <3>3. k0 \in DOMAIN shards BY <2>2, <3>1 DEF ReadShard, TypeOK
    <3>4. read \in Seq(S \cup {w}) BY <3>1
    <3>5. /\ read' \in Seq(S \cup {w}) /\ DOMAIN read' = DOMAIN read \cup {k0}
          /\ k0 \notin DOMAIN read /\ read'[k0] = w
          /\ \A k \in DOMAIN read : read'[k] = read[k]
      BY <3>2, <3>4, AppendAt
    <3>6. UNCHANGED <<input, i, shards>> /\ Done BY <2>2 DEF ReadShard, vars
    <3>7. \A k \in DOMAIN read' : ReadBy(read'[k], shards[k])
      BY <3>2, <3>5 DEF ReadInv
    <3> QED BY <3>3, <3>5, <3>6, <3>7 DEF ReadInv, ReadBy, Window, Done, N
  <2>3. CASE UNCHANGED textVars
    BY <2>3 DEF textVars, vars, ReadInv, ReadBy, Window, Done, N
  <2> QED BY <2>1, <2>2, <2>3 DEF TextNext, MapsDone
<1>3. TextSpec => []TypeOK BY TextImplementsSharding, TypeCorrect, PTL
<1> QED BY <1>1, <1>2, <1>3, PTL DEF TextSpec

-----------------------------------------------------------------------------
(* No word of up to Slack + 2 letters is lost at a shard boundary: the     *)
(* piece with its first byte has a window that reaches its last byte.      *)
THEOREM EveryWordReadCorrect == TextSpec => []EveryWordRead
<1>1. TypeOK /\ NoByteLost /\ PiecesInv /\ ReadInv => EveryWordRead
  <2> SUFFICES ASSUME TypeOK, NoByteLost, PiecesInv, ReadInv, AllRead,
                      NEW f \in 1 .. N, NEW a \in 1 .. input.sizes[f],
                      NEW b \in 1 .. input.sizes[f],
                      IsWord(f, a, b), b - a <= Slack + 1, input.sizes[N] # 0
               PROVE  \/ \E k \in DOMAIN read : Sees(read[k], f, a, b)
                      \/ \E k \in DOMAIN read : read[k] = Lost /\ ShardHolds(shards[k], f, a)
    BY DEF EveryWordRead
  <2>1. PICK k \in DOMAIN shards : ShardHolds(shards[k], f, a)
    BY DEF NoByteLost, AllRead, InShards
  <2>2. k \in DOMAIN read
    <3>1. PICK S : read \in Seq(S) BY DEF ReadInv
    <3> QED BY <3>1 DEF AllRead, TypeOK
  <2>3. PICK m \in DOMAIN shards[k] : Holds(shards[k][m], f, a) BY <2>1 DEF ShardHolds
  <2> DEFINE p == shards[k][m]
  <2>4. PieceOK(p) BY <2>3 DEF PiecesInv, AllOK
  <2>5. input \in Inputs /\ input.sizes[f] \in Nat BY InputType DEF TypeOK
  <2>6. Window(p).file = f /\ Window(p).first <= a /\ b <= Window(p).last
    <3>1. p.file = f /\ p.first <= a /\ a <= p.last BY <2>3 DEF Holds
    <3>2. b <= p.last + Slack + 1 BY <3>1, <2>4, <2>5, WindowOf
    <3> QED BY <3>1, <3>2, <2>4, <2>5, WindowOf
  <2>7. CASE read[k] = Lost BY <2>7, <2>1, <2>2
  <2>8. CASE read[k] # Lost
    <3>1. m \in DOMAIN read[k] /\ read[k][m] = Window(p)
      BY <2>8, <2>2, <2>3 DEF ReadInv, ReadBy
    <3> QED BY <3>1, <2>2, <2>6 DEF Sees
  <2> QED BY <2>7, <2>8
<1>2. TextSpec => [](TypeOK /\ NoByteLost /\ PiecesInv)
  BY TextImplementsSharding, TypeCorrect, NoByteLostCorrect, PiecesInvariant, PTL
<1> QED BY <1>1, <1>2, ReadInvariant, PTL

(* Two map tasks read the same byte only just beyond the end of a piece of *)
(* one of them.                                                            *)
THEOREM OverlapCorrect == TextSpec => []OverlapNearEnds
<1>1. TypeOK /\ NoByteTwice /\ PiecesInv /\ ReadInv => OverlapNearEnds
  <2> SUFFICES ASSUME TypeOK, NoByteTwice, PiecesInv, ReadInv,
                      NEW k \in DOMAIN read, NEW l \in DOMAIN read, k # l,
                      NEW m \in DOMAIN read[k], NEW n \in DOMAIN shards[l],
                      read[k][m].file = shards[l][n].file
               PROVE  \/ read[k][m].last < shards[l][n].first
                      \/ shards[l][n].last < read[k][m].first
                      \/ shards[l][n].first - shards[k][m].last \in 1 .. Slack + 1
    BY DEF OverlapNearEnds
  <2> DEFINE p == shards[k][m]
             q == shards[l][n]
  <2>1. k \in DOMAIN shards /\ l \in DOMAIN shards BY DEF ReadInv
  <2>2. m \in DOMAIN shards[k] /\ read[k][m] = Window(p)
    <3>1. read[k] # Lost BY DEF Lost
    <3> QED BY <3>1 DEF ReadInv, ReadBy
  <2>3. PieceOK(p) /\ PieceOK(q) /\ input \in Inputs
    BY <2>1, <2>2 DEF PiecesInv, AllOK, TypeOK
  <2>4. Apart(p, q) BY <2>1, <2>2 DEF NoByteTwice, AllApart
  <2>5. q.first \in Nat /\ q.last \in Nat BY <2>3, WindowOf
  <2>6. /\ Window(p).file = p.file /\ Window(p).first = p.first
        /\ Window(p).last \in Nat /\ Window(p).last <= p.last + Slack + 1
        /\ p.last \in Nat /\ p.first \in Nat
    BY <2>3, WindowOf
  <2> HIDE DEF p, q
  <2>7. \/ Window(p).last < q.first
        \/ q.last < Window(p).first
        \/ q.first - p.last \in 1 .. Slack + 1
    <3>1. p.file = q.file BY <2>2, <2>6 DEF p, q
    <3> QED BY <2>4, <2>5, <2>6, <3>1 DEF Apart
  <2> QED BY <2>2, <2>7 DEF p, q
<1>2. TextSpec => [](TypeOK /\ NoByteTwice /\ PiecesInv)
  BY TextImplementsSharding, TypeCorrect, NoByteTwiceCorrect, PiecesInvariant, PTL
<1> QED BY <1>1, <1>2, ReadInvariant, PTL
=============================================================================
