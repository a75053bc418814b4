-------------------------- MODULE WorkerFilesProofs --------------------------
(***************************************************************************)
(* The three properties of the files of map and reduce, for any job, any   *)
(* numbers of workers, words and reducers and any number of tasks.         *)
(*                                                                         *)
(* The proofs count: what matters of a file is how often it has each word. *)
(* The lemmas of the first part say what joining, splitting, summing and   *)
(* overwriting do to these counts; the invariant then says what is in the  *)
(* files of a worker that has run nothing, and in the blob store.          *)
(***************************************************************************)
EXTENDS WorkerFiles, Induction

USE FilesAssumption

LineT == [word : Word, count : Nat]

-----------------------------------------------------------------------------
(* Counts *)

LEMMA CountsNat ==
  ASSUME NEW w, NEW s \in Seq(LineT)
  PROVE  /\ Len(s) \in Nat
         /\ \A i \in 1 .. Len(s) : /\ s[i] \in LineT
                                   /\ Counts(w, s)[i] = IF s[i].word = w THEN s[i].count ELSE 0
                                   /\ Counts(w, s)[i] \in Nat
         /\ CountIn(w, s) \in Nat
<1>1. Len(s) \in Nat /\ DOMAIN s = 1 .. Len(s) /\ \A i \in 1 .. Len(s) : s[i] \in LineT
  OBVIOUS
<1>2. \A i \in 1 .. Len(s) : Counts(w, s)[i] = IF s[i].word = w THEN s[i].count ELSE 0
  BY <1>1 DEF Counts
<1>3. \A i \in 1 .. Len(s) : Counts(w, s)[i] \in Nat BY <1>1, <1>2 DEF LineT
<1>4. CountIn(w, s) \in Nat BY <1>1, <1>3, TotalNat DEF CountIn
<1> QED BY <1>1, <1>2, <1>3, <1>4

LEMMA CountEmpty ==
  ASSUME NEW w
  PROVE  CountIn(w, << >>) = 0
<1>1. Len(<< >>) = 0 OBVIOUS
<1>2. Total(Counts(w, << >>), 0) = 0 BY TotalNone
<1> QED BY <1>1, <1>2 DEF CountIn

LEMMA CountConcat ==
  ASSUME NEW w, NEW a \in Seq(LineT), NEW b \in Seq(LineT)
  PROVE  CountIn(w, a \o b) = CountIn(w, a) + CountIn(w, b)
<1> DEFINE c == a \o b
           m == Len(a)
           n == Len(b)
<1>1. /\ c \in Seq(LineT) /\ m \in Nat /\ n \in Nat /\ Len(c) = m + n
      /\ \A i \in 1 .. m : i \in 1 .. m + n /\ c[i] = a[i]
      /\ \A i \in 1 .. n : m + i \in 1 .. m + n /\ c[m + i] = b[i]
  BY ConcatProperties
<1>2. /\ \A i \in 1 .. m : Counts(w, a)[i] = IF a[i].word = w THEN a[i].count ELSE 0
      /\ \A i \in 1 .. n : Counts(w, b)[i] = IF b[i].word = w THEN b[i].count ELSE 0
      /\ \A i \in 1 .. m : Counts(w, a)[i] \in Nat
  BY CountsNat
<1> HIDE DEF c
<1>3. /\ \A i \in 1 .. m + n : Counts(w, c)[i] = IF c[i].word = w THEN c[i].count ELSE 0
      /\ \A i \in 1 .. m + n : Counts(w, c)[i] \in Nat
  BY <1>1, CountsNat
<1> HIDE DEF m, n
<1>4. \A i \in 1 .. m : Counts(w, a)[i] = Counts(w, c)[i] BY <1>1, <1>2, <1>3
<1>5. \A i \in 1 .. n : Counts(w, b)[i] = Counts(w, c)[m + i] BY <1>1, <1>2, <1>3
<1>6. Total(Counts(w, a), m) = Total(Counts(w, c), m)
  <2>1. \A i \in 1 .. m : Counts(w, a)[i] \in Int /\ Counts(w, a)[i] = Counts(w, c)[i]
    BY <1>2, <1>4
  <2> QED BY <1>1, <2>1, TotalEqual
<1>7. Total(Counts(w, c), m + n) = Total(Counts(w, c), m) + Total(Counts(w, b), n)
  <2>1. \A i \in 1 .. m + n : Counts(w, c)[i] \in Int BY <1>3
  <2>2. m \in Nat /\ n \in Nat BY <1>1
  <2> QED BY <1>5, <2>1, <2>2, TotalSplit
<1> QED BY <1>1, <1>6, <1>7 DEF CountIn, c, m, n

LEMMA CountAppend ==
  ASSUME NEW w, NEW a \in Seq(LineT), NEW x \in LineT
  PROVE  CountIn(w, Append(a, x)) = CountIn(w, a) + (IF x.word = w THEN x.count ELSE 0)
<1> DEFINE b == <<x>>
<1>1. b \in Seq(LineT) /\ Len(b) = 1 /\ b[1] = x OBVIOUS
<1>2. Append(a, x) = a \o b OBVIOUS
<1> HIDE DEF b
<1>3. CountIn(w, Append(a, x)) = CountIn(w, a) + CountIn(w, b) BY <1>1, <1>2, CountConcat
<1>4. Counts(w, b)[1] = (IF x.word = w THEN x.count ELSE 0) /\ Counts(w, b)[1] \in Int
  <2>1. /\ \A i \in 1 .. Len(b) : /\ Counts(w, b)[i] = IF b[i].word = w THEN b[i].count ELSE 0
                                  /\ Counts(w, b)[i] \in Nat
    <3>1. b \in Seq(LineT) BY <1>1
    <3> QED BY <3>1, CountsNat
  <2>2. 1 \in 1 .. Len(b) BY <1>1
  <2>3. Counts(w, b)[1] = (IF b[1].word = w THEN b[1].count ELSE 0) /\ Counts(w, b)[1] \in Nat
    BY <2>1, <2>2
  <2> QED BY <1>1, <2>3
<1>5. Total(Counts(w, b), 1) = Counts(w, b)[1]
  <2>1. 1 \in 1 .. 1 /\ 1 \in Nat /\ \A i \in 1 .. 1 : i # 1 => Counts(w, b)[i] = 0 OBVIOUS
  <2> QED BY <1>4, <2>1, TotalOne
<1> QED BY <1>1, <1>3, <1>4, <1>5 DEF CountIn

(* A word that no line has is counted 0 times. *)
LEMMA CountNone ==
  ASSUME NEW w, NEW s \in Seq(LineT), \A i \in 1 .. Len(s) : s[i].word # w
  PROVE  CountIn(w, s) = 0
<1>1. Len(s) \in Nat /\ \A i \in 1 .. Len(s) : Counts(w, s)[i] = 0 BY CountsNat
<1> QED BY <1>1, TotalNone DEF CountIn

LEMMA CountJoined ==
  ASSUME NEW w, NEW parts \in Seq(Seq(LineT)), NEW c,
         \A i \in 1 .. Len(parts) : c[i] = CountIn(w, parts[i])
  PROVE  /\ Joined(parts) \in Seq(LineT)
         /\ CountIn(w, Joined(parts)) = Total(c, Len(parts))
<1> DEFINE n == Len(parts)
           J == Joins(parts)
           T == {i \in 0 .. n : CountIn(w, J[i]) = Total(c, i)}
<1>1. /\ J[0] = << >>
      /\ \A i \in 1 .. n : J[i] = J[i - 1] \o parts[i]
      /\ \A i \in 0 .. n : J[i] \in Seq(LineT)
  BY JoinsUnfold
<1>2. n \in Nat /\ \A i \in 1 .. n : parts[i] \in Seq(LineT) /\ i \in 0 .. n /\ i - 1 \in 0 .. n
  OBVIOUS
<1>3. \A i \in 1 .. n : c[i] = CountIn(w, parts[i]) OBVIOUS
<1> HIDE DEF J, n
<1>4. \A i \in 1 .. n : c[i] \in Int BY <1>2, <1>3, CountsNat
<1>5. Total(c, 0) = 0 /\ \A i \in 1 .. n : Total(c, i) = Total(c, i - 1) + c[i]
  BY <1>2, <1>4, TotalUnfold
<1>6. 0 \in T BY <1>1, <1>2, <1>5, CountEmpty
<1>7. ASSUME NEW i \in 1 .. n, i - 1 \in T PROVE i \in T
  <2>1. CountIn(w, J[i]) = CountIn(w, J[i - 1]) + CountIn(w, parts[i])
    <3>1. J[i - 1] \in Seq(LineT) /\ parts[i] \in Seq(LineT) /\ J[i] = J[i - 1] \o parts[i]
      BY <1>1, <1>2
    <3> HIDE DEF T
    <3>2. CountIn(w, J[i - 1] \o parts[i]) = CountIn(w, J[i - 1]) + CountIn(w, parts[i])
      BY <3>1, CountConcat
    <3> QED BY <3>1, <3>2
  <2>2. CountIn(w, J[i - 1]) = Total(c, i - 1) BY <1>7
  <2> QED BY <1>2, <1>3, <1>5, <2>1, <2>2
<1>8. \A i \in 0 .. n : i \in T
  <2> HIDE DEF T
  <2> QED BY <1>2, <1>6, <1>7, UpTo
<1>9. n \in T /\ n \in 0 .. n BY <1>2, <1>8
<1>10. Joined(parts) = J[n] BY DEF Joined, J, n
<1> QED BY <1>1, <1>9, <1>10 DEF n

(* What the lines count that are picked *)
Kept(w, s, S) == [i \in 1 .. Len(s) |-> IF s[i] \in S THEN Counts(w, s)[i] ELSE 0]

LEMMA CountPicked ==
  ASSUME NEW w, NEW s \in Seq(LineT), NEW S
  PROVE  CountIn(w, Picked(s, S)) = Total(Kept(w, s, S), Len(s))
<1> DEFINE n == Len(s)
           c == Kept(w, s, S)
           P == Picks(s, S)
           T == {i \in 0 .. n : CountIn(w, P[i]) = Total(c, i)}
<1>1. /\ P[0] = << >>
      /\ \A i \in 1 .. n : /\ s[i] \in S => P[i] = Append(P[i - 1], s[i])
                           /\ s[i] \notin S => P[i] = P[i - 1]
      /\ \A i \in 0 .. n : P[i] \in Seq(LineT)
  BY PicksUnfold
<1>2. n \in Nat /\ \A i \in 1 .. n : s[i] \in LineT /\ i \in 0 .. n /\ i - 1 \in 0 .. n
  OBVIOUS
<1>3. \A i \in 1 .. n : /\ s[i] \in S => c[i] = Counts(w, s)[i]
                        /\ s[i] \notin S => c[i] = 0
  BY DEF Kept
<1>4. \A i \in 1 .. n : /\ Counts(w, s)[i] = IF s[i].word = w THEN s[i].count ELSE 0
                        /\ Counts(w, s)[i] \in Nat
  BY CountsNat
<1> HIDE DEF P, n, c
<1>5. \A i \in 1 .. n : c[i] \in Int BY <1>3, <1>4
<1>6. Total(c, 0) = 0 /\ \A i \in 1 .. n : /\ Total(c, i) = Total(c, i - 1) + c[i]
                                            /\ Total(c, i - 1) \in Int
  BY <1>2, <1>5, TotalUnfold
<1>7. 0 \in T BY <1>1, <1>2, <1>6, CountEmpty
<1>8. ASSUME NEW i \in 1 .. n, i - 1 \in T PROVE i \in T
  <2>1. CountIn(w, P[i - 1]) = Total(c, i - 1) BY <1>8
  <2>2. P[i - 1] \in Seq(LineT) /\ s[i] \in LineT BY <1>1, <1>2
  <2>3. CASE s[i] \in S
    <3>1. CountIn(w, Append(P[i - 1], s[i]))
             = CountIn(w, P[i - 1]) + (IF s[i].word = w THEN s[i].count ELSE 0)
      BY <2>2, CountAppend
    <3>2. c[i] = IF s[i].word = w THEN s[i].count ELSE 0 BY <1>3, <1>4, <2>3
    <3> QED BY <1>1, <1>2, <1>6, <2>1, <2>3, <3>1, <3>2
  <2>4. CASE s[i] \notin S
    <3>1. c[i] = 0 BY <1>3, <2>4
    <3> QED BY <1>1, <1>2, <1>6, <2>1, <2>4, <3>1
  <2> QED BY <2>3, <2>4
<1>9. \A i \in 0 .. n : i \in T
  <2> HIDE DEF T
  <2> QED BY <1>2, <1>7, <1>8, UpTo
<1>10. n \in T BY <1>2, <1>9
<1>11. Picked(s, S) = P[n] BY DEF Picked, P, n
<1> QED BY <1>10, <1>11 DEF n, c

-----------------------------------------------------------------------------
(* The operators of the model *)

(* What the reducer prints has a line for each word that occurs, with its  *)
(* count in the lines it read.                                             *)
LEMMA SummedCounts ==
  ASSUME NEW s \in Seq(LineT)
  PROVE  /\ Summed(s) \in Seq(LineT)
         /\ \A i \in DOMAIN Summed(s) : /\ Summed(s)[i].count = CountIn(Summed(s)[i].word, s)
                                        /\ Summed(s)[i].count > 0
         /\ \A w \in Word : CountIn(w, s) > 0 =>
               \E i \in DOMAIN Summed(s) : Summed(s)[i] = Line(w, CountIn(w, s))
         /\ \A w \in Word : CountIn(w, Summed(s)) = CountIn(w, s)
<1> DEFINE all == [w \in Word |-> Line(w, CountIn(w, s))]
<1>1. \A w \in Word : CountIn(w, s) \in Nat BY CountsNat
<1>2. \A w \in Word : all[w] = Line(w, CountIn(w, s)) OBVIOUS
<1>3. \A w \in Word : Line(w, CountIn(w, s)) \in LineT BY <1>1 DEF LineT, Line
<1>4. all \in Seq(LineT) /\ Len(all) = NumWords /\ DOMAIN all = Word
      /\ Word = 1 .. NumWords /\ NumWords \in Nat
  BY <1>3 DEF Word
<1>5. Summed(s) = Picked(all, Printed) BY DEF Summed
<1>6. \A w \in Word : all[w].word = w /\ all[w].count = CountIn(w, s) BY <1>2 DEF Line
<1>7. \A w \in Word : all[w] \in Printed <=> CountIn(w, s) # 0
  BY <1>1, <1>2 DEF Printed, Line
<1> HIDE DEF all
<1>8. /\ Summed(s) \in Seq(LineT)
      /\ \A i \in DOMAIN Summed(s) : /\ Summed(s)[i] \in Printed
                                     /\ \E w \in Word : Summed(s)[i] = all[w]
  BY <1>4, <1>5, PickedMembers
<1>9. ASSUME NEW i \in DOMAIN Summed(s)
      PROVE  Summed(s)[i].count = CountIn(Summed(s)[i].word, s) /\ Summed(s)[i].count > 0
  <2>1. PICK w \in Word : Summed(s)[i] = all[w] BY <1>8
  <2>2. all[w] \in Printed BY <1>8, <2>1
  <2> QED BY <1>1, <1>6, <1>7, <2>1, <2>2
<1>10. ASSUME NEW w \in Word, CountIn(w, s) > 0
       PROVE  \E i \in DOMAIN Summed(s) : Summed(s)[i] = Line(w, CountIn(w, s))
  <2>1. all[w] \in Printed BY <1>1, <1>7, <1>10
  <2>2. \E i \in DOMAIN Picked(all, Printed) : Picked(all, Printed)[i] = all[w]
    BY <1>4, <2>1, PickedKeeps
  <2> QED BY <1>2, <1>5, <2>2
<1>11. ASSUME NEW w \in Word PROVE CountIn(w, Summed(s)) = CountIn(w, s)
  <2> DEFINE c == Kept(w, all, Printed)
  <2>1. \A i \in 1 .. Len(all) : /\ all[i] \in Printed => c[i] = Counts(w, all)[i]
                                 /\ all[i] \notin Printed => c[i] = 0
    BY <1>4 DEF Kept
  <2>2. \A i \in 1 .. NumWords : Counts(w, all)[i] = IF i = w THEN CountIn(i, s) ELSE 0
    <3>1. \A i \in 1 .. NumWords :
             Counts(w, all)[i] = IF all[i].word = w THEN all[i].count ELSE 0
      BY <1>4, CountsNat
    <3> QED BY <1>4, <1>6, <3>1
  <2>3. c[w] = CountIn(w, s) BY <1>1, <1>4, <1>7, <2>1, <2>2
  <2>4. \A i \in 1 .. NumWords : i # w => c[i] = 0 BY <1>4, <2>1, <2>2
  <2> HIDE DEF c
  <2>5. CountIn(w, Picked(all, Printed)) = Total(c, Len(all)) BY <1>4, CountPicked DEF c
  <2>6. Total(c, NumWords) = c[w]
    <3>1. w \in 1 .. NumWords /\ c[w] \in Int BY <1>1, <1>4, <2>3
    <3> QED BY <1>4, <2>4, <3>1, TotalOne
  <2> QED BY <1>4, <1>5, <2>3, <2>5, <2>6
<1> QED BY <1>8, <1>9, <1>10, <1>11

(* It depends on the counts only. *)
LEMMA SummedSame ==
  ASSUME NEW a, NEW b, \A w \in Word : CountIn(w, a) = CountIn(w, b)
  PROVE  Summed(a) = Summed(b)
<1>1. [w \in Word |-> Line(w, CountIn(w, a))] = [w \in Word |-> Line(w, CountIn(w, b))]
  OBVIOUS
<1> QED BY <1>1 DEF Summed

LEMMA LinesMembers ==
  ASSUME NEW tokens \in Seq(Word)
  PROVE  /\ Lines(tokens) \in Seq(LineT)
         /\ Len(Lines(tokens)) = Len(tokens)
         /\ \A i \in 1 .. Len(tokens) : Lines(tokens)[i] = Line(tokens[i], 1)
<1>1. \A i \in DOMAIN tokens : Line(tokens[i], 1) \in LineT BY DEF Line, LineT
<1>2. Lines(tokens) = [i \in 1 .. Len(tokens) |-> Line(tokens[i], 1)] /\ Len(tokens) \in Nat
  BY DEF Lines
<1> QED BY <1>1, <1>2

(* The file of reducer r has the lines of its words, all of them. *)
LEMMA SplitCounts ==
  ASSUME NEW tokens \in Seq(Word), NEW r
  PROVE  /\ Split(tokens, r) \in Seq(LineT)
         /\ \A i \in DOMAIN Split(tokens, r) : ReducerOf(Split(tokens, r)[i].word) = r
         /\ \A w \in Word : ReducerOf(w) = r =>
               CountIn(w, Split(tokens, r)) = CountIn(w, Lines(tokens))
<1> DEFINE s == Lines(tokens)
           n == Len(tokens)
<1>1. /\ s \in Seq(LineT) /\ Len(s) = n /\ n \in Nat
      /\ \A i \in 1 .. n : s[i] = Line(tokens[i], 1) /\ tokens[i] \in Word
  BY LinesMembers
<1>2. Split(tokens, r) = Picked(s, LinesOf(r)) BY DEF Split
<1> HIDE DEF s, n
<1>3. /\ Split(tokens, r) \in Seq(LineT)
      /\ \A i \in DOMAIN Split(tokens, r) : Split(tokens, r)[i] \in LinesOf(r)
  BY <1>1, <1>2, PickedMembers
<1>4. \A x \in LinesOf(r) : ReducerOf(x.word) = r BY DEF LinesOf, Line
<1>5. ASSUME NEW w \in Word, ReducerOf(w) = r
      PROVE  CountIn(w, Split(tokens, r)) = CountIn(w, s)
  <2> DEFINE c == Kept(w, s, LinesOf(r))
  <2>1. \A i \in 1 .. n : /\ s[i] \in LinesOf(r) => c[i] = Counts(w, s)[i]
                          /\ s[i] \notin LinesOf(r) => c[i] = 0
    BY <1>1 DEF Kept
  <2>2. \A i \in 1 .. n : /\ Counts(w, s)[i] = IF s[i].word = w THEN s[i].count ELSE 0
                          /\ Counts(w, s)[i] \in Nat
    BY <1>1, CountsNat
  <2>3. \A i \in 1 .. n : s[i].word = w => s[i] \in LinesOf(r)
    BY <1>1, <1>5 DEF LinesOf, Line
  <2>4. \A i \in 1 .. n : c[i] = Counts(w, s)[i] /\ c[i] \in Int BY <2>1, <2>2, <2>3
  <2> HIDE DEF c
  <2>5. CountIn(w, Picked(s, LinesOf(r))) = Total(c, n) BY <1>1, CountPicked DEF c
  <2>6. Total(c, n) = Total(Counts(w, s), n) BY <1>1, <2>4, TotalEqual
  <2> QED BY <1>1, <1>2, <2>5, <2>6 DEF CountIn
<1> QED BY <1>3, <1>4, <1>5 DEF s

(* A process that writes new replaces what it reaches of old. *)
Rest(old, new) == SubSeq(old, Len(new) + 1, Len(old))

LEMMA OverwriteFacts ==
  ASSUME NEW S, NEW old \in Seq(S), NEW new \in Seq(S)
  PROVE  /\ Rest(old, new) \in Seq(S)
         /\ Overwrite(old, new) = new \o Rest(old, new)
         /\ Overwrite(old, new) \in Seq(S)
         /\ \A i \in DOMAIN new : i \in DOMAIN Overwrite(old, new) /\ Overwrite(old, new)[i] = new[i]
         /\ old = << >> => Overwrite(old, new) = new
<1> DEFINE tail == Rest(old, new)
<1>1. tail \in Seq(S)
  <2>1. Len(new) \in Nat /\ Len(old) \in Nat OBVIOUS
  <2> QED BY <2>1, SubSeqProperties DEF Rest
<1>2. Overwrite(old, new) = new \o tail BY DEF Overwrite, Rest
<1>3. ASSUME old = << >> PROVE tail = << >>
  <2>1. Len(new) \in Nat /\ Len(old) = 0 BY <1>3
  <2> QED BY <2>1 DEF Rest
<1> HIDE DEF tail
<1>4. /\ new \o tail \in Seq(S) /\ Len(new \o tail) = Len(new) + Len(tail)
      /\ Len(new) \in Nat /\ Len(tail) \in Nat
      /\ \A i \in DOMAIN new : (new \o tail)[i] = new[i]
  BY <1>1, ConcatProperties
<1>5. DOMAIN new = 1 .. Len(new) /\ DOMAIN (new \o tail) = 1 .. Len(new \o tail)
  BY <1>4
<1>6. \A i \in DOMAIN new : i \in DOMAIN (new \o tail) BY <1>4, <1>5
<1>7. new \o << >> = new OBVIOUS
<1> QED BY <1>1, <1>2, <1>3, <1>4, <1>6, <1>7 DEF tail

LEMMA LinesConcat ==
  ASSUME NEW a \in Seq(Word), NEW b \in Seq(Word)
  PROVE  Lines(a \o b) = Lines(a) \o Lines(b)
<1> DEFINE m == Len(a)
           n == Len(b)
           x == Lines(a \o b)
           y == Lines(a) \o Lines(b)
<1>1. /\ a \o b \in Seq(Word) /\ m \in Nat /\ n \in Nat /\ Len(a \o b) = m + n
      /\ \A i \in 1 .. m : (a \o b)[i] = a[i]
      /\ \A i \in 1 .. m + n : i > m => (a \o b)[i] = b[i - m]
  OBVIOUS
<1>2. /\ x \in Seq(LineT) /\ Len(x) = m + n
      /\ \A i \in 1 .. m + n : x[i] = Line((a \o b)[i], 1)
  BY <1>1, LinesMembers
<1>3. /\ Lines(a) \in Seq(LineT) /\ Len(Lines(a)) = m
      /\ Lines(b) \in Seq(LineT) /\ Len(Lines(b)) = n
      /\ \A i \in 1 .. m : Lines(a)[i] = Line(a[i], 1)
      /\ \A i \in 1 .. n : Lines(b)[i] = Line(b[i], 1)
  BY LinesMembers
<1>4. /\ y \in Seq(LineT) /\ Len(y) = m + n
      /\ \A i \in 1 .. m : y[i] = Lines(a)[i]
      /\ \A i \in 1 .. m + n : i > m => y[i] = Lines(b)[i - m]
  <2> DEFINE p == Lines(a)
             q == Lines(b)
  <2> HIDE DEF p, q, m, n, y
  <2>1. /\ p \in Seq(LineT) /\ Len(p) = m
        /\ q \in Seq(LineT) /\ Len(q) = n
        /\ m \in Nat /\ n \in Nat
    BY <1>1, <1>3 DEF p, q
  <2>2. /\ p \o q \in Seq(LineT) /\ Len(p \o q) = m + n
        /\ \A i \in 1 .. m + n : (p \o q)[i] = IF i <= m THEN p[i] ELSE q[i - m]
    BY <2>1, ConcatProperties
  <2>3. \A i \in 1 .. m : i \in 1 .. m + n /\ i <= m BY <2>1
  <2>4. \A i \in 1 .. m + n : i > m => ~ (i <= m) BY <2>1
  <2>5. y = p \o q BY DEF y, p, q
  <2>6. /\ y \in Seq(LineT) /\ Len(y) = m + n
        /\ \A i \in 1 .. m : y[i] = p[i]
        /\ \A i \in 1 .. m + n : i > m => y[i] = q[i - m]
    BY <2>2, <2>3, <2>4, <2>5
  <2> QED BY <2>6 DEF p, q
<1> HIDE DEF m, n, x, y
<1>5. ASSUME NEW i \in 1 .. m + n PROVE x[i] = y[i]
  <2>1. CASE i \in 1 .. m
    <3>1. y[i] = Line(a[i], 1) BY <1>3, <1>4, <2>1
    <3>2. (a \o b)[i] = a[i] BY <1>1, <2>1
    <3>3. x[i] = Line((a \o b)[i], 1) BY <1>2
    <3> QED BY <3>1, <3>2, <3>3
  <2>2. CASE i \notin 1 .. m
    <3>1. i > m /\ i - m \in 1 .. n BY <1>1, <2>2
    <3>2. y[i] = Line(b[i - m], 1) BY <1>3, <1>4, <3>1
    <3>3. x[i] = Line(b[i - m], 1) BY <1>1, <1>2, <3>1
    <3> QED BY <3>2, <3>3
  <2> QED BY <2>1, <2>2
<1>6. x = y BY <1>2, <1>4, <1>5, SeqEqual
<1> QED BY <1>6 DEF x, y

(* temp after each of the calls of the reducer *)
LEMMA TempsUnfold ==
  ASSUME NEW old \in Seq(LineT), NEW files \in Seq(Seq(LineT))
  PROVE  /\ Temps(old, files)[0] = old
         /\ \A i \in 1 .. Len(files) :
               Temps(old, files)[i] =
                  IF i = 1 THEN Overwrite(old, Summed(files[1]))
                  ELSE Temps(old, files)[i - 1] \o Summed(files[i])
         /\ \A i \in 0 .. Len(files) : Temps(old, files)[i] \in Seq(LineT)
<1> DEFINE A == Seq(LineT)
           Over(v) == Overwrite(v, Summed(files[1]))
           Step(i, v) == v \o Summed(files[i])
           Made(i, v) == IF i = 1 THEN Over(v) ELSE Step(i, v)
           n    == Len(files)
           R    == [i \in 0 .. n |-> A]
           step == [i \in 1 .. n |-> [v \in A |-> Made(i, v)]]
           Solves(g) == g = [i \in 0 .. n |-> IF i = 0 THEN old
                                              ELSE IF i = 1 THEN Over(g[0])
                                                   ELSE Step(i, g[i - 1])]
           tmp == CHOOSE g : Solves(g)
<1>1. n \in Nat /\ \A i \in 1 .. n : i - 1 \in 0 .. n /\ i \in 0 .. n /\ i # 0 /\ files[i] \in A
  OBVIOUS
<1>2. \A i \in 1 .. n : \A v \in A : step[i][v] = Made(i, v) OBVIOUS
<1>3. \A i \in 0 .. n : R[i] = A OBVIOUS
<1>4. \A i \in 1 .. n : Summed(files[i]) \in A BY <1>1, SummedCounts
<1>5. n >= 1 => 1 \in 1 .. n BY <1>1
<1>6. ASSUME NEW i \in 1 .. n, NEW v \in A PROVE Made(i, v) \in A
  <2>1. CASE i = 1
    <3>1. Over(v) \in A BY <1>4, <2>1, OverwriteFacts
    <3> QED BY <2>1, <3>1
  <2>2. CASE i # 1
    <3>1. Step(i, v) \in A BY <1>4, ConcatProperties
    <3> QED BY <2>2, <3>1
  <2> QED BY <2>1, <2>2
<1>7. old \in A OBVIOUS
<1>8. Temps(old, files) = tmp BY DEF Temps
<1>9. 1 - 1 = 0 OBVIOUS
<1> HIDE DEF R, step, n, A, Step, Over
<1>10. PICK g : Follows(g, n, R, old, step)
  <2> HIDE DEF Made
  <2>1. \A i \in 1 .. n : \A v \in R[i - 1] : step[i][v] \in R[i] BY <1>1, <1>2, <1>3, <1>6
  <2>2. old \in R[0] BY <1>1, <1>3, <1>7
  <2>3. Leads(n, R, old, step) BY <2>1, <2>2 DEF Leads
  <2> QED BY <1>1, <2>3, Iteration
<1>11. g[0] = old /\ \A i \in 1 .. n : g[i] = Made(i, g[i - 1])
  <2> HIDE DEF Made
  <2> QED BY <1>1, <1>2, <1>3, <1>10 DEF Follows
<1>12. Solves(g)
  <2>1. \A i \in 0 .. n : i = 0 \/ i \in 1 .. n BY <1>1
  <2>2. \A i \in 1 .. n : g[i] = IF i = 1 THEN Over(g[0]) ELSE Step(i, g[i - 1])
    BY <1>9, <1>11, Zenon
  <2>3. \A i \in 0 .. n : g[i] = IF i = 0 THEN old
                                 ELSE IF i = 1 THEN Over(g[0]) ELSE Step(i, g[i - 1])
    BY <1>11, <2>1, <2>2, Zenon
  <2>4. [i \in 0 .. n |-> g[i]]
          = [i \in 0 .. n |-> IF i = 0 THEN old
                              ELSE IF i = 1 THEN Over(g[0]) ELSE Step(i, g[i - 1])]
    BY <2>3, Zenon
  <2> QED BY <2>4, <1>10, Zenon DEF Follows
<1>13. Solves(tmp)
  <2> HIDE DEF Solves
  <2> QED BY <1>12
<1> HIDE DEF tmp
<1>14. \A i \in 0 .. n : tmp[i] = IF i = 0 THEN old
                                  ELSE IF i = 1 THEN Over(tmp[0]) ELSE Step(i, tmp[i - 1])
  BY <1>13, Zenon
<1>15. tmp[0] = old
  <2>1. 0 \in 0 .. n BY <1>1
  <2> QED BY <1>14, <2>1, Zenon
<1>16. \A i \in 1 .. n : tmp[i] = IF i = 1 THEN Over(old) ELSE Step(i, tmp[i - 1])
  BY <1>1, <1>14, <1>15, Zenon
<1>17. \A i \in 1 .. n : tmp[i] = Made(i, tmp[i - 1])
  BY <1>9, <1>15, <1>16, Zenon
<1>18. \A i \in 0 .. n : tmp[i] \in R[i]
  <2> HIDE DEF Made
  <2>1. tmp[0] \in R[0] BY <1>1, <1>3, <1>7, <1>15
  <2>2. \A i \in 1 .. n : tmp[i - 1] \in R[i - 1] => tmp[i] \in R[i]
    BY <1>1, <1>3, <1>6, <1>17
  <2> QED BY <1>1, <2>1, <2>2, StaysWithin
<1> QED BY <1>3, <1>8, <1>15, <1>16, <1>18 DEF n, A, Over, Step

(* temp has every word at least as often as the files together; exactly as *)
(* often when it was empty, or not there, before.                          *)
LEMMA TempCounts ==
  ASSUME NEW old \in Seq(LineT), NEW files \in Seq(Seq(LineT)), NEW w \in Word, NEW c,
         \A i \in 1 .. Len(files) : c[i] = CountIn(w, files[i])
  PROVE  /\ TempAfter(old, files) \in Seq(LineT)
         /\ CountIn(w, TempAfter(old, files)) >= Total(c, Len(files))
         /\ old = << >> => CountIn(w, TempAfter(old, files)) = Total(c, Len(files))
<1> DEFINE n == Len(files)
           P == Temps(old, files)
           T == {i \in 0 .. n : /\ CountIn(w, P[i]) >= Total(c, i)
                                /\ old = << >> => CountIn(w, P[i]) = Total(c, i)}
<1>1. /\ P[0] = old
      /\ \A i \in 1 .. n : P[i] = IF i = 1 THEN Overwrite(old, Summed(files[1]))
                                  ELSE P[i - 1] \o Summed(files[i])
      /\ \A i \in 0 .. n : P[i] \in Seq(LineT)
  BY TempsUnfold
<1>2. n \in Nat /\ \A i \in 1 .. n : files[i] \in Seq(LineT) /\ i \in 0 .. n /\ i - 1 \in 0 .. n
  OBVIOUS
<1>3. \A i \in 1 .. n : c[i] = CountIn(w, files[i]) OBVIOUS
<1>4. TempAfter(old, files) = P[n] BY DEF TempAfter
<1> HIDE DEF P, n
<1>5. \A i \in 1 .. n : /\ Summed(files[i]) \in Seq(LineT)
                        /\ CountIn(w, Summed(files[i])) = c[i]
                        /\ c[i] \in Nat
  BY <1>2, <1>3, SummedCounts, CountsNat
<1>6. /\ Total(c, 0) = 0
      /\ \A i \in 1 .. n : Total(c, i) = Total(c, i - 1) + c[i]
      /\ \A i \in 0 .. n : Total(c, i) \in Int
  <2>1. \A i \in 1 .. n : c[i] \in Int BY <1>5
  <2> QED BY <1>2, <2>1, TotalUnfold
<1>7. 0 \in T
  <2>1. CountIn(w, old) \in Nat BY CountsNat
  <2>2. old = << >> => CountIn(w, old) = 0 BY CountEmpty
  <2> QED BY <1>1, <1>2, <1>6, <2>1, <2>2
<1>8. ASSUME NEW i \in 1 .. n, i - 1 \in T PROVE i \in T
  <2>1. CASE i = 1
    <3> DEFINE new == Summed(files[1])
    <3>1. new \in Seq(LineT) /\ CountIn(w, new) = c[1] /\ c[1] \in Nat BY <1>5, <2>1
    <3>2. P[1] = Overwrite(old, new) BY <1>1, <2>1
    <3>3. Total(c, 1) = c[1]
      <4>1. 1 - 1 = 0 OBVIOUS
      <4> QED BY <1>6, <2>1, <3>1, <4>1
    <3> HIDE DEF new
    <3> DEFINE tail == Rest(old, new)
    <3>4. /\ tail \in Seq(LineT) /\ Overwrite(old, new) = new \o tail
          /\ old = << >> => Overwrite(old, new) = new
      BY <3>1, OverwriteFacts
    <3> HIDE DEF tail
    <3>5. CountIn(w, P[1]) = c[1] + CountIn(w, tail) /\ CountIn(w, tail) \in Nat
      BY <3>1, <3>2, <3>4, CountConcat, CountsNat
    <3>6. old = << >> => CountIn(w, P[1]) = c[1] BY <3>1, <3>2, <3>4
    <3> QED BY <1>2, <2>1, <3>1, <3>3, <3>5, <3>6
  <2>2. CASE i # 1
    <3> DEFINE q == P[i - 1]
               new == Summed(files[i])
    <3>1. new \in Seq(LineT) /\ CountIn(w, new) = c[i] /\ c[i] \in Nat BY <1>5
    <3>2. q \in Seq(LineT) /\ P[i] = q \o new BY <1>1, <1>2, <2>2
    <3>3. /\ CountIn(w, q) >= Total(c, i - 1)
          /\ old = << >> => CountIn(w, q) = Total(c, i - 1)
      BY <1>8
    <3> HIDE DEF q, new
    <3>4. CountIn(w, P[i]) = CountIn(w, q) + c[i] BY <3>1, <3>2, CountConcat
    <3>5. CountIn(w, q) \in Nat /\ Total(c, i - 1) \in Int BY <1>2, <1>6, <3>2, CountsNat
    <3> QED BY <1>2, <1>6, <3>1, <3>3, <3>4, <3>5
  <2> QED BY <2>1, <2>2
<1>9. \A i \in 0 .. n : i \in T
  <2> HIDE DEF T
  <2> QED BY <1>2, <1>7, <1>8, UpTo
<1>10. n \in T /\ n \in 0 .. n BY <1>2, <1>9
<1> QED BY <1>1, <1>4, <1>10 DEF n

-----------------------------------------------------------------------------
(* The invariant *)

TypeOK ==
    /\ shards \in Seq(Seq(Word))
    /\ mapOut \in [Worker -> Seq(Word)]
    /\ temp \in [Worker -> Seq(LineT)]
    /\ outFile \in [Worker -> [Reducer -> Seq(LineT)]]
    /\ DOMAIN inter \subseteq Shard
    /\ \A t \in DOMAIN inter : inter[t] \in [Reducer -> Seq(LineT)]
    /\ DOMAIN final \subseteq Reducer
    /\ \A r \in DOMAIN final : final[r] \in Seq(LineT)
    /\ nmaps \in [Worker -> Nat] /\ nreds \in [Worker -> Nat]

(* Who has run nothing has no files. *)
Fresh ==
    \A v \in Worker :
        /\ nmaps[v] = 0 => mapOut[v] = << >>
        /\ nreds[v] = 0 => temp[v] = << >> /\ \A r \in Reducer : outFile[v][r] = << >>

(* The file of shard t for reducer r has words of r only, each at least as *)
(* often as the shard; exactly as often while nobody has mapped twice.     *)
OwnWords(t, r) == \A i \in DOMAIN inter[t][r] : ReducerOf(inter[t][r][i].word) = r
AtLeast(t, r) ==
    \A w \in Word : ReducerOf(w) = r =>
        CountIn(w, inter[t][r]) >= CountIn(w, Lines(shards[t]))
MappedOnce == \A v \in Worker : nmaps[v] <= 1
InterGood ==
    \A t \in DOMAIN inter, r \in Reducer :
        /\ OwnWords(t, r) /\ AtLeast(t, r)
        /\ MappedOnce => inter[t][r] = Split(shards[t], r)

Inv == TypeOK /\ Fresh /\ InterGood /\ ExactIfFresh /\ NoForeignWords /\ NeverUndercounts

LEMMA InitInv == Init => Inv
<1> SUFFICES ASSUME Init PROVE Inv OBVIOUS
<1> USE DEF Init
<1>1. shards \in Seq(Seq(Word)) OBVIOUS
<1>2. DOMAIN inter = {} /\ DOMAIN final = {} OBVIOUS
<1>3. << >> \in Seq(Word) /\ << >> \in Seq(LineT) OBVIOUS
<1>4. TypeOK BY <1>1, <1>2, <1>3 DEF TypeOK, Absent
<1>5. Fresh BY DEF Fresh, Absent
<1>6. InterGood BY <1>2 DEF InterGood
<1>7. ExactIfFresh /\ NoForeignWords /\ NeverUndercounts
  BY <1>2 DEF ExactIfFresh, NoForeignWords, NeverUndercounts
<1> QED BY <1>4, <1>5, <1>6, <1>7 DEF Inv

(* map *)

LEMMA MapType ==
  ASSUME Inv, NEW v \in Worker, NEW t \in Shard, Map(v, t)
  PROVE  /\ TypeOK'
         /\ shards[t] \in Seq(Word) /\ mapOut[v] \in Seq(Word)
         /\ mapOut'[v] = Overwrite(mapOut[v], shards[t]) /\ mapOut'[v] \in Seq(Word)
         /\ nmaps'[v] = nmaps[v] + 1
         /\ \A u \in Worker \ {v} : mapOut'[u] = mapOut[u] /\ nmaps'[u] = nmaps[u]
         /\ DOMAIN inter' = DOMAIN inter \cup {t}
         /\ \A s \in DOMAIN inter : s # t => inter'[s] = inter[s]
         /\ \A r \in Reducer : inter'[t][r] = Split(mapOut'[v], r)
<1> USE DEF Inv, TypeOK, Map
<1>1. shards[t] \in Seq(Word) /\ mapOut[v] \in Seq(Word) BY DEF Shard
<1>2. mapOut'[v] = Overwrite(mapOut[v], shards[t])
      /\ \A u \in Worker \ {v} : mapOut'[u] = mapOut[u]
  OBVIOUS
<1>3. Overwrite(mapOut[v], shards[t]) \in Seq(Word) BY <1>1, OverwriteFacts
<1>4. mapOut'[v] \in Seq(Word) BY <1>2, <1>3
<1>5. mapOut' \in [Worker -> Seq(Word)] BY <1>3
<1>6. /\ nmaps' \in [Worker -> Nat] /\ nmaps'[v] = nmaps[v] + 1
      /\ \A u \in Worker \ {v} : nmaps'[u] = nmaps[u]
  OBVIOUS
<1>7. /\ DOMAIN inter' = DOMAIN inter \cup {t}
      /\ \A s \in DOMAIN inter : s # t => inter'[s] = inter[s]
      /\ inter'[t] = [r \in Reducer |-> Split(mapOut'[v], r)]
  OBVIOUS
<1>8. inter'[t] \in [Reducer -> Seq(LineT)] BY <1>4, <1>7, SplitCounts
<1>9. \A s \in DOMAIN inter' : inter'[s] \in [Reducer -> Seq(LineT)]
  <2> TAKE s \in DOMAIN inter'
  <2>1. CASE s = t BY <1>8, <2>1
  <2>2. CASE s # t BY <1>7, <2>2
  <2> QED BY <2>1, <2>2
<1>10. DOMAIN inter' \subseteq Shard' BY <1>7 DEF Shard
<1>11. TypeOK' BY <1>5, <1>6, <1>9, <1>10
<1>12. \A r \in Reducer : inter'[t][r] = Split(mapOut'[v], r) BY <1>7
<1> QED BY <1>1, <1>2, <1>4, <1>6, <1>7, <1>11, <1>12

LEMMA MapKeepsInv ==
  ASSUME Inv, NEW v \in Worker, NEW t \in Shard, Map(v, t)
  PROVE  Inv'
<1>1. TypeOK' BY MapType
<1>2. /\ shards[t] \in Seq(Word) /\ mapOut[v] \in Seq(Word)
      /\ mapOut'[v] = Overwrite(mapOut[v], shards[t]) /\ mapOut'[v] \in Seq(Word)
      /\ nmaps'[v] = nmaps[v] + 1
      /\ \A u \in Worker \ {v} : mapOut'[u] = mapOut[u] /\ nmaps'[u] = nmaps[u]
  BY MapType
<1>3. /\ DOMAIN inter' = DOMAIN inter \cup {t}
      /\ \A s \in DOMAIN inter : s # t => inter'[s] = inter[s]
      /\ \A r \in Reducer : inter'[t][r] = Split(mapOut'[v], r)
  BY MapType
<1>4. /\ shards' = shards /\ temp' = temp /\ outFile' = outFile
      /\ final' = final /\ nreds' = nreds
      /\ DOMAIN final = {}
  BY DEF Map
<1>5. nmaps \in [Worker -> Nat] BY DEF Inv, TypeOK
<1>6. Fresh'
  <2>1. nmaps'[v] # 0 BY <1>2, <1>5
  <2>2. \A u \in Worker : nmaps'[u] = 0 => mapOut'[u] = << >>
    BY <1>2, <2>1 DEF Inv, Fresh
  <2>3. \A u \in Worker : nreds'[u] = 0 =>
           temp'[u] = << >> /\ \A r \in Reducer : outFile'[u][r] = << >>
    BY <1>4 DEF Inv, Fresh
  <2> QED BY <2>2, <2>3 DEF Fresh
<1>7. InterGood'
  <2> SUFFICES ASSUME NEW s \in DOMAIN inter', NEW r \in Reducer
               PROVE  /\ OwnWords(s, r)' /\ AtLeast(s, r)'
                      /\ MappedOnce' => inter'[s][r] = Split(shards'[s], r)
    BY DEF InterGood
  <2>1. CASE s # t
    <3>1. s \in DOMAIN inter /\ inter'[s] = inter[s] BY <1>3, <2>1
    <3>2. OwnWords(s, r) /\ AtLeast(s, r) /\ (MappedOnce => inter[s][r] = Split(shards[s], r))
      BY <3>1 DEF Inv, InterGood
    <3>3. MappedOnce' => MappedOnce BY <1>2, <1>5 DEF MappedOnce
    <3> QED BY <1>4, <3>1, <3>2, <3>3 DEF OwnWords, AtLeast
  <2>2. CASE s = t
    <3> DEFINE tokens == mapOut'[v]
    <3>1. inter'[t][r] = Split(tokens, r) /\ tokens \in Seq(Word) BY <1>2, <1>3
    <3>2. /\ tokens = shards[t] \o Rest(mapOut[v], shards[t])
          /\ Rest(mapOut[v], shards[t]) \in Seq(Word)
      <4> DEFINE old == mapOut[v]
                 over == shards[t]
      <4>1. old \in Seq(Word) /\ over \in Seq(Word) /\ tokens = Overwrite(old, over) BY <1>2
      <4> HIDE DEF old, over, tokens
      <4>2. Overwrite(old, over) = over \o Rest(old, over) /\ Rest(old, over) \in Seq(Word)
        BY <4>1, OverwriteFacts
      <4> QED BY <4>1, <4>2 DEF old, over
    <3>3. MappedOnce' => tokens = shards[t]
      <4>1. ASSUME MappedOnce' PROVE nmaps[v] = 0 BY <1>2, <1>5, <4>1 DEF MappedOnce
      <4>2. ASSUME MappedOnce' PROVE mapOut[v] = << >> BY <4>1, <4>2 DEF Inv, Fresh
      <4> QED BY <1>2, <4>2, OverwriteFacts
    <3> HIDE DEF tokens
    <3>4. \A i \in DOMAIN inter'[t][r] : ReducerOf(inter'[t][r][i].word) = r
      BY <3>1, SplitCounts
    <3>5. ASSUME NEW w \in Word, ReducerOf(w) = r
          PROVE  CountIn(w, inter'[t][r]) >= CountIn(w, Lines(shards[t]))
      <4> DEFINE tail == Rest(mapOut[v], shards[t])
      <4> HIDE DEF tail
      <4>1. CountIn(w, inter'[t][r]) = CountIn(w, Lines(tokens)) BY <3>1, <3>5, SplitCounts
      <4>2. tail \in Seq(Word) /\ Lines(tokens) = Lines(shards[t]) \o Lines(tail)
        BY <1>2, <3>2, LinesConcat DEF tail
      <4>3. Lines(shards[t]) \in Seq(LineT) /\ Lines(tail) \in Seq(LineT)
        BY <1>2, <4>2, LinesMembers
      <4>4. /\ CountIn(w, Lines(tokens)) = CountIn(w, Lines(shards[t])) + CountIn(w, Lines(tail))
            /\ CountIn(w, Lines(shards[t])) \in Nat /\ CountIn(w, Lines(tail)) \in Nat
        BY <4>2, <4>3, CountConcat, CountsNat
      <4> QED BY <4>1, <4>4
    <3> QED BY <1>4, <2>2, <3>1, <3>3, <3>4, <3>5 DEF OwnWords, AtLeast
  <2> QED BY <2>1, <2>2
<1>8. ExactIfFresh' /\ NoForeignWords' /\ NeverUndercounts'
  BY <1>4 DEF ExactIfFresh, NoForeignWords, NeverUndercounts
<1> QED BY <1>1, <1>6, <1>7, <1>8 DEF Inv

(* reduce *)

(* The files that reducer r reads *)
Files(r) == [t \in Shard |-> inter[t][r]]

LEMMA ReduceType ==
  ASSUME Inv, NEW v \in Worker, NEW r \in Reducer, Reduce(v, r)
  PROVE  /\ TypeOK'
         /\ Files(r) \in Seq(Seq(LineT)) /\ Len(Files(r)) = Len(shards) /\ Len(Files(r)) \in Nat
         /\ \A t \in 1 .. Len(Files(r)) : /\ t \in DOMAIN inter
                                       /\ Files(r)[t] = inter[t][r]
                                       /\ Files(r)[t] \in Seq(LineT)
                                       /\ shards[t] \in Seq(Word)
         /\ temp[v] \in Seq(LineT) /\ outFile[v][r] \in Seq(LineT)
         /\ temp'[v] = TempAfter(temp[v], Files(r)) /\ temp'[v] \in Seq(LineT)
         /\ Summed(temp'[v]) \in Seq(LineT)
         /\ outFile'[v][r] = Overwrite(outFile[v][r], Summed(temp'[v]))
         /\ final'[r] = outFile'[v][r]
         /\ DOMAIN final' = DOMAIN final \cup {r}
         /\ \A q \in DOMAIN final : q # r => final'[q] = final[q]
         /\ nreds'[v] = nreds[v] + 1
         /\ \A u \in Worker \ {v} : /\ temp'[u] = temp[u] /\ outFile'[u] = outFile[u]
                                    /\ nreds'[u] = nreds[u]
<1> USE DEF Inv, TypeOK
<1> DEFINE files == Files(r)
<1>1. Shard = 1 .. Len(shards) /\ Len(shards) \in Nat
      /\ \A t \in Shard : t \in DOMAIN inter /\ shards[t] \in Seq(Word)
  BY DEF Shard, Reduce, Mapped
<1>2. \A t \in Shard : inter[t][r] \in Seq(LineT) BY <1>1
<1>3. files = [t \in Shard |-> inter[t][r]] BY DEF Files
<1>4. files \in Seq(Seq(LineT)) /\ Len(files) = Len(shards)
      /\ \A t \in 1 .. Len(files) : files[t] = inter[t][r]
  BY <1>3, <1>1, <1>2
<1>5. temp[v] \in Seq(LineT) /\ outFile[v][r] \in Seq(LineT) OBVIOUS
<1>6. TempAfter(temp[v], files) \in Seq(LineT)
  <2>1. \A i \in 0 .. Len(files) : Temps(temp[v], files)[i] \in Seq(LineT)
    BY <1>4, <1>5, TempsUnfold
  <2>2. Len(files) \in 0 .. Len(files) BY <1>1, <1>4
  <2> QED BY <2>1, <2>2 DEF TempAfter
<1>7. temp' = [temp EXCEPT ![v] = TempAfter(@, files)] BY DEF Reduce, Files
<1> HIDE DEF files
<1>8. /\ temp'[v] = TempAfter(temp[v], files) /\ temp'[v] \in Seq(LineT)
      /\ temp' \in [Worker -> Seq(LineT)]
      /\ \A u \in Worker \ {v} : temp'[u] = temp[u]
  BY <1>6, <1>7
<1>9. Summed(temp'[v]) \in Seq(LineT) BY <1>8, SummedCounts
<1> DEFINE out == Overwrite(outFile[v][r], Summed(temp'[v]))
<1>10. out \in Seq(LineT) BY <1>5, <1>9, OverwriteFacts
<1>11. outFile' = [outFile EXCEPT ![v][r] = out] BY DEF Reduce, FinalOf
<1> HIDE DEF out
<1>12. /\ outFile'[v][r] = out
       /\ outFile' \in [Worker -> [Reducer -> Seq(LineT)]]
       /\ \A u \in Worker \ {v} : outFile'[u] = outFile[u]
  BY <1>10, <1>11
<1>13. /\ DOMAIN final' = DOMAIN final \cup {r}
       /\ final'[r] = outFile'[v][r]
       /\ \A q \in DOMAIN final : q # r => final'[q] = final[q]
  BY DEF Reduce
<1>14. /\ nreds' \in [Worker -> Nat] /\ nreds'[v] = nreds[v] + 1
       /\ \A u \in Worker \ {v} : nreds'[u] = nreds[u]
  BY DEF Reduce
<1>15. shards' = shards /\ mapOut' = mapOut /\ inter' = inter /\ nmaps' = nmaps BY DEF Reduce
<1>16. \A q \in DOMAIN final' : final'[q] \in Seq(LineT) BY <1>10, <1>12, <1>13
<1>17. TypeOK' BY <1>8, <1>12, <1>13, <1>14, <1>15, <1>16 DEF Shard
<1> QED BY <1>1, <1>2, <1>4, <1>5, <1>8, <1>9, <1>12, <1>13, <1>14, <1>17 DEF out, files

LEMMA ReduceKeepsInv ==
  ASSUME Inv, NEW v \in Worker, NEW r \in Reducer, Reduce(v, r)
  PROVE  Inv'
<1> DEFINE files == Files(r)
<1>1. files = [t \in Shard |-> inter[t][r]] BY DEF Files
<1>2. /\ TypeOK'
      /\ files \in Seq(Seq(LineT)) /\ Len(files) = Len(shards) /\ Len(files) \in Nat
      /\ \A t \in 1 .. Len(files) : /\ t \in DOMAIN inter
                                    /\ files[t] = inter[t][r]
                                    /\ files[t] \in Seq(LineT)
                                    /\ shards[t] \in Seq(Word)
      /\ temp[v] \in Seq(LineT) /\ outFile[v][r] \in Seq(LineT)
      /\ temp'[v] = TempAfter(temp[v], files) /\ temp'[v] \in Seq(LineT)
      /\ Summed(temp'[v]) \in Seq(LineT)
      /\ outFile'[v][r] = Overwrite(outFile[v][r], Summed(temp'[v]))
      /\ final'[r] = outFile'[v][r]
      /\ DOMAIN final' = DOMAIN final \cup {r}
      /\ \A q \in DOMAIN final : q # r => final'[q] = final[q]
      /\ nreds'[v] = nreds[v] + 1
      /\ \A u \in Worker \ {v} : /\ temp'[u] = temp[u] /\ outFile'[u] = outFile[u]
                                 /\ nreds'[u] = nreds[u]
  BY ReduceType
<1> HIDE DEF files
<1> DEFINE n == Len(files)
           old == outFile[v][r]
           new == Summed(temp'[v])
<1>3. /\ TypeOK'
      /\ files \in Seq(Seq(LineT)) /\ n = Len(shards) /\ n \in Nat
      /\ \A t \in 1 .. n : t \in DOMAIN inter /\ files[t] = inter[t][r]
                           /\ files[t] \in Seq(LineT) /\ shards[t] \in Seq(Word)
  BY <1>2
<1>4. /\ temp[v] \in Seq(LineT)
      /\ temp'[v] = TempAfter(temp[v], files) /\ temp'[v] \in Seq(LineT)
      /\ old \in Seq(LineT) /\ new \in Seq(LineT)
      /\ final'[r] = Overwrite(old, new)
  BY <1>2
<1>5. /\ DOMAIN final' = DOMAIN final \cup {r}
      /\ \A q \in DOMAIN final : q # r => final'[q] = final[q]
  BY <1>2
<1>6. /\ nreds'[v] = nreds[v] + 1
      /\ \A u \in Worker \ {v} : temp'[u] = temp[u] /\ outFile'[u] = outFile[u]
                                 /\ nreds'[u] = nreds[u]
  BY <1>2
<1>7. /\ old = << >> => final'[r] = new
      /\ \A i \in DOMAIN new : i \in DOMAIN final'[r] /\ final'[r][i] = new[i]
  <2> HIDE DEF old, new
  <2>1. old \in Seq(LineT) /\ new \in Seq(LineT) BY <1>4
  <2>2. /\ old = << >> => Overwrite(old, new) = new
        /\ \A i \in DOMAIN new : i \in DOMAIN Overwrite(old, new)
                                 /\ Overwrite(old, new)[i] = new[i]
    BY <2>1, OverwriteFacts
  <2> QED BY <1>4, <2>2
<1>8. shards' = shards /\ mapOut' = mapOut /\ inter' = inter /\ nmaps' = nmaps BY DEF Reduce
<1>9. nreds \in [Worker -> Nat] BY DEF Inv, TypeOK
<1>10. Fresh'
  <2>1. nreds'[v] # 0 BY <1>6, <1>9
  <2>2. \A u \in Worker : nmaps'[u] = 0 => mapOut'[u] = << >> BY <1>8 DEF Inv, Fresh
  <2>3. \A u \in Worker : nreds'[u] = 0 =>
           temp'[u] = << >> /\ \A q \in Reducer : outFile'[u][q] = << >>
    BY <1>6, <2>1 DEF Inv, Fresh
  <2> QED BY <2>2, <2>3 DEF Fresh
<1>11. InterGood' BY <1>8 DEF Inv, InterGood, OwnWords, AtLeast, MappedOnce
(* The words of temp are those of the files together. *)
<1> DEFINE In(w) == [t \in 1 .. n |-> CountIn(w, files[t])]
<1>12. ASSUME NEW w \in Word
       PROVE  /\ \A t \in 1 .. n : In(w)[t] = CountIn(w, files[t]) /\ In(w)[t] \in Nat
              /\ CountIn(w, temp'[v]) >= Total(In(w), n)
              /\ temp[v] = << >> => CountIn(w, temp'[v]) = Total(In(w), n)
  <2> DEFINE c == In(w)
  <2>1. \A t \in 1 .. n : c[t] = CountIn(w, files[t]) OBVIOUS
  <2> HIDE DEF c
  <2>2. /\ CountIn(w, TempAfter(temp[v], files)) >= Total(c, n)
        /\ temp[v] = << >> => CountIn(w, TempAfter(temp[v], files)) = Total(c, n)
    BY <1>3, <1>4, <2>1, TempCounts
  <2>3. \A t \in 1 .. n : CountIn(w, files[t]) \in Nat BY <1>3, CountsNat
  <2>4. /\ \A t \in 1 .. n : c[t] = CountIn(w, files[t]) /\ c[t] \in Nat
        /\ CountIn(w, temp'[v]) >= Total(c, n)
        /\ temp[v] = << >> => CountIn(w, temp'[v]) = Total(c, n)
    BY <1>4, <2>1, <2>2, <2>3
  <2> QED BY <2>4 DEF c
<1> HIDE DEF In, n, old, new
<1>13. ASSUME nreds'[v] <= 1
       PROVE  temp[v] = << >> /\ final'[r] = new
  <2>1. nreds[v] = 0 BY <1>6, <1>9, <1>13
  <2>2. temp[v] = << >> /\ old = << >> BY <2>1 DEF Inv, Fresh, old
  <2> QED BY <1>7, <2>2
<1>14. (\A u \in Worker : nreds'[u] <= 1) => \A u \in Worker : nreds[u] <= 1
  BY <1>6, <1>9
<1>15. ExactIfFresh'
  <2> SUFFICES ASSUME \A u \in Worker : nmaps'[u] <= 1 /\ nreds'[u] <= 1,
                      NEW q \in DOMAIN final'
               PROVE  final'[q] = ExactFinal(q)'
    BY DEF ExactIfFresh
  <2>1. ExactFinal(q)' = ExactFinal(q) BY <1>8 DEF ExactFinal, Shard
  <2>2. \A u \in Worker : nmaps[u] <= 1 /\ nreds[u] <= 1 BY <1>8, <1>14
  <2>3. CASE q # r
    <3>1. q \in DOMAIN final /\ final'[q] = final[q] BY <1>5, <2>3
    <3>2. final[q] = ExactFinal(q) BY <2>2, <3>1 DEF Inv, ExactIfFresh
    <3> QED BY <2>1, <3>1, <3>2
  <2>4. CASE q = r
    <3>1. \A t \in 1 .. n : files[t] = Split(shards[t], r)
      BY <1>3, <2>2 DEF Inv, InterGood, MappedOnce
    <3>2. files = [t \in Shard |-> Split(shards[t], r)]
      <4>1. Shard = 1 .. n BY <1>3 DEF Inv, TypeOK, Shard
      <4>2. \A t \in Shard : inter[t][r] = Split(shards[t], r) BY <1>3, <3>1, <4>1
      <4> QED BY <1>1, <4>2
    <3>3. ExactFinal(r) = Summed(Joined(files)) BY <3>2 DEF ExactFinal
    <3>4. temp[v] = << >> /\ final'[r] = new BY <1>13
    <3>5. ASSUME NEW w \in Word PROVE CountIn(w, temp'[v]) = CountIn(w, Joined(files))
      <4>1. CountIn(w, temp'[v]) = Total(In(w), n) BY <1>12, <3>4
      <4>2. \A t \in 1 .. n : In(w)[t] = CountIn(w, files[t]) BY <1>12
      <4>3. CountIn(w, Joined(files)) = Total(In(w), n) BY <1>3, <4>2, CountJoined DEF n
      <4> QED BY <4>1, <4>3
    <3>6. new = Summed(Joined(files)) BY <3>5, SummedSame DEF new
    <3> QED BY <2>1, <2>4, <3>3, <3>4, <3>6
  <2> QED BY <2>3, <2>4
<1>16. NoForeignWords'
  <2> SUFFICES ASSUME \A u \in Worker : nreds'[u] <= 1,
                      NEW q \in DOMAIN final', NEW i \in DOMAIN final'[q]
               PROVE  ReducerOf(final'[q][i].word) = q
    BY DEF NoForeignWords
  <2>1. CASE q # r
    <3>1. q \in DOMAIN final /\ final'[q] = final[q] BY <1>5, <2>1
    <3> QED BY <1>14, <3>1 DEF Inv, NoForeignWords
  <2>2. CASE q = r
    <3>1. temp[v] = << >> /\ final'[r] = new BY <1>13
    <3> DEFINE w == new[i].word
    <3>2. i \in DOMAIN new BY <2>2, <3>1
    <3>3. w \in Word /\ new[i].count = CountIn(w, temp'[v]) /\ new[i].count > 0
      <4>1. new[i] \in LineT BY <1>4, <3>2
      <4>2. new[i].word \in Word BY <4>1 DEF LineT
      <4> QED BY <1>4, <3>2, <4>2, SummedCounts DEF new
    <3> HIDE DEF w
    <3>4. ASSUME ReducerOf(w) # r PROVE FALSE
      <4>1. ASSUME NEW t \in 1 .. n PROVE CountIn(w, files[t]) = 0
        <5>1. files[t] \in Seq(LineT) /\ t \in DOMAIN inter /\ files[t] = inter[t][r] BY <1>3
        <5>2. \A j \in DOMAIN files[t] : ReducerOf(files[t][j].word) = r
          BY <5>1 DEF Inv, InterGood, OwnWords
        <5>3. \A j \in 1 .. Len(files[t]) : files[t][j].word # w BY <3>4, <5>1, <5>2
        <5> QED BY <5>1, <5>3, CountNone
      <4>2. \A t \in 1 .. n : In(w)[t] = 0 BY <1>12, <3>3, <4>1
      <4>3. Total(In(w), n) = 0 BY <1>3, <4>2, TotalNone
      <4>4. CountIn(w, temp'[v]) = 0 BY <1>12, <3>1, <3>3, <4>3
      <4> QED BY <3>3, <4>4
    <3> QED BY <2>2, <3>1, <3>4 DEF w
  <2> QED BY <2>1, <2>2
<1>17. NeverUndercounts'
  <2> SUFFICES ASSUME NEW q \in DOMAIN final', NEW w \in Word,
                      ReducerOf(w) = q, TrueCount(w)' > 0
               PROVE  \E i \in DOMAIN final'[q] : /\ final'[q][i].word = w
                                                  /\ final'[q][i].count >= TrueCount(w)'
    BY DEF NeverUndercounts
  <2>1. TrueCount(w)' = TrueCount(w) BY <1>8 DEF TrueCount, Shard
  <2>2. CASE q # r
    <3>1. q \in DOMAIN final /\ final'[q] = final[q] BY <1>5, <2>2
    <3>2. \E i \in DOMAIN final[q] : final[q][i].word = w /\ final[q][i].count >= TrueCount(w)
      BY <2>1, <3>1 DEF Inv, NeverUndercounts
    <3> QED BY <2>1, <3>1, <3>2
  <2>3. CASE q = r
    <3> DEFINE job == [t \in Shard |-> Lines(shards[t])]
               c == [t \in 1 .. n |-> CountIn(w, Lines(shards[t]))]
    <3>1. Shard = 1 .. n /\ n \in Nat BY <1>3 DEF Inv, TypeOK, Shard
    <3>2. \A t \in 1 .. n : Lines(shards[t]) \in Seq(LineT) BY <1>3, LinesMembers
    <3>3. job \in Seq(Seq(LineT)) /\ Len(job) = n /\ \A t \in 1 .. n : job[t] = Lines(shards[t])
      BY <3>1, <3>2
    <3>4. \A t \in 1 .. n : c[t] = CountIn(w, Lines(shards[t])) OBVIOUS
    <3>5. TrueCount(w) = CountIn(w, Joined(job)) BY DEF TrueCount
    <3> HIDE DEF job, c
    <3>6. TrueCount(w) = Total(c, n)
      <4>1. \A t \in 1 .. Len(job) : c[t] = CountIn(w, job[t]) BY <3>3, <3>4
      <4> QED BY <3>3, <3>5, <4>1, CountJoined
    <3>7. ASSUME NEW t \in 1 .. n
          PROVE  c[t] \in Int /\ In(w)[t] \in Int /\ c[t] <= In(w)[t]
      <4>1. In(w)[t] = CountIn(w, files[t]) /\ In(w)[t] \in Nat BY <1>12
      <4>2. CountIn(w, Lines(shards[t])) \in Nat BY <3>2, CountsNat
      <4>3. t \in DOMAIN inter /\ files[t] = inter[t][r] BY <1>3
      <4>4. CountIn(w, inter[t][r]) >= CountIn(w, Lines(shards[t]))
        BY <2>3, <4>3 DEF Inv, InterGood, AtLeast
      <4> QED BY <3>4, <4>1, <4>2, <4>3, <4>4
    <3>8. Total(c, n) <= Total(In(w), n) BY <3>1, <3>7, TotalGrows
    <3>9. Total(c, n) \in Int /\ Total(In(w), n) \in Int
      <4>1. n \in 0 .. n BY <3>1
      <4> QED BY <3>1, <3>7, <4>1, TotalUnfold
    <3>10. CountIn(w, temp'[v]) \in Nat /\ CountIn(w, temp'[v]) >= TrueCount(w)
      BY <1>4, <1>12, <3>6, <3>8, <3>9, CountsNat
    <3>11. PICK i \in DOMAIN new : new[i] = Line(w, CountIn(w, temp'[v]))
      <4>1. CountIn(w, temp'[v]) > 0 BY <2>1, <3>6, <3>9, <3>10
      <4> QED BY <1>4, <4>1, SummedCounts DEF new
    <3>12. i \in DOMAIN final'[r] /\ final'[r][i] = new[i] BY <1>7
    <3>13. final'[r][i].word = w /\ final'[r][i].count = CountIn(w, temp'[v])
      BY <3>11, <3>12 DEF Line
    <3> QED BY <2>1, <2>3, <3>10, <3>12, <3>13
  <2> QED BY <2>2, <2>3
<1> QED BY <1>3, <1>10, <1>11, <1>15, <1>16, <1>17 DEF Inv

LEMMA StepInv == Inv /\ [Next]_vars => Inv'
<1> SUFFICES ASSUME Inv, [Next]_vars PROVE Inv' OBVIOUS
<1>1. CASE Next
  <2>1. PICK v \in Worker : \/ \E t \in Shard : Map(v, t)
                            \/ \E r \in Reducer : Reduce(v, r)
    BY <1>1 DEF Next
  <2>2. CASE \E t \in Shard : Map(v, t) BY <2>2, MapKeepsInv
  <2>3. CASE \E r \in Reducer : Reduce(v, r) BY <2>3, ReduceKeepsInv
  <2> QED BY <2>1, <2>2, <2>3
<1>2. CASE UNCHANGED vars
  <2> USE <1>2 DEF vars, Inv
  <2>1. TypeOK' BY DEF TypeOK, Shard
  <2>2. Fresh' BY DEF Fresh
  <2>3. InterGood' BY DEF InterGood, OwnWords, AtLeast, MappedOnce
  <2>4. ExactIfFresh' BY DEF ExactIfFresh, ExactFinal, Shard
  <2>5. NoForeignWords' BY DEF NoForeignWords
  <2>6. NeverUndercounts' BY DEF NeverUndercounts, TrueCount, Shard
  <2> QED BY <2>1, <2>2, <2>3, <2>4, <2>5, <2>6
<1> QED BY <1>1, <1>2

(* The invariant holds in every state of the worker's files. *)
THEOREM Invariance == Spec => []Inv
<1>1. Init => Inv BY InitInv
<1>2. Inv /\ [Next]_vars => Inv' BY StepInv
<1> QED BY <1>1, <1>2, PTL DEF Spec

(* When no worker mapped twice or reduced twice in the job, the final file *)
(* of each reducer has exactly the counts of its words in the job.         *)
THEOREM ExactIfFreshCorrect == Spec => []ExactIfFresh
<1>1. Inv => ExactIfFresh BY DEF Inv
<1> QED BY <1>1, Invariance, PTL

(* However often the map tasks are repeated, a final file has words of its *)
(* reducer only, as long as no worker reduced twice in the job.            *)
THEOREM NoForeignWordsCorrect == Spec => []NoForeignWords
<1>1. Inv => NoForeignWords BY DEF Inv
<1> QED BY <1>1, Invariance, PTL

(* Whatever was left in the files and whichever tasks are repeated, each   *)
(* word of the job is in the final file of its reducer, with a count that  *)
(* is at least the true one.                                               *)
THEOREM NeverUndercountsCorrect == Spec => []NeverUndercounts
<1>1. Inv => NeverUndercounts BY DEF Inv
<1> QED BY <1>1, Invariance, PTL
=============================================================================
