------------------------------ MODULE Induction ------------------------------
(***************************************************************************)
(* Induction and recursion over an interval of natural numbers, stated     *)
(* about sets and functions only: the induction theorems of the library    *)
(* take an operator as a parameter, these lemmas can be cited by any       *)
(* prover.  They rest on the well-foundedness of < on Nat.                 *)
(***************************************************************************)
EXTENDS Accumulate, TLAPS, SequenceTheorems, WellFoundedInduction

(* Every set of natural numbers that is not empty has a least element. *)
LEMMA LeastNumber ==
  ASSUME NEW T, T \subseteq Nat, T # {}
  PROVE  \E m \in T : \A k \in T : m <= k
<1> DEFINE Below == {p \in Nat \X Nat : p[1] < p[2]}
<1>1. IsWellFoundedOn(Below, Nat) BY NatLessThanWellFounded DEF OpToRel
<1>2. PICK m \in T : \A k \in T : ~ (<<k, m>> \in Below)
  <2> HIDE DEF Below
  <2> QED BY <1>1, WFMin
<1>3. ASSUME NEW k \in T PROVE m <= k
  <2>1. ~ (<<k, m>> \in Below) BY <1>2
  <2>2. k \in Nat /\ m \in Nat OBVIOUS
  <2> QED BY <2>1, <2>2
<1> QED BY <1>3

(* Induction: f[i] lies in S[i] for every i up to n. *)
LEMMA StaysWithin ==
  ASSUME NEW n \in Nat, NEW f, NEW S, f[0] \in S[0],
         \A i \in 1 .. n : f[i - 1] \in S[i - 1] => f[i] \in S[i]
  PROVE  \A i \in 0 .. n : f[i] \in S[i]
<1> DEFINE T == {i \in 0 .. n : f[i] \notin S[i]}
<1> SUFFICES ASSUME T # {} PROVE FALSE OBVIOUS
<1>1. PICK m \in T : \A k \in T : m <= k 
  <2>1. T \subseteq Nat OBVIOUS
  <2> HIDE DEF T
  <2> QED BY <2>1, LeastNumber
<1>2. m # 0 OBVIOUS
<1>3. m \in 1 .. n /\ m - 1 \in 0 .. n BY <1>2
<1>4. m - 1 \notin T BY <1>1, <1>3
<1>5. f[m - 1] \in S[m - 1] BY <1>3, <1>4
<1> QED BY <1>3, <1>5

(* step[i] leads from S[i - 1] into S[i]; f is what it makes of b *)
Leads(n, S, b, step) ==
    b \in S[0] /\ \A i \in 1 .. n : \A v \in S[i - 1] : step[i][v] \in S[i]
Follows(f, n, S, b, step) ==
    /\ f = [i \in 0 .. n |-> f[i]]
    /\ f[0] = b
    /\ \A i \in 1 .. n : f[i] = step[i][f[i - 1]] /\ f[i - 1] \in S[i - 1]

(* Recursion: such a function exists, whatever the steps are. *)
LEMMA Iteration ==
  ASSUME NEW n \in Nat, NEW S, NEW b, NEW step, Leads(n, S, b, step)
  PROVE  \E f : Follows(f, n, S, b, step)
<1> USE DEF Leads, Follows
<1> DEFINE Upto(f, m) == /\ f = [i \in 0 .. m |-> f[i]]
                         /\ f[0] = b
                         /\ \A i \in 0 .. m : f[i] \in S[i]
                         /\ \A i \in 1 .. m : f[i] = step[i][f[i - 1]]
           T == {m \in 0 .. n : ~ \E f : Upto(f, m)}
<1>1. ASSUME T # {} PROVE FALSE
  <2>1. PICK m \in T : \A k \in T : m <= k
    <3>1. T \subseteq Nat OBVIOUS
    <3> HIDE DEF T
    <3> QED BY <1>1, <3>1, LeastNumber
  <2>2. CASE m = 0
    <3>1. Upto([i \in 0 .. 0 |-> b], 0) OBVIOUS
    <3> HIDE DEF Upto
    <3> QED BY <3>1, <2>2
  <2>3. CASE m # 0
    <3>1. m \in 1 .. n /\ m - 1 \in 0 .. n /\ m - 1 \in Nat BY <2>3
    <3>2. m - 1 \notin T BY <2>1, <3>1
    <3>3. PICK f : Upto(f, m - 1)
      <4> HIDE DEF Upto
      <4> QED BY <3>1, <3>2
    <3> DEFINE g == [i \in 0 .. m |-> IF i = m THEN step[m][f[m - 1]] ELSE f[i]]
    <3>4. f[m - 1] \in S[m - 1] BY <3>1, <3>3
    <3>5. step[m][f[m - 1]] \in S[m] BY <3>1, <3>4
    <3>6. \A i \in 0 .. m : i # m => i \in 0 .. m - 1 /\ g[i] = f[i] BY <3>1
    <3>7. g[m] = step[m][f[m - 1]] BY <3>1
    <3>8. g[m - 1] = f[m - 1] BY <3>1
    <3>9. g = [i \in 0 .. m |-> g[i]] OBVIOUS
    <3>10. g[0] = b BY <3>1, <3>3, <3>6
    <3> HIDE DEF g
    <3>11. \A i \in 0 .. m : g[i] \in S[i] BY <3>3, <3>5, <3>6, <3>7
    <3>12. ASSUME NEW i \in 1 .. m PROVE g[i] = step[i][g[i - 1]]
      <4>1. CASE i = m BY <4>1, <3>7, <3>8
      <4>2. CASE i # m
        <5>1. i \in 1 .. m - 1 /\ i \in 0 .. m /\ i - 1 \in 0 .. m /\ i - 1 # m BY <3>1, <4>2
        <5>2. g[i] = f[i] /\ g[i - 1] = f[i - 1] BY <5>1, <3>6, <4>2
        <5> QED BY <5>1, <5>2, <3>3
      <4> QED BY <4>1, <4>2
    <3>13. Upto(g, m) BY <3>9, <3>10, <3>11, <3>12
    <3> HIDE DEF Upto
    <3> QED BY <3>13
  <2> QED BY <2>2, <2>3
<1>2. PICK f : Upto(f, n)
  <2>1. n \notin T BY <1>1
  <2> HIDE DEF Upto
  <2> QED BY <2>1
<1>3. \A i \in 1 .. n : i - 1 \in 0 .. n OBVIOUS
<1> QED BY <1>2, <1>3

(* Induction: a set that holds 0 and, with every number, the next one *)
LEMMA UpTo ==
  ASSUME NEW n \in Nat, NEW T, 0 \in T, \A i \in 1 .. n : i - 1 \in T => i \in T
  PROVE  \A i \in 0 .. n : i \in T
<1> DEFINE f == [i \in 0 .. n |-> i]
           S == [i \in 0 .. n |-> T]
<1>1. \A i \in 1 .. n : i - 1 \in 0 .. n /\ i \in 0 .. n OBVIOUS
<1>2. f[0] \in S[0] /\ \A i \in 1 .. n : f[i - 1] \in S[i - 1] => f[i] \in S[i]
  BY <1>1
<1>3. \A i \in 0 .. n : f[i] = i /\ S[i] = T OBVIOUS
<1> HIDE DEF f, S
<1>4. \A i \in 0 .. n : f[i] \in S[i] BY <1>2, StaysWithin
<1> QED BY <1>3, <1>4

-----------------------------------------------------------------------------
(* Sums *)

LEMMA SumsUnfold ==
  ASSUME NEW n \in Nat, NEW f, \A i \in 1 .. n : f[i] \in Int
  PROVE  /\ Sums(f, n)[0] = 0
         /\ \A i \in 1 .. n : Sums(f, n)[i] = Sums(f, n)[i - 1] + f[i]
         /\ \A i \in 0 .. n : Sums(f, n)[i] \in Int
<1> DEFINE R    == [i \in 0 .. n |-> Int]
           step == [i \in 1 .. n |-> [v \in Int |-> v + f[i]]]
           Solves(g) == g = [i \in 0 .. n |-> IF i = 0 THEN 0 ELSE g[i - 1] + f[i]]
           sum == CHOOSE g : Solves(g)
<1>1. \A i \in 1 .. n : i - 1 \in 0 .. n /\ i \in 0 .. n /\ i # 0 OBVIOUS
<1>2. \A i \in 1 .. n : \A v \in Int : step[i][v] = v + f[i] OBVIOUS
<1>3. \A i \in 0 .. n : R[i] = Int OBVIOUS
<1> HIDE DEF R, step
<1>4. PICK g : Follows(g, n, R, 0, step)
  <2>1. \A i \in 1 .. n : \A v \in R[i - 1] : step[i][v] \in R[i] BY <1>1, <1>2, <1>3
  <2>2. Leads(n, R, 0, step) BY <1>3, <2>1 DEF Leads
  <2> QED BY <2>2, Iteration
<1>5. g[0] = 0 /\ \A i \in 1 .. n : g[i] = g[i - 1] + f[i]
  BY <1>1, <1>2, <1>3, <1>4 DEF Follows
<1>6. Solves(g)
  <2>1. \A i \in 0 .. n : i = 0 \/ i \in 1 .. n OBVIOUS
  <2>2. \A i \in 0 .. n : g[i] = IF i = 0 THEN 0 ELSE g[i - 1] + f[i]
    BY <1>5, <2>1, Zenon
  <2>3. [i \in 0 .. n |-> g[i]] = [i \in 0 .. n |-> IF i = 0 THEN 0 ELSE g[i - 1] + f[i]]
    BY <2>2, Zenon
  <2> QED BY <2>3, <1>4, Zenon DEF Follows
<1>7. Solves(sum)
  <2> HIDE DEF Solves
  <2> QED BY <1>6
<1>8. Sums(f, n) = sum BY DEF Sums
<1> HIDE DEF sum
<1>9. \A i \in 0 .. n : sum[i] = IF i = 0 THEN 0 ELSE sum[i - 1] + f[i] BY <1>7, Zenon
<1>10. sum[0] = 0 /\ \A i \in 1 .. n : sum[i] = sum[i - 1] + f[i]
  <2>1. 0 \in 0 .. n OBVIOUS
  <2> QED BY <1>1, <1>9, <2>1, Zenon
<1>11. \A i \in 0 .. n : sum[i] \in R[i]
  <2>1. sum[0] \in R[0] BY <1>3, <1>10
  <2>2. \A i \in 1 .. n : sum[i - 1] \in R[i - 1] => sum[i] \in R[i] BY <1>1, <1>3, <1>10
  <2> QED BY <2>1, <2>2, StaysWithin
<1> QED BY <1>3, <1>8, <1>10, <1>11

(* Sums of the same numbers are equal. *)
LEMMA TotalSame ==
  ASSUME NEW m \in Nat, NEW n \in Nat, m <= n, NEW f, NEW g,
         \A i \in 1 .. n : f[i] \in Int, \A i \in 1 .. m : g[i] = f[i]
  PROVE  Total(g, m) = Sums(f, n)[m]
<1> DEFINE T == {i \in 0 .. m : Sums(g, m)[i] = Sums(f, n)[i]}
<1>1. \A i \in 1 .. m : i \in 1 .. n /\ g[i] \in Int /\ i - 1 \in 0 .. m /\ i \in 0 .. m OBVIOUS
<1>2. /\ Sums(g, m)[0] = 0 /\ Sums(f, n)[0] = 0
      /\ \A i \in 1 .. m : /\ Sums(g, m)[i] = Sums(g, m)[i - 1] + g[i]
                           /\ Sums(f, n)[i] = Sums(f, n)[i - 1] + f[i]
  BY <1>1, SumsUnfold
<1>3. 0 \in T /\ \A i \in 1 .. m : i - 1 \in T => i \in T BY <1>1, <1>2
<1>4. \A i \in 0 .. m : i \in T
  <2> HIDE DEF T
  <2> QED BY <1>3, UpTo
<1> QED BY <1>4 DEF Total

LEMMA TotalUnfold ==
  ASSUME NEW n \in Nat, NEW f, \A i \in 1 .. n : f[i] \in Int
  PROVE  /\ Total(f, 0) = 0
         /\ \A i \in 1 .. n : Total(f, i) = Total(f, i - 1) + f[i]
         /\ \A i \in 0 .. n : Total(f, i) \in Int
<1>1. \A m \in 0 .. n : Total(f, m) = Sums(f, n)[m] BY TotalSame
<1>2. \A i \in 1 .. n : i - 1 \in 0 .. n /\ i \in 0 .. n OBVIOUS
<1> QED BY <1>1, <1>2, SumsUnfold

(* A sum grows with its numbers. *)
LEMMA TotalGrows ==
  ASSUME NEW n \in Nat, NEW f, NEW g,
         \A i \in 1 .. n : f[i] \in Int /\ g[i] \in Int /\ f[i] <= g[i]
  PROVE  Total(f, n) <= Total(g, n)
<1> DEFINE T == {i \in 0 .. n : Total(f, i) <= Total(g, i)}
<1>1. \A i \in 1 .. n : i - 1 \in 0 .. n /\ i \in 0 .. n OBVIOUS
<1>2. /\ Total(f, 0) = 0 /\ Total(g, 0) = 0
      /\ \A i \in 1 .. n : /\ Total(f, i) = Total(f, i - 1) + f[i]
                           /\ Total(g, i) = Total(g, i - 1) + g[i]
      /\ \A i \in 0 .. n : Total(f, i) \in Int /\ Total(g, i) \in Int
  BY TotalUnfold
<1>3. 0 \in T /\ \A i \in 1 .. n : i - 1 \in T => i \in T BY <1>1, <1>2
<1>4. \A i \in 0 .. n : i \in T
  <2> HIDE DEF T
  <2> QED BY <1>3, UpTo
<1> QED BY <1>4

LEMMA TotalEqual ==
  ASSUME NEW n \in Nat, NEW f, NEW g, \A i \in 1 .. n : f[i] \in Int /\ f[i] = g[i]
  PROVE  Total(f, n) = Total(g, n)
BY TotalGrows, TotalUnfold

(* A sum with one number that is not 0 is that number. *)
LEMMA TotalOne ==
  ASSUME NEW n \in Nat, NEW f, NEW k \in 1 .. n, f[k] \in Int,
         \A i \in 1 .. n : i # k => f[i] = 0
  PROVE  Total(f, n) = f[k]
<1> DEFINE T == {i \in 0 .. n : Total(f, i) = IF i < k THEN 0 ELSE f[k]}
<1>1. \A i \in 1 .. n : f[i] \in Int OBVIOUS
<1>2. \A i \in 1 .. n : i - 1 \in 0 .. n /\ i \in 0 .. n OBVIOUS
<1>3. Total(f, 0) = 0 /\ \A i \in 1 .. n : Total(f, i) = Total(f, i - 1) + f[i]
  BY <1>1, TotalUnfold
<1>4. 0 \in T /\ \A i \in 1 .. n : i - 1 \in T => i \in T BY <1>2, <1>3
<1>5. \A i \in 0 .. n : i \in T
  <2> HIDE DEF T
  <2> QED BY <1>4, UpTo
<1> QED BY <1>5

(* A sum of numbers that are all 0 is 0. *)
LEMMA TotalNone ==
  ASSUME NEW n \in Nat, NEW f, \A i \in 1 .. n : f[i] = 0
  PROVE  Total(f, n) = 0
<1> DEFINE T == {i \in 0 .. n : Total(f, i) = 0}
<1>1. \A i \in 1 .. n : i - 1 \in 0 .. n /\ i \in 0 .. n OBVIOUS
<1>2. Total(f, 0) = 0 /\ \A i \in 1 .. n : Total(f, i) = Total(f, i - 1) + f[i]
  BY TotalUnfold
<1>3. 0 \in T /\ \A i \in 1 .. n : i - 1 \in T => i \in T BY <1>1, <1>2
<1>4. \A i \in 0 .. n : i \in T
  <2> HIDE DEF T
  <2> QED BY <1>3, UpTo
<1> QED BY <1>4

(* A sum in two parts: g holds the numbers of f after the first m *)
LEMMA TotalSplit ==
  ASSUME NEW m \in Nat, NEW n \in Nat, NEW f, NEW g,
         \A i \in 1 .. m + n : f[i] \in Int, \A i \in 1 .. n : g[i] = f[m + i]
  PROVE  Total(f, m + n) = Total(f, m) + Total(g, n)
<1> DEFINE T == {i \in 0 .. n : Total(f, m + i) = Total(f, m) + Total(g, i)}
<1>1. \A i \in 1 .. n : i - 1 \in 0 .. n /\ i \in 0 .. n /\ m + i \in 1 .. m + n
                        /\ (m + i) - 1 = m + (i - 1)
  OBVIOUS
<1>2. /\ \A i \in 1 .. m + n : Total(f, i) = Total(f, i - 1) + f[i]
      /\ \A i \in 0 .. m + n : Total(f, i) \in Int
  BY TotalUnfold
<1>3. /\ Total(g, 0) = 0 /\ \A i \in 1 .. n : Total(g, i) = Total(g, i - 1) + g[i]
      /\ \A i \in 0 .. n : Total(g, i) \in Int
  <2>1. \A i \in 1 .. n : g[i] \in Int BY <1>1
  <2> QED BY <2>1, TotalUnfold
<1>4. m \in 0 .. m + n /\ m + 0 = m OBVIOUS
<1>5. 0 \in T BY <1>2, <1>3, <1>4
<1>6. ASSUME NEW i \in 1 .. n, i - 1 \in T PROVE i \in T
  <2>1. Total(f, m + i) = Total(f, m + (i - 1)) + f[m + i] BY <1>1, <1>2
  <2>2. Total(f, m) \in Int /\ Total(g, i - 1) \in Int BY <1>1, <1>2, <1>3, <1>4
  <2>3. g[i] \in Int /\ g[i] = f[m + i] BY <1>1
  <2> QED BY <1>1, <1>3, <1>6, <2>1, <2>2, <2>3
<1>7. \A i \in 0 .. n : i \in T
  <2> HIDE DEF T
  <2> QED BY <1>5, <1>6, UpTo
<1> QED BY <1>7

LEMMA TotalNat ==
  ASSUME NEW n \in Nat, NEW f, \A i \in 1 .. n : f[i] \in Nat
  PROVE  Total(f, n) \in Nat
<1> DEFINE g == [i \in 1 .. n |-> 0]
<1>1. Total(g, n) = 0 BY TotalNone
<1>2. \A i \in 1 .. n : g[i] \in Int /\ f[i] \in Int /\ g[i] <= f[i] OBVIOUS
<1> HIDE DEF g
<1>3. Total(g, n) <= Total(f, n) BY <1>2, TotalGrows
<1>4. Total(f, n) \in Int BY <1>2, TotalUnfold
<1> QED BY <1>1, <1>3, <1>4

-----------------------------------------------------------------------------
(* Sequences joined, and elements picked from a sequence *)

LEMMA JoinsUnfold ==
  ASSUME NEW S, NEW parts \in Seq(Seq(S))
  PROVE  /\ Joins(parts)[0] = << >>
         /\ \A i \in 1 .. Len(parts) : Joins(parts)[i] = Joins(parts)[i - 1] \o parts[i]
         /\ \A i \in 0 .. Len(parts) : Joins(parts)[i] \in Seq(S)
<1> DEFINE A    == Seq(S)
           Step(i, v) == v \o parts[i]
           n    == Len(parts)
           R    == [i \in 0 .. n |-> A]
           step == [i \in 1 .. n |-> [v \in A |-> Step(i, v)]]
           Solves(g) == g = [i \in 0 .. n |-> IF i = 0 THEN << >> ELSE Step(i, g[i - 1])]
           all == CHOOSE g : Solves(g)
<1>1. n \in Nat /\ \A i \in 1 .. n : i - 1 \in 0 .. n /\ i \in 0 .. n /\ i # 0 /\ parts[i] \in A
  OBVIOUS
<1>2. \A i \in 1 .. n : \A v \in A : step[i][v] = Step(i, v) OBVIOUS
<1>3. \A i \in 0 .. n : R[i] = A OBVIOUS
<1>4. << >> \in A /\ \A i \in 1 .. n : \A v \in A : Step(i, v) \in A OBVIOUS
<1>5. Joins(parts) = all BY DEF Joins
<1> HIDE DEF R, step, n, A, Step
<1>6. PICK g : Follows(g, n, R, << >>, step)
  <2>1. \A i \in 1 .. n : \A v \in R[i - 1] : step[i][v] \in R[i] BY <1>1, <1>2, <1>3, <1>4
  <2>2. << >> \in R[0] BY <1>1, <1>3, <1>4
  <2>3. Leads(n, R, << >>, step) BY <2>1, <2>2 DEF Leads
  <2> QED BY <1>1, <2>3, Iteration
<1>7. g[0] = << >> /\ \A i \in 1 .. n : g[i] = Step(i, g[i - 1])
  BY <1>1, <1>2, <1>3, <1>6 DEF Follows
<1>8. Solves(g)
  <2>1. \A i \in 0 .. n : i = 0 \/ i \in 1 .. n BY <1>1
  <2>2. \A i \in 0 .. n : g[i] = IF i = 0 THEN << >> ELSE Step(i, g[i - 1])
    BY <1>7, <2>1, Zenon
  <2>3. [i \in 0 .. n |-> g[i]] = [i \in 0 .. n |-> IF i = 0 THEN << >> ELSE Step(i, g[i - 1])]
    BY <2>2, Zenon
  <2> QED BY <2>3, <1>6, Zenon DEF Follows
<1>9. Solves(all)
  <2> HIDE DEF Solves
  <2> QED BY <1>8
<1> HIDE DEF all
<1>10. \A i \in 0 .. n : all[i] = IF i = 0 THEN << >> ELSE Step(i, all[i - 1]) BY <1>9, Zenon
<1>11. all[0] = << >> /\ \A i \in 1 .. n : all[i] = Step(i, all[i - 1])
  <2>1. 0 \in 0 .. n BY <1>1
  <2> QED BY <1>1, <1>10, <2>1, Zenon
<1>12. \A i \in 0 .. n : all[i] \in R[i]
  <2>1. all[0] \in R[0] BY <1>1, <1>3, <1>11, <1>4
  <2>2. \A i \in 1 .. n : all[i - 1] \in R[i - 1] => all[i] \in R[i]
    BY <1>1, <1>3, <1>11, <1>4
  <2> QED BY <1>1, <2>1, <2>2, StaysWithin
<1> QED BY <1>3, <1>11, <1>12, <1>5 DEF n, A, Step

LEMMA PicksUnfold ==
  ASSUME NEW X, NEW s \in Seq(X), NEW S
  PROVE  /\ Picks(s, S)[0] = << >>
         /\ \A i \in 1 .. Len(s) :
               /\ s[i] \in S => Picks(s, S)[i] = Append(Picks(s, S)[i - 1], s[i])
               /\ s[i] \notin S => Picks(s, S)[i] = Picks(s, S)[i - 1]
         /\ \A i \in 0 .. Len(s) : Picks(s, S)[i] \in Seq(X)
<1> DEFINE A    == Seq(X)
           n    == Len(s)
           R    == [i \in 0 .. n |-> A]
           step == [i \in 1 .. n |-> [v \in A |-> IF s[i] \in S THEN Append(v, s[i]) ELSE v]]
           Solves(g) == g = [i \in 0 .. n |->
                               IF i = 0 THEN << >>
                               ELSE IF s[i] \in S THEN Append(g[i - 1], s[i]) ELSE g[i - 1]]
           picked == CHOOSE g : Solves(g)
<1>1. n \in Nat /\ \A i \in 1 .. n : i - 1 \in 0 .. n /\ i \in 0 .. n /\ i # 0 /\ s[i] \in X
  OBVIOUS
<1>2. \A i \in 1 .. n : \A v \in A :
          step[i][v] = IF s[i] \in S THEN Append(v, s[i]) ELSE v
  OBVIOUS
<1>3. \A i \in 0 .. n : R[i] = A OBVIOUS
<1>4. << >> \in A /\ \A v \in A, x \in X : Append(v, x) \in A OBVIOUS
<1>5. Picks(s, S) = picked BY DEF Picks
<1> HIDE DEF R, step, n, A
<1>6. PICK g : Follows(g, n, R, << >>, step)
  <2>1. \A i \in 1 .. n : \A v \in R[i - 1] : step[i][v] \in R[i] BY <1>1, <1>2, <1>3, <1>4
  <2>2. << >> \in R[0] BY <1>1, <1>3, <1>4
  <2>3. Leads(n, R, << >>, step) BY <2>1, <2>2 DEF Leads
  <2> QED BY <1>1, <2>3, Iteration
<1>7. /\ g[0] = << >>
      /\ \A i \in 1 .. n : g[i] = IF s[i] \in S THEN Append(g[i - 1], s[i]) ELSE g[i - 1]
  BY <1>1, <1>2, <1>3, <1>6 DEF Follows
<1>8. Solves(g)
  <2>1. \A i \in 0 .. n : i = 0 \/ i \in 1 .. n BY <1>1
  <2>2. \A i \in 0 .. n : g[i] = IF i = 0 THEN << >>
            ELSE IF s[i] \in S THEN Append(g[i - 1], s[i]) ELSE g[i - 1]
    BY <1>7, <2>1, Zenon
  <2>3. [i \in 0 .. n |-> g[i]] = [i \in 0 .. n |-> IF i = 0 THEN << >>
            ELSE IF s[i] \in S THEN Append(g[i - 1], s[i]) ELSE g[i - 1]]
    BY <2>2, Zenon
  <2> QED BY <2>3, <1>6, Zenon DEF Follows
<1>9. Solves(picked)
  <2> HIDE DEF Solves
  <2> QED BY <1>8
<1> HIDE DEF picked
<1>10. \A i \in 0 .. n : picked[i] = IF i = 0 THEN << >>
          ELSE IF s[i] \in S THEN Append(picked[i - 1], s[i]) ELSE picked[i - 1]
  BY <1>9, Zenon
<1>11. /\ picked[0] = << >>
       /\ \A i \in 1 .. n :
             picked[i] = IF s[i] \in S THEN Append(picked[i - 1], s[i]) ELSE picked[i - 1]
  <2>1. 0 \in 0 .. n BY <1>1
  <2> QED BY <1>1, <1>10, <2>1, Zenon
<1>12. \A i \in 0 .. n : picked[i] \in R[i]
  <2>1. picked[0] \in R[0] BY <1>1, <1>3, <1>11, <1>4
  <2>2. \A i \in 1 .. n : picked[i - 1] \in R[i - 1] => picked[i] \in R[i]
    BY <1>1, <1>3, <1>11, <1>4
  <2> QED BY <1>1, <2>1, <2>2, StaysWithin
<1> QED BY <1>3, <1>11, <1>12, <1>5 DEF n, A

(* What is picked is in s and in S. *)
LEMMA PickedMembers ==
  ASSUME NEW X, NEW s \in Seq(X), NEW S
  PROVE  /\ Picked(s, S) \in Seq(X)
         /\ \A m \in DOMAIN Picked(s, S) :
               Picked(s, S)[m] \in S /\ \E k \in DOMAIN s : Picked(s, S)[m] = s[k]
<1> DEFINE P == Picks(s, S)
           Fine(x) == x \in S /\ \E k \in DOMAIN s : x = s[k]
           T == {i \in 0 .. Len(s) : \A m \in DOMAIN P[i] : Fine(P[i][m])}
<1>1. Len(s) \in Nat /\ \A i \in 1 .. Len(s) : i - 1 \in 0 .. Len(s) /\ i \in 0 .. Len(s)
                                               /\ i \in DOMAIN s /\ s[i] \in X
  OBVIOUS
<1>2. /\ P[0] = << >>
      /\ \A i \in 1 .. Len(s) :
            /\ s[i] \in S => P[i] = Append(P[i - 1], s[i])
            /\ s[i] \notin S => P[i] = P[i - 1]
      /\ \A i \in 0 .. Len(s) : P[i] \in Seq(X)
  BY PicksUnfold
<1> HIDE DEF P
<1>3. 0 \in T BY <1>1, <1>2
<1>4. ASSUME NEW i \in 1 .. Len(s), i - 1 \in T PROVE i \in T
  <2>1. \A m \in DOMAIN P[i - 1] : Fine(P[i - 1][m]) BY <1>4
  <2>2. CASE s[i] \in S
    <3>1. Fine(s[i]) BY <1>1, <2>2
    <3>2. P[i - 1] \in Seq(X) /\ P[i] = Append(P[i - 1], s[i]) /\ s[i] \in X BY <1>1, <1>2, <2>2
    <3>3. /\ DOMAIN P[i] = DOMAIN P[i - 1] \cup {Len(P[i - 1]) + 1}
          /\ \A m \in DOMAIN P[i - 1] : P[i][m] = P[i - 1][m]
          /\ P[i][Len(P[i - 1]) + 1] = s[i]
      BY <3>2, AppendProperties
    <3> HIDE DEF Fine
    <3> QED BY <1>1, <2>1, <3>1, <3>3
  <2>3. CASE s[i] \notin S
    <3> HIDE DEF Fine
    <3> QED BY <1>1, <1>2, <2>1, <2>3
  <2> QED BY <2>2, <2>3
<1>5. \A i \in 0 .. Len(s) : i \in T
  <2> HIDE DEF T
  <2> QED BY <1>1, <1>3, <1>4, UpTo
<1> QED BY <1>1, <1>2, <1>5 DEF Picked, P

(* Every element of s that lies in S is picked. *)
LEMMA PickedKeeps ==
  ASSUME NEW X, NEW s \in Seq(X), NEW S, NEW k \in DOMAIN s, s[k] \in S
  PROVE  \E m \in DOMAIN Picked(s, S) : Picked(s, S)[m] = s[k]
<1> DEFINE P == Picks(s, S)
           Has(q) == \E m \in DOMAIN q : q[m] = s[k]
           T == {i \in 0 .. Len(s) : k <= i => Has(P[i])}
<1>1. Len(s) \in Nat /\ k \in 1 .. Len(s)
      /\ \A i \in 1 .. Len(s) : i - 1 \in 0 .. Len(s) /\ i \in 0 .. Len(s) /\ s[i] \in X
  OBVIOUS
<1>2. /\ P[0] = << >>
      /\ \A i \in 1 .. Len(s) :
            /\ s[i] \in S => P[i] = Append(P[i - 1], s[i])
            /\ s[i] \notin S => P[i] = P[i - 1]
      /\ \A i \in 0 .. Len(s) : P[i] \in Seq(X)
  BY PicksUnfold
<1> HIDE DEF P
<1>3. 0 \in T BY <1>1
<1>4. ASSUME NEW i \in 1 .. Len(s), i - 1 \in T PROVE i \in T
  <2>1. k <= i - 1 => Has(P[i - 1]) BY <1>4
  <2>2. CASE s[i] \in S
    <3>1. P[i - 1] \in Seq(X) /\ P[i] = Append(P[i - 1], s[i]) /\ s[i] \in X BY <1>1, <1>2, <2>2
    <3>2. /\ DOMAIN P[i] = DOMAIN P[i - 1] \cup {Len(P[i - 1]) + 1}
          /\ \A m \in DOMAIN P[i - 1] : P[i][m] = P[i - 1][m]
          /\ P[i][Len(P[i - 1]) + 1] = s[i]
      BY <3>1, AppendProperties
    <3>3. k <= i => k <= i - 1 \/ k = i BY <1>1
    <3> QED BY <1>1, <2>1, <3>2, <3>3
  <2>3. CASE s[i] \notin S
    <3>1. k <= i => k <= i - 1 BY <1>1, <2>3
    <3> HIDE DEF Has
    <3> QED BY <1>1, <1>2, <2>1, <2>3, <3>1
  <2> QED BY <2>2, <2>3
<1>5. \A i \in 0 .. Len(s) : i \in T
  <2> HIDE DEF T
  <2> QED BY <1>1, <1>3, <1>4, UpTo
<1> QED BY <1>1, <1>5 DEF Picked, P
=============================================================================
