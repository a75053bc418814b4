----------------------------- MODULE Accumulate -----------------------------
(***************************************************************************)
(* What a loop over a sequence adds up, joins or picks, as functions from  *)
(* the number of turns made to the result so far.                          *)
(***************************************************************************)
EXTENDS Integers, Sequences

(* f[1] + ... + f[n] *)
Sums(f, n) ==
    LET sum[i \in 0 .. n] == IF i = 0 THEN 0 ELSE sum[i - 1] + f[i] IN sum
Total(f, n) == Sums(f, n)[n]

(* The sequences of parts, one after the other *)
Joins(parts) ==
    LET all[i \in 0 .. Len(parts)] == IF i = 0 THEN << >> ELSE all[i - 1] \o parts[i]
    IN  all
Joined(parts) == Joins(parts)[Len(parts)]

(* The elements of s that lie in S, in their order *)
Picks(s, S) ==
    LET picked[i \in 0 .. Len(s)] ==
            IF i = 0 THEN << >>
            ELSE IF s[i] \in S THEN Append(picked[i - 1], s[i]) ELSE picked[i - 1]
    IN  picked
Picked(s, S) == Picks(s, S)[Len(s)]
=============================================================================
