----------------------------- MODULE WorkerFiles -----------------------------
(***************************************************************************)
(* The files behind map and reduce of src/worker/worker.cpp, and execute   *)
(* of src/worker/python_executor.h, for one job.                           *)
(*                                                                         *)
(* The user's mapper and reducer write into files that execute opens       *)
(* without O_TRUNC.  mapper_output_file.txt and temp have the same name    *)
(* for every task of the job, so what an earlier task of this worker left  *)
(* beyond the end of the new output is still there when the file is read.  *)
(*                                                                         *)
(* A file is its sequence of lines; all lines have the same length.  The   *)
(* mapper's output has a word per line, the reducer's a word and a count,  *)
(* in the order of words.                                                  *)
(***************************************************************************)
EXTENDS Accumulate

CONSTANTS
    Worker,       \* workers, each with its own directory of the job
    NumWords,     \* words are numbers, in their order
    NumReducers,  \* num_reducers of a map task
    Inputs,       \* the jobs considered: the words of each shard
    MaxRuns       \* bound on the tasks a worker executes

Word    == 1 .. NumWords
Reducer == 1 .. NumReducers

ASSUME FilesAssumption ==
    /\ NumWords \in Nat /\ NumReducers \in Nat \ {0} /\ MaxRuns \in Nat
    /\ Inputs \subseteq Seq(Seq(Word))

VARIABLES
    shards,  \* the job
    mapOut,  \* of each worker, intermediates/mapper_output_file.txt
    temp,    \* of each worker, reducers/temp
    outFile, \* of each worker, reducers/final_<r>.txt
    inter,   \* intermediate files in the blob store, of each shard
    final,   \* final files in the blob store
    nmaps,   \* map tasks each worker has executed
    nreds    \* reduce tasks each worker has executed

vars == <<shards, mapOut, temp, outFile, inter, final, nmaps, nreds>>

Absent == << >>
Line(w, n) == [word |-> w, count |-> n]

(* hash<string> of a word, modulo reducer_count; some fixed function *)
ReducerOf(w) == (w % NumReducers) + 1

(* What a file holds once a process has written new from its beginning *)
Overwrite(old, new) == new \o SubSeq(old, Len(new) + 1, Len(old))

(* What reducer.py prints for these lines: the sum of the counts of each   *)
(* word that occurs                                                        *)
Counts(w, lines) ==
    [n \in DOMAIN lines |-> IF lines[n].word = w THEN lines[n].count ELSE 0]
CountIn(w, lines) == Total(Counts(w, lines), Len(lines))
Printed == [word : Word, count : Nat \ {0}]
Summed(lines) == Picked([w \in Word |-> Line(w, CountIn(w, lines))], Printed)

(* A line "word 1" for each token, in the file of the token's reducer *)
Lines(tokens) == [n \in DOMAIN tokens |-> Line(tokens[n], 1)]
LinesOf(r) == {Line(w, 1) : w \in {x \in Word : ReducerOf(x) = r}}
\* mutant: every reducer gets every token
Split_ToAll(tokens, r) == Lines(tokens)
Split(tokens, r) == Picked(Lines(tokens), LinesOf(r))

(* temp after the reducer ran over each of the files, the first time with  *)
(* O_RDWR|O_CREAT, then with O_RDWR|O_APPEND.                              *)
\* mutant: O_APPEND is forgotten
TempAfter_NoAppend(old, files) ==
    LET tmp[n \in 0 .. Len(files)] ==
            IF n = 0 THEN old ELSE Overwrite(tmp[n - 1], Summed(files[n]))
    IN  tmp[Len(files)]
Temps(old, files) ==
    LET tmp[n \in 0 .. Len(files)] ==
            IF n = 0 THEN old
            ELSE IF n = 1 THEN Overwrite(tmp[0], Summed(files[1]))
                 ELSE tmp[n - 1] \o Summed(files[n])
    IN  tmp
TempAfter(old, files) == Temps(old, files)[Len(files)]

(* The last of the M + 1 calls of the reducer *)
\* mutant: temp is taken as it is
FinalOf_Unsummed(tmp) == tmp
FinalOf(tmp) == Summed(tmp)

Init ==
    /\ shards \in Inputs
    /\ mapOut = [v \in Worker |-> Absent] /\ temp = [v \in Worker |-> Absent]
    /\ outFile = [v \in Worker |-> [r \in Reducer |-> Absent]]
    /\ inter = << >> /\ final = [r \in {} |-> Absent]
    /\ nmaps = [v \in Worker |-> 0] /\ nreds = [v \in Worker |-> 0]

Shard   == DOMAIN shards
Runs(v) == nmaps[v] + nreds[v]
Mapped(t) == t \in DOMAIN inter

(* map: run the mapper over the shard, read its output file, split it,     *)
(* upload a file for each reducer.  A shard may be mapped again, by any    *)
(* worker, as long as the reduce phase has not begun.                      *)
Map(v, t) ==
    /\ Runs(v) < MaxRuns
    /\ final = << >> /\ \A u \in Worker : nreds[u] = 0
    /\ mapOut' = [mapOut EXCEPT ![v] = Overwrite(@, shards[t])]
    /\ inter' = [s \in DOMAIN inter \cup {t} |->
                   IF s = t THEN [r \in Reducer |-> Split(mapOut'[v], r)] ELSE inter[s]]
    /\ nmaps' = [nmaps EXCEPT ![v] = @ + 1]
    /\ UNCHANGED <<shards, temp, outFile, final, nreds>>

(* reduce: run the reducer over the files of this reducer one by one, then *)
(* over what that left in temp, and upload the result.                     *)
Reduce(v, r) ==
    /\ Runs(v) < MaxRuns
    /\ Shard # {} /\ \A t \in Shard : Mapped(t)
    /\ LET files == [t \in Shard |-> inter[t][r]]
       IN  temp' = [temp EXCEPT ![v] = TempAfter(@, files)]
    /\ outFile' = [outFile EXCEPT ![v][r] = Overwrite(@, FinalOf(temp'[v]))]
    /\ final' = [q \in DOMAIN final \cup {r} |-> IF q = r THEN outFile'[v][r] ELSE final[q]]
    /\ nreds' = [nreds EXCEPT ![v] = @ + 1]
    /\ UNCHANGED <<shards, mapOut, inter, nmaps>>

Next == \E v \in Worker : \/ \E t \in Shard : Map(v, t)
                          \/ \E r \in Reducer : Reduce(v, r)

Spec == Init /\ [][Next]_vars
-----------------------------------------------------------------------------
(* Properties *)

(* The counts of a word, and of the words of a reducer, in the whole job *)
TrueCount(w) == CountIn(w, Joined([t \in Shard |-> Lines(shards[t])]))
ExactFinal(r) == Summed(Joined([t \in Shard |-> Split(shards[t], r)]))

(* The final file of a reducer has exactly the counts of its words, when   *)
(* no worker mapped twice or reduced twice in the job.                     *)
ExactIfFresh ==
    (\A v \in Worker : nmaps[v] <= 1 /\ nreds[v] <= 1)
       => \A r \in DOMAIN final : final[r] = ExactFinal(r)

(* A final file has words of its own reducer only, however often the map   *)
(* tasks were repeated, as long as no worker reduced twice in the job.     *)
NoForeignWords ==
    (\A v \in Worker : nreds[v] <= 1)
       => \A r \in DOMAIN final : \A n \in DOMAIN final[r] : ReducerOf(final[r][n].word) = r

(* Whatever was left in the files, and whichever tasks were repeated, no   *)
(* word of a reducer is missing from its final file or counted too low.    *)
NeverUndercounts ==
    \A r \in DOMAIN final : \A w \in Word :
       ReducerOf(w) = r /\ TrueCount(w) > 0 =>
          \E n \in DOMAIN final[r] : /\ final[r][n].word = w
                                     /\ final[r][n].count >= TrueCount(w)
=============================================================================
