------------------------------ MODULE JobBoard ------------------------------
(***************************************************************************)
(* What the job pipeline promises to whoever submits jobs: a board of jobs *)
(* that are answered one at a time, the lowest first, each once, and the   *)
(* answer of a job is the exact one from the moment it is COMPLETED on.    *)
(***************************************************************************)
EXTENDS Naturals

CONSTANT Job   \* a set of numbers

VARIABLES
    status,   \* of each job
    answer    \* of each job: "none", "exact" or "wrong"

boardVars == <<status, answer>>

BoardInit == /\ status = [j \in Job |-> "CREATED"]
             /\ answer = [j \in Job |-> "none"]

Lowest(j) == /\ status[j] = "CREATED"
             /\ \A i \in Job : i < j => status[i] # "CREATED"

Complete(j) ==
    /\ Lowest(j)
    /\ status' = [status EXCEPT ![j] = "COMPLETED"]
    /\ answer' = [answer EXCEPT ![j] = "exact"]

BoardNext == \E j \in Job : Complete(j)
BoardSpec == BoardInit /\ [][BoardNext]_boardVars

(* Without faults the pipeline also promises that no job is left *)
FairBoardSpec == BoardSpec /\ WF_boardVars(BoardNext)
=============================================================================
