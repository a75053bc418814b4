----------------------------- MODULE MCMapReduce -----------------------------
(* Small instances of MapReduce for TLC. *)
EXTENDS MapReduce

CONSTANTS w1, w2, w3, h1, h2, m1, m2

(* Two workers in two containers *)
TwoWorkers == {w1, w2}
TwoHostOf  == [w \in TwoWorkers |-> IF w = w1 THEN h1 ELSE h2]

(* Three processes in two containers: w3 replaces w1 when w1 died *)
ThreeWorkers == {w1, w2, w3}
ThreeHostOf  == [w \in ThreeWorkers |-> IF w = w2 THEN h2 ELSE h1]

NoFaults    == [k \in FaultKind |-> 0]
MasterFault == [NoFaults EXCEPT !["master"] = 1]
ReplyFault  == [NoFaults EXCEPT !["reply"] = 1]
LossFaults  == [k \in FaultKind |-> IF k = "master" THEN 0 ELSE 1]
=============================================================================
