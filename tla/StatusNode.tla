----------------------------- MODULE StatusNode -----------------------------
(***************************************************************************)
(* update_worker_self_status of src/worker/worker.cpp, as executeTask      *)
(* calls it before and after a task, on top of create_if_not_exists and    *)
(* set of src/util/zook.h.                                                 *)
(*                                                                         *)
(* The constructor of MultiThreadedDispatchServer assigns my_id where it   *)
(* means worker_id_zookeeper, which stays empty: all workers write the one *)
(* znode "/status".  A failed assertion ends the worker process.           *)
(***************************************************************************)
EXTENDS Naturals, FiniteSets

CONSTANTS
    Worker,    \* worker processes
    NoNode,    \* the znode does not exist
    MaxTasks   \* bound on the tasks a worker executes

ASSUME StatusAssumption ==
    MaxTasks \in Nat /\ NoNode \notin {"BUSY", "IDLE"} /\ IsFiniteSet(Worker)

VARIABLES
    node,   \* data of /status, or NoNode
    at,     \* where each worker is
    ntask   \* tasks it has taken

statusVars == <<node, at, ntask>>

(* A worker waits for a task; checks, creates and sets with BUSY; executes; *)
(* checks, creates and sets with IDLE; or has aborted.                      *)
Steps  == {"check", "create", "set"}
Places ==
    {<<"wait">>, <<"run">>, <<"aborted">>}
    \cup {<<s, v>> : s \in Steps, v \in {"BUSY", "IDLE"}}

\* mutant: the result of checkExists is not looked at
NodeExists_Ignored == FALSE
NodeExists == node # NoNode

(* Where executeTask goes on after the update *)
\* mutant: executeTask does not set the status back
AfterUpdate_NoIdle(v) == <<"wait">>
AfterUpdate(v) == IF v = "BUSY" THEN <<"run">> ELSE <<"wait">>

StatusInit ==
    /\ node = NoNode
    /\ at = [w \in Worker |-> <<"wait">>]
    /\ ntask = [w \in Worker |-> 0]

TakeTask(w) ==
    /\ at[w] = <<"wait">> /\ ntask[w] < MaxTasks
    /\ ntask' = [ntask EXCEPT ![w] = @ + 1]
    /\ at' = [at EXCEPT ![w] = <<"check", "BUSY">>]
    /\ UNCHANGED node

(* create_if_not_exists: checkExists, then create.  The two are separate   *)
(* calls to ZooKeeper.                                                     *)
CheckExists(w, v) ==
    /\ at[w] = <<"check", v>>
    /\ at' = [at EXCEPT ![w] = <<IF NodeExists THEN "set" ELSE "create", v>>]
    /\ UNCHANGED <<node, ntask>>

(* create, and assert(ret == ZOK) *)
Create(w, v) ==
    /\ at[w] = <<"create", v>>
    /\ node = NoNode
    /\ node' = v
    /\ at' = [at EXCEPT ![w] = <<"set", v>>]
    /\ UNCHANGED ntask

CreateFails(w, v) ==
    /\ at[w] = <<"create", v>>
    /\ node # NoNode
    /\ at' = [at EXCEPT ![w] = <<"aborted">>]
    /\ UNCHANGED <<node, ntask>>

(* set, and assert(ret == ZOK) *)
Set(w, v) ==
    /\ at[w] = <<"set", v>>
    /\ node # NoNode
    /\ node' = v
    /\ at' = [at EXCEPT ![w] = AfterUpdate(v)]
    /\ UNCHANGED ntask

TaskDone(w) ==
    /\ at[w] = <<"run">>
    /\ at' = [at EXCEPT ![w] = <<"check", "IDLE">>]
    /\ UNCHANGED <<node, ntask>>

StatusNext == \E w \in Worker :
    \/ TakeTask(w) \/ TaskDone(w)
    \/ \E v \in {"BUSY", "IDLE"} :
         CheckExists(w, v) \/ Create(w, v) \/ CreateFails(w, v) \/ Set(w, v)

StatusSpec == StatusInit /\ [][StatusNext]_statusVars
-----------------------------------------------------------------------------
(* Properties *)

(* Type invariant; only the first update of a worker may have to create    *)
(* the znode, and once it is there, no assertion on set can fail.          *)
StatusTypeOK ==
    /\ node \in {NoNode, "BUSY", "IDLE"}
    /\ at \in [Worker -> Places]
    /\ ntask \in [Worker -> 0 .. MaxTasks]
    /\ \A w \in Worker :
         /\ at[w][1] = "create" => at[w] = <<"create", "BUSY">> /\ ntask[w] = 1
         /\ at[w][1] \in {"set", "run"} => node # NoNode

(* The race to create "/status" never ends all the workers: the one that   *)
(* created it is still there.                                              *)
Aborted(w) == at[w] = <<"aborted">>
SomeoneSurvives ==
    (\E w \in Worker : Aborted(w)) => \E w \in Worker : ~Aborted(w) /\ ntask[w] > 0

(* When no worker has a task, "/status" reads IDLE, although all of them   *)
(* write to it in any order.                                               *)
IdleAtRest ==
    node # NoNode /\ (\A w \in Worker : at[w] = <<"wait">> \/ Aborted(w)) => node = "IDLE"
=============================================================================
