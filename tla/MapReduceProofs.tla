--------------------------- MODULE MapReduceProofs ---------------------------
(***************************************************************************)
(* The safety properties of MapReduce, for any number of workers, jobs,    *)
(* shards, reducers and masters and any budget of faults, in three parts.  *)
(*                                                                         *)
(* The mutex: TypeOK is inductive by itself.  LockInv is inductive         *)
(* relative to TypeOK: schedule holds the mutex from LockScan to ScanEnd,  *)
(* so no handler can complete the task whose execute_task call is          *)
(* outstanding.  CompletedStays follows from both.                         *)
(* The files: FilesInv, and InputsUploaded from it.                        *)
(* The board: LinkInv, ExactInv and LossInv, from which the locking is     *)
(* enough, the pipeline implements JobBoard, and a task is stranded by a   *)
(* loss only.                                                              *)
(***************************************************************************)
EXTENDS MapReduce, TLAPS, FiniteSetTheorems, SequenceTheorems

USE WorkerAssumption, SizeAssumption
USE DEF vars, masterVars, ctlVars, tableVars, scanVars, envVars, workerVars,
        holdVars, queueVars, zkVars, blobVars, faultVars

(* A function on 1 .. n is a sequence *)
LEMMA FunIsSeq ==
  ASSUME NEW S, NEW n \in Nat, NEW f \in [1 .. n -> S] PROVE f \in Seq(S)
BY SeqDef

(* The empty tuple is a sequence over any set *)
LEMMA EmptyIsSeq == ASSUME NEW S PROVE << >> \in Seq(S)
BY EmptySeq

(* The types hold initially *)
LEMMA InitType == Init => TypeOK
<1> SUFFICES ASSUME Init PROVE TypeOK OBVIOUS
<1> USE DEF Init
<1>1. MasterTypeOK BY EmptyIsSeq DEF MasterTypeOK, TaskType
<1>2. WorkerTypeOK BY EmptyIsSeq DEF WorkerTypeOK
<1>3. StoreTypeOK
  <2>1. NoFile \in [red : Nat, ins : Seq(Seq(Completion))] BY EmptyIsSeq DEF NoFile
  <2>2. jobStatus \in [Job -> {"CREATED", "COMPLETED"}] OBVIOUS
  <2>3. final \in [Job -> [1 .. NumReducers -> [red : Nat, ins : Seq(Seq(Completion))]]] BY <2>1
  <2> QED BY <2>2, <2>3 DEF StoreTypeOK
<1>4. CallsTypeOK BY DEF CallsTypeOK, Holding
<1> QED BY <1>1, <1>2, <1>3, <1>4 DEF TypeOK

(* While a call is outstanding, what it carries is a task message *)
LEMMA MsgType == ASSUME TypeOK, rpc # "none" PROVE Msg \in TaskMsg
<1>1. pc = "rpc" BY DEF TypeOK, CallsTypeOK
<1>2. cur \in DOMAIN tasks /\ target \in DOMAIN workers
  BY <1>1 DEF TypeOK, CallsTypeOK
<1>3. tasks[cur] \in TaskState /\ cur \in TaskId
  BY <1>2 DEF TypeOK, MasterTypeOK, TaskId
<1>4. target \in WorkerId
  BY <1>2 DEF TypeOK, MasterTypeOK, WorkerId
<1>5. job \in Job /\ url \in MasterHost /\ inc \in Nat /\ phase \in TaskType
  BY <1>1 DEF TypeOK, MasterTypeOK
<1> QED BY <1>3, <1>4, <1>5 DEF Msg, TaskMsg, TaskState

(* What sendTaskCompletion reports is a completion *)
LEMMA CompletionOfType == ASSUME NEW m \in TaskMsg PROVE CompletionOf(m) \in Completion
BY DEF CompletionOf, TaskMsg, Completion

(* A new task is a task *)
LEMMA NewTaskType ==
  ASSUME NEW r \in Nat, NEW files \in Seq(Seq(Completion))
  PROVE  NewTask(r, files) \in TaskState
BY EmptyIsSeq DEF NewTask, TaskState

(* fill_tasks makes a list of tasks *)
LEMMA MapTasksType == MapTasks \in Seq(TaskState)
<1>1. NewTask(0, << >>) \in TaskState BY EmptyIsSeq, NewTaskType
<1> QED BY <1>1 DEF MapTasks

(* Each position of tasks_ holds a task *)
LEMMA TaskAt ==
  ASSUME MasterTypeOK, NEW i \in DOMAIN tasks
  PROVE  /\ tasks[i] \in TaskState
         /\ tasks[i].outs \in Seq(Completion)
         /\ tasks[i].ins \in Seq(Seq(Completion))
<1>1. tasks[i] \in TaskState BY DEF MasterTypeOK
<1> QED BY <1>1 DEF TaskState

(* Spending a fault keeps the counters *)
LEMMA SpendType ==
  ASSUME faults \in [FaultKind -> Nat], NEW kind \in FaultKind, Spend(kind)
  PROVE  faults' \in [FaultKind -> Nat]
BY DEF Spend

(* Setting the status of an entry keeps the type of workers_ *)
LEMMA StatusType ==
  ASSUME MasterTypeOK, NEW k \in DOMAIN workers, NEW s \in {"idle", "busy"}
  PROVE  /\ [workers EXCEPT ![k].status = s] \in Seq([host : Host, status : {"idle", "busy"}])
         /\ DOMAIN [workers EXCEPT ![k].status = s] = DOMAIN workers
<1> DEFINE Entry == [host : Host, status : {"idle", "busy"}]
<1>1. workers \in Seq(Entry) BY DEF MasterTypeOK
<1>2. workers[k] \in Entry /\ k \in 1 .. Len(workers)
  <2> HIDE DEF Entry
  <2> QED BY <1>1, ElementOfSeq
<1>3. [workers[k] EXCEPT !.status = s] \in Entry BY <1>2
<1> HIDE DEF Entry
<1> QED BY <1>1, <1>2, <1>3, ExceptSeq DEF Entry

(* The queues of the workers after the death of a master *)
LEMMA OrphansType ==
  ASSUME TypeOK
  PROVE  [w \in Worker |-> IF CallQueuedAt(w) THEN Append(orphans[w], Msg) ELSE orphans[w]]
           \in [Worker -> Seq(TaskMsg)]
<1>1. \A w \in Worker : CallQueuedAt(w) => Msg \in TaskMsg BY MsgType DEF CallQueuedAt
<1>2. \A w \in Worker : orphans[w] \in Seq(TaskMsg) BY DEF TypeOK, WorkerTypeOK
<1> QED BY <1>1, <1>2

(* The death of a master keeps the types *)
LEMMA MasterDiesType ==
  ASSUME TypeOK, MasterDies PROVE MasterTypeOK' /\ WorkerTypeOK' /\ CallsTypeOK'
<1> USE DEF MasterDies, TypeOK
<1>1. tasks' \in Seq(TaskState) BY EmptyIsSeq
<1>2. workers' \in Seq([host : Host, status : {"idle", "busy"}]) BY EmptyIsSeq
<1>3. inc' \in Nat /\ url' \in MasterHost BY DEF MasterTypeOK
<1>4. MasterTypeOK' BY <1>1, <1>2, <1>3 DEF MasterTypeOK, TaskType
<1>5. WorkerTypeOK' BY OrphansType DEF WorkerTypeOK
<1>6. CallsTypeOK' BY DEF CallsTypeOK, Holding
<1> QED BY <1>4, <1>5, <1>6

(* The death of a worker keeps the types *)
LEMMA WorkerDiesType ==
  ASSUME TypeOK, NEW w \in Worker, WorkerDies(w)
  PROVE  MasterTypeOK' /\ WorkerTypeOK' /\ CallsTypeOK'
<1> USE DEF WorkerDies, TypeOK
<1>1. MasterTypeOK' BY DEF MasterTypeOK
<1>2. orphans' \in [Worker -> Seq(TaskMsg)]
  <2>1. << >> \in Seq(TaskMsg) BY EmptyIsSeq
  <2> QED BY <2>1 DEF WorkerTypeOK
<1>3. WorkerTypeOK'
  <2>1. CASE UNCHANGED <<call, wtask>> BY <1>2, <2>1 DEF WorkerTypeOK
  <2>2. CASE /\ call' = [call EXCEPT ![w] = "none"]
             /\ wtask' = [wtask EXCEPT ![w] = NoTask]
    BY <1>2, <2>2 DEF WorkerTypeOK
  <2> QED BY <2>1, <2>2
<1>4. CallsTypeOK' BY DEF CallsTypeOK, WorkerTypeOK, Holding, CallQueuedAt
<1> QED BY <1>1, <1>3, <1>4

(* Every step keeps the types: one step of the proof per action *)
LEMMA StepType == TypeOK /\ [Next]_vars => TypeOK'
<1> SUFFICES ASSUME TypeOK, [Next]_vars PROVE TypeOK' OBVIOUS
<1> USE DEF TypeOK
<1>1. ASSUME MasterStart PROVE TypeOK'
  <2> USE <1>1 DEF MasterStart
  <2>1. MasterTypeOK' BY DEF MasterTypeOK
  <2>2. WorkerTypeOK' BY DEF WorkerTypeOK
  <2>3. StoreTypeOK' BY DEF StoreTypeOK
  <2>4. CallsTypeOK' BY DEF CallsTypeOK, MasterTypeOK, WorkerTypeOK, Holding
  <2> QED BY <2>1, <2>2, <2>3, <2>4
<1>2. ASSUME GetNextJob PROVE TypeOK'
  <2> USE <1>2 DEF GetNextJob
  <2>1. MasterTypeOK' BY DEF MasterTypeOK
  <2>2. WorkerTypeOK' BY DEF WorkerTypeOK
  <2>3. StoreTypeOK' BY DEF StoreTypeOK
  <2>4. CallsTypeOK' BY DEF CallsTypeOK, MasterTypeOK, WorkerTypeOK, Holding
  <2> QED BY <2>1, <2>2, <2>3, <2>4
<1>3. ASSUME PollIdle PROVE TypeOK'
  <2> USE <1>3 DEF PollIdle
  <2>1. MasterTypeOK' BY DEF MasterTypeOK
  <2>2. WorkerTypeOK' BY DEF WorkerTypeOK
  <2>3. StoreTypeOK' BY DEF StoreTypeOK
  <2>4. CallsTypeOK' BY DEF CallsTypeOK, MasterTypeOK, WorkerTypeOK, Holding
  <2> QED BY <2>1, <2>2, <2>3, <2>4
<1>4. ASSUME Populate PROVE TypeOK'
  <2> USE <1>4 DEF Populate
  <2>1. Cardinality(registry) \in Nat
    BY FS_Subset, FS_CardinalityType DEF StoreTypeOK
  <2>2. PICK order \in Injection(1 .. Cardinality(registry), registry) :
          workers' = [k \in 1 .. Cardinality(registry) |->
                        [host |-> HostOf[order[k]], status |-> "idle"]]
    OBVIOUS
  <2>3. \A k \in 1 .. Cardinality(registry) : HostOf[order[k]] \in Host
    BY <2>2 DEF StoreTypeOK, Injection
  <2>4. workers' \in Seq([host : Host, status : {"idle", "busy"}])
    <3> DEFINE f == [k \in 1 .. Cardinality(registry) |->
                       [host |-> HostOf[order[k]], status |-> "idle"]]
    <3>1. f \in [1 .. Cardinality(registry) -> [host : Host, status : {"idle", "busy"}]]
      BY <2>3
    <3>2. workers' = f BY <2>2
    <3> QED BY <2>1, <3>1, <3>2, FunIsSeq
  <2>5. MasterTypeOK' BY <2>4 DEF MasterTypeOK
  <2>6. WorkerTypeOK' /\ StoreTypeOK' BY DEF WorkerTypeOK, StoreTypeOK
  <2>7. CallsTypeOK' BY DEF CallsTypeOK, Holding
  <2> QED BY <2>5, <2>6, <2>7
<1>5. ASSUME PopulateRetry PROVE TypeOK'
  <2> USE <1>5 DEF PopulateRetry
  <2>1. MasterTypeOK' BY DEF MasterTypeOK
  <2>2. WorkerTypeOK' BY DEF WorkerTypeOK
  <2>3. StoreTypeOK' BY DEF StoreTypeOK
  <2>4. CallsTypeOK' BY DEF CallsTypeOK, MasterTypeOK, WorkerTypeOK, Holding
  <2> QED BY <2>1, <2>2, <2>3, <2>4
<1>6. ASSUME PopulateAbort PROVE TypeOK'
  <2> USE <1>6 DEF PopulateAbort
  <2>1. MasterTypeOK' BY DEF MasterTypeOK
  <2>2. WorkerTypeOK' BY DEF WorkerTypeOK
  <2>3. StoreTypeOK' BY DEF StoreTypeOK
  <2>4. CallsTypeOK' BY DEF CallsTypeOK, MasterTypeOK, WorkerTypeOK, Holding
  <2> QED BY <2>1, <2>2, <2>3, <2>4
<1>7. ASSUME Bootstrap PROVE TypeOK'
  <2> USE <1>7 DEF Bootstrap
  <2>1. tasks' \in Seq(TaskState) BY MapTasksType, ConcatProperties DEF MasterTypeOK
  <2>2. MasterTypeOK' BY <2>1 DEF MasterTypeOK, TaskType
  <2>3. WorkerTypeOK' /\ StoreTypeOK' BY DEF WorkerTypeOK, StoreTypeOK
  <2>4. CallsTypeOK' BY DEF CallsTypeOK, Holding
  <2> QED BY <2>2, <2>3, <2>4
<1>8. ASSUME LockScan PROVE TypeOK'
  <2> USE <1>8 DEF LockScan
  <2>1. MasterTypeOK' BY DEF MasterTypeOK
  <2>2. WorkerTypeOK' BY DEF WorkerTypeOK
  <2>3. StoreTypeOK' BY DEF StoreTypeOK
  <2>4. CallsTypeOK' BY DEF CallsTypeOK, MasterTypeOK, WorkerTypeOK, Holding
  <2> QED BY <2>1, <2>2, <2>3, <2>4
<1>9. ASSUME Trigger PROVE TypeOK'
  <2> USE <1>9 DEF Trigger
  <2>1. MasterTypeOK' BY DEF MasterTypeOK
  <2>2. WorkerTypeOK' BY DEF WorkerTypeOK
  <2>3. StoreTypeOK' BY DEF StoreTypeOK
  <2>4. CallsTypeOK' BY DEF CallsTypeOK, MasterTypeOK, WorkerTypeOK, Holding
  <2> QED BY <2>1, <2>2, <2>3, <2>4
<1>10. ASSUME ReplyOk PROVE TypeOK'
  <2> USE <1>10 DEF ReplyOk
  <2>1. cur \in DOMAIN tasks /\ target \in DOMAIN workers BY DEF CallsTypeOK
  <2>2. tasks' \in Seq(TaskState)
    <3>1. tasks[cur] \in TaskState BY <2>1 DEF MasterTypeOK
    <3>2. [tasks[cur] EXCEPT !.status = "running"] \in TaskState BY <3>1 DEF TaskState
    <3> QED BY <2>1, <3>2 DEF MasterTypeOK
  <2>3. workers' \in Seq([host : Host, status : {"idle", "busy"}])
    BY <2>1, StatusType
  <2>4. MasterTypeOK' BY <2>2, <2>3 DEF MasterTypeOK
  <2>5. WorkerTypeOK' /\ StoreTypeOK' BY DEF WorkerTypeOK, StoreTypeOK
  <2>6. CallsTypeOK' BY DEF CallsTypeOK, Holding
  <2> QED BY <2>4, <2>5, <2>6
<1>11. ASSUME ReplyFail PROVE TypeOK'
  <2> USE <1>11 DEF ReplyFail
  <2>1. MasterTypeOK' BY DEF MasterTypeOK
  <2>2. WorkerTypeOK' BY DEF WorkerTypeOK
  <2>3. StoreTypeOK' BY DEF StoreTypeOK
  <2>4. CallsTypeOK' BY DEF CallsTypeOK, MasterTypeOK, WorkerTypeOK, Holding
  <2> QED BY <2>1, <2>2, <2>3, <2>4
<1>12. ASSUME ScanEnd PROVE TypeOK'
  <2> USE <1>12 DEF ScanEnd
  <2>1. allDone' \in BOOLEAN BY DEF AllCompleted
  <2>2. MasterTypeOK' BY <2>1 DEF MasterTypeOK
  <2>3. WorkerTypeOK' /\ StoreTypeOK' BY DEF WorkerTypeOK, StoreTypeOK
  <2>4. CallsTypeOK' BY DEF CallsTypeOK, Holding
  <2> QED BY <2>2, <2>3, <2>4
<1>13. ASSUME Check PROVE TypeOK'
  <2> USE <1>13 DEF Check
  <2>1. MasterTypeOK' BY DEF MasterTypeOK
  <2>2. WorkerTypeOK' BY DEF WorkerTypeOK
  <2>3. StoreTypeOK' BY DEF StoreTypeOK
  <2>4. CallsTypeOK' BY DEF CallsTypeOK, MasterTypeOK, WorkerTypeOK, Holding
  <2> QED BY <2>1, <2>2, <2>3, <2>4
<1>14. ASSUME Regroup PROVE TypeOK'
  <2> USE <1>14 DEF Regroup
  <2> DEFINE found == {r \in 1 .. NumReducers : \E t \in DOMAIN tasks :
                        \E n \in DOMAIN tasks[t].outs : NamesReducer(tasks[t].outs[n], r)}
             lists == [t \in 1 .. Len(tasks) |-> tasks[t].outs]
  <2>1. Cardinality(found) \in Nat
    <3>1. IsFiniteSet(1 .. NumReducers) BY FS_Interval
    <3> QED BY <3>1, FS_Subset, FS_CardinalityType
  <2>2. lists \in Seq(Seq(Completion))
    <3>1. \A t \in 1 .. Len(tasks) : tasks[t].outs \in Seq(Completion)
      BY TaskAt DEF MasterTypeOK
    <3>2. lists \in [1 .. Len(tasks) -> Seq(Completion)] BY <3>1
    <3> QED BY <3>2, FunIsSeq DEF MasterTypeOK
  <2>3. PICK ids \in [1 .. Cardinality(found) -> found] :
          tasks' = [n \in 1 .. Cardinality(found) |-> NewTask(ids[n], lists)]
    BY Zenon
  <2>4. \A n \in 1 .. Cardinality(found) : NewTask(ids[n], lists) \in TaskState
    <3> SUFFICES ASSUME NEW n \in 1 .. Cardinality(found)
                 PROVE  NewTask(ids[n], lists) \in TaskState
      OBVIOUS
    <3>1. ids[n] \in Nat BY <2>3
    <3> HIDE DEF lists
    <3> QED BY <3>1, <2>2, NewTaskType
  <2>5. tasks' \in Seq(TaskState)
    <3> HIDE DEF found, lists
    <3>1. tasks' \in [1 .. Cardinality(found) -> TaskState] BY <2>3, <2>4
    <3> QED BY <2>1, <3>1, FunIsSeq
  <2>6. call' \in [Worker -> {"none", "sent", "locked", "detached"}]
    BY DEF MayDetach, WorkerTypeOK
  <2>7. MasterTypeOK' BY <2>5 DEF MasterTypeOK, TaskType
  <2>8. WorkerTypeOK' /\ StoreTypeOK' BY <2>6 DEF WorkerTypeOK, StoreTypeOK
  <2>9. CallsTypeOK' BY DEF CallsTypeOK, Holding, MayDetach, WorkerTypeOK
  <2> QED BY <2>7, <2>8, <2>9
<1>15. ASSUME JobEnd PROVE TypeOK'
  <2> USE <1>15 DEF JobEnd
  <2>1. MasterTypeOK' BY DEF MasterTypeOK
  <2>2. WorkerTypeOK' BY DEF WorkerTypeOK, MayDetach
  <2>3. StoreTypeOK' BY DEF StoreTypeOK
  <2>4. CallsTypeOK' BY DEF CallsTypeOK, Holding, MayDetach, WorkerTypeOK
  <2> QED BY <2>1, <2>2, <2>3, <2>4
<1>16. ASSUME RpcRefused PROVE TypeOK'
  <2> USE <1>16 DEF RpcRefused
  <2>1. MasterTypeOK' BY DEF MasterTypeOK
  <2>2. WorkerTypeOK' /\ StoreTypeOK' BY DEF WorkerTypeOK, StoreTypeOK
  <2>3. CallsTypeOK' BY DEF CallsTypeOK, Holding
  <2> QED BY <2>1, <2>2, <2>3
<1>17. ASSUME MasterCrash PROVE TypeOK'
  <2>1. StoreTypeOK' BY <1>17, SpendType DEF MasterCrash, MasterDies, StoreTypeOK, FaultKind
  <2> QED BY <1>17, <2>1, MasterDiesType DEF MasterCrash
<1>18. ASSUME LoseReply PROVE TypeOK'
  <2> USE <1>18 DEF LoseReply
  <2>1. MasterTypeOK' BY DEF MasterTypeOK
  <2>2. orphans' \in [Worker -> Seq(TaskMsg)] BY OrphansType DEF WorkerTypeOK
  <2>3. WorkerTypeOK' BY <2>2 DEF WorkerTypeOK
  <2>4. StoreTypeOK' BY SpendType DEF StoreTypeOK, FaultKind
  <2>5. CallsTypeOK' BY DEF CallsTypeOK, Holding
  <2> QED BY <2>1, <2>3, <2>4, <2>5
<1>19. ASSUME RaceCrash PROVE TypeOK'
  <2>1. StoreTypeOK' BY <1>19 DEF RaceCrash, MasterDies, StoreTypeOK
  <2> QED BY <1>19, <2>1, MasterDiesType DEF RaceCrash
<1>20. ASSUME NEW w \in Worker, RpcDeliver(w) PROVE TypeOK'
  <2> USE <1>20 DEF RpcDeliver
  <2>1. MasterTypeOK' BY DEF MasterTypeOK
  <2>2. WorkerTypeOK' BY DEF WorkerTypeOK
  <2>3. StoreTypeOK' BY DEF StoreTypeOK
  <2>4. CallsTypeOK' BY DEF CallsTypeOK, MasterTypeOK, WorkerTypeOK, Holding
  <2> QED BY <2>1, <2>2, <2>3, <2>4
<1>21. ASSUME NEW w \in Worker, LoseCompletion(w) PROVE TypeOK'
  <2> USE <1>21 DEF LoseCompletion
  <2>1. MasterTypeOK' BY DEF MasterTypeOK
  <2>2. WorkerTypeOK' BY DEF WorkerTypeOK
  <2>3. StoreTypeOK' BY SpendType DEF StoreTypeOK, FaultKind
  <2>4. CallsTypeOK' BY DEF CallsTypeOK, WorkerTypeOK, Holding
  <2> QED BY <2>1, <2>2, <2>3, <2>4
<1>22. ASSUME NEW w \in Worker, WorkerCrash(w) PROVE TypeOK'
  <2>1. StoreTypeOK' BY <1>22, SpendType DEF WorkerCrash, WorkerDies, StoreTypeOK, FaultKind
  <2> QED BY <1>22, <2>1, WorkerDiesType DEF WorkerCrash
<1>23. ASSUME NEW w \in Worker, Expire(w) PROVE TypeOK'
  <2> USE <1>23 DEF Expire
  <2>1. MasterTypeOK' BY DEF MasterTypeOK
  <2>2. WorkerTypeOK' BY DEF WorkerTypeOK
  <2>3. StoreTypeOK' BY DEF StoreTypeOK
  <2>4. CallsTypeOK' BY DEF CallsTypeOK, MasterTypeOK, WorkerTypeOK, Holding
  <2> QED BY <2>1, <2>2, <2>3, <2>4
<1>24. ASSUME NEW w \in Worker, HandlerFault(w) PROVE TypeOK'
  <2>1. StoreTypeOK' BY <1>24 DEF HandlerFault, MasterDies, StoreTypeOK
  <2> QED BY <1>24, <2>1, MasterDiesType DEF HandlerFault
<1>25. ASSUME NEW w \in Worker, Register(w) PROVE TypeOK'
  <2> USE <1>25 DEF Register
  <2>1. MasterTypeOK' BY DEF MasterTypeOK
  <2>2. WorkerTypeOK' BY DEF WorkerTypeOK
  <2>3. StoreTypeOK' BY DEF StoreTypeOK
  <2>4. CallsTypeOK' BY DEF CallsTypeOK, MasterTypeOK, WorkerTypeOK, Holding
  <2> QED BY <2>1, <2>2, <2>3, <2>4
<1>26. ASSUME NEW w \in Worker, Serve(w) PROVE TypeOK'
  <2> USE <1>26 DEF Serve
  <2>1. MasterTypeOK' BY DEF MasterTypeOK
  <2>2. WorkerTypeOK' BY DEF WorkerTypeOK
  <2>3. StoreTypeOK' BY DEF StoreTypeOK
  <2>4. CallsTypeOK' BY DEF CallsTypeOK, MasterTypeOK, WorkerTypeOK, Holding
  <2> QED BY <2>1, <2>2, <2>3, <2>4
<1>27. ASSUME NEW w \in Worker, Accept(w) PROVE TypeOK'
  <2> USE <1>27 DEF Accept
  <2>1. Msg \in TaskMsg BY MsgType DEF CallQueuedAt
  <2>2. MasterTypeOK' BY DEF MasterTypeOK
  <2>3. WorkerTypeOK' BY <2>1 DEF WorkerTypeOK
  <2>4. StoreTypeOK' BY DEF StoreTypeOK
  <2>5. CallsTypeOK' BY <2>1 DEF CallsTypeOK, WorkerTypeOK, Holding, CallQueuedAt
  <2> QED BY <2>2, <2>3, <2>4, <2>5
<1>28. ASSUME NEW w \in Worker, AcceptOrphan(w) PROVE TypeOK'
  <2> USE <1>28 DEF AcceptOrphan
  <2>1. Head(orphans[w]) \in TaskMsg /\ Tail(orphans[w]) \in Seq(TaskMsg)
    BY HeadTailProperties DEF WorkerTypeOK
  <2>2. MasterTypeOK' BY DEF MasterTypeOK
  <2>3. WorkerTypeOK' BY <2>1 DEF WorkerTypeOK
  <2>4. StoreTypeOK' BY DEF StoreTypeOK
  <2>5. CallsTypeOK' BY <2>1 DEF CallsTypeOK, WorkerTypeOK, Holding
  <2> QED BY <2>2, <2>3, <2>4, <2>5
<1>29. ASSUME NEW w \in Worker, UploadIntermediate(w) PROVE TypeOK'
  <2> USE <1>29 DEF UploadIntermediate
  <2>1. wtask[w] \in TaskMsg /\ nup[w] \in 0 .. NumReducers - 1
    BY DEF CallsTypeOK, WorkerTypeOK, Holding
  <2>2. Blob(wtask[w], nup[w] + 1)
          \in [job : Job, wid : WorkerId, tid : TaskId, red : 1 .. NumReducers]
    BY <2>1 DEF Blob, TaskMsg
  <2>3. MasterTypeOK' BY DEF MasterTypeOK
  <2>4. WorkerTypeOK' BY <2>1 DEF WorkerTypeOK
  <2>5. StoreTypeOK' BY <2>2 DEF StoreTypeOK
  <2>6. CallsTypeOK' BY DEF CallsTypeOK, Holding
  <2> QED BY <2>3, <2>4, <2>5, <2>6
<1>30. ASSUME NEW w \in Worker, UploadFinal(w) PROVE TypeOK'
  <2> USE <1>30 DEF UploadFinal
  <2> DEFINE File == [red : Nat, ins : Seq(Seq(Completion))]
             new == [red |-> wtask[w].red, ins |-> wtask[w].ins]
  <2>1. wtask[w] \in TaskMsg BY DEF CallsTypeOK, Holding
  <2>2. new \in File BY <2>1 DEF TaskMsg
  <2>3. final' \in [Job -> [1 .. NumReducers -> File]]
    <3> HIDE DEF File, new
    <3>1. final \in [Job -> [1 .. NumReducers -> File]] BY DEF StoreTypeOK, File
    <3>2. final' = [final EXCEPT ![wtask[w].job][wtask[w].tid] = new] BY DEF new
    <3>3. wtask[w].job \in Job BY <2>1 DEF TaskMsg
    <3>4. [final[wtask[w].job] EXCEPT ![wtask[w].tid] = new] \in [1 .. NumReducers -> File]
      BY <2>2, <3>1, <3>3
    <3> QED BY <3>1, <3>2, <3>3, <3>4
  <2>4. MasterTypeOK' BY DEF MasterTypeOK
  <2>5. WorkerTypeOK' BY DEF WorkerTypeOK
  <2>6. StoreTypeOK' BY <2>3 DEF StoreTypeOK
  <2>7. CallsTypeOK' BY DEF CallsTypeOK, Holding
  <2> QED BY <2>4, <2>5, <2>6, <2>7
<1>31. ASSUME NEW w \in Worker, SendCompletion(w) PROVE TypeOK'
  <2> USE <1>31 DEF SendCompletion
  <2>1. MasterTypeOK' BY DEF MasterTypeOK
  <2>2. WorkerTypeOK' BY DEF WorkerTypeOK
  <2>3. StoreTypeOK' BY DEF StoreTypeOK
  <2>4. CallsTypeOK' BY DEF CallsTypeOK, WorkerTypeOK, Holding
  <2> QED BY <2>1, <2>2, <2>3, <2>4
<1>32. ASSUME NEW w \in Worker, NotifyFails(w) PROVE TypeOK'
  <2> USE <1>32 DEF NotifyFails
  <2>1. MasterTypeOK' BY DEF MasterTypeOK
  <2>2. WorkerTypeOK' BY DEF WorkerTypeOK
  <2>3. StoreTypeOK' BY DEF StoreTypeOK
  <2>4. CallsTypeOK' BY DEF CallsTypeOK, MasterTypeOK, WorkerTypeOK, Holding
  <2> QED BY <2>1, <2>2, <2>3, <2>4
<1>33. ASSUME NEW w \in Worker, AbortOnFinish(w) PROVE TypeOK'
  <2>1. StoreTypeOK' BY <1>33 DEF AbortOnFinish, WorkerDies, StoreTypeOK
  <2> QED BY <1>33, <2>1, WorkerDiesType DEF AbortOnFinish
<1>34. ASSUME NEW w \in Worker, HandlerLock(w) PROVE TypeOK'
  <2> USE <1>34 DEF HandlerLock
  <2>1. MasterTypeOK' BY DEF MasterTypeOK
  <2>2. WorkerTypeOK' BY DEF WorkerTypeOK
  <2>3. StoreTypeOK' BY DEF StoreTypeOK
  <2>4. CallsTypeOK' BY DEF CallsTypeOK, MasterTypeOK, WorkerTypeOK, Holding
  <2> QED BY <2>1, <2>2, <2>3, <2>4
<1>35. ASSUME NEW w \in Worker, HandlerApply(w) PROVE TypeOK'
  <2> USE <1>35 DEF HandlerApply
  <2>1. wtask[w] \in TaskMsg BY DEF CallsTypeOK, Holding
  <2>2. tasks' \in Seq(TaskState)
    <3>1. CASE call[w] = "detached" BY <3>1 DEF MasterTypeOK
    <3>2. CASE call[w] = "locked"
      <4> DEFINE t == wtask[w].tid
      <4>1. t \in DOMAIN tasks BY <3>2 DEF Known
      <4>2. tasks[t] \in TaskState BY <4>1 DEF MasterTypeOK
      <4>3. Append(tasks[t].outs, CompletionOf(wtask[w])) \in Seq(Completion)
        BY <2>1, <4>2, CompletionOfType, AppendProperties DEF TaskState
      <4>4. tasks' = [tasks EXCEPT ![t] = [tasks[t] EXCEPT !.status = "completed",
                        !.outs = Append(tasks[t].outs, CompletionOf(wtask[w]))]]
        BY <3>2, <4>1 DEF MasterTypeOK
      <4>5. [tasks[t] EXCEPT !.status = "completed",
               !.outs = Append(tasks[t].outs, CompletionOf(wtask[w]))] \in TaskState
        BY <4>2, <4>3 DEF TaskState
      <4> HIDE DEF t
      <4> QED BY <4>1, <4>4, <4>5 DEF MasterTypeOK
    <3> QED BY <3>1, <3>2
  <2>3. workers' \in Seq([host : Host, status : {"idle", "busy"}])
    <3>1. wtask[w].wid \in DOMAIN workers BY DEF Known
    <3> QED BY <3>1, StatusType
  <2>4. MasterTypeOK' BY <2>2, <2>3 DEF MasterTypeOK
  <2>5. WorkerTypeOK' BY DEF WorkerTypeOK
  <2>6. StoreTypeOK' BY DEF StoreTypeOK
  <2>7. DOMAIN tasks' = DOMAIN tasks /\ DOMAIN workers' = DOMAIN workers
    BY StatusType DEF MasterTypeOK, Known
  <2>8. CallsTypeOK' BY <2>7 DEF CallsTypeOK, WorkerTypeOK, Holding
  <2> QED BY <2>4, <2>5, <2>6, <2>8
<1>36. CASE UNCHANGED vars BY <1>36 DEF MasterTypeOK, WorkerTypeOK, StoreTypeOK, CallsTypeOK, Holding
<1> QED BY <1>1, <1>2, <1>3, <1>4, <1>5, <1>6, <1>7, <1>8, <1>9, <1>10, <1>11, <1>12, <1>13, <1>14, <1>15, <1>16, <1>17, <1>18, <1>19, <1>20, <1>21, <1>22, <1>23, <1>24, <1>25, <1>26, <1>27, <1>28, <1>29, <1>30, <1>31, <1>32, <1>33, <1>34, <1>35, <1>36 DEF Next, MasterStep, WorkerStep, NetworkStep, FaultStep

(* TypeOK of the pipeline holds for any number of workers, jobs, shards,   *)
(* reducers and faults: execute_task is only ever outstanding for a task   *)
(* and an entry of workers_ that exist.                                    *)
THEOREM TypeCorrect == Spec => []TypeOK
<1>1. Init => TypeOK BY InitType
<1>2. TypeOK /\ [Next]_vars => TypeOK' BY StepType
<1> QED BY <1>1, <1>2, PTL DEF Spec

(* Every step keeps LockInv: one step of the proof per action *)
LEMMA StepLock == TypeOK /\ LockInv /\ [Next]_vars => LockInv'
<1> SUFFICES ASSUME TypeOK, LockInv, [Next]_vars PROVE LockInv' OBVIOUS
<1> USE DEF LockInv, InHandler
<1>1. CASE MasterStart
  BY <1>1 DEF MasterStart, TypeOK
<1>2. CASE GetNextJob
  BY <1>2 DEF GetNextJob, TypeOK
<1>3. CASE PollIdle
  BY <1>3 DEF PollIdle, TypeOK
<1>4. CASE Populate
  BY <1>4 DEF Populate, TypeOK
<1>5. CASE PopulateRetry
  BY <1>5 DEF PopulateRetry, TypeOK
<1>6. CASE PopulateAbort
  BY <1>6 DEF PopulateAbort, TypeOK
<1>7. CASE Bootstrap
  BY <1>7 DEF Bootstrap, TypeOK
<1>8. CASE LockScan
  BY <1>8 DEF LockScan, MutexFree, TypeOK
<1>9. CASE Trigger
  BY <1>9 DEF Trigger, NextQueued, TypeOK
<1>10. CASE ReplyOk
  BY <1>10 DEF ReplyOk, TypeOK
<1>11. CASE ReplyFail
  BY <1>11 DEF ReplyFail, TypeOK
<1>12. CASE ScanEnd
  BY <1>12 DEF ScanEnd, TypeOK
<1>13. CASE Check
  BY <1>13 DEF Check, TypeOK
<1>14. CASE Regroup
  BY <1>14 DEF Regroup, MayDetach, TypeOK, WorkerTypeOK
<1>15. CASE JobEnd
  BY <1>15 DEF JobEnd, MayDetach, TypeOK, WorkerTypeOK
<1>16. CASE RpcRefused
  BY <1>16 DEF RpcRefused, TypeOK
<1>17. CASE MasterCrash
  BY <1>17 DEF MasterCrash, MasterDies, TypeOK, WorkerTypeOK
<1>18. CASE LoseReply
  BY <1>18 DEF LoseReply, TypeOK
<1>19. CASE RaceCrash
  BY <1>19 DEF RaceCrash, MasterDies, TypeOK, WorkerTypeOK
<1>20. ASSUME NEW w \in Worker, RpcDeliver(w) PROVE LockInv'
  BY <1>20 DEF RpcDeliver, TypeOK, WorkerTypeOK
<1>21. ASSUME NEW w \in Worker, LoseCompletion(w) PROVE LockInv'
  BY <1>21 DEF LoseCompletion, TypeOK, WorkerTypeOK
<1>22. ASSUME NEW w \in Worker, WorkerCrash(w) PROVE LockInv'
  BY <1>22 DEF WorkerCrash, WorkerDies, TypeOK, WorkerTypeOK
<1>23. ASSUME NEW w \in Worker, Expire(w) PROVE LockInv'
  BY <1>23 DEF Expire, TypeOK, WorkerTypeOK
<1>24. ASSUME NEW w \in Worker, HandlerFault(w) PROVE LockInv'
  BY <1>24 DEF HandlerFault, MasterDies, TypeOK, WorkerTypeOK
<1>25. ASSUME NEW w \in Worker, Register(w) PROVE LockInv'
  BY <1>25 DEF Register, TypeOK, WorkerTypeOK
<1>26. ASSUME NEW w \in Worker, Serve(w) PROVE LockInv'
  BY <1>26 DEF Serve, TypeOK, WorkerTypeOK
<1>27. ASSUME NEW w \in Worker, Accept(w) PROVE LockInv'
  BY <1>27 DEF Accept, TypeOK, WorkerTypeOK
<1>28. ASSUME NEW w \in Worker, AcceptOrphan(w) PROVE LockInv'
  BY <1>28 DEF AcceptOrphan, TypeOK, WorkerTypeOK
<1>29. ASSUME NEW w \in Worker, UploadIntermediate(w) PROVE LockInv'
  BY <1>29 DEF UploadIntermediate, TypeOK, WorkerTypeOK
<1>30. ASSUME NEW w \in Worker, UploadFinal(w) PROVE LockInv'
  BY <1>30 DEF UploadFinal, TypeOK, WorkerTypeOK
<1>31. ASSUME NEW w \in Worker, SendCompletion(w) PROVE LockInv'
  BY <1>31 DEF SendCompletion, TypeOK, WorkerTypeOK
<1>32. ASSUME NEW w \in Worker, NotifyFails(w) PROVE LockInv'
  BY <1>32 DEF NotifyFails, TypeOK, WorkerTypeOK
<1>33. ASSUME NEW w \in Worker, AbortOnFinish(w) PROVE LockInv'
  BY <1>33 DEF AbortOnFinish, WorkerDies, TypeOK, WorkerTypeOK
<1>34. ASSUME NEW w \in Worker, HandlerLock(w) PROVE LockInv'
  BY <1>34 DEF HandlerLock, MutexFree, TypeOK, WorkerTypeOK
<1>35. ASSUME NEW w \in Worker, HandlerApply(w) PROVE LockInv'
  BY <1>35 DEF HandlerApply, Known, TypeOK, WorkerTypeOK
<1>36. CASE UNCHANGED vars BY <1>36
<1> QED BY <1>1, <1>2, <1>3, <1>4, <1>5, <1>6, <1>7, <1>8, <1>9, <1>10, <1>11, <1>12, <1>13, <1>14, <1>15, <1>16, <1>17, <1>18, <1>19, <1>20, <1>21, <1>22, <1>23, <1>24, <1>25, <1>26, <1>27, <1>28, <1>29, <1>30, <1>31, <1>32, <1>33, <1>34, <1>35, <1>36 DEF Next, MasterStep, WorkerStep, NetworkStep, FaultStep

(* task_mutex excludes schedule and the handlers from each other, and the  *)
(* task that schedule is handing out stays queued until the call returns.  *)
THEOREM LockCorrect == Spec => []LockInv
<1>1. Init => LockInv BY DEF Init, LockInv, InHandler
<1>2. TypeOK /\ LockInv /\ [Next]_vars => LockInv' BY StepLock
<1> QED BY <1>1, <1>2, TypeCorrect, PTL DEF Spec

(* A step that leaves tasks_ alone un-completes nothing *)
LEMMA SameTasksCompletedStep ==
  ASSUME TypeOK, UNCHANGED tasks PROVE CompletedStep
<1>1. \A i \in DOMAIN tasks : tasks[i].outs \in Seq(Completion) BY TaskAt DEF TypeOK
<1> QED BY <1>1 DEF CompletedStep, Extends

(* Every step satisfies CompletedStep; LockInv is what makes it true of    *)
(* ReplyOk: the task it sets running is queued, not completed.             *)
LEMMA StepCompleted == TypeOK /\ LockInv /\ [Next]_vars => CompletedStep
<1> SUFFICES ASSUME TypeOK, LockInv, [Next]_vars PROVE CompletedStep OBVIOUS
<1>1. CASE UNCHANGED tasks BY <1>1, SameTasksCompletedStep
<1>2. CASE Bootstrap \/ Regroup \/ JobEnd
  BY <1>2 DEF Bootstrap, Regroup, JobEnd, CompletedStep, Unlocked
<1>3. CASE MasterDies BY <1>3 DEF MasterDies, CompletedStep
<1>4. CASE ReplyOk
  <2>1. tasks[cur].status = "queued" /\ cur \in DOMAIN tasks
    BY <1>4 DEF ReplyOk, LockInv, TypeOK, CallsTypeOK
  <2>2. tasks \in Seq(TaskState) BY DEF TypeOK, MasterTypeOK
  <2>3. SUFFICES ASSUME NEW i \in DOMAIN tasks
                 PROVE  /\ i \in DOMAIN tasks'
                        /\ tasks[i].status = "completed" => tasks'[i].status = "completed"
                        /\ Extends(tasks'[i].outs, tasks[i].outs)
    BY DEF CompletedStep
  <2>4. tasks[i].outs \in Seq(Completion) /\ tasks[i] \in TaskState BY TaskAt DEF TypeOK
  <2>5. tasks'[i].outs = tasks[i].outs /\ i \in DOMAIN tasks'
    BY <1>4, <2>1, <2>2, <2>4 DEF ReplyOk, TaskState
  <2>6. tasks[i].status = "completed" => tasks'[i].status = "completed"
    BY <1>4, <2>1, <2>2, <2>4 DEF ReplyOk, TaskState
  <2> QED BY <2>4, <2>5, <2>6 DEF Extends
<1>5. ASSUME NEW w \in Worker, HandlerApply(w), call[w] = "locked" PROVE CompletedStep
  <2> DEFINE t == wtask[w].tid
             c == CompletionOf(wtask[w])
  <2>1. t \in DOMAIN tasks BY <1>5 DEF HandlerApply, Known
  <2>2. c \in Completion
    BY <1>5, CompletionOfType DEF HandlerApply, TypeOK, CallsTypeOK, Holding
  <2>3. tasks' = [tasks EXCEPT ![t].status = "completed", ![t].outs = Append(@, c)]
    BY <1>5 DEF HandlerApply
  <2>4. SUFFICES ASSUME NEW i \in DOMAIN tasks
                 PROVE  /\ i \in DOMAIN tasks'
                        /\ tasks[i].status = "completed" => tasks'[i].status = "completed"
                        /\ Extends(tasks'[i].outs, tasks[i].outs)
    BY DEF CompletedStep
  <2>5. tasks[i].outs \in Seq(Completion) /\ tasks[i] \in TaskState BY TaskAt DEF TypeOK
  <2> HIDE DEF t, c
  <2>6. CASE i = t
    <3>1. tasks'[i].outs = Append(tasks[i].outs, c) BY <2>3, <2>5, <2>6 DEF TaskState
    <3>2. tasks'[i].status = "completed" BY <2>3, <2>5, <2>6 DEF TaskState
    <3>3. Extends(tasks'[i].outs, tasks[i].outs)
      BY <2>2, <2>5, <3>1, AppendProperties DEF Extends
    <3> QED BY <2>3, <3>2, <3>3
  <2>7. CASE i # t
    <3>1. tasks'[i] = tasks[i] /\ i \in DOMAIN tasks' BY <2>3, <2>7
    <3> QED BY <2>5, <3>1 DEF Extends
  <2> QED BY <2>6, <2>7
<1> QED
  BY <1>1, <1>2, <1>3, <1>4, <1>5
     DEF Next, MasterStep, WorkerStep, NetworkStep, FaultStep,
         MasterStart, GetNextJob, PollIdle, Populate, PopulateRetry, PopulateAbort,
         LockScan, Trigger, ReplyFail, ScanEnd, Check, RpcRefused, MasterCrash,
         LoseReply, RaceCrash, RpcDeliver, LoseCompletion, WorkerCrash, WorkerDies,
         Expire, HandlerFault, Register, Serve, Accept, AcceptOrphan,
         UploadIntermediate, UploadFinal, SendCompletion, NotifyFails, AbortOnFinish,
         HandlerLock, HandlerApply

(* Within a phase, a completed task stays completed and its outputs are    *)
(* only appended to.                                                       *)
THEOREM CompletedStaysCorrect == Spec => CompletedStays
<1>1. TypeOK /\ LockInv /\ [Next]_vars => [CompletedStep]_vars BY StepCompleted
<1> QED BY <1>1, TypeCorrect, LockCorrect, PTL DEF Spec, CompletedStays
-----------------------------------------------------------------------------
(***************************************************************************)
(* InputsUploaded of MapReduce.  FilesInv follows a file from the upload   *)
(* (nup counts the uploads of the task in hand) through the completion,    *)
(* outs of a map task and ins of a reduce task, to the message that        *)
(* carries the reduce task to a worker.  Nothing is ever deleted from the  *)
(* store, so what is known of one place carries over to the next.          *)
(***************************************************************************)

(* The strengthened invariant implies the property *)
LEMMA FilesImplyUploaded == FilesInv => InputsUploaded
BY DEF FilesInv, InputsUploaded, TaskFiles, WorkerFiles, MsgFiles, InputsStored

(* The invariant holds initially *)
LEMMA InitFiles == Init => FilesInv
BY DEF Init, FilesInv, WorkerFiles, Holding

(* The inputs of the task that execute_task carries are in the store *)
LEMMA MsgInStore == ASSUME TypeOK, FilesInv, rpc # "none" PROVE MsgFiles(blobs, final, Msg)
<1>1. pc = "rpc" /\ cur \in DOMAIN tasks BY DEF TypeOK, CallsTypeOK
<1>2. TaskFiles(cur) BY <1>1 DEF FilesInv
<1> QED BY <1>2 DEF TaskFiles, MsgFiles, Msg, InputsStored

(* A step that touches no task, worker or file keeps the invariant *)
LEMMA FilesFrame ==
  ASSUME FilesInv,
         UNCHANGED <<tasks, phase, wpc, wtask, nup, orphans, call, blobs, final>>
  PROVE  FilesInv'
BY DEF FilesInv, TaskFiles, WorkerFiles, Holding, OutputsStored, InputsStored, Stored

(* Uploads only add to the store: from b to b2 and from f to f2 *)
Grows(b, b2, f, f2) ==
    /\ b \subseteq b2
    /\ \A j \in Job, t \in 1 .. NumReducers : f[j][t] # NoFile => f2[j][t] # NoFile

(* A completion stays in a store that grows *)
LEMMA InStoreGrows ==
  ASSUME NEW b, NEW b2, NEW f, NEW f2, Grows(b, b2, f, f2),
         NEW c \in Completion, InStore(b, f, c)
  PROVE  InStore(b2, f2, c)
BY DEF Grows, InStore, Completion

(* So does a list of completions *)
LEMMA ListGrows ==
  ASSUME NEW b, NEW b2, NEW f, NEW f2, Grows(b, b2, f, f2),
         NEW list \in Seq(Completion), ListInStore(b, f, list)
  PROVE  ListInStore(b2, f2, list)
<1>1. \A n \in DOMAIN list : list[n] \in Completion OBVIOUS
<1> QED BY <1>1, InStoreGrows DEF ListInStore

(* So do the inputs of a task *)
LEMMA InputsGrow ==
  ASSUME NEW b, NEW b2, NEW f, NEW f2, Grows(b, b2, f, f2),
         NEW list \in Seq(Seq(Completion)), InputsInStore(b, f, list)
  PROVE  InputsInStore(b2, f2, list)
<1>1. \A n \in DOMAIN list : list[n] \in Seq(Completion)
  <2> DEFINE S == Seq(Completion)
  <2>1. list \in Seq(S) OBVIOUS
  <2> HIDE DEF S
  <2>2. \A n \in DOMAIN list : list[n] \in S BY <2>1
  <2> QED BY <2>2 DEF S
<1> QED BY <1>1, ListGrows DEF InputsInStore

(* So do the inputs of a task message *)
LEMMA MsgGrows ==
  ASSUME NEW b, NEW b2, NEW f, NEW f2, Grows(b, b2, f, f2),
         NEW m \in TaskMsg, MsgFiles(b, f, m)
  PROVE  MsgFiles(b2, f2, m)
<1>1. m.ins \in Seq(Seq(Completion)) BY DEF TaskMsg
<1> QED BY <1>1, InputsGrow DEF MsgFiles

(* An upload keeps what is known of the tasks of the master *)
LEMMA TasksGrow ==
  ASSUME TypeOK, Grows(blobs, blobs', final, final'), UNCHANGED <<tasks, phase>>,
         NEW i \in DOMAIN tasks, TaskFiles(i)
  PROVE  TaskFiles(i)'
<1>1. tasks[i].outs \in Seq(Completion) /\ tasks[i].ins \in Seq(Seq(Completion))
  BY TaskAt DEF TypeOK
<1> QED BY <1>1, ListGrows, InputsGrow DEF TaskFiles, OutputsStored, InputsStored

(* An upload keeps what is known of the workers that do not move *)
LEMMA WorkerGrows ==
  ASSUME TypeOK, Grows(blobs, blobs', final, final'), NEW v \in Worker, WorkerFiles(v),
         UNCHANGED <<wpc[v], wtask[v], nup[v], orphans[v], call[v]>>
  PROVE  WorkerFiles(v)'
<1>1. Holding(v) => wtask[v] \in TaskMsg BY DEF TypeOK, CallsTypeOK
<1>2. \A n \in DOMAIN orphans[v] : orphans[v][n] \in TaskMsg
  <2>1. orphans[v] \in Seq(TaskMsg) BY DEF TypeOK, WorkerTypeOK
  <2> QED BY <2>1
<1>3. Holding(v)' => MsgFiles(blobs, final, wtask[v])'
  BY <1>1, MsgGrows DEF WorkerFiles, Holding
<1>4. (\A n \in DOMAIN orphans[v] : MsgFiles(blobs, final, orphans[v][n]))'
  BY <1>2, MsgGrows DEF WorkerFiles
<1>5. Holding(v) /\ Stored(CompletionOf(wtask[v])) => Stored(CompletionOf(wtask[v]))'
  BY <1>1, CompletionOfType, InStoreGrows DEF Stored
<1> QED BY <1>3, <1>4, <1>5 DEF WorkerFiles, Holding, Grows

(* The death of a master keeps the invariant *)
LEMMA MasterDiesFiles == ASSUME TypeOK, FilesInv, MasterDies PROVE FilesInv'
<1>1. \A i \in DOMAIN tasks' : TaskFiles(i)' BY DEF MasterDies
<1>2. ASSUME NEW w \in Worker PROVE WorkerFiles(w)'
  <2>1. WorkerFiles(w) BY DEF FilesInv
  <2>2. \A n \in DOMAIN orphans'[w] : MsgFiles(blobs, final, orphans'[w][n])
    <3>1. CASE ~CallQueuedAt(w) BY <2>1, <3>1 DEF MasterDies, WorkerFiles
    <3>2. CASE CallQueuedAt(w)
      <4>1. MsgFiles(blobs, final, Msg) /\ Msg \in TaskMsg
        BY <3>2, MsgInStore, MsgType DEF CallQueuedAt
      <4>2. orphans'[w] = Append(orphans[w], Msg) BY <3>2 DEF MasterDies
      <4>3. orphans[w] \in Seq(TaskMsg) BY DEF TypeOK, WorkerTypeOK
      <4> QED BY <2>1, <4>1, <4>2, <4>3, AppendProperties DEF WorkerFiles
    <3> QED BY <3>1, <3>2
  <2> QED BY <2>1, <2>2 DEF MasterDies, WorkerFiles, Holding, Stored
<1> QED BY <1>1, <1>2 DEF FilesInv

(* The death of a worker keeps the invariant *)
LEMMA WorkerDiesFiles ==
  ASSUME TypeOK, FilesInv, NEW w \in Worker, WorkerDies(w) PROVE FilesInv'
<1>1. \A i \in DOMAIN tasks' : TaskFiles(i)'
  BY DEF WorkerDies, FilesInv, TaskFiles, OutputsStored, InputsStored
<1>2. ASSUME NEW v \in Worker PROVE WorkerFiles(v)'
  <2>1. WorkerFiles(v) BY DEF FilesInv
  <2>2. CASE v # w
    BY <2>1, <2>2 DEF WorkerDies, WorkerFiles, Holding, Stored, TypeOK, WorkerTypeOK
  <2>3. CASE v = w
    <3>1. wpc'[w] = "dead" /\ nup'[w] = 0 /\ orphans'[w] = << >>
      BY DEF WorkerDies, TypeOK, WorkerTypeOK
    <3>2. CASE call[w] # "none" /\ UNCHANGED <<call, wtask>>
      BY <2>1, <2>3, <3>1, <3>2 DEF WorkerDies, WorkerFiles, Holding, Stored
    <3>3. CASE call'[w] = "none"
      BY <2>3, <3>1, <3>3 DEF WorkerFiles, Holding
    <3> QED BY <3>2, <3>3 DEF WorkerDies, TypeOK, WorkerTypeOK
  <2> QED BY <2>2, <2>3
<1> QED BY <1>1, <1>2 DEF FilesInv

(* Every step keeps the invariant: one step of the proof per action *)
LEMMA StepFiles == TypeOK /\ LockInv /\ FilesInv /\ [Next]_vars => FilesInv'
<1> SUFFICES ASSUME TypeOK, LockInv, FilesInv, [Next]_vars PROVE FilesInv' OBVIOUS
<1>1. CASE UNCHANGED <<tasks, phase, wpc, wtask, nup, orphans, call, blobs, final>>
  BY <1>1, FilesFrame
<1>2. CASE MasterDies BY <1>2, MasterDiesFiles
<1>3. ASSUME NEW w \in Worker, WorkerDies(w) PROVE FilesInv'
  BY <1>3, WorkerDiesFiles
<1>4. ASSUME UNCHANGED <<wpc, wtask, nup, orphans, blobs, final>>,
             UNCHANGED call \/ MayDetach
      PROVE  \A w \in Worker : WorkerFiles(w)'
  <2> SUFFICES ASSUME NEW w \in Worker PROVE WorkerFiles(w)' OBVIOUS
  <2>1. WorkerFiles(w) BY DEF FilesInv
  <2>2. call'[w] # "none" => call[w] # "none"
    BY <1>4 DEF MayDetach, TypeOK, WorkerTypeOK
  <2> QED BY <1>4, <2>1, <2>2 DEF WorkerFiles, Holding, Stored
<1>5. CASE Bootstrap
  <2>1. tasks \in Seq(TaskState) /\ MapTasks \in Seq(TaskState)
    BY MapTasksType DEF TypeOK, MasterTypeOK
  <2>2. ASSUME NEW i \in DOMAIN tasks' PROVE TaskFiles(i)'
    <3>1. tasks' = tasks \o MapTasks /\ phase' = "map" /\ UNCHANGED blobVars
      BY <1>5 DEF Bootstrap
    <3>2. CASE i \in DOMAIN tasks
      <4>1. tasks'[i] = tasks[i] BY <2>1, <3>1, <3>2, ConcatProperties
      <4> QED BY <3>1, <3>2, <4>1
              DEF FilesInv, TaskFiles, OutputsStored, InputsStored, ReduceTask
    <3>3. CASE i \notin DOMAIN tasks
      <4>1. tasks'[i] = NewTask(0, << >>)
        <5>1. i \in 1 .. Len(tasks) + Len(MapTasks) BY <2>1, <2>2, <3>1, ConcatProperties
        <5>2. i - Len(tasks) \in 1 .. Len(MapTasks) BY <2>1, <3>3, <5>1
        <5>3. tasks'[i] = MapTasks[i - Len(tasks)]
          BY <2>1, <3>1, <3>3, <5>1, ConcatProperties
        <5> QED BY <2>1, <5>2, <5>3 DEF MapTasks
      <4> QED BY <3>1, <4>1 DEF NewTask, TaskFiles, OutputsStored, InputsStored,
                                ListInStore, InputsInStore, ReduceTask
    <3> QED BY <3>2, <3>3
  <2> QED BY <1>4, <1>5, <2>2 DEF Bootstrap, FilesInv
<1>6. CASE ReplyOk
  <2>1. cur \in DOMAIN tasks BY <1>6 DEF ReplyOk, TypeOK, CallsTypeOK
  <2>2. \A i \in DOMAIN tasks : tasks[i] \in TaskState BY TaskAt DEF TypeOK
  <2>3. /\ DOMAIN tasks' = DOMAIN tasks
        /\ \A i \in DOMAIN tasks : /\ tasks'[i].outs = tasks[i].outs
                                   /\ tasks'[i].ins = tasks[i].ins
                                   /\ tasks'[i].red = tasks[i].red
    BY <1>6, <2>1, <2>2 DEF ReplyOk, TaskState
  <2>4. \A i \in DOMAIN tasks' : TaskFiles(i)'
    BY <1>6, <2>3 DEF ReplyOk, FilesInv, TaskFiles, OutputsStored, InputsStored
  <2> QED BY <1>4, <1>6, <2>4 DEF ReplyOk, FilesInv
<1>7. CASE Regroup
  <2> DEFINE found == {r \in 1 .. NumReducers : \E t \in DOMAIN tasks :
                        \E n \in DOMAIN tasks[t].outs : NamesReducer(tasks[t].outs[n], r)}
             lists == [t \in 1 .. Len(tasks) |-> tasks[t].outs]
  <2>1. Cardinality(found) \in Nat /\ Cardinality(found) <= NumReducers
    <3>1. IsFiniteSet(1 .. NumReducers) /\ Cardinality(1 .. NumReducers) = NumReducers
      BY FS_Interval
    <3>2. IsFiniteSet(found) /\ Cardinality(found) <= Cardinality(1 .. NumReducers)
      BY <3>1, FS_Subset
    <3> QED BY <3>1, <3>2, FS_CardinalityType
  <2>2. PICK ids \in [1 .. Cardinality(found) -> found] :
          tasks' = [n \in 1 .. Cardinality(found) |-> NewTask(ids[n], lists)]
    BY <1>7, Zenon DEF Regroup
  <2>3. InputsInStore(blobs, final, lists)
    <3>1. \A t \in 1 .. Len(tasks) : ListInStore(blobs, final, tasks[t].outs)
      BY DEF FilesInv, TaskFiles, OutputsStored, TypeOK, MasterTypeOK
    <3> QED BY <3>1 DEF InputsInStore
  <2>4. phase' = "reduce" /\ UNCHANGED blobVars BY <1>7 DEF Regroup
  <2>5. ASSUME NEW n \in DOMAIN tasks' PROVE TaskFiles(n)'
    <3>1. n \in 1 .. Cardinality(found) BY <2>2
    <3>2. ids[n] \in 1 .. NumReducers BY <2>2, <3>1
    <3>3. n \in 1 .. NumReducers BY <2>1, <3>1
    <3> HIDE DEF found, lists
    <3>4. tasks'[n] = NewTask(ids[n], lists) BY <2>2, <3>1
    <3>5. tasks'[n].outs = << >> /\ tasks'[n].ins = lists /\ tasks'[n].red = ids[n]
      BY <3>4 DEF NewTask
    <3> QED BY <2>3, <2>4, <3>2, <3>3, <3>5
            DEF TaskFiles, OutputsStored, InputsStored, ListInStore, ReduceTask
  <2> QED BY <1>4, <1>7, <2>5 DEF Regroup, FilesInv
<1>8. CASE JobEnd
  BY <1>4, <1>8 DEF JobEnd, FilesInv
<1>9. ASSUME LoseReply, rpc = "queued" PROVE FilesInv'
  <2>1. \A i \in DOMAIN tasks' : TaskFiles(i)'
    BY <1>9 DEF LoseReply, FilesInv, TaskFiles, OutputsStored, InputsStored
  <2>2. ASSUME NEW w \in Worker PROVE WorkerFiles(w)'
    <3>1. WorkerFiles(w) BY DEF FilesInv
    <3>2. \A n \in DOMAIN orphans'[w] : MsgFiles(blobs, final, orphans'[w][n])
      <4>1. MsgFiles(blobs, final, Msg) /\ Msg \in TaskMsg
        BY <1>9, MsgInStore, MsgType
      <4>2. orphans'[w] = Append(orphans[w], Msg) \/ orphans'[w] = orphans[w]
        BY <1>9 DEF LoseReply
      <4>3. orphans[w] \in Seq(TaskMsg) BY DEF TypeOK, WorkerTypeOK
      <4> QED BY <3>1, <4>1, <4>2, <4>3, AppendProperties DEF WorkerFiles
    <3> QED BY <1>9, <3>1, <3>2 DEF LoseReply, WorkerFiles, Holding, Stored
  <2> QED BY <2>1, <2>2 DEF FilesInv
<1>10. ASSUME NEW w \in Worker, UNCHANGED <<tasks, phase, blobs, final>>,
              \A v \in Worker \ {w} :
                UNCHANGED <<wpc[v], wtask[v], nup[v], orphans[v], call[v]>>,
              WorkerFiles(w)'
       PROVE  FilesInv'
  <2>1. \A i \in DOMAIN tasks' : TaskFiles(i)'
    BY <1>10 DEF FilesInv, TaskFiles, OutputsStored, InputsStored
  <2>2. \A v \in Worker : WorkerFiles(v)'
    BY <1>10 DEF FilesInv, WorkerFiles, Holding, Stored
  <2> QED BY <2>1, <2>2 DEF FilesInv
<1>11. ASSUME NEW w \in Worker, Register(w) PROVE FilesInv'
  <2> USE <1>11 DEF Register
  <2>1. WorkerFiles(w)'
    BY DEF FilesInv, WorkerFiles, Holding, Stored, TypeOK, WorkerTypeOK, CallsTypeOK
  <2> QED BY <1>10, <2>1 DEF TypeOK, WorkerTypeOK
<1>12. ASSUME NEW w \in Worker, Serve(w) PROVE FilesInv'
  <2> USE <1>12 DEF Serve
  <2>1. WorkerFiles(w)'
    BY DEF FilesInv, WorkerFiles, Holding, Stored, TypeOK, WorkerTypeOK, CallsTypeOK
  <2> QED BY <1>10, <2>1 DEF TypeOK, WorkerTypeOK
<1>13. ASSUME NEW w \in Worker, Accept(w) PROVE FilesInv'
  <2> USE <1>13 DEF Accept
  <2>1. MsgFiles(blobs, final, Msg) BY MsgInStore DEF CallQueuedAt
  <2>2. nup[w] = 0 /\ call[w] = "none"
    BY DEF FilesInv, WorkerFiles, TypeOK, CallsTypeOK
  <2>3. WorkerFiles(w)'
    BY <2>1, <2>2 DEF FilesInv, WorkerFiles, Holding, Stored, TypeOK, WorkerTypeOK
  <2> QED BY <1>10, <2>3 DEF TypeOK, WorkerTypeOK
<1>14. ASSUME NEW w \in Worker, AcceptOrphan(w) PROVE FilesInv'
  <2> USE <1>14 DEF AcceptOrphan
  <2>1. orphans[w] \in Seq(TaskMsg) BY DEF TypeOK, WorkerTypeOK
  <2>2. Head(orphans[w]) = orphans[w][1] /\ 1 \in DOMAIN orphans[w] BY <2>1
  <2>3. MsgFiles(blobs, final, Head(orphans[w])) BY <2>2 DEF FilesInv, WorkerFiles
  <2>4. \A n \in DOMAIN Tail(orphans[w]) :
          Tail(orphans[w])[n] = orphans[w][n + 1] /\ n + 1 \in DOMAIN orphans[w]
    BY <2>1
  <2>5. orphans'[w] = Tail(orphans[w]) BY DEF TypeOK, WorkerTypeOK
  <2>6. \A n \in DOMAIN orphans'[w] : MsgFiles(blobs, final, orphans'[w][n])
    BY <2>4, <2>5 DEF FilesInv, WorkerFiles
  <2>7. nup[w] = 0 /\ call[w] = "none"
    BY DEF FilesInv, WorkerFiles, TypeOK, CallsTypeOK
  <2>8. WorkerFiles(w)'
    BY <2>3, <2>6, <2>7 DEF FilesInv, WorkerFiles, Holding, Stored, TypeOK, WorkerTypeOK
  <2> QED BY <1>10, <2>8 DEF TypeOK, WorkerTypeOK
<1>15. ASSUME NEW w \in Worker, UploadIntermediate(w) PROVE FilesInv'
  <2> USE <1>15 DEF UploadIntermediate
  <2>1. Grows(blobs, blobs', final, final') BY DEF Grows
  <2>2. \A i \in DOMAIN tasks' : TaskFiles(i)' BY <2>1, TasksGrow DEF FilesInv
  <2>3. \A v \in Worker \ {w} : WorkerFiles(v)'
    BY <2>1, WorkerGrows DEF FilesInv, TypeOK, WorkerTypeOK
  <2>4. WorkerFiles(w)'
    <3>1. WorkerFiles(w) /\ call[w] = "none" /\ nup[w] \in 0 .. NumReducers
      BY DEF FilesInv, TypeOK, CallsTypeOK, WorkerTypeOK
    <3>2. wtask[w] \in TaskMsg /\ orphans[w] \in Seq(TaskMsg)
      BY DEF TypeOK, CallsTypeOK, WorkerTypeOK, Holding
    <3>3. MsgFiles(blobs', final', wtask[w])
      BY <2>1, <3>1, <3>2, MsgGrows DEF WorkerFiles, Holding
    <3>4. \A n \in DOMAIN orphans[w] : MsgFiles(blobs', final', orphans[w][n])
      BY <2>1, <3>1, <3>2, MsgGrows DEF WorkerFiles
    <3>5. nup'[w] = nup[w] + 1 BY DEF TypeOK, WorkerTypeOK
    <3>6. \A r \in 1 .. nup'[w] : Blob(wtask[w], r) \in blobs'
      BY <3>1, <3>5 DEF WorkerFiles
    <3> QED BY <3>1, <3>3, <3>4, <3>6 DEF WorkerFiles, Holding
  <2> QED BY <2>2, <2>3, <2>4 DEF FilesInv
<1>16. ASSUME NEW w \in Worker, UploadFinal(w) PROVE FilesInv'
  <2> USE <1>16 DEF UploadFinal
  <2> DEFINE new == [red |-> wtask[w].red, ins |-> wtask[w].ins]
  <2>1. wtask[w] \in TaskMsg /\ orphans[w] \in Seq(TaskMsg)
    BY DEF TypeOK, CallsTypeOK, WorkerTypeOK, Holding
  <2>2. WorkerFiles(w) /\ call[w] = "none" BY DEF FilesInv, TypeOK, CallsTypeOK
  <2>3. wtask[w].tid \in 1 .. NumReducers /\ wtask[w].red # 0 /\ wtask[w].job \in Job
    BY <2>1, <2>2 DEF WorkerFiles, Holding, MsgFiles, ReduceTask, TaskMsg
  <2>4. new # NoFile BY <2>3 DEF NoFile
  <2>5. /\ final'[wtask[w].job][wtask[w].tid] = new
        /\ \A j \in Job, t \in 1 .. NumReducers :
             final'[j][t] = new \/ final'[j][t] = final[j][t]
    <3> HIDE DEF new
    <3>1. final' = [final EXCEPT ![wtask[w].job][wtask[w].tid] = new] BY DEF new
    <3>2. \A j \in Job : j \in DOMAIN final /\ DOMAIN final[j] = 1 .. NumReducers
      BY DEF TypeOK, StoreTypeOK
    <3> QED BY <2>3, <3>1, <3>2
  <2>6. Grows(blobs, blobs', final, final') BY <2>4, <2>5 DEF Grows
  <2>7. \A i \in DOMAIN tasks' : TaskFiles(i)' BY <2>6, TasksGrow DEF FilesInv
  <2>8. \A v \in Worker \ {w} : WorkerFiles(v)'
    BY <2>6, WorkerGrows DEF FilesInv, TypeOK, WorkerTypeOK
  <2>9. MsgFiles(blobs', final', wtask[w])
    BY <2>1, <2>2, <2>6, MsgGrows DEF WorkerFiles, Holding
  <2>10. \A n \in DOMAIN orphans[w] : MsgFiles(blobs', final', orphans[w][n])
    BY <2>1, <2>2, <2>6, MsgGrows DEF WorkerFiles
  <2>11. InStore(blobs', final', CompletionOf(wtask[w]))
    BY <2>3, <2>4, <2>5 DEF InStore, CompletionOf
  <2>12. WorkerFiles(w)'
    BY <2>2, <2>9, <2>10, <2>11 DEF WorkerFiles, Holding, Stored
  <2> QED BY <2>7, <2>8, <2>12 DEF FilesInv
<1>17. ASSUME NEW w \in Worker, SendCompletion(w) PROVE FilesInv'
  <2> USE <1>17 DEF SendCompletion
  <2>1. wtask[w] \in TaskMsg BY DEF TypeOK, CallsTypeOK, Holding
  <2>2. WorkerFiles(w) /\ call[w] = "none" BY DEF FilesInv, TypeOK, CallsTypeOK
  <2>3. Stored(CompletionOf(wtask[w]))
    <3>1. CASE wtask[w].type = "map"
      <4>1. \A r \in 1 .. NumReducers : Blob(wtask[w], r) \in blobs
        BY <2>2, <3>1 DEF WorkerFiles, UploadsDone
      <4> QED BY <3>1, <4>1 DEF Stored, InStore, CompletionOf, Blob
    <3>2. CASE wtask[w].type = "reduce"
      BY <2>2, <3>2 DEF WorkerFiles, UploadsDone
    <3> QED BY <2>1, <3>1, <3>2 DEF TaskMsg, TaskType
  <2>4. WorkerFiles(w)'
    BY <2>2, <2>3 DEF WorkerFiles, Holding, Stored, TypeOK, WorkerTypeOK
  <2> QED BY <1>10, <2>4 DEF TypeOK, WorkerTypeOK
<1>18. ASSUME NEW w \in Worker, LoseCompletion(w) PROVE FilesInv'
  <2> USE <1>18 DEF LoseCompletion
  <2>1. WorkerFiles(w)'
    BY DEF FilesInv, WorkerFiles, Holding, Stored, TypeOK, WorkerTypeOK, CallsTypeOK
  <2> QED BY <1>10, <2>1 DEF TypeOK, WorkerTypeOK
<1>19. ASSUME NEW w \in Worker, NotifyFails(w) PROVE FilesInv'
  <2> USE <1>19 DEF NotifyFails
  <2>1. WorkerFiles(w)'
    BY DEF FilesInv, WorkerFiles, Holding, Stored, TypeOK, WorkerTypeOK, CallsTypeOK
  <2> QED BY <1>10, <2>1 DEF TypeOK, WorkerTypeOK
<1>20. ASSUME NEW w \in Worker, HandlerLock(w) PROVE FilesInv'
  <2> USE <1>20 DEF HandlerLock
  <2>1. WorkerFiles(w)'
    BY DEF FilesInv, WorkerFiles, Holding, Stored, TypeOK, WorkerTypeOK, CallsTypeOK
  <2> QED BY <1>10, <2>1 DEF TypeOK, WorkerTypeOK
<1>21. ASSUME NEW w \in Worker, HandlerApply(w) PROVE FilesInv'
  <2> DEFINE t == wtask[w].tid
             c == CompletionOf(wtask[w])
  <2>1. call[w] # "none" /\ wtask[w] \in TaskMsg /\ WorkerFiles(w)
    BY <1>21 DEF HandlerApply, TypeOK, CallsTypeOK, Holding, FilesInv
  <2>2. InStore(blobs, final, c) /\ c \in Completion
    BY <2>1, CompletionOfType DEF WorkerFiles, Stored
  <2>3. \A i \in DOMAIN tasks' : TaskFiles(i)'
    <3>1. CASE call[w] = "detached"
      BY <1>21, <3>1 DEF HandlerApply, FilesInv, TaskFiles, OutputsStored, InputsStored
    <3>2. CASE call[w] = "locked"
      <4>1. t \in DOMAIN tasks /\ UNCHANGED <<phase, blobs, final>>
        BY <1>21, <3>2 DEF HandlerApply, Known
      <4>2. tasks' = [tasks EXCEPT ![t].status = "completed", ![t].outs = Append(@, c)]
        BY <1>21, <3>2 DEF HandlerApply
      <4> SUFFICES ASSUME NEW i \in DOMAIN tasks' PROVE TaskFiles(i)' OBVIOUS
      <4> HIDE DEF t, c
      <4>3. i \in DOMAIN tasks BY <4>2
      <4>4. tasks[i] \in TaskState /\ tasks[i].outs \in Seq(Completion) /\ TaskFiles(i)
        BY <4>3, TaskAt DEF TypeOK, FilesInv
      <4>5. CASE i # t
        <5>1. tasks'[i] = tasks[i] BY <4>2, <4>3, <4>5
        <5> QED BY <4>1, <4>4, <5>1 DEF TaskFiles, OutputsStored, InputsStored
      <4>6. CASE i = t
        <5>1. /\ tasks'[i].outs = Append(tasks[i].outs, c)
              /\ tasks'[i].ins = tasks[i].ins /\ tasks'[i].red = tasks[i].red
          BY <4>2, <4>3, <4>4, <4>6 DEF TaskState
        <5>2. ListInStore(blobs, final, tasks'[i].outs)
          BY <2>2, <4>4, <5>1, AppendProperties DEF TaskFiles, OutputsStored, ListInStore
        <5> QED BY <4>1, <4>4, <5>1, <5>2 DEF TaskFiles, OutputsStored, InputsStored
      <4> QED BY <4>5, <4>6
    <3> QED BY <1>21, <3>1, <3>2 DEF HandlerApply
  <2>4. \A v \in Worker \ {w} : WorkerFiles(v)'
    BY <1>21 DEF HandlerApply, FilesInv, WorkerFiles, Holding, Stored, TypeOK, WorkerTypeOK
  <2>5. WorkerFiles(w)'
    BY <1>21, <2>1
       DEF HandlerApply, WorkerFiles, Holding, Stored, TypeOK, WorkerTypeOK, CallsTypeOK
  <2> QED BY <2>3, <2>4, <2>5 DEF FilesInv
<1> QED
  BY <1>1, <1>2, <1>3, <1>5, <1>6, <1>7, <1>8, <1>9, <1>11, <1>12, <1>13, <1>14, <1>15,
     <1>16, <1>17, <1>18, <1>19, <1>20, <1>21
     DEF Next, MasterStep, WorkerStep, NetworkStep, FaultStep,
         MasterStart, GetNextJob, PollIdle, Populate, PopulateRetry, PopulateAbort,
         LockScan, Trigger, ReplyFail, ScanEnd, Check, RpcRefused, MasterCrash,
         LoseReply, RaceCrash, RpcDeliver, WorkerCrash, Expire, HandlerFault, AbortOnFinish

(* What completions, tasks and messages name has been uploaded, for any    *)
(* number of workers, shards, reducers and faults.                         *)
THEOREM FilesCorrect == Spec => []FilesInv
<1>1. Init => FilesInv BY InitFiles
<1>2. TypeOK /\ LockInv /\ FilesInv /\ [Next]_vars => FilesInv' BY StepFiles
<1> QED BY <1>1, <1>2, TypeCorrect, LockCorrect, PTL DEF Spec

(* The save_blob calls of reduce find their files: every completion on     *)
(* record names files that are in the blob store.                          *)
THEOREM InputsUploadedCorrect == Spec => []InputsUploaded
<1>1. FilesInv => InputsUploaded BY FilesImplyUploaded
<1> QED BY <1>1, FilesCorrect, PTL

-----------------------------------------------------------------------------
(***************************************************************************)
(* UnlockedWritesAlone, MutualWaitNeedsFault, BusyMatchesRunning,          *)
(* ImplementsBoard, StrandedByLoss and AbandonedByLoss of MapReduce.       *)
(*                                                                         *)
(* LinkInv ties what a worker holds to the master's tables: a task of the  *)
(* current master is a task of the current phase, running and with a busy  *)
(* entry of its own, or the one whose answer is under way.  ExactInv       *)
(* follows the shards from there through outputs, inputs and messages to   *)
(* the final files.  LossInv and EntryInv count the tasks and the entries  *)
(* of workers_ for which nobody is left to report.                         *)
(***************************************************************************)

-----------------------------------------------------------------------------
(* Who holds which task *)

(* The worker's task is one of the current master *)
Mine(w) == wtask[w] # NoTask /\ wtask[w].inc = inc
Answered(w) == rpc = "ok" /\ wtask[w].tid = cur /\ wtask[w].wid = target
Origin(w) ==
    /\ wtask[w] # NoTask => wtask[w].inc <= inc
    /\ \A n \in DOMAIN orphans[w] : orphans[w][n].inc < inc
    /\ call[w] # "none" => Mine(w) /\ call[w] # "detached"
Linked(w) == Mine(w) =>
    /\ pc \in {"lock", "scan", "rpc", "check"}
    /\ wtask[w].job = job /\ wtask[w].type = phase
    /\ wtask[w].tid \in DOMAIN tasks /\ wtask[w].wid \in DOMAIN workers
    /\ workers[wtask[w].wid].host = HostOf[w]
    /\ \/ Answered(w)
       \/ /\ tasks[wtask[w].tid].status = "running"
          /\ workers[wtask[w].wid].status = "busy"
Apart(v, w) == Mine(v) /\ Mine(w) /\ v # w =>
    wtask[v].tid # wtask[w].tid /\ wtask[v].wid # wtask[w].wid
Tables ==
    /\ pc \in {"down", "poll", "populate", "bootstrap"} => tasks = << >>
    /\ pc = "rpc" => workers[target].status = "idle"
    /\ (pc = "check" /\ allDone) \/ pc \in {"regroup", "end"} => AllCompleted
Links == /\ \A w \in Worker : Origin(w) /\ Linked(w)
         /\ \A v, w \in Worker : Apart(v, w)
         /\ Tables
LinkInv == ~tainted => Links

(* Without a task nobody holds one *)
LEMMA InitLink == Init => LinkInv
BY DEF Init, LinkInv, Links, Origin, Linked, Apart, Tables, Mine

(* A step that touches nothing of this keeps it *)
LEMMA LinkFrame ==
  ASSUME LinkInv, tainted => tainted',
         UNCHANGED <<pc, inc, job, phase, tasks, workers, cur, target, allDone, rpc,
                     wtask, orphans, call>>
  PROVE  LinkInv'
BY DEF LinkInv, Links, Origin, Linked, Apart, Tables, Mine, Answered, AllCompleted

(* Outside of schedule no worker has a task of the current master, and so  *)
(* no completion is under way.                                             *)
LEMMA NobodyMine ==
  ASSUME TypeOK, Links, pc \notin {"lock", "scan", "rpc", "check"}
  PROVE  \A w \in Worker : ~Mine(w) /\ call[w] = "none"
BY DEF Links, Origin, Linked

(* A master that dies leaves tasks of the past only *)
LEMMA MasterDiesLink == ASSUME TypeOK, LinkInv, MasterDies, tainted => tainted' PROVE LinkInv'
<1> SUFFICES ASSUME ~tainted' PROVE Links' BY DEF LinkInv
<1>1. Links BY DEF LinkInv
<1>2. inc \in Nat /\ inc' = inc + 1 BY DEF MasterDies, TypeOK, MasterTypeOK
<1>3. ASSUME NEW w \in Worker PROVE Origin(w)' /\ ~Mine(w)'
  <2>1. Origin(w) /\ orphans[w] \in Seq(TaskMsg) /\ wtask[w] \in TaskMsg \cup {NoTask}
    BY <1>1 DEF Links, TypeOK, WorkerTypeOK
  <2>2. wtask'[w] = wtask[w] /\ call'[w] = "none" BY DEF MasterDies
  <2>3. wtask[w] # NoTask => wtask[w].inc \in Nat BY <2>1 DEF TaskMsg
  <2>4. \A n \in DOMAIN orphans'[w] : orphans'[w][n].inc < inc'
    <3>0. \A n \in DOMAIN orphans[w] : orphans[w][n].inc \in Nat /\ orphans[w][n].inc < inc
      <4>1. \A n \in DOMAIN orphans[w] : orphans[w][n] \in TaskMsg BY <2>1
      <4> QED BY <2>1, <4>1 DEF Origin, TaskMsg
    <3>1. CASE ~CallQueuedAt(w)
      <4>1. orphans'[w] = orphans[w] BY <3>1 DEF MasterDies
      <4> QED BY <1>2, <3>0, <4>1
    <3>2. CASE CallQueuedAt(w)
      <4>1. orphans'[w] = Append(orphans[w], Msg) BY <3>2 DEF MasterDies
      <4>2. Msg \in TaskMsg BY <3>2, MsgType DEF CallQueuedAt
      <4>3. Msg.inc = inc BY DEF Msg
      <4> QED BY <1>2, <2>1, <3>0, <4>1, <4>2, <4>3, AppendProperties
    <3> QED BY <3>1, <3>2
  <2> QED BY <1>2, <2>1, <2>2, <2>3, <2>4 DEF Origin, Mine
<1>4. Tables' BY DEF MasterDies, Tables, AllCompleted
<1> QED BY <1>3, <1>4 DEF Links, Linked, Apart

(* A worker that dies takes its task with it, or leaves a report behind *)
LEMMA WorkerDiesLink ==
  ASSUME TypeOK, LinkInv, NEW w \in Worker, WorkerDies(w), UNCHANGED tainted PROVE LinkInv'
<1> SUFFICES ASSUME ~tainted' PROVE Links' BY DEF LinkInv
<1>1. Links BY DEF LinkInv
<1>2. UNCHANGED <<pc, inc, job, phase, tasks, workers, cur, target, allDone>>
      /\ (rpc = "ok" <=> rpc' = "ok")
  BY DEF WorkerDies, CallQueuedAt
<1>3. ASSUME NEW v \in Worker
      PROVE  /\ wtask'[v] = wtask[v] \/ (wtask'[v] = NoTask /\ call'[v] = "none")
             /\ orphans'[v] = orphans[v] \/ orphans'[v] = << >>
             /\ call'[v] = call[v] \/ call'[v] = "none"
  BY DEF WorkerDies, TypeOK, WorkerTypeOK
<1>4. \A v \in Worker : Origin(v)' BY <1>1, <1>2, <1>3 DEF Links, Origin, Mine
<1>5. \A v \in Worker : Linked(v)'
  BY <1>1, <1>2, <1>3 DEF Links, Linked, Mine, Answered
<1>6. \A u, v \in Worker : Apart(u, v)' BY <1>1, <1>2, <1>3 DEF Links, Apart, Mine
<1>7. Tables' BY <1>1, <1>2 DEF Links, Tables, AllCompleted
<1> QED BY <1>4, <1>5, <1>6, <1>7 DEF Links

(* Each position of workers_ holds an entry *)
LEMMA EntryAt ==
  ASSUME MasterTypeOK, NEW k \in DOMAIN workers
  PROVE  workers[k] \in [host : Host, status : {"idle", "busy"}]
<1> DEFINE Entry == [host : Host, status : {"idle", "busy"}]
<1>1. workers \in Seq(Entry) BY DEF MasterTypeOK
<1>2. workers[k] \in Entry
  <2> HIDE DEF Entry
  <2> QED BY <1>1
<1> QED BY <1>2

(* Every step keeps the links: one step of the proof per action *)
LEMMA StepLink == TypeOK /\ LockInv /\ LinkInv /\ [Next]_vars => LinkInv'
<1> SUFFICES ASSUME TypeOK, LockInv, LinkInv, [Next]_vars PROVE LinkInv' OBVIOUS
<1>0. SUFFICES ASSUME ~tainted', UNCHANGED tainted PROVE LinkInv'
  <2>1. tainted => tainted'
    BY DEF Next, MasterStep, WorkerStep, NetworkStep, FaultStep,
         MasterStart, GetNextJob, PollIdle, Populate, PopulateRetry, PopulateAbort,
         Bootstrap, LockScan, Trigger, ReplyOk, ReplyFail, ScanEnd, Check, Regroup, JobEnd,
         RpcRefused, MasterCrash, LoseReply, RaceCrash, RpcDeliver, LoseCompletion,
         WorkerCrash, Expire, HandlerFault, Register, Serve, Accept, AcceptOrphan,
         UploadIntermediate, UploadFinal, SendCompletion, NotifyFails, AbortOnFinish,
         HandlerLock, HandlerApply
  <2>2. tainted \in BOOLEAN /\ tainted' \in BOOLEAN
    BY StepType DEF TypeOK, StoreTypeOK
  <2> QED BY <2>1, <2>2 DEF LinkInv
<1>l. Links BY <1>0 DEF LinkInv
<1>m. Links' => LinkInv' BY DEF LinkInv
<1>1. CASE MasterStart
  <2>1. \A w \in Worker : ~Mine(w) /\ call[w] = "none" BY <1>1, <1>l, NobodyMine DEF MasterStart
  <2> QED BY <1>1, <1>l, <1>m, <2>1 DEF MasterStart, Links, Origin, Linked, Apart, Tables, Mine
<1>2. CASE GetNextJob
  <2>1. \A w \in Worker : ~Mine(w) /\ call[w] = "none" BY <1>2, <1>l, NobodyMine DEF GetNextJob
  <2> QED BY <1>2, <1>l, <1>m, <2>1 DEF GetNextJob, Links, Origin, Linked, Apart, Tables, Mine
<1>4. CASE Populate
  <2>1. \A w \in Worker : ~Mine(w) /\ call[w] = "none" BY <1>4, <1>l, NobodyMine DEF Populate
  <2> QED BY <1>4, <1>l, <1>m, <2>1 DEF Populate, Links, Origin, Linked, Apart, Tables, Mine
<1>5. CASE PopulateRetry
  <2>1. \A w \in Worker : ~Mine(w) /\ call[w] = "none" BY <1>5, <1>l, NobodyMine DEF PopulateRetry
  <2> QED BY <1>5, <1>l, <1>m, <2>1 DEF PopulateRetry, Links, Origin, Linked, Apart, Tables, Mine
<1>6. CASE PopulateAbort
  <2>1. \A w \in Worker : ~Mine(w) /\ call[w] = "none" BY <1>6, <1>l, NobodyMine DEF PopulateAbort
  <2> QED BY <1>6, <1>l, <1>m, <2>1 DEF PopulateAbort, Links, Origin, Linked, Apart, Tables, Mine
<1>7. CASE Bootstrap
  <2>1. \A w \in Worker : ~Mine(w) /\ call[w] = "none" BY <1>7, <1>l, NobodyMine DEF Bootstrap
  <2> QED BY <1>7, <1>l, <1>m, <2>1 DEF Bootstrap, Links, Origin, Linked, Apart, Tables, Mine
<1>8. CASE LockScan
  <2>1. rpc = "none" BY <1>8 DEF LockScan, TypeOK, CallsTypeOK
  <2> QED BY <1>8, <1>l, <1>m, <2>1
          DEF LockScan, Links, Origin, Linked, Apart, Tables, Mine, Answered
<1>9. CASE Trigger
  <2>1. rpc = "none" BY <1>9 DEF Trigger, TypeOK, CallsTypeOK
  <2>2. workers[target'].status = "idle" BY <1>9 DEF Trigger, FirstIdle
  <2> QED BY <1>9, <1>l, <1>m, <2>1, <2>2
          DEF Trigger, Links, Origin, Linked, Apart, Tables, Mine, Answered
<1>10. CASE ReplyOk
  <2>1. cur \in DOMAIN tasks /\ target \in DOMAIN workers
    BY <1>10 DEF ReplyOk, TypeOK, CallsTypeOK
  <2>2. \A i \in DOMAIN tasks : tasks[i] \in TaskState BY TaskAt DEF TypeOK
  <2>3. \A k \in DOMAIN workers : workers[k] \in [host : Host, status : {"idle", "busy"}]
    BY EntryAt DEF TypeOK
  <2>4. /\ DOMAIN tasks' = DOMAIN tasks
        /\ \A i \in DOMAIN tasks : tasks'[i].status =
             IF i = cur THEN "running" ELSE tasks[i].status
    BY <1>10, <2>1, <2>2 DEF ReplyOk, TaskState
  <2>5. /\ DOMAIN workers' = DOMAIN workers
        /\ \A k \in DOMAIN workers :
             /\ workers'[k].host = workers[k].host
             /\ workers'[k].status = IF k = target THEN "busy" ELSE workers[k].status
    BY <1>10, <2>1, <2>3 DEF ReplyOk
  <2>6. \A w \in Worker : Origin(w)' BY <1>10, <1>l DEF ReplyOk, Links, Origin, Mine
  <2>7. ASSUME NEW w \in Worker PROVE Linked(w)'
    BY <1>10, <1>l, <2>4, <2>5 DEF ReplyOk, Links, Linked, Mine, Answered
  <2>8. \A v, w \in Worker : Apart(v, w)' BY <1>10, <1>l DEF ReplyOk, Links, Apart, Mine
  <2>9. Tables' BY <1>10 DEF ReplyOk, Tables
  <2> QED BY <1>m, <2>6, <2>7, <2>8, <2>9 DEF Links
<1>11. CASE ReplyFail
  BY <1>11, <1>l, <1>m DEF ReplyFail, Links, Origin, Linked, Apart, Tables, Mine, Answered
<1>12. CASE ScanEnd
  <2>1. rpc = "none" BY <1>12 DEF ScanEnd, TypeOK, CallsTypeOK
  <2>2. allDone' => AllCompleted' BY <1>12 DEF ScanEnd, AllCompleted
  <2> QED BY <1>12, <1>l, <1>m, <2>1, <2>2
          DEF ScanEnd, Links, Origin, Linked, Apart, Tables, Mine, Answered
<1>13. CASE Check
  <2>1. rpc = "none" BY <1>13 DEF Check, TypeOK, CallsTypeOK
  <2>2. allDone => AllCompleted BY <1>13, <1>l DEF Check, Links, Tables
  <2>3. allDone => \A w \in Worker : ~Mine(w)
    BY <1>l, <2>1, <2>2 DEF Links, Linked, Answered, AllCompleted
  <2>4. pc' \in {"regroup", "end"} => allDone BY <1>13 DEF Check
  <2>5. Tables' BY <1>13, <2>2, <2>4 DEF Check, Tables, AllCompleted
  <2> QED BY <1>13, <1>l, <1>m, <2>1, <2>3, <2>5
          DEF Check, Links, Origin, Linked, Apart, Mine, Answered
<1>14. CASE Regroup
  <2>1. \A w \in Worker : ~Mine(w) /\ call[w] = "none" BY <1>14, <1>l, NobodyMine DEF Regroup
  <2>2. UNCHANGED <<inc, wtask, orphans, call>> /\ pc' = "lock"
    BY <1>14, <2>1 DEF Regroup, MayDetach
  <2> QED BY <1>l, <1>m, <2>1, <2>2 DEF Links, Origin, Linked, Apart, Tables, Mine
<1>15. CASE JobEnd
  <2>1. \A w \in Worker : ~Mine(w) /\ call[w] = "none" BY <1>15, <1>l, NobodyMine DEF JobEnd
  <2>2. UNCHANGED <<inc, wtask, orphans, call>> /\ pc' = "poll" /\ tasks' = << >>
    BY <1>15, <2>1 DEF JobEnd, MayDetach
  <2> QED BY <1>l, <1>m, <2>1, <2>2 DEF Links, Origin, Linked, Apart, Tables, Mine
<1>16. CASE RpcRefused
  BY <1>16, <1>l, <1>m
     DEF RpcRefused, Links, Origin, Linked, Apart, Tables, Mine, Answered, AllCompleted
<1>17. CASE MasterDies BY <1>0, <1>17, MasterDiesLink
<1>18. CASE LoseReply BY <1>0, <1>18 DEF LoseReply
<1>20. ASSUME NEW w \in Worker, RpcDeliver(w) PROVE LinkInv'
  BY <1>20, <1>l, <1>m
     DEF RpcDeliver, Links, Origin, Linked, Apart, Tables, Mine, Answered, AllCompleted
<1>21. ASSUME NEW w \in Worker, LoseCompletion(w) PROVE LinkInv'
  <2>1. \A v \in Worker : call'[v] # "none" => call'[v] = call[v]
    BY <1>21 DEF LoseCompletion, TypeOK, WorkerTypeOK
  <2>2. UNCHANGED <<pc, inc, job, phase, tasks, workers, cur, target, allDone, rpc,
                    wtask, orphans>>
    BY <1>21 DEF LoseCompletion
  <2> QED BY <1>l, <1>m, <2>1, <2>2
          DEF Links, Origin, Linked, Apart, Tables, Mine, Answered, AllCompleted
<1>22. ASSUME NEW w \in Worker, WorkerDies(w) PROVE LinkInv'
  BY <1>0, <1>22, WorkerDiesLink
<1>27. ASSUME NEW w \in Worker, Accept(w) PROVE LinkInv'
  <2> USE <1>27 DEF Accept
  <2>1. Msg \in TaskMsg /\ pc = "rpc" /\ rpc = "queued" /\ call[w] = "none"
    BY MsgType DEF CallQueuedAt, TypeOK, CallsTypeOK
  <2>2. /\ cur \in DOMAIN tasks /\ tasks[cur].status = "queued"
        /\ target \in DOMAIN workers /\ workers[target].status = "idle"
        /\ workers[target].host = HostOf[w]
    BY <1>l, <2>1 DEF TypeOK, CallsTypeOK, LockInv, Links, Tables, CallQueuedAt, AtTarget
  <2>3. /\ Msg.inc = inc /\ Msg.tid = cur /\ Msg.wid = target
        /\ Msg.job = job /\ Msg.type = phase
    BY DEF Msg
  <2>4. wtask'[w] = Msg /\ \A v \in Worker \ {w} : wtask'[v] = wtask[v]
    BY DEF TypeOK, WorkerTypeOK
  <2>5. inc \in Nat BY DEF TypeOK, MasterTypeOK
  <2>6. \A v \in Worker : Origin(v)'
    BY <1>l, <2>1, <2>3, <2>4, <2>5 DEF Links, Origin, Mine
  <2>7. \A v \in Worker \ {w} : Mine(v)' =>
          /\ Mine(v)
          /\ tasks[wtask[v].tid].status = "running"
          /\ workers[wtask[v].wid].status = "busy"
    BY <1>l, <2>1, <2>4 DEF Links, Linked, Mine, Answered
  <2>8. \A v \in Worker \ {w} : Linked(v)'
    BY <1>l, <2>4, <2>7 DEF Links, Linked, Mine
  <2>9. Linked(w)' BY <2>1, <2>2, <2>3, <2>4 DEF Linked, Answered
  <2>10. \A u, v \in Worker : Apart(u, v)'
    BY <1>l, <2>2, <2>3, <2>4, <2>7 DEF Links, Apart, Mine
  <2>11. Tables' BY <1>l, <2>1 DEF Links, Tables, AllCompleted
  <2> QED BY <1>m, <2>6, <2>8, <2>9, <2>10, <2>11 DEF Links
<1>28. ASSUME NEW w \in Worker, AcceptOrphan(w) PROVE LinkInv'
  <2> USE <1>28 DEF AcceptOrphan
  <2>1. orphans[w] \in Seq(TaskMsg) BY DEF TypeOK, WorkerTypeOK
  <2>2. Head(orphans[w]) = orphans[w][1] /\ 1 \in DOMAIN orphans[w] BY <2>1
  <2>3. Head(orphans[w]).inc < inc BY <1>l, <2>2 DEF Links, Origin
  <2>4. \A n \in DOMAIN Tail(orphans[w]) :
          Tail(orphans[w])[n] = orphans[w][n + 1] /\ n + 1 \in DOMAIN orphans[w]
    BY <2>1
  <2>5. /\ orphans'[w] = Tail(orphans[w]) /\ wtask'[w] = Head(orphans[w])
        /\ \A v \in Worker \ {w} : orphans'[v] = orphans[v] /\ wtask'[v] = wtask[v]
    BY DEF TypeOK, WorkerTypeOK
  <2>6. Head(orphans[w]).inc \in Nat /\ inc \in Nat
    <3>1. orphans[w][1] \in TaskMsg BY <2>1, <2>2
    <3> QED BY <2>2, <3>1 DEF TaskMsg, TypeOK, MasterTypeOK
  <2>7. ~Mine(w)' BY <2>3, <2>5, <2>6 DEF Mine
  <2>8. call[w] = "none" BY DEF TypeOK, CallsTypeOK
  <2>9. Origin(w)' BY <1>l, <2>3, <2>4, <2>5, <2>6, <2>8 DEF Links, Origin
  <2>10. \A v \in Worker \ {w} : Origin(v)' BY <1>l, <2>5 DEF Links, Origin, Mine
  <2>11. \A v \in Worker : Linked(v)' BY <1>l, <2>5, <2>7 DEF Links, Linked, Mine, Answered
  <2>12. \A u, v \in Worker : Apart(u, v)' BY <1>l, <2>5, <2>7 DEF Links, Apart, Mine
  <2>13. Tables' BY <1>l DEF Links, Tables, AllCompleted
  <2> QED BY <1>m, <2>9, <2>10, <2>11, <2>12, <2>13 DEF Links
<1>31. ASSUME NEW w \in Worker, SendCompletion(w) PROVE LinkInv'
  <2> USE <1>31 DEF SendCompletion
  <2>1. wtask[w] \in TaskMsg BY DEF TypeOK, CallsTypeOK, Holding
  <2>2. wtask[w] # NoTask
    <3>1. wtask[w].type \in TaskType BY <2>1 DEF TaskMsg
    <3> QED BY <3>1 DEF NoTask, TaskType
  <2>3. call'[w] # "none" => Mine(w) /\ call'[w] # "detached"
    BY <1>0, <1>l, <2>2 DEF TypeOK, WorkerTypeOK, CallsTypeOK, Mine
  <2>4. \A v \in Worker \ {w} : call'[v] = call[v] BY DEF TypeOK, WorkerTypeOK
  <2>5. \A v \in Worker : Origin(v)' BY <1>l, <2>3, <2>4 DEF Links, Origin, Mine
  <2> QED BY <1>l, <1>m, <2>5 DEF Links, Linked, Apart, Tables, Mine, Answered, AllCompleted
<1>32. ASSUME NEW w \in Worker, NotifyFails(w) PROVE LinkInv'
  <2>1. \A v \in Worker : (wtask'[v] = NoTask /\ call'[v] = "none") \/ wtask'[v] = wtask[v]
    BY <1>32 DEF NotifyFails, TypeOK, WorkerTypeOK
  <2>2. UNCHANGED <<pc, inc, job, phase, tasks, workers, cur, target, allDone, rpc,
                    call, orphans>>
    BY <1>32 DEF NotifyFails
  <2>3. \A v \in Worker : Origin(v)' BY <1>l, <2>1, <2>2 DEF Links, Origin, Mine
  <2>4. \A v \in Worker : Linked(v)' BY <1>l, <2>1, <2>2 DEF Links, Linked, Mine, Answered
  <2>5. \A u, v \in Worker : Apart(u, v)' BY <1>l, <2>1, <2>2 DEF Links, Apart, Mine
  <2>6. Tables' BY <1>l, <2>2 DEF Links, Tables, AllCompleted
  <2> QED BY <1>m, <2>3, <2>4, <2>5, <2>6 DEF Links
<1>34. ASSUME NEW w \in Worker, HandlerLock(w) PROVE LinkInv'
  <2>1. \A v \in Worker : call'[v] = call[v] \/ (v = w /\ call[v] # "none" /\ call'[v] = "locked")
    BY <1>34 DEF HandlerLock, TypeOK, WorkerTypeOK
  <2>2. UNCHANGED <<pc, inc, job, phase, tasks, workers, cur, target, allDone, rpc,
                    wtask, orphans>>
    BY <1>34 DEF HandlerLock
  <2>3. \A v \in Worker : Origin(v)' BY <1>l, <2>1, <2>2 DEF Links, Origin, Mine
  <2> QED BY <1>l, <1>m, <2>2, <2>3
          DEF Links, Linked, Apart, Tables, Mine, Answered, AllCompleted
<1>35. ASSUME NEW w \in Worker, HandlerApply(w) PROVE LinkInv'
  <2> DEFINE t == wtask[w].tid
             k == wtask[w].wid
             c == CompletionOf(wtask[w])
  <2>1. Mine(w) /\ call[w] = "locked" BY <1>35, <1>l DEF HandlerApply, Links, Origin
  <2>2. pc # "rpc" /\ rpc = "none"
    BY <2>1 DEF LockInv, InHandler, TypeOK, CallsTypeOK
  <2>3. t \in DOMAIN tasks /\ k \in DOMAIN workers
    BY <1>l, <2>1 DEF Links, Linked
  <2>4. \A i \in DOMAIN tasks : tasks[i] \in TaskState BY TaskAt DEF TypeOK
  <2>5. \A h \in DOMAIN workers : workers[h] \in [host : Host, status : {"idle", "busy"}]
    BY EntryAt DEF TypeOK
  <2>6. /\ tasks' = [tasks EXCEPT ![t].status = "completed", ![t].outs = Append(@, c)]
        /\ workers' = [workers EXCEPT ![k].status = "idle"]
    BY <1>35, <2>1 DEF HandlerApply
  <2>7. /\ DOMAIN tasks' = DOMAIN tasks
        /\ \A i \in DOMAIN tasks : tasks'[i].status =
             IF i = t THEN "completed" ELSE tasks[i].status
    <3> HIDE DEF t, c
    <3> QED BY <2>3, <2>4, <2>6 DEF TaskState
  <2>8. /\ DOMAIN workers' = DOMAIN workers
        /\ \A h \in DOMAIN workers :
             /\ workers'[h].host = workers[h].host
             /\ workers'[h].status = IF h = k THEN "idle" ELSE workers[h].status
    <3> HIDE DEF k
    <3> QED BY <2>3, <2>5, <2>6
  <2>9. /\ wtask'[w] = NoTask /\ call'[w] = "none"
        /\ \A v \in Worker \ {w} : wtask'[v] = wtask[v] /\ call'[v] = call[v]
        /\ UNCHANGED <<pc, inc, job, phase, cur, target, allDone, rpc, orphans>>
    BY <1>35 DEF HandlerApply, TypeOK, WorkerTypeOK
  <2>10. \A v \in Worker : Origin(v)' BY <1>l, <2>9 DEF Links, Origin, Mine
  <2>11. ASSUME NEW v \in Worker, Mine(v)' PROVE Linked(v)'
    <3>1. v # w /\ Mine(v) /\ wtask'[v] = wtask[v] BY <2>9, <2>11 DEF Mine
    <3>2. wtask[v].tid # t /\ wtask[v].wid # k BY <1>l, <2>1, <3>1 DEF Links, Apart
    <3> HIDE DEF t, k
    <3> QED BY <1>l, <2>2, <2>7, <2>8, <2>9, <3>1, <3>2 DEF Links, Linked, Answered
  <2>12. \A u, v \in Worker : Apart(u, v)' BY <1>l, <2>9 DEF Links, Apart, Mine
  <2>13. Tables'
    <3>1. AllCompleted => AllCompleted' BY <2>7 DEF AllCompleted
    <3>2. tasks # << >> BY <2>3
    <3> QED BY <1>l, <2>2, <2>9, <3>1, <3>2 DEF Links, Tables
  <2> QED BY <1>m, <2>10, <2>11, <2>12, <2>13 DEF Links, Linked
<1>36. CASE UNCHANGED <<pc, inc, job, phase, tasks, workers, cur, target, allDone, rpc,
                        wtask, orphans, call>>
  BY <1>0, <1>36, LinkFrame
<1> QED
  BY <1>1, <1>2, <1>4, <1>5, <1>6, <1>7, <1>8, <1>9, <1>10, <1>11, <1>12, <1>13, <1>14,
     <1>15, <1>16, <1>17, <1>18, <1>20, <1>21, <1>22, <1>27, <1>28, <1>31, <1>32, <1>34,
     <1>35, <1>36
     DEF Next, MasterStep, WorkerStep, NetworkStep, FaultStep, PollIdle, MasterCrash,
         RaceCrash, WorkerCrash, Expire, HandlerFault, Register, Serve,
         UploadIntermediate, UploadFinal, AbortOnFinish

(* A worker's task of the current master is a task of its tables, in every *)
(* reachable state of an untainted run.                                    *)
THEOREM LinkCorrect == Spec => []LinkInv
<1>1. Init => LinkInv BY InitLink
<1>2. TypeOK /\ LockInv /\ LinkInv /\ [Next]_vars => LinkInv' BY StepLink
<1> QED BY <1>1, <1>2, TypeCorrect, LockCorrect, PTL DEF Spec

(* The steps that write tasks_ and workers_ without task_mutex overlap     *)
(* with no task_complete call, for any number of workers and any faults,   *)
(* as long as no reply was lost and no dead master's task was reported to  *)
(* a live one.                                                             *)
THEOREM UnlockedWritesAloneCorrect == Spec => []UnlockedWritesAlone
<1>1. TypeOK /\ LinkInv => UnlockedWritesAlone
  BY NobodyMine DEF LinkInv, UnlockedWritesAlone, Unlocked
<1> QED BY <1>1, TypeCorrect, LinkCorrect, PTL

(* schedule and a worker's task_complete wait for each other only when an  *)
(* address is listed twice, a reply was lost, or a dead master's task was  *)
(* reported to a live one; otherwise the scan calls no worker at work.     *)
THEOREM MutualWaitNeedsFaultCorrect == Spec => []MutualWaitNeedsFault
<1>1. TypeOK /\ LinkInv => MutualWaitNeedsFault
  <2> SUFFICES ASSUME TypeOK, LinkInv, ~tainted, DistinctHosts,
                      NEW w \in Worker, CallQueuedAt(w), call[w] = "sent"
               PROVE  FALSE
    BY DEF MutualWaitNeedsFault, MutualWait
  <2>1. Mine(w) /\ Linked(w) /\ Tables BY DEF LinkInv, Links, Origin
  <2>2. pc = "rpc" /\ rpc = "queued" BY DEF CallQueuedAt, TypeOK, CallsTypeOK
  <2>3. /\ workers[wtask[w].wid].status = "busy"
        /\ workers[wtask[w].wid].host = HostOf[w] /\ wtask[w].wid \in DOMAIN workers
    BY <2>1, <2>2 DEF Linked, Answered
  <2>4. target \in DOMAIN workers /\ workers[target].host = HostOf[w]
    BY DEF CallQueuedAt, AtTarget
  <2>5. wtask[w].wid = target BY <2>3, <2>4 DEF DistinctHosts
  <2> QED BY <2>1, <2>2, <2>3, <2>5 DEF Tables
<1> QED BY <1>1, TypeCorrect, LinkCorrect, PTL

-----------------------------------------------------------------------------
(* Busy entries and running tasks *)

BusyIn(ws)    == {k \in DOMAIN ws : ws[k].status = "busy"}
RunningIn(ts) == {i \in DOMAIN ts : ts[i].status = "running"}

(* The two sets are finite *)
LEMMA BusyFinite ==
  ASSUME TypeOK
  PROVE  /\ IsFiniteSet(BusyIn(workers)) /\ Cardinality(BusyIn(workers)) \in Nat
         /\ IsFiniteSet(RunningIn(tasks)) /\ Cardinality(RunningIn(tasks)) \in Nat
<1>1. DOMAIN workers = 1 .. Len(workers) /\ Len(workers) \in Nat
      /\ DOMAIN tasks = 1 .. Len(tasks) /\ Len(tasks) \in Nat
  BY DEF TypeOK, MasterTypeOK
<1>2. IsFiniteSet(DOMAIN workers) /\ IsFiniteSet(DOMAIN tasks) BY <1>1, FS_Interval
<1>3. BusyIn(workers) \in SUBSET DOMAIN workers /\ RunningIn(tasks) \in SUBSET DOMAIN tasks
  BY DEF BusyIn, RunningIn
<1> QED BY <1>2, <1>3, FS_Subset, FS_CardinalityType

(* Every step keeps their numbers equal: both grow by one when a call is   *)
(* answered, both shrink by one when a completion is applied.              *)
LEMMA StepBusy ==
  TypeOK /\ LockInv /\ LinkInv /\ BusyMatchesRunning /\ [Next]_vars => BusyMatchesRunning'
<1> SUFFICES ASSUME TypeOK, LockInv, LinkInv, BusyMatchesRunning, [Next]_vars, ~tainted'
             PROVE  Cardinality(BusyIn(workers')) = Cardinality(RunningIn(tasks'))
  BY DEF BusyMatchesRunning, BusyIn, RunningIn
<1>0. ~tainted
  BY DEF Next, MasterStep, WorkerStep, NetworkStep, FaultStep,
       MasterStart, GetNextJob, PollIdle, Populate, PopulateRetry, PopulateAbort,
       Bootstrap, LockScan, Trigger, ReplyOk, ReplyFail, ScanEnd, Check, Regroup, JobEnd,
       RpcRefused, MasterCrash, LoseReply, RaceCrash, RpcDeliver, LoseCompletion,
       WorkerCrash, Expire, HandlerFault, Register, Serve, Accept, AcceptOrphan,
       UploadIntermediate, UploadFinal, SendCompletion, NotifyFails, AbortOnFinish,
       HandlerLock, HandlerApply
<1>e. Cardinality(BusyIn(workers)) = Cardinality(RunningIn(tasks))
  BY <1>0 DEF BusyMatchesRunning, BusyIn, RunningIn
<1>l. Links BY <1>0 DEF LinkInv
<1>f. /\ IsFiniteSet(BusyIn(workers)) /\ Cardinality(BusyIn(workers)) \in Nat
      /\ IsFiniteSet(RunningIn(tasks)) /\ Cardinality(RunningIn(tasks)) \in Nat
  BY BusyFinite
<1>z. Cardinality({}) = 0 BY FS_EmptySet
<1>1. CASE UNCHANGED <<tasks, workers>> BY <1>1, <1>e
<1>2. CASE tasks' = << >> /\ workers' = << >> BY <1>2, <1>z DEF BusyIn, RunningIn
<1>3. CASE Populate
  <2>1. tasks' = << >> BY <1>3, <1>l DEF Populate, Links, Tables
  <2>2. BusyIn(workers') = {} BY <1>3 DEF Populate, BusyIn
  <2> QED BY <2>1, <2>2, <1>z DEF RunningIn
<1>4. CASE PopulateRetry
  <2>1. tasks' = << >> BY <1>4, <1>l DEF PopulateRetry, Links, Tables
  <2> QED BY <1>4, <1>z, <2>1 DEF PopulateRetry, BusyIn, RunningIn
<1>5. CASE Bootstrap
  <2>1. tasks = << >> /\ UNCHANGED workers BY <1>5, <1>l DEF Bootstrap, Links, Tables
  <2>2. tasks' = MapTasks
    <3>1. tasks' = << >> \o MapTasks BY <1>5, <2>1 DEF Bootstrap
    <3> QED BY <3>1, MapTasksType, ConcatEmptySeq
  <2>3. RunningIn(tasks') = {} BY <2>2 DEF RunningIn, MapTasks, NewTask
  <2>4. RunningIn(tasks) = {} BY <2>1 DEF RunningIn
  <2> QED BY <1>e, <2>1, <2>3, <2>4
<1>6. CASE Regroup \/ JobEnd
  <2>1. UNCHANGED workers BY <1>6 DEF Regroup, JobEnd
  <2>2. RunningIn(tasks) = {}
    BY <1>6, <1>l DEF Regroup, JobEnd, Links, Tables, AllCompleted, RunningIn
  <2>3. RunningIn(tasks') = {}
    <3>1. CASE JobEnd BY <3>1 DEF JobEnd, RunningIn
    <3>2. CASE Regroup
      <4>1. \A i \in DOMAIN tasks' : tasks'[i].status = "queued"
        BY <3>2 DEF Regroup, NewTask
      <4> QED BY <4>1 DEF RunningIn
    <3> QED BY <1>6, <3>1, <3>2
  <2> QED BY <1>e, <2>1, <2>2, <2>3
<1>7. CASE ReplyOk
  <2>1. cur \in DOMAIN tasks /\ target \in DOMAIN workers /\ pc = "rpc"
    BY <1>7 DEF ReplyOk, TypeOK, CallsTypeOK
  <2>2. tasks[cur].status = "queued" /\ workers[target].status = "idle"
    BY <1>l, <2>1 DEF LockInv, Links, Tables
  <2>3. \A i \in DOMAIN tasks : tasks[i] \in TaskState BY TaskAt DEF TypeOK
  <2>4. \A k \in DOMAIN workers : workers[k] \in [host : Host, status : {"idle", "busy"}]
    BY EntryAt DEF TypeOK
  <2>5. /\ DOMAIN tasks' = DOMAIN tasks
        /\ \A i \in DOMAIN tasks : tasks'[i].status =
             IF i = cur THEN "running" ELSE tasks[i].status
    BY <1>7, <2>1, <2>3 DEF ReplyOk, TaskState
  <2>6. /\ DOMAIN workers' = DOMAIN workers
        /\ \A k \in DOMAIN workers :
             workers'[k].status = IF k = target THEN "busy" ELSE workers[k].status
    BY <1>7, <2>1, <2>4 DEF ReplyOk
  <2>7. RunningIn(tasks') = RunningIn(tasks) \cup {cur} /\ cur \notin RunningIn(tasks)
    BY <2>1, <2>2, <2>5 DEF RunningIn
  <2>8. BusyIn(workers') = BusyIn(workers) \cup {target} /\ target \notin BusyIn(workers)
    BY <2>1, <2>2, <2>6 DEF BusyIn
  <2>9. /\ Cardinality(RunningIn(tasks) \cup {cur}) = Cardinality(RunningIn(tasks)) + 1
        /\ Cardinality(BusyIn(workers) \cup {target}) = Cardinality(BusyIn(workers)) + 1
    BY <1>f, <2>7, <2>8, FS_AddElement, Zenon
  <2> QED BY <1>e, <2>7, <2>8, <2>9
<1>8. ASSUME NEW w \in Worker, HandlerApply(w)
      PROVE  Cardinality(BusyIn(workers')) = Cardinality(RunningIn(tasks'))
  <2> DEFINE t == wtask[w].tid
             k == wtask[w].wid
             c == CompletionOf(wtask[w])
  <2>1. Mine(w) /\ call[w] = "locked" BY <1>8, <1>l DEF HandlerApply, Links, Origin
  <2>2. pc # "rpc" /\ rpc = "none"
    BY <2>1 DEF LockInv, InHandler, TypeOK, CallsTypeOK
  <2>3. /\ t \in DOMAIN tasks /\ k \in DOMAIN workers
        /\ tasks[t].status = "running" /\ workers[k].status = "busy"
    BY <1>l, <2>1, <2>2 DEF Links, Linked, Answered
  <2>4. \A i \in DOMAIN tasks : tasks[i] \in TaskState BY TaskAt DEF TypeOK
  <2>5. \A h \in DOMAIN workers : workers[h] \in [host : Host, status : {"idle", "busy"}]
    BY EntryAt DEF TypeOK
  <2>6. /\ tasks' = [tasks EXCEPT ![t].status = "completed", ![t].outs = Append(@, c)]
        /\ workers' = [workers EXCEPT ![k].status = "idle"]
    BY <1>8, <2>1 DEF HandlerApply
  <2> HIDE DEF t, k, c
  <2>7. /\ DOMAIN tasks' = DOMAIN tasks
        /\ \A i \in DOMAIN tasks : tasks'[i].status =
             IF i = t THEN "completed" ELSE tasks[i].status
    BY <2>3, <2>4, <2>6 DEF TaskState
  <2>8. /\ DOMAIN workers' = DOMAIN workers
        /\ \A h \in DOMAIN workers :
             workers'[h].status = IF h = k THEN "idle" ELSE workers[h].status
    BY <2>3, <2>5, <2>6
  <2>9. RunningIn(tasks') = RunningIn(tasks) \ {t} /\ t \in RunningIn(tasks)
    BY <2>3, <2>7 DEF RunningIn
  <2>10. BusyIn(workers') = BusyIn(workers) \ {k} /\ k \in BusyIn(workers)
    BY <2>3, <2>8 DEF BusyIn
  <2>11. /\ Cardinality(RunningIn(tasks) \ {t}) = Cardinality(RunningIn(tasks)) - 1
         /\ Cardinality(BusyIn(workers) \ {k}) = Cardinality(BusyIn(workers)) - 1
    BY <1>f, <2>9, <2>10, FS_RemoveElement, Zenon
  <2> QED BY <1>e, <2>9, <2>10, <2>11
<1> QED
  BY <1>1, <1>2, <1>3, <1>4, <1>5, <1>6, <1>7, <1>8
     DEF Next, MasterStep, WorkerStep, NetworkStep, FaultStep, MasterDies, WorkerDies,
         MasterStart, GetNextJob, PollIdle, PopulateAbort, LockScan, Trigger, ReplyFail,
         ScanEnd, Check, RpcRefused, MasterCrash, LoseReply, RaceCrash, RpcDeliver,
         LoseCompletion, WorkerCrash, Expire, HandlerFault, Register, Serve, Accept,
         AcceptOrphan, UploadIntermediate, UploadFinal, SendCompletion, NotifyFails,
         AbortOnFinish, HandlerLock

(* As many entries of workers_ are busy as tasks are running, for any      *)
(* numbers of them, as long as no reply was lost and no dead master's task *)
(* was reported to a live one.                                             *)
THEOREM BusyMatchesRunningCorrect == Spec => []BusyMatchesRunning
<1>1. Init => BusyMatchesRunning
  <2> SUFFICES ASSUME Init PROVE BusyMatchesRunning OBVIOUS
  <2>1. tasks = << >> /\ workers = << >> BY DEF Init
  <2> QED BY <2>1 DEF BusyMatchesRunning
<1>2. TypeOK /\ LockInv /\ LinkInv /\ BusyMatchesRunning /\ [Next]_vars
        => BusyMatchesRunning'
  BY StepBusy
<1> QED BY <1>1, <1>2, TypeCorrect, LockCorrect, LinkCorrect, PTL DEF Spec

-----------------------------------------------------------------------------
(* Jobs *)

(* The job in hand is the lowest that is CREATED *)
JobInv == pc \notin {"down", "poll"} =>
    /\ job \in Job /\ jobStatus[job] = "CREATED"
    /\ \A i \in 1 .. job - 1 : jobStatus[i] # "CREATED"

(* Only the end of a job changes a status, and it lets go of the job *)
LEMMA StepJob == TypeOK /\ JobInv /\ [Next]_vars => JobInv'
<1> SUFFICES ASSUME TypeOK, JobInv, [Next]_vars PROVE JobInv' OBVIOUS
<1>1. CASE GetNextJob
  BY <1>1 DEF GetNextJob, JobInv
<1>2. CASE pc' \in {"down", "poll"} BY <1>2 DEF JobInv
<1>3. CASE pc \notin {"down", "poll"} /\ UNCHANGED <<job, jobStatus>>
  BY <1>3 DEF JobInv
<1> QED
  BY <1>1, <1>2, <1>3
     DEF Next, MasterStep, WorkerStep, NetworkStep, FaultStep, MasterDies, WorkerDies,
         MasterStart, PollIdle, Populate, PopulateRetry, PopulateAbort,
         Bootstrap, LockScan, Trigger, ReplyOk, ReplyFail, ScanEnd, Check, Regroup, JobEnd,
         RpcRefused, MasterCrash, LoseReply, RaceCrash, RpcDeliver, LoseCompletion,
         WorkerCrash, Expire, HandlerFault, Register, Serve, Accept, AcceptOrphan,
         UploadIntermediate, UploadFinal, SendCompletion, NotifyFails, AbortOnFinish,
         HandlerLock, HandlerApply

(* The job a master works on is CREATED, and none before it is *)
LEMMA JobCorrect == Spec => []JobInv
<1>1. Init => JobInv BY DEF Init, JobInv
<1>2. TypeOK /\ JobInv /\ [Next]_vars => JobInv' BY StepJob
<1> QED BY <1>1, <1>2, TypeCorrect, PTL DEF Spec

-----------------------------------------------------------------------------
(* Where a shard goes *)

MapOutput(j, t, wid) == [job |-> j, type |-> "map", wid |-> wid, tid |-> t]
ExactIns(j, ins) ==
    /\ Len(ins) = NumShards
    /\ \A t \in 1 .. NumShards : \E wid \in 1 .. Cardinality(Worker) :
         ins[t] = << MapOutput(j, t, wid) >>
ExactMsg(m) == m.type = "reduce" => m.red = m.tid /\ ExactIns(m.job, m.ins)
ExactWorker(w) == /\ wtask[w] # NoTask => ExactMsg(wtask[w])
                  /\ \A n \in DOMAIN orphans[w] : ExactMsg(orphans[w][n])

(* A task has its one output when it is completed, and none before *)
OneOutput(i) == \E wid \in 1 .. Cardinality(Worker) :
    tasks[i].outs = << [job |-> job, type |-> phase, wid |-> wid, tid |-> i] >>
ExactTask(i) ==
    /\ tasks[i].status = "completed" => OneOutput(i)
    /\ tasks[i].status # "completed" => tasks[i].outs = << >>
    /\ phase = "reduce" => tasks[i].red = i /\ ExactIns(job, tasks[i].ins)
ExactTables ==
    /\ Len(workers) <= Cardinality(Worker)
    /\ pc \in {"lock", "scan", "rpc", "check", "regroup", "end"} =>
         Len(tasks) = IF phase = "map" THEN NumShards ELSE NumReducers
    /\ pc = "regroup" => phase = "map"
    /\ pc = "end" => phase = "reduce"
ExactFile(j, r) ==
    /\ final[j][r] = NoFile \/ SumsEachShardOnce(j, r, final[j][r])
    /\ jobStatus[j] = "COMPLETED" => final[j][r] # NoFile
Shards == /\ \A w \in Worker : ExactWorker(w)
          /\ \A i \in DOMAIN tasks : ExactTask(i)
          /\ ExactTables
          /\ \A j \in Job, r \in 1 .. NumReducers : ExactFile(j, r)
ExactInv == ~tainted /\ NumShards # 0 => Shards

(* Before the first job nothing is counted *)
LEMMA InitExact == Init => ExactInv
<1> SUFFICES ASSUME Init PROVE Shards BY DEF ExactInv
<1>1. Cardinality(Worker) \in Nat BY FS_CardinalityType
<1>2. tasks = << >> /\ workers = << >> BY DEF Init
<1>3. ExactTables BY <1>1, <1>2 DEF Init, ExactTables
<1>4. \A w \in Worker : ExactWorker(w) BY DEF Init, ExactWorker
<1>5. \A j \in Job, r \in 1 .. NumReducers : ExactFile(j, r) BY DEF Init, ExactFile
<1> QED BY <1>2, <1>3, <1>4, <1>5 DEF Shards

(* A step that touches nothing of this keeps it *)
LEMMA ExactFrame ==
  ASSUME Shards,
         UNCHANGED <<pc, job, phase, tasks, workers, wtask, orphans, jobStatus, final>>
  PROVE  Shards'
BY DEF Shards, ExactWorker, ExactTask, OneOutput, ExactTables, ExactFile

(* The message of a call about an exact task is exact *)
LEMMA MsgExact == ASSUME TypeOK, Shards, rpc # "none" PROVE ExactMsg(Msg)
<1>1. cur \in DOMAIN tasks BY DEF TypeOK, CallsTypeOK
<1>2. ExactTask(cur) BY <1>1 DEF Shards
<1> QED BY <1>2 DEF ExactTask, ExactMsg, Msg

(* An increasing enumeration of 1 .. n by 1 .. n is the identity: it maps  *)
(* 1 .. k into 1 .. ids[k], and k .. n into ids[k] .. n, without repeats.  *)
LEMMA IncreasingIsIdentity ==
  ASSUME NEW n \in Nat, NEW ids \in [1 .. n -> 1 .. n],
         \A a, b \in 1 .. n : a < b => ids[a] < ids[b], NEW k \in 1 .. n
  PROVE  ids[k] = k
<1>1. k <= ids[k]
  <2> DEFINE low == [m \in 1 .. k |-> ids[m]]
  <2>1. low \in [1 .. k -> 1 .. ids[k]]
    <3>1. \A m \in 1 .. k : ids[m] \in 1 .. ids[k]
      <4> SUFFICES ASSUME NEW m \in 1 .. k PROVE ids[m] \in 1 .. ids[k] OBVIOUS
      <4> HIDE DEF low
      <4>1. m \in 1 .. n OBVIOUS
      <4>2. ids[m] \in 1 .. n /\ ids[k] \in 1 .. n BY <4>1
      <4>3. CASE m = k BY <4>2, <4>3
      <4>4. CASE m < k
        <5>1. ids[m] < ids[k] BY <4>1, <4>4
        <5> QED BY <4>2, <5>1
      <4>5. m = k \/ m < k BY <4>1
      <4> QED BY <4>3, <4>4, <4>5
    <3> QED BY <3>1
  <2>2. \A a, b \in 1 .. k : low[a] = low[b] => a = b
    <3> SUFFICES ASSUME NEW a \in 1 .. k, NEW b \in 1 .. k, ids[a] = ids[b] PROVE a = b
      OBVIOUS
    <3>1. ids[a] \in 1 .. n /\ ids[b] \in 1 .. n OBVIOUS
    <3>2. ~(a < b) /\ ~(b < a) BY <3>1
    <3> QED BY <3>2
  <2>3. low \in Injection(1 .. k, 1 .. ids[k])
    <3> HIDE DEF low
    <3> QED BY <2>1, <2>2 DEF Injection, IsInjective
  <2>4. Cardinality(1 .. k) = k /\ Cardinality(1 .. ids[k]) = ids[k]
        /\ IsFiniteSet(1 .. ids[k])
    BY FS_Interval
  <2>5. Cardinality(1 .. k) <= Cardinality(1 .. ids[k])
    <3> HIDE DEF low
    <3> QED BY <2>3, <2>4, FS_Injection
  <2> QED BY <2>4, <2>5
<1>2. ids[k] <= k
  <2> DEFINE high == [m \in k .. n |-> ids[m]]
  <2>1. high \in [k .. n -> ids[k] .. n]
    <3>1. \A m \in k .. n : ids[m] \in ids[k] .. n
      <4> SUFFICES ASSUME NEW m \in k .. n PROVE ids[m] \in ids[k] .. n OBVIOUS
      <4> HIDE DEF high
      <4>1. m \in 1 .. n OBVIOUS
      <4>2. ids[m] \in 1 .. n /\ ids[k] \in 1 .. n BY <4>1
      <4>3. CASE m = k BY <4>2, <4>3
      <4>4. CASE k < m
        <5>1. ids[k] < ids[m] BY <4>1, <4>4
        <5> QED BY <4>2, <5>1
      <4>5. m = k \/ k < m BY <4>1
      <4> QED BY <4>3, <4>4, <4>5
    <3> QED BY <3>1
  <2>2. \A a, b \in k .. n : high[a] = high[b] => a = b
    <3> SUFFICES ASSUME NEW a \in k .. n, NEW b \in k .. n, ids[a] = ids[b] PROVE a = b
      OBVIOUS
    <3>1. a \in 1 .. n /\ b \in 1 .. n OBVIOUS
    <3>2. ids[a] \in 1 .. n /\ ids[b] \in 1 .. n BY <3>1
    <3>3. ~(a < b) /\ ~(b < a) BY <3>1, <3>2
    <3> QED BY <3>3
  <2>3. high \in Injection(k .. n, ids[k] .. n)
    <3> HIDE DEF high
    <3> QED BY <2>1, <2>2 DEF Injection, IsInjective
  <2>4. /\ Cardinality(k .. n) = n - k + 1
        /\ Cardinality(ids[k] .. n) = n - ids[k] + 1 /\ IsFiniteSet(ids[k] .. n)
    BY FS_Interval
  <2>5. Cardinality(k .. n) <= Cardinality(ids[k] .. n)
    <3> HIDE DEF high
    <3> QED BY <2>3, <2>4, FS_Injection
  <2> QED BY <2>4, <2>5
<1> QED BY <1>1, <1>2

(* The death of a master keeps what is counted: the task it was handing    *)
(* out, exact as it is, may wait in a queue.                               *)
LEMMA MasterDiesExact == ASSUME TypeOK, Shards, MasterDies PROVE Shards'
<1>1. ASSUME NEW w \in Worker PROVE ExactWorker(w)'
  <2>1. ExactWorker(w) BY DEF Shards
  <2>2. \A n \in DOMAIN orphans'[w] : ExactMsg(orphans'[w][n])
    <3>1. CASE ~CallQueuedAt(w)
      <4>1. orphans'[w] = orphans[w] BY <3>1 DEF MasterDies
      <4> QED BY <2>1, <4>1 DEF ExactWorker
    <3>2. CASE CallQueuedAt(w)
      <4>1. orphans'[w] = Append(orphans[w], Msg) BY <3>2 DEF MasterDies
      <4>2. Msg \in TaskMsg /\ ExactMsg(Msg) BY <3>2, MsgType, MsgExact DEF CallQueuedAt
      <4>3. orphans[w] \in Seq(TaskMsg) BY DEF TypeOK, WorkerTypeOK
      <4> QED BY <2>1, <4>1, <4>2, <4>3, AppendProperties DEF ExactWorker
    <3> QED BY <3>1, <3>2
  <2> QED BY <2>1, <2>2 DEF MasterDies, ExactWorker
<1>2. \A j \in Job, r \in 1 .. NumReducers : ExactFile(j, r)'
  BY DEF MasterDies, Shards, ExactFile
<1>3. Len(<< >>) = 0 /\ Cardinality(Worker) \in Nat BY FS_CardinalityType
<1>4. ExactTables' BY <1>3 DEF MasterDies, ExactTables
<1>5. \A i \in DOMAIN tasks' : ExactTask(i)' BY DEF MasterDies
<1> QED BY <1>1, <1>2, <1>4, <1>5 DEF Shards

(* When all map tasks are completed, every reducer's files are found and   *)
(* reduce task r sums, for each shard, the one output there is.            *)
LEMMA RegroupExact ==
  ASSUME TypeOK, Links, Shards, NumShards # 0, Regroup
  PROVE  /\ Len(tasks') = NumReducers
         /\ \A i \in DOMAIN tasks' : ExactTask(i)'
<1> DEFINE found == {r \in 1 .. NumReducers : \E t \in DOMAIN tasks :
                      \E n \in DOMAIN tasks[t].outs : NamesReducer(tasks[t].outs[n], r)}
           lists == [t \in 1 .. Len(tasks) |-> tasks[t].outs]
<1>1. phase = "map" /\ Len(tasks) = NumShards /\ DOMAIN tasks = 1 .. NumShards
  BY DEF Regroup, Shards, ExactTables, TypeOK, MasterTypeOK
<1>2. \A t \in 1 .. NumShards : OneOutput(t)
  BY <1>1 DEF Regroup, Links, Tables, AllCompleted, Shards, ExactTask
<1>3. ExactIns(job, lists)
  <2>1. Len(lists) = NumShards BY <1>1
  <2>2. \A t \in 1 .. NumShards : \E wid \in 1 .. Cardinality(Worker) :
          lists[t] = << MapOutput(job, t, wid) >>
    <3> SUFFICES ASSUME NEW t \in 1 .. NumShards
                 PROVE  \E wid \in 1 .. Cardinality(Worker) :
                          lists[t] = << MapOutput(job, t, wid) >>
      BY Zenon
    <3>1. lists[t] = tasks[t].outs BY <1>1
    <3>2. PICK wid \in 1 .. Cardinality(Worker) :
            tasks[t].outs = << [job |-> job, type |-> phase, wid |-> wid, tid |-> t] >>
      BY <1>2, Zenon DEF OneOutput
    <3>3. lists[t] = << MapOutput(job, t, wid) >> BY <1>1, <3>1, <3>2, Zenon DEF MapOutput
    <3> QED BY <3>3, Zenon
  <2> HIDE DEF lists
  <2> QED BY <2>1, <2>2 DEF ExactIns
<1>4. found = 1 .. NumReducers
  <2>1. PICK wid \in 1 .. Cardinality(Worker) : tasks[1].outs = << MapOutput(job, 1, wid) >>
    <3>1. 1 \in 1 .. NumShards OBVIOUS
    <3>2. OneOutput(1) BY <1>2, <3>1, Zenon
    <3> QED BY <1>1, <3>2, Zenon DEF OneOutput, MapOutput
  <2>2. 1 \in DOMAIN tasks[1].outs /\ tasks[1].outs[1].type = "map"
    BY <2>1 DEF MapOutput
  <2>3. 1 \in DOMAIN tasks BY <1>1
  <2> QED BY <2>2, <2>3 DEF NamesReducer
<1>5. Cardinality(found) = NumReducers
  <2>1. NumReducers \in Nat /\ 1 \in Nat BY SizeAssumption
  <2>2. Cardinality(1 .. NumReducers) = NumReducers BY <2>1, FS_Interval
  <2> HIDE DEF found
  <2> QED BY <1>4, <2>2
<1>6. PICK ids \in [1 .. Cardinality(found) -> found] :
        /\ \A a, b \in 1 .. Cardinality(found) : a < b => ids[a] < ids[b]
        /\ tasks' = [n \in 1 .. Cardinality(found) |-> NewTask(ids[n], lists)]
  BY Zenon DEF Regroup
<1>7. \A n \in 1 .. NumReducers : ids[n] = n
  <2> HIDE DEF found
  <2> QED BY <1>4, <1>5, <1>6, IncreasingIsIdentity
<1>8. tasks' = [n \in 1 .. NumReducers |-> NewTask(n, lists)]
  <2> HIDE DEF found, lists
  <2> QED BY <1>5, <1>6, <1>7
<1>9. Len(tasks') = NumReducers BY <1>8
<1>10. ASSUME NEW i \in DOMAIN tasks' PROVE ExactTask(i)'
  <2> HIDE DEF lists
  <2>1. tasks'[i] = NewTask(i, lists) BY <1>8
  <2>2. /\ tasks'[i].status = "queued" /\ tasks'[i].outs = << >>
        /\ tasks'[i].red = i /\ tasks'[i].ins = lists
    BY <2>1 DEF NewTask
  <2>3. job' = job BY DEF Regroup
  <2> QED BY <1>3, <2>2, <2>3 DEF ExactTask
<1> QED BY <1>9, <1>10

(* Every step keeps the count: one step of the proof per action *)
LEMMA StepExact ==
  TypeOK /\ LockInv /\ FilesInv /\ LinkInv /\ ExactInv /\ [Next]_vars => ExactInv'
<1> SUFFICES ASSUME TypeOK, LockInv, FilesInv, LinkInv, ExactInv, [Next]_vars,
                    ~tainted', NumShards # 0
             PROVE  Shards'
  BY DEF ExactInv
<1>0. ~tainted
  BY DEF Next, MasterStep, WorkerStep, NetworkStep, FaultStep,
       MasterStart, GetNextJob, PollIdle, Populate, PopulateRetry, PopulateAbort,
       Bootstrap, LockScan, Trigger, ReplyOk, ReplyFail, ScanEnd, Check, Regroup, JobEnd,
       RpcRefused, MasterCrash, LoseReply, RaceCrash, RpcDeliver, LoseCompletion,
       WorkerCrash, Expire, HandlerFault, Register, Serve, Accept, AcceptOrphan,
       UploadIntermediate, UploadFinal, SendCompletion, NotifyFails, AbortOnFinish,
       HandlerLock, HandlerApply
<1>l. Links BY <1>0 DEF LinkInv
<1>s. Shards BY <1>0 DEF ExactInv
<1>c. Cardinality(Worker) \in Nat BY FS_CardinalityType
<1>w. UNCHANGED <<wtask, orphans>> => \A w \in Worker : ExactWorker(w)'
  BY <1>s DEF Shards, ExactWorker
<1>t. UNCHANGED <<tasks, job, phase>> => \A i \in DOMAIN tasks' : ExactTask(i)'
  BY <1>s DEF Shards, ExactTask, OneOutput
<1>f. UNCHANGED <<jobStatus, final>> => \A j \in Job, r \in 1 .. NumReducers : ExactFile(j, r)'
  BY <1>s DEF Shards, ExactFile
<1>1. CASE MasterStart \/ LockScan \/ Trigger \/ ReplyFail \/ ScanEnd \/ Check
  <2>1. ExactTables'
    BY <1>1, <1>s
       DEF MasterStart, LockScan, Trigger, ReplyFail, ScanEnd, Check, Shards, ExactTables
  <2> QED BY <1>1, <1>w, <1>t, <1>f, <2>1
          DEF MasterStart, LockScan, Trigger, ReplyFail, ScanEnd, Check, Shards
<1>2. CASE GetNextJob \/ PopulateAbort
  <2>1. tasks' = << >> BY <1>2, <1>l DEF GetNextJob, PopulateAbort, Links, Tables
  <2>2. ExactTables' BY <1>2, <1>s DEF GetNextJob, PopulateAbort, Shards, ExactTables
  <2> QED BY <1>2, <1>w, <1>f, <2>1, <2>2 DEF GetNextJob, PopulateAbort, Shards
<1>3. CASE Populate
  <2>1. /\ Len(workers') = Cardinality(registry)
        /\ Cardinality(registry) <= Cardinality(Worker)
    <3>1. registry \in SUBSET Worker BY DEF TypeOK, StoreTypeOK
    <3>2. Cardinality(registry) \in Nat /\ Cardinality(registry) <= Cardinality(Worker)
      BY <3>1, FS_Subset, FS_CardinalityType
    <3> QED BY <1>3, <3>2 DEF Populate
  <2>2. ExactTables' BY <1>3, <2>1 DEF Populate, ExactTables
  <2> QED BY <1>3, <1>w, <1>t, <1>f, <2>2 DEF Populate, Shards
<1>4. CASE PopulateRetry
  <2>1. ExactTables' BY <1>4, <1>c DEF PopulateRetry, ExactTables
  <2> QED BY <1>4, <1>w, <1>t, <1>f, <2>1 DEF PopulateRetry, Shards
<1>5. CASE Bootstrap
  <2>1. tasks' = MapTasks
    <3>1. tasks' = << >> \o MapTasks BY <1>5, <1>l DEF Bootstrap, Links, Tables
    <3> QED BY <3>1, MapTasksType, ConcatEmptySeq
  <2>2. ExactTables' BY <1>5, <1>s, <2>1 DEF Bootstrap, Shards, ExactTables, MapTasks
  <2>3. phase' = "map" BY <1>5 DEF Bootstrap
  <2>4. \A i \in DOMAIN tasks' : ExactTask(i)'
    BY <2>1, <2>3 DEF MapTasks, NewTask, ExactTask
  <2> QED BY <1>5, <1>w, <1>f, <2>2, <2>4 DEF Bootstrap, Shards
<1>6. CASE ReplyOk
  <2>1. cur \in DOMAIN tasks /\ target \in DOMAIN workers /\ pc = "rpc"
    BY <1>6 DEF ReplyOk, TypeOK, CallsTypeOK
  <2>2. tasks[cur].status = "queued" BY <2>1 DEF LockInv
  <2>3. \A i \in DOMAIN tasks : tasks[i] \in TaskState BY TaskAt DEF TypeOK
  <2>4. /\ DOMAIN tasks' = DOMAIN tasks
        /\ \A i \in DOMAIN tasks :
             /\ tasks'[i].status = IF i = cur THEN "running" ELSE tasks[i].status
             /\ tasks'[i].outs = tasks[i].outs
             /\ tasks'[i].ins = tasks[i].ins /\ tasks'[i].red = tasks[i].red
    BY <1>6, <2>1, <2>3 DEF ReplyOk, TaskState
  <2>5. \A i \in DOMAIN tasks' : ExactTask(i)'
    <3> SUFFICES ASSUME NEW i \in DOMAIN tasks PROVE ExactTask(i)' BY <2>4
    <3>1. ExactTask(i) /\ job' = job /\ phase' = phase
      BY <1>6, <1>s DEF ReplyOk, Shards
    <3>2. /\ tasks'[i].status = IF i = cur THEN "running" ELSE tasks[i].status
          /\ tasks'[i].outs = tasks[i].outs
          /\ tasks'[i].ins = tasks[i].ins /\ tasks'[i].red = tasks[i].red
      BY <2>4
    <3>3. CASE i = cur BY <2>2, <3>1, <3>2, <3>3 DEF ExactTask, OneOutput
    <3>4. CASE i # cur BY <3>1, <3>2, <3>4 DEF ExactTask, OneOutput
    <3> QED BY <3>3, <3>4
  <2>6. Len(tasks') = Len(tasks) /\ Len(workers') = Len(workers)
    BY <1>6 DEF ReplyOk, TypeOK, MasterTypeOK
  <2>7. ExactTables' BY <1>6, <1>s, <2>1, <2>6 DEF ReplyOk, Shards, ExactTables
  <2> QED BY <1>6, <1>w, <1>f, <2>5, <2>7 DEF ReplyOk, Shards
<1>7. CASE Regroup
  <2>1. Len(tasks') = NumReducers /\ \A i \in DOMAIN tasks' : ExactTask(i)'
    BY <1>7, <1>l, <1>s, RegroupExact
  <2>2. ExactTables' BY <1>7, <1>s, <2>1 DEF Regroup, Shards, ExactTables
  <2> QED BY <1>7, <1>w, <1>f, <2>1, <2>2 DEF Regroup, Shards
<1>8. CASE JobEnd
  <2>1. /\ Len(tasks) = NumReducers /\ phase = "reduce" /\ AllCompleted
        /\ DOMAIN tasks = 1 .. NumReducers
    BY <1>8, <1>l, <1>s
       DEF JobEnd, Links, Tables, Shards, ExactTables, TypeOK, MasterTypeOK
  <2>2. job \in Job BY <1>8 DEF JobEnd, TypeOK, MasterTypeOK
  <2>3. ASSUME NEW r \in 1 .. NumReducers PROVE final[job][r] # NoFile
    <3>1. OneOutput(r) /\ OutputsStored(tasks[r].outs)
      BY <1>s, <2>1 DEF AllCompleted, Shards, ExactTask, FilesInv, TaskFiles
    <3>2. PICK wid \in 1 .. Cardinality(Worker) :
            tasks[r].outs = << [job |-> job, type |-> "reduce", wid |-> wid, tid |-> r] >>
      BY <2>1, <3>1 DEF OneOutput
    <3>3. Stored([job |-> job, type |-> "reduce", wid |-> wid, tid |-> r])
      BY <3>1, <3>2 DEF OutputsStored, ListInStore, Stored
    <3> QED BY <3>3 DEF Stored, InStore
  <2>4. \A j \in Job : jobStatus'[j] = IF j = job THEN "COMPLETED" ELSE jobStatus[j]
    BY <1>8 DEF JobEnd, TypeOK, StoreTypeOK
  <2>5. \A j \in Job, r \in 1 .. NumReducers : ExactFile(j, r)'
    BY <1>8, <1>s, <2>3, <2>4 DEF JobEnd, Shards, ExactFile
  <2>6. ExactTables' /\ tasks' = << >> BY <1>8, <1>s DEF JobEnd, Shards, ExactTables
  <2> QED BY <1>8, <1>w, <2>5, <2>6 DEF JobEnd, Shards
<1>9. CASE MasterDies BY <1>9, <1>s, MasterDiesExact
<1>10. ASSUME NEW w \in Worker,
              \A v \in Worker : wtask'[v] = wtask[v] \/ wtask'[v] = NoTask,
              \A v \in Worker : orphans'[v] = orphans[v] \/ orphans'[v] = << >>,
              UNCHANGED <<pc, job, phase, tasks, workers, jobStatus, final>>
       PROVE  Shards'
  <2>1. \A v \in Worker : ExactWorker(v)' BY <1>10, <1>s DEF Shards, ExactWorker
  <2>2. ExactTables' BY <1>10, <1>s DEF Shards, ExactTables
  <2> QED BY <1>10, <1>t, <1>f, <2>1, <2>2 DEF Shards
<1>11. ASSUME NEW w \in Worker, WorkerDies(w), UNCHANGED <<jobStatus, final>> PROVE Shards'
  <2>1. \A v \in Worker : wtask'[v] = wtask[v] \/ wtask'[v] = NoTask
    BY <1>11 DEF WorkerDies, TypeOK, WorkerTypeOK
  <2>2. \A v \in Worker : orphans'[v] = orphans[v] \/ orphans'[v] = << >>
    BY <1>11 DEF WorkerDies, TypeOK, WorkerTypeOK
  <2> QED BY <1>10, <1>11, <2>1, <2>2 DEF WorkerDies
<1>12. ASSUME NEW w \in Worker, Accept(w) PROVE Shards'
  <2>1. ExactMsg(Msg) BY <1>12, <1>s, MsgExact DEF Accept, CallQueuedAt
  <2>2. \A v \in Worker : ExactWorker(v)'
    BY <1>12, <1>s, <2>1 DEF Accept, Shards, ExactWorker, TypeOK, WorkerTypeOK
  <2>3. ExactTables' BY <1>12, <1>s DEF Accept, Shards, ExactTables
  <2> QED BY <1>12, <1>t, <1>f, <2>2, <2>3 DEF Accept, Shards
<1>13. ASSUME NEW w \in Worker, AcceptOrphan(w) PROVE Shards'
  <2> USE <1>13 DEF AcceptOrphan
  <2>1. orphans[w] \in Seq(TaskMsg) BY DEF TypeOK, WorkerTypeOK
  <2>2. Head(orphans[w]) = orphans[w][1] /\ 1 \in DOMAIN orphans[w] BY <2>1
  <2>3. \A n \in DOMAIN Tail(orphans[w]) :
          Tail(orphans[w])[n] = orphans[w][n + 1] /\ n + 1 \in DOMAIN orphans[w]
    BY <2>1
  <2>4. /\ orphans'[w] = Tail(orphans[w]) /\ wtask'[w] = Head(orphans[w])
        /\ \A v \in Worker \ {w} : orphans'[v] = orphans[v] /\ wtask'[v] = wtask[v]
    BY DEF TypeOK, WorkerTypeOK
  <2>5. ExactWorker(w)' BY <1>s, <2>2, <2>3, <2>4 DEF Shards, ExactWorker
  <2>6. \A v \in Worker : ExactWorker(v)' BY <1>s, <2>4, <2>5 DEF Shards, ExactWorker
  <2>7. ExactTables' BY <1>s DEF Shards, ExactTables
  <2> QED BY <1>t, <1>f, <2>6, <2>7 DEF Shards
<1>14. ASSUME NEW w \in Worker, UploadFinal(w) PROVE Shards'
  <2> DEFINE new == [red |-> wtask[w].red, ins |-> wtask[w].ins]
             j0 == wtask[w].job
             r0 == wtask[w].tid
  <2>1. wtask[w] \in TaskMsg /\ wtask[w].type = "reduce" /\ Holding(w)
    BY <1>14 DEF UploadFinal, TypeOK, CallsTypeOK, Holding
  <2>2. j0 \in Job /\ r0 \in 1 .. NumReducers /\ wtask[w].red \in 1 .. NumReducers
    BY <2>1 DEF FilesInv, WorkerFiles, MsgFiles, ReduceTask, TaskMsg
  <2>3. wtask[w] # NoTask BY <2>1 DEF NoTask
  <2>4. SumsEachShardOnce(j0, r0, new)
    BY <1>s, <2>1, <2>3
       DEF Shards, ExactWorker, ExactMsg, ExactIns, MapOutput, SumsEachShardOnce
  <2>5. new # NoFile BY <2>2 DEF NoFile
  <2>6. \A j \in Job, r \in 1 .. NumReducers :
          final'[j][r] = IF j = j0 /\ r = r0 THEN new ELSE final[j][r]
    <3>1. final' = [final EXCEPT ![j0][r0] = new] BY <1>14 DEF UploadFinal
    <3>2. \A j \in Job : j \in DOMAIN final /\ DOMAIN final[j] = 1 .. NumReducers
      BY DEF TypeOK, StoreTypeOK
    <3> HIDE DEF new, j0, r0
    <3> QED BY <2>2, <3>1, <3>2
  <2>7. \A j \in Job, r \in 1 .. NumReducers : ExactFile(j, r)'
    <3>1. jobStatus' = jobStatus BY <1>14 DEF UploadFinal
    <3> HIDE DEF new, j0, r0
    <3> QED BY <1>s, <2>4, <2>5, <2>6, <3>1 DEF Shards, ExactFile
  <2>8. ExactTables' BY <1>14, <1>s DEF UploadFinal, Shards, ExactTables
  <2> QED BY <1>14, <1>w, <1>t, <2>7, <2>8 DEF UploadFinal, Shards
<1>15. ASSUME NEW w \in Worker, NotifyFails(w) PROVE Shards'
  <2>1. \A v \in Worker : wtask'[v] = wtask[v] \/ wtask'[v] = NoTask
    BY <1>15 DEF NotifyFails, TypeOK, WorkerTypeOK
  <2> QED BY <1>10, <1>15, <2>1 DEF NotifyFails
<1>16. ASSUME NEW w \in Worker, HandlerApply(w) PROVE Shards'
  <2> DEFINE t == wtask[w].tid
             k == wtask[w].wid
             c == CompletionOf(wtask[w])
  <2>1. Mine(w) /\ call[w] = "locked" BY <1>16, <1>l DEF HandlerApply, Links, Origin
  <2>2. pc \notin {"rpc", "regroup", "end"} /\ rpc = "none"
    BY <1>l, <2>1 DEF LockInv, InHandler, TypeOK, CallsTypeOK, Links, Linked
  <2>3. /\ t \in DOMAIN tasks /\ k \in DOMAIN workers /\ tasks[t].status = "running"
        /\ wtask[w].job = job /\ wtask[w].type = phase
    BY <1>l, <2>1, <2>2 DEF Links, Linked, Answered
  <2>4. \A i \in DOMAIN tasks : tasks[i] \in TaskState BY TaskAt DEF TypeOK
  <2>5. k \in 1 .. Cardinality(Worker)
    BY <1>c, <1>s, <2>3 DEF Shards, ExactTables, TypeOK, MasterTypeOK
  <2>6. c = [job |-> job, type |-> phase, wid |-> k, tid |-> t]
    BY <2>3 DEF CompletionOf
  <2>7. tasks' = [tasks EXCEPT ![t].status = "completed", ![t].outs = Append(@, c)]
    BY <1>16, <2>1 DEF HandlerApply
  <2>8. /\ Len(workers') = Len(workers) /\ UNCHANGED <<pc, job, phase>>
        /\ UNCHANGED <<orphans, jobStatus, final>>
    BY <1>16 DEF HandlerApply, TypeOK, MasterTypeOK
  <2>9. tasks[t].outs = << >> BY <1>s, <2>3 DEF Shards, ExactTask
  <2>10. \A v \in Worker : ExactWorker(v)'
    BY <1>16, <1>s, <2>8 DEF HandlerApply, Shards, ExactWorker, TypeOK, WorkerTypeOK
  <2> HIDE DEF t, k, c
  <2>11. /\ DOMAIN tasks' = DOMAIN tasks /\ Len(tasks') = Len(tasks)
         /\ \A i \in DOMAIN tasks : i # t => tasks'[i] = tasks[i]
         /\ tasks'[t].status = "completed" /\ tasks'[t].outs = << c >>
         /\ tasks'[t].ins = tasks[t].ins /\ tasks'[t].red = tasks[t].red
    <3>1. tasks[t] \in TaskState BY <2>3, <2>4
    <3>2. tasks \in Seq(TaskState) BY DEF TypeOK, MasterTypeOK
    <3>3. DOMAIN tasks' = DOMAIN tasks /\ Len(tasks') = Len(tasks) BY <2>7, <3>2
    <3>4. \A i \in DOMAIN tasks : i # t => tasks'[i] = tasks[i] BY <2>7, <3>2
    <3>5. tasks'[t] = [tasks[t] EXCEPT !.status = "completed", !.outs = Append(@, c)]
      BY <2>3, <2>7, <3>2
    <3>6. Append(<< >>, c) = << c >> OBVIOUS
    <3>7. /\ tasks'[t].status = "completed" /\ tasks'[t].outs = Append(tasks[t].outs, c)
          /\ tasks'[t].ins = tasks[t].ins /\ tasks'[t].red = tasks[t].red
      BY <3>1, <3>5 DEF TaskState
    <3> QED BY <2>9, <3>3, <3>4, <3>6, <3>7
  <2>12. ASSUME NEW i \in DOMAIN tasks' PROVE ExactTask(i)'
    <3>1. ExactTask(i) /\ i \in DOMAIN tasks BY <1>s, <2>11 DEF Shards
    <3>2. CASE i = t
      <4>1. OneOutput(i)' BY <2>5, <2>6, <2>8, <2>11, <3>2 DEF OneOutput
      <4> QED BY <2>8, <2>11, <3>1, <3>2, <4>1 DEF ExactTask
    <3>3. CASE i # t
      BY <2>8, <2>11, <3>1, <3>3 DEF ExactTask, OneOutput
    <3> QED BY <3>2, <3>3
  <2>13. ExactTables' BY <1>s, <2>8, <2>11 DEF Shards, ExactTables
  <2> QED BY <1>f, <2>8, <2>10, <2>12, <2>13 DEF Shards
<1>17. CASE UNCHANGED <<pc, job, phase, tasks, workers, wtask, orphans, jobStatus, final>>
  BY <1>17, <1>s, ExactFrame
<1>18. CASE MasterStep
  BY <1>1, <1>2, <1>3, <1>4, <1>5, <1>6, <1>7, <1>8, <1>17, <1>18
     DEF MasterStep, PollIdle
<1>19. CASE FaultStep
  <2>1. ASSUME MasterCrash \/ RaceCrash PROVE Shards'
    BY <1>9, <2>1 DEF MasterCrash, RaceCrash
  <2>2. ~LoseReply BY DEF LoseReply
  <2>3. ASSUME NEW w \in Worker, WorkerCrash(w) PROVE Shards'
    BY <1>11, <2>3 DEF WorkerCrash, WorkerDies
  <2>4. ASSUME NEW w \in Worker, HandlerFault(w) PROVE Shards'
    BY <1>9, <1>17, <2>4 DEF HandlerFault
  <2>5. ASSUME NEW w \in Worker, LoseCompletion(w) \/ Expire(w) PROVE Shards'
    BY <1>17, <2>5 DEF LoseCompletion, Expire
  <2> QED BY <1>19, <2>1, <2>2, <2>3, <2>4, <2>5 DEF FaultStep
<1>20. CASE NetworkStep
  BY <1>17, <1>20 DEF NetworkStep, RpcRefused, RpcDeliver
<1>21. ASSUME NEW w \in Worker, WorkerStep(w) \/ HandlerLock(w) \/ HandlerApply(w)
       PROVE  Shards'
  <2>1. ASSUME \/ Register(w) \/ Serve(w) \/ UploadIntermediate(w) \/ SendCompletion(w)
               \/ HandlerLock(w)
        PROVE  Shards'
    BY <1>17, <2>1
       DEF Register, Serve, UploadIntermediate, SendCompletion, HandlerLock
  <2>2. ASSUME AbortOnFinish(w) PROVE Shards'
    BY <1>11, <2>2 DEF AbortOnFinish, WorkerDies
  <2> QED BY <1>12, <1>13, <1>14, <1>15, <1>16, <1>21, <2>1, <2>2 DEF WorkerStep
<1>22. CASE UNCHANGED vars BY <1>17, <1>22
<1> QED BY <1>18, <1>19, <1>20, <1>21, <1>22 DEF Next

(* In an untainted run every final file sums each shard once, in every     *)
(* reachable state, and a completed job has all of its files.              *)
THEOREM ExactCorrect == Spec => []ExactInv
<1>1. Init => ExactInv BY InitExact
<1>2. TypeOK /\ LockInv /\ FilesInv /\ LinkInv /\ ExactInv /\ [Next]_vars => ExactInv'
  BY StepExact
<1> QED BY <1>1, <1>2, TypeCorrect, LockCorrect, FilesCorrect, LinkCorrect, PTL DEF Spec

-----------------------------------------------------------------------------
(* The refinement *)

(* A completed job is exact *)
LEMMA CompletedExact ==
  ASSUME ExactInv, NEW j \in Job, jobStatus[j] = "COMPLETED" PROVE Exact(j)
BY DEF ExactInv, Shards, ExactFile, Exact

(* What the board says of each job *)
LEMMA AnswerIs ==
  ASSUME ExactInv
  PROVE  Answer = [j \in Job |-> IF jobStatus[j] = "COMPLETED" THEN "exact" ELSE "none"]
BY CompletedExact DEF Answer

(* A step of the pipeline is a step of the board, or none *)
LEMMA StepBoard ==
  TypeOK /\ JobInv /\ ExactInv /\ ExactInv' /\ [Next]_vars
    => [Board!BoardNext]_(Board!boardVars)
<1> SUFFICES ASSUME TypeOK, JobInv, ExactInv, ExactInv', [Next]_vars
             PROVE  [Board!BoardNext]_(Board!boardVars)
  OBVIOUS
<1>1. Answer = [j \in Job |-> IF jobStatus[j] = "COMPLETED" THEN "exact" ELSE "none"]
  BY AnswerIs
<1>2. Answer' = [j \in Job |-> IF jobStatus'[j] = "COMPLETED" THEN "exact" ELSE "none"]
  <2>1. \A j \in Job : jobStatus'[j] = "COMPLETED" => Exact(j)'
    BY DEF ExactInv, Shards, ExactFile, Exact
  <2> QED BY <2>1 DEF Answer
<1>3. CASE UNCHANGED jobStatus BY <1>1, <1>2, <1>3 DEF Board!boardVars
<1>4. CASE JobEnd
  <2>1. /\ job \in Job /\ jobStatus[job] = "CREATED"
        /\ \A i \in 1 .. job - 1 : jobStatus[i] # "CREATED"
    BY <1>4 DEF JobEnd, JobInv
  <2>2. \A i \in Job : i < job => i \in 1 .. job - 1 BY <2>1 DEF Job
  <2>3. jobStatus' = [jobStatus EXCEPT ![job] = "COMPLETED"] BY <1>4 DEF JobEnd
  <2>4. \A j \in Job : jobStatus'[j] = IF j = job THEN "COMPLETED" ELSE jobStatus[j]
    BY <2>3 DEF TypeOK, StoreTypeOK
  <2>5. Answer' = [Answer EXCEPT ![job] = "exact"] BY <1>1, <1>2, <2>1, <2>4
  <2>6. Board!Complete(job)
    BY <2>1, <2>2, <2>3, <2>5 DEF Board!Complete, Board!Lowest
  <2> QED BY <2>1, <2>6 DEF Board!BoardNext
<1> QED
  BY <1>3, <1>4
     DEF Next, MasterStep, WorkerStep, NetworkStep, FaultStep, MasterDies, WorkerDies,
         MasterStart, GetNextJob, PollIdle, Populate, PopulateRetry, PopulateAbort,
         Bootstrap, LockScan, Trigger, ReplyOk, ReplyFail, ScanEnd, Check, Regroup,
         RpcRefused, MasterCrash, LoseReply, RaceCrash, RpcDeliver, LoseCompletion,
         WorkerCrash, Expire, HandlerFault, Register, Serve, Accept, AcceptOrphan,
         UploadIntermediate, UploadFinal, SendCompletion, NotifyFails, AbortOnFinish,
         HandlerLock, HandlerApply

(* The pipeline implements the board of jobs, for any number of workers,   *)
(* jobs, shards, reducers and faults: lowest job first, each once, and a   *)
(* COMPLETED job's files sum every shard exactly once, from then on.       *)
THEOREM BoardCorrect == Spec => ImplementsBoard
<1>1. Init => Board!BoardInit
  <2> SUFFICES ASSUME Init PROVE Board!BoardInit OBVIOUS
  <2>1. jobStatus = [j \in Job |-> "CREATED"] BY DEF Init
  <2>2. Answer = [j \in Job |-> "none"] BY <2>1 DEF Answer
  <2> QED BY <2>1, <2>2 DEF Board!BoardInit
<1>2. TypeOK /\ JobInv /\ ExactInv /\ ExactInv' /\ [Next]_vars
        => [Board!BoardNext]_(Board!boardVars)
  BY StepBoard
<1> QED
  BY <1>1, <1>2, TypeCorrect, JobCorrect, ExactCorrect, PTL
     DEF Spec, ImplementsBoard, Board!BoardSpec

-----------------------------------------------------------------------------
(* What strands a task *)

(* A worker is about to report a task of the current master, or a report   *)
(* of it is under way.  Once the report is lost it holds nothing back.     *)
Reporting(w) == Mine(w) /\ (wpc[w] = "exec" \/ call[w] # "none")
Due(i) == tasks[i].status = "running" \/ (rpc = "ok" /\ i = cur)
Unreported == {i \in DOMAIN tasks :
                 Due(i) /\ \A w \in Worker : ~(Reporting(w) /\ wtask[w].tid = i)}
Losses == faults["worker"] + faults["completion"]
LossInv == Cardinality(Unreported) <= Losses

(* A task of the current master names the address that master has, so a    *)
(* report of it is at least sent; who does not serve has no calls; while a *)
(* handler has a task of a list that was replaced, nothing of the new list *)
(* is handed out.                                                          *)
OnRecord(m) == m.inc <= inc /\ (m.inc = inc => pc # "down" /\ m.url = url)
AtWorker(w) ==
    /\ wpc[w] \in {"off", "registered", "next"} => wtask[w] = NoTask
    /\ ~Serving(w) => orphans[w] = << >>
    /\ ~wdir => wpc[w] = "off"
    /\ wtask[w] # NoTask => OnRecord(wtask[w])
    /\ \A n \in DOMAIN orphans[w] : OnRecord(orphans[w][n])
    /\ call[w] = "detached" => \A i \in DOMAIN tasks : tasks[i].status = "queued"
NoTasksYet == pc \in {"down", "poll", "populate", "bootstrap"} => tasks = << >>
PathInv == NoTasksYet /\ \A w \in Worker : AtWorker(w)

LEMMA InitPath == Init => PathInv
BY DEF Init, PathInv, NoTasksYet, AtWorker, Serving

(* The calls of a master that dies become calls of the past *)
LEMMA MasterDiesPath == ASSUME TypeOK, PathInv, MasterDies PROVE PathInv'
<1>1. inc \in Nat /\ inc' = inc + 1 BY DEF MasterDies, TypeOK, MasterTypeOK
<1>2. \A m \in TaskMsg : m.inc \in Nat /\ (m.inc <= inc => m.inc <= inc' /\ m.inc # inc')
  <2>1. \A m \in TaskMsg : m.inc \in Nat BY DEF TaskMsg
  <2> QED BY <1>1, <2>1
<1>3. ASSUME NEW w \in Worker PROVE AtWorker(w)'
  <2>1. AtWorker(w) /\ orphans[w] \in Seq(TaskMsg) /\ wtask[w] \in TaskMsg \cup {NoTask}
    BY DEF PathInv, TypeOK, WorkerTypeOK
  <2>2. UNCHANGED <<wpc, wtask, wdir>> /\ call'[w] = "none" BY DEF MasterDies
  <2>3. wtask[w] # NoTask => wtask[w].inc <= inc' /\ wtask[w].inc # inc'
    BY <1>2, <2>1 DEF AtWorker, OnRecord
  <2>4. /\ \A n \in DOMAIN orphans'[w] :
             orphans'[w][n].inc <= inc' /\ orphans'[w][n].inc # inc'
        /\ ~Serving(w) => orphans'[w] = << >>
    <3>0. \A n \in DOMAIN orphans[w] : orphans[w][n] \in TaskMsg /\ orphans[w][n].inc <= inc
      BY <2>1 DEF AtWorker, OnRecord
    <3>1. CASE ~CallQueuedAt(w)
      <4>1. orphans'[w] = orphans[w] BY <3>1 DEF MasterDies
      <4> QED BY <1>2, <2>1, <3>0, <4>1 DEF AtWorker
    <3>2. CASE CallQueuedAt(w)
      <4>1. orphans'[w] = Append(orphans[w], Msg) BY <3>2 DEF MasterDies
      <4>2. Msg \in TaskMsg BY <3>2, MsgType DEF CallQueuedAt
      <4>3. Msg.inc = inc BY DEF Msg
      <4>4. \A n \in DOMAIN orphans'[w] : orphans'[w][n] \in TaskMsg /\ orphans'[w][n].inc <= inc
        BY <1>1, <2>1, <3>0, <4>1, <4>2, <4>3, AppendProperties
      <4>5. Serving(w) BY <3>2 DEF CallQueuedAt
      <4> QED BY <1>2, <4>4, <4>5
    <3> QED BY <3>1, <3>2
  <2> QED BY <2>1, <2>2, <2>3, <2>4 DEF AtWorker, OnRecord, Serving
<1>4. NoTasksYet' BY DEF MasterDies, NoTasksYet
<1> QED BY <1>3, <1>4 DEF PathInv

LEMMA WorkerDiesPath ==
  ASSUME TypeOK, PathInv, NEW w \in Worker, Alive(w), WorkerDies(w) PROVE PathInv'
<1>1. UNCHANGED <<pc, inc, url, tasks, wdir>> BY DEF WorkerDies
<1>2. ASSUME NEW v \in Worker PROVE AtWorker(v)'
  <2>1. AtWorker(v) BY DEF PathInv
  <2>2. /\ wpc'[v] = IF v = w THEN "dead" ELSE wpc[v]
        /\ orphans'[v] = IF v = w THEN << >> ELSE orphans[v]
        /\ wtask'[v] = wtask[v] \/ (v = w /\ wtask'[v] = NoTask)
        /\ call'[v] = call[v] \/ call'[v] = "none"
    BY DEF WorkerDies, TypeOK, WorkerTypeOK
  <2>3. wdir BY DEF Alive, PathInv, AtWorker
  <2> QED BY <1>1, <2>1, <2>2, <2>3 DEF AtWorker, OnRecord, Serving
<1> QED BY <1>1, <1>2 DEF PathInv, NoTasksYet

(* A step of the master that leaves the workers and their calls alone *)
LEMMA MasterPath ==
  ASSUME TypeOK, PathInv, UNCHANGED <<wpc, wtask, orphans, call, wdir, inc, url>>,
         pc' # "down", pc # "down", NoTasksYet',
         \/ UNCHANGED tasks
         \/ \A w \in Worker : call[w] # "detached"
         \/ \A i \in DOMAIN tasks' : tasks'[i].status = "queued"
  PROVE  PathInv'
BY DEF PathInv, AtWorker, OnRecord, Serving

(* The list that replaces tasks_ has only queued tasks *)
LEMMA AllQueued ==
  ASSUME Regroup \/ JobEnd PROVE \A i \in DOMAIN tasks' : tasks'[i].status = "queued"
<1>1. CASE JobEnd
  <2>1. tasks' = << >> BY <1>1 DEF JobEnd
  <2> QED BY <2>1
<1>2. CASE Regroup
  <2> DEFINE found == {r \in 1 .. NumReducers : \E t \in DOMAIN tasks :
                \E n \in DOMAIN tasks[t].outs : NamesReducer(tasks[t].outs[n], r)}
             lists == [t \in 1 .. Len(tasks) |-> tasks[t].outs]
  <2>1. PICK ids \in [1 .. Cardinality(found) -> found] :
          tasks' = [n \in 1 .. Cardinality(found) |-> NewTask(ids[n], lists)]
    BY <1>2, Zenon DEF Regroup
  <2> HIDE DEF found, lists
  <2> QED BY <2>1 DEF NewTask
<1> QED BY <1>1, <1>2

(* One step of the proof per kind of action *)
LEMMA StepPath == TypeOK /\ LockInv /\ PathInv /\ [Next]_vars => PathInv'
<1> SUFFICES ASSUME TypeOK, LockInv, PathInv, [Next]_vars PROVE PathInv' OBVIOUS
<1>t. /\ inc \in Nat
      /\ \A w \in Worker : /\ wtask[w] \in TaskMsg \cup {NoTask}
                           /\ orphans[w] \in Seq(TaskMsg)
                           /\ call[w] \in {"none", "sent", "locked", "detached"}
  BY DEF TypeOK, MasterTypeOK, WorkerTypeOK
<1>1. CASE MasterStart
  <2>1. ASSUME NEW m \in TaskMsg, OnRecord(m) PROVE OnRecord(m)'
    BY <1>1, <2>1 DEF MasterStart, OnRecord
  <2>2. ASSUME NEW w \in Worker PROVE AtWorker(w)'
    <3>1. AtWorker(w) BY DEF PathInv
    <3>2. UNCHANGED <<wpc, wtask, orphans, call, wdir, tasks>> BY <1>1 DEF MasterStart
    <3>3. \A n \in DOMAIN orphans[w] : orphans[w][n] \in TaskMsg BY <1>t
    <3> QED BY <1>t, <2>1, <3>1, <3>2, <3>3 DEF AtWorker, Serving
  <2> QED BY <1>1, <2>2 DEF MasterStart, PathInv, NoTasksYet
<1>2. CASE PopulateAbort
  <2>1. ASSUME NEW w \in Worker PROVE AtWorker(w)'
    <3>1. wpc[w] = "off" /\ wtask[w] = NoTask /\ orphans[w] = << >>
      BY <1>2 DEF PopulateAbort, PathInv, AtWorker, Serving
    <3> QED BY <1>2, <3>1 DEF PopulateAbort, PathInv, AtWorker
  <2> QED BY <1>2, <2>1 DEF PopulateAbort, PathInv, NoTasksYet
<1>3. CASE GetNextJob \/ Populate \/ PopulateRetry \/ LockScan \/ Trigger \/ ReplyFail
           \/ ScanEnd \/ Check
  <2>1. /\ UNCHANGED <<wpc, wtask, orphans, call, wdir, inc, url, tasks>>
        /\ pc' # "down" /\ pc # "down" /\ NoTasksYet'
    BY <1>3 DEF GetNextJob, Populate, PopulateRetry, LockScan, Trigger, ReplyFail,
                ScanEnd, Check, PathInv, NoTasksYet
  <2> QED BY <2>1, MasterPath
<1>4. CASE Bootstrap
  <2>1. tasks' = MapTasks
    <3>1. tasks' = << >> \o MapTasks BY <1>4 DEF Bootstrap, PathInv, NoTasksYet
    <3> QED BY <3>1, MapTasksType, ConcatEmptySeq
  <2>2. \A i \in DOMAIN tasks' : tasks'[i].status = "queued" BY <2>1 DEF MapTasks, NewTask
  <2> QED BY <1>4, <2>2, MasterPath DEF Bootstrap, NoTasksYet
<1>5. CASE ReplyOk
  <2>1. \A w \in Worker : call[w] # "detached" BY <1>5 DEF ReplyOk, LockInv, InHandler
  <2> QED BY <1>5, <2>1, MasterPath DEF ReplyOk, NoTasksYet
<1>6. CASE Regroup \/ JobEnd
  <2>1. \A i \in DOMAIN tasks' : tasks'[i].status = "queued" BY <1>6, AllQueued
  <2>2. ASSUME NEW w \in Worker PROVE AtWorker(w)'
    BY <1>6, <2>1 DEF Regroup, JobEnd, PathInv, AtWorker, OnRecord, Serving
  <2>3. NoTasksYet' BY <1>6 DEF Regroup, JobEnd, NoTasksYet
  <2> QED BY <2>2, <2>3 DEF PathInv
<1>7. CASE MasterDies BY <1>7, MasterDiesPath
<1>8. ASSUME NEW w \in Worker, Alive(w), WorkerDies(w) PROVE PathInv'
  BY <1>8, WorkerDiesPath
(* Steps of a worker w, of its call or of the network *)
<1>9. ASSUME NEW w \in Worker,
             UNCHANGED <<pc, inc, url, tasks>>, wdir => wdir',
             \A v \in Worker \ {w} :
               UNCHANGED <<wpc[v], wtask[v], orphans[v], call[v]>> /\ (~wdir' => ~wdir),
             AtWorker(w)'
       PROVE  PathInv'
  <2>1. ASSUME NEW v \in Worker \ {w} PROVE AtWorker(v)'
    BY <1>9, <2>1 DEF PathInv, AtWorker, OnRecord, Serving
  <2> QED BY <1>9, <2>1 DEF PathInv, NoTasksYet
<1>10. ASSUME NEW w \in Worker, Register(w) \/ Serve(w) PROVE PathInv'
  <2>1. AtWorker(w) BY DEF PathInv
  <2>2. /\ UNCHANGED <<wtask, orphans, call, tasks, pc, inc, url>> /\ wdir'
        /\ wpc'[w] \in {"registered", "next"} /\ wpc[w] \in {"off", "registered"}
    BY <1>10, <2>1 DEF Register, Serve, AtWorker, TypeOK, WorkerTypeOK
  <2>3. AtWorker(w)' BY <2>1, <2>2 DEF AtWorker, OnRecord, Serving
  <2>4. \A v \in Worker \ {w} : UNCHANGED <<wpc[v], wtask[v], orphans[v], call[v]>>
    BY <1>10 DEF Register, Serve, TypeOK, WorkerTypeOK
  <2> QED BY <1>9, <2>2, <2>3, <2>4
<1>11. ASSUME NEW w \in Worker, Accept(w) PROVE PathInv'
  <2>1. AtWorker(w) /\ pc = "rpc"
    BY <1>11 DEF PathInv, Accept, CallQueuedAt, TypeOK, CallsTypeOK
  <2>2. Msg.inc = inc /\ Msg.url = url BY DEF Msg
  <2>3. AtWorker(w)'
    BY <1>t, <1>11, <2>1, <2>2 DEF Accept, AtWorker, OnRecord, Serving, TypeOK, WorkerTypeOK
  <2> QED BY <1>9, <1>11, <2>3 DEF Accept, TypeOK, WorkerTypeOK
<1>12. ASSUME NEW w \in Worker, AcceptOrphan(w) PROVE PathInv'
  <2> USE <1>12 DEF AcceptOrphan
  <2>1. AtWorker(w) BY DEF PathInv
  <2>2. Head(orphans[w]) = orphans[w][1] /\ 1 \in DOMAIN orphans[w] BY <1>t
  <2>3. \A n \in DOMAIN Tail(orphans[w]) :
          Tail(orphans[w])[n] = orphans[w][n + 1] /\ n + 1 \in DOMAIN orphans[w]
    BY <1>t
  <2>4. /\ orphans'[w] = Tail(orphans[w]) /\ wtask'[w] = Head(orphans[w])
        /\ wpc'[w] = "exec" /\ wpc[w] = "next" /\ call'[w] = call[w]
        /\ UNCHANGED <<pc, inc, url, tasks, wdir>>
    BY DEF TypeOK, WorkerTypeOK
  <2>5. AtWorker(w)' BY <2>1, <2>2, <2>3, <2>4 DEF AtWorker, OnRecord, Serving
  <2>6. \A v \in Worker \ {w} : UNCHANGED <<wpc[v], wtask[v], orphans[v], call[v]>>
    BY DEF TypeOK, WorkerTypeOK
  <2> QED BY <1>9, <2>4, <2>5, <2>6
<1>13. ASSUME NEW w \in Worker,
              SendCompletion(w) \/ LoseCompletion(w) \/ NotifyFails(w) \/ HandlerLock(w)
       PROVE  PathInv'
  <2>1. AtWorker(w) BY DEF PathInv
  <2>2. /\ UNCHANGED <<pc, inc, url, tasks, wdir, orphans>>
        /\ wpc'[w] = wpc[w] \/ (wpc[w] = "exec" /\ wpc'[w] = "notify")
             \/ (wpc[w] = "notify" /\ wpc'[w] = "next" /\ wtask'[w] = NoTask)
        /\ wtask'[w] = wtask[w] \/ wtask'[w] = NoTask
        /\ call'[w] = "detached" => call[w] = "detached"
    BY <1>13 DEF SendCompletion, LoseCompletion, NotifyFails, HandlerLock, TypeOK, WorkerTypeOK
  <2>3. AtWorker(w)' BY <2>1, <2>2 DEF AtWorker, OnRecord, Serving
  <2>4. \A v \in Worker \ {w} : UNCHANGED <<wpc[v], wtask[v], orphans[v], call[v]>>
    BY <1>13 DEF SendCompletion, LoseCompletion, NotifyFails, HandlerLock, TypeOK, WorkerTypeOK
  <2> QED BY <1>9, <2>2, <2>3, <2>4
<1>14. ASSUME NEW w \in Worker, HandlerApply(w) PROVE PathInv'
  <2>1. ASSUME NEW v \in Worker PROVE AtWorker(v)'
    <3>1. AtWorker(v) BY DEF PathInv
    <3>2. /\ UNCHANGED <<pc, inc, url, wdir, orphans>>
          /\ wpc'[v] = wpc[v] \/ (wpc[v] = "notify" /\ wpc'[v] = "next" /\ wtask'[v] = NoTask)
          /\ wtask'[v] = wtask[v] \/ wtask'[v] = NoTask
          /\ call'[v] = IF v = w THEN "none" ELSE call[v]
      BY <1>14 DEF HandlerApply, TypeOK, WorkerTypeOK
    <3>3. v # w => call[v] # "detached" BY <1>14 DEF HandlerApply, LockInv, InHandler
    <3> QED BY <3>1, <3>2, <3>3 DEF AtWorker, OnRecord, Serving
  <2>2. NoTasksYet'
    BY <1>14 DEF HandlerApply, Known, PathInv, NoTasksYet
  <2> QED BY <2>1, <2>2 DEF PathInv
<1>15. CASE LoseReply
  <2>1. UNCHANGED <<pc, inc, url, tasks, wdir, wpc, wtask, call>> BY <1>15 DEF LoseReply
  <2>2. ASSUME NEW w \in Worker PROVE AtWorker(w)'
    <3>1. AtWorker(w) BY DEF PathInv
    <3>2. CASE orphans'[w] = orphans[w] BY <2>1, <3>1, <3>2 DEF AtWorker, OnRecord, Serving
    <3>3. CASE CallQueuedAt(w) /\ orphans'[w] = Append(orphans[w], Msg)
      <4>1. Msg \in TaskMsg BY <3>3, MsgType DEF CallQueuedAt
      <4>2. pc = "rpc" BY <3>3 DEF CallQueuedAt, TypeOK, CallsTypeOK
      <4>3. Msg.inc = inc /\ Msg.url = url BY DEF Msg
      <4>4. \A n \in DOMAIN orphans'[w] :
              \/ n \in DOMAIN orphans[w] /\ orphans'[w][n] = orphans[w][n]
              \/ orphans'[w][n] = Msg
        BY <1>t, <3>3, <4>1, AppendProperties
      <4> HIDE DEF Msg
      <4>5. \A n \in DOMAIN orphans'[w] :
              /\ orphans'[w][n].inc <= inc
              /\ orphans'[w][n].inc = inc => orphans'[w][n].url = url
        BY <1>t, <3>1, <4>2, <4>3, <4>4 DEF AtWorker, OnRecord
      <4>6. Serving(w) BY <3>3 DEF CallQueuedAt
      <4> QED BY <2>1, <3>1, <4>2, <4>5, <4>6 DEF AtWorker, OnRecord, Serving
    <3> QED BY <1>15, <3>2, <3>3 DEF LoseReply
  <2> QED BY <2>1, <2>2 DEF PathInv, NoTasksYet
<1>16. CASE UNCHANGED <<pc, inc, url, tasks, wdir, wpc, wtask, orphans, call>>
  BY <1>16 DEF PathInv, NoTasksYet, AtWorker, OnRecord, Serving
<1>17. CASE MasterStep
  BY <1>1, <1>2, <1>3, <1>4, <1>5, <1>6, <1>16, <1>17 DEF MasterStep, PollIdle
<1>18. CASE NetworkStep BY <1>16, <1>18 DEF NetworkStep, RpcRefused, RpcDeliver
<1>19. CASE FaultStep
  <2>1. ASSUME NEW w \in Worker, HandlerFault(w) \/ WorkerCrash(w) \/ Expire(w)
        PROVE  PathInv'
    BY <1>7, <1>8, <1>16, <2>1 DEF HandlerFault, WorkerCrash, Expire
  <2> QED BY <1>7, <1>13, <1>15, <1>19, <2>1 DEF FaultStep, MasterCrash, RaceCrash
<1>20. ASSUME NEW w \in Worker, WorkerStep(w) \/ HandlerLock(w) \/ HandlerApply(w)
       PROVE  PathInv'
  <2>1. ASSUME AbortOnFinish(w) PROVE PathInv'
    BY <1>8, <2>1 DEF AbortOnFinish, Alive
  <2>2. ASSUME UploadIntermediate(w) \/ UploadFinal(w) PROVE PathInv'
    BY <1>16, <2>2 DEF UploadIntermediate, UploadFinal
  <2> QED BY <1>10, <1>11, <1>12, <1>13, <1>14, <1>20, <2>1, <2>2 DEF WorkerStep
<1>21. CASE UNCHANGED vars BY <1>16, <1>21
<1> QED BY <1>17, <1>18, <1>19, <1>20, <1>21 DEF Next

THEOREM PathCorrect == Spec => []PathInv
<1>1. TypeOK /\ LockInv /\ PathInv /\ [Next]_vars => PathInv' BY StepPath
<1> QED BY <1>1, InitPath, TypeCorrect, LockCorrect, PTL DEF Spec

(* Sets that count the losses: an element more costs a loss *)
LEMMA Count ==
  ASSUME NEW S, NEW T, NEW x, NEW m \in Nat, NEW n \in Nat,
         IsFiniteSet(S), Cardinality(S) <= m,
         \/ T \subseteq S /\ m <= n
         \/ T \subseteq S \cup {x} /\ m + 1 <= n
  PROVE  Cardinality(T) <= n
<1>1. Cardinality(S) \in Nat BY FS_CardinalityType
<1>2. CASE T \subseteq S /\ m <= n
  <2>1. Cardinality(T) \in Nat /\ Cardinality(T) <= Cardinality(S)
    BY <1>2, FS_Subset, FS_CardinalityType
  <2> QED BY <1>1, <1>2, <2>1
<1>3. CASE T \subseteq S \cup {x} /\ m + 1 <= n
  <2>1. /\ IsFiniteSet(S \cup {x})
        /\ \/ Cardinality(S \cup {x}) = Cardinality(S)
           \/ Cardinality(S \cup {x}) = Cardinality(S) + 1
    BY FS_AddElement, Zenon
  <2>2. Cardinality(T) \in Nat /\ Cardinality(T) <= Cardinality(S \cup {x})
    BY <1>3, <2>1, FS_Subset, FS_CardinalityType
  <2> QED BY <1>1, <1>3, <2>1, <2>2
<1> QED BY <1>2, <1>3

LEMMA LossesType ==
  ASSUME TypeOK, TypeOK' PROVE /\ Losses \in Nat /\ Losses' \in Nat
                               /\ faults' = faults => Losses <= Losses'
<1>1. faults' \in [FaultKind -> Nat] /\ faults \in [FaultKind -> Nat]
  BY DEF TypeOK, StoreTypeOK
<1> QED BY <1>1 DEF FaultKind, Losses

LEMMA SpendAdds ==
  ASSUME TypeOK, NEW kind \in FaultKind, Spend(kind)
  PROVE  /\ Losses <= Losses'
         /\ kind \in {"worker", "completion"} => Losses + 1 <= Losses'
<1>1. faults \in [FaultKind -> Nat] BY DEF TypeOK, StoreTypeOK
<1>2. /\ faults' \in [FaultKind -> Nat]
      /\ \A k \in FaultKind : faults'[k] = IF k = kind THEN faults[k] + 1 ELSE faults[k]
  BY <1>1 DEF Spend
<1>3. /\ faults["worker"] \in Nat /\ faults["completion"] \in Nat
      /\ faults'["worker"] = IF kind = "worker" THEN faults["worker"] + 1 ELSE faults["worker"]
      /\ faults'["completion"] =
           IF kind = "completion" THEN faults["completion"] + 1 ELSE faults["completion"]
  BY <1>1, <1>2 DEF FaultKind
<1> QED BY <1>2, <1>3 DEF Losses

(* A worker that reports goes on with the same task *)
Kept(v) == Reporting(v) => Reporting(v)' /\ wtask'[v] = wtask[v]

(* Reports end by a handler or by a loss; a loss takes one of them *)
LEMMA StepReports ==
  ASSUME TypeOK, TypeOK', LockInv, PathInv, [Next]_vars,
         ~MasterDies, \A w \in Worker : ~HandlerApply(w)
  PROVE  \/ (\A v \in Worker : Kept(v)) /\ Losses <= Losses'
         \/ \E w \in Worker : (\A v \in Worker \ {w} : Kept(v)) /\ Losses + 1 <= Losses'
<1>1. CASE /\ UNCHANGED <<inc, wtask, wpc>> /\ (UNCHANGED faults \/ Spend("reply"))
           /\ \A v \in Worker : call[v] # "none" => call'[v] # "none"
  <2>1. \A v \in Worker : Kept(v) BY <1>1 DEF Kept, Reporting, Mine
  <2>2. Losses <= Losses' BY <1>1, LossesType, SpendAdds DEF FaultKind
  <2> QED BY <2>1, <2>2
<1>2. ASSUME NEW w \in Worker,
             \/ Register(w) \/ Serve(w) \/ Accept(w) \/ AcceptOrphan(w)
             \/ SendCompletion(w) \/ NotifyFails(w) \/ HandlerLock(w)
      PROVE  (\A v \in Worker : Kept(v)) /\ Losses <= Losses'
  <2>1. UNCHANGED <<inc, faults>>
    BY <1>2 DEF Register, Serve, Accept, AcceptOrphan, SendCompletion, NotifyFails, HandlerLock
  <2>2. ASSUME NEW v \in Worker, v # w PROVE Kept(v)
    BY <1>2, <2>2
       DEF Register, Serve, Accept, AcceptOrphan, SendCompletion, NotifyFails, HandlerLock,
           Kept, Reporting, Mine, TypeOK, WorkerTypeOK
  <2>3. ASSUME Reporting(w) PROVE Reporting(w)' /\ wtask'[w] = wtask[w]
    <3>1. wtask[w] # NoTask /\ wtask[w].inc = inc /\ pc # "down" /\ wtask[w].url = url
          /\ wpc[w] \notin {"off", "registered", "next"}
      BY <2>3 DEF Reporting, Mine, PathInv, AtWorker, OnRecord
    <3>2. ~Register(w) /\ ~Serve(w) /\ ~Accept(w) /\ ~AcceptOrphan(w) /\ ~NotifyFails(w)
      BY <2>3, <3>1 DEF Register, Serve, Accept, AcceptOrphan, NotifyFails, Reporting
    <3>3. wtask' = wtask /\ inc' = inc /\ call'[w] # "none"
      BY <1>2, <3>1, <3>2 DEF SendCompletion, HandlerLock, TypeOK, WorkerTypeOK
    <3> QED BY <3>1, <3>3 DEF Reporting, Mine
  <2> QED BY <2>1, <2>2, <2>3, LossesType DEF Kept
<1>3. ASSUME NEW w \in Worker, LoseCompletion(w)
      PROVE  (\A v \in Worker \ {w} : Kept(v)) /\ Losses + 1 <= Losses'
  <2>1. UNCHANGED <<inc, wtask, wpc>> /\ \A v \in Worker \ {w} : call'[v] = call[v]
    BY <1>3 DEF LoseCompletion, TypeOK, WorkerTypeOK
  <2>2. Losses + 1 <= Losses' BY <1>3, SpendAdds DEF LoseCompletion, FaultKind
  <2> QED BY <2>1, <2>2 DEF Kept, Reporting, Mine
<1>4. ASSUME NEW w \in Worker, WorkerDies(w) PROVE \A v \in Worker \ {w} : Kept(v)
  <2>1. \A v \in Worker \ {w} : UNCHANGED <<wpc[v], wtask[v], call[v]>> /\ UNCHANGED inc
    BY <1>4 DEF WorkerDies, TypeOK, WorkerTypeOK
  <2> QED BY <2>1 DEF Kept, Reporting, Mine
<1>5. ASSUME NEW w \in Worker, WorkerCrash(w)
      PROVE  (\A v \in Worker \ {w} : Kept(v)) /\ Losses + 1 <= Losses'
  BY <1>4, <1>5, SpendAdds DEF WorkerCrash, FaultKind
<1>6. ASSUME NEW w \in Worker, AbortOnFinish(w)
      PROVE  (\A v \in Worker : Kept(v)) /\ Losses <= Losses'
  <2>1. WorkerDies(w) /\ wtask[w] = NoTask /\ faults' = faults
    BY <1>6 DEF AbortOnFinish, PathInv, AtWorker
  <2>2. Kept(w) BY <2>1 DEF Kept, Reporting, Mine
  <2> QED BY <1>4, <2>1, <2>2, LossesType
<1>7. CASE MasterStep \/ NetworkStep \/ UNCHANGED vars
  <2>1. CASE Regroup \/ JobEnd
    <3>1. UNCHANGED <<inc, wtask, wpc, faults>> /\ MayDetach
      BY <2>1 DEF Regroup, JobEnd
    <3>2. \A v \in Worker : call[v] # "none" => call'[v] # "none"
      BY <3>1 DEF MayDetach, TypeOK, WorkerTypeOK
    <3> QED BY <1>1, <3>1, <3>2
  <2>2. CASE ~Regroup /\ ~JobEnd
    <3>1. UNCHANGED <<inc, wtask, wpc, call, faults>>
      BY <1>7, <2>2
         DEF MasterStep, NetworkStep, MasterStart, GetNextJob, PollIdle, Populate,
             PopulateRetry, PopulateAbort, Bootstrap, LockScan, Trigger, ReplyOk, ReplyFail,
             ScanEnd, Check, RpcRefused, RpcDeliver
    <3> QED BY <1>1, <3>1
  <2> QED BY <2>1, <2>2
<1>8. ASSUME NEW w \in Worker, UploadIntermediate(w) \/ UploadFinal(w) \/ Expire(w)
      PROVE  UNCHANGED <<inc, wtask, wpc, call>> /\ UNCHANGED faults
  BY <1>8 DEF UploadIntermediate, UploadFinal, Expire
<1>9. LoseReply => UNCHANGED <<inc, wtask, wpc, call>> /\ Spend("reply") BY DEF LoseReply
<1> QED
  BY <1>1, <1>2, <1>3, <1>5, <1>6, <1>7, <1>8, <1>9
     DEF Next, WorkerStep, FaultStep, MasterCrash, RaceCrash, HandlerFault

(* No step takes a loss back *)
LEMMA LossesGrow == ASSUME TypeOK, TypeOK', [Next]_vars PROVE Losses <= Losses'
<1>1. UNCHANGED faults \/ \E kind \in FaultKind : Spend(kind)
  BY DEF MasterDies, Next, MasterStep, WorkerStep, NetworkStep, FaultStep,
     MasterStart, GetNextJob, PollIdle, Populate, PopulateRetry, PopulateAbort,
     Bootstrap, LockScan, Trigger, ReplyOk, ReplyFail, ScanEnd, Check, Regroup, JobEnd,
     RpcRefused, MasterCrash, LoseReply, RaceCrash, RpcDeliver, LoseCompletion,
     WorkerCrash, Expire, HandlerFault, Register, Serve, Accept, AcceptOrphan,
     UploadIntermediate, UploadFinal, SendCompletion, NotifyFails, AbortOnFinish,
     HandlerLock, HandlerApply, FaultKind
<1> QED BY <1>1, LossesType, SpendAdds

(* Accept makes its worker report the task and the entry called *)
LEMMA AcceptReports ==
  ASSUME TypeOK, NEW w \in Worker, Accept(w)
  PROVE  Reporting(w)' /\ wtask'[w].tid = cur /\ wtask'[w].wid = target
<1>1. wpc'[w] = "exec" /\ wtask'[w] = Msg /\ inc' = inc
  BY DEF Accept, TypeOK, WorkerTypeOK
<1>2. Msg \in TaskMsg BY MsgType DEF Accept, CallQueuedAt
<1>3. Msg.inc = inc /\ Msg.tid = cur /\ Msg.wid = target /\ Msg # NoTask
  BY <1>2 DEF Msg, TaskMsg, NoTask
<1> HIDE DEF Msg
<1> QED BY <1>1, <1>3 DEF Reporting, Mine

LEMMA UnreportedFinite == ASSUME TypeOK PROVE IsFiniteSet(Unreported)
<1>1. DOMAIN tasks = 1 .. Len(tasks) /\ Len(tasks) \in Nat BY DEF TypeOK, MasterTypeOK
<1>2. IsFiniteSet(1 .. Len(tasks)) BY <1>1, FS_Interval
<1>3. Unreported \in SUBSET (1 .. Len(tasks)) BY <1>1 DEF Unreported
<1> QED BY <1>2, <1>3, FS_Subset

(* Tasks that are all queued are not due *)
LEMMA NoneDue ==
  ASSUME \A i \in DOMAIN tasks' : tasks'[i].status = "queued", rpc' # "ok"
  PROVE  Unreported' = {}
BY DEF Unreported, Due

(* A handler completes the task it takes from its worker *)
LEMMA HandlerApplyLoss ==
  ASSUME TypeOK, LockInv, PathInv, NEW w \in Worker, HandlerApply(w)
  PROVE  Unreported' \subseteq Unreported
<1>1. rpc' # "ok"
  BY DEF HandlerApply, LockInv, InHandler, TypeOK, CallsTypeOK
<1>2. CASE call[w] = "detached"
  <2>1. tasks' = tasks BY <1>2 DEF HandlerApply
  <2>2. \A i \in DOMAIN tasks : tasks[i].status = "queued" BY <1>2 DEF PathInv, AtWorker
  <2> QED BY <1>1, <2>1, <2>2, NoneDue
<1>3. CASE call[w] = "locked"
  <2> DEFINE t == wtask[w].tid
  <2>1. /\ t \in DOMAIN tasks
        /\ tasks' = [tasks EXCEPT ![t].status = "completed",
                                  ![t].outs = Append(@, CompletionOf(wtask[w]))]
    BY <1>3 DEF HandlerApply, Known
  <2>2. \A i \in DOMAIN tasks : tasks[i] \in TaskState BY TaskAt DEF TypeOK
  <2>3. /\ DOMAIN tasks' = DOMAIN tasks
        /\ \A i \in DOMAIN tasks : i # t => tasks'[i] = tasks[i]
    <3> HIDE DEF t
    <3> QED BY <2>1
  <2>4. tasks'[t].status = "completed"
    <3>1. tasks[t] \in TaskState BY <2>1, <2>2
    <3>2. tasks'[t] = [tasks[t] EXCEPT !.status = "completed",
                                       !.outs = Append(@, CompletionOf(wtask[w]))]
      <4> HIDE DEF t
      <4> QED BY <2>1 DEF TypeOK, MasterTypeOK
    <3> HIDE DEF t
    <3> QED BY <3>1, <3>2 DEF TaskState
  <2>5. \A v \in Worker \ {w} : Reporting(v) => Reporting(v)' /\ wtask'[v] = wtask[v]
    BY DEF HandlerApply, TypeOK, WorkerTypeOK, Reporting, Mine
  <2>6. ASSUME NEW i \in Unreported' PROVE i \in Unreported
    <3>1. i # t /\ i \in DOMAIN tasks /\ tasks[i].status = "running"
      BY <1>1, <2>3, <2>4 DEF Unreported, Due
    <3>2. ASSUME NEW v \in Worker, Reporting(v), wtask[v].tid = i PROVE FALSE
      BY <2>5, <3>1, <3>2 DEF Unreported
    <3> QED BY <3>1, <3>2 DEF Unreported, Due
  <2> QED BY <2>6
<1> QED BY <1>2, <1>3 DEF HandlerApply

(* A task that is newly due without a report is one whose report ended *)
LEMMA TasksStep ==
  ASSUME TypeOK, TypeOK', LockInv, PathInv, [Next]_vars,
         ~MasterDies, \A w \in Worker : ~HandlerApply(w),
         NEW i \in Unreported', i \notin Unreported
  PROVE  \E w \in Worker : ~Kept(w) /\ wtask[w].tid = i
<1>1. /\ i \in DOMAIN tasks' /\ Due(i)'
      /\ \A w \in Worker : ~(Reporting(w)' /\ wtask'[w].tid = i)
  BY DEF Unreported
<1>2. i \in DOMAIN tasks /\ Due(i)
  <2>1. CASE UNCHANGED tasks /\ (rpc' = "ok" => rpc = "ok" /\ cur' = cur)
    BY <1>1, <2>1 DEF Due
  <2>2. CASE Bootstrap
    <3>1. tasks' = MapTasks
      <4>1. tasks' = << >> \o MapTasks BY <2>2 DEF Bootstrap, PathInv, NoTasksYet
      <4> QED BY <4>1, MapTasksType, ConcatEmptySeq
    <3>2. \A t \in DOMAIN tasks' : tasks'[t].status = "queued" BY <3>1 DEF MapTasks, NewTask
    <3> QED BY <2>2, <3>2, NoneDue DEF Bootstrap, TypeOK, CallsTypeOK
  <2>3. CASE Regroup \/ JobEnd
    BY <2>3, NoneDue, AllQueued DEF Regroup, JobEnd, TypeOK, CallsTypeOK
  <2>4. CASE ReplyOk
    <3>1. cur \in DOMAIN tasks BY <2>4 DEF ReplyOk, TypeOK, CallsTypeOK
    <3>2. /\ DOMAIN tasks' = DOMAIN tasks
          /\ \A t \in DOMAIN tasks : t # cur => tasks'[t] = tasks[t]
      BY <2>4, <3>1 DEF ReplyOk
    <3>3. rpc = "ok" /\ rpc' = "none" BY <2>4 DEF ReplyOk
    <3> QED BY <1>1, <3>2, <3>3 DEF Due
  <2>5. ASSUME NEW w \in Worker, Accept(w) PROVE i \in DOMAIN tasks /\ Due(i)
    <3>1. i # cur BY <1>1, <2>5, AcceptReports
    <3> QED BY <1>1, <2>5, <3>1 DEF Accept, Due
  <2>6. CASE \E w \in Worker : WorkerDies(w)
    BY <2>1, <2>6 DEF WorkerDies
  <2> QED
    BY <2>1, <2>2, <2>3, <2>4, <2>5, <2>6
       DEF Next, MasterStep, WorkerStep, NetworkStep, FaultStep, MasterStart, GetNextJob,
           PollIdle, Populate, PopulateRetry, PopulateAbort, LockScan, Trigger, ReplyFail,
           ScanEnd, Check, RpcRefused, RpcDeliver, MasterCrash, LoseReply, RaceCrash,
           LoseCompletion, WorkerCrash, Expire, HandlerFault, Register, Serve, AcceptOrphan,
           UploadIntermediate, UploadFinal, SendCompletion, NotifyFails, AbortOnFinish,
           HandlerLock, TypeOK, CallsTypeOK
<1>3. PICK w \in Worker : Reporting(w) /\ wtask[w].tid = i BY <1>2 DEF Unreported
<1> QED BY <1>1, <1>3 DEF Kept

LEMMA StepLoss == TypeOK /\ TypeOK' /\ LockInv /\ PathInv /\ LossInv /\ [Next]_vars => LossInv'
<1> SUFFICES ASSUME TypeOK, TypeOK', LockInv, PathInv, LossInv, [Next]_vars PROVE LossInv'
  OBVIOUS
<1>1. /\ IsFiniteSet(Unreported) /\ Cardinality(Unreported) <= Losses
      /\ Losses \in Nat /\ Losses' \in Nat /\ Losses <= Losses'
  BY UnreportedFinite, LossesType, LossesGrow DEF LossInv
<1>2. CASE Unreported' \subseteq Unreported BY <1>1, <1>2, Count DEF LossInv
<1>3. CASE MasterDies
  <2>1. tasks' = << >> BY <1>3 DEF MasterDies
  <2>2. Unreported' = {} BY <2>1 DEF Unreported
  <2> QED BY <1>2, <2>2
<1>4. ASSUME NEW w \in Worker, HandlerApply(w) PROVE LossInv'
  BY <1>2, <1>4, HandlerApplyLoss
<1>5. CASE ~MasterDies /\ \A w \in Worker : ~HandlerApply(w)
  <2>1. CASE \A v \in Worker : Kept(v) BY <1>2, <1>5, <2>1, TasksStep
  <2>2. ASSUME NEW w \in Worker, \A v \in Worker \ {w} : Kept(v), Losses + 1 <= Losses'
        PROVE  LossInv'
    <3>1. Unreported' \subseteq Unreported \cup {wtask[w].tid} BY <1>5, <2>2, TasksStep
    <3> QED BY <1>1, <2>2, <3>1, Count DEF LossInv
  <2> QED BY <1>5, <2>1, <2>2, StepReports
<1> QED BY <1>3, <1>4, <1>5

THEOREM LossCorrect == Spec => []LossInv
<1>1. Init => LossInv
  <2>1. ASSUME Init PROVE LossInv
    <3>1. Unreported = {} BY <2>1 DEF Init, Unreported
    <3>2. faults["worker"] = 0 /\ faults["completion"] = 0 BY <2>1 DEF Init, FaultKind
    <3> QED BY <3>1, <3>2, FS_EmptySet DEF LossInv, Losses
  <2> QED BY <2>1
<1>2. TypeOK /\ TypeOK' /\ LockInv /\ PathInv /\ LossInv /\ [Next]_vars => LossInv'
  BY StepLoss
<1> QED BY <1>1, <1>2, TypeCorrect, LockCorrect, PathCorrect, PTL DEF Spec

(* However many workers, jobs, masters and faults there are, at most as    *)
(* many running tasks are forgotten as workers died or completions were    *)
(* lost: neither a master's death nor a lost reply strands a task.         *)
THEOREM StrandedCorrect == Spec => []StrandedByLoss
<1>1. TypeOK /\ LossInv => StrandedByLoss
  <2> SUFFICES ASSUME TypeOK, LossInv PROVE StrandedByLoss OBVIOUS
  <2>1. IsFiniteSet(Unreported) BY UnreportedFinite
  <2>2. Stranded \subseteq Unreported
    BY DEF Stranded, Unreported, HeldBySomeone, Due, Reporting, Mine
  <2>3. /\ Cardinality(Stranded) \in Nat /\ Cardinality(Unreported) \in Nat
        /\ Cardinality(Stranded) <= Cardinality(Unreported)
    BY <2>1, <2>2, FS_Subset, FS_CardinalityType
  <2>4. faults["worker"] \in Nat /\ faults["completion"] \in Nat
    BY DEF TypeOK, StoreTypeOK, FaultKind
  <2> QED BY <2>3, <2>4 DEF LossInv, Losses, StrandedByLoss
<1> QED BY <1>1, TypeCorrect, LossCorrect, PTL

-----------------------------------------------------------------------------
(* What leaves an entry of workers_ busy *)

(* The same for entries: busy, or the one whose answer is under way *)
EntryDue(k) == workers[k].status = "busy" \/ (rpc = "ok" /\ k = target)
Unreturned == {k \in DOMAIN workers :
                 EntryDue(k) /\ \A w \in Worker : ~(Reporting(w) /\ wtask[w].wid = k)}
EntryInv == Cardinality(Unreturned) <= Losses

LEMMA UnreturnedFinite == ASSUME TypeOK PROVE IsFiniteSet(Unreturned)
<1>1. DOMAIN workers = 1 .. Len(workers) /\ Len(workers) \in Nat BY DEF TypeOK, MasterTypeOK
<1>2. IsFiniteSet(1 .. Len(workers)) BY <1>1, FS_Interval
<1>3. Unreturned \in SUBSET (1 .. Len(workers)) BY <1>1 DEF Unreturned
<1> QED BY <1>2, <1>3, FS_Subset

(* A handler sets the entry idle that its worker's task came by *)
LEMMA HandlerApplyEntry ==
  ASSUME TypeOK, TypeOK', LockInv, NEW w \in Worker, HandlerApply(w)
  PROVE  Unreturned' \subseteq Unreturned
<1> DEFINE k == wtask[w].wid
<1>1. rpc' # "ok" BY DEF HandlerApply, LockInv, InHandler, TypeOK, CallsTypeOK
<1>2. k \in DOMAIN workers /\ workers' = [workers EXCEPT ![k].status = "idle"]
  BY DEF HandlerApply, Known
<1>3. \A v \in Worker \ {w} : Reporting(v) => Reporting(v)' /\ wtask'[v] = wtask[v]
  BY DEF HandlerApply, TypeOK, WorkerTypeOK, Reporting, Mine
<1>4. workers[k] \in [host : Host, status : {"idle", "busy"}] BY <1>2, EntryAt DEF TypeOK
<1>5. /\ DOMAIN workers' = DOMAIN workers
      /\ workers'[k].status = "idle"
      /\ \A h \in DOMAIN workers : h # k => workers'[h] = workers[h]
  <2> HIDE DEF k
  <2> QED BY <1>2, <1>4
<1>6. ASSUME NEW h \in Unreturned' PROVE h \in Unreturned
  <2>1. h # k /\ h \in DOMAIN workers /\ workers[h].status = "busy"
    BY <1>1, <1>5 DEF Unreturned, EntryDue
  <2>2. ASSUME NEW v \in Worker, Reporting(v), wtask[v].wid = h PROVE FALSE
    BY <1>3, <2>1, <2>2 DEF Unreturned
  <2> QED BY <2>1, <2>2 DEF Unreturned, EntryDue
<1> QED BY <1>6

(* An entry that is newly due without a report is one whose report ended *)
LEMMA EntriesStep ==
  ASSUME TypeOK, TypeOK', [Next]_vars, ~MasterDies, \A w \in Worker : ~HandlerApply(w),
         NEW k \in Unreturned', k \notin Unreturned
  PROVE  \E w \in Worker : ~Kept(w) /\ wtask[w].wid = k
<1>1. /\ k \in DOMAIN workers' /\ EntryDue(k)'
      /\ \A w \in Worker : ~(Reporting(w)' /\ wtask'[w].wid = k)
  BY DEF Unreturned
<1>2. k \in DOMAIN workers /\ EntryDue(k)
  <2>1. CASE UNCHANGED workers /\ (rpc' = "ok" => rpc = "ok" /\ target' = target)
    BY <1>1, <2>1 DEF EntryDue
  <2>2. CASE Populate \/ PopulateRetry
    <3>1. rpc' # "ok" BY <2>2 DEF Populate, PopulateRetry, TypeOK, CallsTypeOK
    <3>2. \A h \in DOMAIN workers' : workers'[h].status = "idle"
      <4>1. CASE PopulateRetry
        <5>1. workers' = << >> BY <4>1 DEF PopulateRetry
        <5> QED BY <5>1
      <4>2. CASE Populate
        <5>1. PICK order \in Injection(1 .. Cardinality(registry), registry) :
                workers' = [h \in 1 .. Cardinality(registry) |->
                              [host |-> HostOf[order[h]], status |-> "idle"]]
          BY <4>2, Zenon DEF Populate
        <5> QED BY <5>1
      <4> QED BY <2>2, <4>1, <4>2
    <3> QED BY <1>1, <3>1, <3>2 DEF EntryDue
  <2>3. CASE ReplyOk
    <3>1. target \in DOMAIN workers BY <2>3 DEF ReplyOk, TypeOK, CallsTypeOK
    <3>2. /\ DOMAIN workers' = DOMAIN workers
          /\ \A h \in DOMAIN workers : h # target => workers'[h] = workers[h]
      BY <2>3, <3>1 DEF ReplyOk
    <3>3. rpc = "ok" /\ rpc' = "none" BY <2>3 DEF ReplyOk
    <3> QED BY <1>1, <3>2, <3>3 DEF EntryDue
  <2>4. ASSUME NEW w \in Worker, Accept(w) PROVE k \in DOMAIN workers /\ EntryDue(k)
    <3>1. k # target BY <1>1, <2>4, AcceptReports
    <3> QED BY <1>1, <2>4, <3>1 DEF Accept, EntryDue
  <2>5. CASE \E w \in Worker : WorkerDies(w)
    BY <2>1, <2>5 DEF WorkerDies
  <2> QED
    BY <2>1, <2>2, <2>3, <2>4, <2>5
       DEF Next, MasterStep, WorkerStep, NetworkStep, FaultStep, MasterStart, GetNextJob,
           PollIdle, PopulateAbort, Bootstrap, LockScan, Trigger, ReplyFail, ScanEnd, Check,
           Regroup, JobEnd, RpcRefused, RpcDeliver, MasterCrash, LoseReply, RaceCrash,
           LoseCompletion, WorkerCrash, Expire, HandlerFault, Register, Serve, AcceptOrphan,
           UploadIntermediate, UploadFinal, SendCompletion, NotifyFails, AbortOnFinish,
           HandlerLock, TypeOK, CallsTypeOK
<1>3. PICK w \in Worker : Reporting(w) /\ wtask[w].wid = k BY <1>2 DEF Unreturned
<1> QED BY <1>1, <1>3 DEF Kept

LEMMA StepEntries ==
  TypeOK /\ TypeOK' /\ LockInv /\ PathInv /\ EntryInv /\ [Next]_vars => EntryInv'
<1> SUFFICES ASSUME TypeOK, TypeOK', LockInv, PathInv, EntryInv, [Next]_vars PROVE EntryInv'
  OBVIOUS
<1>1. /\ IsFiniteSet(Unreturned) /\ Cardinality(Unreturned) <= Losses
      /\ Losses \in Nat /\ Losses' \in Nat /\ Losses <= Losses'
  BY UnreturnedFinite, LossesType, LossesGrow DEF EntryInv
<1>2. CASE Unreturned' \subseteq Unreturned BY <1>1, <1>2, Count DEF EntryInv
<1>3. CASE MasterDies
  <2>1. workers' = << >> BY <1>3 DEF MasterDies
  <2>2. Unreturned' = {} BY <2>1 DEF Unreturned
  <2> QED BY <1>2, <2>2
<1>4. ASSUME NEW w \in Worker, HandlerApply(w) PROVE EntryInv'
  BY <1>2, <1>4, HandlerApplyEntry
<1>5. CASE ~MasterDies /\ \A w \in Worker : ~HandlerApply(w)
  <2>1. CASE \A v \in Worker : Kept(v) BY <1>2, <1>5, <2>1, EntriesStep
  <2>2. ASSUME NEW w \in Worker, \A v \in Worker \ {w} : Kept(v), Losses + 1 <= Losses'
        PROVE  EntryInv'
    <3>1. Unreturned' \subseteq Unreturned \cup {wtask[w].wid} BY <1>5, <2>2, EntriesStep
    <3> QED BY <1>1, <2>2, <3>1, Count DEF EntryInv
  <2> QED BY <1>5, <2>1, <2>2, StepReports
<1> QED BY <1>3, <1>4, <1>5

LEMMA EntriesCorrect == Spec => []EntryInv
<1>1. Init => EntryInv
  <2>1. ASSUME Init PROVE EntryInv
    <3>1. Unreturned = {} BY <2>1 DEF Init, Unreturned
    <3>2. faults["worker"] = 0 /\ faults["completion"] = 0 BY <2>1 DEF Init, FaultKind
    <3> QED BY <3>1, <3>2, FS_EmptySet DEF EntryInv, Losses
  <2> QED BY <2>1
<1>2. TypeOK /\ TypeOK' /\ LockInv /\ PathInv /\ EntryInv /\ [Next]_vars => EntryInv'
  BY StepEntries
<1> QED BY <1>1, <1>2, TypeCorrect, LockCorrect, PathCorrect, PTL DEF Spec

(* Of the entries of workers_ at most as many stay busy for ever as workers *)
(* died or completions were lost, whatever replies are lost and masters die. *)
THEOREM AbandonedCorrect == Spec => []AbandonedByLoss
<1>1. TypeOK /\ EntryInv => AbandonedByLoss
  <2> SUFFICES ASSUME TypeOK, EntryInv PROVE AbandonedByLoss OBVIOUS
  <2>1. IsFiniteSet(Unreturned) BY UnreturnedFinite
  <2>2. Abandoned \subseteq Unreturned
    BY DEF Abandoned, Unreturned, EntryHeld, EntryDue, Reporting, Mine
  <2>3. /\ Cardinality(Abandoned) \in Nat /\ Cardinality(Unreturned) \in Nat
        /\ Cardinality(Abandoned) <= Cardinality(Unreturned)
    BY <2>1, <2>2, FS_Subset, FS_CardinalityType
  <2>4. faults["worker"] \in Nat /\ faults["completion"] \in Nat
    BY DEF TypeOK, StoreTypeOK, FaultKind
  <2> QED BY <2>3, <2>4 DEF EntryInv, Losses, AbandonedByLoss
<1> QED BY <1>1, TypeCorrect, EntriesCorrect, PTL
=============================================================================
