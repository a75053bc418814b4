------------------------------ MODULE MapReduce ------------------------------
(***************************************************************************)
(* The job pipeline of src/master/master.cpp and the workers of            *)
(* src/worker/worker.cpp that it drives.                                   *)
(*                                                                         *)
(* One elected master takes a job, lists the workers, cuts the job into    *)
(* map tasks, hands tasks out over gRPC while it holds task_mutex, learns  *)
(* of results through the task_complete handler (another thread, same      *)
(* mutex), regroups the map outputs into reduce tasks and ends the job.  A *)
(* worker is one thread: take a call, execute the task, upload the files,  *)
(* report once, ignore the answer, take the next call.                     *)
(*                                                                         *)
(* Data is abstract: a shard is its index, a file is the identity of the   *)
(* completion that named it, the content of a final file is the list of    *)
(* completions whose files were summed into it.  Calls may be refused,     *)
(* replies and completions may be lost, processes may crash, within the    *)
(* budgets of MaxFaults.                                                   *)
(***************************************************************************)
EXTENDS Naturals, Sequences, FiniteSets, Functions


CONSTANTS
    Worker,       \* worker processes; a restarted container is another process
    Host,         \* network addresses of worker containers
    HostOf,       \* the address each worker process runs at
    MasterHost,   \* addresses at which a master may come up
    NumJobs,      \* jobs /jobs/job_1 .. /jobs/job_NumJobs, all submitted
    NumShards,    \* shards of a job, as createShardAllocations returns them
    NumReducers,  \* num_reducers of a map task
    MaxFaults,    \* budget of each kind of fault
    MaxMasters    \* a master may come up as long as fewer than this died

FaultKind == {"worker", "master", "reply", "completion"}

ASSUME WorkerAssumption == IsFiniteSet(Worker) /\ HostOf \in [Worker -> Host]
ASSUME SizeAssumption ==
    /\ NumJobs \in Nat /\ NumShards \in Nat /\ NumReducers \in Nat \ {0}
    /\ MaxMasters \in Nat /\ MaxFaults \in [FaultKind -> Nat]

Job       == 1 .. NumJobs
TaskId    == Nat \ {0}          \* positions in tasks_, from 1
WorkerId  == Nat \ {0}          \* positions in workers_, from 1
TaskType  == {"map", "reduce"}

(* What a TaskCompletion names: the output files of one execution.  A map  *)
(* names one file per reducer, a reduce its single final file.             *)
Completion == [job : Job, type : TaskType, wid : WorkerId, tid : TaskId]

(* A Task as the master keeps it.  ins[t] lists the completions recorded   *)
(* for map task t: of each, the task reads the files of reducer red.       *)
TaskState == [status : {"queued", "running", "completed"},
              red : Nat, ins : Seq(Seq(Completion)), outs : Seq(Completion)]

(* A Task as execute_task carries it; inc, the master that sent it, is not *)
(* in the message and only serves the properties.                          *)
TaskMsg == [job : Job, type : TaskType, tid : TaskId, wid : WorkerId, red : Nat,
            ins : Seq(Seq(Completion)), url : MasterHost, inc : Nat]

NoTask == [type |-> "none"]
NoFile == [red |-> 0, ins |-> << >>]

VARIABLES
    pc,        \* where the master's main thread is
    url,       \* address of the current master, or of the last one
    inc,       \* masters that died so far
    job,       \* Master::job
    phase,     \* argument of schedule
    tasks,     \* Master::tasks_; the id of a task is its index
    workers,   \* Master::workers_; the id of an entry is its index
    mutex,     \* holder of Master::task_mutex
    cur,       \* the scan's position in tasks
    target,    \* the entry of workers that trigger is calling
    allDone,   \* tasks_comp == tasks_count of the last scan
    rpc,       \* state of the master's one outstanding execute_task call
    wpc,       \* where a worker process is
    wtask,     \* the task it executes
    nup,       \* files of that task it has uploaded
    orphans,   \* calls waiting in its queue whose caller gave up or died
    badFinish, \* a Finish it issued will come back with ok = false
    call,      \* state of its task_complete call
    jobStatus, \* /jobs/job_<n>/status
    wdir,      \* /workers exists
    registry,  \* processes with a znode under /workers
    blobs,     \* intermediate files in the blob store
    final,     \* final files in the blob store
    faults,    \* faults spent
    tainted    \* a reply was lost or a dead master's task was reported to a live one

ctlVars    == <<url, inc, job, phase>>
tableVars  == <<tasks, workers>>
scanVars   == <<cur, target, allDone>>
masterVars == <<pc, ctlVars, tableVars, mutex, scanVars, rpc>>
holdVars   == <<wpc, wtask, nup>>
queueVars  == <<orphans, badFinish>>
workerVars == <<holdVars, queueVars, call>>
zkVars     == <<jobStatus, wdir, registry>>
blobVars   == <<blobs, final>>
faultVars  == <<faults, tainted>>
envVars    == <<workerVars, zkVars, blobVars, faultVars>>
vars       == <<masterVars, envVars>>

-----------------------------------------------------------------------------
(* Helpers *)

NewTask(r, files) == [status |-> "queued", red |-> r, ins |-> files, outs |-> << >>]

Msg == [job |-> job, type |-> phase, tid |-> cur, wid |-> target,
        red |-> tasks[cur].red, ins |-> tasks[cur].ins, url |-> url, inc |-> inc]

\* mutant: task ids counted from 0
CompletionOf_ZeroBased(m) ==
    [job |-> m.job, type |-> m.type, wid |-> m.wid, tid |-> m.tid - 1]
CompletionOf(m) == [job |-> m.job, type |-> m.type, wid |-> m.wid, tid |-> m.tid]

(* ./job_<job>/intermediates/<wid>_<tid>_<r> *)
Blob(c, r) == [job |-> c.job, wid |-> c.wid, tid |-> c.tid, red |-> r]

(* The reducer id bootstrap_reduce parses from a file name is what follows *)
(* its last '_': the reducer of an intermediate, the task id of a final.   *)
NamesReducer(c, r) == c.type = "map" \/ c.tid = r

Alive(w)    == wpc[w] \notin {"off", "dead"}
Serving(w)  == wpc[w] \notin {"off", "registered", "dead"}
AtTarget(w) == target \in DOMAIN workers /\ workers[target].host = HostOf[w]
Holding(w)  == wpc[w] \in {"exec", "notify"} \/ call[w] # "none"
CallQueuedAt(w) == rpc = "queued" /\ Serving(w) /\ AtTarget(w)

\* mutant: task_complete does not wait for schedule
MutexFree_HandlersOnly == mutex # "handler"
MutexFree == mutex = "free"

\* mutant: the phase ends once nothing is left to hand out
AllCompleted_NoneQueued == \A i \in DOMAIN tasks : tasks[i].status # "queued"
AllCompleted == \A i \in DOMAIN tasks : tasks[i].status = "completed"

Spend(kind) == /\ faults[kind] < MaxFaults[kind]
               /\ faults' = [faults EXCEPT ![kind] = @ + 1]

-----------------------------------------------------------------------------
(* The master *)

(* A process wins the election at some address, starts its server thread   *)
(* and enters the loop of Master::execute.                                 *)
MasterStart ==
    /\ pc = "down"
    /\ inc < MaxMasters
    /\ pc' = "poll"
    /\ url' \in MasterHost
    /\ UNCHANGED <<inc, job, phase, tableVars, mutex, scanVars, rpc, envVars>>

(* The master's tables are its memory: they go with it, and so do the      *)
(* calls it was serving.  A call it had made to a worker stays in that     *)
(* worker's queue, without a caller.                                       *)
MasterDies ==
    /\ pc' = "down" /\ inc' = inc + 1 /\ job' = 0 /\ phase' = "map"
    /\ tasks' = << >> /\ workers' = << >> /\ mutex' = "free"
    /\ cur' = 0 /\ target' = 0 /\ allDone' = FALSE /\ rpc' = "none"
    /\ orphans' = [w \in Worker |->
                     IF CallQueuedAt(w) THEN Append(orphans[w], Msg) ELSE orphans[w]]
    /\ call' = [w \in Worker |-> "none"]
    /\ UNCHANGED <<url, holdVars, badFinish, zkVars, blobVars>>

MasterCrash ==
    /\ pc # "down"
    /\ Spend("master")
    /\ MasterDies
    /\ UNCHANGED tainted

(* get_next_job: the lowest job whose status is CREATED *)
GetNextJob ==
    /\ pc = "poll"
    /\ \E j \in Job :
         /\ jobStatus[j] = "CREATED"
         /\ \A i \in 1 .. j - 1 : jobStatus[i] # "CREATED"
         /\ job' = j
    /\ pc' = "populate"
    /\ UNCHANGED <<url, inc, phase, tableVars, mutex, scanVars, rpc, envVars>>

(* "No incomplete jobs available": sleep and poll again *)
PollIdle ==
    /\ pc = "poll"
    /\ \A j \in Job : jobStatus[j] # "CREATED"
    /\ UNCHANGED vars

(* One entry per znode under /workers, in the order the children come, ids *)
(* from 1, all idle.                                                       *)
Populate ==
    /\ pc = "populate"
    /\ wdir
    /\ registry # {}
    /\ \E order \in Injection(1 .. Cardinality(registry), registry) :
         workers' = [k \in 1 .. Cardinality(registry) |->
                       [host |-> HostOf[order[k]], status |-> "idle"]]
    /\ pc' = "bootstrap"
    /\ UNCHANGED <<ctlVars, tasks, mutex, scanVars, rpc, envVars>>

(* /workers is there but has no children: clear workers_ and try again *)
PopulateRetry ==
    /\ pc = "populate"
    /\ wdir
    /\ registry = {}
    /\ workers' = << >>
    /\ UNCHANGED <<pc, ctlVars, tasks, mutex, scanVars, rpc, envVars>>

(* /workers is not there: the assertion of populate ends the process.  No  *)
(* worker ever registered, so the process leaves nothing behind.           *)
PopulateAbort ==
    /\ pc = "populate"
    /\ ~wdir
    /\ pc' = "down" /\ job' = 0
    /\ UNCHANGED <<url, inc, phase, tableVars, mutex, scanVars, rpc, envVars>>

(* One map task per shard, ids from 1 *)
MapTasks == [i \in 1 .. NumShards |-> NewTask(0, << >>)]

Bootstrap ==
    /\ pc = "bootstrap"
    /\ tasks' = tasks \o MapTasks
    /\ phase' = "map"
    /\ pc' = "lock"
    /\ UNCHANGED <<url, inc, job, workers, mutex, scanVars, rpc, envVars>>

(* schedule: one scan of tasks_, made under task_mutex *)
LockScan ==
    /\ pc = "lock"
    /\ MutexFree
    /\ mutex' = "sched" /\ pc' = "scan" /\ cur' = 1
    /\ UNCHANGED <<ctlVars, tableVars, target, allDone, rpc, envVars>>

NextQueued(i) == /\ i \in DOMAIN tasks /\ i >= cur /\ tasks[i].status = "queued"
                 /\ \A h \in cur .. i - 1 : tasks[h].status # "queued"

(* choose_worker *)
\* mutant: the status of the entry is not looked at
FirstIdle_AnyStatus(k) == k = 1 /\ k \in DOMAIN workers
\* mutant: the loop stops before the last entry
FirstIdle_SkipLast(k) ==
    /\ k \in 1 .. Len(workers) - 1 /\ workers[k].status = "idle"
    /\ \A h \in 1 .. k - 1 : workers[h].status # "idle"
FirstIdle(k) == /\ k \in DOMAIN workers /\ workers[k].status = "idle"
                /\ \A h \in 1 .. k - 1 : workers[h].status # "idle"

(* The next queued task goes to the first idle entry; the call is made     *)
(* with the mutex held and the thread waits for its outcome.               *)
Trigger ==
    /\ pc = "scan"
    /\ \E i \in DOMAIN tasks, k \in DOMAIN workers :
         /\ NextQueued(i) /\ FirstIdle(k)
         /\ cur' = i /\ target' = k
    /\ pc' = "rpc" /\ rpc' = "sent"
    /\ UNCHANGED <<ctlVars, tableVars, mutex, allDone, envVars>>

\* mutant: the entry set busy is the one numbered like the task
ReplyOk_ByTask ==
    /\ pc = "rpc" /\ rpc = "ok"
    /\ tasks' = [tasks EXCEPT ![cur].status = "running"]
    /\ workers' = [workers EXCEPT ![IF cur \in DOMAIN workers THEN cur ELSE target].status = "busy"]
    /\ pc' = "scan" /\ rpc' = "none" /\ cur' = cur + 1 /\ target' = 0
    /\ UNCHANGED <<ctlVars, mutex, allDone, envVars>>

ReplyOk ==
    /\ pc = "rpc" /\ rpc = "ok"
    /\ tasks' = [tasks EXCEPT ![cur].status = "running"]
    /\ workers' = [workers EXCEPT ![target].status = "busy"]
    /\ pc' = "scan" /\ rpc' = "none" /\ cur' = cur + 1 /\ target' = 0
    /\ UNCHANGED <<ctlVars, mutex, allDone, envVars>>

(* "Trigger unsuccessful": the task stays queued, the entry stays idle *)
ReplyFail ==
    /\ pc = "rpc" /\ rpc = "failed"
    /\ pc' = "scan" /\ rpc' = "none" /\ cur' = cur + 1 /\ target' = 0
    /\ UNCHANGED <<ctlVars, tableVars, mutex, allDone, envVars>>

ScanEnd ==
    /\ pc = "scan"
    /\ \/ \A i \in DOMAIN tasks : ~NextQueued(i)
       \/ \A k \in DOMAIN workers : ~FirstIdle(k)
    /\ allDone' = AllCompleted
    /\ mutex' = "free" /\ pc' = "check" /\ cur' = 0
    /\ UNCHANGED <<ctlVars, tableVars, target, rpc, envVars>>

(* After the sleep outside the lock: scan again, or leave schedule *)
Check ==
    /\ pc = "check"
    /\ \/ ~allDone /\ pc' = "lock"
       \/ allDone /\ phase = "map" /\ pc' = "regroup"
       \/ allDone /\ phase = "reduce" /\ pc' = "end"
    /\ allDone' = FALSE
    /\ UNCHANGED <<ctlVars, tableVars, mutex, cur, target, rpc, envVars>>

(* bootstrap_reduce and job_end replace tasks_ without the mutex.  A       *)
(* handler at work then may hold a task of the old list, which lives on    *)
(* detached from the new one.                                              *)
MayDetach ==
    \/ UNCHANGED call
    \/ \E w \in Worker : call[w] = "locked" /\ call' = [call EXCEPT ![w] = "detached"]

(* bootstrap_reduce: one task per reducer id found, in the order of ids *)
Regroup ==
    /\ pc = "regroup"
    /\ LET found == {r \in 1 .. NumReducers : \E t \in DOMAIN tasks :
                        \E n \in DOMAIN tasks[t].outs : NamesReducer(tasks[t].outs[n], r)}
       IN  \E ids \in [1 .. Cardinality(found) -> found] :
             /\ \A a, b \in 1 .. Cardinality(found) : a < b => ids[a] < ids[b]
             /\ tasks' = [n \in 1 .. Cardinality(found) |->
                            NewTask(ids[n], [t \in 1 .. Len(tasks) |-> tasks[t].outs])]
    /\ phase' = "reduce" /\ pc' = "lock"
    /\ MayDetach
    /\ UNCHANGED <<url, inc, job, workers, mutex, scanVars, rpc, holdVars,
                   queueVars, zkVars, blobVars, faultVars>>

JobEnd ==
    /\ pc = "end"
    /\ tasks' = << >>
    /\ jobStatus' = [jobStatus EXCEPT ![job] = "COMPLETED"]
    /\ pc' = "poll"
    /\ MayDetach
    /\ UNCHANGED <<ctlVars, workers, mutex, scanVars, rpc, holdVars, queueVars,
                   wdir, registry, blobVars, faultVars>>

(* The steps that write tasks_ or workers_ without the mutex *)
Unlocked == {"populate", "bootstrap", "regroup", "end"}

(* A handler reads the vectors such a step writes: a data race, whose      *)
(* other outcome is a crash.                                               *)
RaceCrash ==
    /\ pc \in Unlocked
    /\ mutex = "handler"
    /\ MasterDies
    /\ UNCHANGED faultVars

-----------------------------------------------------------------------------
(* task_complete, on a server thread of the master *)

HandlerLock(w) ==
    /\ call[w] = "sent"
    /\ MutexFree
    /\ mutex' = "handler"
    /\ call' = [call EXCEPT ![w] = "locked"]
    /\ UNCHANGED <<pc, ctlVars, tableVars, scanVars, rpc, holdVars, queueVars,
                   zkVars, blobVars, faultVars>>

(* get_task_by_id and get_worker_by_id find what the completion names *)
Known(w) == /\ call[w] = "detached" \/ wtask[w].tid \in DOMAIN tasks
            /\ wtask[w].wid \in DOMAIN workers

(* Set the task completed, the entry idle, append the output files, unlock *)
(* and answer; the worker is back at its queue.                            *)
HandlerApply(w) ==
    /\ call[w] \in {"locked", "detached"}
    /\ Known(w)
    /\ \/ /\ call[w] = "locked"
          /\ tasks' = [tasks EXCEPT
                             ![wtask[w].tid].status = "completed",
                             ![wtask[w].tid].outs = Append(@, CompletionOf(wtask[w]))]
       \/ call[w] = "detached" /\ UNCHANGED tasks
    /\ workers' = [workers EXCEPT ![wtask[w].wid].status = "idle"]
    /\ mutex' = "free"
    /\ call' = [call EXCEPT ![w] = "none"]
    /\ wpc' = [wpc EXCEPT ![w] = IF @ = "notify" THEN "next" ELSE @]
    /\ wtask' = [wtask EXCEPT ![w] = NoTask]
    /\ nup' = [nup EXCEPT ![w] = 0]
    /\ UNCHANGED <<pc, ctlVars, scanVars, rpc, queueVars, zkVars, blobVars,
                   faultVars>>

(* A NULL task or worker is dereferenced: the master dies *)
HandlerFault(w) ==
    /\ call[w] \in {"locked", "detached"}
    /\ ~Known(w)
    /\ MasterDies
    /\ UNCHANGED faultVars

-----------------------------------------------------------------------------
(* execute_task on the network *)

RpcDeliver(w) ==
    /\ rpc = "sent" /\ AtTarget(w) /\ Serving(w)
    /\ rpc' = "queued"
    /\ UNCHANGED <<pc, ctlVars, tableVars, mutex, scanVars, envVars>>

(* Nobody listens at the address *)
RpcRefused ==
    /\ rpc = "sent" /\ \A w \in Worker : ~(AtTarget(w) /\ Serving(w))
    /\ rpc' = "failed"
    /\ UNCHANGED <<pc, ctlVars, tableVars, mutex, scanVars, envVars>>

(* The connection breaks after the request arrived: the master sees an     *)
(* error, the worker has the task, in its queue or in its hands.           *)
LoseReply ==
    /\ Spend("reply")
    /\ \/ rpc = "ok" /\ UNCHANGED orphans
       \/ /\ rpc = "queued"
          /\ orphans' = [w \in Worker |->
               IF CallQueuedAt(w) THEN Append(orphans[w], Msg) ELSE orphans[w]]
    /\ rpc' = "failed"
    /\ tainted' = TRUE
    /\ UNCHANGED <<pc, ctlVars, tableVars, mutex, scanVars, holdVars, badFinish,
                   call, zkVars, blobVars>>

-----------------------------------------------------------------------------
(* The workers *)

(* A container has one worker process at a time.  The process creates      *)
(* /workers if it must, and its own ephemeral znode.                       *)
Register(w) ==
    /\ wpc[w] = "off"
    /\ \A v \in Worker \ {w} : HostOf[v] = HostOf[w] => ~Alive(v)
    /\ wpc' = [wpc EXCEPT ![w] = "registered"]
    /\ wdir' = TRUE
    /\ registry' = registry \cup {w}
    /\ UNCHANGED <<wtask, nup, queueVars, call, jobStatus, masterVars, blobVars,
                   faultVars>>

(* The server listens and HandleRpcs waits for its first event *)
Serve(w) ==
    /\ wpc[w] = "registered"
    /\ wpc' = [wpc EXCEPT ![w] = "next"]
    /\ UNCHANGED <<wtask, nup, queueVars, call, masterVars, zkVars, blobVars,
                   faultVars>>

(* HandleRpcs takes a call from the queue, answers OK and executes it in   *)
(* the same iteration.                                                     *)
Accept(w) ==
    /\ wpc[w] = "next"
    /\ CallQueuedAt(w)
    /\ wtask' = [wtask EXCEPT ![w] = Msg]
    /\ rpc' = "ok"
    /\ wpc' = [wpc EXCEPT ![w] = "exec"]
    /\ UNCHANGED <<pc, ctlVars, tableVars, mutex, scanVars, nup, queueVars,
                   call, zkVars, blobVars, faultVars>>

(* The same for a call without a caller; its Finish may fail, which shows  *)
(* when the event of that Finish is taken.                                 *)
AcceptOrphan(w) ==
    /\ wpc[w] = "next"
    /\ orphans[w] # << >>
    /\ wtask' = [wtask EXCEPT ![w] = Head(orphans[w])]
    /\ orphans' = [orphans EXCEPT ![w] = Tail(@)]
    /\ badFinish' \in {badFinish, [badFinish EXCEPT ![w] = TRUE]}
    /\ wpc' = [wpc EXCEPT ![w] = "exec"]
    /\ UNCHANGED <<nup, call, masterVars, zkVars, blobVars, faultVars>>

(* map uploads its NumReducers files one by one *)
UploadIntermediate(w) ==
    /\ wpc[w] = "exec" /\ wtask[w].type = "map"
    /\ nup[w] < NumReducers
    /\ blobs' = blobs \cup {Blob(wtask[w], nup[w] + 1)}
    /\ nup' = [nup EXCEPT ![w] = @ + 1]
    /\ UNCHANGED <<wpc, wtask, queueVars, call, final, masterVars, zkVars,
                   faultVars>>

(* reduce sums its inputs and uploads final_<tid>.txt *)
UploadFinal(w) ==
    /\ wpc[w] = "exec" /\ wtask[w].type = "reduce"
    /\ nup[w] = 0
    /\ final' = [final EXCEPT ![wtask[w].job][wtask[w].tid] =
                   [red |-> wtask[w].red, ins |-> wtask[w].ins]]
    /\ nup' = [nup EXCEPT ![w] = 1]
    /\ UNCHANGED <<wpc, wtask, queueVars, call, blobs, masterVars, zkVars,
                   faultVars>>

\* mutant: the completion goes out before the last upload
UploadsDone_Early(w) == nup[w] >= (IF wtask[w].type = "map" THEN NumReducers ELSE 1) - 1
UploadsDone(w) == nup[w] = IF wtask[w].type = "map" THEN NumReducers ELSE 1

(* sendTaskCompletion: one attempt, at the address the task came with *)
SendCompletion(w) ==
    /\ wpc[w] = "exec"
    /\ UploadsDone(w)
    /\ wpc' = [wpc EXCEPT ![w] = "notify"]
    /\ IF pc # "down" /\ url = wtask[w].url
         THEN /\ call' = [call EXCEPT ![w] = "sent"]
              /\ tainted' = (tainted \/ wtask[w].inc # inc)
         ELSE UNCHANGED <<call, tainted>>
    /\ UNCHANGED <<wtask, nup, queueVars, faults, masterVars, zkVars, blobVars>>

LoseCompletion(w) ==
    /\ call[w] = "sent"
    /\ Spend("completion")
    /\ call' = [call EXCEPT ![w] = "none"]
    /\ UNCHANGED <<holdVars, queueVars, tainted, masterVars, zkVars, blobVars>>

(* The attempt failed; executeTask ignores the result *)
NotifyFails(w) ==
    /\ wpc[w] = "notify" /\ call[w] = "none"
    /\ wpc' = [wpc EXCEPT ![w] = "next"]
    /\ wtask' = [wtask EXCEPT ![w] = NoTask]
    /\ nup' = [nup EXCEPT ![w] = 0]
    /\ UNCHANGED <<queueVars, call, masterVars, zkVars, blobVars, faultVars>>

(* A process ends.  Its znode stays until the session expires, a call in   *)
(* its queue fails, and a completion on its way may still arrive.          *)
WorkerDies(w) ==
    /\ wpc' = [wpc EXCEPT ![w] = "dead"]
    /\ nup' = [nup EXCEPT ![w] = 0]
    /\ orphans' = [orphans EXCEPT ![w] = << >>]
    /\ badFinish' = [badFinish EXCEPT ![w] = FALSE]
    /\ rpc' = IF CallQueuedAt(w) THEN "failed" ELSE rpc
    /\ \/ call[w] # "none" /\ UNCHANGED <<call, wtask>>
       \/ /\ call[w] \in {"none", "sent"}
          /\ call' = [call EXCEPT ![w] = "none"]
          /\ wtask' = [wtask EXCEPT ![w] = NoTask]
    /\ UNCHANGED <<pc, ctlVars, tableVars, mutex, scanVars, zkVars, blobVars>>

WorkerCrash(w) ==
    /\ Alive(w)
    /\ Spend("worker")
    /\ WorkerDies(w)
    /\ UNCHANGED tainted

(* GPR_ASSERT(ok) on the event of a Finish that failed *)
AbortOnFinish(w) ==
    /\ wpc[w] = "next"
    /\ badFinish[w]
    /\ WorkerDies(w)
    /\ UNCHANGED faultVars

(* ZooKeeper expires the session of a dead process *)
Expire(w) ==
    /\ wpc[w] = "dead" /\ w \in registry
    /\ registry' = registry \ {w}
    /\ UNCHANGED <<jobStatus, wdir, masterVars, workerVars, blobVars, faultVars>>

-----------------------------------------------------------------------------
Init ==
    /\ pc = "down" /\ url \in MasterHost /\ inc = 0 /\ job = 0 /\ phase = "map"
    /\ tasks = << >> /\ workers = << >> /\ mutex = "free"
    /\ cur = 0 /\ target = 0 /\ allDone = FALSE /\ rpc = "none"
    /\ wpc = [w \in Worker |-> "off"]
    /\ wtask = [w \in Worker |-> NoTask]
    /\ nup = [w \in Worker |-> 0]
    /\ orphans = [w \in Worker |-> << >>]
    /\ badFinish = [w \in Worker |-> FALSE]
    /\ call = [w \in Worker |-> "none"]
    /\ jobStatus = [j \in Job |-> "CREATED"]
    /\ wdir = FALSE /\ registry = {}
    /\ blobs = {} /\ final = [j \in Job |-> [r \in 1 .. NumReducers |-> NoFile]]
    /\ faults = [kind \in FaultKind |-> 0] /\ tainted = FALSE

(* The main thread of the master, election included *)
MasterStep ==
    \/ MasterStart \/ GetNextJob \/ PollIdle
    \/ Populate \/ PopulateRetry \/ PopulateAbort
    \/ Bootstrap \/ LockScan \/ Trigger \/ ReplyOk \/ ReplyFail \/ ScanEnd
    \/ Check \/ Regroup \/ JobEnd

(* A worker's own thread *)
WorkerStep(w) ==
    \/ Register(w) \/ Serve(w) \/ Accept(w) \/ AcceptOrphan(w)
    \/ UploadIntermediate(w) \/ UploadFinal(w) \/ SendCompletion(w)
    \/ NotifyFails(w) \/ AbortOnFinish(w)

NetworkStep == RpcRefused \/ \E w \in Worker : RpcDeliver(w)

FaultStep ==
    \/ MasterCrash \/ LoseReply \/ RaceCrash
    \/ \E w \in Worker : LoseCompletion(w) \/ WorkerCrash(w) \/ Expire(w) \/ HandlerFault(w)

Next ==
    \/ MasterStep \/ NetworkStep \/ FaultStep
    \/ \E w \in Worker : WorkerStep(w) \/ HandlerLock(w) \/ HandlerApply(w)

(* The threads run; the network delivers or refuses; a handler that waits  *)
(* for task_mutex gets it in the end if the mutex is free again and again: *)
(* schedule sleeps a second outside the lock between two scans.            *)
Fairness ==
    /\ WF_vars(MasterStep)
    /\ WF_vars(NetworkStep)
    /\ \A w \in Worker : /\ WF_vars(WorkerStep(w))
                         /\ SF_vars(HandlerLock(w))
                         /\ WF_vars(HandlerApply(w))

Spec     == Init /\ [][Next]_vars
FairSpec == Spec /\ Fairness
-----------------------------------------------------------------------------
(* Properties *)

(* Type invariant *)
MasterTypeOK ==
    /\ pc \in {"down", "poll", "populate", "bootstrap", "lock", "scan", "rpc",
               "check", "regroup", "end"}
    /\ url \in MasterHost /\ inc \in Nat /\ job \in Job \cup {0} /\ phase \in TaskType
    /\ pc \notin {"down", "poll"} => job \in Job
    /\ tasks \in Seq(TaskState)
    /\ workers \in Seq([host : Host, status : {"idle", "busy"}])
    /\ mutex \in {"free", "sched", "handler"}
    /\ cur \in Nat /\ target \in Nat /\ allDone \in BOOLEAN
    /\ rpc \in {"none", "sent", "queued", "ok", "failed"}

WorkerTypeOK ==
    /\ wpc \in [Worker -> {"off", "registered", "next", "exec", "notify", "dead"}]
    /\ wtask \in [Worker -> TaskMsg \cup {NoTask}]
    /\ nup \in [Worker -> 0 .. NumReducers]
    /\ orphans \in [Worker -> Seq(TaskMsg)]
    /\ badFinish \in [Worker -> BOOLEAN]
    /\ call \in [Worker -> {"none", "sent", "locked", "detached"}]

StoreTypeOK ==
    /\ jobStatus \in [Job -> {"CREATED", "COMPLETED"}]
    /\ wdir \in BOOLEAN /\ registry \subseteq Worker
    /\ blobs \subseteq [job : Job, wid : WorkerId, tid : TaskId, red : 1 .. NumReducers]
    /\ final \in [Job -> [1 .. NumReducers -> [red : Nat, ins : Seq(Seq(Completion))]]]
    /\ faults \in [FaultKind -> Nat] /\ tainted \in BOOLEAN

(* A call is outstanding only while the thread waits for it, and then it   *)
(* is about a task and an entry that exist; a worker that executes or      *)
(* reports, or whose report is under way, has a task.                      *)
CallsTypeOK ==
    /\ pc = "rpc" <=> rpc # "none"
    /\ pc = "rpc" => cur \in DOMAIN tasks /\ target \in DOMAIN workers
    /\ \A w \in Worker : /\ Holding(w) => wtask[w] \in TaskMsg
                         /\ call[w] # "none" => wpc[w] \in {"notify", "dead"}

TypeOK == MasterTypeOK /\ WorkerTypeOK /\ StoreTypeOK /\ CallsTypeOK

(* The final file of reducer r of job j was reduced from the map outputs   *)
(* of each shard of the job, each taken exactly once.                      *)
SumsEachShardOnce(j, r, f) ==
    /\ f.red = r
    /\ Len(f.ins) = NumShards
    /\ \A t \in 1 .. NumShards : \E wid \in 1 .. Cardinality(Worker) :
         f.ins[t] = << [job |-> j, type |-> "map", wid |-> wid, tid |-> t] >>
(* A completion that is on record anywhere, as an output, as an input, or  *)
(* on its way to the master, names files that are in the blob store: the   *)
(* save_blob calls of reduce always find their files, under every fault.   *)
InStore(b, f, c) == IF c.type = "map" THEN \A r \in 1 .. NumReducers : Blob(c, r) \in b
                    ELSE c.tid \in 1 .. NumReducers /\ f[c.job][c.tid] # NoFile
ListInStore(b, f, list)   == \A n \in DOMAIN list : InStore(b, f, list[n])
InputsInStore(b, f, list) == \A n \in DOMAIN list : ListInStore(b, f, list[n])
Stored(c)       == InStore(blobs, final, c)
OutputsStored(list) == ListInStore(blobs, final, list)
InputsStored(list)  == InputsInStore(blobs, final, list)
InputsUploaded ==
    /\ \A i \in DOMAIN tasks : OutputsStored(tasks[i].outs) /\ InputsStored(tasks[i].ins)
    /\ \A w \in Worker :
         /\ Holding(w) => InputsStored(wtask[w].ins)
         /\ wpc[w] = "notify" \/ call[w] # "none" => Stored(CompletionOf(wtask[w]))
         /\ \A n \in DOMAIN orphans[w] : InputsStored(orphans[w][n].ins)

(* InputsUploaded is kept because a completion goes out after the last     *)
(* upload of its task, so what a worker has uploaded so far is on record.  *)
ReduceTask(type, tid, red) ==
    type = "reduce" => tid \in 1 .. NumReducers /\ red \in 1 .. NumReducers
TaskFiles(i) == /\ OutputsStored(tasks[i].outs) /\ InputsStored(tasks[i].ins)
                /\ ReduceTask(phase, i, tasks[i].red)
MsgFiles(b, f, m) == InputsInStore(b, f, m.ins) /\ ReduceTask(m.type, m.tid, m.red)
WorkerFiles(w) ==
    /\ Holding(w) => MsgFiles(blobs, final, wtask[w])
    /\ \A n \in DOMAIN orphans[w] : MsgFiles(blobs, final, orphans[w][n])
    /\ wpc[w] = "notify" \/ call[w] # "none" => Stored(CompletionOf(wtask[w]))
    /\ wpc[w] \notin {"exec", "notify"} => nup[w] = 0
    /\ wpc[w] = "exec" /\ wtask[w].type = "map" =>
         \A r \in 1 .. nup[w] : Blob(wtask[w], r) \in blobs
    /\ wpc[w] = "exec" /\ wtask[w].type = "reduce" /\ nup[w] = 1 =>
         Stored(CompletionOf(wtask[w]))
FilesInv == (\A i \in DOMAIN tasks : TaskFiles(i)) /\ (\A w \in Worker : WorkerFiles(w))

(* task_mutex is held by schedule exactly during a scan and by one handler *)
(* at a time, so the task a scan hands out is still queued when the answer *)
(* to execute_task comes.                                                  *)
InHandler(w) == call[w] \in {"locked", "detached"}
LockInv ==
    /\ pc \in {"scan", "rpc"} <=> mutex = "sched"
    /\ \A w \in Worker : InHandler(w) => mutex = "handler"
    /\ \A v, w \in Worker : InHandler(v) /\ InHandler(w) => v = w
    /\ pc = "rpc" => tasks[cur].status = "queued"

(* Within a phase a completed task stays completed and its outputs are     *)
(* only appended to, even when trigger and a completion of the same task   *)
(* overlap: that is what holding task_mutex across the call buys.          *)
Extends(long, short) == /\ Len(short) <= Len(long)
                        /\ \A n \in DOMAIN short : long[n] = short[n]
CompletedStep ==
    pc' # "down" /\ ~(pc \in Unlocked /\ pc' # pc) =>
       \A i \in DOMAIN tasks :
          /\ i \in DOMAIN tasks'
          /\ tasks[i].status = "completed" => tasks'[i].status = "completed"
          /\ Extends(tasks'[i].outs, tasks[i].outs)
CompletedStays == [][CompletedStep]_vars

(* As many entries of workers_ are busy as tasks are running, as long as   *)
(* no reply was lost and no dead master's task was reported to a live one: *)
(* no phase begins with an entry that nobody will ever set idle.           *)
BusyMatchesRunning ==
    ~tainted => Cardinality({k \in DOMAIN workers : workers[k].status = "busy"})
                  = Cardinality({i \in DOMAIN tasks : tasks[i].status = "running"})

(* The master has no timeout: a running task whose worker died, or whose   *)
(* one completion was lost, stays running.  Nothing else strands a task:   *)
(* neither a reply that is lost, which has the task executed twice, nor    *)
(* the abort of a worker whose Finish finds no caller (worker.cpp:425),    *)
(* nor a dead master's task that is reported to a later master.            *)
HeldBySomeone(i) == \E w \in Worker : /\ wtask[w] # NoTask
                                      /\ wtask[w].inc = inc /\ wtask[w].tid = i
Stranded == {i \in DOMAIN tasks : tasks[i].status = "running" /\ ~HeldBySomeone(i)}
StrandedByLoss == Cardinality(Stranded) <= faults["worker"] + faults["completion"]

(* So it is with the entries of workers_: one that is busy without any     *)
(* worker that executes or reports what the master gave it stays busy, and *)
(* only a death or a lost completion leaves it so.                         *)
EntryHeld(k) == \E w \in Worker : /\ wtask[w] # NoTask
                                  /\ wtask[w].inc = inc /\ wtask[w].wid = k
Abandoned == {k \in DOMAIN workers : workers[k].status = "busy" /\ ~EntryHeld(k)}
AbandonedByLoss == Cardinality(Abandoned) <= faults["worker"] + faults["completion"]

(* The steps that write tasks_ and workers_ without task_mutex overlap     *)
(* with no task_complete call, not even one still waiting, as long as no   *)
(* reply was lost and no dead master's task was reported to a live one.    *)
UnlockedWritesAlone ==
    ~tainted /\ pc \in Unlocked => \A w \in Worker : call[w] = "none"

(* The master waits, with task_mutex held, for the answer of a worker      *)
(* whose one thread waits for task_mutex in a task_complete call.  Nothing *)
(* but a crash or a broken connection ends that.                           *)
MutualWait == \E w \in Worker : CallQueuedAt(w) /\ call[w] = "sent"
DistinctHosts == \A k, l \in DOMAIN workers : workers[k].host = workers[l].host => k = l

(* A worker with a task answers a second one with CANCELLED at once        *)
(* (Proceed, worker.cpp:366), and schedule goes on after an unsuccessful   *)
(* trigger: with every address once in workers_, nobody waits in a circle. *)
(* The code does not keep this: after a lost reply the entry of a worker   *)
(* at work is idle, and the next scan calls it.                            *)
NoMutualWait == DistinctHosts => ~MutualWait

(* A circular wait has one of three causes: an address that is listed      *)
(* twice in workers_, a reply that was lost, or a dead master's task that  *)
(* was reported to a live one.                                             *)
MutualWaitNeedsFault == DistinctHosts /\ MutualWait => tainted

(* The pipeline implements the board of jobs (get_next_job, output_files,  *)
(* bootstrap_reduce, reduce, job_end): jobs are completed lowest first,    *)
(* each once, whatever master crashes and starts over, and a completed     *)
(* job's files sum every shard exactly once, then and for ever, as long as *)
(* no reply was lost and no dead master's task was reported to a live one. *)
Exact(j) == tainted \/ NumShards = 0
              \/ \A r \in 1 .. NumReducers : SumsEachShardOnce(j, r, final[j][r])
Answer == [j \in Job |-> IF jobStatus[j] # "COMPLETED" THEN "none"
                         ELSE IF Exact(j) THEN "exact" ELSE "wrong"]
Board == INSTANCE JobBoard WITH status <- jobStatus, answer <- Answer
ImplementsBoard == Board!BoardSpec

(* Without faults it also completes every job: the fair board. *)
ImplementsFairBoard == Board!FairBoardSpec

(* assert(res == ZOK) of populate: /workers exists when workers are listed *)
WorkersDirExists == pc = "populate" => wdir
=============================================================================
