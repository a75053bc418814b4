# A verification project for SDC_Mapreduce

TLA+ models of the MapReduce system in this repository, TLC configurations that
check them on small instances, and TLAPS proofs of the results that matter most.
Paths below are relative to the repository; `master.cpp` is
`src/master/master.cpp`, `worker.cpp` is `src/worker/worker.cpp`, `crow_all.h` is
`src/util/crow_all.h`, `central.pb.*` are in `src/generated/`.

To check: `tlc -config MapReduce_clean.cfg MCMapReduce` for a run (the table
under *Runs* gives module and configuration), `tlapm MapReduceProofs.tla` for a
module of proofs.

## 1. The system

A job (input files, a shard size) is posted to a web client, which writes it
into ZooKeeper. Of two master processes one is elected; it takes the oldest job
that is CREATED, cuts its files into shards, hands the shards out to the workers
as map tasks over gRPC, regroups the files they produced into reduce tasks, hands
those out, and marks the job COMPLETED. Files live in an Azure blob container.
Workers register in ZooKeeper.

| Component | State | Operations | Talks to |
|---|---|---|---|
| Web client (`webclient.cpp`) | none | one request: create `/jobs/job_n`, then `status`, `shard_size`, `reducer_count`, `files` | ZooKeeper |
| Election (`electLeader`) | znode under `/masters`, its number | register, poll and decide each second | ZooKeeper |
| Master, main thread (`Master::execute`) | `job`, `tasks_`, `workers_` | `get_next_job`, `populateWorkers`, `bootstrap_tasks`, `schedule`, `bootstrap_reduce`, `job_end` | ZooKeeper, workers (`execute_task`) |
| Master, server threads (`task_complete`) | same tables, `task_mutex` | complete a task, free an entry of `workers_`, append output files | called by workers |
| Sharding (`createShardAllocations`) | locals | cut files into pieces | blob sizes |
| Worker (`HandleRpcs`, `executeTask`) | completion queue, one task | register, take an event, execute, upload, report once | ZooKeeper, master, blobs |
| Worker files (`map`, `reduce`, `execute`) | `mapper_output_file.txt`, `temp`, `final_r.txt` | run user programs on files | local disk |
| Worker status (`update_worker_self_status`) | one znode | check, create, set | ZooKeeper |
| Worker input (`adjust_shard_boundaries`) | offsets of a piece, the data downloaded for it | download the piece and what follows it, look for word boundaries | blobs |
| Messages (`central.pb.h`, `central.pb.cc`) | fields, unknown fields | accessors, copy, clear, merge, swap, size, write, parse | master and worker, through gRPC |
| HTTP server (`Server`, `Connection`, `task_timer` of `crow_all.h`) | connections, deadlines, a handler queue per worker thread | accept, read, handle, write, time out, destroy | sockets, the request parser |
| Request parser (`http_parser_execute`, `HTTPParser`) | state, header state, `content_length`, the request so far | one read of bytes | the connection |
| JSON reader, router, POST handler (`webclient.cpp`) | none | load a body, check it, submit a job, answer | the parser, ZooKeeper |

### What is hard here, and what has to hold

* **Two kinds of threads in the master.** `schedule` makes the blocking call
  `execute_task` with `task_mutex` held, and handlers wait for that mutex;
  `populateWorkers`, `bootstrap_reduce` and `job_end` write the tables without it.
  No task that is completed may be reopened, nobody may wait in a circle (the code
  does not keep this one), and no unlocked write may meet a handler.
* **Failure.** No call has a deadline or a retry. A reply that is lost after the
  worker has the task makes the master hand the task out again; a completion that
  is lost leaves it running; a master that dies leaves workers at its tasks, which
  report to whoever listens at the old address. A COMPLETED job must still be a
  sum of every shard exactly once, as far as the code can promise it.
* **ZooKeeper protocols that are not atomic**: a job is five creates, the status
  first; `create_if_not_exists` is two calls; a leader never looks again.
* **Boundaries**: pieces and shards at the ends of files, words that a shard
  boundary cuts, empty files, the cutoff of 1000 in the election, files opened
  without truncation, a body length and integers at the end of their width.
* **Callbacks and object lifetimes.** A connection of the HTTP server is deleted by
  whichever of its read, its writes and its deadline ends last; the deadline is
  known by a number only. No handler may run on a deleted object, no connection may
  be kept for ever, and no request may get another one's answer.
* **Bytes come in pieces.** The request parser is called with whatever a read
  brought and keeps a state of some fifty names, and the result must not depend on
  where the reads end.

`PROJECT.json` lists every such hazard at its line with the properties about it.

## 2. Modules

| Module | Models | Composes / used by |
|---|---|---|
| `MapReduce` | master (both kinds of threads), workers, their calls, the blob store, ZooKeeper as far as they see it | implements `JobBoard`; `MCMapReduce`, `MapReduceProofs` |
| `JobBoard` | abstract: jobs are completed lowest first, once, exactly | instantiated by `MapReduce` |
| `Sharding` | `createShardAllocations` | `MCSharding`, `ShardingProofs` |
| `ShardText` | what the map tasks read: `Sharding` composed with `adjust_shard_boundaries` | extends `Sharding`; `MCSharding`, `ShardingProofs` |
| `Election` | `electLeader` | `MCElection`, `CoordinationProofs` |
| `Submission` | web client against `get_next_job` | `MCCoordination`, `CoordinationProofs` |
| `StatusNode` | `update_worker_self_status` | `MCCoordination`, `CoordinationProofs` |
| `WorkerFiles` | the local files of `map` and `reduce` | `MCWorkerFiles`, `WorkerFilesProofs` |
| `Messages` | the generated code of the six messages | `MCMessages`, `MessagesProofs` |
| `CrowServer` | acceptor, connections, deadlines, one worker thread | `MCCrowServer`, `CrowServerProofs` |
| `HttpParser` | the request parser and its callbacks | extended by `WebClient` |
| `Json` | `json::load` and the operations of `rvalue` in use | extended by `WebClient` |
| `WebClient` | one connection: parser, `Connection::handle`, router, POST handler | `MCWebClient`, `WebClientProofs` |
| `Accumulate` | loops that add up, join or pick, as recursive functions | extended by `Sharding`, `WorkerFiles` |
| `Induction` | lemmas of mathematics only: induction and recursion over an interval, sums, joined and picked sequences | extended by the proof modules but `MapReduceProofs` and `CoordinationProofs` |

### MapReduce

The core, in which master and workers are composed. The state of the master is
its memory (`job`, `tasks`, `workers`, `mutex`) and a program counter `pc`; a
crash resets it. Ids are indices: `bootstrap_tasks`, `bootstrap_reduce` and
`populate` number from 1 in the order of the vectors.

| Code | Actions |
|---|---|
| `main`: election won | `MasterStart` |
| `get_next_job`; nothing to do | `GetNextJob`; `PollIdle` |
| `populateWorkers` / `populate`: list, empty list, assertion | `Populate`, `PopulateRetry`, `PopulateAbort` |
| `bootstrap_tasks` | `Bootstrap` |
| `schedule`: lock; next queued task to the first idle entry; reply; unlock; sleep and test | `LockScan`, `Trigger`, `ReplyOk`, `ReplyFail`, `ScanEnd`, `Check` |
| `bootstrap_reduce`, `job_end` | `Regroup`, `JobEnd` |
| `task_complete` | `HandlerLock`, `HandlerApply`; NULL dereference `HandlerFault` |
| unlocked writes of the vectors against a handler at work | `MayDetach` (the handler keeps a task of the old list) or `RaceCrash` |
| `register_with_zoopeeker`, `runServer` | `Register`, `Serve` |
| `HandleRpcs`, `Proceed` | `Accept`, `AcceptOrphan` (a call without a caller), `AbortOnFinish` |
| `map`, `reduce`: uploads | `UploadIntermediate` (one per file), `UploadFinal` |
| `sendTaskCompletion` | `SendCompletion`, `NotifyFails` |
| gRPC, ZooKeeper, operating system | `RpcDeliver`, `RpcRefused`, `LoseReply`, `LoseCompletion`, `MasterCrash`, `WorkerCrash`, `Expire` |

Data is abstract. A file is the identity of the execution that wrote it (job,
phase, worker id, task id), as in its name; the content of a final file is the
list of executions it was summed from. So "exact" speaks of *which* files are
summed; what is in them is the subject of `WorkerFiles`.

**The abstraction.** `JobBoard` is what a submitter is promised: jobs become
COMPLETED lowest first and once each, and a COMPLETED job has the exact answer from
then on. Under the mapping `status <- jobStatus`, `answer <- Answer`, where `Answer`
looks into the final files in the blob store, the whole pipeline is a stutter except
`JobEnd`; what has to be shown is that no later step, of a dead master's worker for
instance, touches the files of a COMPLETED job to its harm. `FairBoardSpec` adds that
every job is completed.

Decisions worth knowing:

* The worker is one thread that takes an event and executes the task in the same
  iteration of `HandleRpcs`, so `my_tasks` is empty whenever `Proceed` looks at it
  and the answer CANCELLED is never given. It is not an action.
* A broken connection that fails a Finish is modelled before the worker takes the
  call (`LoseReply`, then `AcceptOrphan`, which may set `badFinish`). A connection
  that breaks later reaches the same states, since the master may observe the
  failure as late as it likes.
* `tainted` records that a reply was lost, or that a task of a dead master was
  reported to a live one; it is read by properties only, and each that reads it says
  so in its comment. After a lost reply the task is handed out twice: a shard is
  summed twice (the exception in `ImplementsBoard`), an entry is busy without a
  running task, or a task runs without a busy entry (`BusyMatchesRunning`), the copy
  of a task may be reported after its phase (`UnlockedWritesAlone`), and master and
  worker may wait for each other (`MutualWaitNeedsFault`). `StrandedByLoss`,
  `AbandonedByLoss`, `CompletedStays` and `InputsUploaded` hold all the same.
* When a host crashes its connections close at once. A host that vanishes without
  closing them would block the master in a call without deadline for ever; that is
  not modelled.
* One master at a time. `Election` says under which conditions that is so.
* `reducer_count` of a job is read and ignored by the code
  (`set_num_reducers(3)`): `NumReducers` is a constant of the model.
* `register_with_zoopeeker` connects to `127.0.0.1:2181` and the master to
  `default-zookeeper:2181`; both are taken to be the same ensemble. The znode of a
  worker is taken to stay when `framework` goes out of scope at the end of
  `register_with_zoopeeker`, without which no worker would ever be found.
* `executeTask` also writes the status znode; `MapReduce` takes those writes to
  succeed, and `StatusNode` looks at them.

### Sharding

One step per turn of the inner loop (`Cut`), one for the next file. The cut of
a piece, the closing of a shard and the odd test for the last byte are operators
of their own. Offsets are exact; the shard size is at least 1 (with 0 or less the
loop never ends) and all sums fit in an `int` (assumption `InputsAssumption`,
from which `SumsFitInt` shows it).

### ShardText

The text of the files is a set of letters, everything else is blank. `Window` is the
range `adjust_shard_boundaries` downloads for a piece: shards count offsets from 1,
the blob store from 0, and the end has 100 bytes (`Slack`) added. The function moves
the offsets of its `ShardFileInfo` to word boundaries afterwards, but returns the
data as downloaded, and nobody reads the offsets again; so what it reads is the
window, and the search for boundaries matters only where it runs off the end of
the data (`RunsOff`), which may end the worker: that task's `read` is then `Lost` or
the window. The second loop reads one byte behind the terminator for a piece that
covers a whole file; its result is not used, and this is not modelled.

### Election

Each process registers, then polls and decides in two steps, as the code reads
`/masters` once and then works on the copy. A lost connection reads as an empty
list (`PollFails`); a session may expire while its process goes on
(`LoseSession`). `Cutoff` is the literal 1000. `SoleLeader` says which two leaders
there may be at once, `LeadersNeedTrouble` how many in all.

### Submission

Every create of the web client and every read of `get_next_job` is a step of its
own. A missing znode reads as the empty string, which `stoi` turns into the
death of the master. The web server handles one request at a time (`app.run()`
of crow with one thread; one pod), so one job is being written at a time.

### StatusNode

`checkExists`, `create` and `set` are separate steps of every worker. All workers
write `/status`, since the constructor leaves `worker_id_zookeeper` empty. (With
the path of the comment the calls would fail for another reason: the znode of a
worker is ephemeral and can have no children.) A worker that dies in the middle of a
task leaves BUSY behind until another one writes; the model has no such crash, and
`IdleAtRest` says nothing about it.

### WorkerFiles

`execute` opens the output file without `O_TRUNC`, so what a program prints
overwrites the beginning of the old content (`Overwrite`) or is appended to it.
Lines have equal length in the model; with lines of different length the stale
tail may also begin in the middle of a line. The repository shows the effect
itself: `src/worker/job_1/reducers/final_1.txt` and `final_2.txt` have nearly all
the words of `final_1.txt` in common, although a word belongs to one reducer only.

### Messages

Each generated function is a table of the fields it treats, taken from that
function: the copy constructor, `Clear`, `InternalSwap` as the range of members it
covers, `MergeFrom`, `ByteSizeLong`, the writer with its tags, the parser with its
tags. A string is its length (some lengths are of invalid UTF-8), an `int32` one of
a few values, among them a negative one, which takes ten bytes. Actions are calls on
two objects of one type, and an encoded message with fields it does not know, in
any order, split and repeated, may be parsed into either. Arenas, descriptors and
reflection keep no state of a message.

### CrowServer

The web client starts crow with its default of one worker thread, so handlers run one
at a time from a queue (`Run`), to which the socket layer and the clock post. What a
read brought is abstracted to the calls the parser makes on the connection, several
of them when requests are pipelined. `check_destroy`, `start_deadline`,
`cancel_deadline_timer`, `do_read`, `do_write`, `complete_request` are operators on
the state, put together in the order of the code. A deadline is known by
`task_id_`, which a new object leaves uninitialised (`Garbage`); a number of another
connection's deadline cancels that one. A handler that belongs to an object already
deleted is dropped, as the socket layer reports it aborted. The acceptor thread and the
worker thread both reach `task_timer` without a lock (`crow_all.h:10232`): that is
taken as atomic.

### HttpParser, Json, WebClient

The parser is modelled byte by byte with all states of a request; where a byte leads
is a table where the code's switch is one. The longer names it looks for
(`content-length`, `chunked`, ...) are spelled with two or three letters instead of
one per byte, so that a read still ends inside them. `content_length`, `int` and
`int64_t` are a few bits wide, with the overflow tests and truncations of the code;
`max_header_size` and `max_depth` are small. Every assertion of the code is one of the
model (`Asserted`). A byte that TLA+'s provers cannot take as a string of one character is
named instead (`"SP"`, `"comma"`); the loop over the bytes of a read (`Bytewise`) and the
JSON reader (`Decode`) are recursive functions. The count of header bytes is looked at
where the code looks at it: at every byte, but for those of a value after its first one
in a read, whose sum is looked at where the value or the read ends (`Counted`).

The marks are pointers into the current read and not kept between reads. One place
computes with a null mark: when a read ends inside a URL before its `?`, the place
of the `?` is counted from NULL, or from the beginning of an earlier URL of the read
(`crow_all.h:7844`). `Address` stands for that distance; `misplaced` records it.

Of two equal keys of a JSON object the first one wins (`Member`) because `std::sort`
leaves up to 16 members in their order; with more of them either may.

`WebClient` puts parser, `Connection::handle`, the router for the one rule and the
POST handler together: everything happens within the read that brings a request's
last byte. An upgrade under HTTP/1.1 is completed and never written, unless it is to
`h2c`, which is handled as any request whose body is not read. `MCWebClient` makes the messages: one that differs from a plain POST in
one respect each (methods, URLs, versions, headers, framing of the body, bodies), and
says what each means; they are sent alone, in twos, and with one byte lost, repeated
or changed.

## 3. Runs

| Run | Module, configuration | Instance | Question |
|---|---|---|---|
| clean | `MCMapReduce`, `MapReduce_clean.cfg` | 2 workers, 2 jobs, 2 shards, 2 reducers, no faults | The pipeline implements the fair board; entries and tasks stay paired. Deadlock is checked. |
| losses | `MapReduce_losses.cfg` | 3 processes at 2 addresses, 1 job, 2 shards, 1 reducer; 1 crash of a worker, 1 lost completion, 1 lost reply | Tasks are stranded, and entries left busy, by losses only; completed tasks survive double execution; until a reply is lost unlocked writes are alone, and nobody at an address of its own waits in a circle. |
| mutualwait | `MapReduce_mutualwait.cfg` | 2 workers at 2 addresses, 1 job, 2 shards, 1 reducer; 1 lost reply | *violated*: master and worker wait for each other. |
| failover | `MapReduce_failover.cfg` | 2 workers, 1 job, 2 shards, 2 reducers, 2 addresses for masters, 1 crash of the master | The board is implemented after a job was executed again; a reduce finds its files. |
| workersdir | `MapReduce_workersdir.cfg` | as clean | *violated*: the assertion of `populate`. |
| sharding | `MCSharding`, `Sharding.cfg` | up to 3 files of 6 bytes together, every text, shard sizes 1..4, slack 1 | Partition of bytes, full shards, progress; every word is read whole by some task. Deadlock is checked. |
| election | `MCElection`, `Election.cfg` | 4 processes, cutoff 2, 1 trouble | One leader but for the exceptions named; how many leaders troubles can make; a leader in the end. |
| coordination | `MCCoordination`, `Coordination.cfg` | `StatusNode`: 3 workers, 2 tasks each; `Submission`: 3 jobs, 2 crashes | The create race spares a worker, at rest the znode says IDLE; order of the jobs, answered jobs. |
| workerfiles | `MCWorkerFiles`, `WorkerFiles.cfg` | 2 workers, 3 words, 2 reducers, 2 shards of at most 2 words, 3 tasks per worker | Counts with and without stale tails. |
| messages | `MCMessages`, `Messages.cfg` | 6 types, 2 objects, 3 calls, integers 0, 1, 300, -1, lengths 0, 3, 130 | What is written is read back, at the size announced; parse is merge; no field is forgotten. |
| connection | `MCCrowServer`, `CrowServer.cfg` | memory for 2 connections, 2 allocations, 2 reads, a deadline of 1 tick | Deadlines have owners, objects outlive their handlers, requests are routed, connections are given back. |
| web | `MCWebClient`, `WebClient.cfg` | header limit 64, 7 bits of length, ints of 4 and 7 bits, depth 4; reads of 1 and 3, 5, 7 bytes or of all | The requests are those meant, however the bytes are cut; answer and job are those asked for. |

Deadlock is not checked where the bounds (masters, tasks, crashes) let the model
stop, or where the system itself may stop, with a stranded task.

**Why the bounds are enough.** Two workers give a busy and an idle entry, a third
process at the first one's address gives a restart whose predecessor is still
registered, and so an address twice in `workers_`. Two shards and two reducers are
what it takes for a task to be left out, taken twice or mixed up; two jobs for
state left over from the first. One fault of a kind is spent at any point of a run;
`failover` lets a master come up after the first one died, at the old or at the
new address, which covers stray completions at both; a third one is not started.
(For the properties of `losses` and `failover` the theorems below cover every bound.)
Three files with empty ones among them reach every combination of the end of a
file, the end of a shard and the end of the input, and six bytes hold two words a
boundary may cut. With a cutoff of 2, four candidates are numbered below, at and
above it. Two words for a reducer and a shard longer than the next one are what a
stale tail needs. One trouble in `election` makes a second leader; that n troubles make
no more than n is a theorem. `coordination` runs its two parts side by side, each in
executions of its own, because they share no state. The integers and lengths of `messages` take one, two and ten bytes
on the wire; three calls set, encode and parse, or fill, clear and read. Two
connections are what it takes for one to cancel the other's deadline, or to be born
in the other's memory. 7 bits of length let a body length overflow.

`MaxFaults` (per kind), `MaxMasters`, `MaxTrouble`, `MaxCrashes`, `MaxTasks`,
`MaxRuns`, `MaxJobs`, `MaxCalls`, `MaxAllocs`, `MaxReads` are the only counters that
are bounded, each in the guard of the action that counts.

**Fairness.** `FairSpec` of `MapReduce` has weak fairness of the master's main
thread, of each worker's thread and of the network, which are running threads
and a reliable transport when no fault is spent, and strong fairness of
`HandlerLock`: `schedule` frees the mutex and sleeps one second outside of it
(`master.cpp:183`), so a waiting handler finds it free again and again. `Election`:
a registered process keeps polling, and ZooKeeper expires sessions of the dead.
`Submission`: the web client goes on with a request; a master is started when
there is none (the deployments of `k8_config.yaml`). `CrowServer`: the worker thread
runs its queue, seconds pass, and a write the socket layer has ends, well or not. No
fault and no read is ever forced.

### What the runs show

* The pipeline is right when nothing fails (`ImplementsFairBoard`), and what is
  COMPLETED stays exact through crashes of masters and workers and lost completions
  (`ImplementsBoard`): files of a dead master's workers are overwritten by files of
  the same name with the same meaning, or are never named. A lost reply, or a dead
  master's task reported to a live one, ends that promise (`tainted`).
* Master and worker may wait for each other for ever (`MutualWait`). The reply to
  `execute_task` is lost after the worker got the task, so its entry stays idle
  (`master.cpp:99`, 178); the next `trigger` calls that entry with `task_mutex` held and
  without a deadline (161, 170-174); the worker, which has one thread, finishes its first
  task and waits in `task_complete` for the mutex (`worker.cpp:336`, `master.cpp:67`), and
  never takes the second call. `mutualwait` shows it. Without a lost reply, and without a
  dead master's task reported to a live one, the worker that waits for the mutex is not
  the one the scan is calling, because its entry is busy until the handler ran. That needs
  each address to be listed once: after a quick restart the old znode is still there, the
  address is in `workers_` twice, and both entries lead to the one process.
  `MutualWaitNeedsFault` says that there are no other causes.
* Nothing recovers a stranded task, but nothing else strands one: `StrandedByLoss`
  counts that each loss strands one task at most, whatever masters die and
  whoever reports to whom. So it is with the entries of `workers_` that are left busy
  (`AbandonedByLoss`).
* When the last file of a job is empty, the bytes of the shard that is not full by
  then are lost (`NoByteLost`); nothing else loses or doubles a byte.
* The slack makes every word of up to 102 letters whole in some task's data
  (`EveryWordRead`), but the data of neighbours overlaps by up to 101 bytes, and the
  words in there are counted twice (`OverlapNearEnds` says that this is all of it).
* Each leader beyond the first costs a lost session or a failed poll of its own
  (`LeadersNeedTrouble`), and two at once take a lost session or the number 1000
  (`SoleLeader`).
* A half-written job blocks all younger ones; nothing else does
  (`AnsweredCompletes`). A job whose shard size or reducer count was never written
  does not complete (`HalfJobCorrect`); one that was read without its files may.
* Results of a worker that executed two map or two reduce tasks of a job may be
  too high, never too low (`NeverUndercounts`).
* A connection of the HTTP server is given back unless one of three things happened:
  another connection cancelled its deadline through a stale `task_id_`, a request was
  handled when its socket had just been closed, so that `remote_endpoint` throws
  (`crow_all.h:9487`), or a response was written while the read that would have
  deleted the object failed (`crow_all.h:9900`). `EventuallyReleased` names them. A
  pipelined request that comes before the response to the one before it was written
  and cleared is not routed (`EveryRequestRouted`).
* How reads are cut changes nothing but the place of the `?` in a URL and what follows
  an upgrade (`CutsDoNotMatter`).

### Where code and its own statements disagree

Two runs end in a violation: of the assertion at `worker.h:40`, and of what
`worker.cpp:366` and `master.cpp:175` are written for, that a worker with a task refuses
a second one and the master goes on. `PROJECT.json` quotes both under `findings`. Other things a reader of the code may not expect, each visible
in a model:

* `GPR_ASSERT(ok)` (`worker.cpp:425`) ends a worker whose Finish finds no caller any
  more (`AbortOnFinish`); `zook.h:120` asserts that a create succeeds between two
  workers that both saw no znode (`StatusNode`); the comment at `worker.cpp:455`
  writes the status node as it is not used at `worker.cpp:399`.
* `crow_all.h`: the place of the `?` of a URL counted from NULL (7844), against the
  comment at 5322; `skip_body`, set by a HEAD, is never reset on its connection
  (11726, 6487), nor is `manual_length_header`, set by the answer to an OPTIONS (11744,
  11762), so that no later response says its length (9721); a header without a value is dropped unless it is the last, and the
  last trailer is always dropped (9204); an upgrade under HTTP/1.1 is never answered, unless
  it is to `h2c`; a TAB before a coding in a list makes the parser miss that it is
  `chunked` (8586, where `ch | 0x20` is compared).
* The JSON reader takes `1.` and `1e+` for numbers and ignores what follows a NUL;
  numbers of a job are truncated from `int64_t` to `int`; a `$` in a file name
  separates two names in ZooKeeper.

## 4. Proofs

| Module | Theorem | For every value of the constants |
|---|---|---|
| `MapReduceProofs` | `TypeCorrect` | `TypeOK` |
| | `LockCorrect` | `LockInv`: who holds the mutex when, and that the task of an outstanding call is queued |
| | `CompletedStaysCorrect` | `CompletedStays`: no step inside a phase reopens a completed task or drops a file from its outputs |
| | `FilesCorrect` | `FilesInv` |
| | `InputsUploadedCorrect` | `InputsUploaded`: a reduce task finds every file it downloads |
| | `UnlockedWritesAloneCorrect`, `MutualWaitNeedsFaultCorrect`, `BusyMatchesRunningCorrect` | as named: while no reply was lost and no dead master's task was reported to a live one, the unlocked writes are alone, the scan waits for nobody at an address of its own who waits for it, and as many entries are busy as tasks run |
| | `ExactCorrect`, `BoardCorrect` | `ImplementsBoard`: the pipeline implements `JobBoard`, for any number of workers, jobs, shards, reducers, masters and faults |
| | `StrandedCorrect`, `AbandonedCorrect` | `StrandedByLoss`, `AbandonedByLoss`: with lost replies, and however many masters died |
| `ShardingProofs` | `TypeCorrect`, `NoByteTwiceCorrect`, `NoByteLostCorrect`, `ShardsFullCorrect`, `ProgressCorrect`, `SumsFitInt` | sharding is a partition into full shards, loses bytes only with an empty last file, and ends |
| | `TextImplementsSharding`, `EveryWordReadCorrect`, `OverlapCorrect` | the composition implements `Sharding`; words and overlaps for every text and slack |
| `CoordinationProofs` | `ElectionTypeCorrect`, `SoleLeaderCorrect`, `LeadersNeedTroubleCorrect` | two leaders need a lost session, or the number `Cutoff`; each leader but one needs a trouble of its own |
| | `SubmissionTypeCorrect`, `InOrderCorrect`, `HalfJobCorrect` | jobs complete in order; one without its numbers never does |
| | `StatusTypeCorrect`, `SomeoneSurvivesCorrect`, `IdleAtRestCorrect` | the race spares a worker; the znode is IDLE at rest |
| `WorkerFilesProofs` | `Invariance`, `ExactIfFreshCorrect`, `NoForeignWordsCorrect`, `NeverUndercountsCorrect` | as named: what stale files and repeated tasks can and cannot do to the counts, for any job |
| `CrowServerProofs` | `Invariance`, `TimersHaveOwnersCorrect`, `OutlivesHandlersCorrect`, `DeadlineKeptCorrect`, `EveryRequestRoutedCorrect` | as named: deadlines, handlers and requests of any number of connections, with any contents of the reads |
| `MessagesProofs` | `MessagesTypeCorrect`, `WholeObjectCorrect`, `SizeExactCorrect`, `RoundTripCorrect`, `ConcatIsMergeCorrect` | as named, for all integers, strings, unknown fields and numbers of elements: what is written is read back, at the size announced, and no function forgets a field |
| `WebClientProofs` | `ParserAlwaysGood`, `NoAssertionFailsCorrect` | no byte sequence, however it is cut into reads, makes an assertion of `http_parser_execute` fail |

`Induction` has no theorem about the program, only the lemmas on intervals and sequences
that these cite. All of them rest on the assumptions of the modules alone: `WorkerAssumption` and
`SizeAssumption` (finite workers, natural sizes, at least one reducer),
`InputsAssumption`, `SlackAssumption`, `ElectionAssumption`, `SubmissionAssumption`,
`StatusAssumption`, `FilesAssumption`, `SizeAssumption` and `ReadAssumption` of
`CrowServer`, `DataAssumption` of `Messages` (integers, and strings by their lengths, 0
among both; the lengths of strings that are not UTF-8 are not 0) and its
`TypesAssumption` (the types checked are among the six; a foreign tag is the tag of no field), `WidthAssumption` of `HttpParser` (a
hexadecimal digit fits into a content length) and `ClientsAssumption` of `WebClient` (a
client sends a sequence of bytes). TLC evaluates them in every run.

**MapReduce.** `TypeOK` is inductive because it also says when a call is
outstanding and that its task and entry exist (`CallsTypeOK`); without that, the
message of a call has no type. `LockInv` is inductive over it: a handler enters
only when the mutex is free, so the task of an outstanding call cannot become
completed under the scan. `CompletedStays` follows from the two: the only step
that sets a task running is `ReplyOk`, about a task that is still queued.
`InputsUploaded` is not inductive: that a completion names stored files needs
what the worker has uploaded so far, and that the reducer ids in tasks and
messages are in range. `FilesInv` adds both. The store only grows, so a step that
uploads is handled by a few monotonicity lemmas (`InStoreGrows` to `WorkerGrows`),
and a step that leaves the files of tasks and workers alone by `FilesFrame`.

**The board.** `LinkInv` ties a worker to the master's tables: the task it holds, if
it comes from the current master, is a task of the current phase that is running,
with a busy entry of its own, or it is the one whose answer is under way; two workers
never hold the same task or entry. It holds while nothing is tainted. From it the
three protocol properties follow at once: outside of `schedule` nobody holds a task,
so nobody reports one; running tasks and busy entries are in bijection with the
holders. `ExactInv` follows the shards: a completed task has exactly one output, a
reduce task's inputs are the one output of each shard, messages carry what tasks
have, a final file has what a message had. `Regroup` numbers reduce tasks by the
sorted reducer ids it finds; that these are 1, 2, ... needs that an increasing map
of 1..n into itself is the identity, which is proved by counting
(`IncreasingIsIdentity`). `StepBoard` then maps
`JobEnd` to `Complete` and every other step to a stutter.

**Stranded tasks.** `StrandedByLoss` is not inductive: a task is lost long before it
counts as stranded. `LossInv` bounds `Unreported`, the tasks that are running, or
whose answer is under way, and that no worker is about to report or is reporting. A
loss adds one element at most, and nothing else adds any; `PathInv` says why: a
worker's task of the current master names the address at which that master
listens, and while a handler works on a list that was replaced, the new list is all
queued. No assumption about taints or masters is left in it. `EntryInv` does the same
for the entries of `workers_` (`Unreturned`, from which `AbandonedByLoss` follows).
Both count against `Losses`, the faults spent, and both rest on `StepReports`, which
says what each step takes from the reports that workers still owe.

**Sharding.** The invariant says that pieces cut so far lie before the current
position, and that every byte before it is in a shard or in the current one;
`NoByteLost` is its instance at the end. `ShardsFull` needs that `SizeOf`, a sum over
the pieces, of a shard with a piece more is the sum plus its width (`SizeOfLonger`,
from the lemmas about sums); then the open shard's size is `capacity` all along, and a
shard is closed when `capacity` is `shardSize`, or at the last byte.

**ShardText.** The variables of `Sharding` are a projection, so its invariants hold. A
word that begins in a piece ends at most `Slack` + 1 bytes behind that piece or not
at all within the theorem's bound, and the byte it begins at is in some shard, by
`NoByteLost`.

**Election.** A leader has a number of which it saw, in one poll, that none is
smaller; the numbers of znodes grow, so whoever comes later is larger. Hence of two
leaders the younger one must have polled while the older one was not registered.
For `LeadersNeedTrouble` the proof collects in `Odd` the processes that a trouble made
able to lead beside another one: those alive without a znode, and those numbered
`Cutoff` that elected themselves on an empty list. A trouble adds one at most
(`OddStep`), and of the leaders all but one are in it.

**Submission.** The invariant says what a master knows of the jobs it skipped:
a job before the one it is at had no status, or was COMPLETED, and one without a
status is the last one, still being written or dead without ever getting one.

**Induction over data.** The library's induction theorems take an operator as
parameter, which the installed provers cannot instantiate. `Induction` states it about
sets and functions instead: a set of naturals that is not empty has a least element
(`LeastNumber`, by well-foundedness), so a set that holds 0 and is closed under
successors holds an interval (`UpTo`), and a function defined by recursion over an
interval exists (`Iteration`) and satisfies its equation (`SumsUnfold`, `JoinsUnfold`,
`PicksUnfold`). Loops over data in `Sharding`, `WorkerFiles` and `CrowServer` are such
functions, and what they compute is proved for every length.

**WorkerFiles.** The proofs count: what matters of a file is how often it has each word.
Joining files adds the counts (`CountJoined`), splitting keeps those of a reducer's
words and drops the others (`SplitCounts`), the reducer's output has the counts of its
input (`SummedCounts`) and depends on them only (`SummedSame`), and overwriting keeps the
new content in front (`OverwriteFacts`); so `temp` has every word at least as often as
the files read, exactly as often if it was empty (`TempCounts`). The invariant adds to
the three properties what is in the files of a worker that has run nothing (`Fresh`), and
in the intermediate files (`InterGood`): words of their reducer only, at least as often
as in the shard, exactly as often while nobody has mapped twice. Neither `ExactIfFresh`
nor `NeverUndercounts` is inductive without `InterGood`, since the next `Reduce` reads
whatever files the last `Map` of each shard left.

**CrowServer.** `Good` is a conjunction over the objects, so most of a handler's steps
disturb one conjunct: what an operator does to its own object is a lemma each
(`CancelGood`, `CloseGood`, `CheckDestroyGood`, ...), and `TouchesGood` carries it over to
the others. For one object it says: at most one read handler is to come, and then
`is_reading` is set; at most one write handler, and then `is_writing` is set, unless a write
was started over another (`overlapped`); a deleted object is quiet, unless `overlapped`; a
response that counts as completed is still being written, which is why a request that is
skipped was pipelined. `TasksGood` says that a task's owner is live and knows its
identifier, from which it follows that cancelling by an old identifier may take
another object's task (`robbed`) but never leave a task without its owner. The calls of
one read are a recursive function (`AfterCalls`), as are the sockets a tick closes; both
are handled by induction.

**StatusNode.** Before the znode exists no worker is past its first create, so the
worker that creates it is not one the assertion ended; it is one that survives. After
a worker wrote BUSY, its own IDLE is still to come.

**Messages.** That the nine lists of a message agree is a lemma per type, proved from the
tables that were taken from the code (`TablesAgree`: every field copied, cleared,
swapped and merged, tags distinct and of the field's kind, the n-th field written is the
one read under that tag); a list that forgets a field or a tag that differs breaks it.
What the functions compute is then proved once for every type that agrees. The
parser is a recursive function over the encoded fields, and the central facts are about
reading on: `AfterJoin` (reading `a \o b` is reading `b` from where `a` led), `ElementsRead`
and `FieldRead` (a field just written is stored as it was, or refused when it is a string
that is not UTF-8), and `EncodeRead`, their induction over the fields. `SizeIs` does the
same for the sum of sizes. Nested messages are leaves, so both are proved first for a type
without nested messages (`LeafFine`) and used for the others (`AllNestedFine`).
`RoundTrip`, `SizeExact` and `ConcatIsMerge` then hold of any two messages of a type;
`MessagesInv` says that whatever calls are made the objects are such messages, and what is
under way consists of fields a writer of the type produces. Each action has a lemma that
it keeps the invariant (`SetFieldKeeps` to `AddForeignFieldKeeps`).

**The parser.** `NoAssertionFails` is about a state that took many bytes to reach, and is
not inductive: each assertion relies on what another state left. The invariant `Sound`
says, for every state of the parser, what it relies on: the state is one the switch has a
case for; in a header name the header state is one of those a name leads to, in a value it
no longer asks for the value's first byte; a body or chunk has a known length that is not
0, and none is left at its end; a chunk's states have `CHUNKED` set; and a piece of data
is open only in the state it is about. When the size of a chunk begins, no byte has been
counted, hence two forms of it: before a byte has been counted (`Good`) and after
(`Ready`). Most states rely on nothing (`Free`), and whatever leads to one of them keeps
the invariant once no other piece of data is open (`Loose`, `Only`, `LooseGood`); each
other state's handler has a lemma of its own (`HeadersDoneGood`, `HeaderValueStartGood`,
`ChunkDataGood`, ...). The callbacks change nothing the parser decides by (`CallbackIs`).
`DispatchGood` puts the handlers together, `BytewiseGood` goes over the bytes of a read by
induction, and `FeedGood` over the end of one read and the marks of the next. The
invariant holds for every width of the length because the overflow test leaves room for
one more digit (`GrowIs`).

### Model-checked only

* Liveness under fairness (`ImplementsFairBoard`, `LeaderElected`,
  `AnsweredCompletes`, `EventuallyReleased`) is outside of what TLAPS proves.
* `CutsDoNotMatter`, `LengthExact`, `RequestsAsMeant` and `ServedAsMeant` of `WebClient`
  relate the parser to a second reading of the same bytes, to the decimal value of a
  text, or to what the client meant by them: each needs a relation between all of the
  data collected so far and the bytes it came from, state by state, and for the last two
  what the client means is itself data of the run, not of the code.

## 5. Not modelled

* External code, which appears as actions of whoever calls it: gRPC, ZooKeeper,
  Conservator, the Azure SDK behind the blob helper, Asio below crow's connections.
  The generated stubs of `central.grpc.pb.*` only forward to gRPC.
* Of `crow_all.h` what the web client does not use: websockets, multipart bodies,
  mustache templates, query strings, compression, TLS, middlewares, blueprints, rules
  with parameters, static files, the JSON writer, more than one worker thread.
* Fork and exec failures in `python_executor.h`: a child whose `execvp` fails goes on
  as a second worker, with its standard input and output redirected. Nothing in
  `MapReduce` stands for two processes with one completion queue.
* The truncation of the blob size to `int` and the sums in `sharding.h:44`: excluded
  by `InputsAssumption`, and `SumsFitInt` shows that this is all it takes.
* `choose_worker` returning a dead worker's entry in every scan (`master.cpp:143`) is in
  the model; no property is about it, since the code promises no progress after the
  loss of a worker.
* Code nobody in the pipeline calls: `delete_recursive` and `del` of `zook.h`,
  `master/task.h`, `src/app.py`, `worker/sharding.h`.
* Tracing and printing; the client SDK, Docker and Kubernetes files (apart from the
  number of processes they start); `test/test.cpp`, which exercises the blob helper.

## 6. Plan

Done: `MapReduce` with `JobBoard`; `Sharding` and `ShardText`; `Election`; `StatusNode`; `Submission`; `WorkerFiles`; `CrowServer`; `Messages`: every
safety property their runs check, and each refinement, is a theorem. `HttpParser`, `Json`
and `WebClient` are model-checked, and the parser's assertions are proved.

Left, most important first:

1. `CutsDoNotMatter` for any bytes, by a relation between the parser in the middle of a
   read and the one that began a new read there.
2. `Election`, `Submission` and the job loop of `MapReduce` in one module, with two
   leaders at once, for jobs executed by two masters.
3. `CrowServer` with more than one worker thread, and the acceptor's access to
   `task_timer` as a race.
