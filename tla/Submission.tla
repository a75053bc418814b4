----------------------------- MODULE Submission -----------------------------
(***************************************************************************)
(* How a job gets from the web client to a master, through ZooKeeper:      *)
(* the POST handler of src/webclient/webclient.cpp, get_next_job and       *)
(* job_end of src/master/master.cpp, create and get_data of                *)
(* src/util/zook.h.                                                        *)
(*                                                                         *)
(* The web client handles one request at a time and writes a job znode by  *)
(* znode, "status" first.  A master polls the jobs and reads a job znode   *)
(* by znode, "status" first; stoi of a missing number throws and ends it.  *)
(* The znode "files" that is missing is read as an empty list.  What a     *)
(* master does with a job is the business of MapReduce.                    *)
(***************************************************************************)
EXTENDS Naturals, FiniteSets

CONSTANTS
    MaxJobs,      \* bound on the requests
    MaxCrashes    \* bound on the crashes of the web client and of masters

ASSUME SubmissionAssumption == MaxJobs \in Nat /\ MaxCrashes \in Nat

Job   == 1 .. MaxJobs
Field == {"status", "shard_size", "reducer_count", "files"}

VARIABLES
    written,   \* the child znodes of each job, in /jobs/job_<j>
    status,    \* data of the status znode
    njobs,     \* jobs numbered so far; the last one is being written
    client,    \* what the web client does next
    answered,  \* jobs whose request got its 200
    master,    \* what the master does next
    listed,    \* jobs in the list get_next_job walks through
    job,       \* the one it is at, or the one taken
    got,       \* the fields of that job that were there when it was read
    crashes

clientVars     == <<client, answered>>
masterVars     == <<master, listed, job, got>>
submissionVars == <<written, status, njobs, clientVars, masterVars, crashes>>

(* The znodes are written, and read, in this order *)
After(f) == CASE f = "status"        -> "shard_size"
              [] f = "shard_size"    -> "reducer_count"
              [] f = "reducer_count" -> "files"
              [] f = "files"         -> "done"

Numbers == {"shard_size", "reducer_count"}

SubmissionInit ==
    /\ written = [j \in Job |-> {}] /\ status = [j \in Job |-> "CREATED"]
    /\ njobs = 0 /\ client = "idle" /\ answered = {}
    /\ master = "down" /\ listed = 0 /\ job = 0 /\ got = {}
    /\ crashes = 0

-----------------------------------------------------------------------------
(* The web client *)

(* A request is accepted: its job znode is created, with the next number *)
Submit ==
    /\ client = "idle" /\ njobs < MaxJobs
    /\ njobs' = njobs + 1
    /\ client' = "status"
    /\ UNCHANGED <<written, status, answered, masterVars, crashes>>

(* create of a child znode *)
WriteField ==
    /\ client \in Field
    /\ written' = [written EXCEPT ![njobs] = @ \cup {client}]
    /\ client' = After(client)
    /\ UNCHANGED <<status, njobs, answered, masterVars, crashes>>

Answer ==
    /\ client = "done"
    /\ answered' = answered \cup {njobs}
    /\ client' = "idle"
    /\ UNCHANGED <<written, status, njobs, masterVars, crashes>>

(* The web client ends and is restarted; the request is gone *)
ClientCrash ==
    /\ client # "idle"
    /\ crashes < MaxCrashes /\ crashes' = crashes + 1
    /\ client' = "idle"
    /\ UNCHANGED <<written, status, njobs, answered, masterVars>>

-----------------------------------------------------------------------------
(* The master *)

MasterStart ==
    /\ master = "down"
    /\ master' = "poll"
    /\ UNCHANGED <<written, status, njobs, clientVars, listed, job, got, crashes>>

MasterDies == master' = "down" /\ listed' = 0 /\ job' = 0 /\ got' = {}

MasterCrash ==
    /\ master # "down"
    /\ crashes < MaxCrashes /\ crashes' = crashes + 1
    /\ MasterDies
    /\ UNCHANGED <<written, status, njobs, clientVars>>

(* get_jobs_ordered: the jobs numbered so far, the oldest first *)
\* mutant: the newest job first
FirstListed_Newest(n) == IF n = 0 THEN 1 ELSE n
FirstListed(n) == 1

ListJobs ==
    /\ master = "poll"
    /\ listed' = njobs /\ job' = FirstListed(njobs)
    /\ master' = "status"
    /\ UNCHANGED <<written, status, njobs, clientVars, got, crashes>>

(* The status read is CREATED; a missing znode reads as the empty string *)
\* mutant: a missing status counts as CREATED
IsCreated_OrMissing(j) == status[j] = "CREATED"
IsCreated(j) == "status" \in written[j] /\ status[j] = "CREATED"

SkipJob ==
    /\ master = "status" /\ job <= listed
    /\ ~IsCreated(job)
    /\ job' = job + 1
    /\ UNCHANGED <<written, status, njobs, clientVars, master, listed, got, crashes>>

(* "No incomplete jobs available" *)
NoJob ==
    /\ master = "status" /\ job > listed
    /\ master' = "poll" /\ job' = 0 /\ listed' = 0
    /\ UNCHANGED <<written, status, njobs, clientVars, got, crashes>>

FindJob ==
    /\ master = "status" /\ job <= listed
    /\ IsCreated(job)
    /\ got' = {"status"}
    /\ master' = After("status")
    /\ UNCHANGED <<written, status, njobs, clientVars, listed, job, crashes>>

(* get_data of another child *)
ReadField ==
    /\ master \in Field \ {"status"}
    /\ got' = got \cup ({master} \cap written[job])
    /\ master' = After(master)
    /\ UNCHANGED <<written, status, njobs, clientVars, listed, job, crashes>>

(* stoi of both numbers *)
Parsed == Numbers \subseteq got

TakeJob ==
    /\ master = "done"
    /\ Parsed
    /\ master' = "work"
    /\ UNCHANGED <<written, status, njobs, clientVars, listed, job, got, crashes>>

StoiThrows ==
    /\ master = "done"
    /\ ~Parsed
    /\ MasterDies
    /\ UNCHANGED <<written, status, njobs, clientVars, crashes>>

(* A job read without its files is a job of one file without a name, which *)
(* the blob store may refuse: the exception ends the master.               *)
NoSuchBlob ==
    /\ master = "work" /\ "files" \notin got
    /\ MasterDies
    /\ UNCHANGED <<written, status, njobs, clientVars, crashes>>

JobEnd ==
    /\ master = "work"
    /\ status' = [status EXCEPT ![job] = "COMPLETED"]
    /\ master' = "poll" /\ listed' = 0 /\ job' = 0 /\ got' = {}
    /\ UNCHANGED <<written, njobs, clientVars, crashes>>

-----------------------------------------------------------------------------
ClientStep == WriteField \/ Answer
MasterStep ==
    \/ MasterStart \/ ListJobs \/ SkipJob \/ NoJob \/ FindJob \/ ReadField
    \/ TakeJob \/ StoiThrows \/ NoSuchBlob \/ JobEnd

SubmissionNext == Submit \/ ClientStep \/ MasterStep \/ ClientCrash \/ MasterCrash

(* The web client goes on with a request it has accepted; a master is      *)
(* started when there is none, and goes on.                                *)
SubmissionSpec     == SubmissionInit /\ [][SubmissionNext]_submissionVars
SubmissionFairSpec == SubmissionSpec /\ WF_submissionVars(ClientStep) /\ WF_submissionVars(MasterStep)
-----------------------------------------------------------------------------
(* Properties *)

(* Type invariant; a master is at a job only while it scans, reads or      *)
(* works, and has read what was there.                                     *)
SubmissionTypeOK ==
    /\ written \in [Job -> SUBSET Field] /\ status \in [Job -> {"CREATED", "COMPLETED"}]
    /\ njobs \in 0 .. MaxJobs /\ answered \subseteq 1 .. njobs
    /\ client \in Field \cup {"idle", "done"} /\ (client # "idle" => njobs > 0)
    /\ master \in Field \cup {"down", "poll", "done", "work"}
    /\ listed \in 0 .. njobs /\ crashes \in 0 .. MaxCrashes
    /\ IF master \in {"down", "poll"} THEN job = 0 ELSE job \in 1 .. listed + 1
    /\ IF master \in {"down", "poll", "status"} THEN got = {}
       ELSE job \in 1 .. listed /\ got \subseteq written[job]

(* Jobs complete in the order of their numbers: when a job is COMPLETED, a *)
(* job submitted before it is not left CREATED, whatever the master read   *)
(* while the web client was writing.                                       *)
InOrder ==
    \A i, j \in Job : /\ i < j /\ status[j] = "COMPLETED" /\ "status" \in written[i]
                      => status[i] = "COMPLETED"

(* A job whose request was answered completes in the end, unless an older  *)
(* job was left half written by a crash of the web client.                 *)
BeingWritten(j) == client # "idle" /\ j = njobs
HalfWritten(j)  == "status" \in written[j] /\ written[j] # Field /\ ~BeingWritten(j)
AnsweredCompletes ==
    \A j \in Job :
        [](j \in answered /\ (\A i \in 1 .. j - 1 : ~HalfWritten(i)) => <>(status[j] = "COMPLETED"))
=============================================================================
