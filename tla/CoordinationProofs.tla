-------------------------- MODULE CoordinationProofs --------------------------
(***************************************************************************)
(* What the processes settle through ZooKeeper: Election, Submission and   *)
(* StatusNode, for any number of processes, jobs, workers and faults.      *)
(*                                                                         *)
(* Election.  A process whose number is below the cutoff wins only with    *)
(* its own number in the list it polled, so the list was real, and every   *)
(* znode that came after the poll has a larger number (SeenInv).  While it *)
(* keeps its znode, its number remains the smallest (LeaderInv).  Whoever  *)
(* leads beside it is in Odd, which grows by one with each trouble.        *)
(*                                                                         *)
(* Submission.  The scan of get_next_job passes a job only when it has no  *)
(* status or is COMPLETED (Passed).  The list was made from jobs that      *)
(* existed, and the web client has finished or abandoned all of these but  *)
(* the last, so a job once passed does not become CREATED behind the scan. *)
(*                                                                         *)
(* StatusNode.  Before the znode exists every worker is on its way to its  *)
(* first create, so whoever creates it has taken a task; from then on      *)
(* checkExists sends no worker to create any more, and the creator cannot  *)
(* abort.  After a write of BUSY its writer still has its write of IDLE to *)
(* come.                                                                   *)
(***************************************************************************)
EXTENDS Election, Submission, StatusNode, FiniteSetTheorems, TLAPS

USE ElectionAssumption, SubmissionAssumption, StatusAssumption

-----------------------------------------------------------------------------
(* The election *)

(* A znode not in the list polled has a larger number *)
SeenInv ==
    \A p \in Process : state[p] = "decide" /\ id[p] \in seen[p] =>
       \A q \in registry : id[q] \in seen[p] \/ id[p] < id[q]

(* The number of a leader is the smallest *)
LeaderInv ==
    \A p \in Process : Leads(p) =>
       /\ id[p] <= Cutoff
       /\ id[p] < Cutoff /\ p \in registry => \A q \in registry : id[p] <= id[q]

ElectionInv == ElectionTypeOK /\ SeenInv /\ LeaderInv

(* The invariant holds initially *)
LEMMA ElectionInitInv == ElectionInit => ElectionInv
BY DEF ElectionInit, ElectionInv, ElectionTypeOK, SeenInv, LeaderInv, Leads, States

(* Every step keeps the types and the numbering *)
LEMMA ElectionStepType == ElectionTypeOK /\ [ElectionNext]_electionVars => ElectionTypeOK'
<1> SUFFICES ASSUME ElectionTypeOK, [ElectionNext]_electionVars PROVE ElectionTypeOK' OBVIOUS
<1> USE DEF ElectionTypeOK, States
<1>1. ASSUME NEW p \in Process, Register(p) PROVE ElectionTypeOK'
  BY <1>1 DEF Register, NextNumber
<1>2. ASSUME NEW p \in Process, Poll(p) PROVE ElectionTypeOK'
  BY <1>2 DEF Poll, NodeIds
<1>3. ASSUME NEW p \in Process, PollFails(p) PROVE ElectionTypeOK'
  BY <1>3 DEF PollFails
<1>4. ASSUME NEW p \in Process, Decide(p) PROVE ElectionTypeOK'
  BY <1>4 DEF Decide
<1>5. ASSUME NEW p \in Process, Die(p) PROVE ElectionTypeOK'
  BY <1>5 DEF Die, Alive
<1>6. ASSUME NEW p \in Process, Expire(p) PROVE ElectionTypeOK'
  BY <1>6 DEF Expire
<1>7. ASSUME NEW p \in Process, LoseSession(p) PROVE ElectionTypeOK'
  BY <1>7 DEF LoseSession
<1>8. CASE UNCHANGED electionVars BY <1>8 DEF electionVars
<1> QED BY <1>1, <1>2, <1>3, <1>4, <1>5, <1>6, <1>7, <1>8 DEF ElectionNext, Elect

(* Every step keeps SeenInv and LeaderInv *)
LEMMA ElectionStepInv == ElectionInv /\ [ElectionNext]_electionVars => ElectionInv'
<1> SUFFICES ASSUME ElectionInv, [ElectionNext]_electionVars PROVE SeenInv' /\ LeaderInv'
  BY ElectionStepType DEF ElectionInv
<1> USE DEF ElectionInv, ElectionTypeOK, SeenInv, LeaderInv, Leads
<1>1. ASSUME NEW p \in Process, Register(p) PROVE SeenInv' /\ LeaderInv'
  BY <1>1 DEF Register, NextNumber
<1>2. ASSUME NEW p \in Process, Poll(p) PROVE SeenInv' /\ LeaderInv'
  BY <1>2 DEF Poll, NodeIds
<1>3. ASSUME NEW p \in Process, PollFails(p) PROVE SeenInv' /\ LeaderInv'
  BY <1>3 DEF PollFails
<1>4. ASSUME NEW p \in Process, Decide(p) PROVE SeenInv' /\ LeaderInv'
  <2>1. SeenInv' BY <1>4 DEF Decide
  <2>2. IsMinimal(id[p], seen[p]) =>
          /\ id[p] <= Cutoff
          /\ id[p] < Cutoff => \A q \in registry : id[p] <= id[q]
    BY <1>4 DEF IsMinimal, Decide
  <2>3. LeaderInv' BY <1>4, <2>2 DEF Decide
  <2> QED BY <2>1, <2>3
<1>5. ASSUME NEW p \in Process, Die(p) PROVE SeenInv' /\ LeaderInv'
  BY <1>5 DEF Die
<1>6. ASSUME NEW p \in Process, Expire(p) PROVE SeenInv' /\ LeaderInv'
  BY <1>6 DEF Expire
<1>7. ASSUME NEW p \in Process, LoseSession(p) PROVE SeenInv' /\ LeaderInv'
  BY <1>7 DEF LoseSession
<1>8. CASE UNCHANGED electionVars BY <1>8 DEF electionVars
<1> QED BY <1>1, <1>2, <1>3, <1>4, <1>5, <1>6, <1>7, <1>8 DEF ElectionNext, Elect

(* Every reachable state of the election satisfies the invariant *)
LEMMA ElectionInvariance == ElectionSpec => []ElectionInv
<1> QED BY ElectionInitInv, ElectionStepInv, PTL DEF ElectionSpec

-----------------------------------------------------------------------------
(* ElectionTypeOK of the election holds for every set of processes: no two znodes  *)
(* under /masters ever have the same number.                               *)
THEOREM ElectionTypeCorrect == ElectionSpec => []ElectionTypeOK
<1>1. ElectionInv => ElectionTypeOK BY DEF ElectionInv
<1> QED BY <1>1, ElectionInvariance, PTL

(* electLeader lets two masters lead at once only when one of them lost    *)
(* its session or has the number Cutoff.                                   *)
THEOREM SoleLeaderCorrect == ElectionSpec => []SoleLeader
<1>1. ElectionInv => SoleLeader
  <2> SUFFICES ASSUME ElectionInv, NEW p \in Process, NEW q \in Process, Leads(p), Leads(q),
                      p \in registry, q \in registry, id[p] # Cutoff, id[q] # Cutoff
               PROVE  p = q
    BY DEF SoleLeader
  <2>1. id[p] \in Nat /\ id[q] \in Nat BY DEF ElectionInv, ElectionTypeOK
  <2>2. id[p] <= id[q] /\ id[q] <= id[p] BY <2>1 DEF ElectionInv, LeaderInv
  <2>3. id[p] = id[q] BY <2>1, <2>2
  <2> QED BY <2>3 DEF ElectionInv, ElectionTypeOK
<1> QED BY <1>1, ElectionInvariance, PTL

(* Processes that trouble has made able to lead beside another one: alive  *)
(* without a znode, or with the number Cutoff and an empty list to decide  *)
(* by, now or when they decided, while a smaller number is registered.     *)
OddNumber(p) == /\ id[p] = Cutoff
                /\ Leads(p) \/ (state[p] = "decide" /\ seen[p] = {})
                /\ \E q \in registry : id[q] < Cutoff
Odd     == {p \in Process : Alive(p) /\ (p \notin registry \/ OddNumber(p))}
OddInv  == IsFiniteSet(Odd) /\ Cardinality(Odd) <= trouble
ListInv == \A p \in Process : state[p] = "decide" => seen[p] = {} \/ id[p] \in seen[p]

(* Lists that are not empty hold the number of the process that polled *)
LEMMA ListStep == ASSUME ElectionInv, ListInv, [ElectionNext]_electionVars PROVE ListInv'
<1> USE DEF ElectionInv, ElectionTypeOK, ListInv
<1>1. ASSUME NEW p \in Process, Register(p) \/ Elect(p) \/ PollFails(p) PROVE ListInv'
  BY <1>1 DEF Register, Elect, Poll, NodeIds, Decide, PollFails
<1>2. ASSUME NEW p \in Process, Die(p) \/ Expire(p) \/ LoseSession(p) PROVE ListInv'
  BY <1>2 DEF Die, Expire, LoseSession
<1>3. CASE UNCHANGED electionVars BY <1>3 DEF electionVars
<1> QED BY <1>1, <1>2, <1>3 DEF ElectionNext

(* Only a failed poll or a lost session adds to Odd, and it adds one *)
LEMMA OddStep ==
  ASSUME ElectionInv, ListInv, [ElectionNext]_electionVars
  PROVE  \/ Odd' \subseteq Odd /\ trouble' = trouble
         \/ \E p \in Process : Odd' \subseteq Odd \cup {p} /\ trouble' = trouble + 1
<1> USE DEF ElectionInv, ElectionTypeOK, Alive, Leads
<1>1. ASSUME NEW p \in Process, Register(p) PROVE Odd' \subseteq Odd /\ trouble' = trouble
  <2>1. ASSUME NEW r \in Odd' PROVE r \in Odd
    <3>1. r \in Process /\ r # p /\ Alive(r) BY <1>1, <2>1 DEF Register, Odd, OddNumber
    <3>2. id'[r] = id[r] /\ id[r] < seq /\ id'[p] = seq BY <1>1, <3>1 DEF Register
    <3>3. \A q \in registry' : id'[q] < Cutoff /\ id[r] = Cutoff =>
            q \in registry /\ id[q] < Cutoff
      BY <1>1, <3>2 DEF Register
    <3> QED BY <1>1, <2>1, <3>1, <3>2, <3>3 DEF Register, Odd, OddNumber
  <2> QED BY <1>1, <2>1 DEF Register
<1>2. ASSUME NEW p \in Process, Poll(p) PROVE Odd' \subseteq Odd /\ trouble' = trouble
  BY <1>2 DEF Poll, NodeIds, Odd, OddNumber
<1>3. ASSUME NEW p \in Process, PollFails(p)
      PROVE  Odd' \subseteq Odd \cup {p} /\ trouble' = trouble + 1
  BY <1>3 DEF PollFails, Odd, OddNumber
<1>4. ASSUME NEW p \in Process, Decide(p) PROVE Odd' \subseteq Odd /\ trouble' = trouble
  <2>1. \A r \in Process \ {p} : r \in Odd' => r \in Odd BY <1>4 DEF Decide, Odd, OddNumber
  <2>2. ASSUME p \in Odd', p \in registry PROVE p \in Odd
    <3>1. /\ IsMinimal(id[p], seen[p]) /\ id[p] = Cutoff /\ state[p] = "decide"
          /\ \E q \in registry : id[q] < Cutoff
      BY <1>4, <2>2 DEF Decide, Odd, OddNumber
    <3>2. CASE seen[p] = {} BY <2>2, <3>1, <3>2 DEF Odd, OddNumber
    <3>3. CASE seen[p] # {}
      <4>1. id[p] \in seen[p] BY <3>1, <3>3 DEF ListInv
      <4>2. \A q \in registry : id[q] \in seen[p] \/ id[p] < id[q]
        BY <3>1, <4>1 DEF SeenInv
      <4>3. \A q \in registry : id[p] <= id[q] BY <3>1, <4>2 DEF IsMinimal
      <4> QED BY <3>1, <4>3
    <3> QED BY <3>2, <3>3
  <2>3. p \in Odd' /\ p \notin registry => p \in Odd BY <1>4 DEF Decide, Odd
  <2>4. trouble' = trouble BY <1>4 DEF Decide
  <2>5. \A r \in Odd' : r \in Process BY DEF Odd
  <2> QED BY <2>1, <2>2, <2>3, <2>4, <2>5
<1>5. ASSUME NEW p \in Process, Die(p) \/ Expire(p)
      PROVE  Odd' \subseteq Odd /\ trouble' = trouble
  BY <1>5 DEF Die, Expire, Odd, OddNumber
<1>6. ASSUME NEW p \in Process, LoseSession(p)
      PROVE  Odd' \subseteq Odd \cup {p} /\ trouble' = trouble + 1
  BY <1>6 DEF LoseSession, Odd, OddNumber
<1>7. CASE UNCHANGED electionVars BY <1>7 DEF electionVars, Odd, OddNumber
<1> QED BY <1>1, <1>2, <1>3, <1>4, <1>5, <1>6, <1>7 DEF ElectionNext, Elect

(* A larger set by one process at most *)
LEMMA OneMore ==
  ASSUME NEW S, NEW T, NEW x, IsFiniteSet(S), NEW n \in Nat, Cardinality(S) <= n
  PROVE  /\ T \subseteq S => IsFiniteSet(T) /\ Cardinality(T) <= n
         /\ T \subseteq S \cup {x} => IsFiniteSet(T) /\ Cardinality(T) <= n + 1
<1>1. Cardinality(S) \in Nat BY FS_CardinalityType
<1>2. ASSUME T \subseteq S PROVE IsFiniteSet(T) /\ Cardinality(T) <= n
  <2>1. IsFiniteSet(T) /\ Cardinality(T) \in Nat /\ Cardinality(T) <= Cardinality(S)
    BY <1>2, FS_Subset, FS_CardinalityType
  <2> QED BY <1>1, <2>1
<1>3. ASSUME T \subseteq S \cup {x} PROVE IsFiniteSet(T) /\ Cardinality(T) <= n + 1
  <2>1. /\ IsFiniteSet(S \cup {x})
        /\ \/ Cardinality(S \cup {x}) = Cardinality(S)
           \/ Cardinality(S \cup {x}) = Cardinality(S) + 1
    BY FS_AddElement, Zenon
  <2>2. /\ IsFiniteSet(T) /\ Cardinality(T) \in Nat
        /\ Cardinality(T) <= Cardinality(S \cup {x})
    BY <1>3, <2>1, FS_Subset, FS_CardinalityType
  <2> QED BY <1>1, <2>1, <2>2
<1> QED BY <1>2, <1>3

LEMMA OddInvariance == ElectionSpec => [](OddInv /\ ListInv)
<1>1. ElectionInit => OddInv /\ ListInv
  <2>1. ElectionInit => Odd = {} /\ trouble = 0 BY DEF ElectionInit, Odd, Alive
  <2>2. ElectionInit => ListInv BY DEF ElectionInit, ListInv
  <2> QED BY <2>1, <2>2, FS_EmptySet DEF OddInv
<1>2. ASSUME ElectionInv, OddInv, ListInv, [ElectionNext]_electionVars PROVE OddInv'
  <2>1. trouble \in Nat BY <1>2 DEF ElectionInv, ElectionTypeOK
  <2>2. CASE Odd' \subseteq Odd /\ trouble' = trouble
    BY <1>2, <2>1, <2>2, OneMore DEF OddInv
  <2>3. ASSUME NEW p \in Process, Odd' \subseteq Odd \cup {p}, trouble' = trouble + 1
        PROVE  OddInv'
    BY <1>2, <2>1, <2>3, OneMore DEF OddInv
  <2> QED BY <1>2, <2>2, <2>3, OddStep
<1>3. ElectionInv /\ OddInv /\ ListInv /\ [ElectionNext]_electionVars => (OddInv /\ ListInv)'
  BY <1>2, ListStep
<1> QED BY <1>1, <1>3, ElectionInvariance, PTL DEF ElectionSpec

(* Every master that leads beside the first costs a lost session or a      *)
(* failed poll of its own, for any number of masters, elections and faults *)
(* (electLeader).                                                          *)
THEOREM LeadersNeedTroubleCorrect == ElectionSpec => []LeadersNeedTrouble
<1>1. ASSUME ElectionInv, OddInv PROVE LeadersNeedTrouble
  <2>1. trouble \in Nat BY <1>1 DEF ElectionInv, ElectionTypeOK
  <2>2. ASSUME NEW p \in Leaders \ Odd, NEW q \in Leaders \ Odd PROVE p = q
    <3>1. /\ p \in Process /\ q \in Process /\ Leads(p) /\ Leads(q)
          /\ p \in registry /\ q \in registry
      BY <2>2 DEF Leaders, Odd, Leads, Alive
    <3>2. id[p] \in Nat /\ id[q] \in Nat /\ id[p] <= Cutoff /\ id[q] <= Cutoff
      BY <1>1, <3>1 DEF ElectionInv, ElectionTypeOK, LeaderInv
    <3>3. /\ id[p] < Cutoff => id[p] <= id[q] /\ id[q] < Cutoff
          /\ id[q] < Cutoff => id[q] <= id[p] /\ id[p] < Cutoff
      BY <1>1, <2>2, <3>1, <3>2
         DEF ElectionInv, LeaderInv, Leaders, Odd, OddNumber, Leads, Alive
    <3>4. id[p] = id[q] BY <3>2, <3>3
    <3> QED BY <1>1, <3>1, <3>4 DEF ElectionInv, ElectionTypeOK, Leads
  <2>3. CASE Leaders \subseteq Odd
    <3>1. Cardinality(Leaders) <= trouble /\ IsFiniteSet(Leaders)
      BY <1>1, <2>1, <2>3, OneMore DEF OddInv
    <3> QED BY <2>1, <3>1, FS_CardinalityType DEF LeadersNeedTrouble
  <2>4. ASSUME NEW x \in Leaders \ Odd PROVE LeadersNeedTrouble
    <3>1. Leaders \subseteq Odd \cup {x} BY <2>2, <2>4
    <3>2. Cardinality(Leaders) <= trouble + 1 /\ IsFiniteSet(Leaders)
      BY <1>1, <2>1, <3>1, OneMore DEF OddInv
    <3> QED BY <2>1, <3>2, FS_CardinalityType DEF LeadersNeedTrouble
  <2> QED BY <2>3, <2>4
<1> QED BY <1>1, ElectionInvariance, OddInvariance, PTL

-----------------------------------------------------------------------------
(* The submission of jobs *)

(* Jobs the scan has passed *)
Passed == job <= listed => \A i \in 1 .. job - 1 :
            "status" \in written[i] => status[i] = "COMPLETED"
(* A master completes only jobs that have a number *)
Numbered == \A j \in Job : status[j] = "COMPLETED" => j <= njobs
(* stoi has read both numbers of a job that is worked on *)
Checked  == master = "work" => Numbers \subseteq got

(* A job that the web client left without one of its numbers never runs;   *)
(* with InOrder, no later job runs either.                                 *)
HalfJobNeverRuns == \A j \in Job : status[j] = "COMPLETED" => Numbers \subseteq written[j]

SubmissionInv ==
    SubmissionTypeOK /\ Passed /\ Numbered /\ Checked /\ InOrder /\ HalfJobNeverRuns

(* The next field is a field, or the end *)
LEMMA AfterType ==
  \A f \in Field : After(f) \in Field \cup {"done"} /\ After(f) # "status"
BY DEF Field, After

(* The invariant holds initially *)
LEMMA SubmissionInitInv == SubmissionInit => SubmissionInv
BY DEF SubmissionInit, SubmissionInv, SubmissionTypeOK, Passed, Numbered, Checked, InOrder,
   HalfJobNeverRuns, Job

(* A step of the web client leaves the jobs alone that a master can have   *)
(* passed.                                                                 *)
LEMMA ClientInv ==
  ASSUME SubmissionInv, Submit \/ WriteField \/ Answer \/ ClientCrash PROVE SubmissionInv'
<1> USE DEF SubmissionInv, SubmissionTypeOK, Passed, Numbered, Checked, InOrder,
            HalfJobNeverRuns, Job, clientVars, masterVars
<1>1. CASE Submit
  <2>1. SubmissionTypeOK' BY <1>1 DEF Submit, Field
  <2> QED BY <1>1, <2>1 DEF Submit
<1>2. CASE WriteField
  <2>1. client \in Field /\ After(client) \in Field \cup {"done"}
    BY <1>2, AfterType DEF WriteField
  <2>2. njobs \in Job BY <2>1 DEF Field
  <2>3. \A j \in Job : written[j] \subseteq written'[j] BY <1>2, <2>2 DEF WriteField
  <2>4. \A j \in Job : j # njobs => written'[j] = written[j] BY <1>2 DEF WriteField
  <2>5. written' \in [Job -> SUBSET Field] BY <1>2, <2>1 DEF WriteField
  <2>6. UNCHANGED <<status, njobs, answered, master, listed, job, got, crashes>>
        /\ client' = After(client)
    BY <1>2 DEF WriteField
  <2>7. SubmissionTypeOK' BY <2>1, <2>2, <2>3, <2>5, <2>6
  <2>8. Passed' BY <2>4, <2>6
  <2>9. InOrder' BY <2>3, <2>4, <2>6
  <2>10. HalfJobNeverRuns' BY <2>3, <2>6
  <2> QED BY <2>6, <2>7, <2>8, <2>9, <2>10
<1>3. CASE Answer
  <2>1. SubmissionTypeOK' BY <1>3 DEF Answer
  <2> QED BY <1>3, <2>1 DEF Answer
<1>4. CASE ClientCrash
  <2>1. SubmissionTypeOK' BY <1>4 DEF ClientCrash
  <2> QED BY <1>4, <2>1 DEF ClientCrash
<1> QED BY <1>1, <1>2, <1>3, <1>4

(* A step of the master *)
LEMMA MasterInv == ASSUME SubmissionInv, MasterStep \/ MasterCrash PROVE SubmissionInv'
<1> USE DEF SubmissionInv, SubmissionTypeOK, Passed, Numbered, Checked, InOrder,
            HalfJobNeverRuns, Job, clientVars
<1>1. CASE /\ MasterDies /\ UNCHANGED <<written, status, njobs, clientVars>>
           /\ crashes' \in 0 .. MaxCrashes
  BY <1>1 DEF MasterDies
<1>2. CASE MasterStart BY <1>2 DEF MasterStart
<1>3. CASE ListJobs BY <1>3 DEF ListJobs, FirstListed, Field
<1>4. CASE SkipJob BY <1>4 DEF SkipJob, IsCreated, Field
<1>5. CASE NoJob BY <1>5 DEF NoJob
<1>6. CASE FindJob
  <2>1. /\ After("status") \in Field \cup {"done"}
        /\ After("status") \notin {"status", "work", "down", "poll"}
    BY DEF After, Field
  <2> QED BY <1>6, <2>1 DEF FindJob, IsCreated, Field
<1>7. CASE ReadField
  <2>1. After(master) \in Field \cup {"done"} /\ After(master) # "status"
    BY <1>7, AfterType DEF ReadField
  <2> QED BY <1>7, <2>1 DEF ReadField, Field
<1>8. CASE TakeJob BY <1>8 DEF TakeJob, Parsed, Field
<1>9. CASE JobEnd
  <2>1. job \in 1 .. listed /\ got \subseteq written[job] /\ Numbers \subseteq got
    BY <1>9 DEF JobEnd, Field
  <2>2. status' = [status EXCEPT ![job] = "COMPLETED"]
        /\ UNCHANGED <<written, njobs, clientVars, crashes>>
        /\ master' = "poll" /\ listed' = 0 /\ job' = 0 /\ got' = {}
    BY <1>9 DEF JobEnd
  <2>3. job \in Job /\ job <= njobs BY <2>1
  <2>7. status' \in [Job -> {"CREATED", "COMPLETED"}] BY <2>2
  <2>4. SubmissionTypeOK' /\ Passed' /\ Checked' BY <2>2, <2>7
  <2>5. Numbered' /\ HalfJobNeverRuns' BY <2>1, <2>2, <2>3
  <2>6. InOrder' BY <2>1, <2>2, <2>3
  <2> QED BY <2>4, <2>5, <2>6
<1>10. CASE StoiThrows BY <1>1, <1>10 DEF StoiThrows
<1>11. CASE NoSuchBlob BY <1>1, <1>11 DEF NoSuchBlob
<1>12. CASE MasterCrash BY <1>1, <1>12 DEF MasterCrash
<1> QED BY <1>2, <1>3, <1>4, <1>5, <1>6, <1>7, <1>8, <1>9, <1>10, <1>11, <1>12 DEF MasterStep

(* The invariant holds in every reachable state *)
LEMMA SubmissionInvariance == SubmissionSpec => []SubmissionInv
<1>1. SubmissionInv /\ [SubmissionNext]_submissionVars => SubmissionInv'
  <2> SUFFICES ASSUME SubmissionInv, [SubmissionNext]_submissionVars PROVE SubmissionInv'
    OBVIOUS
  <2>1. CASE UNCHANGED submissionVars
    BY <2>1 DEF submissionVars, clientVars, masterVars, SubmissionInv, SubmissionTypeOK,
       Passed, Numbered, Checked, InOrder, HalfJobNeverRuns
  <2> QED BY <2>1, ClientInv, MasterInv DEF SubmissionNext, ClientStep
<1> QED BY <1>1, SubmissionInitInv, PTL DEF SubmissionSpec

-----------------------------------------------------------------------------
(* SubmissionTypeOK of the submission and get_next_job holds for any number of jobs  *)
(* and crashes.                                                            *)
THEOREM SubmissionTypeCorrect == SubmissionSpec => []SubmissionTypeOK
<1>1. SubmissionInv => SubmissionTypeOK BY DEF SubmissionInv
<1> QED BY <1>1, SubmissionInvariance, PTL

(* Jobs are completed by job_end in the order of their numbers. *)
THEOREM InOrderCorrect == SubmissionSpec => []InOrder
<1>1. SubmissionInv => InOrder BY DEF SubmissionInv
<1> QED BY <1>1, SubmissionInvariance, PTL

(* get_next_job never hands out a job that lacks one of its numbers. *)
THEOREM HalfJobCorrect == SubmissionSpec => []HalfJobNeverRuns
<1>1. SubmissionInv => HalfJobNeverRuns BY DEF SubmissionInv
<1> QED BY <1>1, SubmissionInvariance, PTL

-----------------------------------------------------------------------------
(* The status znode *)

(* Before the znode exists *)
Early(w) == \/ at[w] = <<"wait">> /\ ntask[w] = 0
            \/ at[w] \in {<<"check", "BUSY">>, <<"create", "BUSY">>} /\ ntask[w] = 1
Fresh == node = NoNode => \A w \in Worker : Early(w)

(* A worker past its create, which no step makes abort *)
Safe(w)  == at[w] \notin {<<"aborted">>, <<"create", "BUSY">>} /\ ntask[w] > 0
Creator == node # NoNode => \E w \in Worker : Safe(w)

(* A worker whose write of IDLE is still to come *)
Pending == {<<"set", "BUSY">>, <<"run">>, <<"check", "IDLE">>, <<"set", "IDLE">>}
Follows == node = "BUSY" => \E w \in Worker : at[w] \in Pending

StatusInv == StatusTypeOK /\ Fresh /\ Creator /\ Follows

(* The places are different, and so are their first parts *)
LEMMA PlacesDiffer ==
  /\ \A u, v : <<"wait">> # <<u, v>> /\ <<"run">> # <<u, v>> /\ <<"aborted">> # <<u, v>>
  /\ <<"wait">> # <<"run">> /\ <<"wait">> # <<"aborted">> /\ <<"run">> # <<"aborted">>
  /\ \A s, t, u, v : <<s, t>> = <<u, v>> => s = u /\ t = v
OBVIOUS

(* The invariant holds initially *)
LEMMA StatusInitInv == StatusInit => StatusInv
BY DEF StatusInit, StatusInv, StatusTypeOK, Fresh, Early, Creator, Follows, Places, Steps

(* A step of one worker keeps the invariant *)
LEMMA StatusStepInv ==
  ASSUME StatusInv, NEW w \in Worker, NEW v \in {"BUSY", "IDLE"},
         \/ TakeTask(w) \/ TaskDone(w)
         \/ CheckExists(w, v) \/ Create(w, v) \/ CreateFails(w, v) \/ Set(w, v)
  PROVE  StatusInv'
<1> USE PlacesDiffer DEF StatusInv, StatusTypeOK, Fresh, Early, Creator, Safe, Follows, Pending
<1>1. CASE TakeTask(w)
  <2> QED BY <1>1 DEF TakeTask, Places, Steps
<1>2. CASE TaskDone(w)
  <2> QED BY <1>2 DEF TaskDone, Places, Steps
<1>3. CASE CheckExists(w, v)
  <2> QED BY <1>3 DEF CheckExists, NodeExists, Places, Steps
<1>4. CASE Create(w, v)
  <2> QED BY <1>4 DEF Create, Places, Steps
<1>5. CASE CreateFails(w, v)
  <2> QED BY <1>5 DEF CreateFails, Places, Steps
<1>6. CASE Set(w, v)
  <2> QED BY <1>6 DEF Set, AfterUpdate, Places, Steps
<1> QED BY <1>1, <1>2, <1>3, <1>4, <1>5, <1>6

(* The invariant holds in every reachable state.                           *)
THEOREM StatusInvCorrect == StatusSpec => []StatusInv
<1>1. StatusInv /\ [StatusNext]_statusVars => StatusInv'
  <2> SUFFICES ASSUME StatusInv, [StatusNext]_statusVars PROVE StatusInv'
    OBVIOUS
  <2>1. CASE StatusNext BY <2>1, StatusStepInv DEF StatusNext
  <2>2. CASE UNCHANGED statusVars
    BY <2>2 DEF statusVars, StatusInv, StatusTypeOK, Fresh, Early, Creator, Safe, Follows
  <2> QED BY <2>1, <2>2
<1> QED BY StatusInitInv, <1>1, PTL DEF StatusSpec

(* The variables have their types; only the first update of a worker may   *)
(* have to create the znode, and no assertion on set can fail              *)
(* (zook.h:120, 148).                                                      *)
THEOREM StatusTypeCorrect == StatusSpec => []StatusTypeOK
BY StatusInvCorrect, PTL DEF StatusInv

(* The race of create_if_not_exists leaves a worker that has taken a task, *)
(* however many race.  Who aborts found the znode there, and so somebody   *)
(* has created it.                                                         *)
LEMMA InvSurvives == StatusInv => SomeoneSurvives
BY PlacesDiffer DEF StatusInv, StatusTypeOK, Fresh, Early, Creator, Safe, SomeoneSurvives,
   Aborted
THEOREM SomeoneSurvivesCorrect == StatusSpec => []SomeoneSurvives
BY StatusInvCorrect, InvSurvives, PTL

(* When all workers that are left wait, the znode all of them write to     *)
(* says IDLE (executeTask's second update).                                *)
LEMMA InvIdle == StatusInv => IdleAtRest
BY PlacesDiffer DEF StatusInv, StatusTypeOK, Follows, Pending, IdleAtRest, Aborted
THEOREM IdleAtRestCorrect == StatusSpec => []IdleAtRest
BY StatusInvCorrect, InvIdle, PTL
=============================================================================
