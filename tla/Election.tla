------------------------------ MODULE Election ------------------------------
(***************************************************************************)
(* electLeader of src/master/master.cpp.  A master process creates an      *)
(* ephemeral sequential znode under /masters, then polls the children      *)
(* until the smallest number among them, counted down from Cutoff, is its  *)
(* own.  From then on it leads and never looks again.                      *)
(*                                                                         *)
(* A znode disappears when the session of its process expires: some time   *)
(* after the process died, or while it lives (a pause, a partition).  A    *)
(* poll that fails returns no children.  Both kinds of trouble for a live  *)
(* process count against MaxTrouble.                                       *)
(***************************************************************************)
EXTENDS Naturals, FiniteSets

CONSTANTS
    Process,     \* master processes; a restarted container is another process
    Cutoff,      \* initial value of minimal_node_id, 1000 in the code
    MaxTrouble   \* bound on lost sessions and failed polls

ASSUME ElectionAssumption == Cutoff \in Nat /\ MaxTrouble \in Nat

VARIABLES
    state,     \* where a process is in electLeader
    id,        \* mypath: the number of its znode
    seen,      \* the node ids in everyone, until it has decided
    registry,  \* processes with a znode under /masters
    seq,       \* number the next znode gets
    trouble    \* lost sessions and failed polls so far

electionVars == <<state, id, seen, registry, seq, trouble>>

States == {"off", "poll", "decide", "leader", "dead"}
Alive(p)   == state[p] \notin {"off", "dead"}
Leads(p)   == state[p] = "leader"
NodeIds    == {id[p] : p \in registry}

(* minimal_node_id after the loop over everyone *)
\* mutant: the comparison is the other way round
IsMinimal_Max(n, ids) == n \in ids /\ \A m \in ids : m <= n
\* mutant: whoever is not below the smallest number wins
IsMinimal_AtLeast(n, ids) == \E m \in ids \cup {Cutoff} : m <= n
IsMinimal(n, ids) ==
    /\ n <= Cutoff /\ \A m \in ids : n <= m
    /\ n < Cutoff => n \in ids

(* ZooKeeper numbers the znodes in the order of their creation *)
NextNumber == seq + 1

ElectionInit ==
    /\ state = [p \in Process |-> "off"]
    /\ id = [p \in Process |-> 0] /\ seen = [p \in Process |-> {}]
    /\ registry = {} /\ seq = 0 /\ trouble = 0

(* create()->withFlags(ZOO_EPHEMERAL | ZOO_SEQUENCE) *)
Register(p) ==
    /\ state[p] = "off"
    /\ state' = [state EXCEPT ![p] = "poll"]
    /\ id' = [id EXCEPT ![p] = seq]
    /\ registry' = registry \cup {p}
    /\ seq' = NextNumber
    /\ UNCHANGED <<seen, trouble>>

(* getChildren *)
Poll(p) ==
    /\ state[p] = "poll"
    /\ state' = [state EXCEPT ![p] = "decide"]
    /\ seen' = [seen EXCEPT ![p] = IF p \in registry THEN NodeIds ELSE {}]
    /\ UNCHANGED <<id, registry, seq, trouble>>

PollFails(p) ==
    /\ state[p] = "poll"
    /\ trouble < MaxTrouble /\ trouble' = trouble + 1
    /\ state' = [state EXCEPT ![p] = "decide"]
    /\ seen' = [seen EXCEPT ![p] = {}]
    /\ UNCHANGED <<id, registry, seq>>

\* mutant: the children are read once, before the loop
Decide_PollOnce(p) ==
    /\ state[p] = "decide"
    /\ state' = [state EXCEPT ![p] = IF IsMinimal(id[p], seen[p]) THEN "leader" ELSE "decide"]
    /\ UNCHANGED <<id, seen, registry, seq, trouble>>

(* minimal_node_id == mypath: leave the loop; or sleep and poll again *)
Decide(p) ==
    /\ state[p] = "decide"
    /\ state' = [state EXCEPT ![p] = IF IsMinimal(id[p], seen[p]) THEN "leader" ELSE "poll"]
    /\ seen' = [seen EXCEPT ![p] = {}]
    /\ UNCHANGED <<id, registry, seq, trouble>>

Die(p) ==
    /\ Alive(p)
    /\ state' = [state EXCEPT ![p] = "dead"]
    /\ seen' = [seen EXCEPT ![p] = {}]
    /\ UNCHANGED <<id, registry, seq, trouble>>

(* The session of a dead process expires *)
Expire(p) ==
    /\ state[p] = "dead" /\ p \in registry
    /\ registry' = registry \ {p}
    /\ UNCHANGED <<state, id, seen, seq, trouble>>

(* The session of a live process expires; the process does not notice *)
LoseSession(p) ==
    /\ Alive(p) /\ p \in registry
    /\ trouble < MaxTrouble /\ trouble' = trouble + 1
    /\ registry' = registry \ {p}
    /\ UNCHANGED <<state, id, seen, seq>>

Elect(p) == Poll(p) \/ Decide(p)

ElectionNext == \E p \in Process :
    \/ Register(p) \/ Elect(p) \/ PollFails(p)
    \/ Die(p) \/ Expire(p) \/ LoseSession(p)

(* A process that registered keeps polling; ZooKeeper expires the sessions *)
(* of the dead.                                                            *)
ElectionFairness == \A p \in Process : WF_electionVars(Elect(p)) /\ WF_electionVars(Expire(p))

ElectionSpec     == ElectionInit /\ [][ElectionNext]_electionVars
ElectionFairSpec == ElectionSpec /\ ElectionFairness
-----------------------------------------------------------------------------
(* Properties *)

(* Type invariant; no two processes have the same number *)
ElectionTypeOK ==
    /\ state \in [Process -> States]
    /\ id \in [Process -> Nat] /\ seen \in [Process -> SUBSET Nat]
    /\ registry \subseteq Process
    /\ seq \in Nat /\ trouble \in 0 .. MaxTrouble
    /\ \A p \in Process : state[p] # "off" =>
         /\ id[p] < seq
         /\ \A q \in Process : p # q /\ state[q] # "off" => id[p] # id[q]
    /\ \A p \in registry : state[p] # "off"

(* Two masters lead at the same time only if one of them lost its session  *)
(* without noticing (electLeader is not repeated), or has the very number  *)
(* Cutoff, for which a failed poll looks like a won election.              *)
SoleLeader ==
    \A p, q \in Process : Leads(p) /\ Leads(q) /\ p # q =>
       \E r \in {p, q} : r \notin registry \/ id[r] = Cutoff

(* While some process with a number below Cutoff stays alive with its      *)
(* session, the cluster does not stay without a leader.                    *)
Candidate(p) == Alive(p) /\ p \in registry /\ id[p] < Cutoff
LeaderElected ==
    \A p \in Process : [](Candidate(p) => <>(~Candidate(p) \/ \E q \in Process : Leads(q)))

(* However sessions end and polls fail, each leader but one costs a lost   *)
(* session or a failed poll of its own: what one disconnection does to the *)
(* election (everyone is empty, or a leader loses its znode) never makes   *)
(* two masters more.                                                       *)
Leaders == {p \in Process : Leads(p)}
LeadersNeedTrouble == Cardinality(Leaders) <= 1 + trouble
=============================================================================
