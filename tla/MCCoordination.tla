--------------------------- MODULE MCCoordination ---------------------------
(* The znode of the workers and the znodes of the jobs on small instances. *)
(* The two share no state, and no property is about both: an execution is  *)
(* one of the first or one of the second, and interleaving them would show *)
(* no more.                                                                *)
EXTENDS StatusNode, Submission

CONSTANTS w1, w2, w3
ThreeWorkers == {w1, w2, w3}

VARIABLE part

InStatus     == part = "status"     /\ UNCHANGED <<part, submissionVars>>
InSubmission == part = "submission" /\ UNCHANGED <<part, statusVars>>

CoordinationInit == StatusInit /\ SubmissionInit /\ part \in {"status", "submission"}

CoordinationNext == \/ StatusNext /\ InStatus
                    \/ SubmissionNext /\ InSubmission

CoordinationSpec ==
    /\ CoordinationInit
    /\ [][CoordinationNext]_<<part, statusVars, submissionVars>>
    /\ WF_submissionVars(ClientStep /\ InSubmission)
    /\ WF_submissionVars(MasterStep /\ InSubmission)
=============================================================================
