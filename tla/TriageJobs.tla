----------------------------- MODULE TriageJobs -----------------------------
(***************************************************************************)
(* What one member of a triage work plan promises: its run ends once, and  *)
(* an authorized second run may take the place of one that ended without   *)
(* an answer, once.  The plan is built on this and nothing else.           *)
(***************************************************************************)
CONSTANT Jobs

VARIABLES
  outcome,   \* how the run that counts for the job ended, or "open"
  second     \* whether that run is the second one

jobs == <<outcome, second>>

Outcomes == {"completed", "failed", "budget", "human"}

TypeOK ==
  /\ outcome \in [Jobs -> Outcomes \cup {"open"}]
  /\ second \in [Jobs -> BOOLEAN]

Init ==
  /\ outcome = [j \in Jobs |-> "open"]
  /\ second = [j \in Jobs |-> FALSE]

End(j, how) ==
  /\ outcome[j] = "open"
  /\ outcome' = [outcome EXCEPT ![j] = how]
  /\ UNCHANGED second

Substitute(j) ==
  /\ ~second[j] /\ outcome[j] \in {"failed", "human"}
  /\ outcome' = [outcome EXCEPT ![j] = "open"]
  /\ second' = [second EXCEPT ![j] = TRUE]

Next ==
  \E j \in Jobs :
    \/ \E how \in Outcomes : End(j, how)
    \/ Substitute(j)

Spec == Init /\ [][Next]_jobs
=============================================================================
