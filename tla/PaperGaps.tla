------------------------------ MODULE PaperGaps ------------------------------
(***************************************************************************)
(* PaperExecution beside the log its reconciliations leave: the last row   *)
(* of paper_reconciliation_runs.  Only the complete rows are ever read     *)
(* back (completeGens), so the service itself does not depend on it.       *)
(***************************************************************************)
EXTENDS MCPaperExecution

VARIABLE lastRun  \* "none", or whether the run of the last row was complete

GapsInit == Init /\ lastRun = "none"

(* Whichever way a run ends, reconcile writes its row in the transaction   *)
(* that sets the gate.                                                     *)
RecordRun(w) ==
  /\ ReconcileCommit(w)
  /\ lastRun' = IF Complete(w) THEN "complete" ELSE "incomplete"

NoRunEnds == \A w \in Workers : ~(pc[w] = "snapshot" /\ pc'[w] = "idle")

GapsNext ==
  \/ \E w \in Workers : RecordRun(w)
  \/ Next /\ NoRunEnds /\ UNCHANGED lastRun

GapsSpec == GapsInit /\ [][GapsNext]_<<vars, lastRun>>

(* "reconciliation gaps fail closed" (docs/PROVIDER_CONTRACT.md)           *)
GapsFailClosed == lastRun = "incomplete" => gate
=============================================================================
