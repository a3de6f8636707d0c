-------------------------- MODULE MCPaperExecution --------------------------
(* Instances of PaperExecution for TLC. *)
EXTENDS PaperExecution, TLC

CONSTANTS w1, w2, v1, v2

OneVersion  == [w \in Workers |-> v1]
TwoVersions == [w \in Workers |-> IF w = w1 THEN v1 ELSE v2]

\* Every constant set is treated alike, so any of its members may be exchanged.
OrderSymmetry  == Permutations(Orders)
WorkerSymmetry == Permutations(Workers)
OrdersAndWorkers == OrderSymmetry \cup WorkerSymmetry

AllAdmitted == \A o \in Orders : approval[o] # "absent"
Cancelling  == \E c \in Cancels : cstate[c] # "absent"

\* Bound: the account is traded by hand, or the kill switch is used, while no more than
\* one order has been admitted and no cancellation requested, and not both.
QuietAccount ==
  external \/ killGen > 0 => (external => killGen = 0) /\ ~AllAdmitted /\ ~Cancelling

\* Bound: once every order is admitted and a cancellation is requested, no authority
\* lapses and no order is filled in part.
PlainReplacement ==
  AllAdmitted /\ Cancelling =>
    authority = Orders /\ \A o \in Orders : book[o] # "partially_filled"
=============================================================================
