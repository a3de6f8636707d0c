---------------------------- MODULE PaperOutbox ----------------------------
(***************************************************************************)
(* What the paper outbox promises about each order, whatever instances,    *)
(* leases, crashes and reconciliations lie behind it.  An order is sent at *)
(* most once and only after it was made ready; while the fate of one order *)
(* is in doubt no other is sent; an order that was closed unsent is never  *)
(* delivered, and a delivered order is never closed unsent.                *)
(***************************************************************************)
CONSTANT Orders

VARIABLES
  stage,      \* what the service has decided about each order
  delivered   \* the orders the provider holds

Stages == {"new", "ready", "sent", "settled", "closed"}

TypeOK == stage \in [Orders -> Stages] /\ delivered \in SUBSET Orders

Init == stage = [o \in Orders |-> "new"] /\ delivered = {}

Advance(o, from, to) ==
  /\ stage[o] \in from
  /\ stage' = [stage EXCEPT ![o] = to]
  /\ UNCHANGED delivered

Ready(o) == Advance(o, {"new"}, "ready")

Send(o) ==
  /\ \A p \in Orders : stage[p] # "sent"
  /\ Advance(o, {"ready"}, "sent")

Settle(o) == Advance(o, {"sent"}, "settled")

Close(o) ==
  /\ o \notin delivered
  /\ Advance(o, {"new", "ready", "sent"}, "closed")

Deliver(o) ==
  /\ stage[o] \in {"sent", "settled"}
  /\ delivered' = delivered \cup {o}
  /\ UNCHANGED stage

Next == \E o \in Orders : Ready(o) \/ Send(o) \/ Settle(o) \/ Close(o) \/ Deliver(o)

Spec == Init /\ [][Next]_<<stage, delivered>>
=============================================================================
