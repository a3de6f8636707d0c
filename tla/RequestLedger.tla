--------------------------- MODULE RequestLedger ---------------------------
(***************************************************************************)
(* What the model budget promises about each physical model request,       *)
(* whatever claims, snapshots and crashes lie behind it.  A request is     *)
(* entered once; permission to send it is given at most once, and only     *)
(* after it was entered; what it cost is entered at most once, and only of *)
(* a request that was permitted.                                           *)
(***************************************************************************)
EXTENDS Naturals

CONSTANT Keys  \* request keys

VARIABLES
  entry,   \* what the ledger says of each request
  permits  \* how often somebody was allowed to send it

Entries == {"free", "reserved", "settled"}

TypeOK == entry \in [Keys -> Entries] /\ permits \in [Keys -> 0..1]

Init == entry = [k \in Keys |-> "free"] /\ permits = [k \in Keys |-> 0]

Enter(k, from, to) ==
  /\ entry[k] = from
  /\ entry' = [entry EXCEPT ![k] = to]
  /\ UNCHANGED permits

Reserve(k) == Enter(k, "free", "reserved")

Permit(k) ==
  /\ entry[k] = "reserved" /\ permits[k] = 0
  /\ permits' = [permits EXCEPT ![k] = 1]
  /\ UNCHANGED entry

Settle(k) == permits[k] = 1 /\ Enter(k, "reserved", "settled")

Next == \E k \in Keys : Reserve(k) \/ Permit(k) \/ Settle(k)

Spec == Init /\ [][Next]_<<entry, permits>>
=============================================================================
