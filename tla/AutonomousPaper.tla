-------------------------- MODULE AutonomousPaper --------------------------
(***************************************************************************)
(* The autonomous paper supervisor (autonomous_paper.py) over the journal  *)
(* of the IBKR Nautilus provider (ibkr_nautilus_execution.py).  One        *)
(* process at a time owns the root; inside it one thread at a time         *)
(* submits, cancels or reconciles (_runtime_activity_lock), while          *)
(* admission, cancel requests, operator kills and, from anywhere, the      *)
(* revocation of the provider lease go on beside it.  The broker is        *)
(* external: what it is sent may be late or lost.                          *)
(***************************************************************************)
EXTENDS Naturals, FiniteSets, Sequences

CONSTANTS
  Orders,
  Increases,    \* orders that open or increase exposure; the others reduce or close
  Instrument,   \* of each order
  DailyLimit,   \* daily_submission_limit of the mandate
  Nobody,
  OperatorReasons,  \* bound: the kills an operator may set
  MaxViews,     \* bound: how often the account is observed anew
  MaxFaults,    \* bound: failing sources, expiries, operator kills, refusals
  MaxCrashes    \* bound: how often the process dies

ASSUME AutonomousAssumption ==
  /\ Increases \subseteq Orders /\ IsFiniteSet(Orders) /\ Nobody \notin Orders
  /\ OperatorReasons \subseteq {"provider_loss", "coverage", "difference", "stale_account", "unknown_ack"}
  /\ DailyLimit \in Nat /\ MaxViews \in Nat /\ MaxFaults \in Nat /\ MaxCrashes \in Nat

VARIABLES
  \* autonomous_operations
  op,           \* the state of each operation
  reserved,     \* reservation_active
  consumed,     \* submission_consumed
  view,         \* the exposure view an operation was sized on
  admitted,     \* the operations in the order of created_at
  \* autonomous_cancellations, autonomous_kills, autonomous_provider_acceptances
  can,          \* the state of each order's cancellation
  asked,        \* the cancellations in the order of created_at
  kills,        \* the active kill reasons
  lease,        \* free, claimed for a cancel, claimed and to be revoked, revoked
  usedViews,    \* autonomous_exposure_generations
  \* the provider's journal
  bind,         \* of each order: nothing, prepared, accepted
  cbind,        \* of each cancellation: nothing, prepared, dispatched, canceled
  \* the runtime thread, and an admission under way beside it
  pc, cur, snap, clean, admitting,
  \* the world
  wire, cwire,  \* submissions and cancels on their way to the broker
  broker,       \* what the broker holds
  manual,       \* whether the mandate wants an approval for each order
  account,      \* the current exposure view
  expired,      \* orders past expires_at
  faults, crashes

operations == <<op, reserved, consumed, view, admitted>>
authority  == <<kills, lease>>
cancels    == <<can, asked>>
journal    == <<bind, cbind>>
thread     == <<pc, cur, snap, clean>>
network    == <<wire, cwire, broker>>
world      == <<manual, account, expired, faults, crashes>>
vars == <<operations, authority, cancels, journal, thread, network, world,
          usedViews, admitting>>

Reasons == {"provider_loss", "coverage", "difference", "stale_account", "unknown_ack", "stale_risk"}
Terminal == {"filled", "canceled"}
Submitting == {"claimed", "authorized", "prepared", "sent", "journaled", "refused", "doubtful"}
Canceling == {"cancelClaimed", "cancelPrepared", "cancelSent", "cancelDone",
              "cancelRefused", "cancelDoubtful"}
Reconciling == {"reconciling", "settled", "cleared"}

OperationsTypeOK ==
  /\ op \in [Orders -> {"new", "pending", "queued", "submitting", "accepted", "unknown",
                        "reconciled", "blocked"}]
  /\ reserved \in SUBSET Orders /\ consumed \in SUBSET Orders
  /\ view \in [Orders -> 0..MaxViews] /\ usedViews \in SUBSET (0..MaxViews)
  /\ admitted \in Seq(Orders)

ProviderTypeOK ==
  /\ can \in [Orders -> {"none", "queued", "canceling", "acknowledged", "unknown", "reconciled"}]
  /\ asked \in Seq(Orders)
  /\ kills \in SUBSET Reasons
  /\ lease \in {"free", "claimed", "revoking", "revoked"}
  /\ bind \in [Orders -> {"none", "prepared", "accepted"}]
  /\ cbind \in [Orders -> {"none", "prepared", "dispatched", "canceled"}]

ThreadTypeOK ==
  /\ pc \in {"down", "idle", "observed", "acked"} \cup Submitting \cup Canceling \cup Reconciling
  /\ cur \in Orders \cup {Nobody} /\ admitting \in Orders \cup {Nobody}
  /\ pc \in Submitting \cup Canceling => cur \in Orders
  /\ snap \in [Orders -> {"none", "working"} \cup Terminal]
  /\ clean \in BOOLEAN /\ manual \in BOOLEAN

WorldTypeOK ==
  /\ wire \in SUBSET Orders /\ cwire \in SUBSET Orders
  /\ broker \in [Orders -> {"none", "working"} \cup Terminal]
  /\ account \in 0..MaxViews /\ expired \in SUBSET Orders
  /\ faults \in 0..MaxFaults /\ crashes \in 0..MaxCrashes

TypeOK == OperationsTypeOK /\ ProviderTypeOK /\ ThreadTypeOK /\ WorldTypeOK

Init ==
  /\ op = [o \in Orders |-> "new"] /\ reserved = {} /\ consumed = {}
  /\ view = [o \in Orders |-> 0] /\ admitted = <<>>
  /\ can = [o \in Orders |-> "none"] /\ asked = <<>>
  /\ kills = {} /\ lease = "free" /\ usedViews = {}
  /\ bind = [o \in Orders |-> "none"] /\ cbind = [o \in Orders |-> "none"]
  /\ pc = "idle" /\ cur = Nobody /\ admitting = Nobody
  /\ snap = [o \in Orders |-> "none"] /\ clean = FALSE
  /\ wire = {} /\ cwire = {} /\ broker = [o \in Orders |-> "none"]
  /\ manual \in BOOLEAN /\ account = 0 /\ expired = {} /\ faults = 0 /\ crashes = 0

-----------------------------------------------------------------------------
(* What several handlers share. *)

\* Whether something outside works this time: each failure is one of the faults.
Outcome(ok) == faults' = IF ok THEN faults ELSE faults + 1
Possible(ok) == ok \/ faults < MaxFaults

\* _evaluate_current_risk: the kill of a risk that cannot be measured ends when it can.
RiskKills(ok) == IF ok THEN kills \ {"stale_risk"} ELSE kills \cup {"stale_risk"}

Goto(p) == pc' = p /\ UNCHANGED <<cur, snap, clean>>

\* The thread is done; it remembers nothing.
Done ==
  /\ pc' = "idle" /\ cur' = Nobody /\ clean' = FALSE
  /\ snap' = [o \in Orders |-> "none"]

\* The order that has been longest in a state.
Oldest(o, queue, state, s) ==
  \E i \in DOMAIN queue : /\ queue[i] = o /\ state[o] = s
                         /\ \A k \in 1..i - 1 : state[queue[k]] # s

\* _assert_dispatch_authorities: the lease and the order's expiry come first, then the
\* risk is measured, then the kills and the account the order was sized on count.
Measured(o, ok) == IF lease = "free" /\ o \notin expired THEN RiskKills(ok) ELSE kills
Authorized(o, active) ==
  /\ lease = "free" /\ o \notin expired /\ view[o] = account
  /\ o \in Increases => active = {}

-----------------------------------------------------------------------------
(* Admission and approval. *)

\* admit up to its transactions: risk, current authorities and kills.
BeginAdmission(o, ok) ==
  /\ pc # "down" /\ admitting = Nobody /\ op[o] = "new"
  /\ Possible(ok) /\ Outcome(ok)
  /\ kills' = RiskKills(ok)
  /\ IF o \in Increases => kills' = {}
       THEN admitting' = o /\ view' = [view EXCEPT ![o] = account]
       ELSE UNCHANGED <<admitting, view>>
  /\ UNCHANGED <<op, reserved, consumed, admitted, lease, cancels, journal, thread, network,
                 manual, account, expired, crashes, usedViews>>

\* _assert_reservation_budget
WithinBudget(o) ==
  /\ view[o] \notin usedViews
  /\ \A p \in reserved : Instrument[p] # Instrument[o]
  /\ Cardinality(reserved \cup consumed) < DailyLimit

\* The transaction of admit: the reservation and the operation, or a refusal.
FinishAdmission ==
  /\ admitting # Nobody
  /\ admitting' = Nobody
  /\ IF WithinBudget(admitting)
       THEN /\ op' = [op EXCEPT ![admitting] = IF manual THEN "pending" ELSE "queued"]
            /\ reserved' = reserved \cup {admitting}
            /\ admitted' = Append(admitted, admitting)
            /\ usedViews' = usedViews \cup {view[admitting]}
       ELSE UNCHANGED <<op, reserved, admitted, usedViews>>
  /\ UNCHANGED <<consumed, view, authority, cancels, journal, thread, network, world>>

\* expire_pending_approvals
Lapsed == {o \in expired : op[o] = "pending"}
ExpirePending ==
  /\ op' = [o \in Orders |-> IF o \in Lapsed THEN "blocked" ELSE op[o]]
  /\ reserved' = reserved \ Lapsed

\* decide_portfolio_approval: the authorities are checked again before an approval, and
\* one that fails them leaves the order pending.
Decide(o, approved, measured) ==
  /\ pc = "idle" /\ manual /\ op[o] = "pending"
  /\ Possible(measured) /\ Outcome(measured)
  /\ kills' = IF approved THEN Measured(o, measured) ELSE kills
  /\ LET granted == {p \in {o} : p \notin expired /\ approved /\ Authorized(p, kills')}
         refused == Lapsed \cup {p \in {o} : ~approved}
     IN /\ op' = [p \in Orders |-> IF p \in refused THEN "blocked"
                                  ELSE IF p \in granted THEN "queued" ELSE op[p]]
        /\ reserved' = reserved \ refused
  /\ UNCHANGED <<consumed, view, admitted, lease, cancels, journal, thread, network,
                 manual, account, expired, crashes, usedViews, admitting>>

-----------------------------------------------------------------------------
(* dispatch_next: a submission. *)

\* Approvals lapse, the exposure view is read, risk is measured.
Observe(seen, measured) ==
  /\ pc = "idle" /\ Possible(seen /\ measured) /\ Outcome(seen /\ measured)
  /\ ExpirePending
  /\ kills' = RiskKills(measured) \cup (IF seen THEN {} ELSE {"stale_account"})
  /\ Goto("observed")
  /\ UNCHANGED <<consumed, view, admitted, lease, cancels, journal, network,
                 manual, account, expired, crashes, usedViews, admitting>>

\* The oldest queued operation is claimed; a kill blocks it unless it reduces risk.
ClaimNothing ==
  /\ pc = "observed" /\ ~\E o \in Orders : Oldest(o, admitted, op, "queued")
  /\ Done
  /\ UNCHANGED <<operations, authority, cancels, journal, network, world, usedViews, admitting>>

ClaimSubmission(o) ==
  /\ pc = "observed" /\ Oldest(o, admitted, op, "queued")
  /\ IF kills # {} /\ o \in Increases
       THEN /\ op' = [op EXCEPT ![o] = "blocked"]
            /\ reserved' = reserved \ {o}
            /\ Done
            /\ UNCHANGED consumed
       ELSE /\ op' = [op EXCEPT ![o] = "submitting"]
            /\ consumed' = consumed \cup {o}
            /\ pc' = "claimed" /\ cur' = o
            /\ UNCHANGED <<reserved, snap, clean>>
  /\ UNCHANGED <<view, admitted, authority, cancels, journal, network, world, usedViews, admitting>>

\* _assert_dispatch_authorities after the claim: the order's time is checked before the
\* lease, and the exception names the provider only for the lease.
CheckAuthorities(measured, ok) ==
  /\ pc = "claimed" /\ Possible(measured /\ ok) /\ Outcome(measured /\ ok)
  /\ LET active == Measured(cur, measured)
     IN IF ok /\ Authorized(cur, active)
          THEN kills' = active /\ Goto("authorized")
          ELSE /\ kills' = active \cup
                           {IF lease = "free" \/ cur \in expired THEN "stale_account"
                                                                ELSE "provider_loss"}
               /\ Goto("refused")
  /\ UNCHANGED <<operations, lease, cancels, journal, network, manual, account, expired,
                 crashes, usedViews, admitting>>

\* submit of the provider: the capability is validated, then the binding is prepared.
\* Under manual approval the validator repeats the authorities of the dispatch.
Validate(measured, ok) ==
  /\ pc = "authorized" /\ Possible(measured /\ ok) /\ Outcome(measured /\ ok)
  /\ LET active == IF manual THEN Measured(cur, measured) ELSE kills
     IN IF /\ ok /\ lease = "free" /\ cur \notin expired
           /\ manual => Authorized(cur, active)
          THEN /\ bind' = [bind EXCEPT ![cur] = "prepared"]
               /\ kills' = active
               /\ Goto("prepared")
          ELSE /\ kills' = active \cup {"provider_loss"}
               /\ Goto("refused")
               /\ UNCHANGED bind
  /\ UNCHANGED <<operations, lease, cancels, cbind, network, manual, account, expired,
                 crashes, usedViews, admitting>>

\* _dispatch_submission: the mutation is recorded and leaves for the broker.
Submit ==
  /\ pc = "prepared"
  /\ wire' = wire \cup {cur}
  /\ Goto("sent")
  /\ UNCHANGED <<operations, authority, cancels, journal, cwire, broker, world, usedViews, admitting>>

\* The broker accepted it without a fill; _record_submission_acceptance
ObserveAccepted ==
  /\ pc = "sent" /\ broker[cur] = "working"
  /\ bind' = [bind EXCEPT ![cur] = "accepted"]
  /\ Goto("journaled")
  /\ UNCHANGED <<operations, authority, cancels, cbind, network, world, usedViews, admitting>>

\* Any other end of the provider's call is in doubt: first the kills, then the record.
SubmissionInDoubt ==
  /\ pc \in {"prepared", "sent"}
  /\ kills' = kills \cup {"unknown_ack", "coverage"}
  /\ Goto("doubtful")
  /\ UNCHANGED <<operations, lease, cancels, journal, network, world, usedViews, admitting>>

\* Mutant of FinishUnknown: an order whose fate is unknown gives its reservation back.
FinishUnknownReleasing ==
  /\ pc = "doubtful"
  /\ op' = [op EXCEPT ![cur] = "unknown"]
  /\ reserved' = reserved \ {cur}
  /\ Done
  /\ UNCHANGED <<consumed, view, admitted, authority, cancels, journal, network, world,
                 usedViews, admitting>>

FinishUnknown ==
  /\ pc = "doubtful"
  /\ op' = [op EXCEPT ![cur] = "unknown"]
  /\ Done
  /\ UNCHANGED <<reserved, consumed, view, admitted, authority, cancels, journal, network, world,
                 usedViews, admitting>>

BlockClaim ==
  /\ pc = "refused"
  /\ op' = [op EXCEPT ![cur] = "blocked"]
  /\ reserved' = reserved \ {cur} /\ consumed' = consumed \ {cur}
  /\ Done
  /\ UNCHANGED <<view, admitted, authority, cancels, journal, network, world, usedViews, admitting>>

\* The receipt is recorded; the kill that stops increases until it is reconciled follows
\* in a transaction of its own.
Acknowledge ==
  /\ pc = "journaled"
  /\ op' = [op EXCEPT ![cur] = "accepted"]
  /\ Goto("acked")
  /\ UNCHANGED <<reserved, consumed, view, admitted, authority, cancels, journal, network, world,
                 usedViews, admitting>>

CoverAcknowledged ==
  /\ pc = "acked"
  /\ kills' = kills \cup {"coverage"}
  /\ Done
  /\ UNCHANGED <<operations, lease, cancels, journal, network, world, usedViews, admitting>>

Dispatching ==
  \/ \E seen, measured \in BOOLEAN : Observe(seen, measured)
  \/ ClaimNothing \/ \E o \in Orders : ClaimSubmission(o)
  \/ \E measured, ok \in BOOLEAN : CheckAuthorities(measured, ok) \/ Validate(measured, ok)
  \/ Submit \/ ObserveAccepted \/ SubmissionInDoubt
  \/ FinishUnknown \/ BlockClaim \/ Acknowledge \/ CoverAcknowledged
-----------------------------------------------------------------------------
(* Cancellation. *)

\* request_cancel: one cancellation of an order, whatever became of the order since.
RequestCancel(o) ==
  /\ pc # "down" /\ ~manual
  /\ op[o] \in {"accepted", "reconciled"} /\ can[o] = "none"
  /\ can' = [can EXCEPT ![o] = "queued"]
  /\ asked' = Append(asked, o)
  /\ UNCHANGED <<operations, authority, journal, thread, network, world, usedViews, admitting>>

\* One transaction claims the lease and the oldest cancellation, or records the loss.
ClaimCancel(o) ==
  /\ pc = "idle" /\ ~manual /\ Oldest(o, asked, can, "queued")
  /\ IF lease = "free"
       THEN /\ lease' = "claimed"
            /\ can' = [can EXCEPT ![o] = "canceling"]
            /\ pc' = "cancelClaimed" /\ cur' = o
            /\ UNCHANGED <<kills, snap, clean>>
       ELSE /\ kills' = kills \cup {"provider_loss"}
            /\ UNCHANGED <<lease, can, thread>>
  /\ UNCHANGED <<operations, asked, journal, network, world, usedViews, admitting>>

\* cancel of the provider: validated by the claim alone, then prepared
PrepareCancel ==
  /\ pc = "cancelClaimed" /\ lease \in {"claimed", "revoking"}
  /\ cbind' = [cbind EXCEPT ![cur] = "prepared"]
  /\ Goto("cancelPrepared")
  /\ UNCHANGED <<operations, authority, cancels, bind, network, world, usedViews, admitting>>

\* The provider's own acceptance has lapsed: nothing was sent.
RejectCancel ==
  /\ pc = "cancelClaimed" /\ faults < MaxFaults
  /\ faults' = faults + 1
  /\ Goto("cancelRefused")
  /\ UNCHANGED <<operations, authority, cancels, journal, network, manual, account, expired,
                 crashes, usedViews, admitting>>

SendCancel ==
  /\ pc = "cancelPrepared"
  /\ cwire' = cwire \cup {cur}
  /\ Goto("cancelSent")
  /\ UNCHANGED <<operations, authority, cancels, journal, wire, broker, world, usedViews, admitting>>

\* The runtime reports the cancel as pending, or done; _record_cancellation
ObserveCancel ==
  /\ pc = "cancelSent"
  /\ cbind' = [cbind EXCEPT ![cur] = IF broker[cur] = "canceled" THEN "canceled" ELSE "dispatched"]
  /\ Goto("cancelDone")
  /\ UNCHANGED <<operations, authority, cancels, bind, network, world, usedViews, admitting>>

CancelInDoubt ==
  /\ pc \in {"cancelPrepared", "cancelSent"}
  /\ Goto("cancelDoubtful")
  /\ UNCHANGED <<operations, authority, cancels, journal, network, world, usedViews, admitting>>

\* finalize_mutation_in_transaction: the claim ends and a revocation that waited is final.
Released == IF lease = "revoking" THEN "revoked" ELSE "free"

\* The last transaction: the state, the kill of a doubt and the end of the claim.
FinishCancel ==
  /\ pc \in {"cancelDone", "cancelRefused", "cancelDoubtful"}
  /\ can' = [can EXCEPT ![cur] = CASE pc = "cancelDone" -> "acknowledged"
                                   [] pc = "cancelRefused" -> "queued"
                                   [] OTHER -> "unknown"]
  /\ kills' = IF pc = "cancelDoubtful" THEN kills \cup {"unknown_ack"} ELSE kills
  /\ lease' = Released
  /\ Done
  /\ UNCHANGED <<operations, asked, journal, network, world, usedViews, admitting>>

\* Mutant of Revoke: a revocation does not wait for the claimed call.
RevokeAtOnce ==
  /\ lease \in {"free", "claimed"}
  /\ lease' = "revoked"
  /\ UNCHANGED <<operations, kills, cancels, journal, thread, network, world, usedViews, admitting>>

\* request_revocation
Revoke ==
  /\ lease \in {"free", "claimed"}
  /\ lease' = IF lease = "claimed" THEN "revoking" ELSE "revoked"
  /\ UNCHANGED <<operations, kills, cancels, journal, thread, network, world, usedViews, admitting>>

Cancellation ==
  \/ \E o \in Orders : RequestCancel(o) \/ ClaimCancel(o)
  \/ PrepareCancel \/ RejectCancel \/ SendCancel \/ ObserveCancel
  \/ CancelInDoubt \/ FinishCancel \/ Revoke

-----------------------------------------------------------------------------
(* reconcile *)

\* In one transaction: the lease, and the provider's snapshot of the orders it is bound
\* to, whose cancellations it marks.  ok says whether the snapshot is complete and the
\* account was rebuilt from it.
TakeSnapshot(measured, ok) ==
  /\ pc = "idle" /\ lease = "free" /\ Possible(measured) /\ Outcome(measured)
  /\ kills' = RiskKills(measured)
  /\ snap' = [o \in Orders |-> IF bind[o] = "none" THEN "none" ELSE broker[o]]
  /\ clean' = ok
  /\ cbind' = [o \in Orders |-> IF cbind[o] # "none" /\ snap'[o] = "canceled"
                                  THEN "canceled" ELSE cbind[o]]
  /\ pc' = "reconciling"
  /\ UNCHANGED <<cur, operations, lease, cancels, bind, network, manual, account, expired,
                 crashes, usedViews, admitting>>

\* _record_failed_reconciliation_in_transaction: no lease, or the provider failed.
ReconciliationFails(ok) ==
  /\ pc = "idle" /\ (ok => lease # "free") /\ Possible(ok) /\ Outcome(ok)
  /\ kills' = kills \cup {"provider_loss", "coverage"}
  /\ UNCHANGED <<operations, lease, cancels, journal, thread, network, manual, account,
                 expired, crashes, usedViews, admitting>>

Rows == {o \in Orders : op[o] \in {"unknown", "accepted", "reconciled"}}
OpenCancels == {o \in Orders : can[o] \in {"unknown", "acknowledged"}}

\* Every order is covered, a doubt has ended, and so has every order with a cancel.
Covered ==
  /\ clean
  /\ \A o \in Rows : snap[o] # "none" /\ (op[o] = "unknown" => snap[o] \in Terminal)
  /\ \A o \in OpenCancels : snap[o] \in Terminal

ReportGaps ==
  /\ pc = "reconciling" /\ ~Covered
  /\ kills' = kills \cup {"difference", "coverage"}
  /\ Done
  /\ UNCHANGED <<operations, lease, cancels, journal, network, world, usedViews, admitting>>

\* No gap: the rows are reconciled and the reservations of ended orders released.
Settle ==
  /\ pc = "reconciling" /\ Covered
  /\ LET ended == {o \in Rows : snap[o] \in Terminal}
     IN /\ op' = [o \in Orders |-> IF o \in Rows THEN "reconciled" ELSE op[o]]
        /\ reserved' = (reserved \cup Rows) \ ended
        /\ can' = [o \in Orders |-> IF o \in ended /\ can[o] # "none" THEN "reconciled" ELSE can[o]]
  /\ Goto("settled")
  /\ UNCHANGED <<consumed, view, admitted, asked, authority, journal, network, world,
                 usedViews, admitting>>

ClearCoverage ==
  /\ pc = "settled"
  /\ kills' = kills \ {"difference", "coverage"}
  /\ Goto("cleared")
  /\ UNCHANGED <<operations, lease, cancels, journal, network, world, usedViews, admitting>>

InDoubt == \E o \in Orders : op[o] = "unknown" \/ can[o] = "unknown"

ClearUnknown ==
  /\ pc = "cleared"
  /\ kills' = IF InDoubt THEN kills ELSE kills \ {"unknown_ack"}
  /\ Done
  /\ UNCHANGED <<operations, lease, cancels, journal, network, world, usedViews, admitting>>

Reconciliation ==
  \/ \E measured, ok \in BOOLEAN : TakeSnapshot(measured, ok)
  \/ \E ok \in BOOLEAN : ReconciliationFails(ok)
  \/ ReportGaps \/ Settle \/ ClearCoverage \/ ClearUnknown

-----------------------------------------------------------------------------
(* The process, the operator, the account and the broker. *)

\* activate_kill
OperatorKill(reason) ==
  /\ pc # "down" /\ faults < MaxFaults
  /\ kills' = kills \cup {reason} /\ faults' = faults + 1
  /\ UNCHANGED <<operations, lease, cancels, journal, thread, network, manual, account, expired,
                 crashes, usedViews, admitting>>

\* The process dies, or closes when it is idle.
Stop ==
  /\ pc # "down" /\ crashes < MaxCrashes
  /\ crashes' = crashes + 1
  /\ pc' = "down" /\ cur' = Nobody /\ clean' = FALSE /\ snap' = [o \in Orders |-> "none"]
  /\ admitting' = Nobody
  /\ UNCHANGED <<operations, authority, cancels, journal, network, manual, account, expired,
                 faults, usedViews>>

\* Mutant of Interrupted: only a submission left open counts as interrupted.
InterruptedSubmission == \E o \in Orders : op[o] = "submitting"

\* Whether the dead process left a call open.
Interrupted ==
  \/ lease # "free"
  \/ \E o \in Orders : op[o] = "submitting" \/ can[o] = "canceling"

\* The constructor: the lease, free or claimed by the dead process, and
\* _recover_interrupted_operations, then the approvals that lapsed and the risk.
Start(measured) ==
  /\ pc = "down" /\ lease # "revoked" /\ Possible(measured) /\ Outcome(measured)
  /\ op' = [o \in Orders |-> IF op[o] = "submitting" THEN "unknown"
                             ELSE IF o \in Lapsed THEN "blocked" ELSE op[o]]
  /\ reserved' = reserved \ Lapsed
  /\ can' = [o \in Orders |-> IF can[o] = "canceling" THEN "unknown" ELSE can[o]]
  /\ lease' = Released
  /\ kills' = RiskKills(measured) \cup (IF Interrupted THEN {"unknown_ack", "coverage"} ELSE {})
  /\ pc' = "idle"
  /\ UNCHANGED <<consumed, view, admitted, asked, journal, cur, snap, clean, network,
                 manual, account, expired, crashes, usedViews, admitting>>

\* A newer exposure view is published.
AccountMoves ==
  /\ account < MaxViews
  /\ account' = account + 1
  /\ UNCHANGED <<operations, authority, cancels, journal, thread, network, manual, expired,
                 faults, crashes, usedViews, admitting>>

Expire(o) ==
  /\ op[o] \in {"pending", "queued", "submitting"} /\ o \notin expired /\ faults < MaxFaults
  /\ expired' = expired \cup {o} /\ faults' = faults + 1
  /\ UNCHANGED <<operations, authority, cancels, journal, thread, network, manual, account,
                 crashes, usedViews, admitting>>

\* The broker takes a submission.  One that is lost stays on its way for ever.
Deliver(o) ==
  /\ o \in wire
  /\ wire' = wire \ {o}
  /\ broker' = [broker EXCEPT ![o] = "working"]
  /\ UNCHANGED <<operations, authority, cancels, journal, thread, cwire, world, usedViews, admitting>>

Fill(o) ==
  /\ broker[o] = "working"
  /\ broker' = [broker EXCEPT ![o] = "filled"]
  /\ UNCHANGED <<operations, authority, cancels, journal, thread, wire, cwire, world, usedViews,
                 admitting>>

\* A cancel that is late, or lost, changes nothing.
DeliverCancel(o) ==
  /\ o \in cwire /\ broker[o] = "working"
  /\ cwire' = cwire \ {o}
  /\ broker' = [broker EXCEPT ![o] = "canceled"]
  /\ UNCHANGED <<operations, authority, cancels, journal, thread, wire, world, usedViews, admitting>>

Next ==
  \/ \E o \in Orders, ok \in BOOLEAN : BeginAdmission(o, ok)
  \/ FinishAdmission
  \/ \E o \in Orders, approved, measured \in BOOLEAN : Decide(o, approved, measured)
  \/ Dispatching \/ Cancellation \/ Reconciliation
  \/ \E reason \in OperatorReasons : OperatorKill(reason)
  \/ Stop \/ \E measured \in BOOLEAN : Start(measured)
  \/ AccountMoves
  \/ \E o \in Orders : Expire(o) \/ Deliver(o) \/ DeliverCancel(o) \/ Fill(o)

Spec == Init /\ [][Next]_vars

-----------------------------------------------------------------------------
(* An order that is on its way to the broker or open there holds its reservation:     *)
(* whatever was refused, in doubt, lost or recovered, the budgets of the next order    *)
(* still count it.                                                                     *)
OpenOrdersAreReserved ==
  \A o \in Orders : o \in wire \/ broker[o] = "working" => o \in reserved

(* While the fate of an order or of a cancellation is unknown, no order that opens or  *)
(* increases exposure is sent.                                                         *)
DoubtBlocksIncrease == [][InDoubt => wire' \cap Increases \subseteq wire]_vars

(* Once a revocation is final no cancellation is sent, although the call that was in   *)
(* flight when it was asked for may still be.                                          *)
RevokedLeaseCancelsNothing == [][lease = "revoked" => cwire' \subseteq cwire]_vars

(* While an accepted order has not been reconciled, no order that opens or increases   *)
(* exposure is sent.                                                                   *)
UncoveredBlocksIncrease ==
  [][(\E o \in Orders : op[o] = "accepted") => wire' \cap Increases \subseteq wire]_vars
=============================================================================
