--------------------------- MODULE PaperExecution ---------------------------
(***************************************************************************)
(* PaperExecutionService (paper_execution.py) and the durable              *)
(* MockExecutionProvider (providers.py) it submits to.  Several service    *)
(* instances, in one process or in several, share one SQLite root: every   *)
(* BEGIN IMMEDIATE transaction is one action, and what a method reads, or  *)
(* asks the provider, between two transactions is an action of its own, so *)
(* that the instances interleave where the code lets them.  A worker is    *)
(* one thread of control inside an instance.                               *)
(*                                                                         *)
(* Abstracted: artifacts and hashes (an id names its content), prices and  *)
(* quantities (an order is open, partly filled or filled), and wall-clock  *)
(* time.  A lease lapses at some moment after it is taken, an order's      *)
(* authorities (its own expiry, the mandate's, the price basis' and the    *)
(* account state's) at some moment after it is admitted; the order in      *)
(* which queued rows are picked is left open.                              *)
(***************************************************************************)
EXTENDS Naturals, FiniteSets

CONSTANTS
  Orders,        \* client order ids
  Cancels,       \* cancellation ids
  Workers,       \* threads of control of the service instances
  Versions,      \* (provider_id, provider_version) pairs
  VersionOf,     \* the provider binding of each worker's instance
  MaxKills,      \* bound: activations of the kill switch
  NoJob, NoOrder

ASSUME ConstantsAssumption ==
  /\ Versions # {} /\ VersionOf \in [Workers -> Versions]
  /\ Orders \cap Cancels = {}
  /\ Workers \cap (Orders \cup Cancels) = {}
  /\ NoJob \notin Orders \cup Cancels
  /\ NoOrder \notin Orders
  /\ MaxKills \in Nat

VARIABLES
  approval,      \* approval_state, "absent" when there is no row
  outbox,        \* outbox_state, "none" for NULL
  provStatus,    \* provider_status, "none" for NULL
  bound,         \* provider_id and provider_version of the row
  lease,         \* lease_token and lease_expires_at: "none", "live", "lapsed"
  attempts,      \* rows of paper_submission_attempts; the last is the token
  cstate,        \* state of a cancellation row, "absent" when there is none
  target,        \* client_order_id of the cancellation
  replacement,   \* the order a paper_replacements row binds to a cancellation
  linked,        \* cancellations whose replacement row names the admitted order
  clease,        \* lease of the cancellation
  cattempts,     \* rows of paper_cancellation_attempts
  gate,          \* paper_execution_gate.blocked
  killActive,    \* paper_kill_switch.active
  killGen,       \* paper_kill_switch.generation
  completeGens,  \* kill_generation of the complete rows of reconciliation_runs
  authority,     \* orders whose submission authorities are current
  book,          \* the provider's own record of each order
  external,      \* the provider account holds an order the Harness never sent
  pc, job, token,               \* each worker's position, row and lease token
  gen, seenBook, seenClean, covers,  \* what a reconcile has read so far
  sinceKill,     \* history: workers whose reconcile began after activation
  confirmed,     \* history: one of those ended complete
  madeFor        \* history: the cancellation whose admit_replacement made the row

intentVars   == <<approval, outbox, provStatus, bound, lease, attempts>>
cancelVars   == <<cstate, target, replacement, linked, clease, cattempts>>
killVars     == <<killActive, killGen, completeGens>>
providerVars == <<book, external>>
readVars     == <<gen, seenBook, seenClean>>
historyVars  == <<sinceKill, confirmed, madeFor>>
vars == <<intentVars, cancelVars, gate, killVars, authority, providerVars,
          pc, job, token, readVars, covers, historyVars>>

Approvals == {"absent", "denied", "pending_approval", "approved", "rejected", "expired"}
Outboxes  == {"none", "queued", "submitting", "unknown", "accepted", "reconciled", "expired"}
BookStates == {"none", "accepted", "partially_filled", "filled", "canceled"}
ProvStatuses == BookStates \cup {"not_found"}
Leases == {"none", "live", "lapsed"}
CancelStates == {"absent", "pending_approval", "rejected", "queued", "canceling",
                 "unknown", "acknowledged", "reconciled", "expired"}

SubmitPCs == {"claimed", "submitting", "validated", "acked", "ambiguous", "refused"}
CancelPCs == {"cancel_claimed", "cancel_validated", "cancel_acked",
              "cancel_ambiguous", "cancel_refused"}
OtherPCs  == {"idle", "down", "dispatch", "cancel_dispatch", "linking",
              "recovering", "reconcile", "snapshot"}

(* An order or a cancellation whose fate the service does not know. *)
Unsettled       == {"submitting", "unknown", "accepted"}
CancelUnsettled == {"canceling", "unknown", "acknowledged"}
NonTerminal     == {"pending_approval", "queued"} \cup CancelUnsettled
OpenStatuses    == {"accepted", "partially_filled"}
Tracked         == Unsettled \cup {"reconciled"}

IntentsTypeOK ==
  /\ approval \in [Orders -> Approvals]
  /\ outbox \in [Orders -> Outboxes]
  /\ provStatus \in [Orders -> ProvStatuses]
  /\ bound \in [Orders -> Versions]
  /\ lease \in [Orders -> Leases]
  /\ attempts \in [Orders -> Nat]

CancelsTypeOK ==
  /\ cstate \in [Cancels -> CancelStates]
  /\ target \in [Cancels -> Orders \cup {NoOrder}]
  /\ \A c \in Cancels : cstate[c] # "absent" => target[c] \in Orders
  /\ replacement \in [Cancels -> Orders \cup {NoOrder}]
  /\ linked \in SUBSET Cancels
  /\ clease \in [Cancels -> Leases]
  /\ cattempts \in [Cancels -> Nat]

ControlsTypeOK ==
  /\ gate \in BOOLEAN
  /\ killActive \in BOOLEAN
  /\ killGen \in Nat
  /\ completeGens \in SUBSET Nat
  /\ authority \in SUBSET Orders
  /\ book \in [Orders -> BookStates]
  /\ external \in BOOLEAN

WorkersTypeOK ==
  /\ pc \in [Workers -> SubmitPCs \cup CancelPCs \cup OtherPCs]
  /\ job \in [Workers -> Orders \cup Cancels \cup {NoJob}]
  /\ \A w \in Workers :
       /\ pc[w] \in SubmitPCs => job[w] \in Orders
       /\ pc[w] \in CancelPCs \cup {"linking"} => job[w] \in Cancels
  /\ token \in [Workers -> Nat]
  /\ gen \in [Workers -> Nat]
  /\ seenBook \in [Workers -> [Orders -> BookStates]]
  /\ seenClean \in [Workers -> BOOLEAN]
  /\ covers \in [Workers -> SUBSET (Orders \cup Cancels \cup Workers)]
  /\ sinceKill \in SUBSET Workers
  /\ confirmed \in BOOLEAN
  /\ madeFor \in [Orders -> Cancels \cup {NoJob}]

TypeOK == IntentsTypeOK /\ CancelsTypeOK /\ ControlsTypeOK /\ WorkersTypeOK

EmptyBook == [o \in Orders |-> "none"]

Init ==
  /\ approval = [o \in Orders |-> "absent"]
  /\ outbox = [o \in Orders |-> "none"]
  /\ provStatus = [o \in Orders |-> "none"]
  /\ bound = [o \in Orders |-> CHOOSE v \in Versions : TRUE]
  /\ lease = [o \in Orders |-> "none"]
  /\ attempts = [o \in Orders |-> 0]
  /\ cstate = [c \in Cancels |-> "absent"]
  /\ target = [c \in Cancels |-> NoOrder]
  /\ replacement = [c \in Cancels |-> NoOrder]
  /\ linked = {}
  /\ clease = [c \in Cancels |-> "none"]
  /\ cattempts = [c \in Cancels |-> 0]
  /\ gate = FALSE /\ killActive = FALSE /\ killGen = 0
  /\ completeGens = {}
  /\ authority = Orders
  /\ book = EmptyBook /\ external = FALSE
  /\ pc = [w \in Workers |-> "idle"]
  /\ job = [w \in Workers |-> NoJob]
  /\ token = [w \in Workers |-> 0]
  /\ gen = [w \in Workers |-> 0]
  /\ seenBook = [w \in Workers |-> EmptyBook]
  /\ seenClean = [w \in Workers |-> FALSE]
  /\ covers = [w \in Workers |-> {}]
  /\ sinceKill = {} /\ confirmed = FALSE
  /\ madeFor = [o \in Orders |-> NoJob]

-----------------------------------------------------------------------------
(* Workers *)

Goto(w, label) ==
  /\ pc' = [pc EXCEPT ![w] = label]
  /\ UNCHANGED <<job, token>>

Take(w, label, x, t) ==
  /\ pc' = [pc EXCEPT ![w] = label]
  /\ job' = [job EXCEPT ![w] = x]
  /\ token' = [token EXCEPT ![w] = t]

Return(w) == Take(w, "idle", NoJob, 0)

(* started_at is the clock read at the start of a dispatch.  covers[r]     *)
(* holds the attempts that started no later than the snapshot r has taken, *)
(* and the dispatches under way at that moment, whose attempt, if they     *)
(* claim a row, will carry an earlier time.                                *)
Forget(w) == covers' = [r \in Workers |-> covers[r] \ {w}]

Started(w, x) ==
  covers' = [r \in Workers |-> IF w \in covers[r] THEN (covers[r] \ {w}) \cup {x}
                                                  ELSE covers[r] \ {x}]

(* The token in the row is still the one this worker was given. *)
HoldsLease(w, o)  == lease[o] # "none" /\ attempts[o] = token[w]
HoldsCLease(w, c) == clease[c] # "none" /\ cattempts[c] = token[w]

(* Mutant of OwnsClaim: the row is addressed by its id alone. *)
ClaimByName(w, o) == TRUE

OwnsClaim(w, o)        == HoldsLease(w, o) /\ outbox[o] = "submitting"
OwnsCancellation(w, c) == HoldsCLease(w, c) /\ cstate[c] = "canceling"

PendingCancellation == \E c \in Cancels : cstate[c] \in NonTerminal

(* Mutant of DispatchOpen: the claim does not consult the gate. *)
DispatchUngated == ~killActive /\ ~PendingCancellation

DispatchOpen == ~gate /\ ~killActive /\ ~PendingCancellation

-----------------------------------------------------------------------------
(* Admission and approval *)

(* _admit: the hard policy has answered; only an eligible order with a     *)
(* timeboxed mandate is queued without a human.  Re-admission of the same  *)
(* id returns the row and changes nothing.  An id that a request for a     *)
(* replacement names is admitted like any other.                           *)
AdmitRow(w, o, outcome) ==
  /\ approval[o] = "absent"
  /\ ~gate
  /\ outcome # "denied" => o \in authority
  /\ approval' = [approval EXCEPT ![o] = outcome]
  /\ outbox' = [outbox EXCEPT ![o] = IF outcome = "approved" THEN "queued" ELSE "none"]
  /\ bound' = [bound EXCEPT ![o] = VersionOf[w]]
  /\ UNCHANGED <<provStatus, lease, attempts>>

Outcomes == {"denied", "pending_approval", "approved"}

Admit(w, o) ==
  /\ pc[w] = "idle"
  /\ \E outcome \in Outcomes : AdmitRow(w, o, outcome)
  /\ UNCHANGED <<cancelVars, gate, killVars, authority, providerVars, pc, job, token,
                 readVars, covers, historyVars>>

Decide(w, o, approve) ==
  /\ pc[w] = "idle"
  /\ approval[o] = "pending_approval"
  /\ LET current == o \in authority /\ (approve => bound[o] = VersionOf[w])
     IN /\ approval' = [approval EXCEPT ![o] =
                          IF ~current THEN "expired"
                          ELSE IF approve THEN "approved" ELSE "rejected"]
        /\ outbox' = [outbox EXCEPT ![o] = IF current /\ approve THEN "queued" ELSE @]
  /\ UNCHANGED <<provStatus, bound, lease, attempts>>
  /\ UNCHANGED <<cancelVars, gate, killVars, authority, providerVars, pc, job, token,
                 readVars, covers, historyVars>>

-----------------------------------------------------------------------------
(* Submission: recover, claim, recheck, call the provider, record *)

(* Mutant of Lapsed: no lease is ever found to have expired. *)
NoneLapsed == {}

(* _recover_expired_leases and its twin for cancellations *)
Lapsed  == {o \in Orders : outbox[o] = "submitting" /\ lease[o] = "lapsed"}
CLapsed == {c \in Cancels : cstate[c] = "canceling" /\ clease[c] = "lapsed"}

(* Mutant of RecoverIntents: what was interrupted is tried again. *)
RequeueIntents ==
  /\ outbox' = [o \in Orders |-> IF o \in Lapsed THEN "queued" ELSE outbox[o]]
  /\ lease' = [o \in Orders |-> IF o \in Lapsed THEN "none" ELSE lease[o]]
  /\ UNCHANGED <<approval, provStatus, bound, attempts>>

RecoverIntents ==
  /\ outbox' = [o \in Orders |-> IF o \in Lapsed THEN "unknown" ELSE outbox[o]]
  /\ lease' = [o \in Orders |-> IF o \in Lapsed THEN "none" ELSE lease[o]]
  /\ UNCHANGED <<approval, provStatus, bound, attempts>>

RecoverCancels ==
  /\ cstate' = [c \in Cancels |-> IF c \in CLapsed THEN "unknown" ELSE cstate[c]]
  /\ clease' = [c \in Cancels |-> IF c \in CLapsed THEN "none" ELSE clease[c]]
  /\ UNCHANGED <<target, replacement, linked, cattempts>>

DispatchBegin(w) ==
  /\ pc[w] = "idle"
  /\ RecoverIntents
  /\ gate' = (gate \/ Lapsed # {})
  /\ Goto(w, "dispatch")
  /\ UNCHANGED <<cancelVars, killVars, authority, providerVars, readVars, covers, historyVars>>

(* _claim_next returns None: dispatch is not open, nothing is queued, or   *)
(* the head of the queue is not the row that was read and validated before *)
(* the transaction.  That row is not kept, so the action has no guard.     *)
ClaimNothing(w) ==
  /\ pc[w] = "dispatch"
  /\ Goto(w, "idle")
  /\ Forget(w)
  /\ UNCHANGED <<intentVars, cancelVars, gate, killVars, authority, providerVars,
                 readVars, historyVars>>

ClaimExpires(w, o) ==
  /\ pc[w] = "dispatch"
  /\ DispatchOpen
  /\ outbox[o] = "queued"
  /\ bound[o] # VersionOf[w] \/ o \notin authority
  /\ outbox' = [outbox EXCEPT ![o] = "expired"]
  /\ Goto(w, "idle")
  /\ Forget(w)
  /\ UNCHANGED <<approval, provStatus, bound, lease, attempts, cancelVars, gate, killVars,
                 authority, providerVars, readVars, historyVars>>

ClaimNext(w, o) ==
  /\ pc[w] = "dispatch"
  /\ DispatchOpen
  /\ outbox[o] = "queued"
  /\ bound[o] = VersionOf[w]
  /\ o \in authority
  /\ outbox' = [outbox EXCEPT ![o] = "submitting"]
  /\ lease' = [lease EXCEPT ![o] = "live"]
  /\ attempts' = [attempts EXCEPT ![o] = @ + 1]
  /\ gate' = TRUE
  /\ Take(w, "claimed", o, attempts[o] + 1)
  /\ Started(w, o)
  /\ UNCHANGED <<approval, provStatus, bound, cancelVars, killVars, authority, providerVars,
                 readVars, historyVars>>

(* dispatch_next looks again at the provider's admission and the           *)
(* authorities before it issues the capability.                            *)
Recheck(w, providerOpen) ==
  /\ pc[w] = "claimed"
  /\ Goto(w, IF providerOpen /\ job[w] \in authority THEN "submitting" ELSE "refused")
  /\ UNCHANGED <<intentVars, cancelVars, gate, killVars, authority, providerVars,
                 readVars, covers, historyVars>>

(* _validate_submission_capability, called by the provider *)
ValidSubmission(w, o) ==
  /\ bound[o] = VersionOf[w]
  /\ outbox[o] = "submitting"
  /\ HoldsLease(w, o)
  /\ lease[o] = "live"
  /\ o \in authority

ValidateSubmission(w) ==
  /\ pc[w] = "submitting"
  /\ Goto(w, IF ValidSubmission(w, job[w]) THEN "validated" ELSE "refused")
  /\ UNCHANGED <<intentVars, cancelVars, gate, killVars, authority, providerVars,
                 readVars, covers, historyVars>>

(* Mutant of SubmitReplies: any exception counts as a rejection. *)
RepliesTakenAsRefusal == {"acked", "refused"}

(* How dispatch_next reads the end of a call that may have had its effect: *)
(* every exception but the typed rejection is ambiguous.                   *)
SubmitReplies == {"acked", "ambiguous"}

(* submit: the provider writes the order at most once per id; the reply    *)
(* may still be an exception, and only an accepted receipt without fills   *)
(* counts as an acknowledgement.                                           *)
ProviderSubmit(w) ==
  /\ pc[w] = "validated"
  /\ book' = [book EXCEPT ![job[w]] = IF @ = "none" THEN "accepted" ELSE @]
  /\ \E reply \in SubmitReplies :
       /\ reply = "acked" => book'[job[w]] = "accepted"
       /\ Goto(w, reply)
  /\ UNCHANGED <<intentVars, cancelVars, gate, killVars, authority, external,
                 readVars, covers, historyVars>>

(* The provider refuses the order with the typed rejection, or fails       *)
(* before it has written anything.                                         *)
ProviderDeclines(w) ==
  /\ pc[w] = "validated"
  /\ \E reply \in {"refused", "ambiguous"} : Goto(w, reply)
  /\ UNCHANGED <<intentVars, cancelVars, gate, killVars, authority, providerVars,
                 readVars, covers, historyVars>>

(* The update is guarded by the token alone; when the lease was lost the   *)
(* method raises and nothing is written.                                   *)
Acknowledge(w) ==
  /\ pc[w] = "acked"
  /\ LET o == job[w] IN
       IF HoldsLease(w, o)
       THEN /\ outbox' = [outbox EXCEPT ![o] = "accepted"]
            /\ provStatus' = [provStatus EXCEPT ![o] = "accepted"]
            /\ lease' = [lease EXCEPT ![o] = "none"]
            /\ gate' = TRUE
            /\ UNCHANGED <<approval, bound, attempts>>
       ELSE UNCHANGED <<intentVars, gate>>
  /\ Return(w)
  /\ UNCHANGED <<cancelVars, killVars, authority, providerVars, readVars, covers, historyVars>>

ExpireClaimBeforeSubmit(w) ==
  /\ pc[w] = "refused"
  /\ LET o == job[w] IN
       IF OwnsClaim(w, o)
       THEN /\ outbox' = [outbox EXCEPT ![o] = "expired"]
            /\ lease' = [lease EXCEPT ![o] = "none"]
            /\ gate' = FALSE
            /\ UNCHANGED <<approval, provStatus, bound, attempts>>
       ELSE UNCHANGED <<intentVars, gate>>
  /\ Return(w)
  /\ UNCHANGED <<cancelVars, killVars, authority, providerVars, readVars, covers, historyVars>>

(* _finish_ambiguous blocks the gate whether or not it still owns the row. *)
FinishAmbiguous(w) ==
  /\ pc[w] = "ambiguous"
  /\ LET o == job[w] IN
       IF HoldsLease(w, o)
       THEN /\ outbox' = [outbox EXCEPT ![o] = "unknown"]
            /\ lease' = [lease EXCEPT ![o] = "none"]
            /\ UNCHANGED <<approval, provStatus, bound, attempts>>
       ELSE UNCHANGED intentVars
  /\ gate' = TRUE
  /\ Return(w)
  /\ UNCHANGED <<cancelVars, killVars, authority, providerVars, readVars, covers, historyVars>>

-----------------------------------------------------------------------------
(* Cancellation and replacement *)

(* _request_cancel_locked for a new cancellation id *)
Cancelable(w, o) ==
  /\ bound[o] = VersionOf[w]
  /\ outbox[o] = "reconciled"
  /\ provStatus[o] \in OpenStatuses
  /\ \A d \in Cancels : target[d] = o => cstate[d] \notin NonTerminal
  /\ ~gate

RecordCancellation(c, o) ==
  /\ cstate' = [cstate EXCEPT ![c] = IF @ = "absent" THEN "pending_approval" ELSE @]
  /\ target' = [target EXCEPT ![c] = o]

RequestCancel(w, o, c) ==
  /\ pc[w] = "idle"
  /\ cstate[c] = "absent"
  /\ Cancelable(w, o)
  /\ RecordCancellation(c, o)
  /\ UNCHANGED <<replacement, linked, clease, cattempts>>
  /\ UNCHANGED <<intentVars, gate, killVars, authority, providerVars, pc, job, token,
                 readVars, covers, historyVars>>

(* request_replace writes the cancellation and the link in one transaction;*)
(* an existing cancellation of the same order is taken as it is, whatever  *)
(* its state.  It has one replacement, but nothing keeps two cancellations *)
(* from naming the same one, or an order that was admitted before.         *)
RequestReplace(w, o, c, r) ==
  /\ pc[w] = "idle"
  /\ r # o
  /\ provStatus[o] \in BookStates \ {"none"}
  /\ replacement[c] = NoOrder
  /\ \/ cstate[c] = "absent" /\ Cancelable(w, o)
     \/ cstate[c] # "absent" /\ target[c] = o
  /\ RecordCancellation(c, o)
  /\ replacement' = [replacement EXCEPT ![c] = r]
  /\ UNCHANGED <<linked, clease, cattempts>>
  /\ UNCHANGED <<intentVars, gate, killVars, authority, providerVars, pc, job, token,
                 readVars, covers, historyVars>>

DecideCancellation(w, c, approve) ==
  /\ pc[w] = "idle"
  /\ cstate[c] = "pending_approval"
  /\ cstate' = [cstate EXCEPT ![c] =
                  IF ~approve THEN "rejected"
                  ELSE IF bound[target[c]] = VersionOf[w] THEN "queued" ELSE "expired"]
  /\ UNCHANGED <<target, replacement, linked, clease, cattempts>>
  /\ UNCHANGED <<intentVars, gate, killVars, authority, providerVars, pc, job, token,
                 readVars, covers, historyVars>>

CancelDispatchBegin(w) ==
  /\ pc[w] = "idle"
  /\ RecoverCancels
  /\ gate' = (gate \/ CLapsed # {})
  /\ Goto(w, "cancel_dispatch")
  /\ UNCHANGED <<intentVars, killVars, authority, providerVars, readVars, covers, historyVars>>

CancelClaimNothing(w) ==
  /\ pc[w] = "cancel_dispatch"
  /\ Goto(w, "idle")
  /\ Forget(w)
  /\ UNCHANGED <<intentVars, cancelVars, gate, killVars, authority, providerVars,
                 readVars, historyVars>>

CancelClaimExpires(w, c) ==
  /\ pc[w] = "cancel_dispatch"
  /\ ~gate
  /\ cstate[c] = "queued"
  /\ bound[target[c]] # VersionOf[w]
  /\ cstate' = [cstate EXCEPT ![c] = "expired"]
  /\ Goto(w, "idle")
  /\ Forget(w)
  /\ UNCHANGED <<intentVars, target, replacement, linked, clease, cattempts, gate, killVars,
                 authority, providerVars, readVars, historyVars>>

(* The kill switch does not stop a cancellation. *)
ClaimNextCancellation(w, c) ==
  /\ pc[w] = "cancel_dispatch"
  /\ ~gate
  /\ cstate[c] = "queued"
  /\ bound[target[c]] = VersionOf[w]
  /\ cstate' = [cstate EXCEPT ![c] = "canceling"]
  /\ clease' = [clease EXCEPT ![c] = "live"]
  /\ cattempts' = [cattempts EXCEPT ![c] = @ + 1]
  /\ gate' = TRUE
  /\ Take(w, "cancel_claimed", c, cattempts[c] + 1)
  /\ Started(w, c)
  /\ UNCHANGED <<intentVars, target, replacement, linked, killVars, authority, providerVars,
                 readVars, historyVars>>

(* _validate_cancellation_capability, called by the provider *)
ValidCancellation(w, c) ==
  /\ bound[target[c]] = VersionOf[w]
  /\ cstate[c] = "canceling"
  /\ HoldsCLease(w, c)
  /\ clease[c] = "live"
  /\ provStatus[target[c]] \in OpenStatuses
  /\ outbox[target[c]] = "reconciled"

ValidateCancellation(w) ==
  /\ pc[w] = "cancel_claimed"
  /\ Goto(w, IF ValidCancellation(w, job[w]) THEN "cancel_validated" ELSE "cancel_refused")
  /\ UNCHANGED <<intentVars, cancelVars, gate, killVars, authority, providerVars,
                 readVars, covers, historyVars>>

(* Mutant of CancelReplies: a lost reply counts as a rejection. *)
CancelRepliesTakenAsRefusal == {"cancel_acked", "cancel_refused"}

CancelReplies == {"cancel_acked", "cancel_ambiguous"}

(* _cancel_durable: only an accepted or already canceled order can be      *)
(* canceled; any other raises, and so may a reply that is lost.            *)
ProviderCancel(w) ==
  /\ pc[w] = "cancel_validated"
  /\ LET o == target[job[w]] IN
       /\ book' = [book EXCEPT ![o] = IF @ = "accepted" THEN "canceled" ELSE @]
       /\ \E reply \in CancelReplies :
            /\ reply = "cancel_acked" => book'[o] = "canceled"
            /\ Goto(w, reply)
  /\ UNCHANGED <<intentVars, cancelVars, gate, killVars, authority, external,
                 readVars, covers, historyVars>>

ProviderCancelFails(w) ==
  /\ pc[w] = "cancel_validated"
  /\ Goto(w, "cancel_ambiguous")
  /\ UNCHANGED <<intentVars, cancelVars, gate, killVars, authority, providerVars,
                 readVars, covers, historyVars>>

(* The three ways a cancellation call ends: each raises without writing    *)
(* when the lease was lost.                                                *)
EndCancellation(w, state, blocked) ==
  /\ LET c == job[w] IN
       IF OwnsCancellation(w, c)
       THEN /\ cstate' = [cstate EXCEPT ![c] = state]
            /\ clease' = [clease EXCEPT ![c] = "none"]
            /\ gate' = blocked
            /\ UNCHANGED <<target, replacement, linked, cattempts>>
       ELSE UNCHANGED <<cancelVars, gate>>
  /\ Return(w)
  /\ UNCHANGED <<intentVars, killVars, authority, providerVars, readVars, covers, historyVars>>

AcknowledgeCancellation(w)     == pc[w] = "cancel_acked" /\ EndCancellation(w, "acknowledged", TRUE)
FinishAmbiguousCancellation(w) == pc[w] = "cancel_ambiguous" /\ EndCancellation(w, "unknown", TRUE)
ExpireCancellation(w)          == pc[w] = "cancel_refused" /\ EndCancellation(w, "expired", FALSE)

(* Mutant of ReplacementReady: an approved request is enough. *)
ReplacementRequested(c) == replacement[c] # NoOrder /\ cstate[c] # "pending_approval"

ReplacementReady(c) ==
  /\ replacement[c] # NoOrder
  /\ cstate[c] = "reconciled"
  /\ provStatus[target[c]] = "canceled"

(* admit_replacement: the ordinary admission, then a second transaction    *)
(* that names the admitted order in the replacement row.                   *)
AdmitReplacement(w, c) ==
  /\ pc[w] = "idle"
  /\ ReplacementReady(c)
  /\ \/ /\ \E outcome \in Outcomes : AdmitRow(w, replacement[c], outcome)
        /\ madeFor' = [madeFor EXCEPT ![replacement[c]] = c]
     \/ approval[replacement[c]] # "absent" /\ UNCHANGED <<intentVars, madeFor>>
  /\ Take(w, "linking", c, 0)
  /\ UNCHANGED <<cancelVars, gate, killVars, authority, providerVars, readVars, covers,
                 sinceKill, confirmed>>

LinkReplacement(w) ==
  /\ pc[w] = "linking"
  /\ linked' = linked \cup {job[w]}
  /\ Return(w)
  /\ UNCHANGED <<target, replacement, cstate, clease, cattempts>>
  /\ UNCHANGED <<intentVars, gate, killVars, authority, providerVars, readVars, covers,
                 historyVars>>

-----------------------------------------------------------------------------
(* Reconciliation *)

(* reconcile first recovers both kinds of lease, in two transactions.      *)
ReconcileBegin(w) ==
  /\ pc[w] = "idle"
  /\ RecoverIntents
  /\ gate' = (gate \/ Lapsed # {})
  /\ Goto(w, "recovering")
  /\ UNCHANGED <<cancelVars, killVars, authority, providerVars, readVars, covers, historyVars>>

(* The kill generation is read after them, before the provider is asked    *)
(* for its snapshot.                                                       *)
SampleGeneration(w) ==
  /\ pc[w] = "recovering"
  /\ RecoverCancels
  /\ gate' = (gate \/ CLapsed # {})
  /\ gen' = [gen EXCEPT ![w] = killGen]
  /\ sinceKill' = sinceKill \cup {w}
  /\ Goto(w, "reconcile")
  /\ UNCHANGED <<intentVars, killVars, authority, providerVars, seenBook, seenClean, covers,
                 confirmed, madeFor>>

(* seenClean: the snapshot says it is complete and shows no external order.*)
Snapshot(w, complete) ==
  /\ pc[w] = "reconcile"
  /\ seenBook' = [seenBook EXCEPT ![w] = book]
  /\ seenClean' = [seenClean EXCEPT ![w] = complete /\ ~external]
  /\ covers' = [covers EXCEPT ![w] =
                  {o \in Orders : attempts[o] > 0} \cup {c \in Cancels : cattempts[c] > 0}
                  \cup {v \in Workers : pc[v] \in {"dispatch", "cancel_dispatch"}}]
  /\ Goto(w, "snapshot")
  /\ UNCHANGED <<intentVars, cancelVars, gate, killVars, authority, providerVars, gen,
                 historyVars>>

(* Mutant of TransitionAllowed: the last snapshot to commit wins. *)
AnyTransition(previous, current) == TRUE

(* _execution_transition_allowed on the statuses the provider can report *)
TransitionAllowed(previous, current) ==
  CASE previous \in {"none", "not_found"} -> TRUE
    [] previous = "accepted" -> TRUE
    [] previous = "partially_filled" -> current # "accepted"
    [] OTHER -> current = previous

(* An accepted receipt carries the order's creation time, which is before  *)
(* the snapshot that once recorded the order as not found.                 *)
ObservationRegressed(o, current) == provStatus[o] = "not_found" /\ current = "accepted"

OpenCancellations == {c \in Cancels : cstate[c] \in CancelUnsettled}

CancelTargets == {target[c] : c \in OpenCancellations}

(* Mutant of Accounted: rows of other providers are matched as well. *)
AccountedUnbound(w, o) ==
  LET current == seenBook[w][o] IN
    /\ o \in covers[w]
    /\ current = "none" => outbox[o] \in {"submitting", "unknown"}
    /\ current # "none" => TransitionAllowed(provStatus[o], current)

(* The row raises no gap against the snapshot of w. *)
Accounted(w, o) ==
  LET current == seenBook[w][o] IN
    /\ bound[o] = VersionOf[w]
    /\ o \in covers[w]
    /\ current = "none" => outbox[o] \in {"submitting", "unknown"}
    /\ current # "none" => /\ TransitionAllowed(provStatus[o], current)
                           /\ ~ObservationRegressed(o, current)
    /\ (outbox[o] = "reconciled" /\ current = "canceled") =>
         o \in CancelTargets \/ provStatus[o] = "canceled"

(* Mutant of CancelAccounted: any receipt of the target confirms it. *)
CancelReported(w, c) == c \in covers[w] /\ seenBook[w][target[c]] # "none"

CancelAccounted(w, c) ==
  /\ bound[target[c]] = VersionOf[w]
  /\ c \in covers[w]
  /\ seenBook[w][target[c]] = "canceled"

Complete(w) ==
  /\ seenClean[w]
  /\ \A o \in Orders : outbox[o] \in Tracked => Accounted(w, o)
  /\ \A c \in OpenCancellations : CancelAccounted(w, c)

(* A complete, gap-free run rewrites every tracked row and opens the gate; *)
(* any other run only records itself and closes it.                        *)
ApplySnapshot(w) ==
  /\ outbox' = [o \in Orders |-> IF outbox[o] \in Tracked THEN "reconciled" ELSE outbox[o]]
  /\ provStatus' = [o \in Orders |->
       IF o \in CancelTargets THEN "canceled"
       ELSE IF outbox[o] \notin Tracked THEN provStatus[o]
       ELSE IF seenBook[w][o] = "none" THEN "not_found" ELSE seenBook[w][o]]
  /\ lease' = [o \in Orders |-> IF outbox[o] \in Tracked THEN "none" ELSE lease[o]]
  /\ cstate' = [c \in Cancels |-> IF c \in OpenCancellations THEN "reconciled" ELSE cstate[c]]
  /\ clease' = [c \in Cancels |-> IF c \in OpenCancellations THEN "none" ELSE clease[c]]
  /\ UNCHANGED <<approval, bound, attempts, target, replacement, linked, cattempts>>

(* Mutant of RunGeneration: the generation is read when the run commits. *)
CurrentGeneration(w) == killGen

RunGeneration(w) == gen[w]

ReconcileCommit(w) ==
  /\ pc[w] = "snapshot"
  /\ IF Complete(w)
     THEN /\ ApplySnapshot(w)
          /\ gate' = FALSE
          /\ completeGens' = completeGens \cup {RunGeneration(w)}
          /\ confirmed' = (confirmed \/ w \in sinceKill)
     ELSE /\ gate' = TRUE
          /\ UNCHANGED <<intentVars, cancelVars, completeGens, confirmed>>
  /\ sinceKill' = sinceKill \ {w}
  /\ gen' = [gen EXCEPT ![w] = 0]
  /\ seenBook' = [seenBook EXCEPT ![w] = EmptyBook]
  /\ seenClean' = [seenClean EXCEPT ![w] = FALSE]
  /\ covers' = [covers EXCEPT ![w] = {}]
  /\ Return(w)
  /\ UNCHANGED <<killActive, killGen, authority, providerVars, madeFor>>

-----------------------------------------------------------------------------
(* Kill switch *)

ActivateKillSwitch ==
  /\ killGen < MaxKills
  /\ killActive' = TRUE
  /\ killGen' = killGen + 1
  /\ sinceKill' = {} /\ confirmed' = FALSE
  /\ UNCHANGED <<intentVars, cancelVars, gate, completeGens, authority, providerVars,
                 pc, job, token, readVars, covers, madeFor>>

ClearKillSwitch ==
  /\ killActive
  /\ ~gate
  /\ killGen \in completeGens
  /\ killActive' = FALSE
  /\ UNCHANGED <<intentVars, cancelVars, gate, killGen, completeGens, authority,
                 providerVars, pc, job, token, readVars, covers, historyVars>>

-----------------------------------------------------------------------------
(* Processes and environment *)

Crash(w) ==
  /\ pc[w] # "down"
  /\ Take(w, "down", NoJob, 0)
  /\ gen' = [gen EXCEPT ![w] = 0]
  /\ seenBook' = [seenBook EXCEPT ![w] = EmptyBook]
  /\ seenClean' = [seenClean EXCEPT ![w] = FALSE]
  /\ covers' = [r \in Workers |-> IF r = w THEN {} ELSE covers[r] \ {w}]
  /\ sinceKill' = sinceKill \ {w}
  /\ UNCHANGED <<intentVars, cancelVars, gate, killVars, authority, providerVars, confirmed,
                 madeFor>>

(* _block_for_unreconciled_state, run by every new service instance *)
Start(w) ==
  /\ pc[w] = "down"
  /\ gate' = (\/ gate
              \/ \E o \in Orders : \/ outbox[o] \in Unsettled
                                   \/ outbox[o] = "reconciled" /\ provStatus[o] = "accepted"
              \/ \E c \in Cancels : cstate[c] \in CancelUnsettled)
  /\ Goto(w, "idle")
  /\ UNCHANGED <<intentVars, cancelVars, killVars, authority, providerVars, readVars, covers,
                 historyVars>>

LeaseLapses(o) ==
  /\ lease[o] = "live"
  /\ lease' = [lease EXCEPT ![o] = "lapsed"]
  /\ UNCHANGED <<approval, outbox, provStatus, bound, attempts, cancelVars, gate, killVars,
                 authority, providerVars, pc, job, token, readVars, covers, historyVars>>

CancelLeaseLapses(c) ==
  /\ clease[c] = "live"
  /\ clease' = [clease EXCEPT ![c] = "lapsed"]
  /\ UNCHANGED <<intentVars, cstate, target, replacement, linked, cattempts, gate, killVars,
                 authority, providerVars, pc, job, token, readVars, covers, historyVars>>

AuthorityLapses(o) ==
  /\ o \in authority
  /\ approval[o] \notin {"denied", "rejected", "expired"}
  /\ authority' = authority \ {o}
  /\ UNCHANGED <<intentVars, cancelVars, gate, killVars, providerVars, pc, job, token,
                 readVars, covers, historyVars>>

(* record_simulated_fill: a fill of an open order, part of it or the rest *)
Fill(o) ==
  /\ book[o] \in OpenStatuses
  /\ \E s \in {"partially_filled", "filled"} :
       /\ s # book[o]
       /\ book' = [book EXCEPT ![o] = s]
  /\ UNCHANGED <<intentVars, cancelVars, gate, killVars, authority, external, pc, job, token,
                 readVars, covers, historyVars>>

(* Someone trades the account by hand, and tidies up again. *)
ExternalOrder ==
  /\ external' = ~external
  /\ UNCHANGED <<intentVars, cancelVars, gate, killVars, authority, book, pc, job, token,
                 readVars, covers, historyVars>>

-----------------------------------------------------------------------------
Submission(w) ==
  \/ DispatchBegin(w) \/ ClaimNothing(w)
  \/ \E o \in Orders : ClaimExpires(w, o) \/ ClaimNext(w, o)
  \/ \E open \in BOOLEAN : Recheck(w, open)
  \/ ValidateSubmission(w) \/ ProviderSubmit(w) \/ ProviderDeclines(w)
  \/ Acknowledge(w) \/ ExpireClaimBeforeSubmit(w) \/ FinishAmbiguous(w)

Cancellation(w) ==
  \/ CancelDispatchBegin(w) \/ CancelClaimNothing(w)
  \/ \E c \in Cancels : CancelClaimExpires(w, c) \/ ClaimNextCancellation(w, c)
  \/ ValidateCancellation(w) \/ ProviderCancel(w) \/ ProviderCancelFails(w)
  \/ AcknowledgeCancellation(w) \/ FinishAmbiguousCancellation(w) \/ ExpireCancellation(w)

Reconciliation(w) ==
  \/ ReconcileBegin(w) \/ SampleGeneration(w)
  \/ \E complete \in BOOLEAN : Snapshot(w, complete)
  \/ ReconcileCommit(w)

Request(w) ==
  \/ \E o \in Orders : Admit(w, o) \/ \E approve \in BOOLEAN : Decide(w, o, approve)
  \/ \E c \in Cancels :
       \/ \E o \in Orders : \/ RequestCancel(w, o, c)
                            \/ \E r \in Orders : RequestReplace(w, o, c, r)
       \/ \E approve \in BOOLEAN : DecideCancellation(w, c, approve)
       \/ AdmitReplacement(w, c)
  \/ LinkReplacement(w)

Environment ==
  \/ ActivateKillSwitch \/ ClearKillSwitch
  \/ \E o \in Orders : LeaseLapses(o) \/ AuthorityLapses(o) \/ Fill(o)
  \/ \E c \in Cancels : CancelLeaseLapses(c)
  \/ ExternalOrder

Next ==
  \/ \E w \in Workers : \/ Request(w) \/ Submission(w) \/ Cancellation(w)
                        \/ Reconciliation(w) \/ Crash(w) \/ Start(w)
  \/ Environment

Spec == Init /\ [][Next]_vars

-----------------------------------------------------------------------------
(* Safety *)

(* An open gate means that the fate of every submission and every          *)
(* cancellation is known, whatever crashed, lapsed, was refused or was     *)
(* reconciled by another instance on the way (_claim_next, the five        *)
(* closing transactions, reconcile and the restart block together).        *)
GateOpenMeansSettled ==
  ~gate => /\ \A o \in Orders : outbox[o] \notin Unsettled
           /\ \A c \in Cancels : cstate[c] \notin CancelUnsettled

(* Between two complete reconciliations at most one provider call, a       *)
(* submission or a cancellation, is in doubt across all instances.         *)
OneInDoubt ==
  /\ \A o, p \in Orders :
       outbox[o] \in Unsettled /\ outbox[p] \in Unsettled => o = p
  /\ \A c, d \in Cancels :
       cstate[c] \in CancelUnsettled /\ cstate[d] \in CancelUnsettled => c = d
  /\ \A o \in Orders, c \in Cancels :
       ~(outbox[o] \in Unsettled /\ cstate[c] \in CancelUnsettled)

(* "never an automatic retry": no crash, lapse, timeout or reconciliation  *)
(* puts an intent or a cancellation back where it could be claimed again.  *)
AtMostOneAttempt ==
  /\ \A o \in Orders : attempts[o] <= 1
  /\ \A c \in Cancels : cattempts[c] <= 1

(* Whatever the provider holds was approved, and its row has not been      *)
(* closed as never sent: an intent recorded as denied, rejected or expired *)
(* does not turn up at the provider afterwards.                            *)
OnlyApprovedReachProvider ==
  \A o \in Orders : book[o] # "none" =>
    /\ approval[o] = "approved"
    /\ outbox[o] \in Tracked

(* An order is canceled at the provider only on the strength of an         *)
(* approved cancellation whose row still says so.                          *)
CanceledOnlyOnRequest ==
  \A o \in Orders : book[o] = "canceled" =>
    \E c \in Cancels : /\ target[c] = o
                       /\ cstate[c] \in CancelUnsettled \cup {"reconciled"}

(* admit_replacement makes a row, and a replacement row names an admitted  *)
(* order, only when the provider itself holds the original as canceled,    *)
(* whoever died between the two transactions, or cancels, fills and        *)
(* reconciles meanwhile: what goes through it is never open beside what it *)
(* replaces.  Nothing is said of the id a request names, which admit takes *)
(* like any other.                                                         *)
ReplacementWaits ==
  \A c \in Cancels :
    c \in linked \/ (\E o \in Orders : madeFor[o] = c) => book[target[c]] = "canceled"

StatusRank == [s \in ProvStatuses |->
  CASE s = "none" -> 0 [] s = "not_found" -> 1 [] s = "accepted" -> 2
    [] s = "partially_filled" -> 3 [] OTHER -> 4]

(* An order goes to the provider it is bound to, and only an instance of   *)
(* that provider and version ever declares it reconciled.                  *)
OnlyBoundProviderActs ==
  [][\A o \in Orders :
       /\ book[o] = "none" /\ book'[o] # "none" =>
            \E w \in Workers : pc[w] = "validated" /\ job[w] = o /\ bound[o] = VersionOf[w]
       /\ outbox[o] # "reconciled" /\ outbox'[o] = "reconciled" =>
            \E w \in Workers : pc[w] = "snapshot" /\ pc'[w] # "snapshot"
                              /\ bound[o] = VersionOf[w]]_vars

(* The service's record of an order never claims more than the provider    *)
(* has done, and a final status it records is the provider's own.          *)
RecordNeverAhead ==
  \A o \in Orders :
    /\ provStatus[o] # "not_found" => StatusRank[provStatus[o]] <= StatusRank[book[o]]
    /\ provStatus[o] \in {"filled", "canceled"} => provStatus[o] = book[o]

(* Reconciliations that overlap may commit their snapshots in any order;   *)
(* the recorded status of an order never goes back.                        *)
RecordNeverRegresses ==
  [][\A o \in Orders : StatusRank[provStatus[o]] <= StatusRank[provStatus'[o]]]_vars

(* The kill switch is cleared only after a complete reconciliation that    *)
(* began after the last activation.                                        *)
ClearedOnlyAfterFreshReconciliation ==
  [][killActive /\ ~killActive' => confirmed]_vars

-----------------------------------------------------------------------------
(* What makes the safety invariants inductive *)

(* A lease is held only by a row that is submitting or canceling, although *)
(* some updates are guarded by the token alone.                            *)
LeasesAreClaims ==
  /\ \A o \in Orders : lease[o] # "none" => outbox[o] = "submitting"
  /\ \A c \in Cancels : clease[c] # "none" => cstate[c] = "canceling"

OnlyApprovedQueued == \A o \in Orders : outbox[o] # "none" => approval[o] = "approved"

SettledInv == GateOpenMeansSettled /\ OneInDoubt /\ LeasesAreClaims /\ OnlyApprovedQueued

(* A row that can still be claimed has never been claimed. *)
UnclaimedRows ==
  /\ \A o \in Orders : outbox[o] \in {"none", "queued"} => attempts[o] = 0
  /\ \A c \in Cancels : cstate[c] \in {"absent", "pending_approval", "queued"} => cattempts[c] = 0

(* The workers on their way to the provider carry different orders, none   *)
(* of which the provider has yet.                                          *)
Carriers ==
  /\ \A w \in Workers : pc[w] \in SubmitPCs => outbox[job[w]] \notin {"none", "queued"}
  /\ \A v, w \in Workers :
       pc[v] \in SubmitPCs /\ pc[w] \in SubmitPCs /\ job[v] = job[w] => v = w
  /\ \A w \in Workers :
       pc[w] \in {"claimed", "submitting", "validated", "refused"} => book[job[w]] = "none"
  /\ \A w \in Workers : pc[w] = "validated" => outbox[job[w]] \in Tracked

DeliveryInv ==
  AtMostOneAttempt /\ UnclaimedRows /\ Carriers /\ OnlyApprovedReachProvider

(* Status a is one the order had on its way to b, and a final one stays.   *)
Behind(a, b) ==
  /\ StatusRank[a] <= StatusRank[b]
  /\ a \in {"filled", "canceled"} => a = b

(* An acknowledgement is carried only for an order the provider has, no    *)
(* status is recorded before the claim is resolved, cancellations are      *)
(* requested of reconciled orders alone, and a claim belongs to the bound  *)
(* provider.                                                               *)
ClaimInv ==
  /\ \A w \in Workers : pc[w] = "acked" => book[job[w]] # "none"
  /\ \A o \in Orders : outbox[o] \notin {"accepted", "reconciled"} => provStatus[o] = "none"
  /\ \A c \in Cancels : cstate[c] # "absent" => outbox[target[c]] = "reconciled"
  /\ \A w \in Workers : pc[w] \in SubmitPCs => bound[job[w]] = VersionOf[w]

(* So are the snapshots a reconcile has taken: each is behind the book.    *)
RecordInv ==
  /\ RecordNeverAhead
  /\ \A w \in Workers, o \in Orders : Behind(seenBook[w][o], book[o])

(* The workers that cancel carry different cancellations, one that may     *)
(* have reached the provider is not closed as unsent, and a canceled order *)
(* has a cancellation that no worker can still close so.                   *)
CancelInv ==
  /\ \A w \in Workers : pc[w] \in CancelPCs =>
       cstate[job[w]] \notin {"absent", "pending_approval", "queued"}
  /\ \A v, w \in Workers :
       pc[v] \in CancelPCs /\ pc[w] \in CancelPCs /\ job[v] = job[w] => v = w
  /\ \A w \in Workers : pc[w] = "cancel_validated" =>
       cstate[job[w]] \in CancelUnsettled \cup {"reconciled"}
  /\ \A o \in Orders : book[o] = "canceled" =>
       \E c \in Cancels :
         /\ target[c] = o
         /\ cstate[c] \in CancelUnsettled \cup {"reconciled"}
         /\ \A w \in Workers : pc[w] \in {"cancel_claimed", "cancel_refused"} => job[w] # c

(* Whoever made a row by way of a cancellation, or is to link one to it,   *)
(* found the target canceled, and a cancellation keeps its target.         *)
ReplaceInv ==
  /\ \A c \in Cancels : replacement[c] # NoOrder => cstate[c] # "absent"
  /\ \A c \in Cancels :
       \/ c \in linked
       \/ \E o \in Orders : madeFor[o] = c
       \/ \E w \in Workers : pc[w] = "linking" /\ job[w] = c
       => cstate[c] # "absent" /\ book[target[c]] = "canceled"

(* Generations never run ahead of the kill switch, a reconcile that read   *)
(* the current generation began after the activation, and the current      *)
(* generation is recorded as complete only once such a reconcile ended.    *)
KillInv ==
  /\ \A g \in completeGens : g <= killGen
  /\ \A w \in Workers : gen[w] <= killGen
  /\ \A w \in Workers :
       pc[w] \in {"reconcile", "snapshot"} /\ gen[w] = killGen => w \in sinceKill
  /\ killGen \in completeGens => confirmed

-----------------------------------------------------------------------------
(* Liveness *)

(* A worker that is up finishes what it began, a lease lapses, a process   *)
(* that went down is started again, and someone keeps reconciling: not     *)
(* every reconcile dies before it has run both recoveries.                 *)
Proceeds(w) == Submission(w) \/ Cancellation(w) \/ Reconciliation(w) \/ Start(w)

Fairness ==
  /\ \A w \in Workers : /\ WF_vars(pc[w] # "idle" /\ Proceeds(w))
                        /\ SF_vars(ReconcileBegin(w)) /\ SF_vars(SampleGeneration(w))
  /\ \A o \in Orders : WF_vars(LeaseLapses(o))
  /\ \A c \in Cancels : WF_vars(CancelLeaseLapses(c))

FairSpec == Spec /\ Fairness

(* No claim is stranded: a row that is submitting or canceling leaves that *)
(* state although the worker that claimed it may have died.                *)
ClaimsAreResolved ==
  /\ \A o \in Orders : outbox[o] = "submitting" ~> outbox[o] # "submitting"
  /\ \A c \in Cancels : cstate[c] = "canceling" ~> cstate[c] # "canceling"

-----------------------------------------------------------------------------
(* Refinement *)

StageOf(o) ==
  CASE outbox[o] = "queued"      -> "ready"
    [] outbox[o] \in Unsettled   -> "sent"
    [] outbox[o] = "reconciled"  -> "settled"
    [] outbox[o] = "expired"     -> "closed"
    [] OTHER -> IF approval[o] \in {"absent", "pending_approval"} THEN "new" ELSE "closed"

OutboxStages == [o \in Orders |-> StageOf(o)]
Delivered    == {o \in Orders : book[o] # "none"}

Outbox == INSTANCE PaperOutbox WITH stage <- OutboxStages, delivered <- Delivered

(* The service, with its leases, instances and crashes, is one outbox: an  *)
(* order is sent at most once, one at a time, and never after it was       *)
(* closed as unsent.                                                       *)
ImplementsOutbox == Outbox!Spec

=============================================================================
