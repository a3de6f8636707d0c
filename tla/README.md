# A formal model of market-impact-agent

TLA+ modules, TLC runs and TLAPS proofs about the parts of `market-impact-agent` that keep durable
state and change it from more than one place. All paths below are relative to
`src/src/market_impact_agent/` unless they start with `docs/`.

## 1. The system

The program watches sources, lets an agent judge events, turns its judgement into an order intent,
and trades the intent on a paper account under a harness that owns every effect. Nearly every
component is a SQLite file plus a content-addressed artifact store, opened by any number of
processes; each operation is one or more `BEGIN IMMEDIATE` transactions with reads, artifact writes
and calls to a provider between them. There are no locks across transactions: leases, tokens,
generations and gates do that work, and that is where it is hard.

| Component | State it keeps | Operations | What is hard | Correct when |
|---|---|---|---|---|
| Paper execution (`paper_execution.py`) | intents, attempts, cancellations, replacements, gate, kill switch, reconciliation runs | admit, decide, dispatch, cancel, replace, reconcile, kill, restart | several instances, lost replies, lapsing leases, crashes, overlapping reconciliations | one attempt per intent, one call in doubt, the gate never hides it |
| Execution provider (`providers.py`) | the account's own record of each order and fill | submit, cancel, reconcile, fill | it acts and then the reply is lost | one order per client order id |
| Hard policy (`policy.py`, `domain.py`) | none | evaluate | boundaries | eligible only within every limit |
| Autonomous supervisor (`autonomous_paper.py`) | operations, reservations, cancellations, kills, the provider lease | admit, decide, dispatch, cancel, reconcile, kill, revoke, recover | lost or late submissions, a crash between two transactions, a lease revoked during a call | nothing is sent twice, budgets count what is open, doubt stops increases |
| IBKR adapter (`ibkr_nautilus_*.py`) | bindings of submissions and cancellations, session state | submit, cancel, snapshot, recover | disconnects, duplicated events | a command is never repeated blindly |
| Attention watch (`attention_watch.py`) | watches with lease and allowance, seen versions, outbox of wakes | create, poll, rebaseline, cancel, expire, deliver | pollers whose lease has lapsed, a gap that poisons a watch for good | each version is announced once, heirs share one allowance |
| Agent watch (`agent_watch_*.py`, `triage_watch_runtime.py`) | admissions, callback sets, dispatch runs, role runs, usage, decisions | admit, share, activate, dispatch, judge | several runners, requests that join late, a death between any two records | a delivered wake is bound for each subscriber, a callback is judged once |
| Prospective data (`prospective_data.py`) | append-only observations | register, read as of | late and corrected data | a read as of T never changes |
| Collection (`prospective_collection_runtime.py`) | lanes, attempts, backoff | claim, collect, finish | lease loss, retries | no lost or doubled collection |
| Triage (`prospective_triage.py`, `event_impact_triage_*.py`) | the head and batches of an epoch, decisions, run journals, usage | prepare, install, run, compare, complete, replace, repair, recover | stale readers, two databases, a death between a dispatch and its usage | batches in order, one verdict for each, nothing asked twice |
| Trigger admission (`prospective_trigger_admission.py`) | trigger records | admit | duplicates, order of checks | a trigger is admitted once |
| Runtime store (`runtime_store.py`) | artifacts, run journal | put, append, resume | crash between file and row | a row names an artifact that exists |
| Agent engine and Pi runtime (`agent_engine.py`, `pi_execution.py`, `pi_runtime.py`, `runtime/pi`) | the run's journal and record; the worker's conversation | run, replay, request, tool, correct, judge, fail | crashes between any two appends, a worker that outlives its harness, ambiguous requests | a request is never repeated blindly, a run ends once |
| Model budget (`model_budget.py`) | reservations | reserve, settle | concurrent reservations | spending never passes the limit |
| Provider reliability (`provider_reliability.py`) | attempts, circuit | attempt, classify | retry of an ambiguous call | bounded attempts |
| Strategy validation (`strategy_validation.py`) | protocol stages | advance | skipping a stage | stages are one-way |

`PROJECT.json` lists these and the remaining, purely functional or offline components, with the
reason each is left out.

## 2. Plan

Modules, most important behaviour first:

1. `PaperOutbox`, `PaperExecution`, `PaperGaps`, `PaperExecutionProofs` — done, section 3.
2. `RequestLedger`, `ModelBudget`, `ModelBudgetProofs` — done, section 4.
3. `AgentRun` over `RequestLedger`, `AgentRunProofs` — done, section 5.
4. `TriageJobs`, `TriageRun`, `TriageRunProofs` — done, section 6.
5. `TriagePlan` over `TriageJobs`, `TriageQueue` over `TriagePlan`, `TriageQueueProofs` — done,
   section 7.
6. `AutonomousPaper`, `AutonomousPaperProofs` — done, section 8.
7. `AttentionWatch`, `WatchWakes` over it, `AttentionWatchProofs`, `WatchWakesProofs` — done,
   section 9.
8. Left, in this order: `Collection` (lanes, attempts, backoff); `TriggerAdmission`; `SharedSlots`
   (the kernel locks of `pi_runtime.py`) and the health circuit of `provider_reliability.py`;
   `ReceiptAccounting` (quantities and fill identities in `reconcile` against an arbitrary provider);
   `Timestamps` (the text order of lease times); `HardPolicy`.

How they compose: `PaperExecution` implements `PaperOutbox` and `ModelBudget` implements
`RequestLedger`; `AgentRun` is built on an instance of `RequestLedger`, so what it relies on is what
`ModelBudget` is proved to do. In the same way `TriageRun` implements `TriageJobs`, and `TriagePlan` is
built on an instance of `TriageJobs` with one job for each member; `TriageQueue` extends `TriagePlan`
with the queue that hands it batches, and `WatchWakes` extends `AttentionWatch` with what happens to
its wakes. Still worth stating: that the autonomous paper supervisor
implements an outbox too.

Every component with a passing run has a proof module, and every invariant, action property and
refinement those runs check is stated by a theorem. Two properties stay with TLC, because they are
liveness under fairness: `ClaimsAreResolved` (§3) and `RunEnds` of the agent run.

## 3. Paper execution

### State and actions

`PaperExecution` models `PaperExecutionService` and the durable `MockExecutionProvider`. A worker is
one thread of control in one service instance; all workers share the database and the provider. An
action is one transaction, or one read or provider call between two transactions, so that workers
interleave exactly where the code lets them.

| Variables | Code |
|---|---|
| `approval`, `outbox`, `provStatus`, `bound`, `lease`, `attempts` | a `paper_intents` row and its `paper_submission_attempts`; `attempts[o]` doubles as the lease token, since a token is the id of the last attempt |
| `cstate`, `target`, `clease`, `cattempts` | a `paper_cancellations` row and its attempts |
| `replacement`, `linked` | `paper_replacements` |
| `gate`, `killActive`, `killGen`, `completeGens` | gate, kill switch and the complete rows of `paper_reconciliation_runs`; `PaperGaps` adds `lastRun`, the last row, which the service never reads back |
| `book`, `external` | the provider's record of our orders, and whether it holds orders that are not ours |
| `authority` | the orders whose own expiry, mandate, price basis and account state are still current |
| `pc`, `job`, `token`, `gen`, `seenBook`, `seenClean`, `covers` | what each worker holds between two transactions |
| `sinceKill`, `confirmed`, `madeFor` | history, read by properties and proofs only; `madeFor` is the cancellation whose `admit_replacement` made a row |

| Operation | Actions |
|---|---|
| `admit`, `decide` | `Admit`, `Decide` |
| `dispatch_next` | `DispatchBegin` (lease recovery), `ClaimNext` / `ClaimExpires` / `ClaimNothing`, `Recheck`, `ValidateSubmission`, `ProviderSubmit` / `ProviderDeclines`, then `Acknowledge`, `ExpireClaimBeforeSubmit` or `FinishAmbiguous` |
| `request_cancel`, `decide_cancellation` | `RequestCancel`, `DecideCancellation` |
| `dispatch_next_cancellation` | `CancelDispatchBegin`, `ClaimNextCancellation` / `CancelClaimExpires` / `CancelClaimNothing`, `ValidateCancellation`, `ProviderCancel` / `ProviderCancelFails`, then `AcknowledgeCancellation`, `ExpireCancellation` or `FinishAmbiguousCancellation` |
| `request_replace`, `admit_replacement` | `RequestReplace`; `AdmitReplacement` then `LinkReplacement`, its second transaction |
| `reconcile` | `ReconcileBegin`, `SampleGeneration` (the two recoveries, then the kill generation), `Snapshot`, `ReconcileCommit` |
| kill switch, restart | `ActivateKillSwitch`, `ClearKillSwitch`; `Crash`, `Start` |
| time and world | `LeaseLapses`, `CancelLeaseLapses`, `AuthorityLapses`, `Fill`, `ExternalOrder` |

Two abstractions deserve a word. *Time* is not a number: a lease or an authority lapses at some
moment, and `covers` records which attempts a snapshot is recent enough to speak about
(`snapshot.observed_at >= started_at`), including attempts whose start time was read before the
snapshot and whose claim commits after it. *Queue order* is left open: any queued row may be the head,
and a claim may return nothing because the head changed after it was first read.

`PaperOutbox` is the abstract specification: an order is new, ready, sent, settled or closed; at most
one is sent at a time; a closed order is never delivered. `ImplementsOutbox` maps the service to it.

### Runs

| Run | Bounds | Asks |
|---|---|---|
| `PaperOrders` | 2 orders, 1 cancellation that may replace either by the other, 2 workers of one version, 1 activation of the kill switch; `QuietAccount`, `PlainReplacement` | `GateOpenMeansSettled`, `OneInDoubt`, `AtMostOneAttempt`, `OnlyApprovedReachProvider`, `ReplacementWaits`, `CanceledOnlyOnRequest`, `RecordNeverAhead`, `RecordNeverRegresses`, `ClearedOnlyAfterFreshReconciliation`, `ImplementsOutbox` |
| `PaperLiveness` | 1 order, 1 cancellation, 2 workers of two versions | `ClaimsAreResolved`, `OnlyBoundProviderActs` |

Why the bounds are enough: the gate, the leases and the reconciliation couple at most two actors on
one row, or two rows through the gate, so two orders, or an order and its cancellation, with two
workers give every pair. `MaxKills` is the only bound on a counter (attempts are bounded because they
never exceed one); one activation suffices, because generation 0 is the stale one that a
reconciliation may carry over it, and `FreshClearance` is proved for any number. The constraint
`QuietAccount` lets the account be traded by hand, or the kill switch be used, while at most one order
is in the tables and no cancellation was requested, and not both; `PlainReplacement` leaves out, once
both orders are admitted and a cancellation is requested, that an authority lapses or an order is
filled in part. So hand trading and the kill switch meet every state of one order without a
cancellation, and lapses and partial fills every state of one order with its cancellation;
`PaperLiveness`, which has no constraint, adds hand trading beside a cancellation. The kill switch
beside a cancellation, and two cancellations at once, are left to the proofs, which hold without
either constraint. Orders and workers are exchanged as a symmetry in `PaperOrders`, which
treats them alike; no other run of this part uses one.

No run of this part turns the deadlock check off; it says little here, as the account's external
orders can always change.

Fairness, for `ClaimsAreResolved` only: a worker in the middle of an operation takes its next step (a
thread runs), a lease lapses (a clock runs), a process that went down is started again (its
supervisor), someone calls `reconcile` again and again, and not every one of those calls dies between
its two recoveries. Nothing is assumed of dispatch, of approvals or of the provider's answers.

### What the documentation says and the code does not keep

`PaperGaps` ends in a counterexample to a sentence of the documentation, which `PROJECT.json` quotes:
a claim that is refused before the provider call opens the gate, even when another instance's
reconciliation had just closed it over a gap.

Four more behaviours were seen while modelling and have no run of their own:

- The id of a replacement is not reserved. `docs/ACCOUNT_DECISION_LOOP.md:646-648` says that the new
  intent "cannot be admitted until complete reconciliation proves the old provider order canceled", and
  694-695 that a replacement "cannot submit before the old order is reconciled canceled". That holds of
  `admit_replacement` (`ReplacementWaits`). But `admit` (`paper_execution.py:482-500`) takes that id like
  any other, and two cancellations may name one id (1366-1420 compares the replacement id and the
  cancellation id only), so an order whose id was named as a replacement can be open beside the original
  that it should wait for. The model allows both.
- A reconciliation that comes between the capability check and the provider's write settles the order
  as not found and opens the gate while the order lands.
- A restart does not close the gate for an order that is open and partly filled; it does for one that
  is accepted.
- An order settled as not found is expected in every later snapshot, so a later reconciliation can
  report a gap that is none, and the gate stays closed, which is on the safe side.

### Proofs

The theorems of `PaperExecutionProofs` hold for any sets of orders, cancellations, workers and
versions and any `MaxKills`. They assume `ConstantsAssumption` only: the sets of names are
disjoint and each worker has a version.

- `TypeCorrect`: the type invariant, one step per action.
- `GateSafety` and `SingleDoubt`, from `SettledInv`: neither is inductive alone. That the gate is
  closed when a row is claimed needs that at most one row is in doubt, because the closing transaction
  of one row opens the gate for all; and since two updates are guarded by the token alone, a lease must
  imply that its row is still a claim (`LeasesAreClaims`).
- `NoRetry` and `ApprovedDelivery`, from `DeliveryInv`: a row that can be claimed has never been
  claimed, and the workers on their way to the provider carry different orders that the provider does
  not hold yet (`UnclaimedRows`, `Carriers`).
- `FreshClearance`, from `KillInv`: generations never run ahead of the switch, and a reconciliation
  that carries the current one began after its activation.
- `OutboxRefinement`: `Init` maps to `Init`; every action maps to `Ready`, `Send`, `Settle`, `Close`,
  `Deliver` or to a step that changes nothing, under `SettledInv`, `DeliveryInv` and the types.

- `ProviderBinding`, from `ClaimInv`: a worker that carries a claim belongs to the version the row is
  bound to, because only a row that was never admitted is bound anew, and such a row has no worker; no
  status is recorded before a claim is resolved; and a cancellation names a reconciled order only.
- `RecordSafety` and `RecordMonotonicity`, from `RecordInv`: the provider's book moves forward
  (`BookStep`), so what a reconcile has seen (`seenBook`) stays behind it however late the snapshot is
  committed. The commit compares with the recorded status, not with the book, so monotonicity also
  needs `ClaimInv`: an order the snapshot does not know can be recorded as not found only if nothing
  was recorded of it, and a late acknowledgement writes `accepted` only over an empty status.
- `CancellationOnRequest`, from `CancelInv`: an order canceled at the provider has a sent cancellation
  that no worker can still close as unsent. The property alone is not inductive: the worker that
  closes a refused cancellation opens the row of that one only, and no other worker carries it.
- `ReplacementSafety`, from `ReplaceInv`: `admit_replacement` makes a row only when the record says that
  the original is canceled, which by `RecordSafety` it then is at the provider, for good; and its second
  transaction links a replacement only to a row that exists by then. What a worker read before its
  first transaction stays true until the second, whatever other workers request, admit, fill and
  reconcile. The theorem speaks of what `admit_replacement` made and linked, and not of every order
  whose id some request names.

`BookWrites` and `RecordWrites` list the actions that write the book, the record and the snapshots;
the proofs above treat those actions and no other. The invariants were model-checked on the
instances of `PaperOrders` and `PaperLiveness` before they were proved. Model-checked only: the liveness
property, which is out of the prover's reach.

### Not modelled in this part

Hashes and contents of artifacts (an id stands for its content), the event chain,
`record_provider_acceptance`, prices and quantities (an order is open, partly filled or filled), the
arithmetic of timestamps, and the provider's simulated account.

## 4. Model budget

Every physical model request of a run and of the runs it starts is reserved in the Run Journal of one
parent. `ModelBudget` models any number of workers with a `ModelBudget` object each.

| Variables | Code |
|---|---|
| `journal` | the `pi.budget.reserved`, `.settled` and `.group_admitted` events of the parent run |
| `claim` | the kernel lock and process-wide set behind `try_claim_run` |
| `pc`, `job`, `snap` | a call, where it is, and the prefix of events it read |
| `permits` | history: how often `reserve` returned for a key |

| Operation | Actions |
|---|---|
| `reserve` | `CallReserve`, `TryClaimRun`, `ReadJournal`, `DecideReservation`, `AppendReservation`, `ReturnPermit` |
| `admit_group` | `CallAdmitGroup`, `TryClaimRun`, `LookUpGroup`, `ReadJournal`, `DecideAdmission`, `AppendGroup` |
| `settle` | `Settle`, without the claim, at any point of another worker's call |
| a crash, a cancellation | `Stop`, anywhere |

The journal is kept as three functions: the order of its events matters only in which of them a
snapshot holds, and `snap` is a copy of the journal at the moment of the read. Amounts are numbers, so
the limits are checked to the last unit. A budget without stages is the case of one stage with the
parent's limit. `RequestLedger` is the abstract specification: a request is entered once, permitted at
most once after that, and settled at most once after it was permitted.

| Run | Bounds | Asks |
|---|---|---|
| `ModelBudget` | 3 requests, 2 workers, two stages, one of them with prior spending, one group with arms of 2 and 1 requests, estimate 1, costs 0 and 3, at most 5 requests of which 1 is prior | `WithinBudget`, `FundedArmsAreServed`, `AtMostOnePermit`, `ImplementsLedger` |

`WithinBudget` allows for exactly what settled responses cost beyond their own reservation, since
nobody can refuse a cost already incurred; without that allowance the documents' limit would be one on
reservations only. Two workers suffice because the claim serialises decisions and a settlement needs
no worker; three requests let an arm be drawn on twice beside another; the limits are chosen so that
each of the request limit, the stage limits and the allowances binds in some state.

`ModelBudgetProofs` proves, for any keys, stages, groups, plans, workers and limits under
`BudgetAssumption`, `PlansAssumption` and `NoneAssumption` (what `__post_init__` checks, and that
`None` is no value), `TypeCorrect`, `OnePermit` and `LedgerRefinement`. The inductive invariant `IInv`
says that whoever is past the claim holds it (`ClaimInv`); so nobody can append the key a worker has
just looked up (`AppendInv`), a reservation appended but not returned has no permit (`AppendedInv`),
and permits and settlements follow reservations (`EntryInv`).

`BudgetSafety` and `FundedArms` prove the two limits, for any finite set of stages and any finite
plans. What is spent, reserved and held is a sum over a finite set; the sum lemmas (`SumRemove`,
`SumUnion`, `SumFamily`, `SumOfPairs`, ...) are proved by inductions stated of a set instead of an
operator (`SubsetInduction`, `SetInduction`, `NatSetInduction`), which come from the library's
well-founded orders; `FoldExists` and `FoldAgrees` make the library's sum the fold they speak about.
The argument about the budget then has two halves:

- A charge is split into its part within the reservation and its overrun (`ChargeTypes`,
  `SpendIsSum`). The sum of the former only falls when a response becomes known, so a bound that held
  of an older journal holds of every later one (`LaterWithin`, where `Later` relates a snapshot to the
  journal); the sum of the latter is what `WithinBudget` allows for.
- `LimitsInv` is the invariant: the journal is within its limits (`JournalInv`); so is what a worker
  read, of which the journal differs only by responses (`SnapInv`), because the claim keeps everyone
  else from reserving; what the worker decided still fits what it read (`DecidedInv`), and the group it
  is about to admit is not there (`NewGroupInv`). `ReservedWithin` and `GroupedWithin` are the two
  appends: a reservation on an arm moves its part from what is held to what is reserved, a group adds
  what its arms may spend.

Not modelled: the reported summaries, evidence references, and the binding, which is the same for all
workers (an event with another binding makes every call raise).

## 5. Agent run

### State and actions

`AgentRun` models one run over all its lives: `AgentEngine.run`, the request boundary it owns
(`PiRequestBoundary` and `execute_pi`), and, as its environment, the pi worker and the provider. A
*turn* is one logical model request, an *attempt* one POST. The claim on a run is a kernel lock, so
one call holds it at a time and `pc` is where that call is. Between two awaits the code is not
interleaved, but the process may die between two writes; a step is one durable write or one wait.

| Variables | Code |
|---|---|
| `started`, `response`, `answers`, `completed`, `tooled`, `attempt` | `model.turn.started`, `pi.response.received` and the attempt it answers, `model.turn.completed`, `tool.call.completed`, `model.attempt.*` events of the run's journal |
| `failed`, `interrupted`, `validated`, `failure`, `status` | `model.turn.failed`, `model.turn.interrupted`, `judgment.validated`, `run.failed`, and the status of the run's record |
| `entry`, `permits` | the parent's budget, an instance of `RequestLedger` |
| `ready`, `sent` | the POSTs a worker was told to make, and those it made |
| `turn`, `tried`, `regenerated`, `error`, `returned` | `metrics.turns`, the attempt number, `regeneration_used`, the exception, the result |

| Operation | Actions |
|---|---|
| `run` on a record that exists | `CallRun`, then `ReopenTerminal`, `ResumeFailure`, `RefuseUnresolved` or `StartWorker` |
| a logical request | `ReplayTurn`, `ReplayResponse`, or `Admit` / `RefuseRequest`, `StartTurn` |
| its attempts | `Reserve` / `RefuseReservation`, `Dispatch`, `Post`, then `AttemptFails`, `JudgeFailure` or `ReceiveResponse` |
| `commit_received` | `RefuseResponse`, or `ObserveSuccess`, `SettleUsage`, `CompleteTurn` |
| the loop's callbacks | `ExecuteTool` / `RefuseTool`, `Correct`, `AcceptProposal` |
| `_finish_judgment` | `ValidateJudgment`, `FinishJudgment`, `WorkerIsDone` |
| `_finish_failure` | `CloseWorker`, `RecordProviderFailure`, `RecordInterruption`, `RecordFailure`, `CommitFailure` |
| what may happen at any await, or anywhere | `Cancel`, `LoseWorker`; `Crash` |

A *response* is what the loop does with it next: call tools, be corrected, be accepted, pass a limit
of tokens or cost (`over`), or be unusable. The worker's loop is deterministic and its context frozen,
so a next life replays the same turns. After a crash a worker may still make the POST it was told to
make: `ready` outlives the call.

### Run

`AgentRun` checks 2 turns of 3 attempts each, with the 408 retry authorised, 2 crashes and 1
correction: `NoBlindRegeneration`, `PostsAreAccounted`, `CompletedIsBacked`, `AmbiguityIsReported`,
`OneOutcome`, `KeysAreUnspent` and `RunEnds`. Two turns give one that is replayed and one that is
under way; three attempts give two retries, and so a 408 before and after another retry; two crashes
give a life that resumes what a resumed life left. The bounds do not matter to the safety properties,
which are proved for every value.

`RunEnds` assumes that the harness goes on when it waits for nobody (`WF_vars(Harness)`), that the
wall clock interrupts an await that lasts (`asyncio.wait(timeout=max_wall_seconds)`: `WF_vars(Cancel)`),
that a run that is not over is called again, and that the process dies finitely often. It assumes
nothing of the worker, the provider, the tools or the budget. It excepts one journal, described
below, for which no later call ends the run.

### Seen while modelling, and without a run

A run that dies between `judgment.validated` and the end of its record, and whose next life is
cancelled or fails, records a failure beside the judgement, which the code itself calls an invalid
terminal event chain; the run can no longer be ended or read. `RunEnds` excepts exactly that journal.

A run cancelled after its record was completed and before its worker's last frame makes the call
raise instead of returning the result. The record is not harmed (`OneOutcome`).

### Proofs

`AgentRunProofs` proves every safety property of the run from `RunAssumption` alone (the limits are
numbers, `MaxTurns` and `MaxAttempts` not zero). None is inductive as it stands; five invariants are,
each relative to those before it:

- `OutcomeInv`: where the call still works on the run, it is neither ended nor failed. Gives
  `OneOutcome`.
- `AttemptInv`: per request, its permit exists exactly when its dispatch is recorded, and its POST
  only after (`RequestInv`); a response answers a request that was not judged a failure
  (`ResponseInv`); every attempt but the last of a turn failed retryably (`RetriesInv`); beyond the
  attempt under way nothing is used, and a 408 behind it is remembered by `regenerated`
  (`CurrentInv`). Gives `NoBlindRegeneration`, `PostsAreAccounted` and `KeysAreUnspent`.
- `ConversationInv`: the completed turns are `1..m` and at most turn `m + 1` is open beyond them, so
  the number a replaying life has counted is that of the open turn.
- `ReportInv`, from it: when a failure is recorded, the open turn was. Gives `AmbiguityIsReported`.
- `BackedInv`: a turn was started only when the one before it was done with, within the corrections
  allowed; so nothing follows a final response. Gives `CompletedIsBacked`.

`Writers` and `Moves` say once which action changes what, and spare each invariant the others.

Model-checked only: `RunEnds`. Not modelled: compaction (a summary turn is a turn whose response is
followed by another, like that of tools), `execute_pi_once`, request slots, MCP tools, reasoning
history, and the artifacts' contents.

## 6. Triage run

### State and actions

A triage plan asks one role about one unit of work by a *member*: a run with its own journal in
`event_impact_triage_work_runtime.py`, over the one-shot boundary `execute_pi_once` of
`pi_execution.py`. `TriageRun` models one member over all its lives, and the second run that an
operator may authorize in its place. The claim of the plan lets one call in at a time, so `pc` is the
position of that call; a step is one durable write or one wait, and the process may die between any
two.

| Variables | Code |
|---|---|
| `log` | of each of the runs `original`, `replacement` and `repair`: the `model.request.*`, `model.turn.*`, validation and repair events of its journal |
| `opened`, `reply` | what the boundary keeps beside them: the requests it admitted and the durable replies |
| `status`, `sealed`, `usage` | a run's record, the attempts in its terminal artifact, its usage record |
| `substitute`, `oversized` | the authorized second run; whether the prompt passes the serialized ceiling |
| `pc`, `run`, `turn`, `asked`, `spent`, `verdict` | the call and what it counts |

| Operation | Actions |
|---|---|
| `_run_member`, `_member_run_id` | `CallMember`, then `SealOversized`, `StartRun`, `ReopenTerminal` or a recovery |
| `_recover_nonterminal_member` | `SealInterrupted`, `RecoverEnding`, `RecoverTurn`, `RecoverNothing` |
| the turn loop | `BlockedByHealth`, `EnterLoop`, `RefuseTurn`, `PreparationFails`, `Invoke`, `JudgeAnswer` |
| `execute_pi_once` | `OpenRequest` or `ReplayReply`, `Dispatch`, `EndAttempt`, `ReceiveReply`, `ProjectAnswer`, `RejectSecret` |
| its failures | `RecordFailure`, `BoundaryFails`, `WaitTimesOut`, `WaitTimesOutAgain`, `RecordTimeout`; `Crash` anywhere |
| `_seal_completed`, `_append_usage`, `_reopen_completed_member` | `Validate`, `Finish`, `SealUsage`, `AcceptOutput` |
| `authorize_once`, `authorize_format_recovery` | `AuthorizeReplacement`, `AuthorizeRepair`; `StartRepair`, `WriteRepair`, `ReopenRepair` |

The recoveries read the journal the way the code does: `Groups`, `Trailing`, `Unresolved`,
`PendingReply`, `SafeTail` and `Reading` are its partition into turns and tail. A reply is what the
member does with it: valid, malformed, over the budget, or holding a secret.

`TriageJobs` is the abstract specification, which a plan is built on: a job is open, ends once, and
may be taken up once more after a failure or a doubt. `ImplementsJob` maps the member to it.

### Run

`TriageRun` checks 2 turns of 2 attempts, 1 crash and 1 failed preparation. Two turns give one that was
answered and one under way, or one that the original spent and one left to its replacement; two
attempts give a retry and its limit; one crash gives a life that resumes what another left, and the
second run a third. `NoBlindRepeat` is about every dispatch of every journal, whoever sent it;
`TurnsAreShared` and `CompletedIsCharged` relate journals, artifacts and usage records over all calls;
`OneVerdict` says when a second run may exist. The check for deadlocks is on: a member can always be
called again.

Seen while modelling, and without a run: a run that has a durable validation and no end of its record
raises "continued after a valid recovered response" on every later call (`RecoverNothing`), where
`docs/EVENT_IMPACT_TRIAGE.md` promises that a restart reopens it; nothing is asked or charged twice.

Another needs three turns, one of them spent by an original: the ordinal under which a pending reply
is looked for (`PendingReply`) is that of the run alone, while its replies are kept under ordinals that
count the original's turns too. A replacement whose call timed out can then be read as open and go on
to dispatch, in a turn in which nothing had been sent; the journal it leaves has a failure that no
dispatch precedes, at which the partition stops, and the completed run is refused when it is reopened
(`AcceptOutput`). Nothing is sent twice.

### Proofs

`TriageRunProofs` proves all five invariants and the refinement, for any numbers of turns, attempts,
crashes and delays under `TriageRunAssumption` (at least one turn and one attempt, which the profile
and the binding require). `IInv` is inductive, and was checked by TLC on the bounds of the run, on 3
turns of 1 and of 2 attempts, and on 1 turn of 3 attempts. It consists of:

- `JournalInv`: of the journals of the original and the replacement, `Journal(s, o, p, b)` relates the
  events `s`, the turns `o` that the boundary admitted, its replies `p` and the turns `b` spent before.
  Only the turn after the last answer may be admitted ahead of it; no earlier reply was an output; an
  ambiguous event is the last; every answer pays for at most `MaxAttempts` dispatches. Its last
  conjunct is `NoBlindRepeat`, its third `TurnsAreShared`. That of the original holds still once the
  replacement runs (`Alone`, `JournalWrite`).
- `RecordInv`: what the records say, of which `CompletedIsCharged` and `OneVerdict` are parts. A charge
  is exact for a run that completed or that ended in doubt about a dispatch it names (`Exact`); no
  other end is relied on, and after one of the others (`orphaned`) it may be off by one.
- `Position`, `TurnInv`, `EndInv`: what the call knows at each position. `spent + asked` is what the
  journal holds, but for the dispatches that a pending reply will answer, which are counted when it is
  projected; this is what a recovery has to restore from the journal alone (`ReadingOpen`,
  `ProjectedBound`), and what the seal relies on.

No induction over the journals is needed: a journal grows at its end, so lemmas about `Append`
(`CountAppend`, `FreshAppend`, `NoBlindDispatch`) and about subsets of its positions (`TailOfOpen`,
`ProjectedBound`) give every count. The bound on what is charged, `MaxSpent`, follows from
`SentBound`. `JobImplemented` maps each step to `End`, `Substitute` or a stutter of `TriageJobs`.

The proof changed the model. The events of a journal are identified by their turn, so a turn has one
408 and one timeout of the harness over all its lives (`Already`), and a second timeout is refused and
fails the run (`WaitTimesOutAgain`); the partition of a journal stops at the first event that does not
continue it (`Chained`); and `NoBlindRepeat` speaks about every two dispatches of a turn.

Not modelled: prompts, schemas, the parsing of outputs (a reply's contents is a choice), costs other
than the number of attempts, and the runner of `event_impact_triage_runtime.py`, of which section 9
has the case of one role.

## 7. Triage plan and queue

### State and actions

`TriagePlan` models `EventImpactTriageWorkRunner`: callers claim a plan, call all members of a wave,
seal the usage of those that ended and go on only when all completed. Its members are jobs of
`TriageJobs`. `TriageQueue` extends it with `prospective_triage.py` and the state root
(`event_impact_triage_store.py`): the head of a route epoch, the batches, their comparison, decisions
and failures. The two databases share no transaction.

| Variables | Code |
|---|---|
| `outcome`, `second`, `repaired`, `started` | the runs of the members, and their second runs |
| `ledger`, `owner` | the usage ledger; the claim on a plan |
| `pc`, `plan`, `wave`, `answers` | each caller, and what the members of its wave returned |
| `batch`, `head`, `revision`, `released`, `bound` | the run root: batches, the active one, the epoch's revision, batches completed or terminalized, those registered for comparison |
| `decidedAt`, `terminalAt` | the state root: when a batch was decided or failed |
| `received`, `journal` | receipts (`first_available_at`) of candidate versions, and which of them the observation Journal holds |
| `finished`, `clock` | ends of plans, time |
| `at`, `seen`, `wanted`, `compares` | what a caller read: the time, the revision, the versions it chose, and whether it compares |
| `missing`, `passed` | history, of what a caller chose and of each batch: the earlier versions it left behind, `late` (not yet in the Journal) or `asleep` (of a lane that was down) |

| Operation | Actions |
|---|---|
| `run`, `_run_claimed_plan_bounded`, `_run_members_bounded` | `ClaimPlan`, `MemberEnds`, `MemberAnswers`, `MemberStaysOpen`, `SealUsage`, `EndWave`, `JudgePlan`, inside `RunPlan` and `FinishRun` |
| `authorize_once` | `Authorize` |
| `prepare_or_reopen_prospective_triage_work` | `CallTriage`, `ReopenHead` / `FindNoHead`, `ReadRevision`, `FreezeNext` / `FreezeNothing`, then `Install`, `ReopenInstalled` or `RefuseInstall` |
| `run_prepared_prospective_triage_work` | `CheckUnbound`; with a comparison `RegisterComparison`, `RecordReport` / `AbandonComparison` |
| `admit_work`, `terminalize_failed_work_comparison` | `AdmitDecision`, `Terminalize`, `RefuseOutcome` |
| `complete`, `terminalize` | `ReleaseHead` |
| collection (`run_due`, `record_snapshot`) | `Retrieve`, `Record` |
| the world | `Tick`, `Crash` |

Time is read where the code reads it: the command takes `evaluated_at` before it opens a store, a
decision carries the end of its plan's last run, a failure the moment of its record. A completed run
that passed its budget behaves for the plan like one that raises.

A receipt is fixed when the source answers (`Retrieve`) and committed later (`Record`): the collections
of one lane one after the other, those of different lanes in any order. `Unhandled` is what the
readiness of a moment offers: what the Journal holds with a receipt by then, of the lanes that are
operational, less what was decided or failed by then. Which lanes are operational is left open at each
`FreezeNext`; the health of a lane has a state of its own that is not modelled. A report belongs to a
comparison, and a batch may be compared more than once, so the verdict of `RecordReport` is free.

### Runs

`TriageQueue` checks 2 plans (one of two waves, of which the first has two units, one of a single unit),
2 callers, 2 versions of two lanes in batches of 1, 2 moments, 1 second run and 1 crash. Two lanes let a
version be recorded after a later one, or be left behind while its lane is down. Two callers give the
races for the head, the revision and the claim, and between a caller that compares and one that does
not; two plans give a batch and the one that could overtake it; the two moments a stale reading. The
constraint `SecondsAlone` authorizes the second run only while no batch is compared, because a
comparison does not touch the runs of the members. Callers, and the two units of one wave, are exchanged
as a symmetry.

`TriageStale` ends in a counterexample to `docs/EVENT_IMPACT_TRIAGE.md:51-52`: a caller that read the
clock before another decided the batch, and the revision after, installs the same versions again; the
plan is run and paid for, and its decision is refused for ever, so that the head stays.

`TriageOvertaken` ends in a counterexample to `docs/EVENT_IMPACT_TRIAGE.md:42-43`, "A later batch cannot
overtake an earlier unresolved version": the lane of a version that the Journal holds is down when the
next batch is frozen, and the batch takes a later version of another lane. `HandledInOrder` says what
the code does keep: nothing is handled twice, and nothing is left behind but versions that were not yet
in the Journal, or whose lane was down, when the batch was frozen.

### Proofs

`TriageQueueProofs` proves all four properties of the run for any plans, callers, versions, waves,
batch size and bounds, from `PlanAssumption` (waves of a plan are disjoint sequences of sets) and
`QueueAssumption` (versions are a finite set of numbers). The inductive invariant `IInv` has, beside the
types:

- `OutcomesInv`: who has a plan has an installed one, and who is about to release the head has an
  outcome for it. Without the first an outcome could belong to no batch. Gives
  `OutcomeBeforeRelease`.
- `OrderInv`: receipts are in the order of the versions, and every batch, installed or only wanted by a
  caller, takes with it whatever was received before, except what is handled and what its record of
  gaps names (`Closed`). A stale caller keeps this, which is why its installed batch harms nobody but
  itself: what it left behind then, and what was handled since, still account for every earlier
  version. `ChoiceIsClosed` is where the earliest prefix of the receipts is needed. Gives
  `BatchesInOrder`.
- `FreshInv`, `WavesInv`, `AnswersInv`, `JudgedInv`: a caller in its run has only sealed waves behind
  it, and what it was told of a completed run is still true. They lean on `RunsAreSteady`: a member
  that completed and was charged stays so, since only a failed or doubtful run is given up. Gives
  `WavesInOrder`.
- `LedgerInv`: a second run exists only beside a charge for the first, and a repair is never charged.
  With `JudgedInv` it gives `UsageBalances`.

`CallSteps`, `WantsSteps`, `StoreSteps` and `RunSteps` say once what the actions do to a caller, the two
databases and the runs; the invariants are proved from these. `Least` (a nonempty set of numbers has a
least member) comes from the well-foundedness of the naturals.

Not modelled: query gates, discovery and candidate admission, two run roots over one state root, and
readings of a route epoch that has ended.

## 8. Autonomous paper supervisor

### State and actions

`AutonomousPaper` models `autonomous_paper.py` with the bindings that the provider keeps
(`ibkr_nautilus_execution.py`). One process owns the root; in it one thread submits, cancels or
reconciles, beside admissions, requests, kills and revocations.

| Variables | Code |
|---|---|
| `op`, `reserved`, `consumed`, `view`, `admitted` | `autonomous_operations`: state, reservation, daily consumption, exposure view, order of creation |
| `can`, `asked` | `autonomous_cancellations` |
| `kills`, `lease`, `usedViews` | `autonomous_kills`, `autonomous_provider_acceptances`, `autonomous_exposure_generations` |
| `bind`, `cbind` | the provider's bindings of submissions and cancellations |
| `pc`, `cur`, `snap`, `clean`, `admitting` | the thread and an admission beside it |
| `wire`, `cwire`, `broker`, `account`, `expired`, `manual` | what is on its way, the broker's orders, the current exposure view, expiries, the mandate's approval mode |

| Operation | Actions |
|---|---|
| `admit`, `decide_portfolio_approval` | `BeginAdmission`, `FinishAdmission`; `Decide` |
| `dispatch_next` | `Observe`, `ClaimSubmission` / `ClaimNothing`, `CheckAuthorities`, `Validate`, `Submit`, then `ObserveAccepted`, `Acknowledge`, `CoverAcknowledged`, or `SubmissionInDoubt`, `FinishUnknown`, or `BlockClaim` |
| `request_cancel`, `dispatch_cancellation` | `RequestCancel`; `ClaimCancel`, `PrepareCancel` / `RejectCancel`, `SendCancel`, `ObserveCancel` / `CancelInDoubt`, `FinishCancel` |
| `reconcile` | `TakeSnapshot` / `ReconciliationFails`, `ReportGaps` / `Settle`, `ClearCoverage`, `ClearUnknown` |
| kills, revocation, process | `OperatorKill`, `Revoke`, `Stop`, `Start` |
| the world | `AccountMoves`, `Expire`, `Deliver`, `DeliverCancel`, `Fill` |

A submission or a cancel that is lost stays on the wire for ever, so loss and any delay are one case.
Amounts are left out: a reservation is held or not, an order increases exposure or reduces it, and the
risk can be measured or not. The kill for a lost provider and the one for a stale account are never
lifted, as in the code.

### Runs

`AutonomousPaper` checks 2 orders in two instruments, one that reduces and one that increases, a daily
limit of 2, one move of the account, one fault (a failing source, an expiry, an operator's kill or a
refusal) and one crash; `OneCancellation` lets one of the two orders be canceled. One order in doubt
and one that wants to increase is what every property needs, and a second increase could only wait
for the same kills. `OperatorReasons` has the one reason that a reconciliation clears, the only one
for which it matters that the operator set it. The deadlock check is off, as everything is bounded
and a stopped process whose lease was revoked may not start again.

`AutonomousUncovered` ends in a counterexample to `docs/ACCOUNT_DECISION_LOOP.md:607-609`: a process
that dies between the acknowledgement of an order and the kill that should follow it comes up without
the kill, and an order that increases exposure is sent beside one that was never reconciled.

Seen while modelling, and without a run:

- A revocation becomes final while a submission is in flight, and the order still goes out: only
  cancels claim the lease.
- A revoked lease keeps the service from opening, so a row that a dead process was submitting stays.
- An unknown order that the broker never saw stays unknown, with its kills, for ever; a reconciled
  order that the provider no longer lists keeps a gap.
- An operator's kill for a difference or for coverage that is set during a reconciliation is cleared by
  it.

### Proofs

`AutonomousPaperProofs` proves, for any orders, instruments and limits under `AutonomousAssumption`, the
type invariant and

- `ReservationsHold`, from `OrdersInv`: what a row says bounds what the broker can hold. An order is
  sent only from its one submission (`SentOnce`), its reservation is given up only before it is sent
  or after its end was seen (`Budgeted`), the thread's order is the one it claimed (`AtHand`), and an
  end seen in a snapshot is final (`SnapshotHolds`). None holds without the others: a reservation
  released by a snapshot needs that the snapshot is still true, and that needs that nothing is sent
  twice.
- `SentAtMostOnce`, from the same.
- `NoIncreaseInDoubt`, from `DoubtInv`: a doubt is never without its kill, because the kill is written
  before the doubt and cleared after it; and an order that increases passed its check while there was
  none.
- `RevocationIsFinal`, from `ClaimHeld`: a cancellation is under way only under its claim.

Not modelled: the amounts behind the budgets and the risk, the kills for a daily loss, for a drawdown
and those that the exposure view brings with it (`active_kill_reasons`; they only add kills, never lift
one), a switch of the mandate during a run, an admission with several legs (its second leg fails on the
view that the first consumed), repeated admission of the same decision, and what becomes of an order the
broker expires or rejects (it counts as canceled). The authorization of a replacement order takes no
part.

## 9. Watches and their wakes

### State and actions

`AttentionWatch` models `attention_watch.py`. A watch polls one collection policy, under an allowance
of polls, bytes and wakes, and announces versions it has not seen by a wake in its outbox. A gap in
the receipts poisons it for good; an operator may rebaseline it, which retires the row and creates its
heir with what is left of the allowance. A watch is named by the request it was admitted for and its
place in that line. A poller is a process in `run_due`; it may lose its lease at any point and go on.

`WatchWakes` extends it with what agents do: requests that are admitted, get a watch or share one
(`agent_watch_admission.py`); the dispatch of a wake to every request that shares its watch
(`agent_watch_wake_dispatch.py`); and the one model run of each such *callback*, a wake and a request
(`agent_watch_wake_judgment.py`, with the one-role runner of `event_impact_triage_runtime.py` and the
request boundary of `pi_execution.py`). A runner is a process of `run_triage_watch_wake_callbacks`.

| Variables | Code |
|---|---|
| `status`, `gap`, `holder`, `used`, `limit` | a row of `attention_watch_policies` and its policy: status, a snapshot with a gap, lease, counts, maxima |
| `base`, `seen`, `outbox`, `delivered` | the initial snapshot, `attention_watch_seen_versions`, `attention_watch_outbox` |
| `lapsed`, `cooling`, `past` | which of the lease, the cooldown and the time of a watch the clock has passed |
| `journaled` | the versions of the observation journal, numbered in the order of their receipt |
| `pc`, `polled`, `spent`, `size`, `cut`, `finding`, `fresh` | a poller, and what it has read since its claim |
| `outcome`, `owner`, `initial` | `agent_watch_admissions` |
| `subscribers` | `agent_watch_wake_callback_sets` |
| `run` | the dispatch run of a callback: its record, its binding event, its judgment event, its end |
| `role`, `asked`, `answered`, `stored`, `reply` | the run of its role: requests sent, durable replies, turns completed, the last reply |
| `usage`, `decided` | its usage record and its decision |
| `at`, `wake`, `todo`, `call`, `turn`, `tally` | a runner, and what it holds |

| Operation | Actions |
|---|---|
| `create`, `rebaseline`, `cancel` | `CreateWatch` (inside `Activate`), `Rebaseline`, `CancelWatch` |
| `run_due` | `Claim` or `EndAtClaim`, `Collect` or `CollectionFails`, `Read`, then `WritePoll`; `Abandon` |
| `admit` | `Reject`, `Reuse`, `Admit`, `Activate` |
| `dispatch_pending` | `PickWake`, `Freeze`, for each subscriber `StartCallback` and `AppendBinding`, or `SkipBound`; `Deliver` |
| `running_dispatches`, `prepare` | `Select`, `Prepare` |
| `_run_role` | `EnterRole`, `SealInterrupted` or `ReopenRole`; `RefuseTurn`, `ReplayTurn`, or `OpenTurn`, `SendTurn`, `ReceiveTurn` / `TurnFails`; `RefuseReply` or `StoreTurn`; `CorrectAnswer` or `SealAnswer` |
| `run`, `_append_usage`, `_finish_dispatch` | `Charge`, `AdmitDecision`, `NoteJudgment`, `FinishDispatch` |
| the clock and the processes | `Lapse`, `Cool`, `Pass`; `Quit` |

Whether a poll is due is left open, as is what the clock says; a claim on a run is an exclusive kernel
lock that dies with its process, so it is part of where a runner is. A poll ends in one of the exits
of `run_due`, in their order; a reply is what the role does with it: valid, malformed, over the
budget, or refused before its turn is stored (`unusable`).

### Run

`WatchWakes` checks a watch and one heir (`MaxHeirs`), 2 pollers, 2 versions (`MaxVersions`), an
allowance of 2 polls, 3 bytes and 2 wakes with responses of 2 bytes (`TwoPolls`), 2 requests, 2 runners
and 2 turns (`MaxTurns`). Two pollers give the one that writes after its lease has gone to the other;
two versions give a wake that could repeat a version; an heir that was left one poll is where an
allowance could be renewed, and two responses of two bytes are one more than the bytes allow. Two
requests give the one that joins between two dispatches of a wake; two runners every race for a
callback, and two turns an answer that is corrected. The constraint `Staged` splits the search: the
second request and the runners come when the first poll has just written its wake, and from then on
the watches rest and only the callback of the first request is judged. Nothing a runner does is read by
a poller, and all that dispatch and judgment read of a watch is its wakes and, for an admission, its
state; the proofs hold without the constraint. Pollers, and runners, are exchanged as a symmetry. The
deadlock check is off, as every allowance ends. No fairness is stated in this part.

| Property | Says |
|---|---|
| `AnnouncedOnce` | what a watch has seen is its initial snapshot and its wakes, and no two wakes share a version |
| `AllowanceIsConserved` | an heir gets what is left; polls and wakes stay within the limit, and a watch that passed its bytes collects no more |
| `DeliveredIsBound` | a delivered wake has a bound run for each of its frozen subscribers, who share its watch, and for nobody else |
| `JudgedOnce` | no request is sent while one is without a reply, and the run of the dispatch, the decision and the usage record say of the role what its sealed run says |

### What was seen and has no run

- A process that dies between the event `judgment-finished` and the end of the dispatch run leaves a
  running record with two events, which `_reopen_dispatch` (`agent_watch_wake_judgment.py:444-449`)
  refuses for ever; the callbacks after it in the order of their keys wait behind it.
  `docs/DATA_INPUT_HARNESS.md:947-951` asks for one research terminal for each delta. It is in the
  model: `Prepare` takes only runs that are `bound`.
- A request that is decided later ends later than the one it could share with, and a rebaselined root
  no longer counts; so equal watches stand side by side, and the active limit is undercounted
  (`docs/DATA_INPUT_HARNESS.md:855-856`).
- A poll whose claim went stale, or that raises, collected without being charged.
- A role that a provider failure ended is charged with the attempts of the exception, but reopening it
  counts completed turns only. After a death between the usage record and the end of the dispatch run,
  the comparison in `_append_usage` refuses the record for ever (`Charge` waits for a runner that holds
  the same tally).

### Proofs

`AttentionWatchProofs` and `WatchWakesProofs` prove the types and all four properties for any requests,
owners, pollers, runners, allowance, response sizes and bounds, under `AttentionWatchAssumption` and
`WatchWakesAssumption`. `WatchStep` is what the watches see of a step of `WatchWakes`, so that the first
module does not know the second. The inductive invariant is `WatchInv` and `WakeInv`:

- `ReadHolds`: what the poller that holds the lease has read since its claim is still so when it
  writes. It leans on nobody but the holder writing to a watch, so on `HoldsLease`. Gives
  `AnnouncedOnce`, since the fresh versions are then those not seen.
- `Lineage`, `Retired`, `Resting`, `Charged`: an heir is there when and only when its watch is
  retired, and a watch that does not run is leased to nobody; so what a retired watch has spent is
  final. Gives `AllowanceIsConserved`.
- `Frozen`, `DispatchHolds`, `DeliveredIsBound`: a callback set, once frozen, does not change, and
  what a runner still has to bind together with what is bound is all of it.
- `RoleClaimed`, `TurnHolds`, `Corrected`: one runner at most is in a role; its turn number, and the
  requests, replies and stored turns of the role, differ by at most one at each of its places; and a
  turn follows only a malformed one. With them `JudgedOnce` is inductive.

Model-checked only, in this part: nothing. Not modelled: the authority of parents and delegate profiles,
the matching of versions to a scope (all match), unscoped watches of the first schema, retrieval, the
watches of research theses, the shared collection of several watches beyond its snapshot, retries inside
one request (section 6 has them), and an interruption sealed for a role that had begun but asked
nothing: `Interrupted` needs a request, and a runner that re-enters such a role and is refused its turn
(`EnterRole`, `RefuseTurn`) ends it the same way.

## 10. Not modelled

`PROJECT.json` gives the reason for each component. In short: what is left of the plan above is
modelled next; research studies, backtests, calibration and the packaging of data are offline and
sequential; contracts, profiles and the policy are pure; deployment builds files.
