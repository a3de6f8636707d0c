---------------------------- MODULE TriageQueue ----------------------------
(***************************************************************************)
(* The queue of triage batches of one route epoch (prospective_triage.py)  *)
(* over two databases: the run root holds the head, the one batch that may *)
(* be worked on, and the state root holds what became of each batch        *)
(* (event_impact_triage_store.py).  A caller freezes the next batch or     *)
(* reopens the head, runs its plan, records the decision, or the failure   *)
(* of a comparison, in the state root, and only then releases the head.    *)
(***************************************************************************)
EXTENDS TriagePlan

CONSTANTS
  Versions,     \* 1..n: candidate versions in the order of their receipts
  Lanes,        \* the collection jobs of the trigger routes
  LaneOf,       \* of each version: the job that receives it
  BatchSize,    \* maximum_candidate_count
  MaxClock,     \* bound: the last moment
  MaxSeconds,   \* bound: how many second runs are authorized
  MaxCrashes    \* bound: how often a process dies

ASSUME QueueAssumption ==
  /\ Versions \subseteq Nat /\ IsFiniteSet(Versions) /\ BatchSize \in Nat \ {0}
  /\ LaneOf \in [Versions -> Lanes]
  /\ MaxClock \in Nat /\ MaxSeconds \in Nat /\ MaxCrashes \in Nat

Never == MaxClock + 1
Moments == 0..MaxClock

VARIABLES
  clock, crashes,
  received,     \* of each version: its receipt (first_available_at), or Never
  journal,      \* the versions that the observation Journal holds
  \* the run root
  batch,        \* of each batch: its versions; none before it is installed
  head,         \* the active batch
  revision,     \* of the epoch
  released,     \* batches that were completed or terminalized
  bound,        \* batches registered for comparison
  passed,       \* history, of each batch: the earlier versions it left behind
  \* the state root
  decidedAt, terminalAt,
  finished,     \* of each plan: when the last of its runs ended
  \* of each caller
  at,           \* its evaluated_at
  compares,     \* whether it runs the comparison
  seen,         \* the revision it read
  wanted,       \* the versions it would freeze
  missing       \* history: the earlier versions that these leave behind

runRoot   == <<batch, head, revision, released, bound, passed>>
stateRoot == <<decidedAt, terminalAt>>
world     == <<clock, crashes, received, journal>>
work      == <<members, ledger, owner, finished>>
own       == <<at, compares, seen, wanted, missing>>
vars      == <<runRoot, stateRoot, world, work, calls, own>>

\* An earlier version is left behind because its collection has not been recorded yet, or
\* because its lane is not operational.
NoGaps == [late |-> {}, asleep |-> {}]

Init ==
  /\ PlanInit
  /\ clock = 0 /\ crashes = 0
  /\ received = [v \in Versions |-> Never] /\ journal = {}
  /\ batch = [p \in Plans |-> {}]
  /\ head = Nobody /\ revision = 0
  /\ released = {} /\ bound = {}
  /\ passed = [p \in Plans |-> NoGaps]
  /\ decidedAt = [p \in Plans |-> Never]
  /\ terminalAt = [p \in Plans |-> Never]
  /\ finished = [p \in Plans |-> 0]
  /\ at = [c \in Callers |-> 0]
  /\ compares = [c \in Callers |-> FALSE]
  /\ seen = [c \in Callers |-> 0]
  /\ wanted = [c \in Callers |-> {}]
  /\ missing = [c \in Callers |-> NoGaps]

Installed == {p \in Plans : batch[p] # {}}
Decided   == {p \in Plans : decidedAt[p] # Never}
Terminal  == {p \in Plans : terminalAt[p] # Never}
HandledBy(ps) == UNION {batch[p] : p \in ps}
Handled   == HandledBy(Decided \cup Terminal)

\* classified_version_ids: decided or terminal by a moment.
HandledBefore(t) == HandledBy({p \in Plans : decidedAt[p] =< t \/ terminalAt[p] =< t})

\* The candidates of the readiness of a moment: in the Journal with a receipt by then, of
\* a lane that is operational, and not classified.
Unhandled(t, lanes) ==
  {v \in journal : received[v] =< t /\ LaneOf[v] \in lanes} \ HandledBefore(t)

(* Mutant of Earliest: the batch is filled from the newest receipts. *)
EarliestReversed(vs) == {v \in vs : Cardinality({w \in vs : w > v}) < BatchSize}

\* EventImpactTriageBatchSelection.build: the earliest prefix.
Earliest(vs) == {v \in vs : Cardinality({w \in vs : w < v}) < BatchSize}

\* What the versions vs, frozen at a moment, leave behind.
GapsOf(vs, t, lanes) ==
  LET earlier == {w \in Versions : \E v \in vs : w < v} \ HandledBefore(t)
  IN [late   |-> earlier \ journal,
      asleep |-> {w \in earlier \cap journal : LaneOf[w] \notin lanes}]

Forget(c) ==
  /\ at' = [at EXCEPT ![c] = 0] /\ seen' = [seen EXCEPT ![c] = 0]
  /\ wanted' = [wanted EXCEPT ![c] = {}] /\ missing' = [missing EXCEPT ![c] = NoGaps]
  /\ compares' = [compares EXCEPT ![c] = FALSE]

\* The command returns, or fails.
Exit(c) == Leave(c) /\ Forget(c)

-----------------------------------------------------------------------------
(* World. *)

\* A collector fixes the receipt when the source answers; versions are numbered by it.
Retrieve(v) ==
  /\ received[v] = Never /\ \A w \in Versions : w < v => received[w] # Never
  /\ received' = [received EXCEPT ![v] = clock]
  /\ UNCHANGED <<clock, crashes, journal, runRoot, stateRoot, work, calls, own>>

\* record_snapshot, after the snapshot was staged: the collections of a lane are recorded
\* one after the other, those of different lanes in any order.
Record(v) ==
  /\ received[v] # Never /\ v \notin journal
  /\ \A w \in Versions : w < v /\ LaneOf[w] = LaneOf[v] => w \in journal
  /\ journal' = journal \cup {v}
  /\ UNCHANGED <<clock, crashes, received, runRoot, stateRoot, work, calls, own>>

Tick ==
  /\ clock < MaxClock
  /\ clock' = clock + 1
  /\ UNCHANGED <<crashes, received, journal, runRoot, stateRoot, work, calls, own>>

Crash(c) ==
  /\ pc[c] # "idle" /\ crashes < MaxCrashes
  /\ crashes' = crashes + 1
  /\ Return(c, "idle") /\ Forget(c)
  /\ UNCHANGED <<clock, received, journal, runRoot, stateRoot, members, ledger, finished>>

Authorize(j) ==
  /\ Cardinality({k \in Members : second[k]}) < MaxSeconds
  /\ AuthorizeSecond(j)
  /\ UNCHANGED <<runRoot, stateRoot, world, finished, own>>

-----------------------------------------------------------------------------
(* prepare_or_reopen_prospective_triage_work *)

\* The command reads the clock, then the stores.
CallTriage(c) ==
  /\ pc[c] = "idle"
  /\ Goto(c, "opening")
  /\ at' = [at EXCEPT ![c] = clock]
  /\ UNCHANGED <<runRoot, stateRoot, world, work, plan, wave, answers, compares, seen, wanted,
                 missing>>

\* What was read for a new batch is dropped when there is a batch to work on.
WorkOn(c, p) ==
  /\ Goto(c, "checking")
  /\ plan' = [plan EXCEPT ![c] = p]
  /\ Forget(c)

ReopenHead(c) ==
  /\ pc[c] = "opening" /\ head # Nobody
  /\ WorkOn(c, head)
  /\ UNCHANGED <<runRoot, stateRoot, world, work, wave, answers>>

FindNoHead(c) ==
  /\ pc[c] = "opening" /\ head = Nobody
  /\ Goto(c, "planning")
  /\ UNCHANGED <<runRoot, stateRoot, world, work, plan, wave, answers, own>>

ReadRevision(c) ==
  /\ pc[c] = "planning"
  /\ seen' = [seen EXCEPT ![c] = revision]
  /\ Goto(c, "preparing")
  /\ UNCHANGED <<runRoot, stateRoot, world, work, plan, wave, answers, at, compares, wanted,
                 missing>>

\* Which lanes are operational is up to their own state at the moment.
FreezeNext(c) ==
  /\ pc[c] = "preparing"
  /\ \E lanes \in SUBSET Lanes :
       LET vs == Earliest(Unhandled(at[c], lanes))
       IN /\ Unhandled(at[c], lanes) # {}
          /\ wanted' = [wanted EXCEPT ![c] = vs]
          /\ missing' = [missing EXCEPT ![c] = GapsOf(vs, at[c], lanes)]
  /\ at' = [at EXCEPT ![c] = 0]
  /\ Goto(c, "installing")
  /\ UNCHANGED <<runRoot, stateRoot, world, work, plan, wave, answers, compares, seen>>

\* "triage Batch Selection requires unclassified candidates"; too few lanes are
\* operational; or a job was updated after the moment.
FreezeNothing(c) ==
  /\ pc[c] = "preparing"
  /\ Exit(c)
  /\ UNCHANGED <<runRoot, stateRoot, world, work, wave, answers>>

\* install, in one transaction: whoever comes second works on the head of the first.
ReopenInstalled(c) ==
  /\ pc[c] = "installing" /\ head # Nobody
  /\ WorkOn(c, head)
  /\ UNCHANGED <<runRoot, stateRoot, world, work, wave, answers>>

\* "epoch advanced while batch was prepared"
RefuseInstall(c) ==
  /\ pc[c] = "installing" /\ head = Nobody /\ revision # seen[c]
  /\ Exit(c)
  /\ UNCHANGED <<runRoot, stateRoot, world, work, wave, answers>>

Install(c) ==
  /\ pc[c] = "installing" /\ head = Nobody /\ revision = seen[c]
  /\ \E p \in Plans \ Installed :
       /\ \A q \in Plans \ Installed : p =< q
       /\ batch' = [batch EXCEPT ![p] = wanted[c]]
       /\ passed' = [passed EXCEPT ![p] = missing[c]]
       /\ head' = p
       /\ WorkOn(c, p)
  /\ UNCHANGED <<revision, released, bound, stateRoot, world, work, wave, answers>>

-----------------------------------------------------------------------------
(* run_prepared_prospective_triage_work, and _comparison *)

\* A batch that is bound to a comparison is refused.
CheckUnbound(c) ==
  /\ pc[c] = "checking"
  /\ IF plan[c] \in bound THEN Exit(c)
                          ELSE Goto(c, "claiming") /\ UNCHANGED <<plan, own>>
  /\ UNCHANGED <<runRoot, stateRoot, world, work, wave, answers>>

RegisterComparison(c) ==
  /\ pc[c] = "checking"
  /\ bound' = bound \cup {plan[c]}
  /\ compares' = [compares EXCEPT ![c] = TRUE]
  /\ Goto(c, "claiming")
  /\ UNCHANGED <<batch, head, revision, released, passed, stateRoot, world, work,
                 plan, wave, answers, at, seen, wanted, missing>>

\* finished is the time of the last end of a run (updated_at).
RunPlan(c) ==
  /\ PlanStep(c)
  /\ finished' = [p \in Plans |-> IF \E j \in Of(p) : outcome'[j] # outcome[j]
                                  THEN clock ELSE finished[p]]
  /\ IF pc'[c] = "idle" THEN Forget(c) ELSE UNCHANGED own
  /\ UNCHANGED <<runRoot, stateRoot, world>>

FinishRun(c) ==
  /\ JudgePlan(c, IF compares[c] THEN "reporting" ELSE "deciding")
  /\ Forget(c)
  /\ UNCHANGED <<runRoot, stateRoot, world, finished>>

\* The baseline arm has a plan of its own and may not have completed.
AbandonComparison(c) ==
  /\ pc[c] = "reporting"
  /\ Exit(c)
  /\ UNCHANGED <<runRoot, stateRoot, world, work, wave, answers>>

\* record_report, or reopen_report.  A report is kept for each comparison, and a batch may
\* be compared against other labels, or another baseline, in another call.
RecordReport(c) ==
  /\ pc[c] = "reporting"
  /\ \E to \in {"deciding", "failing"} : Goto(c, to)
  /\ UNCHANGED <<runRoot, stateRoot, world, work, plan, wave, answers, own>>

-----------------------------------------------------------------------------
(* The state root: admit_work, terminalize_failed_work_comparison *)

(* Mutant of Conflicts: the versions of failed batches are not looked up. *)
ConflictsWithDecided(p) == batch[p] \cap HandledBy(Decided \ {p}) # {}

\* A version of the batch was handled with another batch.
Conflicts(p) == batch[p] \cap HandledBy((Decided \cup Terminal) \ {p}) # {}

(* Mutant of MayDecide: a failed batch can still be decided. *)
MayDecideFailed(p) == ~Conflicts(p)

MayDecide(p) == p \notin Terminal /\ ~Conflicts(p)
MayFail(p)   == p \notin Decided /\ ~Conflicts(p)

AdmitDecision(c) ==
  /\ pc[c] = "deciding"
  /\ \/ plan[c] \in Decided /\ UNCHANGED decidedAt
     \/ /\ plan[c] \notin Decided /\ MayDecide(plan[c])
        /\ decidedAt' = [decidedAt EXCEPT ![plan[c]] = finished[plan[c]]]
  /\ Goto(c, "completing")
  /\ UNCHANGED <<runRoot, terminalAt, world, work, plan, wave, answers, own>>

Terminalize(c) ==
  /\ pc[c] = "failing"
  /\ \/ plan[c] \in Terminal /\ UNCHANGED terminalAt
     \/ /\ plan[c] \notin Terminal /\ MayFail(plan[c])
        /\ terminalAt' = [terminalAt EXCEPT ![plan[c]] = clock]
  /\ Goto(c, "completing")
  /\ UNCHANGED <<runRoot, decidedAt, world, work, plan, wave, answers, own>>

RefuseOutcome(c) ==
  /\ \/ pc[c] = "deciding" /\ plan[c] \notin Decided /\ ~MayDecide(plan[c])
     \/ pc[c] = "failing" /\ plan[c] \notin Terminal /\ ~MayFail(plan[c])
  /\ Exit(c)
  /\ UNCHANGED <<runRoot, stateRoot, world, work, wave, answers>>

\* complete, terminalize: the head goes with the first of them.
ReleaseHead(c) ==
  /\ pc[c] = "completing"
  /\ IF head = plan[c]
       THEN /\ released' = released \cup {head}
            /\ revision' = revision + 1
            /\ head' = Nobody
       ELSE UNCHANGED <<released, revision, head>>
  /\ Exit(c)
  /\ UNCHANGED <<batch, bound, passed, stateRoot, world, work, wave, answers>>

Step(c) ==
  \/ ReopenHead(c) \/ FindNoHead(c) \/ ReadRevision(c) \/ FreezeNext(c) \/ FreezeNothing(c)
  \/ ReopenInstalled(c) \/ RefuseInstall(c) \/ Install(c)
  \/ CheckUnbound(c) \/ RegisterComparison(c) \/ RunPlan(c) \/ FinishRun(c)
  \/ AbandonComparison(c) \/ RecordReport(c)
  \/ AdmitDecision(c) \/ Terminalize(c) \/ RefuseOutcome(c) \/ ReleaseHead(c)

Next ==
  \/ Tick
  \/ \E v \in Versions : Retrieve(v) \/ Record(v)
  \/ \E c \in Callers : CallTriage(c) \/ Step(c) \/ Crash(c)
  \/ \E j \in Members : Authorize(j)

Spec == Init /\ [][Next]_vars

-----------------------------------------------------------------------------
\* Whatever callers race, crash or call late: a version is handled with one batch, and the
\* earlier versions that are not handled with it or before it are those that, when the
\* batch was frozen, were not in the Journal or belonged to a lane that was down.
HandledInOrder ==
  /\ \A p, q \in Decided \cup Terminal : p # q => batch[p] \cap batch[q] = {}
  /\ \A p \in Decided \cup Terminal : \A v \in batch[p], w \in Versions :
       w < v => w \in Handled \cup passed[p].late \cup passed[p].asleep

\* A batch is decided or failed, never both, and its head is released only after one of
\* them is durable in the other database (admit_work, terminalize_failed_work_comparison,
\* complete, terminalize).
AuthorityBeforeRelease ==
  /\ Decided \cap Terminal = {}
  /\ released \subseteq Decided \cup Terminal
  /\ \A p \in Installed : p # head => p \in released

\* docs/EVENT_IMPACT_TRIAGE.md:51-52: "a stale preparation that lost the original race
\* cannot install after the winning Decision".
InstalledIsFresh ==
  head # Nobody => batch[head] \cap HandledBy((Decided \cup Terminal) \ {head}) = {}

\* docs/EVENT_IMPACT_TRIAGE.md:42-43: "A later batch cannot overtake an earlier unresolved
\* version": what the Journal held when a batch was frozen is not left behind.
NoOvertaking == \A p \in Decided \cup Terminal : passed[p].asleep \subseteq Handled
=============================================================================
