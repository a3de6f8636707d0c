---------------------------- MODULE ModelBudget ----------------------------
(***************************************************************************)
(* ModelBudget (model_budget.py): reservations for physical model requests *)
(* in the Run Journal of their parent run.  Any number of workers, each    *)
(* with its own ModelBudget object (a stage, and perhaps an arm of an      *)
(* admitted group), share the journal.  A reservation is decided under a   *)
(* kernel claim on the parent (RunJournal.try_claim_run); a settlement is  *)
(* appended without it, by whoever received the response.                  *)
(*                                                                         *)
(* The journal is the three kinds of budget event it holds; a worker's     *)
(* snapshot is the prefix it read.  A budget without stages is the case of *)
(* one stage with the parent's own limit.  The binding that every event    *)
(* carries is the same for all workers (another one raises).               *)
(***************************************************************************)
EXTENDS Naturals, FiniteSets, Functions

CONSTANTS
  Keys,           \* request keys
  Scopes,         \* registered stages (scope_limits)
  Groups,         \* group ids
  Members,        \* member ids
  Plans,          \* the arms of a group: functions from members to ceilings
  Workers,
  Estimates,      \* bound: the costs a request may be estimated at
  Costs,          \* bound: the costs a response may turn out to have
  MaxRequests, PriorRequests,
  MaxCost,        \* max_cost_microusd
  ScopeLimit,     \* max_cost_microusd of each stage
  PriorSpend,     \* prior cost and prior reservations of each stage
  None

ASSUME BudgetAssumption ==
  /\ Estimates \subseteq Nat /\ Costs \subseteq Nat
  /\ MaxRequests \in Nat \ {0} /\ PriorRequests \in 0..MaxRequests
  /\ MaxCost \in Nat
  /\ IsFiniteSet(Scopes)
  /\ ScopeLimit \in [Scopes -> Nat] /\ PriorSpend \in [Scopes -> Nat]
  /\ \A s \in Scopes : PriorSpend[s] <= ScopeLimit[s]
  /\ SumFunction(ScopeLimit) <= MaxCost
  /\ None \notin Nat \cup Groups \cup Members \cup Keys \cup Workers

Ceilings == [requests : Nat \ {0}, cost : Nat \ {0}]

ASSUME PlansAssumption ==
  \A p \in Plans :
    /\ DOMAIN p \subseteq Members /\ IsFiniteSet(DOMAIN p)
    /\ p \in [DOMAIN p -> Ceilings]

VARIABLES
  journal,    \* the parent run's budget events
  claim,      \* the worker that holds the parent's model-budget claim, or None
  pc, job,    \* each worker's position and call
  snap,       \* the journal prefix the call decides by
  permits     \* history: how often reserve() returned for each request

vars == <<journal, claim, pc, job, snap, permits>>

Reservations == [cost : Nat, scope : Scopes,
                 group : Groups \cup {None}, member : Members \cup {None}]
Admissions   == [scope : Scopes, plan : Plans]

ASSUME NoneAssumption == None \notin Reservations \cup Admissions

Journals     == [reserved : [Keys -> Reservations \cup {None}],
                 settled  : [Keys -> Nat \cup {None}],
                 groups   : [Groups -> Admissions \cup {None}]]

ReserveCalls == [op : {"reserve"}, key : Keys, charge : Reservations]
AdmitCalls   == [op : {"admit"}, group : Groups, admission : Admissions]

HeldPCs  == {"claimed", "reading", "deciding", "appending", "appended"}
PCs      == {"idle", "waiting"} \cup HeldPCs

WorkersTypeOK ==
  /\ claim \in Workers \cup {None}
  /\ pc \in [Workers -> PCs]
  /\ job \in [Workers -> ReserveCalls \cup AdmitCalls \cup {None}]
  /\ \A w \in Workers : pc[w] # "idle" => job[w] \in ReserveCalls \cup AdmitCalls
  /\ snap \in [Workers -> Journals]

TypeOK ==
  /\ WorkersTypeOK
  /\ journal \in Journals
  /\ permits \in [Keys -> Nat]

EmptyJournal == [reserved |-> [k \in Keys |-> None],
                 settled  |-> [k \in Keys |-> None],
                 groups   |-> [g \in Groups |-> None]]

Init ==
  /\ journal = EmptyJournal
  /\ claim = None
  /\ pc = [w \in Workers |-> "idle"]
  /\ job = [w \in Workers |-> None]
  /\ snap = [w \in Workers |-> EmptyJournal]
  /\ permits = [k \in Keys |-> 0]

-----------------------------------------------------------------------------
(* What a journal prefix says. *)

Requests(j) == {k \in Keys : j.reserved[k] # None}

ScopeRequests(j, s) == {k \in Requests(j) : j.reserved[k].scope = s}

\* A known cost replaces the reservation it settles.
Charge(j, k) == IF j.settled[k] # None THEN j.settled[k] ELSE j.reserved[k].cost

Spend(j, ks) == SumFunction([k \in ks |-> Charge(j, k)])

\* The arms of the admitted groups.
Arms(j) == UNION {{<<g, m>> : m \in DOMAIN j.groups[g].plan} :
                     g \in {h \in Groups : j.groups[h] # None}}

ScopeOf(j, arm) == j.groups[arm[1]].scope
Ceiling(j, arm) == j.groups[arm[1]].plan[arm[2]]

ArmRequests(j, arm) ==
  {k \in Requests(j) : <<j.reserved[k].group, j.reserved[k].member>> = arm}

Monus(a, b) == IF a > b THEN a - b ELSE 0

RequestsLeft(j, arm) == Monus(Ceiling(j, arm).requests, Cardinality(ArmRequests(j, arm)))

CostLeft(j, arm) == Monus(Ceiling(j, arm).cost, Spend(j, ArmRequests(j, arm)))

HeldRequests(j, arms) == SumFunction([a \in arms |-> RequestsLeft(j, a)])
HeldCost(j, arms)     == SumFunction([a \in arms |-> CostLeft(j, a)])

InScope(j, arms, s) == {a \in arms : ScopeOf(j, a) = s}

PriorTotal == SumFunction(PriorSpend)

\* The allowance `requests` and `cost` fits the parent beside what is spent,
\* reserved and held for `arms`; and `cost` fits the stage.
ParentFits(j, arms, requests, cost) ==
  /\ PriorRequests + Cardinality(Requests(j)) + HeldRequests(j, arms) + requests
       <= MaxRequests
  /\ PriorTotal + Spend(j, Requests(j)) + HeldCost(j, arms) + cost <= MaxCost

StageFits(j, arms, s, cost) ==
  PriorSpend[s] + Spend(j, ScopeRequests(j, s)) + HeldCost(j, InScope(j, arms, s)) + cost
    <= ScopeLimit[s]

PlanRequests(p) == SumFunction([m \in DOMAIN p |-> p[m].requests])
PlanCost(p)     == SumFunction([m \in DOMAIN p |-> p[m].cost])

-----------------------------------------------------------------------------
(* Calls.  A group object is bound to the stage its group was admitted for. *)

ArmObjects(s) == {<<None, None>>}
  \cup {<<g, None>> : g \in {h \in Groups : journal.groups[h] # None
                                            /\ journal.groups[h].scope = s}}
  \cup InScope(journal, Arms(journal), s)

Call(w, call) ==
  /\ pc[w] = "idle"
  /\ pc' = [pc EXCEPT ![w] = "waiting"]
  /\ job' = [job EXCEPT ![w] = call]
  /\ UNCHANGED <<journal, claim, snap, permits>>

CallReserve(w) ==
  \E k \in Keys, e \in Estimates, s \in Scopes :
    \E arm \in ArmObjects(s) :
      Call(w, [op |-> "reserve", key |-> k,
               charge |-> [cost |-> e, scope |-> s,
                           group |-> arm[1], member |-> arm[2]]])

CallAdmitGroup(w) ==
  \E g \in Groups, s \in Scopes, p \in Plans :
    Call(w, [op |-> "admit", group |-> g, admission |-> [scope |-> s, plan |-> p]])

(* Mutant of TryClaimRun: the claim is not exclusive. *)
TryClaimShared(w) ==
  /\ pc[w] = "waiting"
  /\ claim' = w
  /\ pc' = [pc EXCEPT ![w] = "claimed"]
  /\ UNCHANGED <<journal, job, snap, permits>>

TryClaimRun(w) ==
  /\ pc[w] = "waiting" /\ claim = None
  /\ claim' = w
  /\ pc' = [pc EXCEPT ![w] = "claimed"]
  /\ UNCHANGED <<journal, job, snap, permits>>

\* The call ends, by its return or by an exception; `finally` releases the claim.
Released(w) ==
  /\ claim' = IF claim = w THEN None ELSE claim
  /\ pc' = [pc EXCEPT ![w] = "idle"]
  /\ job' = [job EXCEPT ![w] = None]
  /\ snap' = [snap EXCEPT ![w] = EmptyJournal]

Goto(w, at) ==
  /\ pc' = [pc EXCEPT ![w] = at]
  /\ UNCHANGED <<claim, job, snap>>

\* A group admitted before is reopened, or refused when its arms changed.
LookUpGroup(w) ==
  /\ pc[w] = "claimed" /\ job[w].op = "admit"
  /\ IF journal.groups[job[w].group] = None THEN Goto(w, "reading") ELSE Released(w)
  /\ UNCHANGED <<journal, permits>>

ReadJournal(w) ==
  /\ \/ pc[w] = "claimed" /\ job[w].op = "reserve"
     \/ pc[w] = "reading"
  /\ snap' = [snap EXCEPT ![w] = journal]
  /\ pc' = [pc EXCEPT ![w] = "deciding"]
  /\ UNCHANGED <<journal, claim, job, permits>>

Arm(charge) == <<charge.group, charge.member>>

ArmAllows(j, charge) ==
  charge.group # None =>
    /\ Arm(charge) \in InScope(j, Arms(j), charge.scope)
    /\ RequestsLeft(j, Arm(charge)) >= 1
    /\ CostLeft(j, Arm(charge)) >= charge.cost

(* Mutant of BudgetAllows: the allowances held for other arms are forgotten. *)
AllowsForgettingArms(j, charge) ==
  ParentFits(j, {}, 1, charge.cost) /\ StageFits(j, {}, charge.scope, charge.cost)

(* Mutant of BudgetAllows: the caller's own allowance is counted against it. *)
AllowsHoldingOwnArm(j, charge) ==
  /\ ParentFits(j, Arms(j), 1, charge.cost)
  /\ StageFits(j, Arms(j), charge.scope, charge.cost)

\* What is held for the caller's own arm is what it is about to draw on.
BudgetAllows(j, charge) ==
  LET others == Arms(j) \ {Arm(charge)}
  IN  /\ ParentFits(j, others, 1, charge.cost)
      /\ StageFits(j, others, charge.scope, charge.cost)

(* Mutant of MayReserve: a key that exists is left to the journal's append. *)
MayReserveAgain(w) ==
  ArmAllows(snap[w], job[w].charge) /\ BudgetAllows(snap[w], job[w].charge)

\* The journal is asked again for the key itself: no regeneration.
MayReserve(w) ==
  /\ ArmAllows(snap[w], job[w].charge)
  /\ journal.reserved[job[w].key] = None
  /\ BudgetAllows(snap[w], job[w].charge)

DecideReservation(w) ==
  /\ pc[w] = "deciding" /\ job[w].op = "reserve"
  /\ IF MayReserve(w) THEN Goto(w, "appending") ELSE Released(w)
  /\ UNCHANGED <<journal, permits>>

GroupFits(j, admission) ==
  /\ ParentFits(j, Arms(j), PlanRequests(admission.plan), PlanCost(admission.plan))
  /\ StageFits(j, Arms(j), admission.scope, PlanCost(admission.plan))

DecideAdmission(w) ==
  /\ pc[w] = "deciding" /\ job[w].op = "admit"
  /\ IF GroupFits(snap[w], job[w].admission) THEN Goto(w, "appending") ELSE Released(w)
  /\ UNCHANGED <<journal, permits>>

\* RunJournal.append: an event id that exists keeps its content; appending the
\* same content again returns the old event, other content raises.
Appended(events, id, content) ==
  [events EXCEPT ![id] = IF @ = None THEN content ELSE @]

AppendReservation(w) ==
  /\ pc[w] = "appending" /\ job[w].op = "reserve"
  /\ journal' = [journal EXCEPT !.reserved = Appended(@, job[w].key, job[w].charge)]
  /\ IF journal'.reserved[job[w].key] = job[w].charge
     THEN Goto(w, "appended") ELSE Released(w)
  /\ UNCHANGED permits

AppendGroup(w) ==
  /\ pc[w] = "appending" /\ job[w].op = "admit"
  /\ journal' = [journal EXCEPT !.groups = Appended(@, job[w].group, job[w].admission)]
  /\ Released(w)
  /\ UNCHANGED permits

\* reserve() returns: its caller may send the request.
ReturnPermit(w) ==
  /\ pc[w] = "appended" /\ job[w].op = "reserve"
  /\ permits' = [permits EXCEPT ![job[w].key] = @ + 1]
  /\ Released(w)
  /\ UNCHANGED journal

\* The response (or the provider's refusal) is in: its cost is known.
Settle(k) ==
  /\ permits[k] > 0
  /\ journal.reserved[k] # None
  /\ \E c \in Costs :
       journal' = [journal EXCEPT !.settled = Appended(@, k, c)]
  /\ UNCHANGED <<claim, pc, job, snap, permits>>

\* A crash, a cancelled run, or check_cancel() while waiting or just claimed.
Stop(w) ==
  /\ pc[w] # "idle"
  /\ Released(w)
  /\ UNCHANGED <<journal, permits>>

Next ==
  \/ \E w \in Workers :
       \/ CallReserve(w) \/ CallAdmitGroup(w) \/ TryClaimRun(w)
       \/ LookUpGroup(w) \/ ReadJournal(w)
       \/ DecideReservation(w) \/ DecideAdmission(w)
       \/ AppendReservation(w) \/ AppendGroup(w) \/ ReturnPermit(w)
       \/ Stop(w)
  \/ \E k \in Keys : Settle(k)

Spec == Init /\ [][Next]_vars

-----------------------------------------------------------------------------
(* Properties. *)

\* By how much the responses of these requests cost more than was reserved.
Overrun(ks) ==
  SumFunction([k \in ks |-> IF journal.settled[k] = None THEN 0
                            ELSE Monus(journal.settled[k], journal.reserved[k].cost)])

\* What is spent, reserved and held for the arms of admitted groups stays
\* within the parent's limits and within each stage's, but for what responses
\* cost beyond their own reservation: admission never adds to an overrun.
\* The decision reads a prefix that settlements may outdate before it is
\* appended (reserve, admit_group).
WithinBudget ==
  /\ PriorRequests + Cardinality(Requests(journal)) + HeldRequests(journal, Arms(journal))
       <= MaxRequests
  /\ PriorTotal + Spend(journal, Requests(journal)) + HeldCost(journal, Arms(journal))
       <= MaxCost + Overrun(Requests(journal))
  /\ \A s \in Scopes :
       PriorSpend[s] + Spend(journal, ScopeRequests(journal, s))
         + HeldCost(journal, InScope(journal, Arms(journal), s))
         <= ScopeLimit[s] + Overrun(ScopeRequests(journal, s))

\* The admission of a group is a promise to each of its arms: while responses
\* cost no more than was reserved, a request within its arm's own allowance is
\* never refused because of the parent's or the stage's limit, whatever other
\* workers reserved and settled in between (reserve, "complete group member").
FundedArmsAreServed ==
  \A w \in Workers :
    (/\ pc[w] = "deciding" /\ job[w].op = "reserve"
     /\ job[w].charge.group # None
     /\ ArmAllows(snap[w], job[w].charge)
     /\ Overrun(Requests(journal)) = 0)
    => BudgetAllows(snap[w], job[w].charge)

\* However often a request is asked for, before and after crashes, its key is
\* permitted once ("repeating an admitted physical dispatch ... is never a
\* retry policy"), although appending the same event twice succeeds.
AtMostOnePermit == \A k \in Keys : permits[k] <= 1

\* The budget as its callers see it: a ledger of single-use requests.
Ledger == INSTANCE RequestLedger WITH
  entry <- [k \in Keys |-> IF journal.reserved[k] = None THEN "free"
                           ELSE IF journal.settled[k] = None THEN "reserved"
                           ELSE "settled"]
ImplementsLedger == Ledger!Spec
=============================================================================
