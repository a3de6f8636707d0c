----------------------------- MODULE TriagePlan -----------------------------
(***************************************************************************)
(* A triage work plan (EventImpactTriageWorkRunner, in                     *)
(* event_impact_triage_work_runtime.py): the members of its graph, each a  *)
(* job of TriageJobs, are run in waves.  A caller claims the plan, calls   *)
(* every member of a wave at once, seals the usage of those that ended and *)
(* goes on only when all of them completed.  Whatever ended before is      *)
(* reopened by the next call.                                              *)
(***************************************************************************)
EXTENDS Naturals, Sequences, FiniteSets

CONSTANTS
  Plans,     \* one plan for each batch
  Callers,   \* processes that run plans
  Waves,     \* of each plan: its units, one wave after the other, over all phases
  Endings,   \* how a run may end
  Nobody

Units(p) == UNION {Waves[p][i] : i \in DOMAIN Waves[p]}

ASSUME PlanAssumption ==
  /\ Nobody \notin Callers /\ Nobody \notin Plans /\ "completed" \in Endings
  /\ \A p \in Plans :
       /\ Waves[p] \in Seq(SUBSET Units(p)) /\ Waves[p] # <<>>
       /\ \A i, k \in DOMAIN Waves[p] : i # k => Waves[p][i] \cap Waves[p][k] = {}

Of(p)   == {p} \X Units(p)
Members == UNION {Of(p) : p \in Plans}

VARIABLES
  outcome, second,  \* of each member: its job
  repaired,         \* members whose second run repairs the last answer of the first
  started,          \* members that were ever called
  ledger,           \* usage records: a member, and whether its second run is meant
  owner,            \* of each plan: who claims it
  pc,               \* of each caller: where it is
  plan, wave,       \* of each caller: the plan, if it has one, and its wave
  answers           \* of each caller: what the members of the wave returned, and of
                    \* which run

Job == INSTANCE TriageJobs WITH Jobs <- Members

members == <<outcome, second, repaired, started>>
calls   == <<pc, plan, wave, answers>>

PlanInit ==
  /\ Job!Init
  /\ repaired = {} /\ started = {} /\ ledger = {}
  /\ owner = [p \in Plans |-> Nobody]
  /\ pc = [c \in Callers |-> "idle"]
  /\ plan = [c \in Callers |-> Nobody]
  /\ wave = [c \in Callers |-> 1]
  /\ answers = [c \in Callers |-> <<>>]

Ended(j) == outcome[j] # "open"
Goto(c, to) == pc' = [pc EXCEPT ![c] = to]

Leave(c) == Goto(c, "idle") /\ plan' = [plan EXCEPT ![c] = Nobody]

\* The run ends, or its process does.
Return(c, to) ==
  /\ IF to = "idle" THEN Leave(c) ELSE Goto(c, to) /\ UNCHANGED plan
  /\ wave' = [wave EXCEPT ![c] = 1]
  /\ answers' = [answers EXCEPT ![c] = <<>>]
  /\ owner' = [p \in Plans |-> IF owner[p] = c THEN Nobody ELSE owner[p]]

\* run: another caller of the same plan is turned away.
ClaimPlan(c) ==
  /\ pc[c] = "claiming"
  /\ IF owner[plan[c]] = Nobody
       THEN owner' = [owner EXCEPT ![plan[c]] = c] /\ Goto(c, "running") /\ UNCHANGED plan
       ELSE UNCHANGED owner /\ Leave(c)
  /\ UNCHANGED <<members, ledger, wave, answers>>

Wave(c)  == Waves[plan[c]][wave[c]]
Asked(c) == {<<plan[c], u>> : u \in Wave(c)}
Waiting(c, j) == pc[c] = "running" /\ j \in Asked(c) /\ j[2] \notin DOMAIN answers[c]

Answer(c, j, status) ==
  answers' = [answers EXCEPT ![c] =
                [u \in DOMAIN @ \cup {j[2]} |->
                   IF u = j[2] THEN [status |-> status, second |-> second[j]] ELSE @[u]]]

\* _run_member: the run ends.  A repair is written, not asked for.
MemberEnds(c, j) ==
  /\ Waiting(c, j)
  /\ \E how \in IF j \in repaired THEN {"completed"} ELSE Endings : Job!End(j, how)
  /\ started' = started \cup {j}
  /\ UNCHANGED <<repaired, ledger, owner, calls>>

\* It answers with the end of the run, whenever that was.
MemberAnswers(c, j) ==
  /\ Waiting(c, j) /\ Ended(j)
  /\ Answer(c, j, outcome[j])
  /\ UNCHANGED <<members, ledger, owner, pc, plan, wave>>

\* It stays open, because the provider could not be prepared or the call raises.
MemberStaysOpen(c, j) ==
  /\ Waiting(c, j) /\ ~Ended(j)
  /\ Answer(c, j, "open")
  /\ started' = started \cup {j}
  /\ UNCHANGED <<outcome, second, repaired, ledger, owner, pc, plan, wave>>

Answered(c) == DOMAIN answers[c] = Wave(c)
Spent(c) == {j \in Asked(c) : answers[c][j[2]].status # "open" /\ j \notin repaired}
Unsealed(c) == {<<j, answers[c][j[2]].second>> : j \in Spent(c)} \ ledger

\* _append_usage, before anything is made of the answers.  A repair is charged already.
SealUsage(c) ==
  /\ pc[c] = "running" /\ Answered(c)
  /\ \E x \in Unsealed(c) : ledger' = ledger \cup {x}
  /\ UNCHANGED <<members, owner, calls>>

(* Mutant of EndWave: only failures are looked for in the statuses of a wave. *)
EndWaveOnFailure(c) ==
  /\ pc[c] = "running" /\ Answered(c) /\ Unsealed(c) = {}
  /\ IF \E u \in DOMAIN answers[c] : answers[c][u].status = "failed"
     THEN Return(c, "idle")
     ELSE IF wave[c] < Len(Waves[plan[c]])
     THEN /\ wave' = [wave EXCEPT ![c] = @ + 1]
          /\ answers' = [answers EXCEPT ![c] = <<>>]
          /\ UNCHANGED <<owner, pc, plan>>
     ELSE Goto(c, "judging") /\ UNCHANGED <<owner, plan, wave, answers>>
  /\ UNCHANGED <<members, ledger>>

\* _run_members_bounded: fixed waves; one member that did not complete ends the call.
EndWave(c) ==
  /\ pc[c] = "running" /\ Answered(c) /\ Unsealed(c) = {}
  /\ IF \E u \in DOMAIN answers[c] : answers[c][u].status # "completed"
     THEN Return(c, "idle")
     ELSE IF wave[c] < Len(Waves[plan[c]])
     THEN /\ wave' = [wave EXCEPT ![c] = @ + 1]
          /\ answers' = [answers EXCEPT ![c] = <<>>]
          /\ UNCHANGED <<owner, pc, plan>>
     ELSE Goto(c, "judging") /\ UNCHANGED <<owner, plan, wave, answers>>
  /\ UNCHANGED <<members, ledger>>

\* _expected_usage_run_ids: the run that counts, and the one it replaces.
Expected(p) ==
  {x \in Of(p) \X BOOLEAN : x[2] => second[x[1]] /\ x[1] \notin repaired}
Charged(p) == {x \in ledger : x[1] \in Of(p)}

(* Mutant of AuthorizeSecond: a run is given up that was not charged. *)
AuthorizeUncharged(j) ==
  /\ Job!Substitute(j)
  /\ repaired' = IF outcome[j] = "failed" THEN repaired \cup {j} ELSE repaired
  /\ UNCHANGED <<started, ledger, owner, calls>>

\* authorize_once: the run that is given up was charged.
AuthorizeSecond(j) ==
  /\ <<j, FALSE>> \in ledger
  /\ Job!Substitute(j)
  /\ repaired' = IF outcome[j] = "failed" THEN repaired \cup {j} ELSE repaired
  /\ UNCHANGED <<started, ledger, owner, calls>>

\* assert_authoritative_completed_work_run; the claim is released in any case.
JudgePlan(c, to) ==
  /\ pc[c] = "judging"
  /\ Return(c, IF Charged(plan[c]) = Expected(plan[c]) THEN to ELSE "idle")
  /\ UNCHANGED <<members, ledger>>

PlanStep(c) ==
  \/ ClaimPlan(c) \/ SealUsage(c) \/ EndWave(c)
  \/ \E j \in Members : MemberEnds(c, j) \/ MemberAnswers(c, j) \/ MemberStaysOpen(c, j)

\* A member of a wave runs only when all members of the waves before it completed, over
\* any number of calls and crashes (_run_claimed_plan, _run_claimed_plan_bounded).
PhasesInOrder ==
  \A p \in Plans : \A i \in DOMAIN Waves[p] : \A u \in Waves[p][i] :
    <<p, u>> \in started =>
      \A k \in 1..i - 1 : \A v \in Waves[p][k] : outcome[<<p, v>>] = "completed"

\* When every member has completed, the usage ledger holds exactly what was spent on
\* them, the runs that were given up included, or the plan could never be accepted
\* (_append_usage, _expected_usage_run_ids, authorize_once).
CompletedPlansBalance ==
  \A c \in Callers : pc[c] = "judging" => Charged(plan[c]) = Expected(plan[c])
=============================================================================
