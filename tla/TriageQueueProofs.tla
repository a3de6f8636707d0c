------------------------- MODULE TriageQueueProofs -------------------------
(***************************************************************************)
(* Proofs about TriageQueue and TriagePlan, for every number of plans,     *)
(* callers, versions, second runs and crashes.  The inductive invariant    *)
(* IInv is the conjunction of the types, of what is known of the head and  *)
(* of the outcomes, of the versions each batch left behind, and of what    *)
(* callers were told of the runs.                                          *)
(***************************************************************************)
EXTENDS TriageQueue, FiniteSetTheorems, WellFoundedInduction, TLAPS

(***************************************************************************)
(* Types                                                                   *)
(***************************************************************************)
WithPlan == {"checking", "claiming", "running", "judging", "reporting", "deciding",
             "failing", "completing"}
WithoutPlan == {"idle", "opening", "planning", "preparing", "installing"}

MembersTypeOK ==
  /\ outcome \in [Members -> Endings \cup {"open"}]
  /\ second \in [Members -> BOOLEAN]
  /\ repaired \in SUBSET Members /\ started \in SUBSET Members
  /\ ledger \in SUBSET (Members \X BOOLEAN)

CallsTypeOK ==
  /\ owner \in [Plans -> Callers \cup {Nobody}]
  /\ pc \in [Callers -> WithPlan \cup WithoutPlan]
  /\ plan \in [Callers -> Plans \cup {Nobody}]
  /\ wave \in [Callers -> Nat \ {0}]
  /\ answers = [c \in Callers |-> answers[c]]

Gaps == [late : SUBSET Versions, asleep : SUBSET Versions]

StoresTypeOK ==
  /\ batch \in [Plans -> SUBSET Versions]
  /\ head \in Plans \cup {Nobody} /\ released \in SUBSET Plans
  /\ decidedAt \in [Plans -> Moments \cup {Never}]
  /\ terminalAt \in [Plans -> Moments \cup {Never}]
  /\ finished \in [Plans -> Moments]
  /\ clock \in Moments
  /\ received \in [Versions -> Moments \cup {Never}] /\ journal \in SUBSET Versions
  /\ at \in [Callers -> Moments] /\ wanted \in [Callers -> SUBSET Versions]
  /\ passed \in [Plans -> Gaps] /\ missing \in [Callers -> Gaps]

(***************************************************************************)
(* The head and the outcomes.  A batch that was installed is the head or   *)
(* was released, and what was released, or is about to be, has an outcome. *)
(***************************************************************************)
OutcomesInv ==
  /\ head # Nobody => head \in Installed
  /\ \A c \in Callers : pc[c] \in WithPlan => plan[c] \in Installed
  /\ Decided \cup Terminal \subseteq Installed
  /\ \A c \in Callers : pc[c] = "completing" => plan[c] \in Decided \cup Terminal
  /\ \A c \in Callers : pc[c] = "installing" => wanted[c] # {}
  /\ AuthorityBeforeRelease

(***************************************************************************)
(* The order of receipts.  Every batch, installed or only wanted, takes    *)
(* with it what was received before, unless that is handled, was not yet   *)
(* in the Journal, or belonged to a lane that was not operational.         *)
(***************************************************************************)
InReceiptOrder ==
  \A v, w \in Versions :
    received[v] # Never /\ w < v => received[w] \in Moments /\ received[w] =< received[v]
ReceivedByNow == \A v \in Versions : received[v] # Never => received[v] =< clock

Closed(vs, gaps) ==
  \A v \in vs : \A w \in Versions :
    w < v => w \in vs \cup Handled \cup gaps.late \cup gaps.asleep

OrderInv ==
  /\ InReceiptOrder /\ ReceivedByNow
  /\ \A p \in Plans : Closed(batch[p], passed[p])
  /\ \A c \in Callers : Closed(wanted[c], missing[c])
  /\ HandledInOrder

(***************************************************************************)
(* The runs of the members.  A member that completed stays completed, and  *)
(* what a caller was told of a completed run remains true.                 *)
(***************************************************************************)
Completed(j) == outcome[j] = "completed"
Sealed(j)    == Completed(j) /\ (j \in repaired \/ <<j, second[j]>> \in ledger)

FreshInv ==
  \A c \in Callers : pc[c] \notin {"running", "judging"} => wave[c] = 1 /\ answers[c] = <<>>

WavesInv ==
  \A c \in Callers : pc[c] \in {"running", "judging"} =>
    /\ wave[c] \in DOMAIN Waves[plan[c]]
    /\ \A k \in 1..wave[c] - 1 : \A u \in Waves[plan[c]][k] : Sealed(<<plan[c], u>>)

TrueOf(j, answer) ==
  /\ answer.second \in BOOLEAN
  /\ answer.second => second[j]
  /\ answer.status = "completed" => Completed(j) /\ answer.second = second[j]

AnswersInv ==
  \A c \in Callers : pc[c] \in {"running", "judging"} =>
    \A u \in DOMAIN answers[c] : u \in Wave(c) /\ TrueOf(<<plan[c], u>>, answers[c][u])

JudgedInv ==
  \A c \in Callers : pc[c] = "judging" => \A j \in Of(plan[c]) : Sealed(j)

LedgerInv ==
  /\ \A j \in Members : <<j, TRUE>> \in ledger => second[j] /\ j \notin repaired
  /\ \A j \in Members : second[j] => <<j, FALSE>> \in ledger
  /\ \A j \in repaired : second[j]

\* The three ways in which a wave ends (_run_members_bounded).
LEMMA EndWaveCases ==
  ASSUME NEW c \in Callers, EndWave(c)
  PROVE  \/ Return(c, "idle")
         \/ /\ wave' = [wave EXCEPT ![c] = @ + 1]
            /\ answers' = [answers EXCEPT ![c] = <<>>]
            /\ UNCHANGED <<owner, pc, plan>>
         \/ Goto(c, "judging") /\ UNCHANGED <<owner, plan, wave, answers>>
  BY DEF EndWave

\* The end of a run keeps the types of the callers.
LEMMA ReturnType ==
  ASSUME CallsTypeOK, NEW c \in Callers, NEW to \in WithPlan \cup WithoutPlan, Return(c, to)
  PROVE  CallsTypeOK'
<1>1. /\ wave' = [wave EXCEPT ![c] = 1] /\ answers' = [answers EXCEPT ![c] = <<>>]
      /\ owner' = [p \in Plans |-> IF owner[p] = c THEN Nobody ELSE owner[p]]
  BY DEF Return
<1>2. pc' \in [Callers -> WithPlan \cup WithoutPlan] /\ plan' \in [Callers -> Plans \cup {Nobody}]
  <2>1. CASE to = "idle"
    BY <2>1 DEF Return, Leave, Goto, CallsTypeOK
  <2>2. CASE to # "idle"
    BY <2>2 DEF Return, Goto, CallsTypeOK
  <2> QED BY <2>1, <2>2
<1>3. answers' = [d \in Callers |-> answers'[d]]
  BY <1>1 DEF CallsTypeOK
<1>4. wave' \in [Callers -> Nat \ {0}] /\ owner' \in [Plans -> Callers \cup {Nobody}]
  BY <1>1 DEF CallsTypeOK
<1> QED BY <1>2, <1>3, <1>4 DEF CallsTypeOK

\* The end of a wave keeps the types of the callers.
LEMMA EndWaveType ==
  ASSUME CallsTypeOK, NEW c \in Callers, EndWave(c)
  PROVE  CallsTypeOK'
<1>1. CASE Return(c, "idle")
  BY <1>1, ReturnType DEF WithPlan, WithoutPlan
<1>2. CASE /\ wave' = [wave EXCEPT ![c] = @ + 1]
           /\ answers' = [answers EXCEPT ![c] = <<>>]
           /\ UNCHANGED <<owner, pc, plan>>
  <2>1. wave[c] \in Nat \ {0}
    BY DEF CallsTypeOK
  <2>2. wave[c] + 1 \in Nat \ {0}
    BY <2>1
  <2>3. wave' \in [Callers -> Nat \ {0}]
    BY <1>2, <2>2 DEF CallsTypeOK
  <2>4. answers' = [d \in Callers |-> answers'[d]]
    BY <1>2 DEF CallsTypeOK
  <2> QED BY <1>2, <2>3, <2>4 DEF CallsTypeOK
<1>3. CASE Goto(c, "judging") /\ UNCHANGED <<owner, plan, wave, answers>>
  BY <1>3 DEF Goto, CallsTypeOK, WithPlan, WithoutPlan
<1> QED BY <1>1, <1>2, <1>3, EndWaveCases

\* A caller that forgets what it read has read nothing.
LEMMA ForgetType ==
  ASSUME StoresTypeOK, NEW c \in Callers, Forget(c)
  PROVE  /\ at' \in [Callers -> Moments] /\ wanted' \in [Callers -> SUBSET Versions]
         /\ missing' \in [Callers -> Gaps]
<1>1. 0 \in Moments /\ NoGaps \in Gaps
  BY QueueAssumption DEF Moments, NoGaps, Gaps
<1> QED BY <1>1 DEF Forget, StoresTypeOK

\* A step of a run keeps the types of the two databases.
LEMMA RunKeepsStores ==
  ASSUME StoresTypeOK, NEW c \in Callers, RunPlan(c)
  PROVE  StoresTypeOK'
<1>1. /\ finished' = [p \in Plans |-> IF \E j \in Of(p) : outcome'[j] # outcome[j]
                                      THEN clock ELSE finished[p]]
      /\ UNCHANGED <<runRoot, stateRoot, world>>
  BY DEF RunPlan
<1>2. /\ at' \in [Callers -> Moments] /\ wanted' \in [Callers -> SUBSET Versions]
      /\ missing' \in [Callers -> Gaps]
  <2>1. CASE Forget(c)
    BY <2>1, ForgetType
  <2>2. CASE UNCHANGED own
    BY <2>2 DEF own, StoresTypeOK
  <2> QED BY <2>1, <2>2 DEF RunPlan
<1>3. finished' \in [Plans -> Moments]
  BY <1>1 DEF StoresTypeOK
<1> QED BY <1>1, <1>2, <1>3 DEF StoresTypeOK, runRoot, stateRoot, world

\* What a caller seals is the usage of a run that was not given up by repair.
LEMMA SealedUsage ==
  ASSUME CallsTypeOK, OutcomesInv, WavesInv, AnswersInv, NEW c \in Callers, SealUsage(c)
  PROVE  \E j \in Members : \E b \in BOOLEAN :
           /\ ledger' = ledger \cup {<<j, b>>}
           /\ b => second[j]
           /\ j \notin repaired
<1>1. PICK x \in Unsealed(c) : ledger' = ledger \cup {x}
  BY DEF SealUsage
<1>2. plan[c] \in Plans
  BY DEF SealUsage, OutcomesInv, WithPlan, Installed
<1>3. PICK j \in Spent(c) : x = <<j, answers[c][j[2]].second>>
  BY <1>1 DEF Unsealed
<1>4. PICK u \in Wave(c) : j = <<plan[c], u>>
  BY <1>3 DEF Spent, Asked
<1>5. j \in Members
  BY <1>2, <1>4 DEF SealUsage, WavesInv, Members, Of, Units, Wave
<1>6. u \in DOMAIN answers[c] /\ pc[c] = "running"
  BY <1>4 DEF SealUsage, Answered
<1>7. answers[c][u].second \in BOOLEAN /\ (answers[c][u].second => second[j])
  BY <1>4, <1>6 DEF AnswersInv, TrueOf
<1>8. j \notin repaired
  BY <1>3 DEF Spent
<1> DEFINE b == answers[c][u].second
<1>9. ledger' = ledger \cup {<<j, b>>}
  BY <1>1, <1>3, <1>4
<1> HIDE DEF b
<1>10. b \in BOOLEAN /\ (b => second[j])
  BY <1>7 DEF b
<1> QED BY <1>5, <1>8, <1>9, <1>10

\* Every step keeps the types of the runs and of the usage ledger.
LEMMA MembersTypeStep ==
  ASSUME MembersTypeOK, CallsTypeOK, StoresTypeOK, AnswersInv, WavesInv, OutcomesInv, [Next]_vars
  PROVE  MembersTypeOK'
<1> USE QueueAssumption, PlanAssumption DEF MembersTypeOK, runRoot, stateRoot, world, work,
     own, members, calls
<1>1. ASSUME Tick
      PROVE  MembersTypeOK'
  BY <1>1 DEF Tick
<1>2. ASSUME NEW v \in Versions, Retrieve(v) \/ Record(v)
      PROVE  MembersTypeOK'
  BY <1>2 DEF Retrieve, Record
<1>3. ASSUME NEW c \in Callers, CallTriage(c)
      PROVE  MembersTypeOK'
  BY <1>3 DEF CallTriage
<1>4. ASSUME NEW c \in Callers, Crash(c)
      PROVE  MembersTypeOK'
  BY <1>4 DEF Crash
<1>5. ASSUME NEW c \in Callers, ReopenHead(c)
      PROVE  MembersTypeOK'
  BY <1>5 DEF ReopenHead
<1>6. ASSUME NEW c \in Callers, FindNoHead(c)
      PROVE  MembersTypeOK'
  BY <1>6 DEF FindNoHead
<1>7. ASSUME NEW c \in Callers, ReadRevision(c)
      PROVE  MembersTypeOK'
  BY <1>7 DEF ReadRevision
<1>8. ASSUME NEW c \in Callers, FreezeNext(c)
      PROVE  MembersTypeOK'
  BY <1>8 DEF FreezeNext
<1>9. ASSUME NEW c \in Callers, FreezeNothing(c)
      PROVE  MembersTypeOK'
  BY <1>9 DEF FreezeNothing
<1>10. ASSUME NEW c \in Callers, ReopenInstalled(c)
      PROVE  MembersTypeOK'
  BY <1>10 DEF ReopenInstalled
<1>11. ASSUME NEW c \in Callers, RefuseInstall(c)
      PROVE  MembersTypeOK'
  BY <1>11 DEF RefuseInstall
<1>12. ASSUME NEW c \in Callers, Install(c)
      PROVE  MembersTypeOK'
  BY <1>12 DEF Install
<1>13. ASSUME NEW c \in Callers, CheckUnbound(c)
      PROVE  MembersTypeOK'
  BY <1>13 DEF CheckUnbound
<1>14. ASSUME NEW c \in Callers, RegisterComparison(c)
      PROVE  MembersTypeOK'
  BY <1>14 DEF RegisterComparison
<1>15. ASSUME NEW c \in Callers, RunPlan(c), ClaimPlan(c)
      PROVE  MembersTypeOK'
  BY <1>15 DEF RunPlan, ClaimPlan
<1>16. ASSUME NEW c \in Callers, RunPlan(c), SealUsage(c)
      PROVE  MembersTypeOK'
  <2>1. PICK j \in Members, b \in BOOLEAN : ledger' = ledger \cup {<<j, b>>}
    BY <1>16, SealedUsage
  <2> QED BY <1>16, <2>1 DEF SealUsage
<1>17. ASSUME NEW c \in Callers, RunPlan(c), EndWave(c)
      PROVE  MembersTypeOK'
  BY <1>17 DEF RunPlan, EndWave
<1>18. ASSUME NEW c \in Callers, NEW j \in Members, RunPlan(c), MemberEnds(c, j)
      PROVE  MembersTypeOK'
  BY <1>18 DEF RunPlan, MemberEnds, Job!End
<1>19. ASSUME NEW c \in Callers, NEW j \in Members, RunPlan(c), MemberAnswers(c, j)
      PROVE  MembersTypeOK'
  BY <1>19 DEF RunPlan, MemberAnswers
<1>20. ASSUME NEW c \in Callers, NEW j \in Members, RunPlan(c), MemberStaysOpen(c, j)
      PROVE  MembersTypeOK'
  BY <1>20 DEF RunPlan, MemberStaysOpen
<1>21. ASSUME NEW c \in Callers, FinishRun(c)
      PROVE  MembersTypeOK'
  BY <1>21 DEF FinishRun, JudgePlan
<1>22. ASSUME NEW c \in Callers, AbandonComparison(c)
      PROVE  MembersTypeOK'
  BY <1>22 DEF AbandonComparison
<1>23. ASSUME NEW c \in Callers, RecordReport(c)
      PROVE  MembersTypeOK'
  BY <1>23 DEF RecordReport
<1>24. ASSUME NEW c \in Callers, AdmitDecision(c)
      PROVE  MembersTypeOK'
  BY <1>24 DEF AdmitDecision
<1>25. ASSUME NEW c \in Callers, Terminalize(c)
      PROVE  MembersTypeOK'
  BY <1>25 DEF Terminalize
<1>26. ASSUME NEW c \in Callers, RefuseOutcome(c)
      PROVE  MembersTypeOK'
  BY <1>26 DEF RefuseOutcome
<1>27. ASSUME NEW c \in Callers, ReleaseHead(c)
      PROVE  MembersTypeOK'
  BY <1>27 DEF ReleaseHead
<1>28. ASSUME NEW j \in Members, Authorize(j)
      PROVE  MembersTypeOK'
  BY <1>28 DEF Authorize, AuthorizeSecond, Job!Substitute
<1>29. CASE UNCHANGED vars
  BY <1>29 DEF vars
<1> QED
  BY <1>1, <1>2, <1>3, <1>4, <1>5, <1>6, <1>7, <1>8, <1>9, <1>10, <1>11, <1>12, <1>13,
       <1>14, <1>15, <1>16, <1>17, <1>18, <1>19, <1>20, <1>21, <1>22, <1>23, <1>24, <1>25,
       <1>26, <1>27, <1>28, <1>29
  DEF Next, Step, RunPlan, PlanStep
\* Every step keeps the types of the callers.
LEMMA CallsTypeStep ==
  ASSUME CallsTypeOK, StoresTypeOK, [Next]_vars
  PROVE  CallsTypeOK'
<1> USE QueueAssumption, PlanAssumption DEF CallsTypeOK, StoresTypeOK, Goto, Leave, Exit,
     Forget, WithPlan, WithoutPlan,
      runRoot, stateRoot, world, work, own, members, calls
<1>1. ASSUME Tick
      PROVE  CallsTypeOK'
  BY <1>1 DEF Tick
<1>2. ASSUME NEW v \in Versions, Retrieve(v) \/ Record(v)
      PROVE  CallsTypeOK'
  BY <1>2 DEF Retrieve, Record
<1>3. ASSUME NEW c \in Callers, CallTriage(c)
      PROVE  CallsTypeOK'
  BY <1>3 DEF CallTriage
<1>4. ASSUME NEW c \in Callers, Crash(c)
      PROVE  CallsTypeOK'
  <2>1. Return(c, "idle")
    BY <1>4 DEF Crash
  <2> QED BY <2>1, ReturnType
<1>5. ASSUME NEW c \in Callers, ReopenHead(c)
      PROVE  CallsTypeOK'
  BY <1>5 DEF ReopenHead, WorkOn
<1>6. ASSUME NEW c \in Callers, FindNoHead(c)
      PROVE  CallsTypeOK'
  BY <1>6 DEF FindNoHead
<1>7. ASSUME NEW c \in Callers, ReadRevision(c)
      PROVE  CallsTypeOK'
  BY <1>7 DEF ReadRevision
<1>8. ASSUME NEW c \in Callers, FreezeNext(c)
      PROVE  CallsTypeOK'
  BY <1>8 DEF FreezeNext
<1>9. ASSUME NEW c \in Callers, FreezeNothing(c)
      PROVE  CallsTypeOK'
  BY <1>9 DEF FreezeNothing
<1>10. ASSUME NEW c \in Callers, ReopenInstalled(c)
      PROVE  CallsTypeOK'
  BY <1>10 DEF ReopenInstalled, WorkOn
<1>11. ASSUME NEW c \in Callers, RefuseInstall(c)
      PROVE  CallsTypeOK'
  BY <1>11 DEF RefuseInstall
<1>12. ASSUME NEW c \in Callers, Install(c)
      PROVE  CallsTypeOK'
  BY <1>12 DEF Install, WorkOn
<1>13. ASSUME NEW c \in Callers, CheckUnbound(c)
      PROVE  CallsTypeOK'
  BY <1>13 DEF CheckUnbound
<1>14. ASSUME NEW c \in Callers, RegisterComparison(c)
      PROVE  CallsTypeOK'
  BY <1>14 DEF RegisterComparison
<1>15. ASSUME NEW c \in Callers, RunPlan(c), ClaimPlan(c)
      PROVE  CallsTypeOK'
  <2>1. CASE owner[plan[c]] = Nobody
    <3>1. /\ owner' = [owner EXCEPT ![plan[c]] = c] /\ pc' = [pc EXCEPT ![c] = "running"]
          /\ UNCHANGED <<plan, wave, answers>>
      BY <1>15, <2>1 DEF ClaimPlan
    <3> QED BY <3>1
  <2>2. CASE owner[plan[c]] # Nobody
    BY <1>15, <2>2 DEF ClaimPlan
  <2> QED BY <2>1, <2>2
<1>16. ASSUME NEW c \in Callers, RunPlan(c), SealUsage(c)
      PROVE  CallsTypeOK'
  BY <1>16 DEF RunPlan, SealUsage
<1>17. ASSUME NEW c \in Callers, RunPlan(c), EndWave(c)
      PROVE  CallsTypeOK'
  BY <1>17, EndWaveType
<1>18. ASSUME NEW c \in Callers, NEW j \in Members, RunPlan(c), MemberEnds(c, j)
      PROVE  CallsTypeOK'
  BY <1>18 DEF RunPlan, MemberEnds
<1>19. ASSUME NEW c \in Callers, NEW j \in Members, RunPlan(c), MemberAnswers(c, j)
      PROVE  CallsTypeOK'
  BY <1>19 DEF RunPlan, MemberAnswers, Answer
<1>20. ASSUME NEW c \in Callers, NEW j \in Members, RunPlan(c), MemberStaysOpen(c, j)
      PROVE  CallsTypeOK'
  BY <1>20 DEF RunPlan, MemberStaysOpen, Answer
<1>21. ASSUME NEW c \in Callers, FinishRun(c)
      PROVE  CallsTypeOK'
  <2>1. \E to \in WithPlan \cup WithoutPlan : Return(c, to)
    BY <1>21 DEF FinishRun, JudgePlan
  <2> QED BY <2>1, ReturnType
<1>22. ASSUME NEW c \in Callers, AbandonComparison(c)
      PROVE  CallsTypeOK'
  BY <1>22 DEF AbandonComparison
<1>23. ASSUME NEW c \in Callers, RecordReport(c)
      PROVE  CallsTypeOK'
  BY <1>23 DEF RecordReport
<1>24. ASSUME NEW c \in Callers, AdmitDecision(c)
      PROVE  CallsTypeOK'
  BY <1>24 DEF AdmitDecision
<1>25. ASSUME NEW c \in Callers, Terminalize(c)
      PROVE  CallsTypeOK'
  BY <1>25 DEF Terminalize
<1>26. ASSUME NEW c \in Callers, RefuseOutcome(c)
      PROVE  CallsTypeOK'
  BY <1>26 DEF RefuseOutcome
<1>27. ASSUME NEW c \in Callers, ReleaseHead(c)
      PROVE  CallsTypeOK'
  BY <1>27 DEF ReleaseHead
<1>28. ASSUME NEW j \in Members, Authorize(j)
      PROVE  CallsTypeOK'
  BY <1>28 DEF Authorize, AuthorizeSecond
<1>29. CASE UNCHANGED vars
  BY <1>29 DEF vars
<1> QED
  BY <1>1, <1>2, <1>3, <1>4, <1>5, <1>6, <1>7, <1>8, <1>9, <1>10, <1>11, <1>12, <1>13,
       <1>14, <1>15, <1>16, <1>17, <1>18, <1>19, <1>20, <1>21, <1>22, <1>23, <1>24, <1>25,
       <1>26, <1>27, <1>28, <1>29
  DEF Next, Step, RunPlan, PlanStep
\* Every step keeps the types of the two databases.
LEMMA StoresTypeStep ==
  ASSUME CallsTypeOK, StoresTypeOK, OutcomesInv, [Next]_vars
  PROVE  StoresTypeOK'
<1> USE QueueAssumption, PlanAssumption DEF StoresTypeOK, CallsTypeOK, Moments, Never, Goto,
     Leave, Exit, WithPlan, WithoutPlan,
      runRoot, stateRoot, world, work, own, members, calls
<1>0. ASSUME NEW c \in Callers, Forget(c)
      PROVE  /\ at' \in [Callers -> Moments] /\ wanted' \in [Callers -> SUBSET Versions]
             /\ missing' \in [Callers -> Gaps]
  BY <1>0, ForgetType
<1>1. ASSUME Tick
      PROVE  StoresTypeOK'
  BY <1>1 DEF Tick
<1>2. ASSUME NEW v \in Versions, Retrieve(v) \/ Record(v)
      PROVE  StoresTypeOK'
  <2>1. /\ UNCHANGED <<clock, runRoot, stateRoot, work, own>>
        /\ \/ received' = [received EXCEPT ![v] = clock] /\ UNCHANGED journal
           \/ journal' = journal \cup {v} /\ UNCHANGED received
    BY <1>2 DEF Retrieve, Record
  <2> QED BY <2>1
<1>3. ASSUME NEW c \in Callers, CallTriage(c)
      PROVE  StoresTypeOK'
  BY <1>3 DEF CallTriage
<1>4. ASSUME NEW c \in Callers, Crash(c)
      PROVE  StoresTypeOK'
  BY <1>0, <1>4 DEF Crash
<1>5. ASSUME NEW c \in Callers, ReopenHead(c)
      PROVE  StoresTypeOK'
  BY <1>0, <1>5 DEF ReopenHead, WorkOn
<1>6. ASSUME NEW c \in Callers, FindNoHead(c)
      PROVE  StoresTypeOK'
  BY <1>6 DEF FindNoHead
<1>7. ASSUME NEW c \in Callers, ReadRevision(c)
      PROVE  StoresTypeOK'
  BY <1>7 DEF ReadRevision
<1>8. ASSUME NEW c \in Callers, FreezeNext(c)
      PROVE  StoresTypeOK'
  <2>1. PICK lanes \in SUBSET Lanes :
          LET vs == Earliest(Unhandled(at[c], lanes))
          IN /\ wanted' = [wanted EXCEPT ![c] = vs]
             /\ missing' = [missing EXCEPT ![c] = GapsOf(vs, at[c], lanes)]
    BY <1>8 DEF FreezeNext
  <2>2. Earliest(Unhandled(at[c], lanes)) \in SUBSET Versions
    BY DEF Earliest, Unhandled
  <2>3. GapsOf(Earliest(Unhandled(at[c], lanes)), at[c], lanes) \in Gaps
    BY DEF GapsOf, Gaps
  <2>4. wanted' \in [Callers -> SUBSET Versions] /\ missing' \in [Callers -> Gaps]
    BY <2>1, <2>2, <2>3
  <2>5. at' \in [Callers -> Moments] /\ UNCHANGED <<runRoot, stateRoot, world, work>>
    BY <1>8 DEF FreezeNext
  <2> QED BY <2>4, <2>5
<1>9. ASSUME NEW c \in Callers, FreezeNothing(c)
      PROVE  StoresTypeOK'
  BY <1>0, <1>9 DEF FreezeNothing
<1>10. ASSUME NEW c \in Callers, ReopenInstalled(c)
      PROVE  StoresTypeOK'
  BY <1>0, <1>10 DEF ReopenInstalled, WorkOn
<1>11. ASSUME NEW c \in Callers, RefuseInstall(c)
      PROVE  StoresTypeOK'
  BY <1>0, <1>11 DEF RefuseInstall
<1>12. ASSUME NEW c \in Callers, Install(c)
      PROVE  StoresTypeOK'
  <2>1. PICK p \in Plans \ Installed :
          /\ batch' = [batch EXCEPT ![p] = wanted[c]]
          /\ passed' = [passed EXCEPT ![p] = missing[c]]
          /\ head' = p /\ WorkOn(c, p)
    BY <1>12 DEF Install
  <2>2. UNCHANGED <<released, stateRoot, world, work>>
    BY <1>12 DEF Install
  <2> QED BY <1>0, <2>1, <2>2 DEF WorkOn
<1>13. ASSUME NEW c \in Callers, CheckUnbound(c)
      PROVE  StoresTypeOK'
  <2>1. CASE plan[c] \in bound
    <3>1. Exit(c) /\ UNCHANGED <<runRoot, stateRoot, world, work>>
      BY <1>13, <2>1, Zenon DEF CheckUnbound
    <3>2. Forget(c)
      BY <3>1 DEF Exit
    <3> QED BY <1>0, <3>1, <3>2
  <2>2. CASE plan[c] \notin bound
    BY <1>13, <2>2 DEF CheckUnbound
  <2> QED BY <2>1, <2>2
<1>14. ASSUME NEW c \in Callers, RegisterComparison(c)
      PROVE  StoresTypeOK'
  BY <1>14 DEF RegisterComparison
<1>15. ASSUME NEW c \in Callers, RunPlan(c), ClaimPlan(c)
      PROVE  StoresTypeOK'
  BY <1>15, RunKeepsStores
<1>16. ASSUME NEW c \in Callers, RunPlan(c), SealUsage(c)
      PROVE  StoresTypeOK'
  BY <1>16, RunKeepsStores
<1>17. ASSUME NEW c \in Callers, RunPlan(c), EndWave(c)
      PROVE  StoresTypeOK'
  BY <1>17, RunKeepsStores
<1>18. ASSUME NEW c \in Callers, NEW j \in Members, RunPlan(c), MemberEnds(c, j)
      PROVE  StoresTypeOK'
  BY <1>18, RunKeepsStores
<1>19. ASSUME NEW c \in Callers, NEW j \in Members, RunPlan(c), MemberAnswers(c, j)
      PROVE  StoresTypeOK'
  BY <1>19, RunKeepsStores
<1>20. ASSUME NEW c \in Callers, NEW j \in Members, RunPlan(c), MemberStaysOpen(c, j)
      PROVE  StoresTypeOK'
  BY <1>20, RunKeepsStores
<1>21. ASSUME NEW c \in Callers, FinishRun(c)
      PROVE  StoresTypeOK'
  BY <1>0, <1>21 DEF FinishRun, JudgePlan
<1>22. ASSUME NEW c \in Callers, AbandonComparison(c)
      PROVE  StoresTypeOK'
  BY <1>0, <1>22 DEF AbandonComparison
<1>23. ASSUME NEW c \in Callers, RecordReport(c)
      PROVE  StoresTypeOK'
  BY <1>23 DEF RecordReport
<1>24. ASSUME NEW c \in Callers, AdmitDecision(c)
      PROVE  StoresTypeOK'
  <2>1. /\ UNCHANGED <<runRoot, terminalAt, world, work, own>>
        /\ \/ UNCHANGED decidedAt
           \/ plan[c] \in Plans /\ decidedAt' = [decidedAt EXCEPT ![plan[c]] = finished[plan[c]]]
    BY <1>24 DEF AdmitDecision, OutcomesInv, Installed
  <2>2. decidedAt' \in [Plans -> Moments \cup {Never}]
    BY <2>1
  <2> QED BY <2>1, <2>2
<1>25. ASSUME NEW c \in Callers, Terminalize(c)
      PROVE  StoresTypeOK'
  <2>1. /\ UNCHANGED <<runRoot, decidedAt, world, work, own>>
        /\ \/ UNCHANGED terminalAt
           \/ terminalAt' = [terminalAt EXCEPT ![plan[c]] = clock]
    BY <1>25 DEF Terminalize
  <2>2. terminalAt' \in [Plans -> Moments \cup {Never}]
    BY <2>1
  <2> QED BY <2>1, <2>2
<1>26. ASSUME NEW c \in Callers, RefuseOutcome(c)
      PROVE  StoresTypeOK'
  BY <1>0, <1>26 DEF RefuseOutcome
<1>27. ASSUME NEW c \in Callers, ReleaseHead(c)
      PROVE  StoresTypeOK'
  <2>1. head = plan[c] => head \in Plans
    BY <1>27 DEF ReleaseHead, OutcomesInv, Installed
  <2> QED BY <1>0, <1>27, <2>1 DEF ReleaseHead
<1>28. ASSUME NEW j \in Members, Authorize(j)
      PROVE  StoresTypeOK'
  BY <1>28 DEF Authorize, AuthorizeSecond
<1>29. CASE UNCHANGED vars
  BY <1>29 DEF vars
<1> QED
  BY <1>1, <1>2, <1>3, <1>4, <1>5, <1>6, <1>7, <1>8, <1>9, <1>10, <1>11, <1>12, <1>13,
       <1>14, <1>15, <1>16, <1>17, <1>18, <1>19, <1>20, <1>21, <1>22, <1>23, <1>24, <1>25,
       <1>26, <1>27, <1>28, <1>29
  DEF Next, Step, RunPlan, PlanStep
\* A nonempty set of naturals has a least member.
LEMMA Least ==
  ASSUME NEW S \in SUBSET Nat, S # {}
  PROVE  \E v \in S : \A w \in S : ~(w < v)
<1> DEFINE R == {p \in Nat \X Nat : p[1] < p[2]}
<1>1. IsWellFoundedOn(R, Nat)
  BY NatLessThanWellFounded DEF OpToRel
<1> HIDE DEF R
<1>2. PICK x \in S : \A y \in S : ~(<<y, x>> \in R)
  BY <1>1, WFMin
<1>3. \A y \in S : ~(y < x)
  BY <1>2 DEF R
<1> QED BY <1>3

\* A batch is the nonempty earliest part of what it is chosen from
\* (EventImpactTriageBatchSelection.build).
LEMMA EarliestIsAPrefix ==
  ASSUME NEW vs \in SUBSET Versions
  PROVE  /\ vs # {} => Earliest(vs) # {}
         /\ \A v \in Earliest(vs) : \A w \in vs : w < v => w \in Earliest(vs)
<1>1. ASSUME vs # {}
      PROVE  Earliest(vs) # {}
  <2>1. PICK v \in vs : \A w \in vs : ~(w < v)
    BY <1>1, Least, QueueAssumption
  <2>2. {w \in vs : w < v} = {}
    BY <2>1
  <2>3. Cardinality({w \in vs : w < v}) < BatchSize
    BY <2>2, FS_EmptySet, QueueAssumption
  <2> QED BY <2>3 DEF Earliest
<1>2. ASSUME NEW v \in Earliest(vs), NEW w \in vs, w < v
      PROVE  w \in Earliest(vs)
  <2> DEFINE small == {u \in vs : u < w}
             large == {u \in vs : u < v}
  <2>1. IsFiniteSet(vs) /\ IsFiniteSet(large)
    BY FS_Subset, QueueAssumption
  <2>2. small \in SUBSET large
    <3>1. w \in Nat /\ v \in Nat /\ \A u \in vs : u \in Nat
      BY QueueAssumption DEF Earliest
    <3>2. \A u \in vs : u < w => u < v
      BY <1>2, <3>1
    <3> QED BY <3>2
  <2>3. /\ Cardinality(small) \in Nat /\ Cardinality(large) \in Nat
        /\ Cardinality(small) =< Cardinality(large)
    BY <2>1, <2>2, FS_Subset, FS_CardinalityType
  <2>4. Cardinality(large) < BatchSize
    BY DEF Earliest
  <2> QED BY <2>3, <2>4, QueueAssumption DEF Earliest
<1> QED BY <1>1, <1>2

(***************************************************************************)
(* What a step does to a caller, and to the two databases                  *)
(***************************************************************************)
Stays(d) ==
  pc'[d] = pc[d] /\ plan'[d] = plan[d] /\ wave'[d] = wave[d] /\ answers'[d] = answers[d]
Outside(d) == pc'[d] \in WithoutPlan /\ wave'[d] = 1 /\ answers'[d] = <<>>
TakesHead(d) ==
  /\ pc'[d] = "checking" /\ plan'[d] = head' /\ head' # Nobody
  /\ wave'[d] = 1 /\ answers'[d] = <<>>
Proceeds(d) ==
  /\ pc[d] \in WithPlan /\ pc'[d] \in WithPlan \ {"judging"} /\ plan'[d] = plan[d]
  /\ wave'[d] = 1 /\ answers'[d] = <<>>
  /\ pc'[d] = "completing" => AdmitDecision(d) \/ Terminalize(d)
IsAnswered(d) == \E j \in Members : MemberAnswers(d, j) \/ MemberStaysOpen(d, j)
GoesOn(d) == EndWave(d) /\ ~Return(d, "idle")

Moved(d) ==
  Stays(d) \/ Outside(d) \/ TakesHead(d) \/ Proceeds(d) \/ IsAnswered(d) \/ GoesOn(d)

\* A step moves a caller in one of six ways.
LEMMA CallSteps ==
  ASSUME NEW d \in Callers, CallsTypeOK, StoresTypeOK, FreshInv, [Next]_vars
  PROVE  Moved(d)
<1> USE QueueAssumption, PlanAssumption DEF Moved, Stays, Outside, TakesHead, Proceeds,
     CallsTypeOK, StoresTypeOK, FreshInv, Goto, Leave, Exit, Forget, WithPlan, WithoutPlan,
      runRoot, stateRoot, world, work, own, members, calls
<1>1. ASSUME Tick
      PROVE  Moved(d)
  BY <1>1 DEF Tick
<1>2. ASSUME NEW v \in Versions, Retrieve(v) \/ Record(v)
      PROVE  Moved(d)
  BY <1>2 DEF Retrieve, Record
<1>3. ASSUME NEW c \in Callers, CallTriage(c)
      PROVE  Moved(d)
  BY <1>3 DEF CallTriage
<1>4. ASSUME NEW c \in Callers, Crash(c)
      PROVE  Moved(d)
  BY <1>4 DEF Crash, Return
<1>5. ASSUME NEW c \in Callers, ReopenHead(c)
      PROVE  Moved(d)
  BY <1>5 DEF ReopenHead, WorkOn
<1>6. ASSUME NEW c \in Callers, FindNoHead(c)
      PROVE  Moved(d)
  BY <1>6 DEF FindNoHead
<1>7. ASSUME NEW c \in Callers, ReadRevision(c)
      PROVE  Moved(d)
  BY <1>7 DEF ReadRevision
<1>8. ASSUME NEW c \in Callers, FreezeNext(c)
      PROVE  Moved(d)
  BY <1>8 DEF FreezeNext
<1>9. ASSUME NEW c \in Callers, FreezeNothing(c)
      PROVE  Moved(d)
  BY <1>9 DEF FreezeNothing
<1>10. ASSUME NEW c \in Callers, ReopenInstalled(c)
      PROVE  Moved(d)
  BY <1>10 DEF ReopenInstalled, WorkOn
<1>11. ASSUME NEW c \in Callers, RefuseInstall(c)
      PROVE  Moved(d)
  BY <1>11 DEF RefuseInstall
<1>12. ASSUME NEW c \in Callers, Install(c)
      PROVE  Moved(d)
  BY <1>12 DEF Install, WorkOn, Installed
<1>13. ASSUME NEW c \in Callers, CheckUnbound(c)
      PROVE  Moved(d)
  BY <1>13 DEF CheckUnbound
<1>14. ASSUME NEW c \in Callers, RegisterComparison(c)
      PROVE  Moved(d)
  BY <1>14 DEF RegisterComparison
<1>15. ASSUME NEW c \in Callers, RunPlan(c), ClaimPlan(c)
      PROVE  Moved(d)
  BY <1>15 DEF RunPlan, ClaimPlan
<1>16. ASSUME NEW c \in Callers, RunPlan(c), SealUsage(c)
      PROVE  Moved(d)
  BY <1>16 DEF RunPlan, SealUsage
<1>17. ASSUME NEW c \in Callers, RunPlan(c), EndWave(c)
      PROVE  Moved(d)
  BY <1>17 DEF GoesOn, EndWave, Return
<1>18. ASSUME NEW c \in Callers, NEW j \in Members, RunPlan(c), MemberEnds(c, j)
      PROVE  Moved(d)
  BY <1>18 DEF RunPlan, MemberEnds
<1>19. ASSUME NEW c \in Callers, NEW j \in Members, RunPlan(c), MemberAnswers(c, j)
      PROVE  Moved(d)
  <2>1. CASE d = c
    <3>1. IsAnswered(d)
      BY <1>19, <2>1, Zenon DEF IsAnswered
    <3> QED BY <3>1
  <2>2. CASE d # c
    <3>1. Stays(d)
      BY <1>19, <2>2 DEF MemberAnswers, Answer
    <3> QED BY <3>1
  <2> QED BY <2>1, <2>2
<1>20. ASSUME NEW c \in Callers, NEW j \in Members, RunPlan(c), MemberStaysOpen(c, j)
      PROVE  Moved(d)
  <2>1. CASE d = c
    <3>1. IsAnswered(d)
      BY <1>20, <2>1, Zenon DEF IsAnswered
    <3> QED BY <3>1
  <2>2. CASE d # c
    <3>1. Stays(d)
      BY <1>20, <2>2 DEF MemberStaysOpen, Answer
    <3> QED BY <3>1
  <2> QED BY <2>1, <2>2
<1>21. ASSUME NEW c \in Callers, FinishRun(c)
      PROVE  Moved(d)
  BY <1>21 DEF FinishRun, JudgePlan, Return
<1>22. ASSUME NEW c \in Callers, AbandonComparison(c)
      PROVE  Moved(d)
  BY <1>22 DEF AbandonComparison
<1>23. ASSUME NEW c \in Callers, RecordReport(c)
      PROVE  Moved(d)
  BY <1>23 DEF RecordReport
<1>24. ASSUME NEW c \in Callers, AdmitDecision(c)
      PROVE  Moved(d)
  BY <1>24 DEF AdmitDecision
<1>25. ASSUME NEW c \in Callers, Terminalize(c)
      PROVE  Moved(d)
  BY <1>25 DEF Terminalize
<1>26. ASSUME NEW c \in Callers, RefuseOutcome(c)
      PROVE  Moved(d)
  BY <1>26 DEF RefuseOutcome
<1>27. ASSUME NEW c \in Callers, ReleaseHead(c)
      PROVE  Moved(d)
  BY <1>27 DEF ReleaseHead
<1>28. ASSUME NEW j \in Members, Authorize(j)
      PROVE  Moved(d)
  BY <1>28 DEF Authorize, AuthorizeSecond
<1>29. CASE UNCHANGED vars
  BY <1>29 DEF vars
<1> QED
  BY <1>1, <1>2, <1>3, <1>4, <1>5, <1>6, <1>7, <1>8, <1>9, <1>10, <1>11, <1>12, <1>13,
       <1>14, <1>15, <1>16, <1>17, <1>18, <1>19, <1>20, <1>21, <1>22, <1>23, <1>24, <1>25,
       <1>26, <1>27, <1>28, <1>29
  DEF Next, Step, RunPlan, PlanStep
Chooses(d) ==
  \E lanes \in SUBSET Lanes :
    /\ Unhandled(at[d], lanes) # {} /\ wanted'[d] = Earliest(Unhandled(at[d], lanes))
    /\ missing'[d] = GapsOf(wanted'[d], at[d], lanes)
Wants(d) ==
  \/ /\ wanted'[d] = wanted[d] /\ missing'[d] = missing[d]
     /\ pc'[d] = "installing" => pc[d] = "installing"
  \/ wanted'[d] = {} /\ pc'[d] # "installing"
  \/ Chooses(d)

\* The versions a caller would freeze change only when it chooses or forgets them.
LEMMA WantsSteps ==
  ASSUME NEW d \in Callers, CallsTypeOK, StoresTypeOK, [Next]_vars
  PROVE  Wants(d)
<1> USE QueueAssumption, PlanAssumption DEF Wants, CallsTypeOK, StoresTypeOK, Goto, Leave,
     Exit, Forget, WithPlan, WithoutPlan,
      runRoot, stateRoot, world, work, own, members, calls
<1>1. ASSUME Tick
      PROVE  Wants(d)
  BY <1>1 DEF Tick
<1>2. ASSUME NEW v \in Versions, Retrieve(v) \/ Record(v)
      PROVE  Wants(d)
  BY <1>2 DEF Retrieve, Record
<1>3. ASSUME NEW c \in Callers, CallTriage(c)
      PROVE  Wants(d)
  BY <1>3 DEF CallTriage
<1>4. ASSUME NEW c \in Callers, Crash(c)
      PROVE  Wants(d)
  BY <1>4 DEF Crash, Return
<1>5. ASSUME NEW c \in Callers, ReopenHead(c)
      PROVE  Wants(d)
  BY <1>5 DEF ReopenHead, WorkOn
<1>6. ASSUME NEW c \in Callers, FindNoHead(c)
      PROVE  Wants(d)
  BY <1>6 DEF FindNoHead
<1>7. ASSUME NEW c \in Callers, ReadRevision(c)
      PROVE  Wants(d)
  BY <1>7 DEF ReadRevision
<1>8. ASSUME NEW c \in Callers, FreezeNext(c)
      PROVE  Wants(d)
  <2>1. PICK lanes \in SUBSET Lanes :
          LET vs == Earliest(Unhandled(at[c], lanes))
          IN /\ Unhandled(at[c], lanes) # {}
             /\ wanted' = [wanted EXCEPT ![c] = vs]
             /\ missing' = [missing EXCEPT ![c] = GapsOf(vs, at[c], lanes)]
    BY <1>8 DEF FreezeNext
  <2>2. CASE d = c
    <3>1. /\ wanted'[d] = Earliest(Unhandled(at[d], lanes)) /\ Unhandled(at[d], lanes) # {}
          /\ missing'[d] = GapsOf(wanted'[d], at[d], lanes)
      BY <2>1, <2>2
    <3>2. Chooses(d)
      BY <3>1, Zenon DEF Chooses
    <3> QED BY <3>2
  <2>3. CASE d # c
    <3>1. wanted'[d] = wanted[d] /\ missing'[d] = missing[d] /\ pc'[d] = pc[d]
      BY <1>8, <2>1, <2>3 DEF FreezeNext
    <3> QED BY <3>1
  <2> QED BY <2>2, <2>3
<1>9. ASSUME NEW c \in Callers, FreezeNothing(c)
      PROVE  Wants(d)
  BY <1>9 DEF FreezeNothing
<1>10. ASSUME NEW c \in Callers, ReopenInstalled(c)
      PROVE  Wants(d)
  BY <1>10 DEF ReopenInstalled, WorkOn
<1>11. ASSUME NEW c \in Callers, RefuseInstall(c)
      PROVE  Wants(d)
  BY <1>11 DEF RefuseInstall
<1>12. ASSUME NEW c \in Callers, Install(c)
      PROVE  Wants(d)
  BY <1>12 DEF Install, WorkOn, Installed
<1>13. ASSUME NEW c \in Callers, CheckUnbound(c)
      PROVE  Wants(d)
  BY <1>13 DEF CheckUnbound
<1>14. ASSUME NEW c \in Callers, RegisterComparison(c)
      PROVE  Wants(d)
  BY <1>14 DEF RegisterComparison
<1>15. ASSUME NEW c \in Callers, RunPlan(c), ClaimPlan(c)
      PROVE  Wants(d)
  BY <1>15 DEF RunPlan, ClaimPlan
<1>16. ASSUME NEW c \in Callers, RunPlan(c), SealUsage(c)
      PROVE  Wants(d)
  BY <1>16 DEF RunPlan, SealUsage
<1>17. ASSUME NEW c \in Callers, RunPlan(c), EndWave(c)
      PROVE  Wants(d)
  BY <1>17 DEF RunPlan, EndWave, Return
<1>18. ASSUME NEW c \in Callers, NEW j \in Members, RunPlan(c), MemberEnds(c, j)
      PROVE  Wants(d)
  BY <1>18 DEF RunPlan, MemberEnds
<1>19. ASSUME NEW c \in Callers, NEW j \in Members, RunPlan(c), MemberAnswers(c, j)
      PROVE  Wants(d)
  BY <1>19 DEF RunPlan, MemberAnswers, Answer
<1>20. ASSUME NEW c \in Callers, NEW j \in Members, RunPlan(c), MemberStaysOpen(c, j)
      PROVE  Wants(d)
  BY <1>20 DEF RunPlan, MemberStaysOpen, Answer
<1>21. ASSUME NEW c \in Callers, FinishRun(c)
      PROVE  Wants(d)
  BY <1>21 DEF FinishRun, JudgePlan, Return
<1>22. ASSUME NEW c \in Callers, AbandonComparison(c)
      PROVE  Wants(d)
  BY <1>22 DEF AbandonComparison
<1>23. ASSUME NEW c \in Callers, RecordReport(c)
      PROVE  Wants(d)
  BY <1>23 DEF RecordReport
<1>24. ASSUME NEW c \in Callers, AdmitDecision(c)
      PROVE  Wants(d)
  BY <1>24 DEF AdmitDecision
<1>25. ASSUME NEW c \in Callers, Terminalize(c)
      PROVE  Wants(d)
  BY <1>25 DEF Terminalize
<1>26. ASSUME NEW c \in Callers, RefuseOutcome(c)
      PROVE  Wants(d)
  BY <1>26 DEF RefuseOutcome
<1>27. ASSUME NEW c \in Callers, ReleaseHead(c)
      PROVE  Wants(d)
  BY <1>27 DEF ReleaseHead
<1>28. ASSUME NEW j \in Members, Authorize(j)
      PROVE  Wants(d)
  BY <1>28 DEF Authorize, AuthorizeSecond
<1>29. CASE UNCHANGED vars
  BY <1>29 DEF vars
<1> QED
  BY <1>1, <1>2, <1>3, <1>4, <1>5, <1>6, <1>7, <1>8, <1>9, <1>10, <1>11, <1>12, <1>13,
       <1>14, <1>15, <1>16, <1>17, <1>18, <1>19, <1>20, <1>21, <1>22, <1>23, <1>24, <1>25,
       <1>26, <1>27, <1>28, <1>29
  DEF Next, Step, RunPlan, PlanStep
\* A caller that is about to install has versions to install.
LEMMA WantedSteps ==
  ASSUME CallsTypeOK, StoresTypeOK, NEW d \in Callers, [Next]_vars, pc'[d] = "installing"
  PROVE  wanted'[d] # {} \/ (pc[d] = "installing" /\ wanted'[d] = wanted[d])
<1>1. Wants(d)
  BY WantsSteps
<1>2. CASE Chooses(d)
  <2>1. \A lanes : Unhandled(at[d], lanes) \in SUBSET Versions
    BY DEF Unhandled, StoresTypeOK
  <2> QED BY <1>2, <2>1, EarliestIsAPrefix DEF Chooses
<1> QED BY <1>1, <1>2 DEF Wants

\* Outside its run a caller has no answers.
LEMMA FreshStep ==
  ASSUME CallsTypeOK, StoresTypeOK, FreshInv, [Next]_vars
  PROVE  FreshInv'
<1> SUFFICES ASSUME NEW d \in Callers, pc'[d] \notin {"running", "judging"}
             PROVE  wave'[d] = 1 /\ answers'[d] = <<>>
  BY DEF FreshInv
<1>1. Moved(d)
  BY CallSteps
<1>2. CASE Stays(d)
  BY <1>2 DEF Stays, FreshInv
<1>3. CASE Outside(d) \/ TakesHead(d) \/ Proceeds(d)
  BY <1>3 DEF Outside, TakesHead, Proceeds
<1>4. CASE IsAnswered(d)
  BY <1>4 DEF IsAnswered, MemberAnswers, MemberStaysOpen, Waiting
<1>5. CASE GoesOn(d)
  BY <1>5 DEF GoesOn, EndWave, Goto, CallsTypeOK
<1> QED BY <1>1, <1>2, <1>3, <1>4, <1>5 DEF Moved

StoresKept == UNCHANGED <<batch, passed, head, released, decidedAt, terminalAt>>

\* Four actions write what the queue keeps of batches and outcomes.
LEMMA StoreSteps ==
  ASSUME [Next]_vars
  PROVE  \/ StoresKept
         \/ \E c \in Callers : Install(c) \/ AdmitDecision(c) \/ Terminalize(c) \/ ReleaseHead(c)
<1> USE DEF StoresKept, runRoot, stateRoot
<1>1. CASE Tick \/ \E v \in Versions : Retrieve(v) \/ Record(v)
  BY <1>1 DEF Tick, Retrieve, Record
<1>2. CASE \E j \in Members : Authorize(j)
  BY <1>2 DEF Authorize
<1>3. ASSUME NEW c \in Callers, CallTriage(c) \/ Step(c) \/ Crash(c)
      PROVE  \/ StoresKept
             \/ Install(c) \/ AdmitDecision(c) \/ Terminalize(c) \/ ReleaseHead(c)
  BY <1>3 DEF Step, CallTriage, Crash, ReopenHead, FindNoHead, ReadRevision, FreezeNext,
     FreezeNothing, ReopenInstalled, RefuseInstall, CheckUnbound, RegisterComparison,
     RunPlan, FinishRun, AbandonComparison, RecordReport, RefuseOutcome
<1>4. CASE UNCHANGED vars
  BY <1>4 DEF vars
<1> QED BY <1>1, <1>2, <1>3, <1>4 DEF Next

\* Every step keeps what is known of the head and the outcomes.
LEMMA OutcomesStep ==
  ASSUME CallsTypeOK, StoresTypeOK, FreshInv, OutcomesInv, [Next]_vars
  PROVE  OutcomesInv'
<1> DEFINE Stores ==
      /\ head # Nobody => head \in Installed
      /\ Decided \cup Terminal \subseteq Installed
      /\ AuthorityBeforeRelease
<1>1. /\ Stores'
      /\ Installed \subseteq Installed'
      /\ Decided \subseteq Decided' /\ Terminal \subseteq Terminal'
      /\ \A c \in Callers :
           AdmitDecision(c) \/ Terminalize(c) => plan[c] \in Decided' \cup Terminal'
  <2> USE DEF OutcomesInv, AuthorityBeforeRelease, Installed, Decided, Terminal
  <2>1. CASE StoresKept /\ ~\E c \in Callers : AdmitDecision(c) \/ Terminalize(c)
    BY <2>1 DEF StoresKept
  <2>2. ASSUME NEW c \in Callers, Install(c)
        PROVE  Stores' /\ Installed \subseteq Installed' /\ UNCHANGED <<decidedAt, terminalAt>>
    <3>1. PICK p \in Plans \ Installed : head' = p /\ batch' = [batch EXCEPT ![p] = wanted[c]]
      BY <2>2 DEF Install
    <3>2. /\ wanted[c] # {} /\ head = Nobody /\ UNCHANGED <<released, decidedAt, terminalAt>>
      BY <2>2 DEF Install, runRoot, stateRoot
    <3> QED BY <3>1, <3>2, PlanAssumption DEF StoresTypeOK
  <2>3. ASSUME NEW c \in Callers, ReleaseHead(c)
        PROVE  Stores' /\ UNCHANGED <<batch, decidedAt, terminalAt>>
    BY <2>3, PlanAssumption DEF ReleaseHead, stateRoot, StoresTypeOK, WithPlan
  <2>4. ASSUME NEW c \in Callers, AdmitDecision(c)
        PROVE  /\ Stores' /\ Decided' = Decided \cup {plan[c]}
               /\ UNCHANGED <<batch, terminalAt>>
    <3>1. /\ UNCHANGED <<batch, head, released, terminalAt>> /\ pc[c] = "deciding"
          /\ \/ plan[c] \in Decided /\ UNCHANGED decidedAt
             \/ /\ plan[c] \notin Terminal
                /\ decidedAt' = [decidedAt EXCEPT ![plan[c]] = finished[plan[c]]]
      BY <2>4 DEF AdmitDecision, MayDecide, runRoot
    <3>2. plan[c] \in Installed
      BY <3>1 DEF WithPlan
    <3>3. finished[plan[c]] # Never
      BY <3>2, QueueAssumption DEF StoresTypeOK, Moments, Never
    <3> QED BY <3>1, <3>2, <3>3 DEF StoresTypeOK
  <2>5. ASSUME NEW c \in Callers, Terminalize(c)
        PROVE  /\ Stores' /\ Terminal' = Terminal \cup {plan[c]}
               /\ UNCHANGED <<batch, decidedAt>>
    <3>1. /\ UNCHANGED <<batch, head, released, decidedAt>> /\ pc[c] = "failing"
          /\ \/ plan[c] \in Terminal /\ UNCHANGED terminalAt
             \/ /\ plan[c] \notin Decided
                /\ terminalAt' = [terminalAt EXCEPT ![plan[c]] = clock]
      BY <2>5 DEF Terminalize, MayFail, runRoot
    <3>2. plan[c] \in Installed
      BY <3>1 DEF WithPlan
    <3>3. clock # Never
      BY QueueAssumption DEF StoresTypeOK, Moments, Never
    <3> QED BY <3>1, <3>2, <3>3 DEF StoresTypeOK
  <2> QED BY <2>1, <2>2, <2>3, <2>4, <2>5, StoreSteps
<1>2. ASSUME NEW d \in Callers, pc'[d] \in WithPlan
      PROVE  /\ plan'[d] \in Installed'
             /\ pc'[d] = "completing" => plan'[d] \in Decided' \cup Terminal'
  <2>1. Moved(d)
    BY CallSteps
  <2>2. CASE Stays(d) \/ Proceeds(d)
    BY <1>1, <1>2, <2>2 DEF Stays, Proceeds, OutcomesInv
  <2>3. CASE Outside(d) \/ TakesHead(d)
    BY <1>1, <1>2, <2>3 DEF Outside, TakesHead, WithPlan, WithoutPlan
  <2>4. CASE IsAnswered(d)
    BY <1>1, <2>4 DEF IsAnswered, MemberAnswers, MemberStaysOpen, Waiting, OutcomesInv, WithPlan
  <2>5. CASE GoesOn(d)
    <3>1. pc[d] = "running" /\ plan'[d] = plan[d] /\ pc'[d] \in {"running", "judging"}
      BY <2>5 DEF GoesOn, EndWave, Goto, CallsTypeOK
    <3> QED BY <1>1, <3>1 DEF OutcomesInv, WithPlan
  <2> QED BY <2>1, <2>2, <2>3, <2>4, <2>5 DEF Moved
<1>3. ASSUME NEW d \in Callers, pc'[d] = "installing"
      PROVE  wanted'[d] # {}
  BY <1>3, WantedSteps DEF OutcomesInv
<1> QED BY <1>1, <1>2, <1>3 DEF OutcomesInv, WithPlan

\* Receipts stay in order, and in the past.
LEMMA ReceiptsStep ==
  ASSUME StoresTypeOK, InReceiptOrder, ReceivedByNow, [Next]_vars
  PROVE  InReceiptOrder' /\ ReceivedByNow'
<1>1. CASE UNCHANGED <<clock, received>>
  BY <1>1 DEF InReceiptOrder, ReceivedByNow
<1>2. CASE Tick
  <2>1. clock' = clock + 1 /\ UNCHANGED received /\ clock \in Nat
    BY <1>2, QueueAssumption DEF Tick, StoresTypeOK, Moments
  <2>2. \A v \in Versions : received[v] # Never => received[v] \in Nat
    BY QueueAssumption DEF StoresTypeOK, Moments
  <2> QED BY <2>1, <2>2 DEF InReceiptOrder, ReceivedByNow
<1>3. ASSUME NEW v \in Versions, Retrieve(v)
      PROVE  InReceiptOrder' /\ ReceivedByNow'
  <2>1. /\ \A w \in Versions : w < v => received[w] # Never
        /\ received' = [received EXCEPT ![v] = clock] /\ UNCHANGED clock
        /\ received[v] = Never
    BY <1>3 DEF Retrieve
  <2>2. /\ clock \in Moments /\ clock # Never
        /\ \A u \in Versions : received[u] # Never => received[u] \in Moments
    BY QueueAssumption DEF StoresTypeOK, Moments, Never
  <2>3. ASSUME NEW u \in Versions, NEW w \in Versions, received'[u] # Never, w < u
        PROVE  received'[w] \in Moments /\ received'[w] =< received'[u]
    <3>0. w # u /\ ~(v < v)
      BY <2>3, QueueAssumption
    <3>1. CASE u = v
      BY <2>1, <2>2, <2>3, <3>0, <3>1 DEF ReceivedByNow, StoresTypeOK
    <3>2. CASE u # v
      <4>1. received'[u] = received[u] /\ received[u] # Never
        BY <2>1, <2>3, <3>2 DEF StoresTypeOK
      <4>2. received[w] \in Moments /\ received[w] =< received[u]
        BY <2>3, <4>1 DEF InReceiptOrder
      <4>3. w # v
        BY <2>1, <4>2, QueueAssumption DEF Moments, Never
      <4> QED BY <2>1, <4>1, <4>2, <4>3 DEF StoresTypeOK
    <3> QED BY <3>1, <3>2
  <2>4. clock =< clock
    BY QueueAssumption DEF StoresTypeOK, Moments
  <2>5. ReceivedByNow'
    BY <2>1, <2>4 DEF ReceivedByNow, StoresTypeOK
  <2> QED BY <2>3, <2>5 DEF InReceiptOrder, Moments
<1>4. ASSUME NEW c \in Callers, CallTriage(c) \/ Step(c) \/ Crash(c)
      PROVE  UNCHANGED <<clock, received>>
  BY <1>4 DEF world, Step, CallTriage, Crash, ReopenHead, FindNoHead, ReadRevision, FreezeNext,
     FreezeNothing, ReopenInstalled, RefuseInstall, Install, CheckUnbound, RegisterComparison,
     RunPlan, FinishRun, AbandonComparison, RecordReport, AdmitDecision, Terminalize,
     RefuseOutcome, ReleaseHead
<1>5. ASSUME NEW j \in Members, Authorize(j)
      PROVE  UNCHANGED <<clock, received>>
  BY <1>5 DEF Authorize, world
<1>6. ASSUME UNCHANGED vars
      PROVE  UNCHANGED <<clock, received>>
  BY <1>6 DEF vars, world
<1>7. ASSUME NEW v \in Versions, Record(v)
      PROVE  UNCHANGED <<clock, received>>
  BY <1>7 DEF Record
<1> QED BY <1>1, <1>2, <1>3, <1>4, <1>5, <1>6, <1>7 DEF Next

\* What was handled before a moment is handled.
LEMMA HandledBeforeIsHandled ==
  ASSUME StoresTypeOK, NEW t \in Moments
  PROVE  HandledBefore(t) \subseteq Handled
<1>1. ASSUME NEW p \in Plans, decidedAt[p] =< t \/ terminalAt[p] =< t
      PROVE  p \in Decided \cup Terminal
  BY <1>1, QueueAssumption DEF Decided, Terminal, Moments, Never
<1> QED BY <1>1 DEF HandledBefore, Handled, HandledBy

\* What a caller chooses takes with it everything older that is not handled, that the
\* Journal holds, and whose lane is operational.
LEMMA ChoiceIsClosed ==
  ASSUME StoresTypeOK, InReceiptOrder, NEW t \in Moments, NEW lanes
  PROVE  LET vs == Earliest(Unhandled(t, lanes)) IN Closed(vs, GapsOf(vs, t, lanes))
<1> DEFINE free == Unhandled(t, lanes)
           vs == Earliest(free)
           gaps == GapsOf(vs, t, lanes)
<1>1. free \in SUBSET Versions
  BY DEF Unhandled, StoresTypeOK
<1>2. ASSUME NEW v \in vs, NEW w \in Versions, w < v
      PROVE  w \in vs \cup Handled \cup gaps.late \cup gaps.asleep
  <2>1. v \in free
    BY DEF Earliest
  <2>2. v \in Versions /\ received[v] =< t
    BY <1>1, <2>1 DEF Unhandled
  <2>3. received[v] # Never
    BY <2>2, QueueAssumption DEF Moments, Never
  <2>4. received[w] \in Moments /\ received[w] =< received[v] /\ received[v] \in Moments
    BY <1>2, <2>2, <2>3 DEF InReceiptOrder, StoresTypeOK
  <2>5. received[w] =< t
    BY <2>2, <2>4, QueueAssumption DEF Moments
  <2>6. CASE w \in HandledBefore(t)
    BY <2>6, HandledBeforeIsHandled
  <2>7. CASE w \in free
    <3>1. w \in vs
      BY <1>1, <1>2, <2>7, EarliestIsAPrefix
    <3> QED BY <3>1
  <2>8. CASE w \notin free /\ w \notin HandledBefore(t)
    <3>1. w \notin journal \/ LaneOf[w] \notin lanes
      BY <2>5, <2>8 DEF Unhandled
    <3>2. w \in {u \in Versions : \E x \in vs : u < x} \ HandledBefore(t)
      BY <1>2, <2>8
    <3>3. w \in gaps.late \cup gaps.asleep
      BY <3>1, <3>2 DEF GapsOf
    <3> QED BY <3>3
  <2> QED BY <2>6, <2>7, <2>8
<1> QED BY <1>2 DEF Closed

\* Every step keeps the order of the batches.
LEMMA OrderStep ==
  ASSUME CallsTypeOK, StoresTypeOK, OutcomesInv, OrderInv, [Next]_vars
  PROVE  OrderInv'
<1>1. InReceiptOrder' /\ ReceivedByNow'
  BY ReceiptsStep DEF OrderInv
<1>3. ASSUME UNCHANGED <<batch, passed, decidedAt, terminalAt>>
      PROVE  /\ Handled' = Handled /\ HandledInOrder'
             /\ \A p \in Plans : Closed(batch[p], passed[p])'
  BY <1>3 DEF OrderInv, HandledInOrder, Closed, Handled, HandledBy, Decided, Terminal
<1>4. ASSUME NEW c \in Callers, Install(c)
      PROVE  /\ Handled' = Handled /\ HandledInOrder'
             /\ \A p \in Plans : Closed(batch[p], passed[p])'
  <2>1. PICK p \in Plans \ Installed :
          /\ batch' = [batch EXCEPT ![p] = wanted[c]]
          /\ passed' = [passed EXCEPT ![p] = missing[c]]
    BY <1>4 DEF Install
  <2>2. UNCHANGED <<decidedAt, terminalAt>>
    BY <1>4 DEF Install, stateRoot
  <2>3. p \notin Decided \cup Terminal
    BY <2>1 DEF OutcomesInv
  <2>4. /\ Decided' = Decided /\ Terminal' = Terminal
        /\ \A q \in Decided \cup Terminal : batch'[q] = batch[q] /\ passed'[q] = passed[q]
    BY <2>1, <2>2, <2>3 DEF Decided, Terminal, StoresTypeOK
  <2>5. Handled' = Handled /\ HandledInOrder'
    BY <2>4 DEF OrderInv, HandledInOrder, Handled, HandledBy
  <2>6. /\ \A q \in Plans : batch'[q] = IF q = p THEN wanted[c] ELSE batch[q]
        /\ \A q \in Plans : passed'[q] = IF q = p THEN missing[c] ELSE passed[q]
    BY <2>1 DEF StoresTypeOK
  <2>7. Closed(wanted[c], missing[c])
    BY DEF OrderInv
  <2> QED BY <2>5, <2>6, <2>7 DEF OrderInv, Closed
<1>5. ASSUME NEW p \in Plans, ~Conflicts(p), UNCHANGED <<batch, passed>>,
             \/ Decided' = Decided \cup {p} /\ Terminal' = Terminal
             \/ Terminal' = Terminal \cup {p} /\ Decided' = Decided
      PROVE  /\ Handled \subseteq Handled' /\ HandledInOrder'
             /\ \A q \in Plans : Closed(batch[q], passed[q])'
  <2>1. Handled' = Handled \cup batch[p]
    BY <1>5 DEF Handled, HandledBy
  <2>2. \A q \in (Decided \cup Terminal) \ {p} : batch[p] \cap batch[q] = {}
    BY <1>5 DEF Conflicts, HandledBy, Decided, Terminal
  <2>3. \A q, r \in (Decided \cup Terminal)' : q # r => batch[q] \cap batch[r] = {}
    BY <1>5, <2>2 DEF OrderInv, HandledInOrder
  <2>4. \A q \in Plans : Closed(batch[q], passed[q])'
    BY <1>5, <2>1 DEF OrderInv, Closed
  <2>5. \A q \in (Decided \cup Terminal)' : q \in Plans /\ batch'[q] \subseteq Handled'
    BY DEF Handled, HandledBy, Decided, Terminal
  <2>6. ASSUME NEW q \in (Decided \cup Terminal)', NEW v \in batch'[q], NEW w \in Versions, w < v
        PROVE  w \in Handled' \cup passed'[q].late \cup passed'[q].asleep
    BY <2>4, <2>5, <2>6 DEF Closed
  <2>7. HandledInOrder'
    BY <1>5, <2>3, <2>6 DEF HandledInOrder
  <2> QED BY <2>1, <2>4, <2>7
<1>6. ASSUME NEW c \in Callers, AdmitDecision(c)
      PROVE  /\ Handled \subseteq Handled' /\ HandledInOrder'
             /\ \A q \in Plans : Closed(batch[q], passed[q])'
  <2>1. CASE UNCHANGED <<batch, passed, decidedAt, terminalAt>>
    BY <1>3, <2>1
  <2>2. CASE decidedAt' # decidedAt
    <3>1. /\ ~Conflicts(plan[c]) /\ UNCHANGED <<batch, passed, terminalAt>> /\ plan[c] \in Plans
          /\ decidedAt' = [decidedAt EXCEPT ![plan[c]] = finished[plan[c]]]
      BY <1>6, <2>2 DEF AdmitDecision, MayDecide, runRoot, OutcomesInv, WithPlan, Installed
    <3>2. finished[plan[c]] # Never
      BY <3>1, QueueAssumption DEF StoresTypeOK, Moments, Never
    <3>3. Decided' = Decided \cup {plan[c]} /\ Terminal' = Terminal
      BY <3>1, <3>2 DEF Decided, Terminal, StoresTypeOK
    <3> QED BY <1>5, <3>1, <3>3
  <2> QED BY <1>6, <2>1, <2>2 DEF AdmitDecision, runRoot
<1>7. ASSUME NEW c \in Callers, Terminalize(c)
      PROVE  /\ Handled \subseteq Handled' /\ HandledInOrder'
             /\ \A q \in Plans : Closed(batch[q], passed[q])'
  <2>1. CASE UNCHANGED <<batch, passed, decidedAt, terminalAt>>
    BY <1>3, <2>1
  <2>2. CASE terminalAt' # terminalAt
    <3>1. /\ ~Conflicts(plan[c]) /\ UNCHANGED <<batch, passed, decidedAt>> /\ plan[c] \in Plans
          /\ terminalAt' = [terminalAt EXCEPT ![plan[c]] = clock]
      BY <1>7, <2>2 DEF Terminalize, MayFail, runRoot, OutcomesInv, WithPlan, Installed
    <3>2. clock # Never
      BY QueueAssumption DEF StoresTypeOK, Moments, Never
    <3>3. Terminal' = Terminal \cup {plan[c]} /\ Decided' = Decided
      BY <3>1, <3>2 DEF Decided, Terminal, StoresTypeOK
    <3> QED BY <1>5, <3>1, <3>3
  <2> QED BY <1>7, <2>1, <2>2 DEF Terminalize, runRoot
<1>8. /\ Handled \subseteq Handled' /\ HandledInOrder'
      /\ \A p \in Plans : Closed(batch[p], passed[p])'
  <2>1. ASSUME NEW c \in Callers, ReleaseHead(c)
        PROVE  UNCHANGED <<batch, passed, decidedAt, terminalAt>>
    BY <2>1 DEF ReleaseHead, stateRoot
  <2> QED BY <1>3, <1>4, <1>6, <1>7, <2>1, StoreSteps DEF StoresKept
<1>9. ASSUME NEW d \in Callers
       PROVE  Closed(wanted[d], missing[d])'
  <2>1. Wants(d)
    BY WantsSteps
  <2>2. CASE Chooses(d)
    <3>1. PICK lanes \in SUBSET Lanes :
            /\ wanted'[d] = Earliest(Unhandled(at[d], lanes))
            /\ missing'[d] = GapsOf(wanted'[d], at[d], lanes)
      BY <2>2 DEF Chooses
    <3>2. Closed(wanted'[d], missing'[d])
      BY <3>1, ChoiceIsClosed DEF OrderInv, StoresTypeOK
    <3> QED BY <1>8, <3>2 DEF Closed
  <2> QED BY <1>8, <2>1, <2>2 DEF Wants, Closed, OrderInv
<1> QED BY <1>1, <1>8, <1>9 DEF OrderInv

RunsKept == UNCHANGED <<outcome, second, repaired, ledger>>

\* Three actions change a run or the usage ledger.
LEMMA RunSteps ==
  ASSUME [Next]_vars
  PROVE  /\ \/ RunsKept
            \/ \E j \in Members : Authorize(j)
            \/ \E c \in Callers : SealUsage(c) \/ \E j \in Members : MemberEnds(c, j)
         /\ \/ UNCHANGED started
            \/ \E c \in Callers : \E j \in Members : MemberEnds(c, j) \/ MemberStaysOpen(c, j)
<1> USE DEF RunsKept, work, members
<1>1. CASE Tick \/ \E v \in Versions : Retrieve(v) \/ Record(v)
  BY <1>1 DEF Tick, Retrieve, Record
<1>2. ASSUME NEW j \in Members, Authorize(j)
      PROVE  UNCHANGED started
  BY <1>2 DEF Authorize, AuthorizeSecond
<1>3. ASSUME NEW c \in Callers, RunPlan(c)
      PROVE  /\ RunsKept \/ SealUsage(c) \/ \E j \in Members : MemberEnds(c, j)
             /\ \/ UNCHANGED started
                \/ \E j \in Members : MemberEnds(c, j) \/ MemberStaysOpen(c, j)
  <2>1. CASE ClaimPlan(c) \/ EndWave(c)
    BY <2>1 DEF ClaimPlan, EndWave
  <2>2. CASE SealUsage(c)
    BY <2>2 DEF SealUsage
  <2>3. ASSUME NEW j \in Members, MemberAnswers(c, j)
        PROVE  RunsKept /\ UNCHANGED started
    BY <2>3 DEF MemberAnswers
  <2>4. ASSUME NEW j \in Members, MemberStaysOpen(c, j)
        PROVE  RunsKept
    BY <2>4 DEF MemberStaysOpen
  <2> QED BY <1>3, <2>1, <2>2, <2>3, <2>4, Zenon DEF RunPlan, PlanStep
<1>4. ASSUME NEW c \in Callers, CallTriage(c) \/ Step(c) \/ Crash(c), ~RunPlan(c)
      PROVE  RunsKept /\ UNCHANGED started
  BY <1>4 DEF Step, CallTriage, Crash, ReopenHead, FindNoHead, ReadRevision, FreezeNext,
     FreezeNothing, ReopenInstalled, RefuseInstall, Install, CheckUnbound, RegisterComparison,
     FinishRun, JudgePlan, AbandonComparison, RecordReport, AdmitDecision, Terminalize,
     RefuseOutcome, ReleaseHead
<1>5. CASE UNCHANGED vars
  BY <1>5 DEF vars
<1> QED BY <1>1, <1>2, <1>3, <1>4, <1>5, Zenon DEF Next

\* A second run is authorized for a run that did not complete and was charged.
LEMMA AuthorizedSecond ==
  ASSUME MembersTypeOK, NEW j \in Members, Authorize(j)
  PROVE  /\ <<j, FALSE>> \in ledger /\ ledger' = ledger
         /\ outcome[j] # "completed" /\ second[j] = FALSE
         /\ outcome' = [outcome EXCEPT ![j] = "open"]
         /\ second' = [second EXCEPT ![j] = TRUE]
         /\ repaired \subseteq repaired' /\ repaired' \subseteq repaired \cup {j}
  BY DEF MembersTypeOK, Authorize, AuthorizeSecond, Job!Substitute

Steady(j) ==
  /\ Completed(j) => Completed(j)' /\ second'[j] = second[j]
  /\ second[j] => second'[j]
  /\ Sealed(j) => Sealed(j)'

\* What completed and was sealed stays so (authorize_once refuses it).
LEMMA RunsAreSteady ==
  ASSUME MembersTypeOK, CallsTypeOK, OutcomesInv, WavesInv, AnswersInv, [Next]_vars,
         NEW j \in Members
  PROVE  Steady(j)
<1>1. CASE RunsKept
  BY <1>1 DEF RunsKept, Steady, Completed, Sealed
<1>2. ASSUME NEW k \in Members, Authorize(k)
      PROVE  Steady(j)
  <2>1. /\ <<k, FALSE>> \in ledger /\ ledger' = ledger
        /\ outcome[k] # "completed" /\ second[k] = FALSE
        /\ outcome' = [outcome EXCEPT ![k] = "open"]
        /\ second' = [second EXCEPT ![k] = TRUE]
        /\ repaired \subseteq repaired' /\ repaired' \subseteq repaired \cup {k}
    BY <1>2, AuthorizedSecond
  <2>2. CASE j = k
    <3>1. ~Completed(j) /\ second'[j] = TRUE
      BY <2>1, <2>2 DEF Completed, MembersTypeOK
    <3> QED BY <3>1 DEF Steady, Sealed
  <2>3. CASE j # k
    <3>1. outcome'[j] = outcome[j] /\ second'[j] = second[j]
      BY <2>1, <2>3 DEF MembersTypeOK
    <3>2. Completed(j) => Completed(j)'
      BY <3>1 DEF Completed
    <3>3. Sealed(j) => Sealed(j)'
      <4>1. <<j, second'[j]>> = <<j, second[j]>> /\ ledger' = ledger
        BY <2>1, <3>1
      <4>2. j \in repaired => j \in repaired'
        BY <2>1
      <4> QED BY <3>2, <4>1, <4>2, Zenon DEF Sealed
    <3> QED BY <3>1, <3>2, <3>3, Zenon DEF Steady
  <2> QED BY <2>2, <2>3
<1>3. ASSUME NEW c \in Callers, SealUsage(c)
      PROVE  Steady(j)
  <2>1. ledger \subseteq ledger' /\ UNCHANGED members
    BY <1>3 DEF SealUsage
  <2> QED BY <2>1 DEF Steady, Completed, Sealed, members
<1>4. ASSUME NEW c \in Callers, NEW k \in Members, MemberEnds(c, k)
      PROVE  Steady(j)
  <2>1. /\ outcome[k] = "open" /\ UNCHANGED <<second, repaired, ledger>>
        /\ \E how : outcome' = [outcome EXCEPT ![k] = how]
    BY <1>4 DEF MemberEnds, Job!End
  <2> QED BY <2>1 DEF Steady, Completed, Sealed, MembersTypeOK
<1> QED BY <1>1, <1>2, <1>3, <1>4, RunSteps

\* Every step keeps the usage ledger exact.
LEMMA LedgerStep ==
  ASSUME MembersTypeOK, CallsTypeOK, OutcomesInv, WavesInv, AnswersInv, LedgerInv, [Next]_vars
  PROVE  LedgerInv'
<1>1. CASE RunsKept
  BY <1>1 DEF RunsKept, LedgerInv
<1>2. ASSUME NEW k \in Members, Authorize(k)
      PROVE  LedgerInv'
  <2>1. /\ <<k, FALSE>> \in ledger /\ ledger' = ledger
        /\ outcome[k] # "completed" /\ second[k] = FALSE
        /\ outcome' = [outcome EXCEPT ![k] = "open"]
        /\ second' = [second EXCEPT ![k] = TRUE]
        /\ repaired \subseteq repaired' /\ repaired' \subseteq repaired \cup {k}
    BY <1>2, AuthorizedSecond
  <2>2. \A j \in Members : second'[j] = IF j = k THEN TRUE ELSE second[j]
    BY <2>1 DEF MembersTypeOK
  <2>3. k \notin repaired /\ <<k, TRUE>> \notin ledger
    BY <2>1 DEF LedgerInv
  <2>4. ASSUME NEW j \in Members
        PROVE  /\ <<j, TRUE>> \in ledger' => second'[j] /\ j \notin repaired'
               /\ second'[j] => <<j, FALSE>> \in ledger'
               /\ j \in repaired' => second'[j]
    BY <2>1, <2>2, <2>3 DEF LedgerInv
  <2>5. repaired' \subseteq Members
    BY <2>1 DEF MembersTypeOK
  <2> QED BY <2>4, <2>5 DEF LedgerInv
<1>3. ASSUME NEW c \in Callers, SealUsage(c)
      PROVE  LedgerInv'
  <2>1. PICK j \in Members, b \in BOOLEAN :
          ledger' = ledger \cup {<<j, b>>} /\ (b => second[j]) /\ j \notin repaired
    BY <1>3, SealedUsage
  <2>2. UNCHANGED <<second, repaired>>
    BY <1>3 DEF SealUsage, members
  <2> QED BY <2>1, <2>2 DEF LedgerInv
<1>4. ASSUME NEW c \in Callers, NEW k \in Members, MemberEnds(c, k)
      PROVE  LedgerInv'
  BY <1>4 DEF MemberEnds, Job!End, LedgerInv
<1> QED BY <1>1, <1>2, <1>3, <1>4, RunSteps

\* The plan of a running caller, and where it is in it.
LEMMA PlanOfARun ==
  ASSUME OutcomesInv, WavesInv, NEW d \in Callers, pc[d] \in {"running", "judging"}
  PROVE  /\ plan[d] \in Plans /\ wave[d] \in DOMAIN Waves[plan[d]]
         /\ Len(Waves[plan[d]]) \in Nat \ {0}
         /\ DOMAIN Waves[plan[d]] = 1..Len(Waves[plan[d]])
<1>1. plan[d] \in Plans
  BY DEF OutcomesInv, WithPlan, Installed
<1>2. Waves[plan[d]] \in Seq(SUBSET Units(plan[d])) /\ Waves[plan[d]] # <<>>
  BY <1>1, PlanAssumption
<1> QED BY <1>1, <1>2 DEF WavesInv

\* What a caller was told of a completed run remains true.
LEMMA AnswersStep ==
  ASSUME MembersTypeOK, CallsTypeOK, StoresTypeOK, OutcomesInv, FreshInv, WavesInv, AnswersInv,
         [Next]_vars
  PROVE  AnswersInv'
<1> SUFFICES ASSUME NEW d \in Callers, pc'[d] \in {"running", "judging"},
                    NEW u \in DOMAIN answers'[d]
             PROVE  u \in Wave(d)' /\ TrueOf(<<plan[d], u>>, answers[d][u])'
  BY DEF AnswersInv
<1>1. ASSUME pc[d] \in {"running", "judging"}, plan'[d] = plan[d], wave'[d] = wave[d],
             u \in DOMAIN answers[d], answers'[d][u] = answers[d][u]
      PROVE  u \in Wave(d)' /\ TrueOf(<<plan[d], u>>, answers[d][u])'
  <2>1. u \in Wave(d) /\ TrueOf(<<plan[d], u>>, answers[d][u])
    BY <1>1 DEF AnswersInv
  <2>2. <<plan[d], u>> \in Members
    BY <1>1, <2>1, PlanOfARun DEF Members, Of, Units, Wave
  <2>3. Steady(<<plan[d], u>>)
    BY <2>2, RunsAreSteady
  <2>4. u \in Wave(d)'
    BY <1>1, <2>1 DEF Wave
  <2>5. TrueOf(<<plan[d], u>>, answers[d][u])'
    BY <1>1, <2>1, <2>3, Zenon DEF Steady, TrueOf, Completed
  <2> QED BY <2>4, <2>5
<1>2. Moved(d)
  BY CallSteps
<1>3. CASE Stays(d)
  BY <1>1, <1>3 DEF Stays
<1>4. CASE Outside(d) \/ TakesHead(d) \/ Proceeds(d)
  BY <1>4 DEF Outside, TakesHead, Proceeds, WithoutPlan
<1>5. CASE IsAnswered(d)
  <2>1. PICK j \in Members : MemberAnswers(d, j) \/ MemberStaysOpen(d, j)
    BY <1>5 DEF IsAnswered
  <2>2. PICK status \in {outcome[j], "open"} :
          /\ status = "completed" => Completed(j)
          /\ answers' = [answers EXCEPT ![d] =
               [v \in DOMAIN @ \cup {j[2]} |->
                  IF v = j[2] THEN [status |-> status, second |-> second[j]] ELSE @[v]]]
    BY <2>1 DEF MemberAnswers, MemberStaysOpen, Answer, Completed
  <2>3. answers'[d] = [v \in DOMAIN answers[d] \cup {j[2]} |->
           IF v = j[2] THEN [status |-> status, second |-> second[j]] ELSE answers[d][v]]
    BY <2>2 DEF CallsTypeOK
  <2>4. /\ pc[d] = "running" /\ plan'[d] = plan[d] /\ wave'[d] = wave[d]
        /\ j \in Asked(d) /\ UNCHANGED <<second, outcome>>
    BY <2>1 DEF MemberAnswers, MemberStaysOpen, Waiting, members
  <2>5. CASE u # j[2]
    <3>1. u \in DOMAIN answers[d] /\ answers'[d][u] = answers[d][u]
      BY <2>3, <2>5
    <3> QED BY <1>1, <2>4, <3>1
  <2>6. CASE u = j[2]
    <3>1. j = <<plan'[d], u>> /\ u \in Wave(d)'
      BY <2>4, <2>6 DEF Asked, Wave
    <3>2. answers'[d][u] = [status |-> status, second |-> second[j]]
      BY <2>3, <2>6
    <3>3. second[j] \in BOOLEAN /\ second'[j] = second[j] /\ (Completed(j) => Completed(j)')
      BY <2>4 DEF MembersTypeOK, Completed
    <3>4. answers'[d][u].status = status /\ answers'[d][u].second = second[j]
      BY <3>2
    <3>5. TrueOf(j, answers[d][u])'
      BY <2>2, <3>3, <3>4, Zenon DEF TrueOf
    <3> QED BY <3>1, <3>5
  <2> QED BY <2>5, <2>6
<1>6. CASE GoesOn(d)
  <2>1. \/ answers' = [answers EXCEPT ![d] = <<>>]
        \/ pc[d] = "running" /\ UNCHANGED <<plan, wave, answers>>
    BY <1>6 DEF GoesOn, EndWave
  <2>2. CASE answers' = [answers EXCEPT ![d] = <<>>]
    BY <2>2 DEF CallsTypeOK
  <2>3. CASE pc[d] = "running" /\ UNCHANGED <<plan, wave, answers>>
    BY <1>1, <2>3
  <2> QED BY <2>1, <2>2, <2>3
<1> QED BY <1>2, <1>3, <1>4, <1>5, <1>6 DEF Moved

\* A wave that is left behind, or judged, is sealed.
LEMMA WaveIsSealed ==
  ASSUME AnswersInv, NEW d \in Callers, GoesOn(d), NEW u \in Wave(d)
  PROVE  Sealed(<<plan[d], u>>)
<1> DEFINE j == <<plan[d], u>>
<1>1. /\ pc[d] = "running" /\ u \in DOMAIN answers[d] /\ Unsealed(d) = {}
      /\ answers[d][u].status = "completed"
  BY DEF GoesOn, EndWave, Answered
<1>2. TrueOf(j, answers[d][u])
  BY <1>1 DEF AnswersInv
<1>3. Completed(j) /\ answers[d][u].second = second[j]
  BY <1>1, <1>2 DEF TrueOf
<1>4. j \in Asked(d) /\ j[2] = u
  BY DEF Asked
<1>5. j \in repaired \/ <<j, answers[d][u].second>> \in ledger
  <2>1. j \notin repaired => j \in Spent(d)
    BY <1>1, <1>4 DEF Spent
  <2>2. j \in Spent(d) => <<j, answers[d][j[2]].second>> \in ledger
    BY <1>1 DEF Unsealed
  <2> QED BY <1>4, <2>1, <2>2
<1> QED BY <1>3, <1>5, Zenon DEF Sealed

Through(d, n) == \A k \in 1..n : \A u \in Waves[plan[d]][k] : Sealed(<<plan[d], u>>)

\* Waves that are sealed stay sealed.
LEMMA ThroughIsSteady ==
  ASSUME MembersTypeOK, CallsTypeOK, OutcomesInv, WavesInv, AnswersInv, [Next]_vars,
         NEW d \in Callers, pc[d] \in {"running", "judging"}, plan'[d] = plan[d],
         NEW n \in Nat, n =< Len(Waves[plan[d]]), Through(d, n)
  PROVE  Through(d, n)'
<1> SUFFICES ASSUME NEW k \in 1..n, NEW u \in Waves[plan[d]][k]
             PROVE  Sealed(<<plan[d], u>>)'
  BY DEF Through
<1>1. Sealed(<<plan[d], u>>)
  BY DEF Through
<1>2. plan[d] \in Plans /\ k \in DOMAIN Waves[plan[d]]
  BY PlanOfARun
<1>3. <<plan[d], u>> \in Members
  BY <1>2 DEF Members, Of, Units
<1> QED BY <1>1, <1>3, RunsAreSteady DEF Steady

\* Every step keeps the waves behind a caller sealed.
LEMMA WavesStep ==
  ASSUME MembersTypeOK, CallsTypeOK, StoresTypeOK, OutcomesInv, FreshInv, WavesInv, AnswersInv,
         [Next]_vars
  PROVE  WavesInv'
<1> SUFFICES ASSUME NEW d \in Callers, pc'[d] \in {"running", "judging"}
             PROVE  wave'[d] \in DOMAIN Waves[plan'[d]] /\ Through(d, wave[d] - 1)'
  BY DEF WavesInv, Through
<1>1. ASSUME pc[d] \in {"running", "judging"}, plan'[d] = plan[d], wave'[d] = wave[d]
      PROVE  wave'[d] \in DOMAIN Waves[plan'[d]] /\ Through(d, wave[d] - 1)'
  <2>1. wave[d] \in DOMAIN Waves[plan[d]] /\ Through(d, wave[d] - 1)
    BY <1>1 DEF WavesInv, Through
  <2>2. wave[d] - 1 \in Nat /\ wave[d] - 1 =< Len(Waves[plan[d]])
    BY <1>1, PlanOfARun
  <2>3. \A m \in Nat : m =< Len(Waves[plan[d]]) /\ Through(d, m) => Through(d, m)'
    BY <1>1, ThroughIsSteady
  <2> QED BY <1>1, <2>1, <2>2, <2>3 DEF Through
<1>2. Moved(d)
  BY CallSteps
<1>3. CASE Stays(d)
  BY <1>1, <1>3 DEF Stays
<1>4. CASE Outside(d) \/ TakesHead(d)
  BY <1>4 DEF Outside, TakesHead, WithoutPlan
<1>5. CASE Proceeds(d)
  <2>1. plan'[d] \in Plans /\ wave'[d] = 1
    BY <1>5 DEF Proceeds, OutcomesInv, Installed
  <2>2. Waves[plan'[d]] \in Seq(SUBSET Units(plan'[d])) /\ Waves[plan'[d]] # <<>>
    BY <2>1, PlanAssumption
  <2>3. 1 \in DOMAIN Waves[plan'[d]]
    BY <2>2
  <2> QED BY <2>1, <2>3 DEF Through
<1>6. CASE IsAnswered(d)
  <2>1. pc[d] = "running" /\ plan'[d] = plan[d] /\ wave'[d] = wave[d]
    BY <1>6 DEF IsAnswered, MemberAnswers, MemberStaysOpen, Waiting
  <2> QED BY <1>1, <2>1
<1>7. CASE GoesOn(d)
  <2>1. pc[d] = "running"
    BY <1>7 DEF GoesOn, EndWave
  <2>2. CASE UNCHANGED <<plan, wave>>
    BY <1>1, <2>1, <2>2
  <2>3. CASE ~UNCHANGED <<plan, wave>>
    <3>1. /\ wave[d] < Len(Waves[plan[d]]) /\ UNCHANGED plan
          /\ wave' = [wave EXCEPT ![d] = @ + 1]
      BY <1>7, <2>3 DEF GoesOn, EndWave
    <3>2. /\ wave[d] \in 1..Len(Waves[plan[d]]) /\ Len(Waves[plan[d]]) \in Nat
          /\ DOMAIN Waves[plan[d]] = 1..Len(Waves[plan[d]])
      BY <2>1, PlanOfARun
    <3>3. wave'[d] = wave[d] + 1
      BY <3>1 DEF CallsTypeOK
    <3>4. Through(d, wave[d])
      <4>1. ASSUME NEW k \in 1..wave[d], NEW u \in Waves[plan[d]][k]
            PROVE  Sealed(<<plan[d], u>>)
        <5>1. CASE k = wave[d]
          BY <1>7, <5>1, WaveIsSealed DEF Wave
        <5>2. CASE k # wave[d]
          <6>1. k \in 1..wave[d] - 1
            BY <3>2, <5>2
          <6> QED BY <2>1, <6>1 DEF WavesInv
        <5> QED BY <5>1, <5>2
      <4> QED BY <4>1 DEF Through
    <3>5. \A m \in Nat : m =< Len(Waves[plan[d]]) /\ Through(d, m) => Through(d, m)'
      BY <2>1, <3>1, ThroughIsSteady
    <3>6. \A k \in 1..wave[d] : \A u \in Waves[plan[d]][k] : Sealed(<<plan[d], u>>)'
      BY <3>1, <3>2, <3>4, <3>5 DEF Through
    <3>7. wave'[d] - 1 = wave[d] /\ wave'[d] \in DOMAIN Waves[plan'[d]]
      BY <3>1, <3>2, <3>3
    <3> QED BY <3>1, <3>6, <3>7 DEF Through
  <2> QED BY <2>2, <2>3
<1> QED BY <1>2, <1>3, <1>4, <1>5, <1>6, <1>7 DEF Moved

\* A plan that is judged has only sealed members.
LEMMA JudgedStep ==
  ASSUME MembersTypeOK, CallsTypeOK, StoresTypeOK, OutcomesInv, FreshInv, WavesInv, AnswersInv,
         JudgedInv, [Next]_vars
  PROVE  JudgedInv'
<1> SUFFICES ASSUME NEW d \in Callers, pc'[d] = "judging", NEW j \in Of(plan'[d])
             PROVE  Sealed(j)'
  BY DEF JudgedInv
<1>1. ASSUME j \in Members, Sealed(j)
      PROVE  Sealed(j)'
  BY <1>1, RunsAreSteady DEF Steady
<1>2. Moved(d)
  BY CallSteps
<1>3. CASE Stays(d)
  <2>1. plan[d] \in Plans /\ Sealed(j)
    BY <1>3, PlanOfARun DEF Stays, JudgedInv
  <2>2. j \in Members
    BY <1>3, <2>1 DEF Stays, Members
  <2> QED BY <1>1, <2>1, <2>2
<1>4. CASE Outside(d) \/ TakesHead(d) \/ Proceeds(d)
  BY <1>4 DEF Outside, TakesHead, Proceeds, WithoutPlan
<1>5. CASE IsAnswered(d)
  BY <1>5 DEF IsAnswered, MemberAnswers, MemberStaysOpen, Waiting
<1>6. CASE GoesOn(d)
  <2>1. /\ pc[d] = "running" /\ UNCHANGED <<plan, wave>>
        /\ ~(wave[d] < Len(Waves[plan[d]]))
    BY <1>6 DEF GoesOn, EndWave
  <2>2. /\ plan[d] \in Plans /\ wave[d] \in DOMAIN Waves[plan[d]]
        /\ Len(Waves[plan[d]]) \in Nat \ {0} /\ DOMAIN Waves[plan[d]] = 1..Len(Waves[plan[d]])
    BY <2>1, PlanOfARun
  <2>3. PICK i \in DOMAIN Waves[plan[d]] : \E u \in Waves[plan[d]][i] : j = <<plan[d], u>>
    BY <2>1 DEF Of, Units
  <2>4. j \in Members
    BY <2>1, <2>2 DEF Members
  <2> PICK u \in Waves[plan[d]][i] : j = <<plan[d], u>>
    BY <2>3
  <2>5. CASE i = wave[d]
    BY <1>1, <1>6, <2>4, <2>5, WaveIsSealed DEF Wave
  <2>6. CASE i # wave[d]
    <3>1. i \in 1..wave[d] - 1
      BY <2>1, <2>2, <2>6
    <3> QED BY <1>1, <2>1, <2>4, <3>1 DEF WavesInv
  <2> QED BY <2>5, <2>6
<1> QED BY <1>2, <1>3, <1>4, <1>5, <1>6 DEF Moved

\* Every step keeps the waves in order.
LEMMA PhasesStep ==
  ASSUME MembersTypeOK, CallsTypeOK, OutcomesInv, WavesInv, AnswersInv, PhasesInOrder,
         [Next]_vars
  PROVE  PhasesInOrder'
<1> SUFFICES ASSUME NEW p \in Plans, NEW i \in DOMAIN Waves[p], NEW u \in Waves[p][i],
                    <<p, u>> \in started', NEW k \in 1..i - 1, NEW v \in Waves[p][k]
             PROVE  Completed(<<p, v>>)'
  BY DEF PhasesInOrder, Completed
<1>1. Waves[p] \in Seq(SUBSET Units(p))
  BY PlanAssumption
<1>2. i \in Nat /\ k \in DOMAIN Waves[p]
  BY <1>1
<1>3. <<p, v>> \in Members
  BY <1>2 DEF Members, Of, Units
<1>4. Completed(<<p, v>>) => Completed(<<p, v>>)'
  BY <1>3, RunsAreSteady DEF Steady
<1>5. CASE <<p, u>> \in started
  BY <1>4, <1>5 DEF PhasesInOrder, Completed
<1>6. CASE <<p, u>> \notin started
  <2>1. PICK c \in Callers, j \in Members : MemberEnds(c, j) \/ MemberStaysOpen(c, j)
    BY <1>6, RunSteps
  <2>2. started' = started \cup {j} /\ pc[c] = "running" /\ j \in Asked(c)
    BY <2>1 DEF MemberEnds, MemberStaysOpen, Waiting
  <2>3. plan[c] = p /\ u \in Waves[p][wave[c]] /\ wave[c] \in DOMAIN Waves[p]
    BY <1>6, <2>2, PlanOfARun DEF Asked, Wave
  <2>4. wave[c] = i
    BY <2>3, PlanAssumption
  <2>5. Sealed(<<p, v>>)
    BY <2>2, <2>3, <2>4 DEF WavesInv
  <2> QED BY <1>4, <2>5 DEF Sealed
<1> QED BY <1>5, <1>6

\* Sealed members and an exact ledger balance.
LEMMA JudgedPlansBalance ==
  ASSUME MembersTypeOK, OutcomesInv, JudgedInv, LedgerInv
  PROVE  CompletedPlansBalance
<1> SUFFICES ASSUME NEW c \in Callers, pc[c] = "judging"
             PROVE  Charged(plan[c]) = Expected(plan[c])
  BY DEF CompletedPlansBalance
<1>1. Of(plan[c]) \subseteq Members
  BY DEF OutcomesInv, WithPlan, Installed, Members
<1>2. ASSUME NEW x \in Charged(plan[c])
      PROVE  x \in Expected(plan[c])
  <2>1. x \in ledger /\ x[1] \in Of(plan[c])
    BY DEF Charged
  <2>2. PICK j \in Members, b \in BOOLEAN : x = <<j, b>>
    BY <2>1 DEF MembersTypeOK
  <2>3. CASE x = <<j, TRUE>>
    BY <2>1, <2>3 DEF Expected, LedgerInv
  <2>4. CASE x = <<j, FALSE>>
    BY <2>1, <2>4 DEF Expected
  <2>5. b = TRUE \/ b = FALSE
    OBVIOUS
  <2> QED BY <2>2, <2>3, <2>4, <2>5
<1>3. ASSUME NEW x \in Expected(plan[c])
      PROVE  x \in Charged(plan[c])
  <2>1. PICK j \in Of(plan[c]), b \in BOOLEAN :
          x = <<j, b>> /\ (b => second[j] /\ j \notin repaired)
    BY DEF Expected
  <2>2. j \in Members /\ Sealed(j)
    BY <1>1, <2>1 DEF JudgedInv
  <2>3. j \in repaired \/ <<j, second[j]>> \in ledger
    BY <2>2, Zenon DEF Sealed
  <2>4. CASE b = TRUE
    <3>1. second[j] = TRUE
      BY <2>1, <2>2, <2>4 DEF MembersTypeOK
    <3>2. j \notin repaired
      BY <2>1, <2>4
    <3>3. <<j, TRUE>> \in ledger
      BY <2>3, <3>1, <3>2
    <3> QED BY <2>1, <2>4, <3>3 DEF Charged
  <2>5. CASE b = FALSE
    <3>1. CASE second[j] = TRUE
      BY <2>1, <2>2, <2>5, <3>1 DEF LedgerInv, Charged
    <3>2. CASE second[j] = FALSE
      <4>1. j \notin repaired
        BY <2>2, <3>2 DEF LedgerInv
      <4>2. <<j, FALSE>> \in ledger
        BY <2>3, <3>2, <4>1
      <4> QED BY <2>1, <2>5, <4>2 DEF Charged
    <3> QED BY <2>2, <3>1, <3>2 DEF MembersTypeOK
  <2> QED BY <2>1, <2>4, <2>5
<1> QED BY <1>2, <1>3

(***************************************************************************)
(* The theorems                                                            *)
(***************************************************************************)
IInv ==
  /\ MembersTypeOK /\ CallsTypeOK /\ StoresTypeOK
  /\ OutcomesInv /\ OrderInv /\ FreshInv /\ WavesInv /\ AnswersInv /\ JudgedInv /\ LedgerInv
  /\ PhasesInOrder

\* The invariant holds initially.
LEMMA InitHolds ==
  ASSUME Init
  PROVE  IInv
<1> USE QueueAssumption, PlanAssumption DEF Init, PlanInit, Job!Init, Moments, Never
<1>1. MembersTypeOK
  BY DEF MembersTypeOK
<1>2. CallsTypeOK
  BY DEF CallsTypeOK, WithoutPlan
<1>3. StoresTypeOK
  <2>1. NoGaps \in Gaps
    BY DEF NoGaps, Gaps
  <2> QED BY <2>1 DEF StoresTypeOK
<1>4. Installed = {} /\ Decided = {} /\ Terminal = {}
  BY DEF Installed, Decided, Terminal
<1>5. OutcomesInv
  BY <1>4 DEF OutcomesInv, AuthorityBeforeRelease, WithPlan
<1>6. OrderInv
  BY <1>4 DEF OrderInv, InReceiptOrder, ReceivedByNow, Closed, HandledInOrder, Handled, HandledBy
<1>7. FreshInv /\ WavesInv /\ AnswersInv /\ JudgedInv
  BY DEF FreshInv, WavesInv, AnswersInv, JudgedInv
<1>8. LedgerInv
  BY DEF LedgerInv
<1>9. PhasesInOrder
  BY DEF PhasesInOrder
<1> QED BY <1>1, <1>2, <1>3, <1>5, <1>6, <1>7, <1>8, <1>9 DEF IInv

\* Every step keeps the invariant.
LEMMA StepHolds ==
  ASSUME IInv, [Next]_vars
  PROVE  IInv'
<1>1. MembersTypeOK' /\ CallsTypeOK' /\ StoresTypeOK'
  BY MembersTypeStep, CallsTypeStep, StoresTypeStep DEF IInv
<1>2. OutcomesInv' /\ OrderInv' /\ FreshInv'
  BY OutcomesStep, OrderStep, FreshStep DEF IInv
<1>3. WavesInv' /\ AnswersInv' /\ JudgedInv' /\ LedgerInv' /\ PhasesInOrder'
  BY WavesStep, AnswersStep, JudgedStep, LedgerStep, PhasesStep DEF IInv
<1> QED BY <1>1, <1>2, <1>3 DEF IInv

\* The invariant holds in every run of the queue (prospective_triage.py).
THEOREM Invariant == Spec => []IInv
<1>1. Init => IInv
  BY InitHolds
<1>2. IInv /\ [Next]_vars => IInv'
  BY StepHolds
<1> QED BY <1>1, <1>2, PTL DEF Spec

\* A version is handled with one batch, and the earlier versions that are neither in it nor
\* handled were, when it was frozen, absent from the Journal or of a lane that was down, for
\* any number of versions, lanes, batches and callers (trigger_rows, _unhandled,
\* freeze_next, install, admit_work).
THEOREM BatchesInOrder == Spec => []HandledInOrder
<1>1. IInv => HandledInOrder
  BY DEF IInv, OrderInv
<1> QED BY <1>1, Invariant, PTL

\* The head of the run root goes only after its outcome is durable in the state root, and
\* there is one outcome (admit_work, terminalize_failed_work_comparison, complete).
THEOREM OutcomeBeforeRelease == Spec => []AuthorityBeforeRelease
<1>1. IInv => AuthorityBeforeRelease
  BY DEF IInv, OutcomesInv
<1> QED BY <1>1, Invariant, PTL

\* A member is called only when all waves before its own have completed, for any shape of
\* plans, any number of calls, crashes and second runs (_run_members_bounded).
THEOREM WavesInOrder == Spec => []PhasesInOrder
<1>1. IInv => PhasesInOrder
  BY DEF IInv
<1> QED BY <1>1, Invariant, PTL

\* A plan whose members completed is never refused because of its usage ledger
\* (_append_usage, _expected_usage_run_ids).
THEOREM UsageBalances == Spec => []CompletedPlansBalance
<1>1. IInv => CompletedPlansBalance
  BY JudgedPlansBalance DEF IInv
<1> QED BY <1>1, Invariant, PTL
=============================================================================
