----------------------- MODULE AutonomousPaperProofs -----------------------
(***************************************************************************)
(* Proofs about AutonomousPaper for any orders, limits and bounds.         *)
(***************************************************************************)
EXTENDS AutonomousPaper, TLAPS

(* Between its claim and the call that sends it an order is unknown outside. *)
Unsent == {"claimed", "authorized", "prepared", "refused"}

(* An order is sent once: until it is claimed nothing of it is outside, and what is on   *)
(* its way has not arrived before.                                                       *)
SentOnce ==
  \A o \in Orders :
    /\ o \in wire => broker[o] = "none"
    /\ op[o] \in {"new", "pending", "queued"} => o \notin wire /\ broker[o] = "none"

(* An operation that may still be sent is reserved.                                      *)
Budgeted ==
  \A o \in Orders : op[o] \in {"pending", "queued", "submitting"} => o \in reserved

(* The order at hand is submitting, and one that is being admitted is new.               *)
AtHand ==
  /\ pc \in Submitting => op[cur] = "submitting"
  /\ pc \in Unsent => cur \notin wire /\ broker[cur] = "none"
  /\ admitting # Nobody => op[admitting] = "new"

(* What a snapshot saw ended has ended.                                                  *)
SnapshotHolds == \A o \in Orders : snap[o] \in Terminal => broker[o] = snap[o]

OrdersInv == SentOnce /\ Budgeted /\ AtHand /\ SnapshotHolds /\ OpenOrdersAreReserved

(* A doubt is never without its kill, and an order that increases exposure has passed    *)
(* its check only while there was none.                                                  *)
DoubtInv ==
  /\ InDoubt \/ pc = "doubtful" => "unknown_ack" \in kills
  /\ pc \in {"authorized", "prepared"} /\ cur \in Increases => ~InDoubt

(* A cancellation is under way only under its claim of the lease.                        *)
ClaimHeld == pc \in Canceling => lease \in {"claimed", "revoking"}

(***************************************************************************)
(* A failure of something outside is counted only while it is possible.    *)
(***************************************************************************)
LEMMA OutcomeType ==
  ASSUME NEW ok \in BOOLEAN, faults \in 0..MaxFaults, Possible(ok), Outcome(ok)
  PROVE  faults' \in 0..MaxFaults
<1>1. CASE ok
  <2>1. faults' = faults
    BY <1>1, Zenon DEF Outcome
  <2> QED BY <2>1
<1>2. CASE ~ok
  <2>1. faults' = faults + 1 /\ faults < MaxFaults
    BY <1>2, Zenon DEF Outcome, Possible
  <2> QED BY <2>1, AutonomousAssumption
<1> QED BY <1>1, <1>2

(***************************************************************************)
(* Every step keeps the types of the operations.                           *)
(***************************************************************************)
LEMMA OperationsTypeStep ==
  ASSUME TypeOK, [Next]_vars
  PROVE  OperationsTypeOK'
<1> USE AutonomousAssumption DEF OperationsTypeOK, TypeOK, ThreadTypeOK, WorldTypeOK,
      operations, authority, cancels, journal, thread, network, world
<1>1. ASSUME NEW o \in Orders, NEW ok \in BOOLEAN, BeginAdmission(o, ok)
      PROVE  OperationsTypeOK'
  BY <1>1 DEF BeginAdmission
<1>2. ASSUME FinishAdmission
      PROVE  OperationsTypeOK'
  <2>1. admitting \in Orders
    BY <1>2 DEF FinishAdmission
  <2>2. Append(admitted, admitting) \in Seq(Orders)
    BY <2>1
  <2>3. (IF manual THEN "pending" ELSE "queued") \in {"pending", "queued"}
    OBVIOUS
  <2>4. CASE WithinBudget(admitting)
    <3> DEFINE state == IF manual THEN "pending" ELSE "queued"
    <3>1. op' = [op EXCEPT ![admitting] = state]
      BY <1>2, <2>4 DEF FinishAdmission
    <3>2. /\ reserved' = reserved \cup {admitting} /\ admitted' = Append(admitted, admitting)
          /\ usedViews' = usedViews \cup {view[admitting]} /\ UNCHANGED <<consumed, view>>
      BY <1>2, <2>4 DEF FinishAdmission
    <3> HIDE DEF state
    <3>3. state \in {"pending", "queued"}
      BY <2>3 DEF state
    <3>4. op' \in [Orders -> {"new", "pending", "queued", "submitting", "accepted", "unknown",
                            "reconciled", "blocked"}]
      BY <3>1, <3>3, <2>1
    <3>5. admitted' \in Seq(Orders)
      BY <2>2, <3>2
    <3> QED BY <3>2, <3>4, <3>5, <2>1
  <2>5. CASE ~WithinBudget(admitting)
    BY <1>2, <2>5 DEF FinishAdmission
  <2> QED BY <2>4, <2>5
<1>3. ASSUME NEW o \in Orders, NEW approved \in BOOLEAN, NEW measured \in BOOLEAN,
             Decide(o, approved, measured)
      PROVE  OperationsTypeOK'
  BY <1>3 DEF Decide
<1>4. ASSUME NEW seen \in BOOLEAN, NEW measured \in BOOLEAN, Observe(seen, measured)
      PROVE  OperationsTypeOK'
  BY <1>4 DEF Observe, ExpirePending
<1>5. ASSUME ClaimNothing
      PROVE  OperationsTypeOK'
  BY <1>5 DEF ClaimNothing
<1>6. ASSUME NEW o \in Orders, ClaimSubmission(o)
      PROVE  OperationsTypeOK'
  BY <1>6 DEF ClaimSubmission
<1>7. ASSUME NEW measured \in BOOLEAN, NEW ok \in BOOLEAN, CheckAuthorities(measured, ok)
      PROVE  OperationsTypeOK'
  BY <1>7 DEF CheckAuthorities
<1>8. ASSUME NEW measured \in BOOLEAN, NEW ok \in BOOLEAN, Validate(measured, ok)
      PROVE  OperationsTypeOK'
  BY <1>8 DEF Validate
<1>9. ASSUME Submit
      PROVE  OperationsTypeOK'
  BY <1>9 DEF Submit
<1>10. ASSUME ObserveAccepted
      PROVE  OperationsTypeOK'
  BY <1>10 DEF ObserveAccepted
<1>11. ASSUME SubmissionInDoubt
      PROVE  OperationsTypeOK'
  BY <1>11 DEF SubmissionInDoubt
<1>12. ASSUME FinishUnknown
      PROVE  OperationsTypeOK'
  BY <1>12 DEF FinishUnknown
<1>13. ASSUME BlockClaim
      PROVE  OperationsTypeOK'
  BY <1>13 DEF BlockClaim
<1>14. ASSUME Acknowledge
      PROVE  OperationsTypeOK'
  BY <1>14 DEF Acknowledge
<1>15. ASSUME CoverAcknowledged
      PROVE  OperationsTypeOK'
  BY <1>15 DEF CoverAcknowledged
<1>16. ASSUME NEW o \in Orders, RequestCancel(o)
      PROVE  OperationsTypeOK'
  BY <1>16 DEF RequestCancel
<1>17. ASSUME NEW o \in Orders, ClaimCancel(o)
      PROVE  OperationsTypeOK'
  BY <1>17 DEF ClaimCancel
<1>18. ASSUME PrepareCancel
      PROVE  OperationsTypeOK'
  BY <1>18 DEF PrepareCancel
<1>19. ASSUME RejectCancel
      PROVE  OperationsTypeOK'
  BY <1>19 DEF RejectCancel
<1>20. ASSUME SendCancel
      PROVE  OperationsTypeOK'
  BY <1>20 DEF SendCancel
<1>21. ASSUME ObserveCancel
      PROVE  OperationsTypeOK'
  BY <1>21 DEF ObserveCancel
<1>22. ASSUME CancelInDoubt
      PROVE  OperationsTypeOK'
  BY <1>22 DEF CancelInDoubt
<1>23. ASSUME FinishCancel
      PROVE  OperationsTypeOK'
  BY <1>23 DEF FinishCancel
<1>24. ASSUME Revoke
      PROVE  OperationsTypeOK'
  BY <1>24 DEF Revoke
<1>25. ASSUME NEW measured \in BOOLEAN, NEW ok \in BOOLEAN, TakeSnapshot(measured, ok)
      PROVE  OperationsTypeOK'
  BY <1>25 DEF TakeSnapshot
<1>26. ASSUME NEW ok \in BOOLEAN, ReconciliationFails(ok)
      PROVE  OperationsTypeOK'
  BY <1>26 DEF ReconciliationFails
<1>27. ASSUME ReportGaps
      PROVE  OperationsTypeOK'
  BY <1>27 DEF ReportGaps
<1>28. ASSUME Settle
      PROVE  OperationsTypeOK'
  BY <1>28 DEF Settle, Rows
<1>29. ASSUME ClearCoverage
      PROVE  OperationsTypeOK'
  BY <1>29 DEF ClearCoverage
<1>30. ASSUME ClearUnknown
      PROVE  OperationsTypeOK'
  BY <1>30 DEF ClearUnknown
<1>31. ASSUME NEW reason \in OperatorReasons, OperatorKill(reason)
      PROVE  OperationsTypeOK'
  BY <1>31 DEF OperatorKill
<1>32. ASSUME Stop
      PROVE  OperationsTypeOK'
  BY <1>32 DEF Stop
<1>33. ASSUME NEW measured \in BOOLEAN, Start(measured)
      PROVE  OperationsTypeOK'
  BY <1>33 DEF Start, Lapsed
<1>34. ASSUME AccountMoves
      PROVE  OperationsTypeOK'
  BY <1>34 DEF AccountMoves
<1>35. ASSUME NEW o \in Orders, Expire(o)
      PROVE  OperationsTypeOK'
  BY <1>35 DEF Expire
<1>36. ASSUME NEW o \in Orders, Deliver(o)
      PROVE  OperationsTypeOK'
  BY <1>36 DEF Deliver
<1>37. ASSUME NEW o \in Orders, DeliverCancel(o)
      PROVE  OperationsTypeOK'
  BY <1>37 DEF DeliverCancel
<1>38. ASSUME NEW o \in Orders, Fill(o)
      PROVE  OperationsTypeOK'
  BY <1>38 DEF Fill
<1>39. CASE UNCHANGED vars
  BY <1>39 DEF vars
<1> QED
  BY <1>1, <1>2, <1>3, <1>4, <1>5, <1>6, <1>7, <1>8, <1>9, <1>10, <1>11, <1>12, <1>13, <1>14, <1>15, <1>16, <1>17, <1>18, <1>19, <1>20, <1>21, <1>22, <1>23, <1>24, <1>25, <1>26, <1>27, <1>28, <1>29, <1>30, <1>31, <1>32, <1>33, <1>34, <1>35, <1>36, <1>37, <1>38, <1>39
  DEF Next, Dispatching, Cancellation, Reconciliation

(***************************************************************************)
(* Every step keeps the types of the cancellations, the kills, the lease   *)
(* and the provider's journal.                                             *)
(***************************************************************************)
LEMMA ProviderTypeStep ==
  ASSUME TypeOK, [Next]_vars
  PROVE  ProviderTypeOK'
<1> USE AutonomousAssumption DEF ProviderTypeOK, TypeOK, ThreadTypeOK, Reasons, Submitting, Canceling,
      operations, authority, cancels, journal, thread, network, world
<1>1. ASSUME NEW o \in Orders, NEW ok \in BOOLEAN, BeginAdmission(o, ok)
      PROVE  ProviderTypeOK'
  BY <1>1 DEF BeginAdmission, RiskKills
<1>2. ASSUME FinishAdmission
      PROVE  ProviderTypeOK'
  BY <1>2 DEF FinishAdmission
<1>3. ASSUME NEW o \in Orders, NEW approved \in BOOLEAN, NEW measured \in BOOLEAN,
             Decide(o, approved, measured)
      PROVE  ProviderTypeOK'
  BY <1>3 DEF Decide, Measured, RiskKills
<1>4. ASSUME NEW seen \in BOOLEAN, NEW measured \in BOOLEAN, Observe(seen, measured)
      PROVE  ProviderTypeOK'
  BY <1>4 DEF Observe, RiskKills
<1>5. ASSUME ClaimNothing
      PROVE  ProviderTypeOK'
  BY <1>5 DEF ClaimNothing
<1>6. ASSUME NEW o \in Orders, ClaimSubmission(o)
      PROVE  ProviderTypeOK'
  BY <1>6 DEF ClaimSubmission
<1>7. ASSUME NEW measured \in BOOLEAN, NEW ok \in BOOLEAN, CheckAuthorities(measured, ok)
      PROVE  ProviderTypeOK'
  BY <1>7 DEF CheckAuthorities, Measured, RiskKills
<1>8. ASSUME NEW measured \in BOOLEAN, NEW ok \in BOOLEAN, Validate(measured, ok)
      PROVE  ProviderTypeOK'
  BY <1>8 DEF Validate, Measured, RiskKills
<1>9. ASSUME Submit
      PROVE  ProviderTypeOK'
  BY <1>9 DEF Submit
<1>10. ASSUME ObserveAccepted
      PROVE  ProviderTypeOK'
  BY <1>10 DEF ObserveAccepted
<1>11. ASSUME SubmissionInDoubt
      PROVE  ProviderTypeOK'
  BY <1>11 DEF SubmissionInDoubt
<1>12. ASSUME FinishUnknown
      PROVE  ProviderTypeOK'
  BY <1>12 DEF FinishUnknown
<1>13. ASSUME BlockClaim
      PROVE  ProviderTypeOK'
  BY <1>13 DEF BlockClaim
<1>14. ASSUME Acknowledge
      PROVE  ProviderTypeOK'
  BY <1>14 DEF Acknowledge
<1>15. ASSUME CoverAcknowledged
      PROVE  ProviderTypeOK'
  BY <1>15 DEF CoverAcknowledged
<1>16. ASSUME NEW o \in Orders, RequestCancel(o)
      PROVE  ProviderTypeOK'
  BY <1>16 DEF RequestCancel
<1>17. ASSUME NEW o \in Orders, ClaimCancel(o)
      PROVE  ProviderTypeOK'
  BY <1>17 DEF ClaimCancel
<1>18. ASSUME PrepareCancel
      PROVE  ProviderTypeOK'
  BY <1>18 DEF PrepareCancel
<1>19. ASSUME RejectCancel
      PROVE  ProviderTypeOK'
  BY <1>19 DEF RejectCancel
<1>20. ASSUME SendCancel
      PROVE  ProviderTypeOK'
  BY <1>20 DEF SendCancel
<1>21. ASSUME ObserveCancel
      PROVE  ProviderTypeOK'
  BY <1>21 DEF ObserveCancel
<1>22. ASSUME CancelInDoubt
      PROVE  ProviderTypeOK'
  BY <1>22 DEF CancelInDoubt
<1>23. ASSUME FinishCancel
      PROVE  ProviderTypeOK'
  BY <1>23 DEF FinishCancel, Released
<1>24. ASSUME Revoke
      PROVE  ProviderTypeOK'
  BY <1>24 DEF Revoke
<1>25. ASSUME NEW measured \in BOOLEAN, NEW ok \in BOOLEAN, TakeSnapshot(measured, ok)
      PROVE  ProviderTypeOK'
  BY <1>25 DEF TakeSnapshot, RiskKills
<1>26. ASSUME NEW ok \in BOOLEAN, ReconciliationFails(ok)
      PROVE  ProviderTypeOK'
  BY <1>26 DEF ReconciliationFails
<1>27. ASSUME ReportGaps
      PROVE  ProviderTypeOK'
  BY <1>27 DEF ReportGaps
<1>28. ASSUME Settle
      PROVE  ProviderTypeOK'
  BY <1>28 DEF Settle
<1>29. ASSUME ClearCoverage
      PROVE  ProviderTypeOK'
  BY <1>29 DEF ClearCoverage
<1>30. ASSUME ClearUnknown
      PROVE  ProviderTypeOK'
  BY <1>30 DEF ClearUnknown
<1>31. ASSUME NEW reason \in OperatorReasons, OperatorKill(reason)
      PROVE  ProviderTypeOK'
  BY <1>31 DEF OperatorKill
<1>32. ASSUME Stop
      PROVE  ProviderTypeOK'
  BY <1>32 DEF Stop
<1>33. ASSUME NEW measured \in BOOLEAN, Start(measured)
      PROVE  ProviderTypeOK'
  BY <1>33 DEF Start, Released, RiskKills
<1>34. ASSUME AccountMoves
      PROVE  ProviderTypeOK'
  BY <1>34 DEF AccountMoves
<1>35. ASSUME NEW o \in Orders, Expire(o)
      PROVE  ProviderTypeOK'
  BY <1>35 DEF Expire
<1>36. ASSUME NEW o \in Orders, Deliver(o)
      PROVE  ProviderTypeOK'
  BY <1>36 DEF Deliver
<1>37. ASSUME NEW o \in Orders, DeliverCancel(o)
      PROVE  ProviderTypeOK'
  BY <1>37 DEF DeliverCancel
<1>38. ASSUME NEW o \in Orders, Fill(o)
      PROVE  ProviderTypeOK'
  BY <1>38 DEF Fill
<1>39. CASE UNCHANGED vars
  BY <1>39 DEF vars
<1> QED
  BY <1>1, <1>2, <1>3, <1>4, <1>5, <1>6, <1>7, <1>8, <1>9, <1>10, <1>11, <1>12, <1>13, <1>14, <1>15, <1>16, <1>17, <1>18, <1>19, <1>20, <1>21, <1>22, <1>23, <1>24, <1>25, <1>26, <1>27, <1>28, <1>29, <1>30, <1>31, <1>32, <1>33, <1>34, <1>35, <1>36, <1>37, <1>38, <1>39
  DEF Next, Dispatching, Cancellation, Reconciliation

(***************************************************************************)
(* Every step keeps the types of the thread; a call under way has an order *)
(* at hand.                                                                *)
(***************************************************************************)
LEMMA ThreadTypeStep ==
  ASSUME TypeOK, [Next]_vars
  PROVE  ThreadTypeOK'
<1> USE AutonomousAssumption DEF ThreadTypeOK, TypeOK, WorldTypeOK, Submitting, Canceling, Reconciling, Terminal, Goto, Done,
      operations, authority, cancels, journal, thread, network, world
<1>1. ASSUME NEW o \in Orders, NEW ok \in BOOLEAN, BeginAdmission(o, ok)
      PROVE  ThreadTypeOK'
  BY <1>1 DEF BeginAdmission
<1>2. ASSUME FinishAdmission
      PROVE  ThreadTypeOK'
  BY <1>2 DEF FinishAdmission
<1>3. ASSUME NEW o \in Orders, NEW approved \in BOOLEAN, NEW measured \in BOOLEAN,
             Decide(o, approved, measured)
      PROVE  ThreadTypeOK'
  BY <1>3 DEF Decide
<1>4. ASSUME NEW seen \in BOOLEAN, NEW measured \in BOOLEAN, Observe(seen, measured)
      PROVE  ThreadTypeOK'
  BY <1>4 DEF Observe
<1>5. ASSUME ClaimNothing
      PROVE  ThreadTypeOK'
  BY <1>5 DEF ClaimNothing
<1>6. ASSUME NEW o \in Orders, ClaimSubmission(o)
      PROVE  ThreadTypeOK'
  BY <1>6 DEF ClaimSubmission
<1>7. ASSUME NEW measured \in BOOLEAN, NEW ok \in BOOLEAN, CheckAuthorities(measured, ok)
      PROVE  ThreadTypeOK'
  BY <1>7 DEF CheckAuthorities
<1>8. ASSUME NEW measured \in BOOLEAN, NEW ok \in BOOLEAN, Validate(measured, ok)
      PROVE  ThreadTypeOK'
  BY <1>8 DEF Validate
<1>9. ASSUME Submit
      PROVE  ThreadTypeOK'
  BY <1>9 DEF Submit
<1>10. ASSUME ObserveAccepted
      PROVE  ThreadTypeOK'
  BY <1>10 DEF ObserveAccepted
<1>11. ASSUME SubmissionInDoubt
      PROVE  ThreadTypeOK'
  BY <1>11 DEF SubmissionInDoubt
<1>12. ASSUME FinishUnknown
      PROVE  ThreadTypeOK'
  BY <1>12 DEF FinishUnknown
<1>13. ASSUME BlockClaim
      PROVE  ThreadTypeOK'
  BY <1>13 DEF BlockClaim
<1>14. ASSUME Acknowledge
      PROVE  ThreadTypeOK'
  BY <1>14 DEF Acknowledge
<1>15. ASSUME CoverAcknowledged
      PROVE  ThreadTypeOK'
  BY <1>15 DEF CoverAcknowledged
<1>16. ASSUME NEW o \in Orders, RequestCancel(o)
      PROVE  ThreadTypeOK'
  BY <1>16 DEF RequestCancel
<1>17. ASSUME NEW o \in Orders, ClaimCancel(o)
      PROVE  ThreadTypeOK'
  BY <1>17 DEF ClaimCancel
<1>18. ASSUME PrepareCancel
      PROVE  ThreadTypeOK'
  BY <1>18 DEF PrepareCancel
<1>19. ASSUME RejectCancel
      PROVE  ThreadTypeOK'
  BY <1>19 DEF RejectCancel
<1>20. ASSUME SendCancel
      PROVE  ThreadTypeOK'
  BY <1>20 DEF SendCancel
<1>21. ASSUME ObserveCancel
      PROVE  ThreadTypeOK'
  BY <1>21 DEF ObserveCancel
<1>22. ASSUME CancelInDoubt
      PROVE  ThreadTypeOK'
  BY <1>22 DEF CancelInDoubt
<1>23. ASSUME FinishCancel
      PROVE  ThreadTypeOK'
  BY <1>23 DEF FinishCancel
<1>24. ASSUME Revoke
      PROVE  ThreadTypeOK'
  BY <1>24 DEF Revoke
<1>25. ASSUME NEW measured \in BOOLEAN, NEW ok \in BOOLEAN, TakeSnapshot(measured, ok)
      PROVE  ThreadTypeOK'
  BY <1>25 DEF TakeSnapshot
<1>26. ASSUME NEW ok \in BOOLEAN, ReconciliationFails(ok)
      PROVE  ThreadTypeOK'
  BY <1>26 DEF ReconciliationFails
<1>27. ASSUME ReportGaps
      PROVE  ThreadTypeOK'
  BY <1>27 DEF ReportGaps
<1>28. ASSUME Settle
      PROVE  ThreadTypeOK'
  BY <1>28 DEF Settle
<1>29. ASSUME ClearCoverage
      PROVE  ThreadTypeOK'
  BY <1>29 DEF ClearCoverage
<1>30. ASSUME ClearUnknown
      PROVE  ThreadTypeOK'
  BY <1>30 DEF ClearUnknown
<1>31. ASSUME NEW reason \in OperatorReasons, OperatorKill(reason)
      PROVE  ThreadTypeOK'
  BY <1>31 DEF OperatorKill
<1>32. ASSUME Stop
      PROVE  ThreadTypeOK'
  BY <1>32 DEF Stop
<1>33. ASSUME NEW measured \in BOOLEAN, Start(measured)
      PROVE  ThreadTypeOK'
  BY <1>33 DEF Start
<1>34. ASSUME AccountMoves
      PROVE  ThreadTypeOK'
  BY <1>34 DEF AccountMoves
<1>35. ASSUME NEW o \in Orders, Expire(o)
      PROVE  ThreadTypeOK'
  BY <1>35 DEF Expire
<1>36. ASSUME NEW o \in Orders, Deliver(o)
      PROVE  ThreadTypeOK'
  BY <1>36 DEF Deliver
<1>37. ASSUME NEW o \in Orders, DeliverCancel(o)
      PROVE  ThreadTypeOK'
  BY <1>37 DEF DeliverCancel
<1>38. ASSUME NEW o \in Orders, Fill(o)
      PROVE  ThreadTypeOK'
  BY <1>38 DEF Fill
<1>39. CASE UNCHANGED vars
  BY <1>39 DEF vars
<1> QED
  BY <1>1, <1>2, <1>3, <1>4, <1>5, <1>6, <1>7, <1>8, <1>9, <1>10, <1>11, <1>12, <1>13, <1>14, <1>15, <1>16, <1>17, <1>18, <1>19, <1>20, <1>21, <1>22, <1>23, <1>24, <1>25, <1>26, <1>27, <1>28, <1>29, <1>30, <1>31, <1>32, <1>33, <1>34, <1>35, <1>36, <1>37, <1>38, <1>39
  DEF Next, Dispatching, Cancellation, Reconciliation

(***************************************************************************)
(* Every step keeps the types of what is outside and of the bounds.        *)
(***************************************************************************)
LEMMA WorldTypeStep ==
  ASSUME TypeOK, [Next]_vars
  PROVE  WorldTypeOK'
<1> USE AutonomousAssumption DEF WorldTypeOK, TypeOK, ThreadTypeOK, Submitting, Canceling, Goto, Done, Terminal,
      operations, authority, cancels, journal, thread, network, world
<1>1. ASSUME NEW o \in Orders, NEW ok \in BOOLEAN, BeginAdmission(o, ok)
      PROVE  WorldTypeOK'
  <2>1. faults' \in 0..MaxFaults
    BY <1>1, OutcomeType DEF BeginAdmission
  <2> QED BY <1>1, <2>1 DEF BeginAdmission
<1>2. ASSUME FinishAdmission
      PROVE  WorldTypeOK'
  BY <1>2 DEF FinishAdmission
<1>3. ASSUME NEW o \in Orders, NEW approved \in BOOLEAN, NEW measured \in BOOLEAN,
             Decide(o, approved, measured)
      PROVE  WorldTypeOK'
  <2>1. faults' \in 0..MaxFaults
    BY <1>3, OutcomeType DEF Decide
  <2> QED BY <1>3, <2>1 DEF Decide
<1>4. ASSUME NEW seen \in BOOLEAN, NEW measured \in BOOLEAN, Observe(seen, measured)
      PROVE  WorldTypeOK'
  <2>1. faults' \in 0..MaxFaults
    BY <1>4, OutcomeType DEF Observe
  <2> QED BY <1>4, <2>1 DEF Observe
<1>5. ASSUME ClaimNothing
      PROVE  WorldTypeOK'
  BY <1>5 DEF ClaimNothing
<1>6. ASSUME NEW o \in Orders, ClaimSubmission(o)
      PROVE  WorldTypeOK'
  BY <1>6 DEF ClaimSubmission
<1>7. ASSUME NEW measured \in BOOLEAN, NEW ok \in BOOLEAN, CheckAuthorities(measured, ok)
      PROVE  WorldTypeOK'
  <2>1. faults' \in 0..MaxFaults
    BY <1>7, OutcomeType DEF CheckAuthorities
  <2> QED BY <1>7, <2>1 DEF CheckAuthorities
<1>8. ASSUME NEW measured \in BOOLEAN, NEW ok \in BOOLEAN, Validate(measured, ok)
      PROVE  WorldTypeOK'
  <2>1. faults' \in 0..MaxFaults
    BY <1>8, OutcomeType DEF Validate
  <2> QED BY <1>8, <2>1 DEF Validate
<1>9. ASSUME Submit
      PROVE  WorldTypeOK'
  BY <1>9 DEF Submit
<1>10. ASSUME ObserveAccepted
      PROVE  WorldTypeOK'
  BY <1>10 DEF ObserveAccepted
<1>11. ASSUME SubmissionInDoubt
      PROVE  WorldTypeOK'
  BY <1>11 DEF SubmissionInDoubt
<1>12. ASSUME FinishUnknown
      PROVE  WorldTypeOK'
  BY <1>12 DEF FinishUnknown
<1>13. ASSUME BlockClaim
      PROVE  WorldTypeOK'
  BY <1>13 DEF BlockClaim
<1>14. ASSUME Acknowledge
      PROVE  WorldTypeOK'
  BY <1>14 DEF Acknowledge
<1>15. ASSUME CoverAcknowledged
      PROVE  WorldTypeOK'
  BY <1>15 DEF CoverAcknowledged
<1>16. ASSUME NEW o \in Orders, RequestCancel(o)
      PROVE  WorldTypeOK'
  BY <1>16 DEF RequestCancel
<1>17. ASSUME NEW o \in Orders, ClaimCancel(o)
      PROVE  WorldTypeOK'
  BY <1>17 DEF ClaimCancel
<1>18. ASSUME PrepareCancel
      PROVE  WorldTypeOK'
  BY <1>18 DEF PrepareCancel
<1>19. ASSUME RejectCancel
      PROVE  WorldTypeOK'
  BY <1>19 DEF RejectCancel
<1>20. ASSUME SendCancel
      PROVE  WorldTypeOK'
  BY <1>20 DEF SendCancel
<1>21. ASSUME ObserveCancel
      PROVE  WorldTypeOK'
  BY <1>21 DEF ObserveCancel
<1>22. ASSUME CancelInDoubt
      PROVE  WorldTypeOK'
  BY <1>22 DEF CancelInDoubt
<1>23. ASSUME FinishCancel
      PROVE  WorldTypeOK'
  BY <1>23 DEF FinishCancel
<1>24. ASSUME Revoke
      PROVE  WorldTypeOK'
  BY <1>24 DEF Revoke
<1>25. ASSUME NEW measured \in BOOLEAN, NEW ok \in BOOLEAN, TakeSnapshot(measured, ok)
      PROVE  WorldTypeOK'
  <2>1. faults' \in 0..MaxFaults
    BY <1>25, OutcomeType DEF TakeSnapshot
  <2> QED BY <1>25, <2>1 DEF TakeSnapshot
<1>26. ASSUME NEW ok \in BOOLEAN, ReconciliationFails(ok)
      PROVE  WorldTypeOK'
  <2>1. faults' \in 0..MaxFaults
    BY <1>26, OutcomeType DEF ReconciliationFails
  <2> QED BY <1>26, <2>1 DEF ReconciliationFails
<1>27. ASSUME ReportGaps
      PROVE  WorldTypeOK'
  BY <1>27 DEF ReportGaps
<1>28. ASSUME Settle
      PROVE  WorldTypeOK'
  BY <1>28 DEF Settle
<1>29. ASSUME ClearCoverage
      PROVE  WorldTypeOK'
  BY <1>29 DEF ClearCoverage
<1>30. ASSUME ClearUnknown
      PROVE  WorldTypeOK'
  BY <1>30 DEF ClearUnknown
<1>31. ASSUME NEW reason \in OperatorReasons, OperatorKill(reason)
      PROVE  WorldTypeOK'
  BY <1>31 DEF OperatorKill
<1>32. ASSUME Stop
      PROVE  WorldTypeOK'
  BY <1>32 DEF Stop
<1>33. ASSUME NEW measured \in BOOLEAN, Start(measured)
      PROVE  WorldTypeOK'
  <2>1. faults' \in 0..MaxFaults
    BY <1>33, OutcomeType DEF Start
  <2> QED BY <1>33, <2>1 DEF Start
<1>34. ASSUME AccountMoves
      PROVE  WorldTypeOK'
  BY <1>34 DEF AccountMoves
<1>35. ASSUME NEW o \in Orders, Expire(o)
      PROVE  WorldTypeOK'
  BY <1>35 DEF Expire
<1>36. ASSUME NEW o \in Orders, Deliver(o)
      PROVE  WorldTypeOK'
  BY <1>36 DEF Deliver
<1>37. ASSUME NEW o \in Orders, DeliverCancel(o)
      PROVE  WorldTypeOK'
  BY <1>37 DEF DeliverCancel
<1>38. ASSUME NEW o \in Orders, Fill(o)
      PROVE  WorldTypeOK'
  BY <1>38 DEF Fill
<1>39. CASE UNCHANGED vars
  BY <1>39 DEF vars
<1> QED
  BY <1>1, <1>2, <1>3, <1>4, <1>5, <1>6, <1>7, <1>8, <1>9, <1>10, <1>11, <1>12, <1>13, <1>14, <1>15, <1>16, <1>17, <1>18, <1>19, <1>20, <1>21, <1>22, <1>23, <1>24, <1>25, <1>26, <1>27, <1>28, <1>29, <1>30, <1>31, <1>32, <1>33, <1>34, <1>35, <1>36, <1>37, <1>38, <1>39
  DEF Next, Dispatching, Cancellation, Reconciliation

(***************************************************************************)
(* Every step keeps what reservations rest on: an order is unknown outside *)
(* until it is claimed, and only an order that was never sent, or that a   *)
(* snapshot saw ended, gives its reservation back.                         *)
(***************************************************************************)
LEMMA OrdersStep ==
  ASSUME TypeOK, OrdersInv, [Next]_vars
  PROVE  OrdersInv'
<1> USE AutonomousAssumption DEF OrdersInv, SentOnce, Budgeted, AtHand, SnapshotHolds, OpenOrdersAreReserved,
      TypeOK, OperationsTypeOK, ThreadTypeOK, WorldTypeOK, Unsent, Submitting, Canceling,
      Reconciling, Terminal, Goto, Done,
      operations, authority, cancels, journal, thread, network, world
<1>1. ASSUME NEW o \in Orders, NEW ok \in BOOLEAN, BeginAdmission(o, ok)
      PROVE  OrdersInv'
  BY <1>1 DEF BeginAdmission
<1>2. ASSUME FinishAdmission
      PROVE  OrdersInv'
  BY <1>2 DEF FinishAdmission
<1>3. ASSUME NEW o \in Orders, NEW approved \in BOOLEAN, NEW measured \in BOOLEAN,
             Decide(o, approved, measured)
      PROVE  OrdersInv'
  BY <1>3 DEF Decide, Lapsed
<1>4. ASSUME NEW seen \in BOOLEAN, NEW measured \in BOOLEAN, Observe(seen, measured)
      PROVE  OrdersInv'
  BY <1>4 DEF Observe, ExpirePending, Lapsed
<1>5. ASSUME ClaimNothing
      PROVE  OrdersInv'
  BY <1>5 DEF ClaimNothing
<1>6. ASSUME NEW o \in Orders, ClaimSubmission(o)
      PROVE  OrdersInv'
  <2>1. op[o] = "queued"
    BY <1>6, Zenon DEF ClaimSubmission, Oldest
  <2>2. CASE kills # {} /\ o \in Increases
    <3>1. /\ op' = [op EXCEPT ![o] = "blocked"] /\ reserved' = reserved \ {o}
          /\ pc' = "idle" /\ cur' = Nobody /\ snap' = [p \in Orders |-> "none"]
          /\ UNCHANGED <<network, admitting>>
      BY <1>6, <2>2 DEF ClaimSubmission
    <3> QED BY <2>1, <3>1
  <2>3. CASE ~(kills # {} /\ o \in Increases)
    BY <1>6, <2>1, <2>3 DEF ClaimSubmission
  <2> QED BY <2>2, <2>3
<1>7. ASSUME NEW measured \in BOOLEAN, NEW ok \in BOOLEAN, CheckAuthorities(measured, ok)
      PROVE  OrdersInv'
  BY <1>7 DEF CheckAuthorities
<1>8. ASSUME NEW measured \in BOOLEAN, NEW ok \in BOOLEAN, Validate(measured, ok)
      PROVE  OrdersInv'
  BY <1>8 DEF Validate
<1>9. ASSUME Submit
      PROVE  OrdersInv'
  BY <1>9 DEF Submit
<1>10. ASSUME ObserveAccepted
      PROVE  OrdersInv'
  BY <1>10 DEF ObserveAccepted
<1>11. ASSUME SubmissionInDoubt
      PROVE  OrdersInv'
  BY <1>11 DEF SubmissionInDoubt
<1>12. ASSUME FinishUnknown
      PROVE  OrdersInv'
  BY <1>12 DEF FinishUnknown
<1>13. ASSUME BlockClaim
      PROVE  OrdersInv'
  BY <1>13 DEF BlockClaim
<1>14. ASSUME Acknowledge
      PROVE  OrdersInv'
  BY <1>14 DEF Acknowledge
<1>15. ASSUME CoverAcknowledged
      PROVE  OrdersInv'
  BY <1>15 DEF CoverAcknowledged
<1>16. ASSUME NEW o \in Orders, RequestCancel(o)
      PROVE  OrdersInv'
  BY <1>16 DEF RequestCancel
<1>17. ASSUME NEW o \in Orders, ClaimCancel(o)
      PROVE  OrdersInv'
  BY <1>17 DEF ClaimCancel
<1>18. ASSUME PrepareCancel
      PROVE  OrdersInv'
  BY <1>18 DEF PrepareCancel
<1>19. ASSUME RejectCancel
      PROVE  OrdersInv'
  BY <1>19 DEF RejectCancel
<1>20. ASSUME SendCancel
      PROVE  OrdersInv'
  BY <1>20 DEF SendCancel
<1>21. ASSUME ObserveCancel
      PROVE  OrdersInv'
  BY <1>21 DEF ObserveCancel
<1>22. ASSUME CancelInDoubt
      PROVE  OrdersInv'
  BY <1>22 DEF CancelInDoubt
<1>23. ASSUME FinishCancel
      PROVE  OrdersInv'
  BY <1>23 DEF FinishCancel
<1>24. ASSUME Revoke
      PROVE  OrdersInv'
  BY <1>24 DEF Revoke
<1>25. ASSUME NEW measured \in BOOLEAN, NEW ok \in BOOLEAN, TakeSnapshot(measured, ok)
      PROVE  OrdersInv'
  BY <1>25 DEF TakeSnapshot
<1>26. ASSUME NEW ok \in BOOLEAN, ReconciliationFails(ok)
      PROVE  OrdersInv'
  BY <1>26 DEF ReconciliationFails
<1>27. ASSUME ReportGaps
      PROVE  OrdersInv'
  BY <1>27 DEF ReportGaps
<1>28. ASSUME Settle
      PROVE  OrdersInv'
  BY <1>28 DEF Settle, Rows, Covered
<1>29. ASSUME ClearCoverage
      PROVE  OrdersInv'
  BY <1>29 DEF ClearCoverage
<1>30. ASSUME ClearUnknown
      PROVE  OrdersInv'
  BY <1>30 DEF ClearUnknown
<1>31. ASSUME NEW reason \in OperatorReasons, OperatorKill(reason)
      PROVE  OrdersInv'
  BY <1>31 DEF OperatorKill
<1>32. ASSUME Stop
      PROVE  OrdersInv'
  BY <1>32 DEF Stop
<1>33. ASSUME NEW measured \in BOOLEAN, Start(measured)
      PROVE  OrdersInv'
  BY <1>33 DEF Start, Lapsed
<1>34. ASSUME AccountMoves
      PROVE  OrdersInv'
  BY <1>34 DEF AccountMoves
<1>35. ASSUME NEW o \in Orders, Expire(o)
      PROVE  OrdersInv'
  BY <1>35 DEF Expire
<1>36. ASSUME NEW o \in Orders, Deliver(o)
      PROVE  OrdersInv'
  BY <1>36 DEF Deliver
<1>37. ASSUME NEW o \in Orders, DeliverCancel(o)
      PROVE  OrdersInv'
  BY <1>37 DEF DeliverCancel
<1>38. ASSUME NEW o \in Orders, Fill(o)
      PROVE  OrdersInv'
  BY <1>38 DEF Fill
<1>39. CASE UNCHANGED vars
  BY <1>39 DEF vars
<1> QED
  BY <1>1, <1>2, <1>3, <1>4, <1>5, <1>6, <1>7, <1>8, <1>9, <1>10, <1>11, <1>12, <1>13, <1>14, <1>15, <1>16, <1>17, <1>18, <1>19, <1>20, <1>21, <1>22, <1>23, <1>24, <1>25, <1>26, <1>27, <1>28, <1>29, <1>30, <1>31, <1>32, <1>33, <1>34, <1>35, <1>36, <1>37, <1>38, <1>39
  DEF Next, Dispatching, Cancellation, Reconciliation

(***************************************************************************)
(* Every step keeps each doubt with its kill.  The runtime thread is one,  *)
(* so no doubt begins between the check of an order and its call.          *)
(***************************************************************************)
LEMMA DoubtStep ==
  ASSUME TypeOK, DoubtInv, OrdersInv, [Next]_vars
  PROVE  DoubtInv'
<1> USE AutonomousAssumption DEF DoubtInv, InDoubt, TypeOK, OperationsTypeOK, ProviderTypeOK, ThreadTypeOK,
      OrdersInv, AtHand, Submitting, Canceling, Reconciling, Terminal, Goto, Done,
      operations, authority, cancels, journal, thread, network, world
<1>1. ASSUME NEW o \in Orders, NEW ok \in BOOLEAN, BeginAdmission(o, ok)
      PROVE  DoubtInv'
  BY <1>1 DEF BeginAdmission, RiskKills
<1>2. ASSUME FinishAdmission
      PROVE  DoubtInv'
  BY <1>2 DEF FinishAdmission
<1>3. ASSUME NEW o \in Orders, NEW approved \in BOOLEAN, NEW measured \in BOOLEAN,
             Decide(o, approved, measured)
      PROVE  DoubtInv'
  BY <1>3 DEF Decide, Measured, RiskKills, Lapsed
<1>4. ASSUME NEW seen \in BOOLEAN, NEW measured \in BOOLEAN, Observe(seen, measured)
      PROVE  DoubtInv'
  BY <1>4 DEF Observe, RiskKills, ExpirePending, Lapsed
<1>5. ASSUME ClaimNothing
      PROVE  DoubtInv'
  BY <1>5 DEF ClaimNothing
<1>6. ASSUME NEW o \in Orders, ClaimSubmission(o)
      PROVE  DoubtInv'
  BY <1>6 DEF ClaimSubmission
<1>7. ASSUME NEW measured \in BOOLEAN, NEW ok \in BOOLEAN, CheckAuthorities(measured, ok)
      PROVE  DoubtInv'
  BY <1>7 DEF CheckAuthorities, Measured, RiskKills, Authorized
<1>8. ASSUME NEW measured \in BOOLEAN, NEW ok \in BOOLEAN, Validate(measured, ok)
      PROVE  DoubtInv'
  BY <1>8 DEF Validate, Measured, RiskKills, Authorized
<1>9. ASSUME Submit
      PROVE  DoubtInv'
  BY <1>9 DEF Submit
<1>10. ASSUME ObserveAccepted
      PROVE  DoubtInv'
  BY <1>10 DEF ObserveAccepted
<1>11. ASSUME SubmissionInDoubt
      PROVE  DoubtInv'
  BY <1>11 DEF SubmissionInDoubt
<1>12. ASSUME FinishUnknown
      PROVE  DoubtInv'
  BY <1>12 DEF FinishUnknown
<1>13. ASSUME BlockClaim
      PROVE  DoubtInv'
  BY <1>13 DEF BlockClaim
<1>14. ASSUME Acknowledge
      PROVE  DoubtInv'
  BY <1>14 DEF Acknowledge
<1>15. ASSUME CoverAcknowledged
      PROVE  DoubtInv'
  BY <1>15 DEF CoverAcknowledged
<1>16. ASSUME NEW o \in Orders, RequestCancel(o)
      PROVE  DoubtInv'
  BY <1>16 DEF RequestCancel
<1>17. ASSUME NEW o \in Orders, ClaimCancel(o)
      PROVE  DoubtInv'
  BY <1>17 DEF ClaimCancel
<1>18. ASSUME PrepareCancel
      PROVE  DoubtInv'
  BY <1>18 DEF PrepareCancel
<1>19. ASSUME RejectCancel
      PROVE  DoubtInv'
  BY <1>19 DEF RejectCancel
<1>20. ASSUME SendCancel
      PROVE  DoubtInv'
  BY <1>20 DEF SendCancel
<1>21. ASSUME ObserveCancel
      PROVE  DoubtInv'
  BY <1>21 DEF ObserveCancel
<1>22. ASSUME CancelInDoubt
      PROVE  DoubtInv'
  BY <1>22 DEF CancelInDoubt
<1>23. ASSUME FinishCancel
      PROVE  DoubtInv'
  BY <1>23 DEF FinishCancel
<1>24. ASSUME Revoke
      PROVE  DoubtInv'
  BY <1>24 DEF Revoke
<1>25. ASSUME NEW measured \in BOOLEAN, NEW ok \in BOOLEAN, TakeSnapshot(measured, ok)
      PROVE  DoubtInv'
  BY <1>25 DEF TakeSnapshot, RiskKills
<1>26. ASSUME NEW ok \in BOOLEAN, ReconciliationFails(ok)
      PROVE  DoubtInv'
  BY <1>26 DEF ReconciliationFails
<1>27. ASSUME ReportGaps
      PROVE  DoubtInv'
  BY <1>27 DEF ReportGaps
<1>28. ASSUME Settle
      PROVE  DoubtInv'
  BY <1>28 DEF Settle, Rows, Covered
<1>29. ASSUME ClearCoverage
      PROVE  DoubtInv'
  BY <1>29 DEF ClearCoverage
<1>30. ASSUME ClearUnknown
      PROVE  DoubtInv'
  BY <1>30 DEF ClearUnknown
<1>31. ASSUME NEW reason \in OperatorReasons, OperatorKill(reason)
      PROVE  DoubtInv'
  BY <1>31 DEF OperatorKill
<1>32. ASSUME Stop
      PROVE  DoubtInv'
  BY <1>32 DEF Stop
<1>33. ASSUME NEW measured \in BOOLEAN, Start(measured)
      PROVE  DoubtInv'
  BY <1>33 DEF Start, Interrupted, RiskKills, Lapsed
<1>34. ASSUME AccountMoves
      PROVE  DoubtInv'
  BY <1>34 DEF AccountMoves
<1>35. ASSUME NEW o \in Orders, Expire(o)
      PROVE  DoubtInv'
  BY <1>35 DEF Expire
<1>36. ASSUME NEW o \in Orders, Deliver(o)
      PROVE  DoubtInv'
  BY <1>36 DEF Deliver
<1>37. ASSUME NEW o \in Orders, DeliverCancel(o)
      PROVE  DoubtInv'
  BY <1>37 DEF DeliverCancel
<1>38. ASSUME NEW o \in Orders, Fill(o)
      PROVE  DoubtInv'
  BY <1>38 DEF Fill
<1>39. CASE UNCHANGED vars
  BY <1>39 DEF vars
<1> QED
  BY <1>1, <1>2, <1>3, <1>4, <1>5, <1>6, <1>7, <1>8, <1>9, <1>10, <1>11, <1>12, <1>13, <1>14, <1>15, <1>16, <1>17, <1>18, <1>19, <1>20, <1>21, <1>22, <1>23, <1>24, <1>25, <1>26, <1>27, <1>28, <1>29, <1>30, <1>31, <1>32, <1>33, <1>34, <1>35, <1>36, <1>37, <1>38, <1>39
  DEF Next, Dispatching, Cancellation, Reconciliation

(***************************************************************************)
(* Every step keeps a cancellation under its claim: a revocation waits.    *)
(***************************************************************************)
LEMMA ClaimStep ==
  ASSUME TypeOK, ClaimHeld, [Next]_vars
  PROVE  ClaimHeld'
<1> USE AutonomousAssumption DEF ClaimHeld, TypeOK, ProviderTypeOK, ThreadTypeOK, Submitting, Canceling, Reconciling, Terminal, Goto, Done,
      operations, authority, cancels, journal, thread, network, world
<1>1. ASSUME NEW o \in Orders, NEW ok \in BOOLEAN, BeginAdmission(o, ok)
      PROVE  ClaimHeld'
  BY <1>1 DEF BeginAdmission
<1>2. ASSUME FinishAdmission
      PROVE  ClaimHeld'
  BY <1>2 DEF FinishAdmission
<1>3. ASSUME NEW o \in Orders, NEW approved \in BOOLEAN, NEW measured \in BOOLEAN,
             Decide(o, approved, measured)
      PROVE  ClaimHeld'
  BY <1>3 DEF Decide
<1>4. ASSUME NEW seen \in BOOLEAN, NEW measured \in BOOLEAN, Observe(seen, measured)
      PROVE  ClaimHeld'
  BY <1>4 DEF Observe
<1>5. ASSUME ClaimNothing
      PROVE  ClaimHeld'
  BY <1>5 DEF ClaimNothing
<1>6. ASSUME NEW o \in Orders, ClaimSubmission(o)
      PROVE  ClaimHeld'
  BY <1>6 DEF ClaimSubmission
<1>7. ASSUME NEW measured \in BOOLEAN, NEW ok \in BOOLEAN, CheckAuthorities(measured, ok)
      PROVE  ClaimHeld'
  BY <1>7 DEF CheckAuthorities
<1>8. ASSUME NEW measured \in BOOLEAN, NEW ok \in BOOLEAN, Validate(measured, ok)
      PROVE  ClaimHeld'
  BY <1>8 DEF Validate
<1>9. ASSUME Submit
      PROVE  ClaimHeld'
  BY <1>9 DEF Submit
<1>10. ASSUME ObserveAccepted
      PROVE  ClaimHeld'
  BY <1>10 DEF ObserveAccepted
<1>11. ASSUME SubmissionInDoubt
      PROVE  ClaimHeld'
  BY <1>11 DEF SubmissionInDoubt
<1>12. ASSUME FinishUnknown
      PROVE  ClaimHeld'
  BY <1>12 DEF FinishUnknown
<1>13. ASSUME BlockClaim
      PROVE  ClaimHeld'
  BY <1>13 DEF BlockClaim
<1>14. ASSUME Acknowledge
      PROVE  ClaimHeld'
  BY <1>14 DEF Acknowledge
<1>15. ASSUME CoverAcknowledged
      PROVE  ClaimHeld'
  BY <1>15 DEF CoverAcknowledged
<1>16. ASSUME NEW o \in Orders, RequestCancel(o)
      PROVE  ClaimHeld'
  BY <1>16 DEF RequestCancel
<1>17. ASSUME NEW o \in Orders, ClaimCancel(o)
      PROVE  ClaimHeld'
  BY <1>17 DEF ClaimCancel
<1>18. ASSUME PrepareCancel
      PROVE  ClaimHeld'
  BY <1>18 DEF PrepareCancel
<1>19. ASSUME RejectCancel
      PROVE  ClaimHeld'
  BY <1>19 DEF RejectCancel
<1>20. ASSUME SendCancel
      PROVE  ClaimHeld'
  BY <1>20 DEF SendCancel
<1>21. ASSUME ObserveCancel
      PROVE  ClaimHeld'
  BY <1>21 DEF ObserveCancel
<1>22. ASSUME CancelInDoubt
      PROVE  ClaimHeld'
  BY <1>22 DEF CancelInDoubt
<1>23. ASSUME FinishCancel
      PROVE  ClaimHeld'
  BY <1>23 DEF FinishCancel, Released
<1>24. ASSUME Revoke
      PROVE  ClaimHeld'
  BY <1>24 DEF Revoke
<1>25. ASSUME NEW measured \in BOOLEAN, NEW ok \in BOOLEAN, TakeSnapshot(measured, ok)
      PROVE  ClaimHeld'
  BY <1>25 DEF TakeSnapshot
<1>26. ASSUME NEW ok \in BOOLEAN, ReconciliationFails(ok)
      PROVE  ClaimHeld'
  BY <1>26 DEF ReconciliationFails
<1>27. ASSUME ReportGaps
      PROVE  ClaimHeld'
  BY <1>27 DEF ReportGaps
<1>28. ASSUME Settle
      PROVE  ClaimHeld'
  BY <1>28 DEF Settle
<1>29. ASSUME ClearCoverage
      PROVE  ClaimHeld'
  BY <1>29 DEF ClearCoverage
<1>30. ASSUME ClearUnknown
      PROVE  ClaimHeld'
  BY <1>30 DEF ClearUnknown
<1>31. ASSUME NEW reason \in OperatorReasons, OperatorKill(reason)
      PROVE  ClaimHeld'
  BY <1>31 DEF OperatorKill
<1>32. ASSUME Stop
      PROVE  ClaimHeld'
  BY <1>32 DEF Stop
<1>33. ASSUME NEW measured \in BOOLEAN, Start(measured)
      PROVE  ClaimHeld'
  BY <1>33 DEF Start, Released
<1>34. ASSUME AccountMoves
      PROVE  ClaimHeld'
  BY <1>34 DEF AccountMoves
<1>35. ASSUME NEW o \in Orders, Expire(o)
      PROVE  ClaimHeld'
  BY <1>35 DEF Expire
<1>36. ASSUME NEW o \in Orders, Deliver(o)
      PROVE  ClaimHeld'
  BY <1>36 DEF Deliver
<1>37. ASSUME NEW o \in Orders, DeliverCancel(o)
      PROVE  ClaimHeld'
  BY <1>37 DEF DeliverCancel
<1>38. ASSUME NEW o \in Orders, Fill(o)
      PROVE  ClaimHeld'
  BY <1>38 DEF Fill
<1>39. CASE UNCHANGED vars
  BY <1>39 DEF vars
<1> QED
  BY <1>1, <1>2, <1>3, <1>4, <1>5, <1>6, <1>7, <1>8, <1>9, <1>10, <1>11, <1>12, <1>13, <1>14, <1>15, <1>16, <1>17, <1>18, <1>19, <1>20, <1>21, <1>22, <1>23, <1>24, <1>25, <1>26, <1>27, <1>28, <1>29, <1>30, <1>31, <1>32, <1>33, <1>34, <1>35, <1>36, <1>37, <1>38, <1>39
  DEF Next, Dispatching, Cancellation, Reconciliation

(***************************************************************************)
(* What holds at the start.                                                *)
(***************************************************************************)
LEMMA InitHolds ==
  Init => TypeOK /\ OrdersInv /\ DoubtInv /\ ClaimHeld
<1> SUFFICES ASSUME Init PROVE TypeOK /\ OrdersInv /\ DoubtInv /\ ClaimHeld
  OBVIOUS
<1> USE AutonomousAssumption DEF Init, Submitting, Canceling, Reconciling, Terminal
<1>1. OperationsTypeOK /\ ProviderTypeOK
  BY DEF OperationsTypeOK, ProviderTypeOK, Reasons
<1>2. ThreadTypeOK
  BY DEF ThreadTypeOK
<1>3. WorldTypeOK
  BY DEF WorldTypeOK
<1>4. OrdersInv
  BY DEF OrdersInv, SentOnce, Budgeted, AtHand, Unsent, SnapshotHolds, OpenOrdersAreReserved
<1>5. DoubtInv /\ ClaimHeld
  BY DEF DoubtInv, InDoubt, ClaimHeld
<1> QED BY <1>1, <1>2, <1>3, <1>4, <1>5 DEF TypeOK

(***************************************************************************)
(* Only two steps send something.                                          *)
(***************************************************************************)
LEMMA Senders ==
  ASSUME [Next]_vars
  PROVE  /\ Submit \/ wire' \subseteq wire
         /\ SendCancel \/ cwire' \subseteq cwire
BY DEF Next, Dispatching, Cancellation, Reconciliation, vars,
  BeginAdmission, FinishAdmission, Decide, Observe, ClaimNothing, ClaimSubmission,
  CheckAuthorities, Validate, Submit, ObserveAccepted, SubmissionInDoubt, FinishUnknown,
  BlockClaim, Acknowledge, CoverAcknowledged, RequestCancel, ClaimCancel, PrepareCancel,
  RejectCancel, SendCancel, ObserveCancel, CancelInDoubt, FinishCancel, Revoke,
  TakeSnapshot, ReconciliationFails, ReportGaps, Settle, ClearCoverage, ClearUnknown,
  OperatorKill, Stop, Start, AccountMoves, Expire, Deliver, DeliverCancel, Fill, operations,
  authority, cancels, journal, thread, network, world

(***************************************************************************)
(* The inductive invariant.                                                *)
(***************************************************************************)
IInv == TypeOK /\ OrdersInv /\ DoubtInv /\ ClaimHeld

THEOREM Invariant == Spec => []IInv
<1>1. Init => IInv
  BY InitHolds DEF IInv
<1>2. IInv /\ [Next]_vars => IInv'
  BY OperationsTypeStep, ProviderTypeStep, ThreadTypeStep, WorldTypeStep, OrdersStep,
     DoubtStep, ClaimStep DEF IInv, TypeOK
<1> QED BY <1>1, <1>2, PTL DEF Spec

(***************************************************************************)
(* Every variable keeps its type.                                          *)
(***************************************************************************)
THEOREM TypeCorrect == Spec => []TypeOK
BY Invariant, PTL DEF IInv

(***************************************************************************)
(* Every order that is on its way to the broker or open there is counted   *)
(* in the budgets: it holds its reservation.                               *)
(***************************************************************************)
THEOREM ReservationsHold == Spec => []OpenOrdersAreReserved
BY Invariant, PTL DEF IInv, OrdersInv

(***************************************************************************)
(* While the fate of an order or of a cancellation is unknown, no order    *)
(* that opens or increases exposure is sent.                               *)
(***************************************************************************)
THEOREM NoIncreaseInDoubt == Spec => DoubtBlocksIncrease
<1>1. IInv /\ [Next]_vars => [InDoubt => wire' \cap Increases \subseteq wire]_vars
  BY Senders DEF IInv, DoubtInv, Submit
<1> QED BY <1>1, Invariant, PTL DEF Spec, DoubtBlocksIncrease

(***************************************************************************)
(* Once the lease of the provider is revoked no cancellation is sent.      *)
(***************************************************************************)
THEOREM RevocationIsFinal == Spec => RevokedLeaseCancelsNothing
<1>1. IInv /\ [Next]_vars => [lease = "revoked" => cwire' \subseteq cwire]_vars
  BY Senders DEF IInv, ClaimHeld, SendCancel, Canceling
<1> QED BY <1>1, Invariant, PTL DEF Spec, RevokedLeaseCancelsNothing

(***************************************************************************)
(* No order is sent again, whatever was lost, refused or recovered: what   *)
(* leaves for the broker has not left before and is not there yet.         *)
(***************************************************************************)
NeverSentTwice == [][\A o \in wire' \ wire : broker[o] = "none" /\ op[o] = "submitting"]_vars

THEOREM SentAtMostOnce == Spec => NeverSentTwice
<1>1. IInv /\ [Next]_vars =>
        [\A o \in wire' \ wire : broker[o] = "none" /\ op[o] = "submitting"]_vars
  BY Senders DEF IInv, OrdersInv, AtHand, Submit, Submitting, Unsent
<1> QED BY <1>1, Invariant, PTL DEF Spec, NeverSentTwice
=============================================================================
