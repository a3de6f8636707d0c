----------------------- MODULE PaperExecutionProofs -----------------------
(***************************************************************************)
(* Proofs about PaperExecution for any number of orders, cancellations,    *)
(* workers and provider versions, and any bound on kill activations.       *)
(***************************************************************************)
EXTENDS PaperExecution, TLAPS

-----------------------------------------------------------------------------
(* Type correctness *)

(* The initial state is well typed. *)
LEMMA TypeInit == Init => TypeOK
<1> SUFFICES ASSUME Init PROVE TypeOK
  OBVIOUS
<1> USE DEF Init
<1>1. (CHOOSE v \in Versions : TRUE) \in Versions
  BY ConstantsAssumption
<1>2. IntentsTypeOK
  BY <1>1 DEF IntentsTypeOK, Approvals, Outboxes, ProvStatuses, BookStates, Leases
<1>3. CancelsTypeOK
  BY DEF CancelsTypeOK, CancelStates, Leases
<1>4. ControlsTypeOK
  BY DEF ControlsTypeOK, BookStates, EmptyBook
<1>5. WorkersTypeOK
  BY DEF WorkersTypeOK, BookStates, EmptyBook, SubmitPCs, CancelPCs, OtherPCs
<1> QED BY <1>2, <1>3, <1>4, <1>5 DEF TypeOK

(* Closing a cancellation attempt, with or without its lease, is well typed. *)
LEMMA EndCancellationType ==
  ASSUME TypeOK, NEW w \in Workers, job[w] \in Cancels,
         NEW state \in CancelStates \ {"absent"}, NEW blocked \in BOOLEAN,
         EndCancellation(w, state, blocked)
  PROVE  TypeOK'
<1> USE DEF TypeOK, EndCancellation, OwnsCancellation, intentVars, cancelVars, killVars,
        providerVars, readVars,
            historyVars
<1>1. CancelsTypeOK'
  <2>1. CASE OwnsCancellation(w, job[w])
    <3>1. /\ cstate' = [cstate EXCEPT ![job[w]] = state]
          /\ clease' = [clease EXCEPT ![job[w]] = "none"]
          /\ UNCHANGED <<target, replacement, linked, cattempts>>
      BY <2>1
    <3> QED BY <3>1, <2>1 DEF CancelsTypeOK, CancelStates, Leases
  <2>2. CASE ~(OwnsCancellation(w, job[w]))
    BY <2>2 DEF CancelsTypeOK
  <2> QED BY <2>1, <2>2
<1>2. ControlsTypeOK'
  BY DEF ControlsTypeOK
<1>3. IntentsTypeOK' /\ WorkersTypeOK'
  BY DEF IntentsTypeOK, WorkersTypeOK, Return, Take, SubmitPCs, CancelPCs, OtherPCs
<1> QED BY <1>1, <1>2, <1>3

(* Every step keeps every variable in its type. *)
LEMMA TypeStep == TypeOK /\ [Next]_vars => TypeOK'
<1> SUFFICES ASSUME TypeOK, [Next]_vars PROVE TypeOK'
  OBVIOUS
<1> USE ConstantsAssumption
    DEF TypeOK, Approvals, Outboxes, ProvStatuses, BookStates, Leases, CancelStates, SubmitPCs,
        CancelPCs, OtherPCs, intentVars, cancelVars, killVars, providerVars, readVars, historyVars
<1>1. ASSUME NEW w \in Workers, NEW o \in Orders, Admit(w, o) PROVE TypeOK'
  BY <1>1
     DEF Admit, AdmitRow, Outcomes, IntentsTypeOK, CancelsTypeOK, ControlsTypeOK, WorkersTypeOK
<1>2. ASSUME NEW w \in Workers, NEW o \in Orders, NEW approve \in BOOLEAN, Decide(w, o, approve)
      PROVE TypeOK'
  BY <1>2 DEF Decide, IntentsTypeOK, CancelsTypeOK, ControlsTypeOK, WorkersTypeOK
<1>3. ASSUME NEW w \in Workers, NEW o \in Orders, NEW c \in Cancels, RequestCancel(w, o, c)
      PROVE TypeOK'
  BY <1>3
     DEF RequestCancel, RecordCancellation, IntentsTypeOK, CancelsTypeOK, ControlsTypeOK,
         WorkersTypeOK
<1>4. ASSUME NEW w \in Workers, NEW o \in Orders, NEW c \in Cancels, NEW r \in Orders,
             RequestReplace(w, o, c, r)
      PROVE TypeOK'
  BY <1>4
     DEF RequestReplace, RecordCancellation, IntentsTypeOK, CancelsTypeOK, ControlsTypeOK,
         WorkersTypeOK
<1>5. ASSUME NEW w \in Workers, NEW c \in Cancels, NEW approve \in BOOLEAN,
             DecideCancellation(w, c, approve)
      PROVE TypeOK'
  BY <1>5 DEF DecideCancellation, IntentsTypeOK, CancelsTypeOK, ControlsTypeOK, WorkersTypeOK
<1>6. ASSUME NEW w \in Workers, NEW c \in Cancels, AdmitReplacement(w, c) PROVE TypeOK'
  <2>1. IntentsTypeOK'
    <3>1. replacement[c] \in Orders
      BY <1>6 DEF AdmitReplacement, ReplacementReady, CancelsTypeOK
    <3>2. CASE UNCHANGED intentVars
      BY <3>2 DEF IntentsTypeOK
    <3>3. ASSUME NEW outcome \in Outcomes, AdmitRow(w, replacement[c], outcome)
          PROVE  IntentsTypeOK'
      BY <3>1, <3>3 DEF AdmitRow, Outcomes, IntentsTypeOK
    <3> QED BY <3>2, <3>3, <1>6 DEF AdmitReplacement
  <2>2. CancelsTypeOK'
    BY <1>6 DEF AdmitReplacement, Take, AdmitRow, Outcomes, ReplacementReady, CancelsTypeOK
  <2>3. ControlsTypeOK'
    BY <1>6 DEF AdmitReplacement, Take, AdmitRow, Outcomes, ReplacementReady, ControlsTypeOK
  <2>4. WorkersTypeOK'
    <3>1. madeFor' \in [Orders -> Cancels \cup {NoJob}]
      BY <1>6 DEF AdmitReplacement, WorkersTypeOK
    <3>2. /\ pc' = [pc EXCEPT ![w] = "linking"] /\ job' = [job EXCEPT ![w] = c]
          /\ token' = [token EXCEPT ![w] = 0]
          /\ UNCHANGED <<gen, seenBook, seenClean, covers, sinceKill, confirmed>>
      BY <1>6 DEF AdmitReplacement, Take
    <3> QED BY <3>1, <3>2 DEF WorkersTypeOK
  <2> QED BY <2>1, <2>2, <2>3, <2>4
<1>7. ASSUME NEW w \in Workers, LinkReplacement(w) PROVE TypeOK'
  BY <1>7
     DEF LinkReplacement, Return, Take, IntentsTypeOK, CancelsTypeOK, ControlsTypeOK,
         WorkersTypeOK
<1>8. ASSUME NEW w \in Workers, DispatchBegin(w) PROVE TypeOK'
  BY <1>8
     DEF DispatchBegin, Goto, RecoverIntents, Lapsed, IntentsTypeOK, CancelsTypeOK,
         ControlsTypeOK, WorkersTypeOK
<1>9. ASSUME NEW w \in Workers, ClaimNothing(w) PROVE TypeOK'
  BY <1>9
     DEF ClaimNothing, Goto, Forget, IntentsTypeOK, CancelsTypeOK, ControlsTypeOK, WorkersTypeOK
<1>10. ASSUME NEW w \in Workers, NEW o \in Orders, ClaimExpires(w, o) PROVE TypeOK'
  BY <1>10
     DEF ClaimExpires, Goto, Forget, IntentsTypeOK, CancelsTypeOK, ControlsTypeOK, WorkersTypeOK
<1>11. ASSUME NEW w \in Workers, NEW o \in Orders, ClaimNext(w, o) PROVE TypeOK'
  BY <1>11
     DEF ClaimNext, Take, Started, IntentsTypeOK, CancelsTypeOK, ControlsTypeOK, WorkersTypeOK
<1>12. ASSUME NEW w \in Workers, NEW open \in BOOLEAN, Recheck(w, open) PROVE TypeOK'
  BY <1>12 DEF Recheck, Goto, IntentsTypeOK, CancelsTypeOK, ControlsTypeOK, WorkersTypeOK
<1>13. ASSUME NEW w \in Workers, ValidateSubmission(w) PROVE TypeOK'
  BY <1>13
     DEF ValidateSubmission, Goto, IntentsTypeOK, CancelsTypeOK, ControlsTypeOK, WorkersTypeOK
<1>14. ASSUME NEW w \in Workers, ProviderSubmit(w) PROVE TypeOK'
  BY <1>14
     DEF ProviderSubmit, Goto, SubmitReplies, IntentsTypeOK, CancelsTypeOK, ControlsTypeOK,
         WorkersTypeOK
<1>15. ASSUME NEW w \in Workers, ProviderDeclines(w) PROVE TypeOK'
  BY <1>15
     DEF ProviderDeclines, Goto, IntentsTypeOK, CancelsTypeOK, ControlsTypeOK, WorkersTypeOK
<1>16. ASSUME NEW w \in Workers, Acknowledge(w) PROVE TypeOK'
  <2>1. IntentsTypeOK'
    <3>1. job[w] \in Orders
      BY <1>16 DEF Acknowledge, WorkersTypeOK
    <3>2. CASE HoldsLease(w, job[w])
      <4>1. /\ outbox' = [outbox EXCEPT ![job[w]] = "accepted"]
            /\ lease' = [lease EXCEPT ![job[w]] = "none"]
            /\ provStatus' = [provStatus EXCEPT ![job[w]] = "accepted"]
            /\ UNCHANGED <<approval, bound, attempts>>
        BY <3>2, <1>16 DEF Acknowledge
      <4> QED BY <4>1, <3>1 DEF IntentsTypeOK
    <3>3. CASE ~(HoldsLease(w, job[w]))
      BY <3>3, <1>16 DEF Acknowledge, IntentsTypeOK
    <3> QED BY <3>2, <3>3
  <2>2. CancelsTypeOK'
    BY <1>16 DEF Acknowledge, Return, Take, CancelsTypeOK
  <2>3. ControlsTypeOK'
    BY <1>16 DEF Acknowledge, Return, Take, ControlsTypeOK
  <2>4. WorkersTypeOK'
    BY <1>16 DEF Acknowledge, Return, Take, WorkersTypeOK
  <2> QED BY <2>1, <2>2, <2>3, <2>4
<1>17. ASSUME NEW w \in Workers, ExpireClaimBeforeSubmit(w) PROVE TypeOK'
  <2>1. IntentsTypeOK'
    <3>1. job[w] \in Orders
      BY <1>17 DEF ExpireClaimBeforeSubmit, WorkersTypeOK
    <3>2. CASE OwnsClaim(w, job[w])
      <4>1. /\ outbox' = [outbox EXCEPT ![job[w]] = "expired"]
            /\ lease' = [lease EXCEPT ![job[w]] = "none"]
            /\ provStatus' = provStatus
            /\ UNCHANGED <<approval, bound, attempts>>
        BY <3>2, <1>17 DEF ExpireClaimBeforeSubmit
      <4> QED BY <4>1, <3>1 DEF IntentsTypeOK
    <3>3. CASE ~(OwnsClaim(w, job[w]))
      BY <3>3, <1>17 DEF ExpireClaimBeforeSubmit, IntentsTypeOK
    <3> QED BY <3>2, <3>3
  <2>2. CancelsTypeOK'
    BY <1>17 DEF ExpireClaimBeforeSubmit, Return, Take, OwnsClaim, CancelsTypeOK
  <2>3. ControlsTypeOK'
    BY <1>17 DEF ExpireClaimBeforeSubmit, Return, Take, OwnsClaim, ControlsTypeOK
  <2>4. WorkersTypeOK'
    BY <1>17 DEF ExpireClaimBeforeSubmit, Return, Take, OwnsClaim, WorkersTypeOK
  <2> QED BY <2>1, <2>2, <2>3, <2>4
<1>18. ASSUME NEW w \in Workers, FinishAmbiguous(w) PROVE TypeOK'
  <2>1. IntentsTypeOK'
    <3>1. job[w] \in Orders
      BY <1>18 DEF FinishAmbiguous, WorkersTypeOK
    <3>2. CASE HoldsLease(w, job[w])
      <4>1. /\ outbox' = [outbox EXCEPT ![job[w]] = "unknown"]
            /\ lease' = [lease EXCEPT ![job[w]] = "none"]
            /\ provStatus' = provStatus
            /\ UNCHANGED <<approval, bound, attempts>>
        BY <3>2, <1>18 DEF FinishAmbiguous
      <4> QED BY <4>1, <3>1 DEF IntentsTypeOK
    <3>3. CASE ~(HoldsLease(w, job[w]))
      BY <3>3, <1>18 DEF FinishAmbiguous, IntentsTypeOK
    <3> QED BY <3>2, <3>3
  <2>2. CancelsTypeOK'
    BY <1>18 DEF FinishAmbiguous, Return, Take, CancelsTypeOK
  <2>3. ControlsTypeOK'
    BY <1>18 DEF FinishAmbiguous, Return, Take, ControlsTypeOK
  <2>4. WorkersTypeOK'
    BY <1>18 DEF FinishAmbiguous, Return, Take, WorkersTypeOK
  <2> QED BY <2>1, <2>2, <2>3, <2>4
<1>19. ASSUME NEW w \in Workers, CancelDispatchBegin(w) PROVE TypeOK'
  BY <1>19
     DEF CancelDispatchBegin, Goto, RecoverCancels, CLapsed, IntentsTypeOK, CancelsTypeOK,
         ControlsTypeOK, WorkersTypeOK
<1>20. ASSUME NEW w \in Workers, CancelClaimNothing(w) PROVE TypeOK'
  BY <1>20
     DEF CancelClaimNothing, Goto, Forget, IntentsTypeOK, CancelsTypeOK, ControlsTypeOK,
         WorkersTypeOK
<1>21. ASSUME NEW w \in Workers, NEW c \in Cancels, CancelClaimExpires(w, c) PROVE TypeOK'
  BY <1>21
     DEF CancelClaimExpires, Goto, Forget, IntentsTypeOK, CancelsTypeOK, ControlsTypeOK,
         WorkersTypeOK
<1>22. ASSUME NEW w \in Workers, NEW c \in Cancels, ClaimNextCancellation(w, c) PROVE TypeOK'
  BY <1>22
     DEF ClaimNextCancellation, Take, Started, IntentsTypeOK, CancelsTypeOK, ControlsTypeOK,
         WorkersTypeOK
<1>23. ASSUME NEW w \in Workers, ValidateCancellation(w) PROVE TypeOK'
  BY <1>23
     DEF ValidateCancellation, Goto, IntentsTypeOK, CancelsTypeOK, ControlsTypeOK, WorkersTypeOK
<1>24. ASSUME NEW w \in Workers, ProviderCancel(w) PROVE TypeOK'
  <2>1. IntentsTypeOK'
    BY <1>24 DEF ProviderCancel, Goto, CancelReplies, IntentsTypeOK
  <2>2. CancelsTypeOK'
    BY <1>24 DEF ProviderCancel, Goto, CancelReplies, CancelsTypeOK
  <2>3. ControlsTypeOK'
    <3>1. book' = [book EXCEPT ![target[job[w]]] = IF @ = "accepted" THEN "canceled" ELSE @]
      BY <1>24 DEF ProviderCancel
    <3>2. book' \in [Orders -> BookStates]
      BY <3>1 DEF ControlsTypeOK
    <3>3. UNCHANGED <<gate, killActive, killGen, completeGens, authority, external>>
      BY <1>24 DEF ProviderCancel
    <3> QED BY <3>2, <3>3 DEF ControlsTypeOK
  <2>4. WorkersTypeOK'
    BY <1>24 DEF ProviderCancel, Goto, CancelReplies, WorkersTypeOK
  <2> QED BY <2>1, <2>2, <2>3, <2>4
<1>25. ASSUME NEW w \in Workers, ProviderCancelFails(w) PROVE TypeOK'
  BY <1>25
     DEF ProviderCancelFails, Goto, IntentsTypeOK, CancelsTypeOK, ControlsTypeOK, WorkersTypeOK
<1>26. ASSUME NEW w \in Workers, AcknowledgeCancellation(w) PROVE TypeOK'
  <2>1. job[w] \in Cancels
    BY <1>26 DEF AcknowledgeCancellation, WorkersTypeOK
  <2>2. EndCancellation(w, "acknowledged", TRUE)
    BY <1>26 DEF AcknowledgeCancellation
  <2> QED BY <2>1, <2>2, EndCancellationType
<1>27. ASSUME NEW w \in Workers, FinishAmbiguousCancellation(w) PROVE TypeOK'
  <2>1. job[w] \in Cancels
    BY <1>27 DEF FinishAmbiguousCancellation, WorkersTypeOK
  <2>2. EndCancellation(w, "unknown", TRUE)
    BY <1>27 DEF FinishAmbiguousCancellation
  <2> QED BY <2>1, <2>2, EndCancellationType
<1>28. ASSUME NEW w \in Workers, ExpireCancellation(w) PROVE TypeOK'
  <2>1. job[w] \in Cancels
    BY <1>28 DEF ExpireCancellation, WorkersTypeOK
  <2>2. EndCancellation(w, "expired", FALSE)
    BY <1>28 DEF ExpireCancellation
  <2> QED BY <2>1, <2>2, EndCancellationType
<1>29. ASSUME NEW w \in Workers, ReconcileBegin(w) PROVE TypeOK'
  BY <1>29 DEF ReconcileBegin, Goto, RecoverIntents, Lapsed, IntentsTypeOK, CancelsTypeOK,
         ControlsTypeOK, WorkersTypeOK
<1>29a. ASSUME NEW w \in Workers, SampleGeneration(w) PROVE TypeOK'
  BY <1>29a DEF SampleGeneration, Goto, RecoverCancels, CLapsed, IntentsTypeOK, CancelsTypeOK,
         ControlsTypeOK, WorkersTypeOK
<1>30. ASSUME NEW w \in Workers, NEW complete \in BOOLEAN, Snapshot(w, complete) PROVE TypeOK'
  BY <1>30 DEF Snapshot, Goto, IntentsTypeOK, CancelsTypeOK, ControlsTypeOK, WorkersTypeOK
<1>31. ASSUME NEW w \in Workers, ReconcileCommit(w) PROVE TypeOK'
  <2>1. IntentsTypeOK'
    <3>1. CASE Complete(w)
      <4>1. ApplySnapshot(w)
        BY <3>1, <1>31 DEF ReconcileCommit
      <4>2. \A o \in Orders : seenBook[w][o] \in BookStates
        BY DEF WorkersTypeOK
      <4> QED BY <4>1, <4>2 DEF ApplySnapshot, IntentsTypeOK
    <3>2. CASE ~Complete(w)
      BY <3>2, <1>31 DEF ReconcileCommit, IntentsTypeOK
    <3> QED BY <3>1, <3>2
  <2>2. CancelsTypeOK'
    <3>1. CASE Complete(w)
      <4>1. ApplySnapshot(w)
        BY <3>1, <1>31 DEF ReconcileCommit
      <4>2. \A c \in Cancels : cstate'[c] # "absent" => cstate[c] # "absent"
        BY <4>1 DEF ApplySnapshot, OpenCancellations, CancelUnsettled
      <4> QED BY <4>1, <4>2 DEF ApplySnapshot, OpenCancellations, CancelsTypeOK, CancelUnsettled
    <3>2. CASE ~Complete(w)
      BY <3>2, <1>31 DEF ReconcileCommit, CancelsTypeOK
    <3> QED BY <3>1, <3>2
  <2>3. ControlsTypeOK'
    <3>1. gen[w] \in Nat
      BY DEF WorkersTypeOK
    <3>2. /\ gate' \in BOOLEAN
          /\ completeGens' \in {completeGens, completeGens \cup {gen[w]}}
          /\ UNCHANGED <<killActive, killGen, authority, book, external>>
      BY <1>31 DEF ReconcileCommit, RunGeneration
    <3> QED BY <3>1, <3>2 DEF ControlsTypeOK
  <2>4. WorkersTypeOK'
    <3>1. confirmed' \in BOOLEAN
      BY <1>31 DEF ReconcileCommit, WorkersTypeOK
    <3> QED BY <3>1, <1>31 DEF ReconcileCommit, Return, Take, EmptyBook, WorkersTypeOK
  <2> QED BY <2>1, <2>2, <2>3, <2>4
<1>32. ASSUME NEW w \in Workers, Crash(w) PROVE TypeOK'
  BY <1>32
     DEF Crash, Take, IntentsTypeOK, CancelsTypeOK, ControlsTypeOK, WorkersTypeOK, EmptyBook
<1>33. ASSUME NEW w \in Workers, Start(w) PROVE TypeOK'
  BY <1>33 DEF Start, Goto, IntentsTypeOK, CancelsTypeOK, ControlsTypeOK, WorkersTypeOK
<1>34. ASSUME ActivateKillSwitch PROVE TypeOK'
  <2>1. IntentsTypeOK'
    BY <1>34 DEF ActivateKillSwitch, IntentsTypeOK
  <2>2. CancelsTypeOK'
    BY <1>34 DEF ActivateKillSwitch, CancelsTypeOK
  <2>3. ControlsTypeOK'
    <3>1. killGen' \in Nat
      BY <1>34 DEF ActivateKillSwitch, ControlsTypeOK
    <3> QED BY <3>1, <1>34 DEF ActivateKillSwitch, ControlsTypeOK
  <2>4. WorkersTypeOK'
    BY <1>34 DEF ActivateKillSwitch, WorkersTypeOK
  <2> QED BY <2>1, <2>2, <2>3, <2>4
<1>35. ASSUME ClearKillSwitch PROVE TypeOK'
  BY <1>35 DEF ClearKillSwitch, IntentsTypeOK, CancelsTypeOK, ControlsTypeOK, WorkersTypeOK
<1>36. ASSUME NEW o \in Orders, LeaseLapses(o) PROVE TypeOK'
  BY <1>36 DEF LeaseLapses, IntentsTypeOK, CancelsTypeOK, ControlsTypeOK, WorkersTypeOK
<1>37. ASSUME NEW c \in Cancels, CancelLeaseLapses(c) PROVE TypeOK'
  BY <1>37 DEF CancelLeaseLapses, IntentsTypeOK, CancelsTypeOK, ControlsTypeOK, WorkersTypeOK
<1>38. ASSUME NEW o \in Orders, AuthorityLapses(o) PROVE TypeOK'
  BY <1>38 DEF AuthorityLapses, IntentsTypeOK, CancelsTypeOK, ControlsTypeOK, WorkersTypeOK
<1>39. ASSUME NEW o \in Orders, Fill(o) PROVE TypeOK'
  BY <1>39 DEF Fill, IntentsTypeOK, CancelsTypeOK, ControlsTypeOK, WorkersTypeOK
<1>40. ASSUME ExternalOrder PROVE TypeOK'
  BY <1>40 DEF ExternalOrder, IntentsTypeOK, CancelsTypeOK, ControlsTypeOK, WorkersTypeOK
<1>u. CASE UNCHANGED vars
  BY <1>u DEF vars, IntentsTypeOK, CancelsTypeOK, ControlsTypeOK, WorkersTypeOK
<1> QED
    BY <1>1, <1>2, <1>3, <1>4, <1>5, <1>6, <1>7, <1>8, <1>9, <1>10, <1>11, <1>12, <1>13,
     <1>14, <1>15, <1>16, <1>17, <1>18, <1>19, <1>20, <1>21, <1>22, <1>23, <1>24, <1>25,
     <1>26, <1>27, <1>28, <1>29, <1>29a, <1>30, <1>31, <1>32, <1>33, <1>34, <1>35, <1>36, <1>37,
     <1>38, <1>39, <1>40, <1>u DEF Next, Request, Submission, Cancellation,
     Reconciliation, Environment

(* Every variable keeps its type in every behaviour of the specification. *)
THEOREM TypeCorrect == Spec => []TypeOK
BY TypeInit, TypeStep, PTL DEF Spec

-----------------------------------------------------------------------------
(* The gate and the rows in doubt *)

(* No step opens the gate over a row in doubt, or brings a second row in doubt. *)
LEMMA SettledStep == TypeOK /\ SettledInv /\ [Next]_vars => SettledInv'
<1> SUFFICES ASSUME TypeOK, SettledInv, [Next]_vars PROVE SettledInv'
  OBVIOUS
<1> USE DEF TypeOK, IntentsTypeOK, CancelsTypeOK, SettledInv, GateOpenMeansSettled, OneInDoubt,
        LeasesAreClaims, OnlyApprovedQueued,
        Unsettled,
        CancelUnsettled, Tracked, intentVars, cancelVars
<1>1. ASSUME NEW w \in Workers, NEW o \in Orders, Admit(w, o) PROVE SettledInv'
  BY <1>1 DEF Admit, AdmitRow, Outcomes
<1>2. ASSUME NEW w \in Workers, NEW o \in Orders, NEW approve \in BOOLEAN, Decide(w, o, approve)
      PROVE SettledInv'
  BY <1>2 DEF Decide
<1>3. ASSUME NEW w \in Workers, NEW o \in Orders, NEW c \in Cancels, RequestCancel(w, o, c)
      PROVE SettledInv'
  BY <1>3 DEF RequestCancel, RecordCancellation
<1>4. ASSUME NEW w \in Workers, NEW o \in Orders, NEW c \in Cancels, NEW r \in Orders,
             RequestReplace(w, o, c, r)
      PROVE SettledInv'
  BY <1>4 DEF RequestReplace, RecordCancellation
<1>5. ASSUME NEW w \in Workers, NEW c \in Cancels, NEW approve \in BOOLEAN,
             DecideCancellation(w, c, approve)
      PROVE SettledInv'
  BY <1>5 DEF DecideCancellation
<1>6. ASSUME NEW w \in Workers, NEW c \in Cancels, AdmitReplacement(w, c) PROVE SettledInv'
  BY <1>6 DEF AdmitReplacement, AdmitRow, Outcomes, ReplacementReady
<1>7. ASSUME NEW w \in Workers, LinkReplacement(w) PROVE SettledInv'
  BY <1>7 DEF LinkReplacement
<1>8. ASSUME NEW w \in Workers, DispatchBegin(w) PROVE SettledInv'
  BY <1>8 DEF DispatchBegin, RecoverIntents, Lapsed
<1>9. ASSUME NEW w \in Workers, ClaimNothing(w) PROVE SettledInv'
  BY <1>9 DEF ClaimNothing
<1>10. ASSUME NEW w \in Workers, NEW o \in Orders, ClaimExpires(w, o) PROVE SettledInv'
  BY <1>10 DEF ClaimExpires
<1>11. ASSUME NEW w \in Workers, NEW o \in Orders, ClaimNext(w, o) PROVE SettledInv'
  <2>1. \A p \in Orders : outbox[p] \notin Unsettled /\ lease[p] = "none"
    BY <1>11 DEF ClaimNext, DispatchOpen, Leases
  <2>2. \A c \in Cancels : cstate[c] \notin CancelUnsettled /\ clease[c] = "none"
    BY <1>11 DEF ClaimNext, DispatchOpen, Leases
  <2>3. /\ outbox' = [outbox EXCEPT ![o] = "submitting"]
        /\ lease' = [lease EXCEPT ![o] = "live"]
        /\ gate' = TRUE
        /\ UNCHANGED <<approval, cstate, clease>>
    BY <1>11 DEF ClaimNext
  <2>4. approval[o] = "approved"
    BY <1>11 DEF ClaimNext
  <2> QED BY <2>1, <2>2, <2>3, <2>4
<1>12. ASSUME NEW w \in Workers, NEW open \in BOOLEAN, Recheck(w, open) PROVE SettledInv'
  BY <1>12 DEF Recheck
<1>13. ASSUME NEW w \in Workers, ValidateSubmission(w) PROVE SettledInv'
  BY <1>13 DEF ValidateSubmission
<1>14. ASSUME NEW w \in Workers, ProviderSubmit(w) PROVE SettledInv'
  BY <1>14 DEF ProviderSubmit
<1>15. ASSUME NEW w \in Workers, ProviderDeclines(w) PROVE SettledInv'
  BY <1>15 DEF ProviderDeclines
<1>16. ASSUME NEW w \in Workers, Acknowledge(w) PROVE SettledInv'
  <2>1. job[w] \in Orders
    BY <1>16 DEF Acknowledge, WorkersTypeOK, SubmitPCs
  <2>2. CASE HoldsLease(w, job[w])
    <3>1. outbox[job[w]] = "submitting"
      BY <2>1, <2>2 DEF HoldsLease, OwnsClaim
    <3>2. /\ outbox' = [outbox EXCEPT ![job[w]] = "accepted"]
          /\ lease' = [lease EXCEPT ![job[w]] = "none"]
          /\ gate' = TRUE
          /\ UNCHANGED <<approval, cstate, clease>>
      BY <2>2, <1>16 DEF Acknowledge
    <3> QED BY <2>1, <3>1, <3>2
  <2>3. CASE ~(HoldsLease(w, job[w]))
    BY <2>3, <1>16 DEF Acknowledge
  <2> QED BY <2>2, <2>3
<1>17. ASSUME NEW w \in Workers, ExpireClaimBeforeSubmit(w) PROVE SettledInv'
  <2>1. job[w] \in Orders
    BY <1>17 DEF ExpireClaimBeforeSubmit, WorkersTypeOK, SubmitPCs
  <2>2. CASE OwnsClaim(w, job[w])
    <3>1. outbox[job[w]] = "submitting"
      BY <2>1, <2>2 DEF HoldsLease, OwnsClaim
    <3>2. /\ outbox' = [outbox EXCEPT ![job[w]] = "expired"]
          /\ lease' = [lease EXCEPT ![job[w]] = "none"]
          /\ gate' = FALSE
          /\ UNCHANGED <<approval, cstate, clease>>
      BY <2>2, <1>17 DEF ExpireClaimBeforeSubmit
    <3> QED BY <2>1, <3>1, <3>2
  <2>3. CASE ~(OwnsClaim(w, job[w]))
    BY <2>3, <1>17 DEF ExpireClaimBeforeSubmit
  <2> QED BY <2>2, <2>3
<1>18. ASSUME NEW w \in Workers, FinishAmbiguous(w) PROVE SettledInv'
  <2>1. job[w] \in Orders
    BY <1>18 DEF FinishAmbiguous, WorkersTypeOK, SubmitPCs
  <2>2. CASE HoldsLease(w, job[w])
    <3>1. outbox[job[w]] = "submitting"
      BY <2>1, <2>2 DEF HoldsLease, OwnsClaim
    <3>2. /\ outbox' = [outbox EXCEPT ![job[w]] = "unknown"]
          /\ lease' = [lease EXCEPT ![job[w]] = "none"]
          /\ gate' = TRUE
          /\ UNCHANGED <<approval, cstate, clease>>
      BY <2>2, <1>18 DEF FinishAmbiguous
    <3> QED BY <2>1, <3>1, <3>2
  <2>3. CASE ~(HoldsLease(w, job[w]))
    BY <2>3, <1>18 DEF FinishAmbiguous
  <2> QED BY <2>2, <2>3
<1>19. ASSUME NEW w \in Workers, CancelDispatchBegin(w) PROVE SettledInv'
  BY <1>19 DEF CancelDispatchBegin, RecoverCancels, CLapsed
<1>20. ASSUME NEW w \in Workers, CancelClaimNothing(w) PROVE SettledInv'
  BY <1>20 DEF CancelClaimNothing
<1>21. ASSUME NEW w \in Workers, NEW c \in Cancels, CancelClaimExpires(w, c) PROVE SettledInv'
  BY <1>21 DEF CancelClaimExpires
<1>22. ASSUME NEW w \in Workers, NEW c \in Cancels, ClaimNextCancellation(w, c)
       PROVE SettledInv'
  BY <1>22 DEF ClaimNextCancellation
<1>23. ASSUME NEW w \in Workers, ValidateCancellation(w) PROVE SettledInv'
  BY <1>23 DEF ValidateCancellation
<1>24. ASSUME NEW w \in Workers, ProviderCancel(w) PROVE SettledInv'
  BY <1>24 DEF ProviderCancel
<1>25. ASSUME NEW w \in Workers, ProviderCancelFails(w) PROVE SettledInv'
  BY <1>25 DEF ProviderCancelFails
<1>26. ASSUME NEW w \in Workers, AcknowledgeCancellation(w) PROVE SettledInv'
  BY <1>26 DEF AcknowledgeCancellation, EndCancellation, OwnsCancellation
<1>27. ASSUME NEW w \in Workers, FinishAmbiguousCancellation(w) PROVE SettledInv'
  BY <1>27 DEF FinishAmbiguousCancellation, EndCancellation, OwnsCancellation
<1>28. ASSUME NEW w \in Workers, ExpireCancellation(w) PROVE SettledInv'
  <2>1. job[w] \in Cancels
    BY <1>28 DEF ExpireCancellation, WorkersTypeOK, CancelPCs
  <2>2. CASE OwnsCancellation(w, job[w])
    <3>1. /\ cstate' = [cstate EXCEPT ![job[w]] = "expired"]
          /\ clease' = [clease EXCEPT ![job[w]] = "none"]
          /\ gate' = FALSE
          /\ UNCHANGED <<approval, outbox, lease>>
      BY <2>2, <1>28 DEF ExpireCancellation, EndCancellation
    <3> QED BY <2>1, <2>2, <3>1 DEF OwnsCancellation
  <2>3. CASE ~(OwnsCancellation(w, job[w]))
    BY <2>3, <1>28 DEF ExpireCancellation, EndCancellation
  <2> QED BY <2>2, <2>3
<1>29. ASSUME NEW w \in Workers, ReconcileBegin(w) PROVE SettledInv'
  BY <1>29 DEF ReconcileBegin, RecoverIntents, Lapsed
<1>29a. ASSUME NEW w \in Workers, SampleGeneration(w) PROVE SettledInv'
  BY <1>29a DEF SampleGeneration, RecoverCancels, CLapsed
<1>30. ASSUME NEW w \in Workers, NEW complete \in BOOLEAN, Snapshot(w, complete)
       PROVE SettledInv'
  BY <1>30 DEF Snapshot
<1>31. ASSUME NEW w \in Workers, ReconcileCommit(w) PROVE SettledInv'
  BY <1>31 DEF ReconcileCommit, ApplySnapshot, OpenCancellations, RunGeneration
<1>32. ASSUME NEW w \in Workers, Crash(w) PROVE SettledInv'
  BY <1>32 DEF Crash
<1>33. ASSUME NEW w \in Workers, Start(w) PROVE SettledInv'
  BY <1>33 DEF Start
<1>34. ASSUME ActivateKillSwitch PROVE SettledInv'
  BY <1>34 DEF ActivateKillSwitch
<1>35. ASSUME ClearKillSwitch PROVE SettledInv'
  BY <1>35 DEF ClearKillSwitch
<1>36. ASSUME NEW o \in Orders, LeaseLapses(o) PROVE SettledInv'
  BY <1>36 DEF LeaseLapses
<1>37. ASSUME NEW c \in Cancels, CancelLeaseLapses(c) PROVE SettledInv'
  BY <1>37 DEF CancelLeaseLapses
<1>38. ASSUME NEW o \in Orders, AuthorityLapses(o) PROVE SettledInv'
  BY <1>38 DEF AuthorityLapses
<1>39. ASSUME NEW o \in Orders, Fill(o) PROVE SettledInv'
  BY <1>39 DEF Fill
<1>40. ASSUME ExternalOrder PROVE SettledInv'
  BY <1>40 DEF ExternalOrder
<1>u. CASE UNCHANGED vars
  BY <1>u DEF vars
<1> HIDE DEF TypeOK, IntentsTypeOK, CancelsTypeOK, SettledInv, GateOpenMeansSettled, OneInDoubt,
        LeasesAreClaims, OnlyApprovedQueued,
        Unsettled,
        CancelUnsettled, Tracked, intentVars, cancelVars
<1> QED
    BY <1>1, <1>2, <1>3, <1>4, <1>5, <1>6, <1>7, <1>8, <1>9, <1>10, <1>11, <1>12, <1>13,
     <1>14, <1>15, <1>16, <1>17, <1>18, <1>19, <1>20, <1>21, <1>22, <1>23, <1>24, <1>25,
     <1>26, <1>27, <1>28, <1>29, <1>29a, <1>30, <1>31, <1>32, <1>33, <1>34, <1>35, <1>36, <1>37,
     <1>38, <1>39, <1>40, <1>u DEF Next, Request, Submission, Cancellation,
     Reconciliation, Environment

(* The initial state satisfies the invariant of the gate. *)
LEMMA SettledInit == Init => SettledInv
BY DEF Init, SettledInv, GateOpenMeansSettled, OneInDoubt, LeasesAreClaims, OnlyApprovedQueued,
       Unsettled, CancelUnsettled

(* _claim_next, the closing transactions, reconcile and the restart block: *)
(* in every behaviour, an open gate has no submission and no cancellation  *)
(* in doubt behind it.                                                     *)
THEOREM GateSafety == Spec => []GateOpenMeansSettled
<1>1. Spec => [](TypeOK /\ SettledInv)
  BY TypeInit, TypeStep, SettledInit, SettledStep, PTL DEF Spec
<1>2. TypeOK /\ SettledInv => GateOpenMeansSettled
  BY DEF SettledInv
<1> QED BY <1>1, <1>2, PTL

(* At most one provider call is in doubt at any time, over all instances. *)
THEOREM SingleDoubt == Spec => []OneInDoubt
<1>1. Spec => [](TypeOK /\ SettledInv)
  BY TypeInit, TypeStep, SettledInit, SettledStep, PTL DEF Spec
<1>2. TypeOK /\ SettledInv => OneInDoubt
  BY DEF SettledInv
<1> QED BY <1>1, <1>2, PTL

-----------------------------------------------------------------------------
(* What reaches the provider *)

(* The initial state satisfies the invariant of delivery. *)
LEMMA DeliveryInit == Init => DeliveryInv
BY DEF Init, DeliveryInv, AtMostOneAttempt, UnclaimedRows, Carriers, OnlyApprovedReachProvider,
       EmptyBook, SubmitPCs

(* No step claims a row twice, gives two workers the same order, or lets   *)
(* an order reach the provider that was not approved or was closed unsent. *)
LEMMA DeliveryStep == TypeOK /\ SettledInv /\ DeliveryInv /\ [Next]_vars => DeliveryInv'
<1> SUFFICES ASSUME TypeOK, SettledInv, DeliveryInv, [Next]_vars PROVE DeliveryInv'
  OBVIOUS
<1> USE DEF TypeOK, IntentsTypeOK, CancelsTypeOK, WorkersTypeOK, SettledInv, OnlyApprovedQueued,
        LeasesAreClaims, DeliveryInv, AtMostOneAttempt, UnclaimedRows, Carriers,
        OnlyApprovedReachProvider, Unsettled, Tracked, SubmitPCs, CancelPCs, intentVars,
        cancelVars, providerVars
<1>1. ASSUME NEW w \in Workers, NEW o \in Orders, Admit(w, o) PROVE DeliveryInv'
  BY <1>1 DEF Admit, AdmitRow, Outcomes
<1>2. ASSUME NEW w \in Workers, NEW o \in Orders, NEW approve \in BOOLEAN, Decide(w, o, approve)
      PROVE DeliveryInv'
  BY <1>2 DEF Decide
<1>3. ASSUME NEW w \in Workers, NEW o \in Orders, NEW c \in Cancels, RequestCancel(w, o, c)
      PROVE DeliveryInv'
  BY <1>3 DEF RequestCancel, RecordCancellation
<1>4. ASSUME NEW w \in Workers, NEW o \in Orders, NEW c \in Cancels, NEW r \in Orders,
             RequestReplace(w, o, c, r)
      PROVE DeliveryInv'
  BY <1>4 DEF RequestReplace, RecordCancellation
<1>5. ASSUME NEW w \in Workers, NEW c \in Cancels, NEW approve \in BOOLEAN,
             DecideCancellation(w, c, approve)
      PROVE DeliveryInv'
  BY <1>5 DEF DecideCancellation
<1>6. ASSUME NEW w \in Workers, NEW c \in Cancels, AdmitReplacement(w, c) PROVE DeliveryInv'
  <2>1. replacement[c] \in Orders
    BY ConstantsAssumption, <1>6 DEF AdmitReplacement, ReplacementReady
  <2>2. /\ pc' = [pc EXCEPT ![w] = "linking"]
        /\ job' = [job EXCEPT ![w] = c]
        /\ UNCHANGED <<cstate, cattempts, book>>
    BY <1>6 DEF AdmitReplacement, Take
  <2>3. CASE UNCHANGED intentVars
    BY <2>2, <2>3
  <2>4. ASSUME NEW outcome \in Outcomes, AdmitRow(w, replacement[c], outcome)
        PROVE  DeliveryInv'
    <3>1. /\ outbox[replacement[c]] = "none"
          /\ book[replacement[c]] = "none"
          /\ attempts[replacement[c]] = 0
          /\ \A v \in Workers : pc[v] \in SubmitPCs => job[v] # replacement[c]
      BY <2>1, <2>4 DEF AdmitRow
    <3>2. /\ approval' = [approval EXCEPT ![replacement[c]] = outcome]
          /\ outbox' = [outbox EXCEPT ![replacement[c]] =
                          IF outcome = "approved" THEN "queued" ELSE "none"]
          /\ UNCHANGED attempts
      BY <2>4 DEF AdmitRow
    <3>3. AtMostOneAttempt' /\ UnclaimedRows' /\ OnlyApprovedReachProvider'
      BY <2>1, <2>2, <3>1, <3>2
    <3>4. Carriers'
      BY <2>1, <2>2, <3>1, <3>2
    <3> QED BY <3>3, <3>4
  <2> QED BY <2>3, <2>4, <1>6 DEF AdmitReplacement
<1>7. ASSUME NEW w \in Workers, LinkReplacement(w) PROVE DeliveryInv'
  BY <1>7 DEF LinkReplacement, Return, Take
<1>8. ASSUME NEW w \in Workers, DispatchBegin(w) PROVE DeliveryInv'
  BY <1>8 DEF DispatchBegin, Goto, RecoverIntents, Lapsed
<1>9. ASSUME NEW w \in Workers, ClaimNothing(w) PROVE DeliveryInv'
  BY <1>9 DEF ClaimNothing, Goto
<1>10. ASSUME NEW w \in Workers, NEW o \in Orders, ClaimExpires(w, o) PROVE DeliveryInv'
  BY <1>10 DEF ClaimExpires, Goto
<1>11. ASSUME NEW w \in Workers, NEW o \in Orders, ClaimNext(w, o) PROVE DeliveryInv'
  <2>1. \A v \in Workers : pc[v] \in SubmitPCs => job[v] # o
    BY <1>11 DEF ClaimNext
  <2>2. attempts[o] = 0 /\ book[o] = "none" /\ approval[o] = "approved"
    BY <1>11 DEF ClaimNext
  <2>3. /\ outbox' = [outbox EXCEPT ![o] = "submitting"]
        /\ attempts' = [attempts EXCEPT ![o] = @ + 1]
        /\ pc' = [pc EXCEPT ![w] = "claimed"]
        /\ job' = [job EXCEPT ![w] = o]
        /\ UNCHANGED <<approval, cstate, cattempts, book>>
    BY <1>11 DEF ClaimNext, Take
  <2>4. AtMostOneAttempt' /\ UnclaimedRows' /\ OnlyApprovedReachProvider'
    BY <2>2, <2>3
  <2>5. Carriers'
    BY <2>1, <2>2, <2>3
  <2> QED BY <2>4, <2>5
<1>12. ASSUME NEW w \in Workers, NEW open \in BOOLEAN, Recheck(w, open) PROVE DeliveryInv'
  BY <1>12 DEF Recheck, Goto
<1>13. ASSUME NEW w \in Workers, ValidateSubmission(w) PROVE DeliveryInv'
  <2>1. PICK label \in {"validated", "refused"} :
               /\ pc' = [pc EXCEPT ![w] = label]
               /\ label = "validated" => outbox[job[w]] = "submitting"
    BY <1>13 DEF ValidateSubmission, Goto, ValidSubmission
  <2>2. UNCHANGED <<job, approval, outbox, attempts, cstate, cattempts, book>>
    BY <1>13 DEF ValidateSubmission, Goto
  <2>3. pc[w] = "submitting"
    BY <1>13 DEF ValidateSubmission
  <2>4. Carriers'
    BY <2>1, <2>2, <2>3
  <2>5. AtMostOneAttempt' /\ UnclaimedRows' /\ OnlyApprovedReachProvider'
    BY <2>2
  <2> QED BY <2>4, <2>5
<1>14. ASSUME NEW w \in Workers, ProviderSubmit(w) PROVE DeliveryInv'
  BY <1>14 DEF ProviderSubmit, Goto, SubmitReplies
<1>15. ASSUME NEW w \in Workers, ProviderDeclines(w) PROVE DeliveryInv'
  BY <1>15 DEF ProviderDeclines, Goto
<1>16. ASSUME NEW w \in Workers, Acknowledge(w) PROVE DeliveryInv'
  <2>1. job[w] \in Orders
    BY <1>16 DEF Acknowledge
  <2>2. CASE HoldsLease(w, job[w])
    <3>1. outbox[job[w]] = "submitting"
      BY <2>1, <2>2 DEF HoldsLease, OwnsClaim
    <3>2. /\ outbox' = [outbox EXCEPT ![job[w]] = "accepted"]
          /\ pc' = [pc EXCEPT ![w] = "idle"]
          /\ job' = [job EXCEPT ![w] = NoJob]
          /\ UNCHANGED <<approval, attempts, cstate, cattempts, book>>
      BY <2>2, <1>16 DEF Acknowledge, Return, Take
    <3>3. AtMostOneAttempt' /\ UnclaimedRows'
      BY <2>1, <3>1, <3>2
    <3>4. Carriers'
      BY <2>1, <3>1, <3>2
    <3>5. OnlyApprovedReachProvider'
      BY <2>1, <3>1, <3>2
    <3> QED BY <3>3, <3>4, <3>5
  <2>3. CASE ~(HoldsLease(w, job[w]))
    BY <2>3, <1>16 DEF Acknowledge, Return, Take
  <2> QED BY <2>2, <2>3
<1>17. ASSUME NEW w \in Workers, ExpireClaimBeforeSubmit(w) PROVE DeliveryInv'
  <2>1. job[w] \in Orders
    BY <1>17 DEF ExpireClaimBeforeSubmit
  <2>2. CASE OwnsClaim(w, job[w])
    <3>1. outbox[job[w]] = "submitting"
      BY <2>1, <2>2 DEF HoldsLease, OwnsClaim
    <3>2. /\ outbox' = [outbox EXCEPT ![job[w]] = "expired"]
          /\ pc' = [pc EXCEPT ![w] = "idle"]
          /\ job' = [job EXCEPT ![w] = NoJob]
          /\ UNCHANGED <<approval, attempts, cstate, cattempts, book>>
      BY <2>2, <1>17 DEF ExpireClaimBeforeSubmit, Return, Take
    <3>3. AtMostOneAttempt' /\ UnclaimedRows'
      BY <2>1, <3>1, <3>2
    <3>4. Carriers'
      BY <2>1, <3>1, <3>2, <1>17 DEF ExpireClaimBeforeSubmit
    <3>5. OnlyApprovedReachProvider'
      BY <2>1, <3>1, <3>2, <1>17 DEF ExpireClaimBeforeSubmit
    <3> QED BY <3>3, <3>4, <3>5
  <2>3. CASE ~(OwnsClaim(w, job[w]))
    BY <2>3, <1>17 DEF ExpireClaimBeforeSubmit, Return, Take
  <2> QED BY <2>2, <2>3
<1>18. ASSUME NEW w \in Workers, FinishAmbiguous(w) PROVE DeliveryInv'
  <2>1. job[w] \in Orders /\ pc[w] = "ambiguous"
    BY <1>18 DEF FinishAmbiguous
  <2>2. /\ pc' = [pc EXCEPT ![w] = "idle"]
        /\ job' = [job EXCEPT ![w] = NoJob]
        /\ UNCHANGED <<approval, attempts, cstate, cattempts, book>>
    BY <1>18 DEF FinishAmbiguous, Return, Take
  <2>3. outbox' \in {outbox, [outbox EXCEPT ![job[w]] = "unknown"]}
    BY <1>18 DEF FinishAmbiguous
  <2>4. outbox[job[w]] \notin {"none", "queued"}
    BY <2>1
  <2>5. AtMostOneAttempt' /\ UnclaimedRows'
    BY <2>1, <2>2, <2>3, <2>4
  <2>6. Carriers'
    BY <2>1, <2>2, <2>3, <2>4
  <2>7. OnlyApprovedReachProvider'
    BY <2>1, <2>2, <2>3, <2>4
  <2> QED BY <2>5, <2>6, <2>7
<1>19. ASSUME NEW w \in Workers, CancelDispatchBegin(w) PROVE DeliveryInv'
  BY <1>19 DEF CancelDispatchBegin, Goto, RecoverCancels, CLapsed
<1>20. ASSUME NEW w \in Workers, CancelClaimNothing(w) PROVE DeliveryInv'
  BY <1>20 DEF CancelClaimNothing, Goto
<1>21. ASSUME NEW w \in Workers, NEW c \in Cancels, CancelClaimExpires(w, c) PROVE DeliveryInv'
  BY <1>21 DEF CancelClaimExpires, Goto
<1>22. ASSUME NEW w \in Workers, NEW c \in Cancels, ClaimNextCancellation(w, c)
       PROVE DeliveryInv'
  BY <1>22 DEF ClaimNextCancellation, Take
<1>23. ASSUME NEW w \in Workers, ValidateCancellation(w) PROVE DeliveryInv'
  BY <1>23 DEF ValidateCancellation, Goto
<1>24. ASSUME NEW w \in Workers, ProviderCancel(w) PROVE DeliveryInv'
  BY <1>24 DEF ProviderCancel, Goto, CancelReplies
<1>25. ASSUME NEW w \in Workers, ProviderCancelFails(w) PROVE DeliveryInv'
  BY <1>25 DEF ProviderCancelFails, Goto
<1>26. ASSUME NEW w \in Workers, AcknowledgeCancellation(w) PROVE DeliveryInv'
  BY <1>26 DEF AcknowledgeCancellation, Return, Take, EndCancellation, OwnsCancellation
<1>27. ASSUME NEW w \in Workers, FinishAmbiguousCancellation(w) PROVE DeliveryInv'
  BY <1>27 DEF FinishAmbiguousCancellation, Return, Take, EndCancellation, OwnsCancellation
<1>28. ASSUME NEW w \in Workers, ExpireCancellation(w) PROVE DeliveryInv'
  BY <1>28 DEF ExpireCancellation, Return, Take, EndCancellation, OwnsCancellation
<1>29. ASSUME NEW w \in Workers, ReconcileBegin(w) PROVE DeliveryInv'
  BY <1>29 DEF ReconcileBegin, Goto, RecoverIntents, Lapsed
<1>29a. ASSUME NEW w \in Workers, SampleGeneration(w) PROVE DeliveryInv'
  BY <1>29a DEF SampleGeneration, Goto, RecoverCancels, CLapsed
<1>30. ASSUME NEW w \in Workers, NEW complete \in BOOLEAN, Snapshot(w, complete)
       PROVE DeliveryInv'
  BY <1>30 DEF Snapshot, Goto
<1>31. ASSUME NEW w \in Workers, ReconcileCommit(w) PROVE DeliveryInv'
  BY <1>31 DEF ReconcileCommit, Return, Take, ApplySnapshot, OpenCancellations, RunGeneration
<1>32. ASSUME NEW w \in Workers, Crash(w) PROVE DeliveryInv'
  BY <1>32 DEF Crash, Take
<1>33. ASSUME NEW w \in Workers, Start(w) PROVE DeliveryInv'
  BY <1>33 DEF Start, Goto
<1>34. ASSUME ActivateKillSwitch PROVE DeliveryInv'
  BY <1>34 DEF ActivateKillSwitch
<1>35. ASSUME ClearKillSwitch PROVE DeliveryInv'
  BY <1>35 DEF ClearKillSwitch
<1>36. ASSUME NEW o \in Orders, LeaseLapses(o) PROVE DeliveryInv'
  BY <1>36 DEF LeaseLapses
<1>37. ASSUME NEW c \in Cancels, CancelLeaseLapses(c) PROVE DeliveryInv'
  BY <1>37 DEF CancelLeaseLapses
<1>38. ASSUME NEW o \in Orders, AuthorityLapses(o) PROVE DeliveryInv'
  BY <1>38 DEF AuthorityLapses
<1>39. ASSUME NEW o \in Orders, Fill(o) PROVE DeliveryInv'
  <2>1. \A p \in Orders : (book'[p] = "none") <=> (book[p] = "none")
    BY <1>39 DEF Fill, OpenStatuses, ControlsTypeOK
  <2>2. UNCHANGED <<approval, outbox, attempts, cstate, cattempts, pc, job>>
    BY <1>39 DEF Fill
  <2>3. \A w \in Workers : pc[w] \in SubmitPCs => job[w] \in Orders
    OBVIOUS
  <2>4. Carriers'
    BY <2>1, <2>2, <2>3
  <2>5. AtMostOneAttempt' /\ UnclaimedRows' /\ OnlyApprovedReachProvider'
    BY <2>1, <2>2
  <2> QED BY <2>4, <2>5
<1>40. ASSUME ExternalOrder PROVE DeliveryInv'
  BY <1>40 DEF ExternalOrder
<1>u. CASE UNCHANGED vars
  BY <1>u DEF vars
<1> HIDE DEF TypeOK, IntentsTypeOK, CancelsTypeOK, WorkersTypeOK, SettledInv,
   OnlyApprovedQueued,
        LeasesAreClaims, DeliveryInv, AtMostOneAttempt, UnclaimedRows, Carriers,
        OnlyApprovedReachProvider, Unsettled, Tracked, SubmitPCs, CancelPCs, intentVars,
        cancelVars, providerVars
<1> QED
    BY <1>1, <1>2, <1>3, <1>4, <1>5, <1>6, <1>7, <1>8, <1>9, <1>10, <1>11, <1>12, <1>13,
     <1>14, <1>15, <1>16, <1>17, <1>18, <1>19, <1>20, <1>21, <1>22, <1>23, <1>24, <1>25,
     <1>26, <1>27, <1>28, <1>29, <1>29a, <1>30, <1>31, <1>32, <1>33, <1>34, <1>35, <1>36, <1>37,
     <1>38, <1>39, <1>40, <1>u DEF Next, Request, Submission, Cancellation,
     Reconciliation, Environment

(* No intent and no cancellation is ever claimed a second time. *)
THEOREM NoRetry == Spec => []AtMostOneAttempt
<1>1. Spec => [](TypeOK /\ SettledInv /\ DeliveryInv)
  BY TypeInit, TypeStep, SettledInit, SettledStep, DeliveryInit, DeliveryStep, PTL DEF Spec
<1>2. TypeOK /\ SettledInv /\ DeliveryInv => AtMostOneAttempt
  BY DEF DeliveryInv
<1> QED BY <1>1, <1>2, PTL

(* Every order the provider holds was approved and is not closed as unsent. *)
THEOREM ApprovedDelivery == Spec => []OnlyApprovedReachProvider
<1>1. Spec => [](TypeOK /\ SettledInv /\ DeliveryInv)
  BY TypeInit, TypeStep, SettledInit, SettledStep, DeliveryInit, DeliveryStep, PTL DEF Spec
<1>2. TypeOK /\ SettledInv /\ DeliveryInv => OnlyApprovedReachProvider
  BY DEF DeliveryInv
<1> QED BY <1>1, <1>2, PTL
-----------------------------------------------------------------------------
(* The kill switch *)

(* A step clears the switch only once a fresh reconciliation is complete. *)
FreshClear == killActive /\ ~killActive' => confirmed

(* The initial state satisfies the invariant of the kill switch. *)
LEMMA KillInit == Init => KillInv
BY DEF Init, KillInv

(* No step lets an older reconciliation count for a later activation. *)
LEMMA KillStep == TypeOK /\ KillInv /\ [Next]_vars => KillInv' /\ FreshClear
<1> SUFFICES ASSUME TypeOK, KillInv, [Next]_vars PROVE KillInv' /\ FreshClear
  OBVIOUS
<1> USE DEF TypeOK, ControlsTypeOK, WorkersTypeOK, KillInv, FreshClear, killVars, readVars,
        historyVars
<1>1. ASSUME NEW w \in Workers, NEW o \in Orders, Admit(w, o) PROVE KillInv' /\ FreshClear
  BY <1>1 DEF Admit
<1>2. ASSUME NEW w \in Workers, NEW o \in Orders, NEW approve \in BOOLEAN, Decide(w, o, approve)
      PROVE KillInv' /\ FreshClear
  BY <1>2 DEF Decide
<1>3. ASSUME NEW w \in Workers, NEW o \in Orders, NEW c \in Cancels, RequestCancel(w, o, c)
      PROVE KillInv' /\ FreshClear
  BY <1>3 DEF RequestCancel
<1>4. ASSUME NEW w \in Workers, NEW o \in Orders, NEW c \in Cancels, NEW r \in Orders,
             RequestReplace(w, o, c, r)
      PROVE KillInv' /\ FreshClear
  BY <1>4 DEF RequestReplace
<1>5. ASSUME NEW w \in Workers, NEW c \in Cancels, NEW approve \in BOOLEAN,
             DecideCancellation(w, c, approve)
      PROVE KillInv' /\ FreshClear
  BY <1>5 DEF DecideCancellation
<1>6. ASSUME NEW w \in Workers, NEW c \in Cancels, AdmitReplacement(w, c)
      PROVE KillInv' /\ FreshClear
  BY <1>6 DEF AdmitReplacement, Take
<1>7. ASSUME NEW w \in Workers, LinkReplacement(w) PROVE KillInv' /\ FreshClear
  BY <1>7 DEF LinkReplacement, Return, Take
<1>8. ASSUME NEW w \in Workers, DispatchBegin(w) PROVE KillInv' /\ FreshClear
  BY <1>8 DEF DispatchBegin, Goto
<1>9. ASSUME NEW w \in Workers, ClaimNothing(w) PROVE KillInv' /\ FreshClear
  BY <1>9 DEF ClaimNothing, Goto
<1>10. ASSUME NEW w \in Workers, NEW o \in Orders, ClaimExpires(w, o)
       PROVE KillInv' /\ FreshClear
  BY <1>10 DEF ClaimExpires, Goto
<1>11. ASSUME NEW w \in Workers, NEW o \in Orders, ClaimNext(w, o) PROVE KillInv' /\ FreshClear
  BY <1>11 DEF ClaimNext, Take
<1>12. ASSUME NEW w \in Workers, NEW open \in BOOLEAN, Recheck(w, open)
       PROVE KillInv' /\ FreshClear
  BY <1>12 DEF Recheck, Goto
<1>13. ASSUME NEW w \in Workers, ValidateSubmission(w) PROVE KillInv' /\ FreshClear
  BY <1>13 DEF ValidateSubmission, Goto
<1>14. ASSUME NEW w \in Workers, ProviderSubmit(w) PROVE KillInv' /\ FreshClear
  BY <1>14 DEF ProviderSubmit, Goto, SubmitReplies
<1>15. ASSUME NEW w \in Workers, ProviderDeclines(w) PROVE KillInv' /\ FreshClear
  BY <1>15 DEF ProviderDeclines, Goto
<1>16. ASSUME NEW w \in Workers, Acknowledge(w) PROVE KillInv' /\ FreshClear
  BY <1>16 DEF Acknowledge, Return, Take
<1>17. ASSUME NEW w \in Workers, ExpireClaimBeforeSubmit(w) PROVE KillInv' /\ FreshClear
  BY <1>17 DEF ExpireClaimBeforeSubmit, Return, Take
<1>18. ASSUME NEW w \in Workers, FinishAmbiguous(w) PROVE KillInv' /\ FreshClear
  BY <1>18 DEF FinishAmbiguous, Return, Take
<1>19. ASSUME NEW w \in Workers, CancelDispatchBegin(w) PROVE KillInv' /\ FreshClear
  BY <1>19 DEF CancelDispatchBegin, Goto
<1>20. ASSUME NEW w \in Workers, CancelClaimNothing(w) PROVE KillInv' /\ FreshClear
  BY <1>20 DEF CancelClaimNothing, Goto
<1>21. ASSUME NEW w \in Workers, NEW c \in Cancels, CancelClaimExpires(w, c)
       PROVE KillInv' /\ FreshClear
  BY <1>21 DEF CancelClaimExpires, Goto
<1>22. ASSUME NEW w \in Workers, NEW c \in Cancels, ClaimNextCancellation(w, c)
       PROVE KillInv' /\ FreshClear
  BY <1>22 DEF ClaimNextCancellation, Take
<1>23. ASSUME NEW w \in Workers, ValidateCancellation(w) PROVE KillInv' /\ FreshClear
  BY <1>23 DEF ValidateCancellation, Goto
<1>24. ASSUME NEW w \in Workers, ProviderCancel(w) PROVE KillInv' /\ FreshClear
  BY <1>24 DEF ProviderCancel, Goto, CancelReplies
<1>25. ASSUME NEW w \in Workers, ProviderCancelFails(w) PROVE KillInv' /\ FreshClear
  BY <1>25 DEF ProviderCancelFails, Goto
<1>26. ASSUME NEW w \in Workers, AcknowledgeCancellation(w) PROVE KillInv' /\ FreshClear
  BY <1>26 DEF AcknowledgeCancellation, Return, Take, EndCancellation
<1>27. ASSUME NEW w \in Workers, FinishAmbiguousCancellation(w) PROVE KillInv' /\ FreshClear
  BY <1>27 DEF FinishAmbiguousCancellation, Return, Take, EndCancellation
<1>28. ASSUME NEW w \in Workers, ExpireCancellation(w) PROVE KillInv' /\ FreshClear
  BY <1>28 DEF ExpireCancellation, Return, Take, EndCancellation
<1>29. ASSUME NEW w \in Workers, ReconcileBegin(w) PROVE KillInv' /\ FreshClear
  BY <1>29 DEF ReconcileBegin, Goto
<1>30. ASSUME NEW w \in Workers, SampleGeneration(w) PROVE KillInv' /\ FreshClear
  BY <1>30 DEF SampleGeneration, Goto
<1>31. ASSUME NEW w \in Workers, NEW complete \in BOOLEAN, Snapshot(w, complete)
       PROVE KillInv' /\ FreshClear
  BY <1>31 DEF Snapshot, Goto
<1>32. ASSUME NEW w \in Workers, ReconcileCommit(w) PROVE KillInv' /\ FreshClear
  <2>1. /\ pc' = [pc EXCEPT ![w] = "idle"]
        /\ gen' = [gen EXCEPT ![w] = 0]
        /\ sinceKill' = sinceKill \ {w}
        /\ UNCHANGED <<killActive, killGen>>
    BY <1>32 DEF ReconcileCommit, Return, Take
  <2>2. CASE Complete(w)
    <3>1. completeGens' = completeGens \cup {gen[w]} /\ confirmed' = (confirmed \/ w \in sinceKill)
      BY <2>2, <1>32 DEF ReconcileCommit, RunGeneration
    <3>2. pc[w] = "snapshot"
      BY <1>32 DEF ReconcileCommit
    <3>3. gen[w] \in Nat /\ killGen \in Nat /\ gen[w] <= killGen
      OBVIOUS
    <3>4. \A g \in completeGens' : g <= killGen
      BY <3>1, <3>3
    <3>5. \A v \in Workers : gen'[v] <= killGen
      BY <2>1, <3>3
    <3>6. \A v \in Workers :
            pc'[v] \in {"reconcile", "snapshot"} /\ gen'[v] = killGen => v \in sinceKill'
      BY <2>1
    <3>7. killGen \in completeGens' => confirmed'
      BY <3>1, <3>2
    <3> QED BY <2>1, <3>4, <3>5, <3>6, <3>7
  <2>3. CASE ~Complete(w)
    <3>1. UNCHANGED <<completeGens, confirmed>>
      BY <2>3, <1>32 DEF ReconcileCommit
    <3> QED BY <2>1, <3>1
  <2> QED BY <2>2, <2>3
<1>33. ASSUME NEW w \in Workers, Crash(w) PROVE KillInv' /\ FreshClear
  BY <1>33 DEF Crash, Take
<1>34. ASSUME NEW w \in Workers, Start(w) PROVE KillInv' /\ FreshClear
  BY <1>34 DEF Start, Goto
<1>35. ASSUME ActivateKillSwitch PROVE KillInv' /\ FreshClear
  BY <1>35 DEF ActivateKillSwitch
<1>36. ASSUME ClearKillSwitch PROVE KillInv' /\ FreshClear
  BY <1>36 DEF ClearKillSwitch
<1>37. ASSUME NEW o \in Orders, LeaseLapses(o) PROVE KillInv' /\ FreshClear
  BY <1>37 DEF LeaseLapses
<1>38. ASSUME NEW c \in Cancels, CancelLeaseLapses(c) PROVE KillInv' /\ FreshClear
  BY <1>38 DEF CancelLeaseLapses
<1>39. ASSUME NEW o \in Orders, AuthorityLapses(o) PROVE KillInv' /\ FreshClear
  BY <1>39 DEF AuthorityLapses
<1>40. ASSUME NEW o \in Orders, Fill(o) PROVE KillInv' /\ FreshClear
  BY <1>40 DEF Fill
<1>41. ASSUME ExternalOrder PROVE KillInv' /\ FreshClear
  BY <1>41 DEF ExternalOrder
<1>42. CASE UNCHANGED vars
  BY <1>42 DEF vars
<1> HIDE DEF TypeOK, ControlsTypeOK, WorkersTypeOK, KillInv, FreshClear, killVars, readVars,
        historyVars
<1> QED
  BY <1>1, <1>2, <1>3, <1>4, <1>5, <1>6, <1>7, <1>8, <1>9, <1>10, <1>11, <1>12, <1>13,
     <1>14, <1>15, <1>16, <1>17, <1>18, <1>19, <1>20, <1>21, <1>22, <1>23, <1>24, <1>25,
     <1>26, <1>27, <1>28, <1>29, <1>30, <1>31, <1>32, <1>33, <1>34, <1>35, <1>36, <1>37,
     <1>38, <1>39, <1>40, <1>41, <1>42 DEF Next, Request, Submission, Cancellation,
     Reconciliation, Environment

(* clear_kill_switch: the switch is cleared only after a complete          *)
(* reconciliation that began after the last activation, however many       *)
(* instances reconcile and however their steps interleave with it.         *)
THEOREM FreshClearance == Spec => ClearedOnlyAfterFreshReconciliation
<1>1. Spec => [](TypeOK /\ KillInv)
  BY TypeInit, TypeStep, KillInit, KillStep, PTL DEF Spec
<1>2. TypeOK /\ KillInv /\ [Next]_vars => [FreshClear]_vars
  BY KillStep
<1>3. Spec => [][FreshClear]_vars
  BY <1>1, <1>2, PTL DEF Spec
<1> QED BY <1>3 DEF ClearedOnlyAfterFreshReconciliation, FreshClear

-----------------------------------------------------------------------------
(* Claims and the providers they are bound to *)

(* What a step does at the provider, or to call an order reconciled, is    *)
(* done by an instance of the provider the order is bound to.              *)
BoundProviderActed ==
  \A o \in Orders :
    /\ book[o] = "none" /\ book'[o] # "none" =>
         \E w \in Workers : pc[w] = "validated" /\ job[w] = o /\ bound[o] = VersionOf[w]
    /\ outbox[o] # "reconciled" /\ outbox'[o] = "reconciled" =>
         \E w \in Workers : pc[w] = "snapshot" /\ pc'[w] # "snapshot"
                           /\ bound[o] = VersionOf[w]

(* A row that is not yet admitted has no status, no cancellation and no    *)
(* worker, so binding it disturbs no claim.                                *)
LEMMA AdmissionClaims ==
  ASSUME TypeOK, SettledInv, DeliveryInv, ClaimInv, NEW w \in Workers, NEW o \in Orders,
         NEW outcome \in Outcomes, AdmitRow(w, o, outcome), UNCHANGED <<cstate, target, book>>,
         \A v \in Workers : pc'[v] \in SubmitPCs => pc'[v] = pc[v] /\ job'[v] = job[v]
  PROVE  ClaimInv' /\ BoundProviderActed
<1> USE DEF TypeOK, IntentsTypeOK, CancelsTypeOK, WorkersTypeOK, SettledInv, OnlyApprovedQueued,
        DeliveryInv, Carriers, SubmitPCs
<1>1. approval[o] = "absent" /\ outbox[o] = "none" /\ provStatus[o] = "none"
  BY DEF AdmitRow, ClaimInv
<1>2. /\ outbox' = [outbox EXCEPT ![o] = IF outcome = "approved" THEN "queued" ELSE "none"]
      /\ bound' = [bound EXCEPT ![o] = VersionOf[w]]
      /\ provStatus' = provStatus
  BY DEF AdmitRow
<1>3. \A v \in Workers : pc[v] \in SubmitPCs => job[v] \in Orders \ {o}
  BY <1>1
<1>4. \A c \in Cancels : cstate[c] # "absent" => target[c] \in Orders \ {o}
  BY <1>1 DEF ClaimInv
<1>5. \A p \in Orders : outbox'[p] \notin {"accepted", "reconciled"} => provStatus'[p] = "none"
  BY <1>1, <1>2 DEF ClaimInv
<1>6. ClaimInv'
  BY <1>2, <1>3, <1>4, <1>5 DEF ClaimInv
<1>7. BoundProviderActed
  BY <1>2 DEF BoundProviderActed
<1> QED BY <1>6, <1>7

(* Ending a cancellation attempt moves neither an order nor its status.    *)
LEMMA EndCancellationClaims ==
  ASSUME TypeOK, ClaimInv, NEW w \in Workers, job[w] \in Cancels, NEW state \in CancelStates,
         NEW blocked \in BOOLEAN, EndCancellation(w, state, blocked)
  PROVE  ClaimInv' /\ BoundProviderActed
<1>1. \A c \in Cancels : cstate'[c] # "absent" => cstate[c] # "absent"
  BY DEF EndCancellation, OwnsCancellation, TypeOK, CancelsTypeOK, cancelVars
<1>2. /\ UNCHANGED <<outbox, provStatus, bound, target, book>>
      /\ \A v \in Workers : pc'[v] \in SubmitPCs => pc'[v] = pc[v] /\ job'[v] = job[v]
  BY DEF EndCancellation, TypeOK, WorkersTypeOK, Return, Take, SubmitPCs, intentVars,
     cancelVars,
         providerVars
<1>3. ClaimInv'
  BY <1>1, <1>2 DEF ClaimInv, SubmitPCs
<1>4. BoundProviderActed
  BY <1>2 DEF BoundProviderActed
<1> QED BY <1>3, <1>4

(* No step records a status early, lets a cancellation name an unresolved  *)
(* order, carries a foreign claim, or acts for another provider.           *)
LEMMA ClaimStep ==
  TypeOK /\ SettledInv /\ DeliveryInv /\ ClaimInv /\ [Next]_vars
    => ClaimInv' /\ BoundProviderActed
<1> SUFFICES ASSUME TypeOK, SettledInv, DeliveryInv, ClaimInv, [Next]_vars
             PROVE  ClaimInv' /\ BoundProviderActed
  OBVIOUS
<1>0. /\ \A w \in Workers : pc[w] \in SubmitPCs => job[w] \in Orders
      /\ \A o \in Orders : lease[o] # "none" => outbox[o] = "submitting"
      /\ \A o \in Orders : outbox[o] # "none" => approval[o] = "approved"
  BY DEF TypeOK, WorkersTypeOK, SettledInv, OnlyApprovedQueued, LeasesAreClaims
<1> USE DEF TypeOK, IntentsTypeOK, CancelsTypeOK, WorkersTypeOK, ClaimInv, BoundProviderActed,
   SubmitPCs, CancelPCs, intentVars, cancelVars, providerVars
<1>1. ASSUME NEW w \in Workers, NEW o \in Orders, Admit(w, o)
       PROVE ClaimInv' /\ BoundProviderActed
  <2>1. PICK outcome \in Outcomes : AdmitRow(w, o, outcome)
    BY <1>1 DEF Admit
  <2>2. UNCHANGED <<cstate, target, book, pc, job>>
    BY <1>1 DEF Admit
  <2> QED BY <2>1, <2>2, AdmissionClaims
<1>2. ASSUME NEW w \in Workers, NEW o \in Orders, NEW approve \in BOOLEAN, Decide(w, o, approve)
       PROVE ClaimInv' /\ BoundProviderActed
  <2>1. approval[o] = "pending_approval" /\ outbox[o] = "none"
    BY <1>2, <1>0 DEF Decide
  <2>2. /\ outbox' = [outbox EXCEPT ![o] = "queued"] \/ outbox' = outbox
        /\ UNCHANGED <<provStatus, bound, cstate, target, book, pc, job>>
    <3>1. outbox' = [outbox EXCEPT ![o] =
                       IF (o \in authority /\ (approve => bound[o] = VersionOf[w])) /\ approve
                       THEN "queued" ELSE @]
      BY <1>2 DEF Decide
    <3>2. UNCHANGED <<provStatus, bound, cstate, target, book, pc, job>>
      BY <1>2 DEF Decide
    <3> QED BY <3>1, <3>2
  <2>3. \A c \in Cancels : cstate[c] # "absent" => outbox'[target[c]] = "reconciled"
    BY <2>1, <2>2
  <2> QED BY <2>1, <2>2, <2>3
<1>3. ASSUME NEW w \in Workers, NEW o \in Orders, NEW c \in Cancels, RequestCancel(w, o, c)
       PROVE ClaimInv' /\ BoundProviderActed
  BY <1>3 DEF RequestCancel, RecordCancellation, Cancelable
<1>4. ASSUME NEW w \in Workers, NEW o \in Orders, NEW c \in Cancels, NEW r \in Orders,
             RequestReplace(w, o, c, r)
       PROVE ClaimInv' /\ BoundProviderActed
  BY <1>4 DEF RequestReplace, RecordCancellation, Cancelable
<1>5. ASSUME NEW w \in Workers, NEW c \in Cancels, NEW approve \in BOOLEAN,
             DecideCancellation(w, c, approve)
       PROVE ClaimInv' /\ BoundProviderActed
  BY <1>5 DEF DecideCancellation
<1>6. ASSUME NEW w \in Workers, NEW c \in Cancels, AdmitReplacement(w, c)
       PROVE ClaimInv' /\ BoundProviderActed
  <2>1. replacement[c] \in Orders
    BY ConstantsAssumption, <1>6 DEF AdmitReplacement, ReplacementReady
  <2>2. /\ UNCHANGED <<cstate, target, book>>
        /\ \A v \in Workers : pc'[v] \in SubmitPCs => pc'[v] = pc[v] /\ job'[v] = job[v]
    BY <1>6 DEF AdmitReplacement, Take
  <2>3. CASE UNCHANGED intentVars
    BY <2>2, <2>3
  <2>4. ASSUME NEW outcome \in Outcomes, AdmitRow(w, replacement[c], outcome)
        PROVE  ClaimInv' /\ BoundProviderActed
    BY <2>1, <2>2, <2>4, AdmissionClaims
  <2> QED BY <2>3, <2>4, <1>6 DEF AdmitReplacement
<1>7. ASSUME NEW w \in Workers, LinkReplacement(w) PROVE ClaimInv' /\ BoundProviderActed
  BY <1>7 DEF LinkReplacement, Return, Take
<1>8. ASSUME NEW w \in Workers, DispatchBegin(w) PROVE ClaimInv' /\ BoundProviderActed
  BY <1>8 DEF DispatchBegin, Goto, RecoverIntents, Lapsed
<1>9. ASSUME NEW w \in Workers, ClaimNothing(w) PROVE ClaimInv' /\ BoundProviderActed
  BY <1>9 DEF ClaimNothing, Goto
<1>10. ASSUME NEW w \in Workers, NEW o \in Orders, ClaimExpires(w, o)
       PROVE ClaimInv' /\ BoundProviderActed
  BY <1>10 DEF ClaimExpires, Goto
<1>11. ASSUME NEW w \in Workers, NEW o \in Orders, ClaimNext(w, o)
       PROVE ClaimInv' /\ BoundProviderActed
  BY <1>11 DEF ClaimNext, Take
<1>12. ASSUME NEW w \in Workers, NEW open \in BOOLEAN, Recheck(w, open)
       PROVE ClaimInv' /\ BoundProviderActed
  BY <1>12 DEF Recheck, Goto
<1>13. ASSUME NEW w \in Workers, ValidateSubmission(w) PROVE ClaimInv' /\ BoundProviderActed
  BY <1>13 DEF ValidateSubmission, Goto
<1>14. ASSUME NEW w \in Workers, ProviderSubmit(w) PROVE ClaimInv' /\ BoundProviderActed
  <2>1. /\ pc[w] = "validated" /\ job[w] \in Orders
        /\ book' = [book EXCEPT ![job[w]] = IF @ = "none" THEN "accepted" ELSE @]
        /\ UNCHANGED <<outbox, provStatus, bound, cstate, target, job>>
    BY <1>14, <1>0 DEF ProviderSubmit, Goto
  <2>2. PICK reply \in SubmitReplies : pc' = [pc EXCEPT ![w] = reply]
    BY <1>14 DEF ProviderSubmit, Goto
  <2>3. \A o \in Orders : o = job[w] \/ book[o] # "none" => book'[o] # "none"
    BY <2>1 DEF ControlsTypeOK
  <2>4. \A v \in Workers : pc'[v] = "acked" => book'[job'[v]] # "none"
    BY <2>1, <2>2, <2>3, <1>0
  <2>5. \A v \in Workers : pc'[v] \in SubmitPCs => bound'[job'[v]] = VersionOf[v]
    BY <2>1, <2>2, <1>0
  <2>6. BoundProviderActed
    BY <2>1 DEF ControlsTypeOK
  <2> QED BY <2>1, <2>4, <2>5, <2>6
<1>15. ASSUME NEW w \in Workers, ProviderDeclines(w) PROVE ClaimInv' /\ BoundProviderActed
  BY <1>15 DEF ProviderDeclines, Goto
<1>16. ASSUME NEW w \in Workers, Acknowledge(w) PROVE ClaimInv' /\ BoundProviderActed
  <2>1. /\ job[w] \in Orders
        /\ \A v \in Workers : pc'[v] \in SubmitPCs => pc'[v] = pc[v] /\ job'[v] = job[v]
        /\ UNCHANGED <<bound, cstate, target, book>>
    BY <1>16, <1>0 DEF Acknowledge, Return, Take
  <2>2. CASE HoldsLease(w, job[w])
    <3>1. outbox[job[w]] = "submitting"
      BY <2>1, <2>2, <1>0 DEF HoldsLease
    <3>2. /\ outbox' = [outbox EXCEPT ![job[w]] = "accepted"]
          /\ provStatus' = [provStatus EXCEPT ![job[w]] = "accepted"]
      BY <2>2, <1>16 DEF Acknowledge
    <3> QED BY <2>1, <3>1, <3>2
  <2>3. CASE ~HoldsLease(w, job[w])
    BY <2>1, <2>3, <1>16 DEF Acknowledge
  <2> QED BY <2>2, <2>3
<1>17. ASSUME NEW w \in Workers, ExpireClaimBeforeSubmit(w)
       PROVE ClaimInv' /\ BoundProviderActed
  <2>1. /\ job[w] \in Orders
        /\ \A v \in Workers : pc'[v] \in SubmitPCs => pc'[v] = pc[v] /\ job'[v] = job[v]
        /\ UNCHANGED <<provStatus, bound, cstate, target, book>>
    BY <1>17, <1>0 DEF ExpireClaimBeforeSubmit, Return, Take
  <2>2. CASE OwnsClaim(w, job[w])
    <3>1. outbox[job[w]] = "submitting"
      BY <2>1, <2>2, <1>0 DEF HoldsLease, OwnsClaim
    <3>2. outbox' = [outbox EXCEPT ![job[w]] = "expired"]
      BY <2>2, <1>17 DEF ExpireClaimBeforeSubmit
    <3> QED BY <2>1, <3>1, <3>2
  <2>3. CASE ~OwnsClaim(w, job[w])
    BY <2>1, <2>3, <1>17 DEF ExpireClaimBeforeSubmit
  <2> QED BY <2>2, <2>3
<1>18. ASSUME NEW w \in Workers, FinishAmbiguous(w) PROVE ClaimInv' /\ BoundProviderActed
  <2>1. /\ job[w] \in Orders
        /\ \A v \in Workers : pc'[v] \in SubmitPCs => pc'[v] = pc[v] /\ job'[v] = job[v]
        /\ UNCHANGED <<provStatus, bound, cstate, target, book>>
    BY <1>18, <1>0 DEF FinishAmbiguous, Return, Take
  <2>2. CASE HoldsLease(w, job[w])
    <3>1. outbox[job[w]] = "submitting"
      BY <2>1, <2>2, <1>0 DEF HoldsLease, OwnsClaim
    <3>2. outbox' = [outbox EXCEPT ![job[w]] = "unknown"]
      BY <2>2, <1>18 DEF FinishAmbiguous
    <3> QED BY <2>1, <3>1, <3>2
  <2>3. CASE ~HoldsLease(w, job[w])
    BY <2>1, <2>3, <1>18 DEF FinishAmbiguous
  <2> QED BY <2>2, <2>3
<1>19. ASSUME NEW w \in Workers, CancelDispatchBegin(w) PROVE ClaimInv' /\ BoundProviderActed
  BY <1>19 DEF CancelDispatchBegin, Goto, RecoverCancels, CLapsed
<1>20. ASSUME NEW w \in Workers, CancelClaimNothing(w) PROVE ClaimInv' /\ BoundProviderActed
  BY <1>20 DEF CancelClaimNothing, Goto
<1>21. ASSUME NEW w \in Workers, NEW c \in Cancels, CancelClaimExpires(w, c)
       PROVE ClaimInv' /\ BoundProviderActed
  BY <1>21 DEF CancelClaimExpires, Goto
<1>22. ASSUME NEW w \in Workers, NEW c \in Cancels, ClaimNextCancellation(w, c)
       PROVE ClaimInv' /\ BoundProviderActed
  BY <1>22 DEF ClaimNextCancellation, Take
<1>23. ASSUME NEW w \in Workers, ValidateCancellation(w) PROVE ClaimInv' /\ BoundProviderActed
  BY <1>23 DEF ValidateCancellation, Goto
<1>24. ASSUME NEW w \in Workers, ProviderCancel(w) PROVE ClaimInv' /\ BoundProviderActed
  BY <1>24 DEF ProviderCancel, Goto, CancelReplies
<1>25. ASSUME NEW w \in Workers, ProviderCancelFails(w) PROVE ClaimInv' /\ BoundProviderActed
  BY <1>25 DEF ProviderCancelFails, Goto
<1>26. ASSUME NEW w \in Workers, AcknowledgeCancellation(w)
       PROVE ClaimInv' /\ BoundProviderActed
  <2>1. job[w] \in Cancels
    BY <1>26 DEF AcknowledgeCancellation, CancelPCs
  <2>2. EndCancellation(w, "acknowledged", TRUE)
    BY <1>26 DEF AcknowledgeCancellation
  <2> QED BY <2>1, <2>2, EndCancellationClaims DEF CancelStates
<1>27. ASSUME NEW w \in Workers, FinishAmbiguousCancellation(w)
       PROVE ClaimInv' /\ BoundProviderActed
  <2>1. job[w] \in Cancels
    BY <1>27 DEF FinishAmbiguousCancellation, CancelPCs
  <2>2. EndCancellation(w, "unknown", TRUE)
    BY <1>27 DEF FinishAmbiguousCancellation
  <2> QED BY <2>1, <2>2, EndCancellationClaims DEF CancelStates
<1>28. ASSUME NEW w \in Workers, ExpireCancellation(w) PROVE ClaimInv' /\ BoundProviderActed
  <2>1. job[w] \in Cancels
    BY <1>28 DEF ExpireCancellation, CancelPCs
  <2>2. EndCancellation(w, "expired", FALSE)
    BY <1>28 DEF ExpireCancellation
  <2> QED BY <2>1, <2>2, EndCancellationClaims DEF CancelStates
<1>29. ASSUME NEW w \in Workers, ReconcileBegin(w) PROVE ClaimInv' /\ BoundProviderActed
  BY <1>29 DEF ReconcileBegin, Goto, RecoverIntents, Lapsed
<1>30. ASSUME NEW w \in Workers, SampleGeneration(w) PROVE ClaimInv' /\ BoundProviderActed
  BY <1>30 DEF SampleGeneration, Goto, RecoverCancels, CLapsed
<1>31. ASSUME NEW w \in Workers, NEW complete \in BOOLEAN, Snapshot(w, complete)
       PROVE ClaimInv' /\ BoundProviderActed
  BY <1>31 DEF Snapshot, Goto
<1>32. ASSUME NEW w \in Workers, ReconcileCommit(w) PROVE ClaimInv' /\ BoundProviderActed
  <2>1. /\ pc[w] = "snapshot" /\ pc'[w] = "idle"
        /\ \A v \in Workers : pc'[v] \in SubmitPCs => pc'[v] = pc[v] /\ job'[v] = job[v]
        /\ UNCHANGED <<bound, target, book>>
    BY <1>32 DEF ReconcileCommit, Return, Take, ApplySnapshot
  <2>2. CASE Complete(w)
    <3>1. ApplySnapshot(w)
      BY <2>2, <1>32 DEF ReconcileCommit
    <3>2. \A c \in Cancels : cstate'[c] # "absent" => cstate[c] # "absent"
      BY <3>1 DEF ApplySnapshot, OpenCancellations, CancelUnsettled
    <3>3. \A o \in CancelTargets : outbox[o] = "reconciled"
      BY DEF CancelTargets, OpenCancellations, CancelUnsettled
    <3>4. \A o \in Orders :
            outbox'[o] = IF outbox[o] \in Tracked THEN "reconciled" ELSE outbox[o]
      BY <3>1 DEF ApplySnapshot
    <3>5. \A o \in Orders :
            outbox'[o] \notin {"accepted", "reconciled"} => provStatus'[o] = "none"
      BY <3>1, <3>3, <3>4 DEF ApplySnapshot, Tracked, Unsettled
    <3>6. \A c \in Cancels : cstate'[c] # "absent" => outbox'[target'[c]] = "reconciled"
      BY <2>1, <3>2, <3>4 DEF Tracked
    <3>7. \A o \in Orders :
            outbox[o] # "reconciled" /\ outbox'[o] = "reconciled" => bound[o] = VersionOf[w]
      BY <2>2, <3>4 DEF Complete, Accounted
    <3> QED BY <2>1, <3>5, <3>6, <3>7
  <2>3. CASE ~Complete(w)
    BY <2>1, <2>3, <1>32 DEF ReconcileCommit
  <2> QED BY <2>2, <2>3
<1>33. ASSUME NEW w \in Workers, Crash(w) PROVE ClaimInv' /\ BoundProviderActed
  BY <1>33 DEF Crash, Take
<1>34. ASSUME NEW w \in Workers, Start(w) PROVE ClaimInv' /\ BoundProviderActed
  BY <1>34 DEF Start, Goto
<1>35. ASSUME ActivateKillSwitch PROVE ClaimInv' /\ BoundProviderActed
  BY <1>35 DEF ActivateKillSwitch
<1>36. ASSUME ClearKillSwitch PROVE ClaimInv' /\ BoundProviderActed
  BY <1>36 DEF ClearKillSwitch
<1>37. ASSUME NEW o \in Orders, LeaseLapses(o) PROVE ClaimInv' /\ BoundProviderActed
  BY <1>37 DEF LeaseLapses
<1>38. ASSUME NEW c \in Cancels, CancelLeaseLapses(c) PROVE ClaimInv' /\ BoundProviderActed
  BY <1>38 DEF CancelLeaseLapses
<1>39. ASSUME NEW o \in Orders, AuthorityLapses(o) PROVE ClaimInv' /\ BoundProviderActed
  BY <1>39 DEF AuthorityLapses
<1>40. ASSUME NEW o \in Orders, Fill(o) PROVE ClaimInv' /\ BoundProviderActed
  <2>1. \A p \in Orders : book'[p] = "none" <=> book[p] = "none"
    BY <1>40 DEF Fill, OpenStatuses, ControlsTypeOK
  <2>2. UNCHANGED <<outbox, provStatus, bound, cstate, target, pc, job>>
    BY <1>40 DEF Fill
  <2>3. \A w \in Workers : pc[w] \in SubmitPCs => job[w] \in Orders
    OBVIOUS
  <2>4. \A w \in Workers : pc'[w] = "acked" => book'[job'[w]] # "none"
    BY <2>1, <2>2, <2>3
  <2>5. BoundProviderActed
    BY <2>1, <2>2
  <2> QED BY <2>2, <2>4, <2>5
<1>41. ASSUME ExternalOrder PROVE ClaimInv' /\ BoundProviderActed
  BY <1>41 DEF ExternalOrder
<1>42. CASE UNCHANGED vars
  BY <1>42 DEF vars
<1> HIDE DEF TypeOK, IntentsTypeOK, CancelsTypeOK, WorkersTypeOK, ClaimInv,
   BoundProviderActed, SubmitPCs, CancelPCs, intentVars, cancelVars, providerVars
<1> QED BY <1>1, <1>2, <1>3, <1>4, <1>5, <1>6, <1>7, <1>8, <1>9, <1>10, <1>11, <1>12, <1>13,
     <1>14, <1>15, <1>16, <1>17, <1>18, <1>19, <1>20, <1>21, <1>22, <1>23, <1>24, <1>25, <1>26,
     <1>27, <1>28, <1>29, <1>30, <1>31, <1>32, <1>33, <1>34, <1>35, <1>36, <1>37, <1>38, <1>39,
     <1>40, <1>41, <1>42 DEF Next, Request, Submission, Cancellation, Reconciliation,
     Environment

-----------------------------------------------------------------------------
(* The record of an order and the provider's book *)

(* The order of the statuses, from not yet known to final. *)
LEMMA Ranks ==
  /\ StatusRank["none"] = 0 /\ StatusRank["not_found"] = 1 /\ StatusRank["accepted"] = 2
  /\ StatusRank["partially_filled"] = 3 /\ StatusRank["filled"] = 4
  /\ StatusRank["canceled"] = 4
BY DEF StatusRank, ProvStatuses, BookStates

(* Statuses of the provider are behind themselves, and "none" behind any. *)
LEMMA BehindSelf ==
  ASSUME NEW a \in BookStates
  PROVE  Behind(a, a) /\ Behind("none", a)
BY Ranks DEF Behind, BookStates

(* What is behind a status is behind what that status becomes. *)
LEMMA BehindTrans ==
  ASSUME NEW a \in BookStates, NEW b \in BookStates, NEW c \in BookStates,
         Behind(a, b), Behind(b, c)
  PROVE  Behind(a, c)
BY Ranks DEF Behind, BookStates

(* Three actions write the provider's book. *)
LEMMA BookWrites ==
  ASSUME [Next]_vars
  PROVE  \/ book' = book
         \/ \E w \in Workers : ProviderSubmit(w) \/ ProviderCancel(w)
         \/ \E o \in Orders : Fill(o)
<1> DEFINE Goal ==
             \/ book' = book
             \/ \E w \in Workers : ProviderSubmit(w) \/ ProviderCancel(w)
             \/ \E o \in Orders : Fill(o)
<1> USE DEF intentVars, cancelVars, providerVars, readVars, historyVars, killVars
<1>1. ASSUME NEW w \in Workers, Request(w) PROVE Goal
  BY <1>1 DEF Request, Admit, AdmitRow, Decide, RequestCancel, RecordCancellation,
         RequestReplace, DecideCancellation, AdmitReplacement, LinkReplacement
<1>2. ASSUME NEW w \in Workers, Submission(w) PROVE Goal
  BY <1>2 DEF Submission, DispatchBegin, RecoverIntents, ClaimNothing, ClaimExpires, ClaimNext,
         Recheck, ValidateSubmission, ProviderSubmit, ProviderDeclines, Acknowledge,
         ExpireClaimBeforeSubmit, FinishAmbiguous
<1>3. ASSUME NEW w \in Workers, Cancellation(w) PROVE Goal
  BY <1>3 DEF Cancellation, CancelDispatchBegin, RecoverCancels, CancelClaimNothing,
         CancelClaimExpires, ClaimNextCancellation, ValidateCancellation, ProviderCancel,
         ProviderCancelFails, AcknowledgeCancellation, EndCancellation,
         FinishAmbiguousCancellation, ExpireCancellation
<1>4. ASSUME NEW w \in Workers, Reconciliation(w) PROVE Goal
  BY <1>4 DEF Reconciliation, ReconcileBegin, RecoverIntents, SampleGeneration, RecoverCancels,
         Snapshot, ReconcileCommit, ApplySnapshot
<1>5. ASSUME NEW w \in Workers, Crash(w) \/ Start(w) PROVE Goal
  BY <1>5 DEF Crash, Start
<1>6. ASSUME Environment PROVE Goal
  <2>1. CASE ActivateKillSwitch \/ ClearKillSwitch \/ ExternalOrder
    BY <2>1 DEF ActivateKillSwitch, ClearKillSwitch, ExternalOrder
  <2>2. ASSUME NEW o \in Orders, LeaseLapses(o) \/ AuthorityLapses(o) PROVE Goal
    BY <2>2 DEF LeaseLapses, AuthorityLapses
  <2>2a. ASSUME NEW o \in Orders, Fill(o) PROVE Goal
    BY <2>2a
  <2>3. ASSUME NEW c \in Cancels, CancelLeaseLapses(c) PROVE Goal
    BY <2>3 DEF CancelLeaseLapses
  <2> QED BY <1>6, <2>1, <2>2, <2>2a, <2>3 DEF Environment
<1>7. ASSUME UNCHANGED vars PROVE Goal
  BY <1>7 DEF vars
<1> HIDE DEF Goal, intentVars, cancelVars, providerVars, readVars, historyVars, killVars
<1>8. Goal
  BY <1>1, <1>2, <1>3, <1>4, <1>5, <1>6, <1>7 DEF Next
<1> QED BY <1>8 DEF Goal

(* submit, _cancel_durable and record_simulated_fill: an order moves       *)
(* forward at the provider, and its final status is final.                 *)
LEMMA BookStep ==
  ASSUME TypeOK, [Next]_vars
  PROVE  \A o \in Orders : Behind(book[o], book'[o])
<1>0. book \in [Orders -> BookStates]
  BY DEF TypeOK, ControlsTypeOK
<1> USE <1>0, Ranks DEF BookStates, Behind
<1>1. CASE book' = book
  BY <1>1
<1>2. ASSUME NEW w \in Workers, ProviderSubmit(w)
      PROVE  \A o \in Orders : Behind(book[o], book'[o])
  <2>1. book' = [book EXCEPT ![job[w]] = IF @ = "none" THEN "accepted" ELSE @]
    BY <1>2 DEF ProviderSubmit
  <2> QED BY <2>1
<1>3. ASSUME NEW w \in Workers, ProviderCancel(w)
      PROVE  \A o \in Orders : Behind(book[o], book'[o])
  <2>1. book' = [book EXCEPT ![target[job[w]]] = IF @ = "accepted" THEN "canceled" ELSE @]
    BY <1>3 DEF ProviderCancel
  <2>2. \A o \in Orders :
          \/ book'[o] = book[o]
          \/ book[o] = "accepted" /\ book'[o] = "canceled"
    BY <2>1, <1>0
  <2> QED BY <2>2
<1>4. ASSUME NEW o \in Orders, Fill(o)
      PROVE  \A p \in Orders : Behind(book[p], book'[p])
  <2>1. PICK s \in {"partially_filled", "filled"} :
               s # book[o] /\ book' = [book EXCEPT ![o] = s]
    BY <1>4 DEF Fill
  <2>2. book[o] \in {"accepted", "partially_filled"}
    BY <1>4 DEF Fill, OpenStatuses
  <2> QED BY <2>1, <2>2
<1> QED BY <1>1, <1>2, <1>3, <1>4, BookWrites

(* Four actions write a recorded status or what a reconcile has seen. *)
LEMMA RecordWrites ==
  ASSUME [Next]_vars
  PROVE  \/ UNCHANGED <<provStatus, seenBook>>
         \/ \E w \in Workers : \/ Acknowledge(w) \/ ReconcileCommit(w) \/ Crash(w)
                               \/ \E complete \in BOOLEAN : Snapshot(w, complete)
<1> DEFINE Goal ==
             \/ UNCHANGED <<provStatus, seenBook>>
             \/ \E w \in Workers :
                  \/ Acknowledge(w) \/ ReconcileCommit(w) \/ Crash(w)
                  \/ \E complete \in BOOLEAN : Snapshot(w, complete)
<1> USE DEF intentVars, cancelVars, providerVars, readVars, historyVars, killVars
<1>1. ASSUME NEW w \in Workers, Request(w) PROVE Goal
  BY <1>1 DEF Request, Admit, AdmitRow, Decide, RequestCancel, RecordCancellation,
         RequestReplace, DecideCancellation, AdmitReplacement, LinkReplacement
<1>2. ASSUME NEW w \in Workers, Submission(w) PROVE Goal
  BY <1>2 DEF Submission, DispatchBegin, RecoverIntents, ClaimNothing, ClaimExpires, ClaimNext,
         Recheck, ValidateSubmission, ProviderSubmit, ProviderDeclines, Acknowledge,
         ExpireClaimBeforeSubmit, FinishAmbiguous
<1>3. ASSUME NEW w \in Workers, Cancellation(w) PROVE Goal
  BY <1>3 DEF Cancellation, CancelDispatchBegin, RecoverCancels, CancelClaimNothing,
         CancelClaimExpires, ClaimNextCancellation, ValidateCancellation, ProviderCancel,
         ProviderCancelFails, AcknowledgeCancellation, EndCancellation,
         FinishAmbiguousCancellation, ExpireCancellation
<1>4. ASSUME NEW w \in Workers, Reconciliation(w) PROVE Goal
  BY <1>4 DEF Reconciliation, ReconcileBegin, RecoverIntents, SampleGeneration, RecoverCancels,
         Snapshot, ReconcileCommit, ApplySnapshot
<1>5. ASSUME NEW w \in Workers, Crash(w) \/ Start(w) PROVE Goal
  BY <1>5 DEF Crash, Start
<1>6. ASSUME Environment PROVE Goal
  <2>1. CASE ActivateKillSwitch \/ ClearKillSwitch \/ ExternalOrder
    BY <2>1 DEF ActivateKillSwitch, ClearKillSwitch, ExternalOrder
  <2>2. ASSUME NEW o \in Orders, LeaseLapses(o) \/ AuthorityLapses(o) PROVE Goal
    BY <2>2 DEF LeaseLapses, AuthorityLapses
  <2>2a. ASSUME NEW o \in Orders, Fill(o) PROVE Goal
    BY <2>2a DEF Fill
  <2>3. ASSUME NEW c \in Cancels, CancelLeaseLapses(c) PROVE Goal
    BY <2>3 DEF CancelLeaseLapses
  <2> QED BY <1>6, <2>1, <2>2, <2>2a, <2>3 DEF Environment
<1>7. ASSUME UNCHANGED vars PROVE Goal
  BY <1>7 DEF vars
<1> HIDE DEF Goal, intentVars, cancelVars, providerVars, readVars, historyVars, killVars
<1>8. Goal
  BY <1>1, <1>2, <1>3, <1>4, <1>5, <1>6, <1>7 DEF Next
<1> QED BY <1>8 DEF Goal

(* No order's recorded status goes back in this step. *)
RecordKept == \A o \in Orders : StatusRank[provStatus[o]] <= StatusRank[provStatus'[o]]

(* reconcile, _execution_transition_allowed and the acknowledgement: no    *)
(* step records a status the provider has not reached, or an older one.    *)
LEMMA RecordStep ==
  ASSUME TypeOK, TypeOK', SettledInv, ClaimInv, RecordInv, [Next]_vars
  PROVE  RecordInv' /\ RecordKept
<1>1. /\ book \in [Orders -> BookStates] /\ book' \in [Orders -> BookStates]
      /\ provStatus \in [Orders -> ProvStatuses] /\ provStatus' \in [Orders -> ProvStatuses]
      /\ seenBook \in [Workers -> [Orders -> BookStates]]
      /\ seenBook' \in [Workers -> [Orders -> BookStates]]
  BY DEF TypeOK, IntentsTypeOK, ControlsTypeOK, WorkersTypeOK
<1>2. \A o \in Orders : Behind(book[o], book'[o])
  BY BookStep
<1>3. \A o \in Orders : provStatus[o] # "not_found" =>
                         provStatus[o] \in BookStates /\ Behind(provStatus[o], book[o])
  BY <1>1 DEF RecordInv, RecordNeverAhead, Behind, ProvStatuses
<1>4. \A o \in Orders : provStatus[o] # "not_found" => Behind(provStatus[o], book'[o])
  BY <1>1, <1>2, <1>3, BehindTrans
<1>5. \A w \in Workers, o \in Orders : Behind(seenBook[w][o], book'[o])
  BY <1>1, <1>2, BehindTrans DEF RecordInv
<1>6. \A o \in Orders : StatusRank[provStatus[o]] <= StatusRank[provStatus[o]]
  BY <1>1, Ranks DEF ProvStatuses, BookStates
<1>7. ASSUME \A o \in Orders : provStatus'[o] # "not_found" => Behind(provStatus'[o], book'[o]),
             \A w \in Workers, o \in Orders : Behind(seenBook'[w][o], book'[o])
      PROVE  RecordInv'
  <2>1. RecordNeverAhead'
    BY <1>1, <1>7, Ranks DEF RecordNeverAhead, Behind, ProvStatuses, BookStates
  <2> QED BY <2>1, <1>7 DEF RecordInv
<1>8. CASE UNCHANGED <<provStatus, seenBook>>
  BY <1>4, <1>5, <1>6, <1>7, <1>8 DEF RecordKept
<1>9. ASSUME NEW w \in Workers, Acknowledge(w) PROVE RecordInv' /\ RecordKept
  <2>1. UNCHANGED <<seenBook, book>>
    BY <1>9 DEF Acknowledge, readVars, providerVars
  <2>2. CASE HoldsLease(w, job[w])
    <3>1. job[w] \in Orders /\ book[job[w]] # "none"
      BY <1>9 DEF Acknowledge, ClaimInv, TypeOK, WorkersTypeOK, SubmitPCs
    <3>2. provStatus[job[w]] = "none"
      BY <2>2, <3>1 DEF HoldsLease, SettledInv, LeasesAreClaims, ClaimInv
    <3>3. provStatus' = [provStatus EXCEPT ![job[w]] = "accepted"]
      BY <2>2, <1>9 DEF Acknowledge
    <3>4. Behind("accepted", book[job[w]])
      BY <1>1, <3>1, Ranks DEF Behind, BookStates
    <3>5. \A o \in Orders : provStatus'[o] # "not_found" => Behind(provStatus'[o], book'[o])
      BY <1>1, <1>4, <2>1, <3>1, <3>3, <3>4
    <3>6. RecordKept
      BY <1>1, <1>6, <3>1, <3>2, <3>3, Ranks DEF RecordKept
    <3> QED BY <1>5, <1>7, <2>1, <3>5, <3>6
  <2>3. CASE ~HoldsLease(w, job[w])
    BY <1>8, <1>9, <2>1, <2>3 DEF Acknowledge, intentVars
  <2> QED BY <2>2, <2>3
<1>10. ASSUME NEW w \in Workers, NEW complete \in BOOLEAN, Snapshot(w, complete)
       PROVE  RecordInv' /\ RecordKept
  <2>1. seenBook' = [seenBook EXCEPT ![w] = book] /\ provStatus' = provStatus /\ book' = book
    BY <1>10 DEF Snapshot, intentVars, providerVars
  <2>2. \A o \in Orders : Behind(book[o], book[o])
    BY <1>1, BehindSelf
  <2>3. \A v \in Workers, o \in Orders : Behind(seenBook'[v][o], book'[o])
    BY <1>1, <1>5, <2>1, <2>2
  <2> QED BY <1>4, <1>6, <1>7, <2>1, <2>3 DEF RecordKept
<1>11. ASSUME NEW w \in Workers, Crash(w) PROVE RecordInv' /\ RecordKept
  <2>1. seenBook' = [seenBook EXCEPT ![w] = EmptyBook] /\ provStatus' = provStatus
    BY <1>11 DEF Crash, intentVars
  <2>2. \A o \in Orders : Behind(EmptyBook[o], book'[o])
    BY <1>1, BehindSelf DEF EmptyBook
  <2>3. \A v \in Workers, o \in Orders : Behind(seenBook'[v][o], book'[o])
    BY <1>1, <1>5, <2>1, <2>2
  <2> QED BY <1>4, <1>6, <1>7, <2>1, <2>3 DEF RecordKept
<1>12. ASSUME NEW w \in Workers, ReconcileCommit(w) PROVE RecordInv' /\ RecordKept
  <2>1. seenBook' = [seenBook EXCEPT ![w] = EmptyBook] /\ book' = book
    BY <1>12 DEF ReconcileCommit, providerVars
  <2>2. \A o \in Orders : Behind(EmptyBook[o], book'[o])
    BY <1>1, BehindSelf DEF EmptyBook
  <2>3. \A v \in Workers, o \in Orders : Behind(seenBook'[v][o], book'[o])
    BY <1>1, <1>5, <2>1, <2>2
  <2>4. CASE ~Complete(w)
    BY <1>4, <1>6, <1>7, <1>12, <2>3, <2>4 DEF ReconcileCommit, RecordKept, intentVars
  <2>5. CASE Complete(w)
    <3>1. provStatus' = [o \in Orders |->
            IF o \in CancelTargets THEN "canceled"
            ELSE IF outbox[o] \notin Tracked THEN provStatus[o]
            ELSE IF seenBook[w][o] = "none" THEN "not_found" ELSE seenBook[w][o]]
      BY <2>5, <1>12 DEF ReconcileCommit, ApplySnapshot
    <3>2. \A o \in CancelTargets : seenBook[w][o] = "canceled"
      BY <2>5 DEF Complete, CancelAccounted, CancelTargets
    <3>3. \A o \in Orders : outbox[o] \in Tracked => Accounted(w, o)
      BY <2>5 DEF Complete
    <3>4. ASSUME NEW o \in Orders, provStatus'[o] # "not_found"
          PROVE  Behind(provStatus'[o], book'[o])
      BY <1>4, <1>5, <3>1, <3>2, <3>4
    <3>5. ASSUME NEW o \in Orders
          PROVE  StatusRank[provStatus[o]] <= StatusRank[provStatus'[o]]
      <4>1. provStatus[o] \in ProvStatuses /\ seenBook[w][o] \in BookStates
        BY <1>1
      <4>2. CASE o \in CancelTargets
        BY <3>1, <4>1, <4>2, Ranks DEF ProvStatuses, BookStates
      <4>3. CASE o \notin CancelTargets /\ outbox[o] \notin Tracked
        BY <3>1, <4>3, <1>6
      <4>4. CASE o \notin CancelTargets /\ outbox[o] \in Tracked /\ seenBook[w][o] = "none"
        <5>1. provStatus[o] = "none"
          BY <3>3, <4>4 DEF Accounted, ClaimInv
        <5> QED BY <3>1, <4>4, <5>1, Ranks
      <4>5. CASE o \notin CancelTargets /\ outbox[o] \in Tracked /\ seenBook[w][o] # "none"
        <5>1. TransitionAllowed(provStatus[o], seenBook[w][o])
          BY <3>3, <4>5 DEF Accounted
        <5>2. StatusRank[provStatus[o]] <= StatusRank[seenBook[w][o]]
          BY <4>1, <4>5, <5>1, Ranks DEF TransitionAllowed, ProvStatuses, BookStates
        <5> QED BY <3>1, <4>5, <5>2
      <4> QED BY <4>2, <4>3, <4>4, <4>5
    <3> QED BY <1>7, <2>3, <3>4, <3>5 DEF RecordKept
  <2> QED BY <2>4, <2>5
<1> QED BY <1>8, <1>9, <1>10, <1>11, <1>12, RecordWrites

(* The initial state satisfies both invariants of the record. *)
LEMMA RecordInit == Init => ClaimInv /\ RecordInv
<1> SUFFICES ASSUME Init PROVE ClaimInv /\ RecordInv
  OBVIOUS
<1>1. ClaimInv
  BY DEF Init, ClaimInv, SubmitPCs
<1>2. RecordInv
  BY Ranks DEF Init, RecordInv, RecordNeverAhead, Behind, EmptyBook
<1> QED BY <1>1, <1>2

(* Everything the proofs about the record rest on. *)
RecordInvariant == TypeOK /\ SettledInv /\ DeliveryInv /\ ClaimInv /\ RecordInv

(* They hold in every behaviour of the specification. *)
LEMMA RecordInvariance == Spec => []RecordInvariant
<1>1. Init => RecordInvariant
  BY TypeInit, SettledInit, DeliveryInit, RecordInit DEF RecordInvariant
<1>2. RecordInvariant /\ [Next]_vars => RecordInvariant'
  BY TypeStep, SettledStep, DeliveryStep, ClaimStep, RecordStep DEF RecordInvariant
<1> QED BY <1>1, <1>2, PTL DEF Spec

(* The service's record never claims more than the provider has done, and  *)
(* a final status it records is the provider's own.                        *)
THEOREM RecordSafety == Spec => []RecordNeverAhead
<1>1. RecordInvariant => RecordNeverAhead
  BY DEF RecordInvariant, RecordInv
<1> QED BY <1>1, RecordInvariance, PTL

(* However the snapshots of overlapping reconciliations are committed, the *)
(* recorded status of an order never goes back.                            *)
THEOREM RecordMonotonicity == Spec => RecordNeverRegresses
<1>1. RecordInvariant /\ RecordInvariant' /\ [Next]_vars => [RecordKept]_vars
  BY RecordStep DEF RecordInvariant
<1>2. Spec => [][RecordKept]_vars
  BY <1>1, RecordInvariance, PTL DEF Spec
<1> QED BY <1>2 DEF RecordNeverRegresses, RecordKept

(* An order goes to the provider it is bound to, and only an instance of   *)
(* that provider declares it reconciled.                                   *)
THEOREM ProviderBinding == Spec => OnlyBoundProviderActs
<1>1. RecordInvariant /\ [Next]_vars => [BoundProviderActed]_vars
  BY ClaimStep DEF RecordInvariant
<1>2. Spec => [][BoundProviderActed]_vars
  BY <1>1, RecordInvariance, PTL DEF Spec
<1> QED BY <1>2 DEF OnlyBoundProviderActs, BoundProviderActed

-----------------------------------------------------------------------------
(* Cancellations at the provider *)

(* The initial state satisfies the invariant of the cancellations. *)
LEMMA CancelInit == Init => CancelInv
BY DEF Init, CancelInv, EmptyBook, CancelPCs

(* No step gives two workers the same cancellation, closes one as unsent   *)
(* that may have reached the provider, or cancels an order without one.    *)
LEMMA CancelStep == TypeOK /\ CancelInv /\ [Next]_vars => CancelInv'
<1> SUFFICES ASSUME TypeOK, CancelInv, [Next]_vars PROVE CancelInv'
  OBVIOUS
<1>0. /\ \A w \in Workers : pc[w] \in CancelPCs => job[w] \in Cancels
      /\ cstate \in [Cancels -> CancelStates] 
      /\ pc \in [Workers -> SubmitPCs \cup CancelPCs \cup OtherPCs]
      /\ job \in [Workers -> Orders \cup Cancels \cup {NoJob}]
      /\ target \in [Cancels -> Orders \cup {NoOrder}]
      /\ book \in [Orders -> BookStates]
  BY DEF TypeOK, WorkersTypeOK, CancelsTypeOK, ControlsTypeOK
<1> USE <1>0 DEF CancelInv, SubmitPCs, CancelPCs, OtherPCs, CancelUnsettled, intentVars,
   cancelVars, providerVars
<1>1. ASSUME NEW w \in Workers, NEW o \in Orders, Admit(w, o) PROVE CancelInv'
  BY <1>1 DEF Admit, AdmitRow, Outcomes
<1>2. ASSUME NEW w \in Workers, NEW o \in Orders, NEW approve \in BOOLEAN, Decide(w, o, approve)
       PROVE CancelInv'
  BY <1>2 DEF Decide
<1>3. ASSUME NEW w \in Workers, NEW o \in Orders, NEW c \in Cancels, RequestCancel(w, o, c)
       PROVE CancelInv'
  BY <1>3 DEF RequestCancel, RecordCancellation, Cancelable
<1>4. ASSUME NEW w \in Workers, NEW o \in Orders, NEW c \in Cancels, NEW r \in Orders,
             RequestReplace(w, o, c, r)
       PROVE CancelInv'
  BY <1>4 DEF RequestReplace, RecordCancellation, Cancelable
<1>5. ASSUME NEW w \in Workers, NEW c \in Cancels, NEW approve \in BOOLEAN,
             DecideCancellation(w, c, approve)
       PROVE CancelInv'
  BY <1>5 DEF DecideCancellation
<1>6. ASSUME NEW w \in Workers, NEW c \in Cancels, AdmitReplacement(w, c) PROVE CancelInv'
  BY <1>6 DEF AdmitReplacement, AdmitRow, Outcomes, ReplacementReady, Take
<1>7. ASSUME NEW w \in Workers, LinkReplacement(w) PROVE CancelInv'
  BY <1>7 DEF LinkReplacement, Return, Take
<1>8. ASSUME NEW w \in Workers, DispatchBegin(w) PROVE CancelInv'
  BY <1>8 DEF DispatchBegin, Goto, RecoverIntents, Lapsed
<1>9. ASSUME NEW w \in Workers, ClaimNothing(w) PROVE CancelInv'
  BY <1>9 DEF ClaimNothing, Goto
<1>10. ASSUME NEW w \in Workers, NEW o \in Orders, ClaimExpires(w, o) PROVE CancelInv'
  BY <1>10 DEF ClaimExpires, Goto
<1>11. ASSUME NEW w \in Workers, NEW o \in Orders, ClaimNext(w, o) PROVE CancelInv'
  BY <1>11 DEF ClaimNext, Take
<1>12. ASSUME NEW w \in Workers, NEW open \in BOOLEAN, Recheck(w, open) PROVE CancelInv'
  BY <1>12 DEF Recheck, Goto
<1>13. ASSUME NEW w \in Workers, ValidateSubmission(w) PROVE CancelInv'
  BY <1>13 DEF ValidateSubmission, Goto
<1>14. ASSUME NEW w \in Workers, ProviderSubmit(w) PROVE CancelInv'
  BY <1>14 DEF ProviderSubmit, Goto, SubmitReplies
<1>15. ASSUME NEW w \in Workers, ProviderDeclines(w) PROVE CancelInv'
  BY <1>15 DEF ProviderDeclines, Goto
<1>16. ASSUME NEW w \in Workers, Acknowledge(w) PROVE CancelInv'
  BY <1>16 DEF Acknowledge, Return, Take
<1>17. ASSUME NEW w \in Workers, ExpireClaimBeforeSubmit(w) PROVE CancelInv'
  BY <1>17 DEF ExpireClaimBeforeSubmit, Return, Take
<1>18. ASSUME NEW w \in Workers, FinishAmbiguous(w) PROVE CancelInv'
  BY <1>18 DEF FinishAmbiguous, Return, Take
<1>19. ASSUME NEW w \in Workers, CancelDispatchBegin(w) PROVE CancelInv'
  BY <1>19 DEF CancelDispatchBegin, Goto, RecoverCancels, CLapsed
<1>20. ASSUME NEW w \in Workers, CancelClaimNothing(w) PROVE CancelInv'
  BY <1>20 DEF CancelClaimNothing, Goto
<1>21. ASSUME NEW w \in Workers, NEW c \in Cancels, CancelClaimExpires(w, c) PROVE CancelInv'
  BY <1>21 DEF CancelClaimExpires, Goto
<1>22. ASSUME NEW w \in Workers, NEW c \in Cancels, ClaimNextCancellation(w, c) PROVE CancelInv'
  BY <1>22 DEF ClaimNextCancellation, Take
<1>23. ASSUME NEW w \in Workers, ValidateCancellation(w) PROVE CancelInv'
  <2>1. pc[w] = "cancel_claimed" /\ UNCHANGED <<cstate, target, book, job>>
    BY <1>23 DEF ValidateCancellation, Goto
  <2>2. PICK label \in {"cancel_validated", "cancel_refused"} :
               /\ pc' = [pc EXCEPT ![w] = label]
               /\ label = "cancel_validated" => cstate[job[w]] = "canceling"
    BY <1>23 DEF ValidateCancellation, ValidCancellation, Goto
  <2> QED BY <2>1, <2>2
<1>24. ASSUME NEW w \in Workers, ProviderCancel(w) PROVE CancelInv'
  BY <1>24 DEF ProviderCancel, Goto, CancelReplies
<1>25. ASSUME NEW w \in Workers, ProviderCancelFails(w) PROVE CancelInv'
  BY <1>25 DEF ProviderCancelFails, Goto
<1>26. ASSUME NEW w \in Workers, AcknowledgeCancellation(w) PROVE CancelInv'
  BY <1>26 DEF AcknowledgeCancellation, EndCancellation, Return, Take
<1>27. ASSUME NEW w \in Workers, FinishAmbiguousCancellation(w) PROVE CancelInv'
  BY <1>27 DEF FinishAmbiguousCancellation, EndCancellation, Return, Take
<1>28. ASSUME NEW w \in Workers, ExpireCancellation(w) PROVE CancelInv'
  BY <1>28 DEF ExpireCancellation, EndCancellation, Return, Take
<1>29. ASSUME NEW w \in Workers, ReconcileBegin(w) PROVE CancelInv'
  BY <1>29 DEF ReconcileBegin, Goto, RecoverIntents, Lapsed
<1>30. ASSUME NEW w \in Workers, SampleGeneration(w) PROVE CancelInv'
  BY <1>30 DEF SampleGeneration, Goto, RecoverCancels, CLapsed
<1>31. ASSUME NEW w \in Workers, NEW complete \in BOOLEAN, Snapshot(w, complete)
       PROVE CancelInv'
  BY <1>31 DEF Snapshot, Goto
<1>32. ASSUME NEW w \in Workers, ReconcileCommit(w) PROVE CancelInv'
  BY <1>32 DEF ReconcileCommit, Return, Take, ApplySnapshot, OpenCancellations
<1>33. ASSUME NEW w \in Workers, Crash(w) PROVE CancelInv'
  BY <1>33 DEF Crash, Take
<1>34. ASSUME NEW w \in Workers, Start(w) PROVE CancelInv'
  BY <1>34 DEF Start, Goto
<1>35. ASSUME ActivateKillSwitch PROVE CancelInv'
  BY <1>35 DEF ActivateKillSwitch
<1>36. ASSUME ClearKillSwitch PROVE CancelInv'
  BY <1>36 DEF ClearKillSwitch
<1>37. ASSUME NEW o \in Orders, LeaseLapses(o) PROVE CancelInv'
  BY <1>37 DEF LeaseLapses
<1>38. ASSUME NEW c \in Cancels, CancelLeaseLapses(c) PROVE CancelInv'
  BY <1>38 DEF CancelLeaseLapses
<1>39. ASSUME NEW o \in Orders, AuthorityLapses(o) PROVE CancelInv'
  BY <1>39 DEF AuthorityLapses
<1>40. ASSUME NEW o \in Orders, Fill(o) PROVE CancelInv'
  BY <1>40 DEF Fill
<1>41. ASSUME ExternalOrder PROVE CancelInv'
  BY <1>41 DEF ExternalOrder
<1>42. CASE UNCHANGED vars
  BY <1>42 DEF vars
<1> HIDE <1>0 DEF CancelInv, SubmitPCs, CancelPCs, OtherPCs, CancelUnsettled, intentVars,
   cancelVars, providerVars
<1> QED BY <1>1, <1>2, <1>3, <1>4, <1>5, <1>6, <1>7, <1>8, <1>9, <1>10, <1>11, <1>12, <1>13,
     <1>14, <1>15, <1>16, <1>17, <1>18, <1>19, <1>20, <1>21, <1>22, <1>23, <1>24, <1>25, <1>26,
     <1>27, <1>28, <1>29, <1>30, <1>31, <1>32, <1>33, <1>34, <1>35, <1>36, <1>37, <1>38, <1>39,
     <1>40, <1>41, <1>42 DEF Next, Request, Submission, Cancellation, Reconciliation,
     Environment

-----------------------------------------------------------------------------
(* Replacements *)

(* The initial state satisfies the invariant of the replacements. *)
LEMMA ReplaceInit == Init => ReplaceInv
BY ConstantsAssumption DEF Init, ReplaceInv

(* A step that starts no link and keeps what the cancellations say.        *)
LEMMA ReplaceKept ==
  ASSUME ReplaceInv,
         \A o \in Orders : book[o] = "canceled" => book'[o] = "canceled",
         \A c \in Cancels : cstate[c] # "absent" =>
           cstate'[c] # "absent" /\ target'[c] = target[c] /\ target[c] \in Orders,
         UNCHANGED <<replacement, linked, madeFor>>,
         \A w \in Workers : pc'[w] = "linking" => pc[w] = "linking" /\ job'[w] = job[w]
  PROVE  ReplaceInv'
BY DEF ReplaceInv

(* No step makes a row by way of a cancellation, or starts to link one to  *)
(* it, while the order the cancellation is of could still be open.         *)
LEMMA ReplaceStep ==
  TypeOK /\ RecordInv /\ ReplaceInv /\ [Next]_vars => ReplaceInv'
<1> SUFFICES ASSUME TypeOK, RecordInv, ReplaceInv, [Next]_vars PROVE ReplaceInv'
  OBVIOUS
<1>0. /\ \A o \in Orders : book[o] = "canceled" => book'[o] = "canceled"
      /\ \A c \in Cancels : cstate[c] # "absent" => target[c] \in Orders
      /\ cstate \in [Cancels -> CancelStates] /\ approval \in [Orders -> Approvals]
      /\ target \in [Cancels -> Orders \cup {NoOrder}]
      /\ replacement \in [Cancels -> Orders \cup {NoOrder}]
      /\ NoOrder \notin Orders
      /\ pc \in [Workers -> SubmitPCs \cup CancelPCs \cup OtherPCs]
      /\ job \in [Workers -> Orders \cup Cancels \cup {NoJob}]
      /\ madeFor \in [Orders -> Cancels \cup {NoJob}]
      /\ \A w \in Workers : pc[w] = "linking" => job[w] \in Cancels
  BY BookStep, ConstantsAssumption
     DEF TypeOK, CancelsTypeOK, IntentsTypeOK, WorkersTypeOK, Behind
<1> USE <1>0, ReplaceKept DEF CancelUnsettled, intentVars, cancelVars, historyVars
<1>1. ASSUME NEW w \in Workers, NEW o \in Orders, Admit(w, o) PROVE ReplaceInv'
  BY <1>1 DEF Admit, AdmitRow, Outcomes
<1>2. ASSUME NEW w \in Workers, NEW o \in Orders, NEW approve \in BOOLEAN, Decide(w, o, approve)
       PROVE ReplaceInv'
  BY <1>2 DEF Decide
<1>3. ASSUME NEW w \in Workers, NEW o \in Orders, NEW c \in Cancels, RequestCancel(w, o, c)
       PROVE ReplaceInv'
  BY <1>3 DEF RequestCancel, RecordCancellation, Cancelable
<1>4. ASSUME NEW w \in Workers, NEW o \in Orders, NEW c \in Cancels, NEW r \in Orders,
             RequestReplace(w, o, c, r)
       PROVE ReplaceInv'
  BY <1>4 DEF RequestReplace, RecordCancellation, Cancelable, ReplaceInv
<1>5. ASSUME NEW w \in Workers, NEW c \in Cancels, NEW approve \in BOOLEAN,
             DecideCancellation(w, c, approve)
       PROVE ReplaceInv'
  BY <1>5 DEF DecideCancellation
<1>6. ASSUME NEW w \in Workers, NEW c \in Cancels, AdmitReplacement(w, c) PROVE ReplaceInv'
  <2>1. /\ replacement[c] \in Orders /\ cstate[c] # "absent"
        /\ provStatus[target[c]] = "canceled"
        /\ UNCHANGED <<cstate, target, replacement, linked, book>>
    BY <1>6 DEF AdmitReplacement, ReplacementReady, providerVars
  <2>2. book[target[c]] = "canceled"
    BY <2>1 DEF RecordInv, RecordNeverAhead
  <2>3. \A o \in Orders : madeFor'[o] \in {madeFor[o], c}
    BY <1>6, <2>1 DEF AdmitReplacement
  <2>4. /\ pc' = [pc EXCEPT ![w] = "linking"] /\ job' = [job EXCEPT ![w] = c]
    BY <1>6 DEF AdmitReplacement, Take
  <2> QED BY <2>1, <2>2, <2>3, <2>4 DEF ReplaceInv
<1>7. ASSUME NEW w \in Workers, LinkReplacement(w) PROVE ReplaceInv'
  BY <1>7 DEF LinkReplacement, Return, Take, ReplaceInv
<1>8. ASSUME NEW w \in Workers, DispatchBegin(w) PROVE ReplaceInv'
  BY <1>8 DEF DispatchBegin, Goto, RecoverIntents, Lapsed
<1>9. ASSUME NEW w \in Workers, ClaimNothing(w) PROVE ReplaceInv'
  BY <1>9 DEF ClaimNothing, Goto
<1>10. ASSUME NEW w \in Workers, NEW o \in Orders, ClaimExpires(w, o) PROVE ReplaceInv'
  BY <1>10 DEF ClaimExpires, Goto
<1>11. ASSUME NEW w \in Workers, NEW o \in Orders, ClaimNext(w, o) PROVE ReplaceInv'
  BY <1>11 DEF ClaimNext, Take
<1>12. ASSUME NEW w \in Workers, NEW open \in BOOLEAN, Recheck(w, open) PROVE ReplaceInv'
  BY <1>12 DEF Recheck, Goto
<1>13. ASSUME NEW w \in Workers, ValidateSubmission(w) PROVE ReplaceInv'
  BY <1>13 DEF ValidateSubmission, Goto
<1>14. ASSUME NEW w \in Workers, ProviderSubmit(w) PROVE ReplaceInv'
  BY <1>14 DEF ProviderSubmit, Goto, SubmitReplies
<1>15. ASSUME NEW w \in Workers, ProviderDeclines(w) PROVE ReplaceInv'
  BY <1>15 DEF ProviderDeclines, Goto
<1>16. ASSUME NEW w \in Workers, Acknowledge(w) PROVE ReplaceInv'
  BY <1>16 DEF Acknowledge, Return, Take
<1>17. ASSUME NEW w \in Workers, ExpireClaimBeforeSubmit(w) PROVE ReplaceInv'
  BY <1>17 DEF ExpireClaimBeforeSubmit, Return, Take
<1>18. ASSUME NEW w \in Workers, FinishAmbiguous(w) PROVE ReplaceInv'
  BY <1>18 DEF FinishAmbiguous, Return, Take
<1>19. ASSUME NEW w \in Workers, CancelDispatchBegin(w) PROVE ReplaceInv'
  BY <1>19 DEF CancelDispatchBegin, Goto, RecoverCancels, CLapsed
<1>20. ASSUME NEW w \in Workers, CancelClaimNothing(w) PROVE ReplaceInv'
  BY <1>20 DEF CancelClaimNothing, Goto
<1>21. ASSUME NEW w \in Workers, NEW c \in Cancels, CancelClaimExpires(w, c) PROVE ReplaceInv'
  BY <1>21 DEF CancelClaimExpires, Goto
<1>22. ASSUME NEW w \in Workers, NEW c \in Cancels, ClaimNextCancellation(w, c)
       PROVE ReplaceInv'
  BY <1>22 DEF ClaimNextCancellation, Take
<1>23. ASSUME NEW w \in Workers, ValidateCancellation(w) PROVE ReplaceInv'
  BY <1>23 DEF ValidateCancellation, Goto
<1>24. ASSUME NEW w \in Workers, ProviderCancel(w) PROVE ReplaceInv'
  BY <1>24 DEF ProviderCancel, Goto, CancelReplies
<1>25. ASSUME NEW w \in Workers, ProviderCancelFails(w) PROVE ReplaceInv'
  BY <1>25 DEF ProviderCancelFails, Goto
<1>26. ASSUME NEW w \in Workers, AcknowledgeCancellation(w) PROVE ReplaceInv'
  BY <1>26 DEF AcknowledgeCancellation, EndCancellation, Return, Take
<1>27. ASSUME NEW w \in Workers, FinishAmbiguousCancellation(w) PROVE ReplaceInv'
  BY <1>27 DEF FinishAmbiguousCancellation, EndCancellation, Return, Take
<1>28. ASSUME NEW w \in Workers, ExpireCancellation(w) PROVE ReplaceInv'
  BY <1>28 DEF ExpireCancellation, EndCancellation, Return, Take
<1>29. ASSUME NEW w \in Workers, ReconcileBegin(w) PROVE ReplaceInv'
  BY <1>29 DEF ReconcileBegin, Goto, RecoverIntents, Lapsed
<1>30. ASSUME NEW w \in Workers, SampleGeneration(w) PROVE ReplaceInv'
  BY <1>30 DEF SampleGeneration, Goto, RecoverCancels, CLapsed
<1>31. ASSUME NEW w \in Workers, NEW complete \in BOOLEAN, Snapshot(w, complete)
       PROVE ReplaceInv'
  BY <1>31 DEF Snapshot, Goto
<1>32. ASSUME NEW w \in Workers, ReconcileCommit(w) PROVE ReplaceInv'
  BY <1>32 DEF ReconcileCommit, Return, Take, ApplySnapshot, OpenCancellations
<1>33. ASSUME NEW w \in Workers, Crash(w) PROVE ReplaceInv'
  BY <1>33 DEF Crash, Take
<1>34. ASSUME NEW w \in Workers, Start(w) PROVE ReplaceInv'
  BY <1>34 DEF Start, Goto
<1>35. ASSUME ActivateKillSwitch PROVE ReplaceInv'
  BY <1>35 DEF ActivateKillSwitch
<1>36. ASSUME ClearKillSwitch PROVE ReplaceInv'
  BY <1>36 DEF ClearKillSwitch
<1>37. ASSUME NEW o \in Orders, LeaseLapses(o) PROVE ReplaceInv'
  BY <1>37 DEF LeaseLapses
<1>38. ASSUME NEW c \in Cancels, CancelLeaseLapses(c) PROVE ReplaceInv'
  BY <1>38 DEF CancelLeaseLapses
<1>39. ASSUME NEW o \in Orders, AuthorityLapses(o) PROVE ReplaceInv'
  BY <1>39 DEF AuthorityLapses
<1>40. ASSUME NEW o \in Orders, Fill(o) PROVE ReplaceInv'
  BY <1>40 DEF Fill
<1>41. ASSUME ExternalOrder PROVE ReplaceInv'
  BY <1>41 DEF ExternalOrder
<1>42. CASE UNCHANGED vars
  BY <1>42 DEF vars, ReplaceInv
<1> HIDE <1>0, ReplaceKept DEF CancelUnsettled, intentVars, cancelVars, historyVars
<1> QED BY <1>1, <1>2, <1>3, <1>4, <1>5, <1>6, <1>7, <1>8, <1>9, <1>10, <1>11, <1>12, <1>13,
     <1>14, <1>15, <1>16, <1>17, <1>18, <1>19, <1>20, <1>21, <1>22, <1>23, <1>24, <1>25, <1>26,
     <1>27, <1>28, <1>29, <1>30, <1>31, <1>32, <1>33, <1>34, <1>35, <1>36, <1>37, <1>38, <1>39,
     <1>40, <1>41, <1>42 DEF Next, Request, Submission, Cancellation, Reconciliation,
     Environment

(* Everything the proofs about cancellations and replacements rest on. *)
ReplaceInvariant == RecordInvariant /\ CancelInv /\ ReplaceInv

(* They hold in every behaviour of the specification. *)
LEMMA ReplaceInvariance == Spec => []ReplaceInvariant
<1>1. Init => CancelInv /\ ReplaceInv
  BY CancelInit, ReplaceInit
<1>2. RecordInvariant /\ CancelInv /\ ReplaceInv /\ [Next]_vars => CancelInv' /\ ReplaceInv'
  BY CancelStep, ReplaceStep DEF RecordInvariant
<1>3. Spec => [](RecordInvariant /\ CancelInv /\ ReplaceInv)
  BY <1>1, <1>2, RecordInvariance, PTL DEF Spec
<1> QED BY <1>3, PTL DEF ReplaceInvariant

(* _cancel_durable: an order is canceled at the provider only on the       *)
(* strength of a cancellation whose row still says that it was sent.       *)
THEOREM CancellationOnRequest == Spec => []CanceledOnlyOnRequest
<1>1. ReplaceInvariant => CanceledOnlyOnRequest
  BY DEF ReplaceInvariant, CancelInv, CanceledOnlyOnRequest
<1> QED BY <1>1, ReplaceInvariance, PTL

(* admit_replacement makes a row, and links it to the request, only once   *)
(* the provider itself holds the order it replaces as canceled.            *)
THEOREM ReplacementSafety == Spec => []ReplacementWaits
<1>1. ReplaceInvariant => ReplacementWaits
  BY DEF ReplaceInvariant, ReplaceInv, ReplacementWaits
<1> QED BY <1>1, ReplaceInvariance, PTL

-----------------------------------------------------------------------------
(* PaperExecution implements PaperOutbox *)


(* A step that writes neither the rows' states nor the provider's record.  *)
LEMMA SameOutbox ==
  ASSUME UNCHANGED <<approval, outbox, book>>
  PROVE  UNCHANGED <<OutboxStages, Delivered>>
BY DEF OutboxStages, Delivered, StageOf

(* A step that keeps a row that was sent in one of the states in doubt.    *)
LEMMA SameStages ==
  ASSUME approval' = approval,
         \A o \in Orders :
           outbox'[o] = outbox[o] \/ (outbox[o] \in Unsettled /\ outbox'[o] \in Unsettled),
         \A o \in Orders : book'[o] = "none" <=> book[o] = "none"
  PROVE  UNCHANGED <<OutboxStages, Delivered>>
<1>1. \A o \in Orders : StageOf(o)' = StageOf(o)
  BY DEF StageOf, Unsettled
<1>2. OutboxStages' = OutboxStages
  BY <1>1 DEF OutboxStages
<1>3. Delivered' = Delivered
  BY DEF Delivered
<1> QED BY <1>2, <1>3

(* A step that moves the stage of one row and delivers nothing.            *)
LEMMA MovesOne ==
  ASSUME NEW o \in Orders, NEW from, NEW to,
         StageOf(o) \in from, StageOf(o)' = to,
         \A p \in Orders \ {o} : StageOf(p)' = StageOf(p),
         book' = book
  PROVE  Outbox!Advance(o, from, to)
<1>1. OutboxStages' = [OutboxStages EXCEPT ![o] = to]
  BY DEF OutboxStages
<1>2. OutboxStages[o] \in from /\ Delivered' = Delivered
  BY DEF OutboxStages, Delivered
<1> QED BY <1>1, <1>2 DEF Outbox!Advance

(* A queued or claimed row that the provider does not hold is closed.      *)
LEMMA CloseMaps ==
  ASSUME NEW o \in Orders, outbox \in [Orders -> Outboxes], outbox[o] \in {"queued",
         "submitting"},
         outbox' = [outbox EXCEPT ![o] = "expired"], book[o] = "none",
         UNCHANGED <<approval, book>>
  PROVE  Outbox!Next
<1>1. StageOf(o) \in {"new", "ready", "sent"} /\ StageOf(o)' = "closed"
  BY DEF StageOf, Unsettled
<1>2. \A p \in Orders \ {o} : StageOf(p)' = StageOf(p)
  BY DEF StageOf
<1>3. Outbox!Advance(o, {"new", "ready", "sent"}, "closed")
  BY <1>1, <1>2, MovesOne
<1> QED BY <1>3 DEF Outbox!Next, Outbox!Close, Delivered

(* The admission of a new row makes it ready, closes it or leaves it new.  *)
LEMMA AdmissionMaps ==
  ASSUME TypeOK, SettledInv, DeliveryInv, NEW w \in Workers, NEW o \in Orders,
         NEW outcome \in Outcomes, AdmitRow(w, o, outcome), book' = book
  PROVE  [Outbox!Next]_<<OutboxStages, Delivered>>
<1> USE DEF TypeOK, IntentsTypeOK, SettledInv, OnlyApprovedQueued, DeliveryInv,
        OnlyApprovedReachProvider, Unsettled
<1>1. /\ approval[o] = "absent" /\ outbox[o] = "none" /\ book[o] = "none"
      /\ approval' = [approval EXCEPT ![o] = outcome]
      /\ outbox' = [outbox EXCEPT ![o] = IF outcome = "approved" THEN "queued" ELSE "none"]
  BY DEF AdmitRow
<1>2. StageOf(o) = "new" /\ o \notin Delivered
  BY <1>1 DEF StageOf, Delivered
<1>3. \A p \in Orders \ {o} : StageOf(p)' = StageOf(p)
  BY <1>1 DEF StageOf
<1>4. CASE outcome = "approved"
  <2>1. StageOf(o)' = "ready"
    BY <1>1, <1>4 DEF StageOf
  <2>2. Outbox!Advance(o, {"new"}, "ready")
    BY <1>2, <1>3, <2>1, MovesOne
  <2> QED BY <2>2 DEF Outbox!Next, Outbox!Ready
<1>5. CASE outcome = "denied"
  <2>1. StageOf(o)' = "closed"
    BY <1>1, <1>5 DEF StageOf
  <2>2. Outbox!Advance(o, {"new", "ready", "sent"}, "closed")
    BY <1>2, <1>3, <2>1, MovesOne
  <2> QED BY <1>2, <2>2 DEF Outbox!Next, Outbox!Close
<1>6. CASE outcome = "pending_approval"
  <2>1. StageOf(o)' = "new"
    BY <1>1, <1>6 DEF StageOf
  <2>2. OutboxStages' = OutboxStages
    BY <1>2, <1>3, <2>1 DEF OutboxStages
  <2> QED BY <2>2 DEF Delivered
<1> QED BY <1>4, <1>5, <1>6 DEF Outcomes

(* Initially every order is new and the provider holds none.               *)
LEMMA OutboxInit == Init => Outbox!Init
BY DEF Init, Outbox!Init, OutboxStages, Delivered, StageOf, Unsettled, EmptyBook

(* Every step of the service is a step of the outbox or changes nothing    *)
(* of it.                                                                  *)
LEMMA OutboxStep ==
  TypeOK /\ SettledInv /\ DeliveryInv /\ [Next]_vars => [Outbox!Next]_<<OutboxStages, Delivered>>
<1> SUFFICES ASSUME TypeOK, SettledInv, DeliveryInv, [Next]_vars
             PROVE  [Outbox!Next]_<<OutboxStages, Delivered>>
  OBVIOUS
<1> USE DEF TypeOK, IntentsTypeOK, CancelsTypeOK, ControlsTypeOK, WorkersTypeOK, SettledInv,
        OnlyApprovedQueued, LeasesAreClaims, DeliveryInv, Carriers, OnlyApprovedReachProvider,
        Unsettled, Tracked, SubmitPCs, CancelPCs, intentVars, cancelVars, providerVars
<1>1. ASSUME NEW w \in Workers, NEW o \in Orders, Admit(w, o)
      PROVE [Outbox!Next]_<<OutboxStages, Delivered>>
  <2>1. PICK outcome \in Outcomes : AdmitRow(w, o, outcome)
    BY <1>1 DEF Admit
  <2>2. book' = book
    BY <1>1 DEF Admit
  <2> QED BY <2>1, <2>2, AdmissionMaps
<1>2. ASSUME NEW w \in Workers, NEW o \in Orders, NEW approve \in BOOLEAN, Decide(w, o, approve)
      PROVE [Outbox!Next]_<<OutboxStages, Delivered>>
  <2> DEFINE current == o \in authority /\ (approve => bound[o] = VersionOf[w])
  <2>1. /\ approval' = [approval EXCEPT ![o] =
                         IF ~current THEN "expired" ELSE IF approve THEN "approved" ELSE "rejected"]
        /\ outbox' = [outbox EXCEPT ![o] = IF current /\ approve THEN "queued" ELSE @]
        /\ book' = book /\ approval[o] = "pending_approval" /\ outbox[o] = "none"
        /\ book[o] = "none"
    BY <1>2 DEF Decide
  <2> HIDE DEF current
  <2>2. StageOf(o) = "new" /\ o \notin Delivered
    BY <2>1 DEF StageOf, Delivered
  <2>3. \A p \in Orders \ {o} : StageOf(p)' = StageOf(p)
    BY <2>1 DEF StageOf
  <2>4. StageOf(o)' = IF current /\ approve THEN "ready" ELSE "closed"
    BY <2>1 DEF StageOf
  <2>5. CASE current /\ approve
    <3>1. Outbox!Advance(o, {"new"}, "ready")
      <4> HIDE DEF TypeOK, SettledInv, DeliveryInv
      <4> QED BY <2>1, <2>2, <2>3, <2>4, <2>5, MovesOne
    <3> QED BY <3>1 DEF Outbox!Next, Outbox!Ready
  <2>6. CASE ~(current /\ approve)
    <3>1. Outbox!Advance(o, {"new", "ready", "sent"}, "closed")
      <4> HIDE DEF TypeOK, SettledInv, DeliveryInv
      <4> QED BY <2>1, <2>2, <2>3, <2>4, <2>6, MovesOne
    <3> QED BY <2>2, <3>1 DEF Outbox!Next, Outbox!Close
  <2> QED BY <2>5, <2>6
<1>3. ASSUME NEW w \in Workers, NEW o \in Orders, NEW c \in Cancels, RequestCancel(w, o, c)
      PROVE [Outbox!Next]_<<OutboxStages, Delivered>>
  <2>1. UNCHANGED <<approval, outbox, book>>
    BY <1>3 DEF RequestCancel
  <2> QED BY <2>1, SameOutbox
<1>4. ASSUME NEW w \in Workers, NEW o \in Orders, NEW c \in Cancels, NEW r \in Orders,
             RequestReplace(w, o, c, r)
      PROVE [Outbox!Next]_<<OutboxStages, Delivered>>
  <2>1. UNCHANGED <<approval, outbox, book>>
    BY <1>4 DEF RequestReplace
  <2> QED BY <2>1, SameOutbox
<1>5. ASSUME NEW w \in Workers, NEW c \in Cancels, NEW approve \in BOOLEAN,
             DecideCancellation(w, c, approve)
      PROVE [Outbox!Next]_<<OutboxStages, Delivered>>
  <2>1. UNCHANGED <<approval, outbox, book>>
    BY <1>5 DEF DecideCancellation
  <2> QED BY <2>1, SameOutbox
<1>6. ASSUME NEW w \in Workers, NEW c \in Cancels, AdmitReplacement(w, c)
      PROVE [Outbox!Next]_<<OutboxStages, Delivered>>
  <2>1. book' = book /\ replacement[c] \in Orders
    BY <1>6, ConstantsAssumption DEF AdmitReplacement, ReplacementReady
  <2>2. ASSUME NEW outcome \in Outcomes, AdmitRow(w, replacement[c], outcome)
        PROVE [Outbox!Next]_<<OutboxStages, Delivered>>
    BY <2>1, <2>2, AdmissionMaps
  <2>3. CASE UNCHANGED intentVars
    BY <2>1, <2>3, SameOutbox
  <2> QED BY <2>2, <2>3, <1>6 DEF AdmitReplacement
<1>7. ASSUME NEW w \in Workers, LinkReplacement(w)
      PROVE [Outbox!Next]_<<OutboxStages, Delivered>>
  <2>1. UNCHANGED <<approval, outbox, book>>
    BY <1>7 DEF LinkReplacement
  <2> QED BY <2>1, SameOutbox
<1>8. ASSUME NEW w \in Workers, DispatchBegin(w) PROVE [Outbox!Next]_<<OutboxStages, Delivered>>
  <2>1. /\ outbox' = [o \in Orders |-> IF o \in Lapsed THEN "unknown" ELSE outbox[o]]
        /\ UNCHANGED <<approval, book>>
    BY <1>8 DEF DispatchBegin, RecoverIntents
  <2> QED BY <2>1, SameStages DEF Lapsed
<1>9. ASSUME NEW w \in Workers, ClaimNothing(w) PROVE [Outbox!Next]_<<OutboxStages, Delivered>>
  <2>1. UNCHANGED <<approval, outbox, book>>
    BY <1>9 DEF ClaimNothing
  <2> QED BY <2>1, SameOutbox
<1>10. ASSUME NEW w \in Workers, NEW o \in Orders, ClaimExpires(w, o)
       PROVE [Outbox!Next]_<<OutboxStages, Delivered>>
  <2>1. /\ outbox' = [outbox EXCEPT ![o] = "expired"] /\ outbox[o] = "queued"
        /\ UNCHANGED <<approval, book>>
    BY <1>10 DEF ClaimExpires
  <2>2. book[o] = "none"
    BY <2>1
  <2> QED BY <2>1, <2>2, CloseMaps
<1>11. ASSUME NEW w \in Workers, NEW o \in Orders, ClaimNext(w, o)
       PROVE [Outbox!Next]_<<OutboxStages, Delivered>>
  <2>1. /\ outbox' = [outbox EXCEPT ![o] = "submitting"] /\ outbox[o] = "queued" /\ ~gate
        /\ UNCHANGED <<approval, book>>
    BY <1>11 DEF ClaimNext, DispatchOpen
  <2>2. \A p \in Orders : StageOf(p) # "sent"
    BY <2>1 DEF StageOf, GateOpenMeansSettled
  <2>3. StageOf(o) = "ready" /\ StageOf(o)' = "sent"
    BY <2>1 DEF StageOf
  <2>4. \A p \in Orders \ {o} : StageOf(p)' = StageOf(p)
    BY <2>1 DEF StageOf
  <2>5. Outbox!Advance(o, {"ready"}, "sent")
    <3> HIDE DEF TypeOK, SettledInv, DeliveryInv
    <3> QED BY <2>1, <2>3, <2>4, MovesOne
  <2>6. Outbox!Send(o)
    BY <2>2, <2>5 DEF Outbox!Send, OutboxStages
  <2> QED BY <2>6 DEF Outbox!Next
<1>12. ASSUME NEW w \in Workers, NEW open \in BOOLEAN, Recheck(w, open)
       PROVE [Outbox!Next]_<<OutboxStages, Delivered>>
  <2>1. UNCHANGED <<approval, outbox, book>>
    BY <1>12 DEF Recheck
  <2> QED BY <2>1, SameOutbox
<1>13. ASSUME NEW w \in Workers, ValidateSubmission(w)
       PROVE [Outbox!Next]_<<OutboxStages, Delivered>>
  <2>1. UNCHANGED <<approval, outbox, book>>
    BY <1>13 DEF ValidateSubmission
  <2> QED BY <2>1, SameOutbox
<1>14. ASSUME NEW w \in Workers, ProviderSubmit(w)
       PROVE [Outbox!Next]_<<OutboxStages, Delivered>>
  <2>1. /\ job[w] \in Orders /\ outbox[job[w]] \in Tracked /\ book[job[w]] = "none"
        /\ book' = [book EXCEPT ![job[w]] = IF @ = "none" THEN "accepted" ELSE @]
        /\ UNCHANGED <<approval, outbox>>
    BY <1>14 DEF ProviderSubmit
  <2>2. StageOf(job[w]) \in {"sent", "settled"}
    BY <2>1 DEF StageOf
  <2>3. OutboxStages' = OutboxStages
    BY <2>1 DEF OutboxStages, StageOf
  <2>4. Delivered' = Delivered \cup {job[w]}
    BY <2>1 DEF Delivered
  <2>5. Outbox!Deliver(job[w])
    BY <2>1, <2>2, <2>3, <2>4 DEF Outbox!Deliver, OutboxStages
  <2> QED BY <2>1, <2>5 DEF Outbox!Next
<1>15. ASSUME NEW w \in Workers, ProviderDeclines(w)
       PROVE [Outbox!Next]_<<OutboxStages, Delivered>>
  <2>1. UNCHANGED <<approval, outbox, book>>
    BY <1>15 DEF ProviderDeclines
  <2> QED BY <2>1, SameOutbox
<1>16. ASSUME NEW w \in Workers, Acknowledge(w) PROVE [Outbox!Next]_<<OutboxStages, Delivered>>
  <2>1. job[w] \in Orders
    BY <1>16 DEF Acknowledge
  <2>2. CASE HoldsLease(w, job[w])
    <3>1. outbox' = [outbox EXCEPT ![job[w]] = "accepted"] /\ UNCHANGED <<approval, book>>
      BY <2>2, <1>16 DEF Acknowledge
    <3> QED BY <2>1, <2>2, <3>1, SameStages DEF HoldsLease
  <2>3. CASE ~(HoldsLease(w, job[w]))
    <3>1. UNCHANGED <<approval, outbox, book>>
      BY <2>3, <1>16 DEF Acknowledge
    <3> QED BY <3>1, SameOutbox
  <2> QED BY <2>2, <2>3
<1>17. ASSUME NEW w \in Workers, ExpireClaimBeforeSubmit(w)
       PROVE [Outbox!Next]_<<OutboxStages, Delivered>>
  <2>1. job[w] \in Orders
    BY <1>17 DEF ExpireClaimBeforeSubmit
  <2>2. CASE OwnsClaim(w, job[w])
    <3>1. outbox' = [outbox EXCEPT ![job[w]] = "expired"] /\ UNCHANGED <<approval, book>>
      BY <2>2, <1>17 DEF ExpireClaimBeforeSubmit
    <3> QED BY <2>1, <2>2, <3>1, <1>17, CloseMaps DEF OwnsClaim, ExpireClaimBeforeSubmit
  <2>3. CASE ~(OwnsClaim(w, job[w]))
    <3>1. UNCHANGED <<approval, outbox, book>>
      BY <2>3, <1>17 DEF ExpireClaimBeforeSubmit
    <3> QED BY <3>1, SameOutbox
  <2> QED BY <2>2, <2>3
<1>18. ASSUME NEW w \in Workers, FinishAmbiguous(w)
       PROVE [Outbox!Next]_<<OutboxStages, Delivered>>
  <2>1. job[w] \in Orders
    BY <1>18 DEF FinishAmbiguous
  <2>2. CASE HoldsLease(w, job[w])
    <3>1. outbox' = [outbox EXCEPT ![job[w]] = "unknown"] /\ UNCHANGED <<approval, book>>
      BY <2>2, <1>18 DEF FinishAmbiguous
    <3> QED BY <2>1, <2>2, <3>1, SameStages DEF HoldsLease
  <2>3. CASE ~(HoldsLease(w, job[w]))
    <3>1. UNCHANGED <<approval, outbox, book>>
      BY <2>3, <1>18 DEF FinishAmbiguous
    <3> QED BY <3>1, SameOutbox
  <2> QED BY <2>2, <2>3
<1>19. ASSUME NEW w \in Workers, CancelDispatchBegin(w)
       PROVE [Outbox!Next]_<<OutboxStages, Delivered>>
  <2>1. UNCHANGED <<approval, outbox, book>>
    BY <1>19 DEF CancelDispatchBegin
  <2> QED BY <2>1, SameOutbox
<1>20. ASSUME NEW w \in Workers, CancelClaimNothing(w)
       PROVE [Outbox!Next]_<<OutboxStages, Delivered>>
  <2>1. UNCHANGED <<approval, outbox, book>>
    BY <1>20 DEF CancelClaimNothing
  <2> QED BY <2>1, SameOutbox
<1>21. ASSUME NEW w \in Workers, NEW c \in Cancels, CancelClaimExpires(w, c)
       PROVE [Outbox!Next]_<<OutboxStages, Delivered>>
  <2>1. UNCHANGED <<approval, outbox, book>>
    BY <1>21 DEF CancelClaimExpires
  <2> QED BY <2>1, SameOutbox
<1>22. ASSUME NEW w \in Workers, NEW c \in Cancels, ClaimNextCancellation(w, c)
       PROVE [Outbox!Next]_<<OutboxStages, Delivered>>
  <2>1. UNCHANGED <<approval, outbox, book>>
    BY <1>22 DEF ClaimNextCancellation
  <2> QED BY <2>1, SameOutbox
<1>23. ASSUME NEW w \in Workers, ValidateCancellation(w)
       PROVE [Outbox!Next]_<<OutboxStages, Delivered>>
  <2>1. UNCHANGED <<approval, outbox, book>>
    BY <1>23 DEF ValidateCancellation
  <2> QED BY <2>1, SameOutbox
<1>24. ASSUME NEW w \in Workers, ProviderCancel(w)
       PROVE [Outbox!Next]_<<OutboxStages, Delivered>>
  <2>1. /\ book' = [book EXCEPT ![target[job[w]]] = IF @ = "accepted" THEN "canceled" ELSE @]
        /\ UNCHANGED <<approval, outbox>>
    BY <1>24 DEF ProviderCancel
  <2>2. \A o \in Orders : book'[o] = "none" <=> book[o] = "none"
    BY <2>1
  <2> QED BY <2>1, <2>2, SameStages
<1>25. ASSUME NEW w \in Workers, ProviderCancelFails(w)
       PROVE [Outbox!Next]_<<OutboxStages, Delivered>>
  <2>1. UNCHANGED <<approval, outbox, book>>
    BY <1>25 DEF ProviderCancelFails
  <2> QED BY <2>1, SameOutbox
<1>26. ASSUME NEW w \in Workers, AcknowledgeCancellation(w)
       PROVE [Outbox!Next]_<<OutboxStages, Delivered>>
  <2>1. UNCHANGED <<approval, outbox, book>>
    BY <1>26 DEF AcknowledgeCancellation, EndCancellation
  <2> QED BY <2>1, SameOutbox
<1>27. ASSUME NEW w \in Workers, FinishAmbiguousCancellation(w)
       PROVE [Outbox!Next]_<<OutboxStages, Delivered>>
  <2>1. UNCHANGED <<approval, outbox, book>>
    BY <1>27 DEF FinishAmbiguousCancellation, EndCancellation
  <2> QED BY <2>1, SameOutbox
<1>28. ASSUME NEW w \in Workers, ExpireCancellation(w)
       PROVE [Outbox!Next]_<<OutboxStages, Delivered>>
  <2>1. UNCHANGED <<approval, outbox, book>>
    BY <1>28 DEF ExpireCancellation, EndCancellation
  <2> QED BY <2>1, SameOutbox
<1>29. ASSUME NEW w \in Workers, ReconcileBegin(w)
       PROVE [Outbox!Next]_<<OutboxStages, Delivered>>
  <2>1. /\ outbox' = [o \in Orders |-> IF o \in Lapsed THEN "unknown" ELSE outbox[o]]
        /\ UNCHANGED <<approval, book>>
    BY <1>29 DEF ReconcileBegin, RecoverIntents
  <2> QED BY <2>1, SameStages DEF Lapsed
<1>30. ASSUME NEW w \in Workers, SampleGeneration(w)
       PROVE [Outbox!Next]_<<OutboxStages, Delivered>>
  <2>1. UNCHANGED <<approval, outbox, book>>
    BY <1>30 DEF SampleGeneration
  <2> QED BY <2>1, SameOutbox
<1>31. ASSUME NEW w \in Workers, NEW complete \in BOOLEAN, Snapshot(w, complete)
       PROVE [Outbox!Next]_<<OutboxStages, Delivered>>
  <2>1. UNCHANGED <<approval, outbox, book>>
    BY <1>31 DEF Snapshot
  <2> QED BY <2>1, SameOutbox
<1>32. ASSUME NEW w \in Workers, ReconcileCommit(w)
       PROVE [Outbox!Next]_<<OutboxStages, Delivered>>
  <2>1. UNCHANGED <<approval, book>>
    BY <1>32 DEF ReconcileCommit, ApplySnapshot
  <2>2. CASE ~Complete(w) \/ \A o \in Orders : outbox[o] \notin Unsettled
    <3>1. \A o \in Orders : outbox'[o] = outbox[o]
      BY <2>2, <1>32 DEF ReconcileCommit, ApplySnapshot
    <3> QED BY <2>1, <3>1, SameStages
  <2>3. CASE Complete(w) /\ \E o \in Orders : outbox[o] \in Unsettled
    <3>1. PICK o \in Orders : outbox[o] \in Unsettled
      BY <2>3
    <3>2. outbox' = [p \in Orders |-> IF outbox[p] \in Tracked THEN "reconciled" ELSE outbox[p]]
      BY <2>3, <1>32 DEF ReconcileCommit, ApplySnapshot
    <3>3. \A p \in Orders \ {o} : outbox'[p] = outbox[p]
      BY <3>1, <3>2 DEF OneInDoubt
    <3>4. StageOf(o) = "sent" /\ StageOf(o)' = "settled"
      BY <3>1, <3>2 DEF StageOf
    <3>5. \A p \in Orders \ {o} : StageOf(p)' = StageOf(p)
      BY <2>1, <3>3 DEF StageOf
    <3>6. Outbox!Advance(o, {"sent"}, "settled")
      <4> HIDE DEF TypeOK, SettledInv, DeliveryInv
      <4> QED BY <2>1, <3>4, <3>5, MovesOne
    <3> QED BY <3>6 DEF Outbox!Next, Outbox!Settle
  <2> QED BY <2>2, <2>3
<1>33. ASSUME NEW w \in Workers, Crash(w) PROVE [Outbox!Next]_<<OutboxStages, Delivered>>
  <2>1. UNCHANGED <<approval, outbox, book>>
    BY <1>33 DEF Crash
  <2> QED BY <2>1, SameOutbox
<1>34. ASSUME NEW w \in Workers, Start(w) PROVE [Outbox!Next]_<<OutboxStages, Delivered>>
  <2>1. UNCHANGED <<approval, outbox, book>>
    BY <1>34 DEF Start
  <2> QED BY <2>1, SameOutbox
<1>35. ASSUME ActivateKillSwitch PROVE [Outbox!Next]_<<OutboxStages, Delivered>>
  <2>1. UNCHANGED <<approval, outbox, book>>
    BY <1>35 DEF ActivateKillSwitch
  <2> QED BY <2>1, SameOutbox
<1>36. ASSUME ClearKillSwitch PROVE [Outbox!Next]_<<OutboxStages, Delivered>>
  <2>1. UNCHANGED <<approval, outbox, book>>
    BY <1>36 DEF ClearKillSwitch
  <2> QED BY <2>1, SameOutbox
<1>37. ASSUME NEW o \in Orders, LeaseLapses(o) PROVE [Outbox!Next]_<<OutboxStages, Delivered>>
  <2>1. UNCHANGED <<approval, outbox, book>>
    BY <1>37 DEF LeaseLapses
  <2> QED BY <2>1, SameOutbox
<1>38. ASSUME NEW c \in Cancels, CancelLeaseLapses(c)
       PROVE [Outbox!Next]_<<OutboxStages, Delivered>>
  <2>1. UNCHANGED <<approval, outbox, book>>
    BY <1>38 DEF CancelLeaseLapses
  <2> QED BY <2>1, SameOutbox
<1>39. ASSUME NEW o \in Orders, AuthorityLapses(o)
       PROVE [Outbox!Next]_<<OutboxStages, Delivered>>
  <2>1. UNCHANGED <<approval, outbox, book>>
    BY <1>39 DEF AuthorityLapses
  <2> QED BY <2>1, SameOutbox
<1>40. ASSUME NEW o \in Orders, Fill(o) PROVE [Outbox!Next]_<<OutboxStages, Delivered>>
  <2>1. PICK s \in {"partially_filled", "filled"} : book' = [book EXCEPT ![o] = s]
    BY <1>40 DEF Fill
  <2>2. book[o] # "none" /\ UNCHANGED <<approval, outbox>>
    BY <1>40 DEF Fill, OpenStatuses
  <2>3. \A p \in Orders : book'[p] = "none" <=> book[p] = "none"
    BY <2>1, <2>2
  <2> QED BY <2>2, <2>3, SameStages
<1>41. ASSUME ExternalOrder PROVE [Outbox!Next]_<<OutboxStages, Delivered>>
  <2>1. UNCHANGED <<approval, outbox, book>>
    BY <1>41 DEF ExternalOrder
  <2> QED BY <2>1, SameOutbox
<1>42. CASE UNCHANGED vars
  BY <1>42, SameOutbox DEF vars, intentVars, providerVars
<1> HIDE DEF TypeOK, IntentsTypeOK, CancelsTypeOK, ControlsTypeOK, WorkersTypeOK, SettledInv,
        OnlyApprovedQueued, LeasesAreClaims, DeliveryInv, Carriers, OnlyApprovedReachProvider,
        Unsettled, Tracked, SubmitPCs, CancelPCs, intentVars, cancelVars, providerVars
<1> QED
  BY <1>1, <1>2, <1>3, <1>4, <1>5, <1>6, <1>7, <1>8, <1>9, <1>10, <1>11, <1>12, <1>13,
     <1>14, <1>15, <1>16, <1>17, <1>18, <1>19, <1>20, <1>21, <1>22, <1>23, <1>24, <1>25,
     <1>26, <1>27, <1>28, <1>29, <1>30, <1>31, <1>32, <1>33, <1>34, <1>35, <1>36, <1>37,
     <1>38, <1>39, <1>40, <1>41, <1>42 DEF Next, Request, Submission, Cancellation,
     Reconciliation, Environment

(* The service, with its leases, instances, crashes and overlapping        *)
(* reconciliations, implements the outbox: an order is sent at most once,  *)
(* one at a time, and never delivered after it was closed as unsent.       *)
THEOREM OutboxRefinement == Spec => ImplementsOutbox
<1>1. Spec => [](TypeOK /\ SettledInv /\ DeliveryInv)
  BY TypeInit, TypeStep, SettledInit, SettledStep, DeliveryInit, DeliveryStep, PTL DEF Spec
<1>2. Spec => Outbox!Init /\ [][Outbox!Next]_<<OutboxStages, Delivered>>
  BY <1>1, OutboxInit, OutboxStep, PTL DEF Spec
<1> QED BY <1>2 DEF ImplementsOutbox, Outbox!Spec
=============================================================================
