--------------------------- MODULE AgentRunProofs ---------------------------
(***************************************************************************)
(* Proofs about AgentRun for any number of turns, attempts, corrections    *)
(* and crashes.  Every safety property that a run checks is proved here;   *)
(* that a run ends is left to TLC.                                         *)
(*                                                                         *)
(* Five invariants build on the types: what became of the run (OutcomeInv) *)
(* and of its physical requests (AttemptInv), the order of the turns       *)
(* (ConversationInv), what was reported of the open ones (ReportInv), and  *)
(* what a judgement rests on (BackedInv).                                  *)
(***************************************************************************)
EXTENDS AgentRun, FiniteSetTheorems, TLAPS

InRequest == {"attempting", "reserved", "waiting", "judging"}
InProjection == {"received", "observed", "settled"}
Ending == {"closing", "failing", "interrupting", "terminating"}
Judged == {"finishing", "done", "committing"}
Working == PCs \ ({"idle", "opening"} \cup Ending \cup Judged)

Retryable == {"rate_limited"} \cup (IF Retry408 THEN {"timeout408"} ELSE {})

(***************************************************************************)
(* Where the call is, and what that says of its memory.                    *)
(***************************************************************************)
PositionInv ==
  /\ pc \in {"admitted"} \cup InRequest \cup InProjection => Number \in Turns
  /\ pc \in {"reserved", "waiting", "judging"} => tried \in Attempts
  /\ pc = "turned" => turn \in Turns
  /\ pc \in Ending => error # "none"
  /\ pc \in {"closing", "failing"} /\ error = "provider_failure" => Number \in Turns
  /\ pc \in Ending \ {"terminating"} /\ error = "human_input_required" => Number \in Turns
  /\ pc = "committing" => failure # "none"

(***************************************************************************)
(* A run that goes on has not ended, and its call has not returned.        *)
(***************************************************************************)
OutcomeInv ==
  /\ OneOutcome
  /\ pc # "idle" => returned = "none"
  /\ pc \in Working \cup {"finishing", "committing"} => status = "running"
  /\ pc \in Working \cup Ending \cup {"finishing", "done"} => failure = "none"
  /\ pc = "finishing" => validated
  /\ pc = "done" => status = "completed"

(***************************************************************************)
(* What is known of one physical request: its POST, its budget and its     *)
(* outcome.                                                                *)
(***************************************************************************)
Accounted(k) ==
  /\ k \in ready => sent[k] = 0
  /\ sent[k] <= 1
  /\ k \in ready \/ sent[k] > 0 => attempt[k] # "none"
  /\ attempt[k] # "none" <=> permits[k] = 1
  /\ attempt[k] # "none" => entry[k] # "free"
  /\ entry[k] = "settled" => attempt[k] \in NotStarted \cup {"succeeded"}

RequestInv == \A k \in Requests : Accounted(k)

(***************************************************************************)
(* A response answers a request that nothing else became of.               *)
(***************************************************************************)
ResponseInv ==
  /\ \A n \in Turns : response[n] # "none" =>
       answers[n] \in Attempts /\ attempt[<<n, answers[n]>>] \in {"dispatched", "succeeded"}
  /\ pc \in InProjection => response[Number] # "none"
  /\ pc = "observed" => attempt[Answered(Number)] = "succeeded"

(***************************************************************************)
(* The attempts of a turn: each but the last failed in a way that allows   *)
(* another, and once only with a 408.                                      *)
(***************************************************************************)
Unused(n, a) == attempt[<<n, a>>] = "none" /\ entry[<<n, a>>] = "free"

Untouched(n) == response[n] = "none" /\ \A a \in Attempts : Unused(n, a)

Chained(n) ==
  /\ \A a, b \in Attempts :
       a < b /\ attempt[<<n, b>>] # "none" => attempt[<<n, a>>] \in Retryable
  /\ \A a, b, c \in Attempts :
       a < c /\ b < c /\ attempt[<<n, c>>] # "none"
       /\ attempt[<<n, a>>] = "timeout408" /\ attempt[<<n, b>>] = "timeout408" => a = b

RetriesInv == \A n \in Turns : Chained(n) /\ (n \notin started => Untouched(n))

(***************************************************************************)
(* The turn under way: nothing is used beyond the current attempt, and     *)
(* the attempts before it allowed another.                                 *)
(***************************************************************************)
Past == {a \in Attempts : a < tried \/ (a = tried /\ pc = "attempting")}

NothingBeyond == \A a \in Attempts : a > tried => Unused(Number, a)

MayBePast(a) ==
  /\ attempt[<<Number, a>>] \in Retryable
  /\ attempt[<<Number, a>>] = "timeout408" =>
       regenerated /\ \A b \in Past : attempt[<<Number, b>>] = "timeout408" => a = b

CurrentInv ==
  /\ pc = "admitted" => Number \notin started
  /\ pc \in InRequest =>
       /\ Number \in started /\ response[Number] = "none"
       /\ NothingBeyond /\ \A a \in Past : MayBePast(a)
  /\ pc \in InRequest \ {"attempting"} => entry[Current] = "reserved"
  /\ pc = "reserved" => attempt[Current] = "none"
  /\ pc = "waiting" => attempt[Current] = "dispatched"
  /\ pc = "judging" => attempt[Current] \in Faults

AttemptInv == RequestInv /\ ResponseInv /\ RetriesInv /\ CurrentInv

(***************************************************************************)
(* The conversation has no gaps: turns complete in order, and one at most  *)
(* is open beyond them.                                                    *)
(***************************************************************************)
Conversing(m) ==
  /\ completed = 1..m
  /\ started \in {1..m, 1..(m + 1)}
  /\ pc \in Working \cup {"finishing", "done"} => turn <= m
  /\ pc \in {"admitted"} \cup InRequest \cup InProjection => turn = m
  /\ pc \in {"idle", "opening"} => turn = 0

OpenInv ==
  /\ pc \in (Working \ InRequest) \cup {"finishing", "done"} => Unresolved = {}
  /\ pc \in Ending \cup InRequest => Unresolved \subseteq {Number}

ConversationInv == OpenInv /\ \E m \in 0..MaxTurns : Conversing(m)

(***************************************************************************)
(* What the end of a run rests on: every open request is reported, and a   *)
(* turn was started only when the one before it was done with.             *)
(***************************************************************************)
Reported == \A n \in started : response[n] # "none" \/ n \in failed \cup interrupted

ReportInv ==
  /\ AmbiguityIsReported /\ (pc = "terminating" => Reported)
  /\ \A n \in completed : response[n] # "none"

Invalid(n) == {i \in 1..n : response[i] = "invalid"}

Passed(n) ==
  /\ (response[n] = "tools" /\ n \in tooled) \/ response[n] = "invalid"
  /\ Cardinality(Invalid(n)) <= MaxCorrections

BackedInv ==
  /\ CompletedIsBacked
  /\ \A n \in Turns : n + 1 \in started => Passed(n)
  /\ pc \in {"thinking", "admitted"} /\ turn # 0 => Passed(turn)
  /\ pc = "ended" => turn # 0 /\ response[turn] = "final"
  /\ pc = "settled" => entry[Answered(Number)] = "settled"
  /\ \A n \in completed : entry[Answered(n)] = "settled"

-----------------------------------------------------------------------------
(* Types and positions. *)

(***************************************************************************)
(* Who writes what: every other step leaves it alone.                      *)
(***************************************************************************)
LEMMA Writers ==
  ASSUME [Next]_vars
  PROVE  /\ \/ UNCHANGED journal
            \/ StartTurn \/ Dispatch \/ AttemptFails \/ ReceiveResponse \/ ObserveSuccess
            \/ CompleteTurn \/ ExecuteTool
         /\ \/ UNCHANGED ending
            \/ ValidateJudgment \/ FinishJudgment \/ RecordProviderFailure
            \/ RecordInterruption \/ RecordFailure \/ CommitFailure
         /\ UNCHANGED budget \/ Reserve \/ Dispatch \/ JudgeFailure \/ SettleUsage
         /\ \/ UNCHANGED world
            \/ Dispatch \/ AttemptFails \/ CloseWorker \/ \E k \in Requests : Post(k)
<1>1. CASE UNCHANGED vars
  BY <1>1 DEF vars
<1>2. CASE Next
  <2> USE DEF CallRun, Cancel, LoseWorker, Crash, Post
  <2>1. CASE Harness
    BY <2>1 DEF Harness, ReopenTerminal, ResumeFailure, RefuseUnresolved, StartWorker,
       Dispatch, JudgeFailure, RefuseResponse, ObserveSuccess, SettleUsage, CompleteTurn,
       FinishJudgment, CloseWorker, RecordProviderFailure, RecordInterruption,
       RecordFailure, CommitFailure, ending, world
  <2>2. CASE Callback
    BY <2>2 DEF Callback, ReplayTurn, ReplayResponse, Admit, RefuseRequest, StartTurn,
       Reserve, RefuseReservation, AttemptFails, ReceiveResponse, ExecuteTool, RefuseTool,
       Correct, AcceptProposal, ValidateJudgment, WorkerIsDone
  <2> QED BY <1>2, <2>1, <2>2 DEF Next
<1> QED BY <1>1, <1>2

(***************************************************************************)
(* The type invariant in parts; Boolean variables have a part of their     *)
(* own, since no backend reasons about them and about numbers at once.     *)
(***************************************************************************)
JournalType ==
  /\ started \subseteq Turns /\ completed \subseteq Turns /\ tooled \subseteq Turns
  /\ response \in [Turns -> Contents \cup {"none"}]
  /\ answers \in [Turns -> 0..MaxAttempts]
  /\ attempt \in [Requests -> Faults \cup {"none", "dispatched", "succeeded"}]

EndingType ==
  /\ failed \subseteq Turns /\ interrupted \subseteq Turns
  /\ failure \in Failures \cup {"none"}
  /\ status \in Failures \cup {"running", "completed"}

RequestType ==
  Budget!TypeOK /\ ready \subseteq Requests /\ sent \in [Requests -> Nat]

CallType ==
  /\ pc \in PCs
  /\ turn \in 0..MaxTurns /\ tried \in 0..MaxAttempts
  /\ error \in Errors \cup {"none"}
  /\ returned \in Failures \cup {"none", "completed", "raised"}
  /\ crashes \in 0..MaxCrashes

FlagType == validated \in BOOLEAN /\ regenerated \in BOOLEAN

TypeInv == TypeOK /\ PositionInv

LEMMA TypeParts ==
  TypeOK <=> JournalType /\ EndingType /\ RequestType /\ CallType /\ FlagType
BY Zenon DEF TypeOK, JournalType, EndingType, RequestType, CallType, FlagType

(***************************************************************************)
(* An interrupted conversation is shorter than the run may be: the next    *)
(* turn is one of its turns.                                               *)
(***************************************************************************)
LEMMA NextAfterCompleted ==
  ASSUME TypeOK, Unresolved # {}
  PROVE  Cardinality(completed) \in Nat /\ Cardinality(completed) + 1 \in Turns
<1>1. PICK n \in Turns : n \notin completed
  BY DEF Unresolved, TypeOK
<1>2. IsFiniteSet(Turns) /\ Cardinality(Turns) = MaxTurns
  BY FS_Interval, RunAssumption DEF Turns
<1>3. IsFiniteSet(Turns \ {n}) /\ Cardinality(Turns \ {n}) = MaxTurns - 1
  BY <1>2, FS_RemoveElement
<1>4. completed \subseteq Turns \ {n}
  BY <1>1 DEF TypeOK
<1>5. IsFiniteSet(completed) /\ Cardinality(completed) <= MaxTurns - 1
  BY <1>3, <1>4, FS_Subset
<1>6. Cardinality(completed) \in Nat
  BY <1>5, FS_CardinalityType
<1> QED BY <1>5, <1>6, RunAssumption DEF Turns

(***************************************************************************)
(* Every step keeps the types and the positions, part by part.             *)
(***************************************************************************)
LEMMA JournalTypeStep ==
  ASSUME TypeInv, [Next]_vars
  PROVE  JournalType'
<1> USE TypeParts DEF TypeInv, JournalType
<1>1. CASE UNCHANGED journal
  BY <1>1 DEF journal
<1>2. CASE StartTurn
  BY <1>2 DEF StartTurn, PositionInv
<1>3. CASE Dispatch
  BY <1>3 DEF Dispatch
<1>4. CASE AttemptFails
  BY <1>4 DEF AttemptFails
<1>5. CASE ReceiveResponse
  BY <1>5 DEF ReceiveResponse, CallType
<1>6. CASE ObserveSuccess
  BY <1>6 DEF ObserveSuccess
<1>7. CASE CompleteTurn
  BY <1>7 DEF CompleteTurn, PositionInv, InProjection
<1>8. CASE ExecuteTool
  BY <1>8 DEF ExecuteTool, PositionInv
<1> QED BY <1>1, <1>2, <1>3, <1>4, <1>5, <1>6, <1>7, <1>8, Writers

LEMMA EndingTypeStep ==
  ASSUME TypeInv, [Next]_vars
  PROVE  EndingType'
<1> USE TypeParts DEF TypeInv, EndingType
<1>1. CASE UNCHANGED ending
  BY <1>1 DEF ending
<1>2. CASE ValidateJudgment \/ FinishJudgment
  BY <1>2 DEF ValidateJudgment, FinishJudgment
<1>3. CASE RecordProviderFailure
  BY <1>3 DEF RecordProviderFailure, PositionInv, Ending
<1>4. CASE RecordInterruption
  BY <1>4 DEF RecordInterruption, IsInterrupted, PositionInv, Ending, JournalType
<1>5. CASE RecordFailure
  BY <1>5 DEF RecordFailure, StatusOf, CallType, Errors, PositionInv, Ending, Failures
<1>6. CASE CommitFailure
  BY <1>6 DEF CommitFailure, PositionInv
<1> QED BY <1>1, <1>2, <1>3, <1>4, <1>5, <1>6, Writers

LEMMA RequestTypeStep ==
  ASSUME TypeInv, [Next]_vars
  PROVE  RequestType'
<1> USE TypeParts DEF TypeInv, RequestType, Budget!TypeOK, Budget!Entries
<1>1. Budget!TypeOK'
  <2>1. CASE UNCHANGED budget
    BY <2>1 DEF budget
  <2>2. CASE Reserve
    BY <2>2 DEF Reserve, Budget!Reserve, Budget!Enter
  <2>3. CASE Dispatch
    <3>1. Budget!TypeOK /\ Budget!Permit(Current)
      BY <2>3 DEF Dispatch
    <3>2. permits' = [permits EXCEPT ![Current] = 1] /\ UNCHANGED entry
      BY <3>1 DEF Budget!Permit
    <3>3. 1 \in 0..1
      OBVIOUS
    <3> QED BY <3>1, <3>2, <3>3
  <2>4. CASE JudgeFailure
    BY <2>4 DEF JudgeFailure, Budget!Settle, Budget!Enter, budget
  <2>5. CASE SettleUsage
    BY <2>5 DEF SettleUsage, Budget!Settle, Budget!Enter, budget
  <2> QED BY <2>1, <2>2, <2>3, <2>4, <2>5, Writers
<1>2. (ready \subseteq Requests /\ sent \in [Requests -> Nat])'
  <2>1. CASE UNCHANGED world
    BY <2>1 DEF world
  <2>2. CASE Dispatch
    <3>1. Current \in Requests
      BY <2>2 DEF Dispatch, PositionInv, InRequest, Current, Requests
    <3> QED BY <2>2, <3>1 DEF Dispatch
  <2>3. CASE AttemptFails
    BY <2>3 DEF AttemptFails
  <2>4. CASE CloseWorker
    BY <2>4 DEF CloseWorker
  <2>5. ASSUME NEW k \in Requests, Post(k)
        PROVE  (ready \subseteq Requests /\ sent \in [Requests -> Nat])'
    BY <2>5 DEF Post
  <2> QED BY <2>1, <2>2, <2>3, <2>4, <2>5, Writers
<1> QED BY <1>1, <1>2

(***************************************************************************)
(* The call.                                                               *)
(***************************************************************************)
LEMMA CallTypeStep ==
  ASSUME TypeInv, [Next]_vars
  PROVE  CallType'
<1> USE TypeParts, RunAssumption DEF TypeInv, CallType, PCs, Awaits, Errors, Failures,
        request, Number, Turns
<1>1. ASSUME CallRun \/ Crash
      PROVE  CallType'
  BY <1>1 DEF CallRun, Crash, Forget
<1>2. ASSUME ReopenTerminal \/ ResumeFailure \/ StartWorker \/ WorkerIsDone
      PROVE  CallType'
  BY <1>2 DEF ReopenTerminal, ResumeFailure, StartWorker, WorkerIsDone, Goto, Return,
              Forget, EndingType
<1>3. ASSUME RefuseUnresolved
      PROVE  CallType'
  <2>1. Cardinality(completed) + 1 \in 1..MaxTurns /\ Cardinality(completed) \in Nat
    BY <1>3, NextAfterCompleted DEF RefuseUnresolved
  <2> QED BY <1>3, <2>1 DEF RefuseUnresolved
<1>4. ASSUME Cancel \/ LoseWorker \/ RefuseRequest \/ RefuseReservation \/ RefuseResponse
             \/ RefuseTool
      PROVE  CallType'
  BY <1>4 DEF Cancel, LoseWorker, RefuseRequest, RefuseReservation, RefuseResponse,
              RefuseTool, Raise
<1>5. ASSUME ReplayTurn \/ CompleteTurn
      PROVE  CallType'
  BY <1>5 DEF ReplayTurn, CompleteTurn, Record, PositionInv, InProjection, JournalType
<1>6. ASSUME ReplayResponse \/ Admit \/ Dispatch \/ AttemptFails \/ ReceiveResponse
             \/ ObserveSuccess \/ SettleUsage
      PROVE  CallType'
  BY <1>6 DEF ReplayResponse, Admit, Dispatch, AttemptFails, ReceiveResponse,
              ObserveSuccess, SettleUsage, Goto
<1>7. ASSUME StartTurn \/ Reserve
      PROVE  CallType'
  BY <1>7 DEF StartTurn, Reserve
<1>8. ASSUME JudgeFailure
      PROVE  CallType'
  BY <1>8 DEF JudgeFailure, Raise
<1>9. ASSUME ExecuteTool \/ Correct \/ AcceptProposal
      PROVE  CallType'
  BY <1>9 DEF ExecuteTool, Correct, AcceptProposal, Raise, Goto
<1>10. ASSUME ValidateJudgment \/ FinishJudgment \/ CloseWorker \/ RecordProviderFailure
              \/ RecordInterruption
       PROVE  CallType'
  BY <1>10 DEF ValidateJudgment, FinishJudgment, CloseWorker, RecordProviderFailure,
               RecordInterruption, Goto
<1>11. ASSUME RecordFailure \/ CommitFailure
       PROVE  CallType'
  BY <1>11 DEF RecordFailure, CommitFailure, Goto, Return, Forget, EndingType
<1>12. ASSUME NEW k \in Requests, Post(k)
       PROVE  CallType'
  BY <1>12 DEF Post
<1>13. CASE UNCHANGED vars
  BY <1>13 DEF vars
<1> QED
  BY <1>1, <1>2, <1>3, <1>4, <1>5, <1>6, <1>7, <1>8, <1>9, <1>10, <1>11, <1>12, <1>13
  DEF Next, Harness, Callback

LEMMA FlagTypeStep ==
  ASSUME TypeInv, [Next]_vars
  PROVE  FlagType'
<1>1. FlagType
  BY TypeParts DEF TypeInv
<1>2. validated' \in BOOLEAN
  <2>1. UNCHANGED validated \/ validated' = TRUE
    BY Writers, Zenon DEF ending, ValidateJudgment, FinishJudgment, RecordProviderFailure,
       RecordInterruption, RecordFailure, CommitFailure
  <2> QED BY <1>1, <2>1 DEF FlagType
<1>3. regenerated' \in BOOLEAN
  <2>1. \/ UNCHANGED regenerated \/ regenerated' = FALSE
        \/ regenerated' = (regenerated \/ attempt[Current] = "timeout408")
    <3> USE DEF request, Goto, Raise, Return, Forget
    <3>1. CASE UNCHANGED vars
      BY <3>1 DEF vars
    <3>2. CASE Harness
      BY <3>2, Zenon DEF Harness, ReopenTerminal, ResumeFailure, RefuseUnresolved,
         StartWorker, Dispatch, JudgeFailure, RefuseResponse, ObserveSuccess, SettleUsage,
         CompleteTurn, Record, FinishJudgment, CloseWorker, RecordProviderFailure,
         RecordInterruption, RecordFailure, CommitFailure
    <3>3. CASE Callback
      BY <3>3, Zenon DEF Callback, ReplayTurn, ReplayResponse, Admit, RefuseRequest,
         StartTurn, Reserve, RefuseReservation, AttemptFails, ReceiveResponse, ExecuteTool,
         RefuseTool, Correct, AcceptProposal, ValidateJudgment, WorkerIsDone, Record
    <3> QED BY <3>1, <3>2, <3>3 DEF Next, CallRun, Cancel, LoseWorker, Crash, Post
  <2> QED BY <1>1, <2>1 DEF FlagType
<1> QED BY <1>2, <1>3 DEF FlagType

(***************************************************************************)
(* The positions.                                                          *)
(***************************************************************************)
LEMMA PositionStep ==
  ASSUME TypeInv, [Next]_vars
  PROVE  PositionInv'
<1> USE TypeParts, RunAssumption DEF TypeInv, PositionInv, Number, InRequest, InProjection,
        Ending, request
<1>1. ASSUME CallRun \/ Crash \/ WorkerIsDone \/ ReopenTerminal
      PROVE  PositionInv'
  BY <1>1 DEF CallRun, Crash, WorkerIsDone, ReopenTerminal, Return, Forget
<1>2. ASSUME ResumeFailure \/ StartWorker
      PROVE  PositionInv'
  BY <1>2 DEF ResumeFailure, StartWorker, Goto, ending
<1>3. ASSUME RefuseUnresolved
      PROVE  PositionInv'
  BY <1>3, NextAfterCompleted DEF RefuseUnresolved
<1>4. ASSUME Cancel \/ LoseWorker \/ RefuseRequest \/ RefuseReservation \/ RefuseTool
      PROVE  PositionInv'
  BY <1>4 DEF Cancel, LoseWorker, RefuseRequest, RefuseReservation, RefuseTool, Raise
<1>5. ASSUME RefuseResponse
      PROVE  PositionInv'
  BY <1>5 DEF RefuseResponse, Raise
<1>6. ASSUME ReplayTurn \/ CompleteTurn
      PROVE  PositionInv'
  BY <1>6 DEF ReplayTurn, CompleteTurn, Record, JournalType
<1>7. ASSUME ReplayResponse \/ Admit
      PROVE  PositionInv'
  BY <1>7 DEF ReplayResponse, Admit, IsFresh, Goto
<1>8. ASSUME StartTurn \/ Reserve
      PROVE  PositionInv'
  BY <1>8 DEF StartTurn, Reserve, CallType, Attempts
<1>9. ASSUME Dispatch \/ AttemptFails \/ ReceiveResponse \/ ObserveSuccess \/ SettleUsage
      PROVE  PositionInv'
  BY <1>9 DEF Dispatch, AttemptFails, ReceiveResponse, ObserveSuccess, SettleUsage, Goto
<1>10. ASSUME JudgeFailure
       PROVE  PositionInv'
  BY <1>10 DEF JudgeFailure, Raise
<1>11. ASSUME ExecuteTool \/ Correct \/ AcceptProposal \/ ValidateJudgment \/ FinishJudgment
       PROVE  PositionInv'
  BY <1>11 DEF ExecuteTool, Correct, AcceptProposal, ValidateJudgment, FinishJudgment,
               Raise, Goto
<1>12. ASSUME CloseWorker \/ RecordProviderFailure \/ RecordInterruption
       PROVE  PositionInv'
  BY <1>12 DEF CloseWorker, RecordProviderFailure, RecordInterruption, Goto
<1>13. ASSUME RecordFailure \/ CommitFailure
       PROVE  PositionInv'
  BY <1>13 DEF RecordFailure, CommitFailure, StatusOf, Goto, Return, Forget
<1>14. ASSUME NEW k \in Requests, Post(k)
       PROVE  PositionInv'
  BY <1>14 DEF Post, ending
<1>15. CASE UNCHANGED vars
  BY <1>15 DEF vars, ending
<1> QED
  BY <1>1, <1>2, <1>3, <1>4, <1>5, <1>6, <1>7, <1>8, <1>9, <1>10, <1>11, <1>12, <1>13,
     <1>14, <1>15 DEF Next, Harness, Callback

LEMMA TypeInit == Init => TypeInv
<1> SUFFICES ASSUME Init PROVE TypeInv
  OBVIOUS
<1>1. JournalType
  BY RunAssumption DEF Init, JournalType
<1>2. EndingType /\ FlagType
  BY DEF Init, EndingType, FlagType
<1>3. RequestType
  BY DEF Init, RequestType, Budget!Init, Budget!TypeOK, Budget!Entries
<1>4. CallType
  BY RunAssumption DEF Init, CallType, PCs, Awaits
<1>5. PositionInv
  BY DEF Init, PositionInv, InRequest, InProjection, Ending
<1> QED BY <1>1, <1>2, <1>3, <1>4, <1>5, TypeParts DEF TypeInv

LEMMA TypeStep == TypeInv /\ [Next]_vars => TypeInv'
<1> SUFFICES ASSUME TypeInv, [Next]_vars PROVE TypeInv'
  OBVIOUS
<1>1. JournalType' /\ EndingType' /\ RequestType' /\ CallType' /\ FlagType'
  BY JournalTypeStep, EndingTypeStep, RequestTypeStep, CallTypeStep, FlagTypeStep
<1>2. TypeOK'
  BY <1>1 DEF TypeOK, JournalType, EndingType, RequestType, CallType, FlagType
<1> QED BY <1>2, PositionStep DEF TypeInv

(***************************************************************************)
(* Every reachable state is well typed, however long the conversation and  *)
(* however often the process dies.                                         *)
(***************************************************************************)
THEOREM TypeCorrect == Spec => []TypeOK
<1>1. TypeInv => TypeOK
  BY DEF TypeInv
<1> QED BY <1>1, TypeInit, TypeStep, PTL DEF Spec

-----------------------------------------------------------------------------
(* Outcomes. *)

(***************************************************************************)
(* Every step keeps the outcome.  Most end no run: they move the call from *)
(* an open run to an open run, or out of it.                               *)
(***************************************************************************)
LEMMA OutcomeStep ==
  ASSUME TypeInv, OutcomeInv, [Next]_vars
  PROVE  OutcomeInv'
<1> USE DEF OutcomeInv, OneOutcome, Working, PCs, Awaits, Ending, Judged, ending
<1>1. ASSUME CallRun \/ Crash \/ ReopenTerminal \/ WorkerIsDone
      PROVE  OutcomeInv'
  BY <1>1 DEF CallRun, Crash, ReopenTerminal, WorkerIsDone, Return, Forget
<1>2. ASSUME ResumeFailure \/ RefuseUnresolved \/ StartWorker
      PROVE  OutcomeInv'
  BY <1>2 DEF ResumeFailure, RefuseUnresolved, StartWorker, Goto
<1>3. ASSUME Cancel \/ LoseWorker \/ RefuseRequest \/ RefuseReservation \/ RefuseResponse
             \/ RefuseTool
      PROVE  OutcomeInv'
  BY <1>3 DEF Cancel, LoseWorker, RefuseRequest, RefuseReservation, RefuseResponse,
              RefuseTool, Raise
<1>4. ASSUME ReplayTurn \/ CompleteTurn
      PROVE  OutcomeInv'
  BY <1>4 DEF ReplayTurn, CompleteTurn, Record
<1>5. ASSUME ReplayResponse \/ Admit \/ StartTurn \/ Reserve \/ Dispatch
      PROVE  OutcomeInv'
  BY <1>5 DEF ReplayResponse, Admit, StartTurn, Reserve, Dispatch, Goto
<1>6. ASSUME AttemptFails \/ JudgeFailure \/ ReceiveResponse \/ ObserveSuccess \/ SettleUsage
      PROVE  OutcomeInv'
  BY <1>6 DEF AttemptFails, JudgeFailure, ReceiveResponse, ObserveSuccess, SettleUsage,
              Raise, Goto
<1>7. ASSUME ExecuteTool \/ Correct \/ AcceptProposal
      PROVE  OutcomeInv'
  BY <1>7 DEF ExecuteTool, Correct, AcceptProposal, Raise, Goto
<1>8. ASSUME ValidateJudgment
      PROVE  OutcomeInv'
  BY <1>8 DEF ValidateJudgment, Goto, Failures
<1>9. ASSUME FinishJudgment
      PROVE  OutcomeInv'
  BY <1>9 DEF FinishJudgment, Goto, Failures
<1>10. ASSUME CloseWorker \/ RecordProviderFailure \/ RecordInterruption
       PROVE  OutcomeInv'
  BY <1>10 DEF CloseWorker, RecordProviderFailure, RecordInterruption, Goto
<1>11. ASSUME RecordFailure
       PROVE  OutcomeInv'
  BY <1>11 DEF RecordFailure, Goto, Return, Forget, Failures
<1>12. ASSUME CommitFailure
       PROVE  OutcomeInv'
  <2>1. failure \in Failures /\ status = "running"
    BY <1>12, TypeParts DEF CommitFailure, TypeInv, PositionInv, EndingType
  <2>2. CASE validated
    BY <1>12, <2>1, <2>2 DEF CommitFailure, Return, Forget, Failures
  <2>3. CASE ~validated
    BY <1>12, <2>1, <2>3 DEF CommitFailure, Return, Forget, Failures
  <2> QED BY <2>2, <2>3
<1>13. ASSUME NEW k \in Requests, Post(k)
       PROVE  OutcomeInv'
  BY <1>13 DEF Post
<1>14. CASE UNCHANGED vars
  BY <1>14 DEF vars
<1> QED
  BY <1>1, <1>2, <1>3, <1>4, <1>5, <1>6, <1>7, <1>8, <1>9, <1>10, <1>11, <1>12, <1>13,
     <1>14 DEF Next, Harness, Callback

LEMMA OutcomeInit == Init => OutcomeInv
BY DEF Init, OutcomeInv, OneOutcome, Failures, Working, Ending, PCs, Awaits, Judged

LEMMA OutcomeAlways == Spec => []OutcomeInv
<1>1. TypeInv /\ OutcomeInv /\ [Next]_vars => OutcomeInv'
  BY OutcomeStep
<1> QED BY <1>1, OutcomeInit, TypeInit, TypeStep, PTL DEF Spec

(***************************************************************************)
(* A run ends once, and every call that returns says what the record says. *)
(***************************************************************************)
THEOREM SingleOutcome == Spec => []OneOutcome
<1>1. OutcomeInv => OneOutcome
  BY DEF OutcomeInv
<1> QED BY <1>1, OutcomeAlways, PTL

-----------------------------------------------------------------------------
(* Attempts. *)

LEMMA CurrentType ==
  ASSUME TypeInv, pc \in {"reserved", "waiting", "judging"}
  PROVE  Current \in Requests
BY DEF TypeInv, PositionInv, InRequest, Current, Requests

LEMMA AnsweredType ==
  ASSUME ResponseInv, NEW n \in Turns, response[n] # "none"
  PROVE  Answered(n) \in Requests
BY DEF ResponseInv, Answered, Requests

LEMMA ProjectedType ==
  ASSUME TypeInv, ResponseInv, pc \in InProjection
  PROVE  Number \in Turns /\ Answered(Number) \in Requests
BY AnsweredType DEF TypeInv, PositionInv, ResponseInv

(***************************************************************************)
(* How the call comes to be at a step of a turn: every other step leaves   *)
(* it elsewhere.                                                           *)
(***************************************************************************)
LEMMA Moves ==
  ASSUME [Next]_vars
  PROVE  \/ UNCHANGED <<journal, budget, pc, turn, tried, regenerated>>
         \/ Admit \/ StartTurn \/ Reserve \/ Dispatch \/ AttemptFails \/ JudgeFailure
         \/ ReceiveResponse \/ ReplayResponse \/ ObserveSuccess \/ SettleUsage
         \/ pc' \notin {"admitted"} \cup InRequest \cup InProjection
<1> USE DEF Goto, Raise, Return, Forget, Record, InRequest, InProjection
<1>1. CASE UNCHANGED vars
  BY <1>1 DEF vars, request
<1>2. CASE Harness
  BY <1>2 DEF Harness, ReopenTerminal, ResumeFailure, RefuseUnresolved, StartWorker,
     RefuseResponse, CompleteTurn, FinishJudgment, CloseWorker, RecordProviderFailure,
     RecordInterruption, RecordFailure, CommitFailure
<1>3. CASE Callback
  BY <1>3 DEF Callback, ReplayTurn, RefuseRequest, RefuseReservation, ExecuteTool,
     RefuseTool, Correct, AcceptProposal, ValidateJudgment, WorkerIsDone
<1> QED BY <1>1, <1>2, <1>3 DEF Next, CallRun, Cancel, LoseWorker, Crash, Post, request

(***************************************************************************)
(* Every step keeps each request's account.                                *)
(***************************************************************************)
LEMMA RequestStep ==
  ASSUME TypeInv, AttemptInv, [Next]_vars
  PROVE  RequestInv'
<1> SUFFICES ASSUME NEW k \in Requests PROVE Accounted(k)'
  BY DEF RequestInv
<1>a. Accounted(k) /\ ResponseInv /\ CurrentInv /\ JournalType /\ RequestType
  BY TypeParts DEF AttemptInv, RequestInv, TypeInv
<1>b. sent \in [Requests -> Nat] /\ permits \in [Requests -> 0..1]
  BY <1>a DEF RequestType, Budget!TypeOK
<1>c. DOMAIN attempt = Requests /\ DOMAIN entry = Requests
  BY <1>a DEF RequestType, Budget!TypeOK, JournalType
<1>0. /\ Accounted(k) /\ ResponseInv /\ CurrentInv
      /\ sent \in [Requests -> Nat] /\ permits \in [Requests -> 0..1]
      /\ attempt = [r \in Requests |-> attempt[r]] /\ entry = [r \in Requests |-> entry[r]]
  BY <1>a, <1>b, <1>c DEF RequestType, Budget!TypeOK, JournalType
<1>1. CASE UNCHANGED <<attempt, budget, world>>
  BY <1>0, <1>1 DEF Accounted, budget, world
<1>2. CASE Reserve
  <2>1. UNCHANGED <<attempt, permits, ready, sent>> /\ entry[<<Number, tried + 1>>] = "free"
        /\ entry' = [entry EXCEPT ![<<Number, tried + 1>>] = "reserved"]
    BY <1>2 DEF Reserve, Budget!Reserve, Budget!Enter, journal, world
  <2> QED BY <1>0, <2>1 DEF Accounted
<1>3. CASE Dispatch
  <2>1. Current \in Requests
    BY <1>3, CurrentType DEF Dispatch
  <2>2. /\ entry[Current] = "reserved" /\ permits[Current] = 0 /\ UNCHANGED <<entry, sent>>
        /\ permits' = [permits EXCEPT ![Current] = 1]
        /\ attempt' = [attempt EXCEPT ![Current] = "dispatched"]
        /\ ready' = ready \cup {Current}
    BY <1>3 DEF Dispatch, Budget!Permit
  <2> QED BY <1>0, <2>1, <2>2 DEF Accounted
<1>4. ASSUME NEW p \in Requests, Post(p)
      PROVE  Accounted(k)'
  BY <1>0, <1>4 DEF Post, Accounted, journal, budget
<1>5. CASE AttemptFails
  <2>1. attempt[Current] = "dispatched" /\ entry[Current] = "reserved" /\ Current \in Requests
    BY <1>0, <1>5, CurrentType DEF AttemptFails, CurrentInv, InRequest
  <2>2. PICK f \in Faults : attempt' = [attempt EXCEPT ![Current] = f]
    BY <1>5 DEF AttemptFails
  <2>3. ready' = ready \ {Current} /\ UNCHANGED <<entry, permits, sent>> /\ f # "none"
    BY <1>5 DEF AttemptFails, Faults, NotStarted, budget
  <2> QED BY <1>0, <2>1, <2>2, <2>3 DEF Accounted
<1>6. CASE JudgeFailure
  <2>1. UNCHANGED <<attempt, ready, sent>>
    BY <1>6 DEF JudgeFailure, journal, world
  <2>2. CASE UNCHANGED budget
    BY <1>0, <2>1, <2>2 DEF Accounted, budget
  <2>3. CASE Budget!Settle(Current) /\ SettledBy(attempt[Current])
    BY <1>0, <2>1, <2>3 DEF Accounted, Budget!Settle, Budget!Enter, SettledBy
  <2> QED BY <1>6, <2>2, <2>3 DEF JudgeFailure
<1>7. CASE ObserveSuccess
  <2>1. Number \in Turns /\ Answered(Number) \in Requests
        /\ attempt[Answered(Number)] \in {"dispatched", "succeeded"}
    BY <1>0, <1>7, ProjectedType DEF ObserveSuccess, ResponseInv, Answered, InProjection
  <2>2. attempt' = [attempt EXCEPT ![Answered(Number)] = "succeeded"]
        /\ UNCHANGED <<entry, permits, ready, sent>>
    BY <1>7 DEF ObserveSuccess, budget, world
  <2> QED BY <1>0, <2>1, <2>2 DEF Accounted
<1>8. CASE SettleUsage
  <2>1. UNCHANGED <<attempt, ready, sent>> /\ attempt[Answered(Number)] = "succeeded"
    BY <1>0, <1>8 DEF SettleUsage, journal, world, ResponseInv
  <2>2. CASE UNCHANGED budget
    BY <1>0, <2>1, <2>2 DEF Accounted, budget
  <2>3. CASE Budget!Settle(Answered(Number))
    BY <1>0, <2>1, <2>3 DEF Accounted, Budget!Settle, Budget!Enter
  <2> QED BY <1>8, <2>2, <2>3 DEF SettleUsage
<1>9. CASE CloseWorker
  BY <1>0, <1>9 DEF CloseWorker, Accounted, journal, budget
<1>10. ASSUME StartTurn \/ ReceiveResponse \/ CompleteTurn \/ ExecuteTool
       PROVE  UNCHANGED <<attempt, budget, world>>
  BY <1>10 DEF StartTurn, ReceiveResponse, CompleteTurn, ExecuteTool
<1> QED
  BY <1>1, <1>2, <1>3, <1>4, <1>5, <1>6, <1>7, <1>8, <1>9, <1>10, Writers DEF journal

(***************************************************************************)
(* Every step keeps what a response answers.                               *)
(***************************************************************************)
LEMMA ResponseStep ==
  ASSUME TypeInv, AttemptInv, [Next]_vars
  PROVE  \A n \in Turns : response'[n] # "none" =>
           answers'[n] \in Attempts /\ attempt'[<<n, answers'[n]>>] \in {"dispatched", "succeeded"}
<1> SUFFICES ASSUME NEW n \in Turns, response'[n] # "none"
             PROVE  /\ answers'[n] \in Attempts
                    /\ attempt'[<<n, answers'[n]>>] \in {"dispatched", "succeeded"}
  OBVIOUS
<1>0. /\ ResponseInv /\ CurrentInv /\ JournalType /\ PositionInv
  BY TypeParts DEF AttemptInv, TypeInv
<1>1. CASE UNCHANGED <<response, answers, attempt>>
  BY <1>0, <1>1 DEF ResponseInv
<1>2. CASE Dispatch
  BY <1>0, <1>2, CurrentType DEF Dispatch, ResponseInv, JournalType, Current, Requests
<1>3. CASE AttemptFails
  <2>1. response[Number] = "none"
    BY <1>0, <1>3 DEF AttemptFails, CurrentInv, InRequest
  <2>2. PICK f \in Faults : attempt' = [attempt EXCEPT ![Current] = f]
    BY <1>3 DEF AttemptFails
  <2>3. UNCHANGED <<response, answers>>
    BY <1>3 DEF AttemptFails
  <2> QED BY <1>0, <2>1, <2>2, <2>3 DEF ResponseInv, JournalType, Current, Requests
<1>4. CASE ReceiveResponse
  BY <1>0, <1>4 DEF ReceiveResponse, ResponseInv, CurrentInv, JournalType, Current,
                    PositionInv, InRequest
<1>5. CASE ObserveSuccess
  BY <1>0, <1>5 DEF ObserveSuccess, ResponseInv, JournalType, Answered, Requests
<1>6. ASSUME StartTurn \/ CompleteTurn \/ ExecuteTool
      PROVE  UNCHANGED <<response, answers, attempt>>
  BY <1>6 DEF StartTurn, CompleteTurn, ExecuteTool
<1> QED BY <1>1, <1>2, <1>3, <1>4, <1>5, <1>6, Writers DEF journal

(***************************************************************************)
(* How the call comes to project a response, and goes on.                  *)
(***************************************************************************)
LEMMA ProjectionStep ==
  ASSUME TypeInv, AttemptInv, [Next]_vars
  PROVE  ResponseInv'
<1>0. /\ ResponseInv /\ JournalType /\ PositionInv
  BY TypeParts DEF AttemptInv, TypeInv
<1> SUFFICES /\ pc' \in InProjection => response'[Number'] # "none"
             /\ pc' = "observed" => attempt'[Answered(Number)'] = "succeeded"
  BY ResponseStep DEF ResponseInv, Answered
<1>1. CASE UNCHANGED <<pc, turn, response, answers, attempt>>
  BY <1>0, <1>1 DEF ResponseInv, Number, Answered
<1>2. CASE ReplayResponse
  BY <1>0, <1>2 DEF ReplayResponse, Goto, Number, journal
<1>3. CASE ReceiveResponse
  BY <1>0, <1>3 DEF ReceiveResponse, Goto, Number, JournalType, PositionInv, InRequest, Contents
<1>4. CASE ObserveSuccess
  <2>1. Number \in Turns /\ Answered(Number) \in Requests /\ response[Number] # "none"
    BY <1>0, <1>4, ProjectedType DEF ObserveSuccess, InProjection, ResponseInv
  <2> QED BY <1>0, <1>4, <2>1 DEF ObserveSuccess, Goto, Number, Answered, JournalType
<1>5. CASE SettleUsage
  BY <1>0, <1>5 DEF SettleUsage, Goto, Number, journal, ResponseInv, InProjection
<1>6. CASE pc' \notin InProjection
  BY <1>6 DEF InProjection
<1>7. \/ UNCHANGED <<pc, turn, response, answers, attempt>>
      \/ ReplayResponse \/ ReceiveResponse \/ ObserveSuccess \/ SettleUsage
      \/ pc' \notin InProjection
  BY Moves DEF Admit, StartTurn, Reserve, Dispatch, AttemptFails, JudgeFailure, Goto, Raise,
     journal, InProjection
<1> QED BY <1>1, <1>2, <1>3, <1>4, <1>5, <1>6, <1>7

(***************************************************************************)
(* Every step keeps the chain of attempts of every turn.                   *)
(***************************************************************************)
LEMMA RetriesStep ==
  ASSUME TypeInv, AttemptInv, [Next]_vars
  PROVE  RetriesInv'
<1> SUFFICES ASSUME NEW n \in Turns
             PROVE  Chained(n)' /\ (n \notin started' => Untouched(n)')
  BY DEF RetriesInv
<1>a. Chained(n) /\ (n \notin started => Untouched(n))
  BY DEF AttemptInv, RetriesInv
<1>b. ResponseInv /\ CurrentInv /\ PositionInv /\ JournalType /\ RequestType /\ CallType
  BY TypeParts DEF AttemptInv, TypeInv
<1>c. /\ attempt = [r \in Requests |-> attempt[r]] /\ entry = [r \in Requests |-> entry[r]]
      /\ response = [t \in Turns |-> response[t]]
  BY <1>b DEF JournalType, RequestType, Budget!TypeOK
<1>1. CASE UNCHANGED <<started, response, attempt, entry>>
  BY <1>1, <1>a DEF Chained, Untouched, Unused
<1>2. CASE StartTurn
  BY <1>2, <1>a DEF StartTurn, Chained, Untouched, Unused, budget
<1>3. CASE Reserve
  <2>1. /\ UNCHANGED <<started, response, attempt>>
        /\ Number \in started
        /\ entry' = [entry EXCEPT ![<<Number, tried + 1>>] = "reserved"]
    BY <1>3, <1>b DEF Reserve, Budget!Reserve, Budget!Enter, journal, CurrentInv, InRequest
  <2> QED BY <2>1, <1>a, <1>c DEF Chained, Untouched, Unused, Requests
<1>4. CASE Dispatch
  <2>1. /\ UNCHANGED <<started, response, entry>>
        /\ attempt' = [attempt EXCEPT ![<<Number, tried>>] = "dispatched"]
    BY <1>4 DEF Dispatch, Budget!Permit, Current
  <2>2. /\ Number \in started
        /\ \A a \in Attempts : a > tried => attempt[<<Number, a>>] = "none"
        /\ \A a \in Attempts : a < tried =>
             /\ attempt[<<Number, a>>] \in Retryable
             /\ attempt[<<Number, a>>] = "timeout408" =>
                  \A b \in Attempts :
                    b < tried /\ attempt[<<Number, b>>] = "timeout408" => a = b
    BY <1>4, <1>b DEF Dispatch, CurrentInv, InRequest, NothingBeyond, MayBePast, Unused, Past
  <2>3. tried \in Nat /\ Attempts \subseteq Nat
    BY <1>b, RunAssumption DEF CallType, Attempts
  <2>4. ASSUME NEW b \in Attempts, attempt'[<<n, b>>] # "none"
        PROVE  /\ attempt[<<n, b>>] # "none" \/ (n = Number /\ b = tried)
               /\ \A a \in Attempts : a < b => attempt'[<<n, a>>] = attempt[<<n, a>>]
    <3>1. \A a \in Attempts :
            n # Number \/ a # tried => attempt'[<<n, a>>] = attempt[<<n, a>>]
      BY <2>1, <1>c DEF Requests
    <3> QED BY <3>1, <2>2, <2>3, <2>4
  <2>5. Chained(n)'
    BY <2>2, <2>4, <1>a DEF Chained
  <2>6. n \notin started' => Untouched(n)'
    BY <2>1, <2>2, <1>a, <1>c DEF Untouched, Unused, Requests
  <2> QED BY <2>5, <2>6
<1>5. CASE AttemptFails
  <2>1. PICK f \in Faults : attempt' = [attempt EXCEPT ![<<Number, tried>>] = f]
    BY <1>5 DEF AttemptFails, Current
  <2>2. UNCHANGED <<started, response, entry>>
    BY <1>5 DEF AttemptFails, budget
  <2>3. /\ Number \in started /\ attempt[<<Number, tried>>] = "dispatched"
        /\ \A a \in Attempts : a > tried => attempt[<<Number, a>>] = "none"
    BY <1>5, <1>b DEF AttemptFails, CurrentInv, InRequest, NothingBeyond, Unused, Current
  <2>4. tried \in Nat /\ Attempts \subseteq Nat
    BY <1>b, RunAssumption DEF CallType, Attempts
  <2>5. ASSUME NEW b \in Attempts, attempt'[<<n, b>>] # "none"
        PROVE  /\ attempt[<<n, b>>] # "none"
               /\ \A a \in Attempts : a < b => attempt'[<<n, a>>] = attempt[<<n, a>>]
    BY <2>1, <2>3, <2>4, <2>5, <1>c DEF Requests
  <2>6. Chained(n)'
    BY <2>5, <1>a DEF Chained
  <2>7. n \notin started' => Untouched(n)'
    BY <2>1, <2>2, <2>3, <1>a, <1>c DEF Untouched, Unused, Requests
  <2> QED BY <2>6, <2>7
<1>6. CASE JudgeFailure
  <2>1. UNCHANGED <<started, response, attempt>> /\ Number \in started
    BY <1>6, <1>b DEF JudgeFailure, journal, CurrentInv, InRequest
  <2>2. UNCHANGED entry \/ entry' = [entry EXCEPT ![<<Number, tried>>] = "settled"]
    BY <1>6 DEF JudgeFailure, Budget!Settle, Budget!Enter, budget, Current
  <2> QED BY <2>1, <2>2, <1>a, <1>c DEF Chained, Untouched, Unused, Requests
<1>7. CASE ReceiveResponse
  <2>1. /\ UNCHANGED <<started, attempt, entry>> /\ Number \in started
        /\ \A t \in Turns \ {Number} : response'[t] = response[t]
    BY <1>7, <1>b, <1>c DEF ReceiveResponse, CurrentInv, InRequest, budget
  <2> QED BY <2>1, <1>a DEF Chained, Untouched, Unused
<1>8. CASE ObserveSuccess
  <2>1. /\ UNCHANGED <<started, response, entry>> /\ Number \in Turns /\ response[Number] # "none"
        /\ attempt' = [attempt EXCEPT ![<<Number, answers[Number]>>] = "succeeded"]
        /\ attempt[<<Number, answers[Number]>>] \in {"dispatched", "succeeded"}
        /\ answers[Number] \in Attempts
    BY <1>8, <1>b DEF ObserveSuccess, Answered, ResponseInv, InProjection, PositionInv, budget
  <2>2. Retryable \cap {"dispatched", "succeeded"} = {}
    BY DEF Retryable
  <2> QED BY <2>1, <2>2, <1>a, <1>c DEF Chained, Untouched, Unused, Requests
<1>9. CASE SettleUsage
  <2>1. /\ UNCHANGED <<started, response, attempt>> /\ response[Number] # "none"
        /\ UNCHANGED entry \/ entry' = [entry EXCEPT ![<<Number, answers[Number]>>] = "settled"]
    BY <1>9, <1>b DEF SettleUsage, Budget!Settle, Budget!Enter, budget, journal, Answered,
                      ResponseInv, InProjection
  <2> QED BY <2>1, <1>a, <1>c DEF Chained, Untouched, Unused, Requests
<1>10. ASSUME CompleteTurn \/ ExecuteTool
       PROVE  UNCHANGED <<started, response, attempt, entry>>
  BY <1>10 DEF CompleteTurn, ExecuteTool, budget
<1> QED
  BY <1>1, <1>2, <1>3, <1>4, <1>5, <1>6, <1>7, <1>8, <1>9, <1>10, Writers DEF journal, budget

(***************************************************************************)
(* Every step keeps what is known of the turn under way.                   *)
(***************************************************************************)
LEMMA CurrentStep ==
  ASSUME TypeInv, AttemptInv, [Next]_vars
  PROVE  CurrentInv'
<1>a. CurrentInv /\ RetriesInv /\ PositionInv /\ JournalType /\ RequestType /\ CallType
  BY TypeParts DEF AttemptInv, TypeInv
<1>b. /\ attempt = [r \in Requests |-> attempt[r]] /\ entry = [r \in Requests |-> entry[r]]
      /\ tried \in Nat /\ Attempts \subseteq Nat
  BY <1>a, RunAssumption DEF JournalType, RequestType, Budget!TypeOK, CallType, Attempts
<1>1. CASE UNCHANGED <<journal, budget, pc, turn, tried, regenerated>>
  BY <1>1, <1>a DEF CurrentInv, Number, Current, Past, NothingBeyond, MayBePast, Unused,
     InRequest, journal, budget
<1>2. CASE Admit
  BY <1>2 DEF Admit, IsFresh, Goto, CurrentInv, Number, InRequest, journal
<1>3. CASE StartTurn
  <2>1. Number \in Turns \ started /\ Number' = Number /\ started' = started \cup {Number}
        /\ tried' = 0 /\ pc' = "attempting" /\ UNCHANGED <<response, attempt, entry>>
    BY <1>3, <1>a DEF StartTurn, CurrentInv, PositionInv, Number, budget
  <2>2. Past' = {}
    BY <2>1, RunAssumption DEF Past, Attempts
  <2>3. response[Number] = "none" /\ NothingBeyond'
    BY <2>1, <1>a DEF RetriesInv, Untouched, Unused, NothingBeyond
  <2> QED BY <2>1, <2>2, <2>3 DEF CurrentInv, InRequest
<1>4. CASE Reserve
  <2>1. /\ pc = "attempting" /\ pc' = "reserved" /\ tried' = tried + 1 /\ tried + 1 \in Attempts
        /\ Number \in Turns /\ UNCHANGED <<started, response, attempt, regenerated>>
        /\ Number' = Number
        /\ entry' = [entry EXCEPT ![<<Number, tried + 1>>] = "reserved"]
    BY <1>4, <1>a, <1>b, RunAssumption
    DEF Reserve, Budget!Reserve, Budget!Enter, journal, PositionInv, InRequest, Number, Attempts
  <2>2. Past' = Past
    BY <2>1, <1>b DEF Past
  <2>3. Number \in started /\ response[Number] = "none" /\ NothingBeyond
        /\ \A a \in Past : MayBePast(a)
    BY <2>1, <1>a DEF CurrentInv, InRequest
  <2>4. \A a \in Past' : MayBePast(a)'
    BY <2>1, <2>2, <2>3 DEF MayBePast
  <2>5. entry'[<<Number, tried + 1>>] = "reserved"
        /\ \A a \in Attempts : a # tried + 1 => entry'[<<Number, a>>] = entry[<<Number, a>>]
    BY <2>1, <1>b DEF Requests
  <2>6. NothingBeyond'
    BY <2>1, <2>3, <2>5, <1>b DEF NothingBeyond, Unused
  <2>7. attempt[<<Number, tried + 1>>] = "none"
    BY <2>1, <2>3, <1>b DEF NothingBeyond, Unused
  <2> QED BY <2>1, <2>3, <2>4, <2>5, <2>6, <2>7 DEF CurrentInv, InRequest, Current
<1>5. CASE Dispatch \/ AttemptFails
  <2>1. PICK f \in Faults \cup {"dispatched"} : attempt' = [attempt EXCEPT ![<<Number, tried>>] = f]
    BY <1>5 DEF Dispatch, AttemptFails, Current
  <2>2. /\ pc \in {"reserved", "waiting"} /\ UNCHANGED <<started, response, entry>>
        /\ Number' = Number /\ UNCHANGED <<tried, regenerated>>
        /\ <<Number, tried>> \in Requests
        /\ pc' = (IF Dispatch THEN "waiting" ELSE "judging")
    BY <1>5, CurrentType
    DEF Dispatch, AttemptFails, Budget!Permit, Goto, Current, request, budget, Number
  <2>3. pc' \in {"waiting", "judging"} /\ Past' = Past /\ \A a \in Past : a < tried
    BY <2>2 DEF Past
  <2>4. Number \in started /\ response[Number] = "none" /\ NothingBeyond
        /\ (\A a \in Past : MayBePast(a)) /\ entry[<<Number, tried>>] = "reserved"
    BY <2>2, <1>a DEF CurrentInv, InRequest, Current
  <2>5. \A a \in Attempts : a # tried => attempt'[<<Number, a>>] = attempt[<<Number, a>>]
    BY <2>1, <1>b, <1>a DEF JournalType, Requests
  <2>6. \A a \in Past' : MayBePast(a)'
    <3>1. \A a \in Past : a # tried /\ a \in Attempts
      BY <2>3, <1>b DEF Past
    <3> QED BY <2>2, <2>3, <2>4, <2>5, <3>1 DEF MayBePast
  <2>7. NothingBeyond'
    BY <2>2, <2>4, <2>5, <1>b DEF NothingBeyond, Unused
  <2>8. attempt'[<<Number, tried>>] = f /\ (pc' = "waiting" => f = "dispatched")
        /\ (pc' = "judging" => f \in Faults)
    <3>1. attempt'[<<Number, tried>>] = f
      BY <2>1, <2>2, <1>b
    <3>2. CASE Dispatch
      BY <3>1, <3>2, <2>2, <1>b DEF Dispatch, Current
    <3>3. CASE AttemptFails
      BY <3>1, <3>3, <2>2, <1>b DEF AttemptFails, Goto, Current
    <3> QED BY <1>5, <3>1, <3>2, <3>3
  <2> QED BY <2>2, <2>3, <2>4, <2>6, <2>7, <2>8 DEF CurrentInv, InRequest, Current
<1>7. CASE JudgeFailure /\ pc' = "attempting"
  <2>1. /\ pc = "judging" /\ UNCHANGED <<started, response, attempt, turn, tried>>
        /\ MayRetry(attempt[<<Number, tried>>])
        /\ regenerated' = (regenerated \/ attempt[<<Number, tried>>] = "timeout408")
    BY <1>7 DEF JudgeFailure, Raise, Current, journal
  <2>2. UNCHANGED entry \/ entry' = [entry EXCEPT ![<<Number, tried>>] = "settled"]
    BY <1>7 DEF JudgeFailure, Budget!Settle, Budget!Enter, budget, Current
  <2>3. attempt[<<Number, tried>>] \in Retryable
        /\ (attempt[<<Number, tried>>] = "timeout408" => ~regenerated)
    BY <2>1 DEF MayRetry, Retryable
  <2>4. Past' = Past \cup {tried} /\ Number' = Number
    BY <2>1, <1>7, <1>a, <1>b DEF Past, PositionInv, Number
  <2>5. Number \in started /\ response[Number] = "none" /\ NothingBeyond
        /\ \A a \in Past : MayBePast(a)
    BY <2>1, <1>a DEF CurrentInv, InRequest
  <2>6. NothingBeyond'
    <3>1. \A a \in Attempts : a # tried => entry'[<<Number, a>>] = entry[<<Number, a>>]
      BY <2>1, <2>2, <1>a, <1>b DEF Requests, PositionInv, InRequest
    <3> QED BY <3>1, <2>1, <2>4, <2>5, <1>b DEF NothingBeyond, Unused
  <2>7. \A a \in Past' : MayBePast(a)'
    BY <2>1, <2>3, <2>4, <2>5 DEF MayBePast
  <2> QED BY <2>1, <2>4, <2>5, <2>6, <2>7, <1>7 DEF CurrentInv, InRequest
<1>8. CASE pc' \notin {"admitted"} \cup InRequest
  BY <1>8 DEF CurrentInv, InRequest
<1>9. ASSUME ReceiveResponse \/ ReplayResponse \/ ObserveSuccess \/ SettleUsage
      PROVE  pc' \notin {"admitted"} \cup InRequest
  BY <1>9 DEF ReceiveResponse, ReplayResponse, ObserveSuccess, SettleUsage, Goto, InRequest
<1>10. JudgeFailure => pc' = "attempting" \/ pc' \notin {"admitted"} \cup InRequest
  BY DEF JudgeFailure, Raise, InRequest
<1> QED BY <1>1, <1>2, <1>3, <1>4, <1>5, <1>7, <1>8, <1>9, <1>10, Moves

LEMMA AttemptStep ==
  ASSUME TypeInv, AttemptInv, [Next]_vars
  PROVE  AttemptInv'
BY RequestStep, ProjectionStep, RetriesStep, CurrentStep DEF AttemptInv

LEMMA AttemptInit == Init => AttemptInv
<1> SUFFICES ASSUME Init PROVE AttemptInv
  OBVIOUS
<1>1. RequestInv
  BY DEF Init, RequestInv, Accounted, Budget!Init
<1>2. ResponseInv /\ CurrentInv
  BY DEF Init, ResponseInv, CurrentInv, InRequest, InProjection
<1>3. RetriesInv
  BY DEF Init, RetriesInv, Chained, Untouched, Unused, Budget!Init, Requests
<1> QED BY <1>1, <1>2, <1>3 DEF AttemptInv

LEMMA AttemptAlways == Spec => [](TypeInv /\ AttemptInv)
BY AttemptInit, AttemptStep, TypeInit, TypeStep, PTL DEF Spec

(***************************************************************************)
(* No POST is made twice, and no turn is sent again unless its provider    *)
(* said that it did not generate, or once after a 408: for any number of   *)
(* attempts, and however often the process dies between any two steps.     *)
(***************************************************************************)
THEOREM NoRegeneration == Spec => []NoBlindRegeneration
<1>1. ASSUME TypeInv, AttemptInv
      PROVE  NoBlindRegeneration
  <2>0. /\ \A k \in Requests : sent[k] <= 1 /\ (sent[k] > 0 => attempt[k] # "none")
        /\ \A n \in Turns : Chained(n)
    BY <1>1 DEF AttemptInv, RequestInv, Accounted, RetriesInv
  <2>1. ASSUME NEW n \in Turns, NEW a \in Superseded(n)
        PROVE  a \in Attempts /\ \E b \in Attempts : a < b /\ attempt[<<n, b>>] # "none"
    BY <2>0, <2>1, RunAssumption DEF Superseded, Requests, Attempts
  <2>2. ASSUME NEW n \in Turns, NEW a \in Superseded(n)
        PROVE  attempt[<<n, a>>] \in Retryable
    BY <2>0, <2>1, <2>2 DEF Chained
  <2>3. ASSUME NEW n \in Turns, NEW a \in Superseded(n), NEW b \in Superseded(n),
               attempt[<<n, a>>] = "timeout408", attempt[<<n, b>>] = "timeout408"
        PROVE  a = b
    <3>1. PICK c \in Attempts : a < c /\ attempt[<<n, c>>] # "none"
      BY <2>1
    <3>2. PICK d \in Attempts : b < d /\ attempt[<<n, d>>] # "none"
      BY <2>1
    <3>3. (a < d \/ b < c) /\ a \in Attempts /\ b \in Attempts
      BY <3>1, <3>2, <2>1, RunAssumption DEF Attempts
    <3> QED BY <3>1, <3>2, <3>3, <2>0, <2>3 DEF Chained
  <2> QED BY <2>0, <2>2, <2>3 DEF NoBlindRegeneration, Retryable
<1> QED BY <1>1, AttemptAlways, PTL

(***************************************************************************)
(* Whatever a worker sends was reserved and recorded, and what nobody      *)
(* answered stays reserved.                                                *)
(***************************************************************************)
THEOREM Accounting == Spec => []PostsAreAccounted
<1>1. TypeInv /\ AttemptInv => PostsAreAccounted
  BY DEF AttemptInv, RequestInv, Accounted, PostsAreAccounted
<1> QED BY <1>1, AttemptAlways, PTL

(***************************************************************************)
(* The boundary never asks the budget for a key it has used, nor to settle *)
(* what it did not admit.                                                  *)
(***************************************************************************)
THEOREM UnspentKeys == Spec => []KeysAreUnspent
<1>1. ASSUME TypeInv, AttemptInv
      PROVE  KeysAreUnspent
  <2>1. pc = "attempting" /\ tried < MaxAttempts => entry[<<Number, tried + 1>>] = "free"
    <3>1. tried \in Nat
      BY <1>1, TypeParts, RunAssumption DEF TypeInv, CallType
    <3> QED BY <1>1, <3>1, RunAssumption
            DEF AttemptInv, CurrentInv, InRequest, NothingBeyond, Unused, Attempts
  <2>2. pc = "judging" => entry[Current] = "reserved" /\ permits[Current] = 1
    BY <1>1, CurrentType DEF AttemptInv, CurrentInv, InRequest, RequestInv, Accounted, Faults,
                             NotStarted
  <2>3. pc = "observed" => permits[Answered(Number)] = 1
    BY <1>1, ProjectedType DEF AttemptInv, ResponseInv, InProjection, RequestInv, Accounted
  <2> QED BY <2>1, <2>2, <2>3 DEF KeysAreUnspent
<1> QED BY <1>1, AttemptAlways, PTL

-----------------------------------------------------------------------------
(* The conversation. *)

LEMMA CompletedCount ==
  ASSUME NEW m \in Nat, completed = 1..m
  PROVE  Cardinality(completed) = m
BY FS_Interval

(***************************************************************************)
(* Every step keeps the conversation without gaps; only the completion of  *)
(* a turn extends it.                                                      *)
(***************************************************************************)
LEMMA ConversingStep ==
  ASSUME TypeInv, AttemptInv, NEW m \in 0..MaxTurns, Conversing(m), [Next]_vars
  PROVE  \E l \in 0..MaxTurns : Conversing(l)'
<1> USE RunAssumption DEF Conversing, Working, PCs, Awaits, Ending, Judged, InRequest,
        InProjection, Number, request, Goto, Raise
<1>a. turn \in Nat /\ m \in Nat /\ JournalType /\ PositionInv /\ CurrentInv
  BY TypeParts DEF TypeInv, CallType, AttemptInv
<1>1. ASSUME CallRun \/ Crash \/ ReopenTerminal \/ WorkerIsDone
      PROVE  Conversing(m)'
  BY <1>1, <1>a DEF CallRun, Crash, ReopenTerminal, WorkerIsDone, Return, Forget, journal
<1>2. ASSUME ResumeFailure \/ StartWorker \/ RefuseUnresolved
      PROVE  Conversing(m)'
  BY <1>2, <1>a DEF ResumeFailure, StartWorker, RefuseUnresolved, journal
<1>3. ASSUME Cancel \/ LoseWorker \/ RefuseRequest \/ RefuseReservation \/ RefuseResponse
             \/ RefuseTool
      PROVE  Conversing(m)'
  BY <1>3, <1>a DEF Cancel, LoseWorker, RefuseRequest, RefuseReservation, RefuseResponse,
     RefuseTool, journal
<1>4. ASSUME ReplayTurn
      PROVE  Conversing(m)'
  BY <1>4, <1>a DEF ReplayTurn, Record, journal
<1>5. ASSUME CompleteTurn
      PROVE  m + 1 \in 0..MaxTurns /\ Conversing(m + 1)'
  <2>1. turn = m /\ Number \in Turns /\ Number \in started
    <3>1. turn = m /\ Number \in Turns /\ response[Number] # "none"
      BY <1>5, <1>a DEF CompleteTurn, AttemptInv, ResponseInv, PositionInv
    <3> QED BY <3>1 DEF AttemptInv, RetriesInv, Untouched
  <2>2. completed' = 1..(m + 1) /\ started' = 1..(m + 1)
    BY <1>5, <1>a, <2>1 DEF CompleteTurn
  <2>3. turn' = m + 1 /\ pc' \in {"closing", "turned"}
    BY <1>5, <2>1 DEF CompleteTurn, Record
  <2> QED BY <1>a, <2>1, <2>2, <2>3 DEF Turns
<1>6. ASSUME ReplayResponse \/ Admit
      PROVE  Conversing(m)'
  <2>1. pc = "thinking" /\ Number \in Turns /\ Number \notin completed
        /\ pc' \in {"received", "admitted"} /\ UNCHANGED <<turn, started, completed>>
    BY <1>6 DEF ReplayResponse, Admit, IsFresh, journal
  <2> QED BY <1>a, <2>1 DEF Turns
<1>7. ASSUME StartTurn
      PROVE  Conversing(m)'
  <2>1. Number \notin started /\ turn = m
    BY <1>7, <1>a DEF StartTurn, CurrentInv
  <2>2. started' = 1..(m + 1) /\ completed' = completed /\ turn' = turn /\ pc' = "attempting"
    BY <1>7, <1>a, <2>1 DEF StartTurn
  <2> QED BY <1>a, <2>1, <2>2
<1>8. ASSUME Reserve \/ Dispatch \/ AttemptFails \/ JudgeFailure
      PROVE  Conversing(m)'
  BY <1>8, <1>a DEF Reserve, Dispatch, AttemptFails, JudgeFailure, journal
<1>9. ASSUME ReceiveResponse \/ ObserveSuccess \/ SettleUsage
      PROVE  Conversing(m)'
  BY <1>9, <1>a DEF ReceiveResponse, ObserveSuccess, SettleUsage, journal
<1>10. ASSUME ExecuteTool \/ Correct \/ AcceptProposal \/ ValidateJudgment \/ FinishJudgment
       PROVE  Conversing(m)'
  BY <1>10, <1>a DEF ExecuteTool, Correct, AcceptProposal, ValidateJudgment, FinishJudgment,
     journal
<1>11. ASSUME CloseWorker \/ RecordProviderFailure \/ RecordInterruption \/ RecordFailure
              \/ CommitFailure
       PROVE  Conversing(m)'
  BY <1>11, <1>a DEF CloseWorker, RecordProviderFailure, RecordInterruption, RecordFailure,
     CommitFailure, Return, Forget, journal
<1>12. ASSUME NEW k \in Requests, Post(k)
       PROVE  Conversing(m)'
  BY <1>12, <1>a DEF Post, journal
<1>13. CASE UNCHANGED vars
  BY <1>13, <1>a DEF vars, journal
<1> QED
  BY <1>1, <1>2, <1>3, <1>4, <1>5, <1>6, <1>7, <1>8, <1>9, <1>10, <1>11, <1>12, <1>13
  DEF Next, Harness, Callback

(***************************************************************************)
(* Every step keeps the open turns: none, or the one under way.            *)
(***************************************************************************)
LEMMA OpenStep ==
  ASSUME TypeInv, AttemptInv, ConversationInv, [Next]_vars
  PROVE  OpenInv'
<1> USE DEF OpenInv, Working, PCs, Awaits, Ending, Judged, InRequest, Goto, Raise
<1>a. OpenInv /\ JournalType /\ PositionInv
  BY TypeParts DEF ConversationInv, TypeInv
<1>b. PICK m \in 0..MaxTurns : Conversing(m)
  BY DEF ConversationInv
<1>c. ASSUME UNCHANGED <<started, completed, response>>
      PROVE  Unresolved' = Unresolved
  BY <1>c DEF Unresolved
<1>d. ASSUME UNCHANGED turn
      PROVE  Number' = Number
  BY <1>d DEF Number
<1>1. ASSUME CallRun \/ Crash \/ ReopenTerminal \/ WorkerIsDone \/ ResumeFailure
      PROVE  OpenInv'
  BY <1>1 DEF CallRun, Crash, ReopenTerminal, WorkerIsDone, ResumeFailure, Return, Forget
<1>2. ASSUME StartWorker
      PROVE  OpenInv'
  BY <1>2, <1>c DEF StartWorker, journal
<1>3. ASSUME RefuseUnresolved
      PROVE  OpenInv'
  <2>1. m \in Nat /\ completed = 1..m /\ started \in {1..m, 1..(m + 1)}
    BY <1>b, RunAssumption DEF Conversing
  <2>2. Unresolved \subseteq {m + 1}
    BY <2>1 DEF Unresolved
  <2>3. turn' = m
    BY <1>3, <2>1, CompletedCount DEF RefuseUnresolved
  <2>4. Unresolved' = Unresolved /\ pc' = "failing"
    BY <1>3, <1>c DEF RefuseUnresolved, journal
  <2> QED BY <2>2, <2>3, <2>4 DEF Number
<1>4. ASSUME Cancel \/ LoseWorker \/ RefuseRequest \/ RefuseReservation \/ RefuseResponse
             \/ RefuseTool
      PROVE  OpenInv'
  <2>1. /\ Unresolved' = Unresolved /\ Number' = Number /\ pc' = "closing"
        /\ pc \in Awaits \cup {"received"}
    BY <1>4, <1>c, <1>d DEF Cancel, LoseWorker, RefuseRequest, RefuseReservation,
       RefuseResponse, RefuseTool, journal
  <2> QED BY <2>1, <1>a
<1>5. ASSUME ReplayTurn
      PROVE  OpenInv'
  <2>1. Unresolved' = Unresolved /\ Unresolved = {} /\ pc' \in {"closing", "turned"}
    BY <1>5, <1>a, <1>c DEF ReplayTurn, Record, journal
  <2> QED BY <2>1
<1>6. ASSUME CompleteTurn
      PROVE  OpenInv'
  <2>1. Unresolved' \subseteq Unresolved
    BY <1>6 DEF CompleteTurn, Unresolved
  <2>2. Unresolved = {} /\ pc' \in {"closing", "turned"}
    BY <1>6, <1>a DEF CompleteTurn, Record
  <2> QED BY <2>1, <2>2
<1>7. ASSUME ReplayResponse \/ Admit
      PROVE  OpenInv'
  BY <1>7, <1>a, <1>c DEF ReplayResponse, Admit, journal
<1>8. ASSUME StartTurn
      PROVE  OpenInv'
  <2>1. Unresolved' \subseteq Unresolved \cup {Number}
    BY <1>8 DEF StartTurn, Unresolved
  <2>2. Unresolved = {} /\ Number' = Number /\ pc' = "attempting"
    BY <1>8, <1>a, <1>d DEF StartTurn
  <2> QED BY <2>1, <2>2
<1>9. ASSUME Reserve \/ Dispatch \/ AttemptFails \/ JudgeFailure
      PROVE  OpenInv'
  <2>1. /\ Unresolved' = Unresolved /\ Number' = Number /\ Unresolved \subseteq {Number}
        /\ pc' \in InRequest \cup {"closing"}
    BY <1>9, <1>a, <1>c, <1>d DEF Reserve, Dispatch, AttemptFails, JudgeFailure, journal
  <2> QED BY <2>1
<1>10. ASSUME ReceiveResponse
       PROVE  OpenInv'
  <2>1. /\ Unresolved \subseteq {Number} /\ Number \in Turns /\ pc' = "received"
        /\ UNCHANGED <<started, completed>>
    BY <1>10, <1>a DEF ReceiveResponse, PositionInv
  <2>2. response'[Number] # "none" /\ \A n \in Turns \ {Number} : response'[n] = response[n]
    BY <1>10, <1>a, <2>1 DEF ReceiveResponse, JournalType, Contents
  <2>3. Unresolved' = {}
    BY <1>a, <2>1, <2>2 DEF Unresolved, JournalType
  <2> QED BY <2>1, <2>3
<1>11. ASSUME ObserveSuccess \/ SettleUsage
       PROVE  OpenInv'
  BY <1>11, <1>a, <1>c DEF ObserveSuccess, SettleUsage, journal
<1>12. ASSUME ExecuteTool \/ Correct \/ AcceptProposal \/ ValidateJudgment \/ FinishJudgment
       PROVE  OpenInv'
  BY <1>12, <1>a, <1>c DEF ExecuteTool, Correct, AcceptProposal, ValidateJudgment,
     FinishJudgment, journal
<1>13. ASSUME CloseWorker \/ RecordProviderFailure \/ RecordInterruption \/ RecordFailure
              \/ CommitFailure
       PROVE  OpenInv'
  BY <1>13, <1>a, <1>c, <1>d DEF CloseWorker, RecordProviderFailure, RecordInterruption,
     RecordFailure, CommitFailure, Return, Forget, journal
<1>14. ASSUME NEW k \in Requests, Post(k)
       PROVE  OpenInv'
  BY <1>14, <1>a, <1>c, <1>d DEF Post, journal
<1>15. CASE UNCHANGED vars
  BY <1>15, <1>a, <1>c, <1>d DEF vars, journal
<1> QED
  BY <1>1, <1>2, <1>3, <1>4, <1>5, <1>6, <1>7, <1>8, <1>9, <1>10, <1>11, <1>12, <1>13,
     <1>14, <1>15 DEF Next, Harness, Callback

LEMMA ConversationStep ==
  ASSUME TypeInv, AttemptInv, ConversationInv, [Next]_vars
  PROVE  ConversationInv'
BY ConversingStep, OpenStep DEF ConversationInv

LEMMA ConversationInit == Init => ConversationInv
<1> SUFFICES ASSUME Init PROVE ConversationInv
  OBVIOUS
<1>1. OpenInv
  BY DEF Init, OpenInv, Unresolved, Working, Ending, InRequest
<1>2. 0 \in 0..MaxTurns /\ 1..0 = {}
  BY RunAssumption
<1>3. Conversing(0)
  BY <1>2 DEF Init, Conversing, Working, InRequest, InProjection, Ending, Judged
<1> QED BY <1>1, <1>2, <1>3 DEF ConversationInv

LEMMA ConversationAlways == Spec => [](TypeInv /\ AttemptInv /\ ConversationInv)
BY AttemptAlways, ConversationInit, ConversationStep, PTL DEF Spec

(***************************************************************************)
(* What a step never takes back.                                           *)
(***************************************************************************)
LEMMA Kept ==
  ASSUME TypeInv, AttemptInv, [Next]_vars
  PROVE  /\ \A n \in Turns : response[n] # "none" =>
              response'[n] = response[n] /\ answers'[n] = answers[n]
         /\ tooled \subseteq tooled'
         /\ \A k \in Requests : entry[k] = "settled" => entry'[k] = "settled"
<1>a. JournalType /\ RequestType /\ CurrentInv
  BY TypeParts DEF TypeInv, AttemptInv
<1>1. \A n \in Turns : response[n] # "none" =>
        response'[n] = response[n] /\ answers'[n] = answers[n]
  <2>1. CASE ReceiveResponse
    <3>1. response[Number] = "none"
      BY <2>1, <1>a DEF ReceiveResponse, CurrentInv, InRequest
    <3>2. PICK c \in Contents : response' = [response EXCEPT ![Number] = c]
      BY <2>1 DEF ReceiveResponse
    <3>3. answers' = [answers EXCEPT ![Number] = tried]
      BY <2>1 DEF ReceiveResponse
    <3> QED BY <3>1, <3>2, <3>3, <1>a DEF JournalType
  <2>2. CASE UNCHANGED <<response, answers>>
    BY <2>2
  <2> QED BY <2>1, <2>2, Writers
          DEF journal, StartTurn, Dispatch, AttemptFails, ObserveSuccess, CompleteTurn, ExecuteTool
<1>2. tooled \subseteq tooled'
  BY Writers DEF journal, StartTurn, Dispatch, AttemptFails, ReceiveResponse, ObserveSuccess,
     CompleteTurn, ExecuteTool
<1>3. ASSUME NEW k \in Requests, entry[k] = "settled"
      PROVE  entry'[k] = "settled"
  <2>1. entry = [r \in Requests |-> entry[r]]
    BY <1>a DEF RequestType, Budget!TypeOK
  <2> QED BY <2>1, <1>3, Writers DEF budget, Reserve, Dispatch, JudgeFailure, SettleUsage,
     Budget!Reserve, Budget!Permit, Budget!Settle, Budget!Enter
<1> QED BY <1>1, <1>2, <1>3

(***************************************************************************)
(* What is reported stays reported: a run that has failed starts nothing.  *)
(***************************************************************************)
LEMMA ReportStep ==
  ASSUME TypeInv, OutcomeInv, AttemptInv, ConversationInv, ReportInv, [Next]_vars
  PROVE  ReportInv'
<1> USE DEF ReportInv, AmbiguityIsReported
<1>a. JournalType /\ EndingType /\ PositionInv /\ ResponseInv
  BY TypeParts DEF TypeInv, AttemptInv
<1>b. pc \in Working \cup Ending \cup {"finishing", "done"} => failure = "none"
  BY DEF OutcomeInv
<1>1. \A n \in completed' : response'[n] # "none"
  <2>1. \A n \in completed : response'[n] # "none"
    BY <1>a, Kept DEF JournalType
  <2>2. CASE UNCHANGED completed
    BY <2>1, <2>2
  <2>3. CASE CompleteTurn
    BY <2>1, <2>3, <1>a DEF CompleteTurn, ResponseInv, InProjection
  <2> QED BY <2>2, <2>3, Writers DEF journal, StartTurn, Dispatch, AttemptFails,
          ReceiveResponse, ObserveSuccess, ExecuteTool
<1>2. CASE RecordInterruption
  <2>1. Unresolved \subseteq {Number}
    BY <1>2 DEF RecordInterruption, ConversationInv, OpenInv, Ending
  <2>2. interrupted' = IF IsInterrupted THEN interrupted \cup {Number} ELSE interrupted
    BY <1>2 DEF RecordInterruption
  <2>3. UNCHANGED <<started, response, completed, failed, failure>> /\ failure = "none"
    BY <1>2, <1>b DEF RecordInterruption, journal, Ending
  <2>4. ASSUME NEW n \in started, response[n] = "none"
        PROVE  n \in failed \cup interrupted'
    <3>1. n \in Unresolved
      BY <2>4 DEF Unresolved
    <3>2. n = Number /\ n \notin completed
      BY <2>1, <3>1 DEF Unresolved
    <3> QED BY <2>2, <2>4, <3>2 DEF IsInterrupted
  <2> QED BY <2>3, <2>4, <1>1 DEF Reported
<1>3. CASE RecordFailure
  <2>1. UNCHANGED <<started, response, failed, interrupted>> /\ Reported
        /\ pc' # "terminating"
    BY <1>3 DEF RecordFailure, Goto, Return, Forget, journal
  <2> QED BY <2>1, <1>1 DEF Reported
<1>4. CASE StartTurn \/ ReceiveResponse \/ CompleteTurn
  <2>1. failure' = "none" /\ pc' # "terminating"
    BY <1>4, <1>b DEF StartTurn, ReceiveResponse, CompleteTurn, Record, Goto, ending,
       Working, PCs, Awaits, Ending, Judged
  <2> QED BY <2>1, <1>1
<1>5. CASE RecordProviderFailure
  <2>1. failure' = "none" /\ pc' # "terminating"
    BY <1>5, <1>b DEF RecordProviderFailure, Goto, Ending
  <2> QED BY <2>1, <1>1
<1>6. CASE UNCHANGED <<started, response, failed, interrupted, failure>>
           /\ (pc' = "terminating" => pc = "terminating")
  BY <1>6, <1>1 DEF Reported
<1>7. \/ StartTurn \/ ReceiveResponse \/ CompleteTurn \/ RecordProviderFailure
      \/ RecordInterruption \/ RecordFailure
      \/ UNCHANGED <<started, response, failed, interrupted, failure>>
  BY Writers DEF journal, ending, Dispatch, AttemptFails, ObserveSuccess, ExecuteTool,
     ValidateJudgment, FinishJudgment, CommitFailure
<1>8. RecordInterruption \/ (pc' = "terminating" => pc = "terminating")
  <2> USE DEF Goto, Raise, Return, Forget, Record
  <2>1. CASE UNCHANGED vars
    BY <2>1 DEF vars
  <2>2. CASE Harness
    BY <2>2 DEF Harness, ReopenTerminal, ResumeFailure, RefuseUnresolved, StartWorker,
       Dispatch, JudgeFailure, RefuseResponse, ObserveSuccess, SettleUsage, CompleteTurn,
       FinishJudgment, CloseWorker, RecordProviderFailure, RecordFailure, CommitFailure
  <2>3. CASE Callback
    BY <2>3 DEF Callback, ReplayTurn, ReplayResponse, Admit, RefuseRequest, StartTurn,
       Reserve, RefuseReservation, AttemptFails, ReceiveResponse, ExecuteTool, RefuseTool,
       Correct, AcceptProposal, ValidateJudgment, WorkerIsDone
  <2> QED BY <2>1, <2>2, <2>3 DEF Next, CallRun, Cancel, LoseWorker, Crash, Post
<1> QED BY <1>2, <1>3, <1>4, <1>5, <1>6, <1>7, <1>8

LEMMA ReportInit == Init => ReportInv
BY DEF Init, ReportInv, AmbiguityIsReported

(***************************************************************************)
(* A run that has failed names every request it cannot account for, in     *)
(* whichever life it was made.                                             *)
(***************************************************************************)
THEOREM AmbiguityReported == Spec => []AmbiguityIsReported
<1>1. ReportInv => AmbiguityIsReported
  BY DEF ReportInv
<1>2. TypeInv /\ OutcomeInv /\ AttemptInv /\ ConversationInv /\ ReportInv /\ [Next]_vars
        => ReportInv'
  BY ReportStep
<1> QED BY <1>1, <1>2, ReportInit, ConversationAlways, OutcomeAlways, PTL DEF Spec

-----------------------------------------------------------------------------
(* A judgement and the conversation behind it. *)

(***************************************************************************)
(* The turns that have responses: those that completed, and so all that    *)
(* came before a turn that was started.                                    *)
(***************************************************************************)
LEMMA PassedKept ==
  ASSUME TypeInv, AttemptInv, ConversationInv, ReportInv, [Next]_vars,
         NEW n \in completed
  PROVE  /\ Invalid(n)' = Invalid(n)
         /\ Passed(n) => Passed(n)'
<1>1. PICK m \in 0..MaxTurns : completed = 1..m
  BY DEF ConversationInv, Conversing
<1>2. n \in 1..n /\ 1..n \subseteq completed
  BY <1>1, RunAssumption
<1>3. \A i \in 1..n : response'[i] = response[i]
  BY <1>2, Kept, TypeParts DEF ReportInv, TypeInv, JournalType
<1>4. Invalid(n)' = Invalid(n)
  BY <1>3 DEF Invalid
<1>5. response'[n] = response[n] /\ tooled \subseteq tooled'
  BY <1>2, <1>3, Kept
<1> QED BY <1>4, <1>5 DEF Passed

LEMMA StartedAfter ==
  ASSUME ConversationInv, NEW n \in Turns, n + 1 \in started
  PROVE  n \in completed
<1>1. PICK m \in 0..MaxTurns : completed = 1..m /\ started \in {1..m, 1..(m + 1)}
  BY DEF ConversationInv, Conversing
<1> QED BY <1>1, RunAssumption DEF Turns

(***************************************************************************)
(* The turn that the call looks at, of those that completed.               *)
(***************************************************************************)
LEMMA TurnCompleted ==
  ASSUME TypeInv, ConversationInv, pc \in Working, turn # 0
  PROVE  turn \in completed /\ turn \in started
<1>1. PICK m \in 0..MaxTurns :
        completed = 1..m /\ started \in {1..m, 1..(m + 1)} /\ turn <= m
  BY DEF ConversationInv, Conversing
<1>2. turn \in 0..MaxTurns
  BY TypeParts DEF TypeInv, CallType
<1> QED BY <1>1, <1>2, RunAssumption

(***************************************************************************)
(* A turn that needs no correction adds none.                              *)
(***************************************************************************)
LEMMA InvalidBound ==
  ASSUME TypeInv, ConversationInv, BackedInv, NEW n \in completed, response[n] # "invalid"
  PROVE  Cardinality(Invalid(n)) <= MaxCorrections
<1>1. PICK m \in 0..MaxTurns : completed = 1..m /\ started \in {1..m, 1..(m + 1)}
  BY DEF ConversationInv, Conversing
<1>2. n \in 1..m /\ n \in started
  BY <1>1, RunAssumption
<1>3. Invalid(n) = Invalid(n - 1)
  BY <1>2 DEF Invalid
<1>4. CASE n = 1
  <2>1. Invalid(0) = {}
    BY DEF Invalid
  <2> QED BY <1>3, <1>4, <2>1, FS_EmptySet, RunAssumption
<1>5. CASE n # 1
  <2>1. n - 1 \in Turns /\ (n - 1) + 1 \in started
    BY <1>1, <1>2, <1>5, RunAssumption DEF Turns
  <2>2. Passed(n - 1)
    BY <2>1 DEF BackedInv
  <2> QED BY <1>3, <2>2 DEF Passed
<1> QED BY <1>4, <1>5

(***************************************************************************)
(* What was started follows what is done with.                             *)
(***************************************************************************)
LEMMA StartedStep ==
  ASSUME TypeInv, AttemptInv, ConversationInv, ReportInv, BackedInv, [Next]_vars,
         NEW n \in Turns, n + 1 \in started'
  PROVE  Passed(n)'
<1>1. CASE n + 1 \in started
  BY <1>1, StartedAfter, PassedKept DEF BackedInv
<1>2. CASE n + 1 \notin started
  <2>1. StartTurn
    BY <1>2, Writers DEF journal, Dispatch, AttemptFails, ReceiveResponse, ObserveSuccess,
       CompleteTurn, ExecuteTool
  <2>2. n + 1 = Number /\ pc = "admitted"
    BY <1>2, <2>1 DEF StartTurn
  <2>3. n = turn /\ turn # 0
    BY <2>2, RunAssumption, TypeParts DEF Number, TypeInv, CallType, Turns
  <2> QED BY <2>2, <2>3, TurnCompleted, PassedKept
          DEF BackedInv, Working, PCs, Awaits, Ending, Judged
<1> QED BY <1>1, <1>2

(***************************************************************************)
(* A call begins with no turns counted.                                    *)
(***************************************************************************)
LEMMA OpeningTurn ==
  ASSUME ConversationInv, pc = "opening"
  PROVE  turn = 0
BY DEF ConversationInv, Conversing

(***************************************************************************)
(* The loop goes on only from a turn that is done with.                    *)
(***************************************************************************)
LEMMA LoopStep ==
  ASSUME TypeInv, AttemptInv, ConversationInv, ReportInv, BackedInv, [Next]_vars,
         pc' \in {"thinking", "admitted"}, turn' # 0
  PROVE  Passed(turn)'
<1>1. \/ ExecuteTool \/ Correct
      \/ pc \in {"thinking", "admitted"} /\ UNCHANGED turn
      \/ turn' = 0
  <2> USE DEF Goto, Raise, Return, Forget, Record
  <2>1. CASE UNCHANGED vars
    BY <2>1 DEF vars
  <2>2. CASE Harness
    <3>1. CASE StartWorker
      BY <3>1, OpeningTurn DEF StartWorker
    <3> QED BY <2>2, <3>1 DEF Harness, ReopenTerminal, ResumeFailure, RefuseUnresolved,
       Dispatch, JudgeFailure, RefuseResponse, ObserveSuccess, SettleUsage, CompleteTurn,
       FinishJudgment, CloseWorker, RecordProviderFailure, RecordInterruption,
       RecordFailure, CommitFailure
  <2>3. CASE Callback
    BY <2>3 DEF Callback, ReplayTurn, ReplayResponse, Admit, RefuseRequest, StartTurn,
       Reserve, RefuseReservation, AttemptFails, ReceiveResponse, RefuseTool,
       AcceptProposal, ValidateJudgment, WorkerIsDone
  <2> QED BY <2>1, <2>2, <2>3 DEF Next, CallRun, Cancel, LoseWorker, Crash, Post
<1>2. CASE pc \in {"thinking", "admitted"} /\ UNCHANGED turn
  BY <1>2, TurnCompleted, PassedKept DEF BackedInv, Working, PCs, Awaits, Ending, Judged
<1>3. CASE ExecuteTool \/ Correct
  <2>1. pc = "turned" /\ UNCHANGED turn /\ UNCHANGED response /\ turn \in completed
    BY <1>3, TurnCompleted DEF ExecuteTool, Correct, Goto, Raise, journal, Working, PCs,
       Awaits, Ending, Judged
  <2>2. CASE ExecuteTool
    <3>1. response[turn] = "tools" /\ turn \in tooled'
      BY <2>2 DEF ExecuteTool
    <3>2. Cardinality(Invalid(turn)) <= MaxCorrections
      BY <2>1, <3>1, InvalidBound
    <3>3. Invalid(turn)' = Invalid(turn)
      BY <2>1 DEF Invalid
    <3> QED BY <2>1, <3>1, <3>2, <3>3 DEF Passed
  <2>3. CASE Correct
    <3>1. response[turn] = "invalid" /\ ~(Cardinality(Invalid(turn)) > MaxCorrections)
      BY <2>3 DEF Correct, Corrections, Invalid, Raise
    <3>2. Cardinality(Invalid(turn)) \in Nat
      <4>1. Invalid(turn) \subseteq 1..turn /\ IsFiniteSet(1..turn)
        BY FS_Interval, TypeParts, RunAssumption DEF Invalid, TypeInv, CallType
      <4> QED BY <4>1, FS_Subset, FS_CardinalityType
    <3>3. Invalid(turn)' = Invalid(turn)
      BY <2>1 DEF Invalid
    <3> QED BY <2>1, <3>1, <3>2, <3>3, RunAssumption DEF Passed
  <2> QED BY <1>3, <2>2, <2>3
<1> QED BY <1>1, <1>2, <1>3

(***************************************************************************)
(* A judgement is validated on top of a conversation that backs it.        *)
(***************************************************************************)
Backing(last) ==
  /\ completed = 1..last /\ started = completed
  /\ response[last] = "final"
  /\ \A n \in 1..(last - 1) :
       (response[n] = "tools" /\ n \in tooled) \/ response[n] = "invalid"
  /\ Cardinality(Invalid(last)) <= MaxCorrections
  /\ \A n \in completed : entry[Answered(n)] = "settled"

LEMMA BackingMeans ==
  /\ CompletedIsBacked /\ validated => \E last \in Turns : Backing(last)
  /\ \A last \in Turns : Backing(last)' => CompletedIsBacked'
BY DEF CompletedIsBacked, Backing, Invalid

LEMMA JudgedOnBacking ==
  ASSUME TypeInv, ConversationInv, ReportInv, BackedInv, pc = "ended"
  PROVE  turn \in Turns /\ Backing(turn)
<1>1. PICK m \in 0..MaxTurns :
        completed = 1..m /\ started \in {1..m, 1..(m + 1)} /\ turn <= m
  BY DEF ConversationInv, Conversing, Working, PCs, Awaits, Ending, Judged
<1>2. turn \in completed /\ response[turn] = "final" /\ turn \in Turns /\ turn \in 1..m
  BY <1>1, TurnCompleted, TypeParts
  DEF BackedInv, Working, PCs, Awaits, Ending, Judged, TypeInv, JournalType
<1>3. turn + 1 \notin started
  BY <1>2 DEF BackedInv, Passed
<1>4. turn = m /\ started = 1..m
  BY <1>1, <1>2, <1>3, RunAssumption
<1>5. ASSUME NEW n \in 1..(turn - 1)
      PROVE  Passed(n)
  <2>1. n \in Turns /\ n + 1 \in started
    BY <1>2, <1>4, <1>5, RunAssumption DEF Turns
  <2> QED BY <2>1 DEF BackedInv
<1>6. Cardinality(Invalid(turn)) <= MaxCorrections
  BY <1>2, InvalidBound
<1> QED BY <1>1, <1>2, <1>4, <1>5, <1>6 DEF Backing, BackedInv, Passed

(***************************************************************************)
(* Once it is validated the conversation goes no further.                  *)
(***************************************************************************)
LEMMA BackingStays ==
  ASSUME TypeInv, AttemptInv, ConversationInv, ReportInv, BackedInv, [Next]_vars,
         NEW last \in Turns, Backing(last)
  PROVE  Backing(last)'
<1>1. completed = 1..last /\ started = 1..last /\ response[last] = "final" /\ last \in completed
  BY RunAssumption DEF Backing, Turns
<1>2. PICK m \in 0..MaxTurns : Conversing(m)
  BY DEF ConversationInv
<1>3. m = last
  BY <1>1, <1>2, RunAssumption DEF Conversing, Turns
<1>4. ~StartTurn
  <2> SUFFICES ASSUME StartTurn PROVE FALSE
    OBVIOUS
  <2>1. pc = "admitted" /\ turn = last /\ turn # 0
    BY <1>2, <1>3, RunAssumption DEF StartTurn, Conversing, Turns
  <2> QED BY <2>1, <1>1 DEF BackedInv, Passed
<1>5. ~CompleteTurn
  <2> SUFFICES ASSUME CompleteTurn PROVE FALSE
    OBVIOUS
  <2>1. pc = "settled" /\ turn = last /\ Number \in Turns /\ response[Number] # "none"
    BY <1>2, <1>3, TypeParts
    DEF CompleteTurn, Conversing, InProjection, TypeInv, PositionInv, AttemptInv, ResponseInv
  <2>2. Number \in started
    BY <2>1 DEF AttemptInv, RetriesInv, Untouched
  <2> QED BY <1>1, <2>1, <2>2, RunAssumption DEF Number, Turns
<1>6. UNCHANGED <<started, completed>>
  BY <1>4, <1>5, Writers DEF journal, Dispatch, AttemptFails, ReceiveResponse,
     ObserveSuccess, ExecuteTool
<1>7. \A n \in completed : n \in Turns /\ response[n] # "none"
  BY TypeParts DEF ReportInv, TypeInv, JournalType
<1>8. \A n \in completed : response'[n] = response[n] /\ Answered(n)' = Answered(n)
  BY <1>7, Kept DEF Answered
<1>9. \A n \in completed : entry'[Answered(n)'] = "settled"
  <2>1. \A n \in completed : Answered(n) \in Requests
    BY <1>7, AnsweredType DEF AttemptInv
  <2> QED BY <1>8, <2>1, Kept DEF Backing
<1>10. Invalid(last)' = Invalid(last)
  BY <1>1, PassedKept
<1>11. \A n \in 1..(last - 1) : n \in completed
  BY <1>1, RunAssumption DEF Turns
<1> QED BY <1>1, <1>6, <1>8, <1>9, <1>10, <1>11, Kept DEF Backing

LEMMA BackedStep ==
  ASSUME TypeInv, AttemptInv, ConversationInv, ReportInv, BackedInv, [Next]_vars
  PROVE  BackedInv'
<1>1. CompletedIsBacked'
  <2>1. CASE validated
    BY <2>1, BackingStays, BackingMeans DEF BackedInv
  <2>2. CASE ValidateJudgment
    <3>1. turn \in Turns /\ Backing(turn)
      BY <2>2, JudgedOnBacking DEF ValidateJudgment
    <3> QED BY <3>1, BackingStays, BackingMeans
  <2>3. CASE ~validated /\ UNCHANGED validated
    BY <2>3 DEF CompletedIsBacked
  <2> QED BY <2>1, <2>2, <2>3, Writers, Zenon DEF ending, FinishJudgment,
          RecordProviderFailure, RecordInterruption, RecordFailure, CommitFailure
<1>2. \A n \in Turns : n + 1 \in started' => Passed(n)'
  BY StartedStep
<1>3. pc' \in {"thinking", "admitted"} /\ turn' # 0 => Passed(turn)'
  BY LoopStep
<1>4. pc' = "ended" => turn' # 0 /\ response'[turn'] = "final"
  <2>1. pc' # "ended" \/ AcceptProposal \/ (pc = "ended" /\ UNCHANGED <<turn, response>>)
    <3> USE DEF Goto, Raise, Return, Forget, Record
    <3>1. CASE UNCHANGED vars
      BY <3>1 DEF vars, journal
    <3>2. CASE Harness
      BY <3>2 DEF Harness, ReopenTerminal, ResumeFailure, RefuseUnresolved, StartWorker,
         Dispatch, JudgeFailure, RefuseResponse, ObserveSuccess, SettleUsage, CompleteTurn,
         FinishJudgment, CloseWorker, RecordProviderFailure, RecordInterruption,
         RecordFailure, CommitFailure
    <3>3. CASE Callback
      BY <3>3 DEF Callback, ReplayTurn, ReplayResponse, Admit, RefuseRequest, StartTurn,
         Reserve, RefuseReservation, AttemptFails, ReceiveResponse, ExecuteTool, RefuseTool,
         Correct, ValidateJudgment, WorkerIsDone
    <3> QED BY <3>1, <3>2, <3>3 DEF Next, CallRun, Cancel, LoseWorker, Crash, Post, journal
  <2>2. CASE AcceptProposal
    BY <2>2, TypeParts, RunAssumption
    DEF AcceptProposal, Goto, journal, TypeInv, PositionInv, Turns
  <2> QED BY <2>1, <2>2 DEF BackedInv
<1>5. pc' = "settled" => entry'[Answered(Number)'] = "settled"
  <2>1. \/ pc' # "settled" \/ SettleUsage
        \/ pc = "settled" /\ UNCHANGED <<turn, answers, entry>>
    BY Moves DEF Admit, StartTurn, Reserve, Dispatch, AttemptFails, JudgeFailure,
       ReceiveResponse, ReplayResponse, ObserveSuccess, Goto, Raise, journal, budget,
       InProjection
  <2>2. CASE SettleUsage
    <3>1. Answered(Number)' = Answered(Number) /\ Answered(Number) \in Requests
      BY <2>2, ProjectedType
      DEF SettleUsage, Goto, journal, Answered, Number, InProjection, AttemptInv
    <3>2. DOMAIN entry = Requests
      BY TypeParts DEF TypeInv, RequestType, Budget!TypeOK
    <3> QED BY <2>2, <3>1, <3>2 DEF SettleUsage, Budget!Settle, Budget!Enter, budget
  <2>3. CASE pc = "settled" /\ UNCHANGED <<turn, answers, entry>>
    BY <2>3 DEF BackedInv, Answered, Number
  <2> QED BY <2>1, <2>2, <2>3
<1>6. \A n \in completed' : entry'[Answered(n)'] = "settled"
  <2>1. ASSUME NEW n \in completed
        PROVE  entry'[Answered(n)'] = "settled"
    <3>1. n \in Turns /\ response[n] # "none" /\ entry[Answered(n)] = "settled"
      BY TypeParts DEF ReportInv, TypeInv, JournalType, BackedInv
    <3>2. Answered(n) \in Requests /\ Answered(n)' = Answered(n)
      BY <3>1, AnsweredType, Kept DEF AttemptInv, Answered
    <3> QED BY <3>1, <3>2, Kept
  <2>2. CASE UNCHANGED completed
    BY <2>1, <2>2
  <2>3. CASE CompleteTurn
    <3>1. entry'[Answered(Number)] = "settled" /\ UNCHANGED answers
      BY <2>3 DEF CompleteTurn, BackedInv, budget
    <3>2. Answered(Number) = <<Number, answers'[Number]>> /\ completed' = completed \cup {Number}
      BY <2>3, <3>1 DEF CompleteTurn, Answered
    <3>3. \A n \in completed : entry'[<<n, answers'[n]>>] = "settled"
      BY <2>1 DEF Answered
    <3>4. \A n \in completed' : entry'[<<n, answers'[n]>>] = "settled"
      BY <3>1, <3>2, <3>3
    <3> QED BY <3>4 DEF Answered
  <2> QED BY <2>2, <2>3, Writers DEF journal, StartTurn, Dispatch, AttemptFails,
          ReceiveResponse, ObserveSuccess, ExecuteTool
<1> QED BY <1>1, <1>2, <1>3, <1>4, <1>5, <1>6 DEF BackedInv

LEMMA BackedInit == Init => BackedInv
BY DEF Init, BackedInv, CompletedIsBacked

(***************************************************************************)
(* A run completes only on a final response to a conversation without      *)
(* gaps, every turn of it paid for: for any number of turns, corrections   *)
(* and lives.                                                              *)
(***************************************************************************)
THEOREM BackedJudgment == Spec => []CompletedIsBacked
<1>1. BackedInv => CompletedIsBacked
  BY DEF BackedInv
<1>2. TypeInv /\ OutcomeInv /\ AttemptInv /\ ConversationInv /\ ReportInv /\ [Next]_vars
        => ReportInv'
  BY ReportStep
<1>3. TypeInv /\ AttemptInv /\ ConversationInv /\ ReportInv /\ BackedInv /\ [Next]_vars
        => BackedInv'
  BY BackedStep
<1> QED BY <1>1, <1>2, <1>3, BackedInit, ReportInit, ConversationAlways, OutcomeAlways, PTL
        DEF Spec
=============================================================================
